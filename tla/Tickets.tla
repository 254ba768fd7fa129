------------------------------- MODULE Tickets -------------------------------
(***************************************************************************)
(* Opening a realtime socket from the SPA.  A browser socket cannot carry  *)
(* a bearer header, so the client asks for a ticket (api.rs), does the     *)
(* rest of its attempt (realtime.rs: the library loads its list first) and *)
(* presents the ticket on the upgrade; the server redeems it (hub.rs),     *)
(* checks the page's owner for a page socket and upgrades (socket.rs).     *)
(* The ticket also carries the trace of the attempt to the connection.     *)
(* Time is the age of a ticket.  Answers and upgrades can be lost, delayed *)
(* and, behind a proxy, delivered twice; the server can restart.           *)
(* Each client signs in as an owner of its own.  Its library loop and its  *)
(* page loop take turns.                                                   *)
(***************************************************************************)
EXTENDS Integers, FiniteSets

CONSTANTS
    Client,
    TicketId,     \* random, so an id in use is never drawn again
    Screen,       \* the traces a client's screens can be in
    Ttl           \* TICKET_TTL_SECONDS, in steps of the clock

ASSUME TicketsAssumption ==
    Ttl \in Nat \ {0}

VARIABLES
    tickets,    \* RealtimeHub.tickets
    answers,    \* tickets on their way to a client
    attempt,    \* the attempt of each client's loop
    screen,     \* the trace of the screen each client shows
    upgrades,   \* upgrade requests on their way
    checking,   \* page upgrades between their ticket and the owner check
    sockets,    \* upgraded connections
    uses,       \* history: how often each ticket was redeemed
    deleted     \* the clients whose page has been deleted

serverVars == <<tickets, checking, sockets, uses>>
ticketVars == <<serverVars, answers, attempt, screen, upgrades, deleted>>

Ticket == [id : TicketId, owner : Client, age : 0 .. Ttl, origin : Screen]
Waiting == [stage |-> "waiting"]
Attempt == {Waiting}
    \cup [stage : {"asking"}, parent : Screen]
    \cup [stage : {"ready", "opening", "open"}, parent : Screen,
          ticket : TicketId]
\* A caller the server has authenticated, and the ticket it did it with.
Caller == [client : Client, owner : Client, origin : Screen,
           ticket : TicketId, age : 0 .. Ttl]

TicketTypeOK ==
    /\ tickets \subseteq Ticket
    /\ \A t, u \in tickets : t.id = u.id => t = u
    /\ answers \subseteq [client : Client, ticket : TicketId]
    /\ attempt \in [Client -> Attempt]
    /\ screen \in [Client -> Screen]
    /\ upgrades \subseteq [client : Client, ticket : TicketId, page : BOOLEAN]
    /\ checking \subseteq Caller /\ sockets \subseteq Caller
    /\ uses \in [TicketId -> 0 .. 2]
    /\ deleted \subseteq Client

\* A ticket that nobody can present is as good as none, so its id may stand
\* for a new one.
Named == {a.ticket : a \in answers}
    \cup {u.ticket : u \in upgrades \cup checking \cup sockets}
    \cup {attempt[c].ticket : c \in {d \in Client :
            attempt[d].stage \in {"ready", "opening", "open"}}}

-----------------------------------------------------------------------------
(* The client.                                                             *)

\* The trace is taken before anything awaits, then the ticket is asked for.
start_attempt(c) ==
    /\ attempt[c] = Waiting
    /\ attempt' = [attempt EXCEPT ![c] =
                        [stage |-> "asking", parent |-> screen[c]]]
    /\ UNCHANGED <<serverVars, answers, screen, upgrades, deleted>>

\* The route changes and with it the trace, whatever the loop is doing.
start_screen(c) ==
    /\ \E s \in Screen \ {screen[c]} : screen' = [screen EXCEPT ![c] = s]
    /\ UNCHANGED <<serverVars, answers, attempt, upgrades, deleted>>

\* realtime_ticket of the server, for a caller the middleware let in.
issue_ticket(c) ==
    /\ attempt[c].stage = "asking"
    /\ \A a \in answers : a.client # c
    /\ \E id \in TicketId \ Named :
         /\ tickets' = {t \in tickets : t.id # id} \cup
                {[id |-> id, owner |-> c, age |-> 0,
                  origin |-> attempt[c].parent]}
         /\ uses' = [uses EXCEPT ![id] = 0]
         /\ answers' = answers \cup {[client |-> c, ticket |-> id]}
    /\ UNCHANGED <<checking, sockets, attempt, screen, upgrades, deleted>>

\* api::realtime_ticket returns.
ticket_arrives(a) ==
    /\ answers' = answers \ {a}
    /\ attempt' = [attempt EXCEPT ![a.client] =
            [stage |-> "ready", parent |-> @.parent, ticket |-> a.ticket]]
    /\ UNCHANGED <<serverVars, screen, upgrades, deleted>>

AtStage(a, stage) == [stage |-> stage, parent |-> a.parent, ticket |-> a.ticket]

\* WebSocket::open, of the library after its list or of the page on screen.
open_socket(c, page) ==
    /\ attempt[c].stage = "ready"
    /\ attempt' = [attempt EXCEPT ![c] = AtStage(@, "opening")]
    /\ upgrades' = upgrades \cup
            {[client |-> c, ticket |-> attempt[c].ticket, page |-> page]}
    /\ UNCHANGED <<serverVars, answers, screen, deleted>>

\* Mutant: the next attempt presents the ticket it still has.
KeepTicket(c) == [attempt EXCEPT ![c] =
    IF @.stage \in {"opening", "open"} THEN [@ EXCEPT !.stage = "ready"]
    ELSE Waiting]

\* The loop's second of pause, then a new attempt with a new ticket.
StartOver(c) == [attempt EXCEPT ![c] = Waiting]

\* The request, the list or the socket fails.
attempt_fails(c) ==
    /\ attempt[c] # Waiting
    /\ attempt' = StartOver(c)
    /\ answers' = {a \in answers : a.client # c}
    /\ UNCHANGED <<serverVars, screen, upgrades, deleted>>

-----------------------------------------------------------------------------
(* The server.                                                             *)

\* Mutant: the ticket is looked up and stays.
ConsumeKeeps(id) ==
    [left |-> {t \in tickets : t.age < Ttl},
     found |-> {t \in tickets : t.id = id /\ t.age < Ttl}]

\* Under one lock: the expired are swept, then the ticket is removed.
consume_ticket(id) ==
    LET live == {t \in tickets : t.age < Ttl}
    IN  [left |-> {t \in live : t.id # id},
         found |-> {t \in live : t.id = id}]

\* Mutant: the connection is put in the trace the client shows now.
CallerOnScreen(u, t) ==
    [client |-> u.client, owner |-> t.owner, origin |-> screen[u.client],
     ticket |-> t.id, age |-> t.age]

CallerOf(u, t) ==
    [client |-> u.client, owner |-> t.owner, origin |-> t.origin,
     ticket |-> t.id, age |-> t.age]

Connects(caller) ==
    /\ sockets' = sockets \cup {caller}
    /\ attempt' = IF attempt[caller.client].stage = "opening"
                       /\ attempt[caller.client].ticket = caller.ticket
                  THEN [attempt EXCEPT ![caller.client] = AtStage(@, "open")]
                  ELSE attempt

\* authenticate_realtime with the ticket of an upgrade: 401 without it; a
\* library socket is upgraded, a page socket has its owner checked first.
authenticate_realtime(u, again) ==
    LET redeemed == consume_ticket(u.ticket) IN
    /\ upgrades' = IF again THEN upgrades ELSE upgrades \ {u}
    /\ tickets' = redeemed.left
    /\ IF redeemed.found = {} THEN UNCHANGED <<uses, checking, sockets, attempt>>
       ELSE \E t \in redeemed.found :
              /\ uses' = [uses EXCEPT ![t.id] = @ + 1]
              /\ IF u.page
                 THEN /\ checking' = checking \cup {CallerOf(u, t)}
                      /\ UNCHANGED <<sockets, attempt>>
                 ELSE /\ Connects(CallerOf(u, t))
                      /\ UNCHANGED checking
    /\ UNCHANGED <<answers, screen, deleted>>

\* page_belongs_to_owner, then the upgrade or 403; the ticket is gone either
\* way.
page_socket(caller) ==
    /\ checking' = checking \ {caller}
    /\ IF caller.client \in deleted THEN UNCHANGED <<sockets, attempt>>
       ELSE Connects(caller)
    /\ UNCHANGED <<tickets, uses, answers, screen, upgrades, deleted>>

\* The ownership query fails, or the upgrade does.
upgrade_fails(caller) ==
    /\ checking' = checking \ {caller}
    /\ UNCHANGED <<tickets, sockets, uses, answers, attempt, screen, upgrades,
                   deleted>>

\* The stream of a connection whose client gave up ends.
close_socket(s) ==
    /\ attempt[s.client].stage = "open" =>
            attempt[s.client].ticket # s.ticket
    /\ sockets' = sockets \ {s}
    /\ UNCHANGED <<tickets, checking, uses, answers, attempt, screen,
                   upgrades, deleted>>

lose_upgrade(u) ==
    /\ upgrades' = upgrades \ {u}
    /\ UNCHANGED <<serverVars, answers, attempt, screen, deleted>>

\* Tickets live in memory.
hub_restart ==
    /\ tickets' = {} /\ checking' = {} /\ sockets' = {}
    /\ answers' = {}
    /\ attempt' = [c \in Client |-> Waiting]
    /\ UNCHANGED <<uses, screen, upgrades, deleted>>

delete_page(c) ==
    /\ c \notin deleted
    /\ deleted' = deleted \cup {c}
    /\ UNCHANGED <<serverVars, answers, attempt, screen, upgrades>>

tick ==
    /\ \E t \in tickets : t.age < Ttl
    /\ tickets' = {[t EXCEPT !.age = IF @ < Ttl THEN @ + 1 ELSE Ttl] :
                        t \in tickets}
    /\ UNCHANGED <<checking, sockets, uses, answers, attempt, screen,
                   upgrades, deleted>>

-----------------------------------------------------------------------------
TicketInit ==
    /\ tickets = {} /\ answers = {} /\ upgrades = {} /\ checking = {}
    /\ sockets = {} /\ deleted = {}
    /\ attempt = [c \in Client |-> Waiting]
    /\ screen \in [Client -> Screen]
    /\ uses = [id \in TicketId |-> 0]

TicketNext ==
    \/ \E c \in Client : start_attempt(c)
    \/ \E c \in Client : start_screen(c)
    \/ \E c \in Client : issue_ticket(c)
    \/ \E a \in answers : ticket_arrives(a)
    \/ \E c \in Client, page \in BOOLEAN : open_socket(c, page)
    \/ \E c \in Client : attempt_fails(c)
    \/ \E u \in upgrades, again \in BOOLEAN : authenticate_realtime(u, again)
    \/ \E caller \in checking : page_socket(caller)
    \/ \E caller \in checking : upgrade_fails(caller)
    \/ \E s \in sockets : close_socket(s)
    \/ \E u \in upgrades : lose_upgrade(u)
    \/ hub_restart
    \/ \E c \in Client : delete_page(c)
    \/ tick

TicketSpec == TicketInit /\ [][TicketNext]_ticketVars

\* Request u belongs to the attempt client c is making.
Current(c, u) ==
    /\ u.client = c /\ attempt[c].stage = "opening"
    /\ attempt[c].ticket = u.ticket

\* An attempt whose upgrade is gone or was refused.
Refused(c) ==
    /\ attempt[c].stage = "opening"
    /\ \A u \in upgrades \cup checking : ~ Current(c, u)

\* Requests are answered, lost or refused, and no step of an attempt fails
\* for ever.
TicketFairness ==
    /\ WF_ticketVars(tick) /\ WF_ticketVars(\E s \in sockets : close_socket(s))
    /\ \A c \in Client :
         /\ WF_ticketVars(start_attempt(c))
         /\ SF_ticketVars(issue_ticket(c))
         /\ SF_ticketVars(\E a \in answers : a.client = c /\ ticket_arrives(a))
         /\ SF_ticketVars(\E page \in BOOLEAN : open_socket(c, page))
         /\ WF_ticketVars(Refused(c) /\ attempt_fails(c))
         /\ SF_ticketVars(\E u \in upgrades :
                Current(c, u) /\ authenticate_realtime(u, FALSE))
         /\ SF_ticketVars(\E u \in upgrades : u.client = c /\ ~ Current(c, u)
                /\ authenticate_realtime(u, FALSE))
         /\ SF_ticketVars(\E caller \in checking :
                Current(c, caller) /\ page_socket(caller))
         /\ SF_ticketVars(\E caller \in checking : caller.client = c
                /\ ~ Current(c, caller) /\ page_socket(caller))

TicketLiveSpec == TicketSpec /\ TicketFairness

-----------------------------------------------------------------------------
(* Properties.                                                             *)

\* A ticket opens at most one connection, and only before it expires, also
\* when the upgrade is delivered twice, late, or after the attempt was given
\* up (consume_ticket sweeps and removes under one lock).
RedeemedOnceInTime ==
    /\ \A id \in TicketId : uses[id] <= 1
    /\ \A s \in sockets \cup checking : s.age < Ttl

\* The ticket map is typed and a ticket is redeemed once, in time
\* (issue_ticket, consume_ticket).
TicketsAreSound == TicketTypeOK /\ RedeemedOnceInTime

\* A connection is its client's own, and in the trace the attempt began in,
\* although the screen may have changed at any await since
\* (library_realtime_once captures its parent once, the ticket carries it).
ConnectionJoinsItsAttempt ==
    \A s \in sockets :
        /\ s.owner = s.client
        /\ attempt[s.client].stage = "open"
             /\ attempt[s.client].ticket = s.ticket
           => s.origin = attempt[s.client].parent

InUse == {t \in tickets : \E c \in Client :
             \/ attempt[c].stage \in {"ready", "opening"}
                  /\ attempt[c].ticket = t.id
             \/ [client |-> c, ticket |-> t.id] \in answers}

\* From some point on, an attempt takes less than the life of its ticket.
AttemptsAreTimely == <>[](\A t \in InUse : t.age < Ttl)

\* A loop that keeps trying connects again and again, after lost requests,
\* refused or expired tickets and restarts, unless its page is gone (every
\* attempt asks for a ticket of its own).
ClientsConnect ==
    AttemptsAreTimely =>
        \A c \in Client : []<>(attempt[c].stage = "open" \/ c \in deleted)
=============================================================================
