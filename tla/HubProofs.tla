------------------------------ MODULE HubProofs ------------------------------
(***************************************************************************)
(* Proofs about the two maps of RealtimeHub, each for every value of its   *)
(* constants.                                                              *)
(*                                                                         *)
(* The leases (EditLease): the inductive invariant is TypeOK with          *)
(* FreshGrantIsHeld, since exclusiveness by itself does not say why a      *)
(* second grant is refused, which is that the first one is still in the    *)
(* map and has not run out.                                                *)
(*                                                                         *)
(* The tickets (Tickets): that a ticket is redeemed once and by its own    *)
(* client says nothing of the copies of its id in flight.  The invariant   *)
(* follows an id from the map through the answer, the attempt and the      *)
(* upgrade to the connection: nobody but the client it was issued to ever  *)
(* has it, and one still in the map was never redeemed.                    *)
(***************************************************************************)
EXTENDS EditLease, Tickets, TLAPS

(* The leases.                                                             *)

LeaseInv == TypeOK /\ FreshGrantIsHeld

\* The initial state has no lease and no grant.
LEMMA LeaseInitial == Init => LeaseInv
BY LeaseAssumption DEF Init, LeaseInv, TypeOK, FreshGrantIsHeld, SocketState

\* Every handler, the clock and a restart keep the invariant.
LEMMA LeaseStep == LeaseInv /\ [Next]_vars => LeaseInv'
<1> SUFFICES ASSUME LeaseInv, [Next]_vars PROVE LeaseInv'
    OBVIOUS
<1> USE LeaseAssumption DEF LeaseInv, TypeOK, SocketState
<1>1. ASSUME NEW s \in Session, connect(s) PROVE LeaseInv'
    BY <1>1 DEF connect, current_lease_holder, LiveHolder, FreshGrantIsHeld
<1>2. ASSUME NEW s \in Session, Granted(s),
             socket' \in [Session -> SocketState],
             UNCHANGED <<mute, announced>>
      PROVE  LeaseInv'
    BY <1>2 DEF Granted, LiveHolder, FreshGrantIsHeld
<1>3. ASSUME NEW s \in Session, Denied(s),
             UNCHANGED <<socket, mute, announced>>
      PROVE  LeaseInv'
    BY <1>3 DEF Denied, FreshGrantIsHeld
<1>4. ASSUME NEW s \in Session, Released(s),
             socket' \in [Session -> SocketState],
             mute' \subseteq Session, UNCHANGED announced
      PROVE  LeaseInv'
    BY <1>4 DEF Released, FreshGrantIsHeld
<1>5. ASSUME NEW s \in Session, acquire_lease(s) PROVE LeaseInv'
    BY <1>2, <1>3, <1>5 DEF acquire_lease
<1>6. ASSUME NEW s \in Session, renew_lease(s) PROVE LeaseInv'
    BY <1>2, <1>3, <1>6 DEF renew_lease
<1>7. ASSUME NEW s \in Session, release_lease(s) PROVE LeaseInv'
    BY <1>4, <1>7 DEF release_lease
<1>8. ASSUME NEW s \in Session, disconnect(s) PROVE LeaseInv'
    <2>1. CASE Released(s)
        BY <1>4, <1>8, <2>1 DEF disconnect, Released
    <2>2. CASE holder # s
        BY <1>8, <2>2 DEF disconnect, Released, FreshGrantIsHeld
    <2> QED BY <1>8, <2>1, <2>2 DEF disconnect
<1>9. ASSUME NEW s \in Session, publish_lease_changed(s) PROVE LeaseInv'
    BY <1>9 DEF publish_lease_changed, FreshGrantIsHeld
<1>10. ASSUME NEW s \in Session, fall_silent(s) PROVE LeaseInv'
    BY <1>10 DEF fall_silent, FreshGrantIsHeld
<1>11. CASE Tick
    BY <1>11 DEF Tick, FreshGrantIsHeld
<1>12. CASE restart
    BY <1>12 DEF restart, FreshGrantIsHeld
<1>13. CASE UNCHANGED vars
    BY <1>13 DEF vars, FreshGrantIsHeld
<1> QED
    BY <1>1, <1>5, <1>6, <1>7, <1>8, <1>9, <1>10, <1>11, <1>12, <1>13 DEF Next

\* The lease map, the sockets and the announcements keep their types
\* (hub.rs Lease, LeaseOutcome).
THEOREM LeaseTypeCorrect == Spec => []TypeOK
<1>1. LeaseInv => TypeOK
    BY DEF LeaseInv
<1> QED
    BY <1>1, LeaseInitial, LeaseStep, PTL DEF Spec

\* A session that may count on its grant is the holder of a lease that
\* outlasts it (hub.rs acquire_lease, release_lease, current_lease_holder).
THEOREM LeaseFreshGrantIsHeld == Spec => []FreshGrantIsHeld
<1>1. LeaseInv => FreshGrantIsHeld
    BY DEF LeaseInv
<1> QED
    BY <1>1, LeaseInitial, LeaseStep, PTL DEF Spec

\* No two sessions can count on the lease at once, for any number of sessions
\* and any term (hub.rs acquire_lease).
THEOREM LeaseGrantIsExclusive == Spec => []GrantIsExclusive
<1>1. LeaseInv => GrantIsExclusive
    BY DEF LeaseInv, FreshGrantIsHeld, GrantIsExclusive
<1> QED
    BY <1>1, LeaseInitial, LeaseStep, PTL DEF Spec

\* What a grant is worth, for any number of sessions and any term: whoever
\* may count on one is alone in that and is the holder hub.rs keeps.
THEOREM LeaseGrantsAreSound == Spec => []GrantsAreSound
<1>1. LeaseInv => GrantsAreSound
    BY DEF LeaseInv, FreshGrantIsHeld, GrantIsExclusive, GrantsAreSound
<1> QED
    BY <1>1, LeaseInitial, LeaseStep, PTL DEF Spec

\* Every step of the timed lease is a step of AbstractLease or leaves the
\* live holder alone.
LEMMA LeaseRefinementStep ==
    LeaseInv /\ [Next]_vars => [LeaseView!Next]_LiveHolder
<1> SUFFICES ASSUME LeaseInv, [Next]_vars
             PROVE  [LeaseView!Next]_LiveHolder
    OBVIOUS
<1> USE LeaseAssumption
        DEF LeaseInv, TypeOK, LiveHolder, LeaseView!Next, LeaseView!Grant,
            LeaseView!Lose
<1>1. ASSUME NEW s \in Session, connect(s)
      PROVE  [LeaseView!Next]_LiveHolder
    BY <1>1 DEF connect, current_lease_holder
<1>2. ASSUME NEW s \in Session, Granted(s) \/ Denied(s)
      PROVE  [LeaseView!Next]_LiveHolder
    BY <1>2 DEF Granted, Denied
<1>3. ASSUME NEW s \in Session, Released(s)
      PROVE  [LeaseView!Next]_LiveHolder
    BY <1>3 DEF Released
<1>4. ASSUME NEW s \in Session, disconnect(s)
      PROVE  [LeaseView!Next]_LiveHolder
    BY <1>3, <1>4 DEF disconnect
<1>5. ASSUME NEW s \in Session, publish_lease_changed(s) \/ fall_silent(s)
      PROVE  [LeaseView!Next]_LiveHolder
    BY <1>5 DEF publish_lease_changed, fall_silent
<1>6. CASE Tick
    BY <1>6 DEF Tick
<1>7. CASE restart
    BY <1>7 DEF restart
<1>8. CASE UNCHANGED vars
    BY <1>8 DEF vars
<1> QED
    BY <1>1, <1>2, <1>3, <1>4, <1>5, <1>6, <1>7, <1>8
    DEF Next, acquire_lease, renew_lease, release_lease

\* The lease of hub.rs, with its lazy expiry sweeps, its renewals and its
\* restarts, implements AbstractLease for any number of sessions and any term:
\* the page changes hands only through a moment when nobody holds it.
THEOREM LeaseImplementsAbstractLease == Spec => ImplementsAbstractLease
<1>1. Init => LeaseView!Init
    BY DEF Init, LeaseView!Init, LiveHolder
<1> QED
    BY <1>1, LeaseInitial, LeaseStep, LeaseRefinementStep, PTL
    DEF Spec, ImplementsAbstractLease, LeaseView!Spec

-----------------------------------------------------------------------------
(* The tickets.                                                            *)

HasTicket(c) == attempt[c].stage \in {"ready", "opening", "open"}

\* An answer on its way is the only one of its client, which is still asking,
\* and its ticket is nobody's yet.
AnswersAreFresh ==
    \A a \in answers :
        /\ attempt[a.client].stage = "asking"
        /\ \A b \in answers :
             a.client = b.client \/ a.ticket = b.ticket => a = b
        /\ \A u \in upgrades \cup checking \cup sockets :
             u.ticket # a.ticket
        /\ \A c \in Client : HasTicket(c) => attempt[c].ticket # a.ticket

\* A ticket in the map was never redeemed, and whoever has its id is the
\* client it was issued to, in the attempt it was issued for.
TicketsHaveTheirOwner ==
    \A t \in tickets :
        /\ uses[t.id] = 0
        /\ \A a \in answers : a.ticket = t.id =>
             a.client = t.owner /\ attempt[t.owner].parent = t.origin
        /\ \A c \in Client : HasTicket(c) /\ attempt[c].ticket = t.id =>
             c = t.owner /\ attempt[c].parent = t.origin
        /\ \A u \in upgrades : u.ticket = t.id => u.client = t.owner

\* A caller the server let in is the client the ticket was issued to, and an
\* attempt that has the ticket is the one it was issued for.
JoinsItsAttempt(s) ==
    \A c \in Client : HasTicket(c) /\ attempt[c].ticket = s.ticket =>
        c = s.client /\ attempt[c].parent = s.origin

CallersJoinTheirAttempt ==
    \A s \in checking \cup sockets : s.owner = s.client /\ JoinsItsAttempt(s)

TicketInv ==
    /\ TicketsAreSound
    /\ AnswersAreFresh /\ TicketsHaveTheirOwner /\ CallersJoinTheirAttempt

\* Nothing is issued, named or connected at first.
LEMMA TicketInitial == TicketInit => TicketInv
BY TicketsAssumption
DEF TicketInit, TicketInv, TicketsAreSound, TicketTypeOK, RedeemedOnceInTime,
    AnswersAreFresh, TicketsHaveTheirOwner, CallersJoinTheirAttempt,
    JoinsItsAttempt, Waiting, Attempt, HasTicket

\* An attempt is waiting, asking, or has a ticket.
LEMMA AttemptCases ==
    ASSUME TicketTypeOK, NEW c \in Client
    PROVE  /\ attempt[c].stage \in
                {"waiting", "asking", "ready", "opening", "open"}
           /\ attempt[c].stage = "waiting" => attempt[c] = Waiting
           /\ attempt[c].stage = "asking" => attempt[c].parent \in Screen
           /\ HasTicket(c) =>
                /\ attempt[c].parent \in Screen
                /\ attempt[c].ticket \in TicketId
                /\ attempt[c] = [stage |-> attempt[c].stage,
                                 parent |-> attempt[c].parent,
                                 ticket |-> attempt[c].ticket]
BY DEF TicketTypeOK, Attempt, Waiting, HasTicket

\* Every step of a client, of the server and of the network between them
\* keeps the invariant.
LEMMA TicketStep == TicketInv /\ [TicketNext]_ticketVars => TicketInv'
<1> SUFFICES ASSUME TicketInv, [TicketNext]_ticketVars PROVE TicketInv'
    OBVIOUS
<1> USE TicketsAssumption DEF TicketInv, TicketsAreSound, RedeemedOnceInTime
<1>1. ASSUME NEW c \in Client, start_attempt(c) PROVE TicketInv'
    <2>1. TicketTypeOK'
        BY <1>1 DEF start_attempt, TicketTypeOK, Attempt, serverVars
    <2>2. /\ ~HasTicket(c)' /\ ~HasTicket(c)
          /\ \A d \in Client \ {c} : attempt'[d] = attempt[d]
          /\ \A a \in answers : a.client # c
        BY <1>1
        DEF start_attempt, TicketTypeOK, HasTicket, Waiting, AnswersAreFresh
    <2>3. AnswersAreFresh'
        BY <1>1, <2>2
        DEF start_attempt, TicketTypeOK, AnswersAreFresh, serverVars, HasTicket
    <2>4. TicketsHaveTheirOwner'
        BY <1>1, <2>2
        DEF start_attempt, TicketTypeOK, TicketsHaveTheirOwner, serverVars,
            HasTicket
    <2>5. CallersJoinTheirAttempt'
        BY <1>1, <2>2
        DEF start_attempt, TicketTypeOK, CallersJoinTheirAttempt,
            JoinsItsAttempt, serverVars, HasTicket
    <2> QED BY <1>1, <2>1, <2>3, <2>4, <2>5 DEF start_attempt, serverVars
<1>2. ASSUME NEW c \in Client, start_screen(c) PROVE TicketInv'
    BY <1>2
    DEF start_screen, serverVars, TicketTypeOK, AnswersAreFresh,
        TicketsHaveTheirOwner, CallersJoinTheirAttempt, JoinsItsAttempt,
        HasTicket
<1>3. ASSUME NEW c \in Client, issue_ticket(c) PROVE TicketInv'
    <2>1. PICK id \in TicketId \ Named :
            /\ tickets' = {t \in tickets : t.id # id} \cup
                {[id |-> id, owner |-> c, age |-> 0,
                  origin |-> attempt[c].parent]}
            /\ uses' = [uses EXCEPT ![id] = 0]
            /\ answers' = answers \cup {[client |-> c, ticket |-> id]}
        BY <1>3 DEF issue_ticket
    <2>2. /\ \A a \in answers : a.ticket # id
          /\ \A u \in upgrades \cup checking \cup sockets : u.ticket # id
          /\ \A d \in Client : HasTicket(d) => attempt[d].ticket # id
        BY <2>1 DEF Named, HasTicket
    <2>3. attempt[c].parent \in Screen
        BY <1>3, AttemptCases DEF issue_ticket
    <2>4. TicketTypeOK'
        BY <1>3, <2>1, <2>3 DEF issue_ticket, TicketTypeOK, Ticket
    <2>5. RedeemedOnceInTime'
        BY <1>3, <2>1 DEF issue_ticket, TicketTypeOK
    <2>6. AnswersAreFresh'
        BY <1>3, <2>1, <2>2 DEF issue_ticket, AnswersAreFresh, HasTicket
    <2>7. TicketsHaveTheirOwner'
        BY <1>3, <2>1, <2>2
        DEF issue_ticket, TicketsHaveTheirOwner, HasTicket, TicketTypeOK,
            Ticket
    <2>8. CallersJoinTheirAttempt'
        BY <1>3
        DEF issue_ticket, CallersJoinTheirAttempt, JoinsItsAttempt, HasTicket
    <2> QED BY <2>4, <2>5, <2>6, <2>7, <2>8
<1>4. ASSUME NEW a \in answers, ticket_arrives(a) PROVE TicketInv'
    <2>1. /\ a.client \in Client /\ a.ticket \in TicketId
          /\ attempt[a.client].stage = "asking"
          /\ attempt[a.client].parent \in Screen
        BY AttemptCases DEF TicketTypeOK, AnswersAreFresh
    <2>2. /\ attempt'[a.client] = [stage |-> "ready",
                parent |-> attempt[a.client].parent, ticket |-> a.ticket]
          /\ \A d \in Client \ {a.client} : attempt'[d] = attempt[d]
        BY <1>4, <2>1 DEF ticket_arrives, TicketTypeOK
    <2>3. TicketTypeOK'
        BY <1>4, <2>1 DEF ticket_arrives, TicketTypeOK, Attempt, serverVars
    <2>4. AnswersAreFresh'
        BY <1>4, <2>1, <2>2
        DEF ticket_arrives, AnswersAreFresh, serverVars, HasTicket,
            TicketTypeOK
    <2>5. TicketsHaveTheirOwner'
        BY <1>4, <2>1, <2>2
        DEF ticket_arrives, AnswersAreFresh, TicketsHaveTheirOwner, serverVars,
            HasTicket, TicketTypeOK
    <2>6. CallersJoinTheirAttempt'
        BY <1>4, <2>1, <2>2
        DEF ticket_arrives, AnswersAreFresh, CallersJoinTheirAttempt,
            JoinsItsAttempt, serverVars, HasTicket, TicketTypeOK
    <2> QED BY <1>4, <2>3, <2>4, <2>5, <2>6 DEF ticket_arrives, serverVars
<1>5. ASSUME NEW c \in Client, NEW page \in BOOLEAN, open_socket(c, page)
      PROVE  TicketInv'
    <2>1. /\ HasTicket(c) /\ HasTicket(c)'
          /\ attempt[c].ticket \in TicketId
          /\ attempt'[c] = AtStage(attempt[c], "opening")
          /\ attempt[c].parent \in Screen
          /\ \A d \in Client \ {c} : attempt'[d] = attempt[d]
        BY <1>5, AttemptCases DEF open_socket, AtStage, HasTicket, TicketTypeOK
    <2>2. TicketTypeOK'
        BY <1>5, <2>1
        DEF open_socket, AtStage, TicketTypeOK, Attempt, serverVars
    <2>4. AnswersAreFresh'
        BY <1>5, <2>1
        DEF open_socket, AtStage, AnswersAreFresh, serverVars, HasTicket,
            TicketTypeOK
    <2>5. TicketsHaveTheirOwner'
        BY <1>5, <2>1
        DEF open_socket, AtStage, TicketsHaveTheirOwner, AnswersAreFresh,
            serverVars, HasTicket, TicketTypeOK
    <2>6. CallersJoinTheirAttempt'
        BY <1>5, <2>1
        DEF open_socket, AtStage, CallersJoinTheirAttempt, JoinsItsAttempt,
            serverVars, HasTicket, TicketTypeOK
    <2> QED
        BY <1>5, <2>2, <2>4, <2>5, <2>6 DEF open_socket, AtStage, serverVars
<1>6. ASSUME NEW c \in Client, attempt_fails(c) PROVE TicketInv'
    <2>1. /\ ~HasTicket(c)'
          /\ \A d \in Client \ {c} : attempt'[d] = attempt[d]
          /\ \A b \in answers' : b \in answers /\ b.client # c
        BY <1>6 DEF attempt_fails, StartOver, HasTicket, Waiting, TicketTypeOK
    <2>2. TicketTypeOK'
        BY <1>6 DEF attempt_fails, StartOver, TicketTypeOK, Attempt, serverVars
    <2>4. AnswersAreFresh'
        BY <1>6, <2>1
        DEF attempt_fails, AnswersAreFresh, serverVars, HasTicket, TicketTypeOK
    <2>5. TicketsHaveTheirOwner'
        BY <1>6, <2>1
        DEF attempt_fails, TicketsHaveTheirOwner, AnswersAreFresh, serverVars,
            HasTicket, TicketTypeOK
    <2>6. CallersJoinTheirAttempt'
        BY <1>6, <2>1
        DEF attempt_fails, CallersJoinTheirAttempt, JoinsItsAttempt,
            serverVars, HasTicket, TicketTypeOK
    <2> QED BY <1>6, <2>2, <2>4, <2>5, <2>6 DEF attempt_fails, serverVars
<1>7. ASSUME NEW caller \in Caller, Connects(caller),
             caller.owner = caller.client, caller.age < Ttl,
             checking' \subseteq checking, tickets' \subseteq tickets,
             JoinsItsAttempt(caller),
             \A a \in answers : a.ticket # caller.ticket,
             uses' \in [TicketId -> 0 .. 1],
             \A t \in tickets' : uses'[t.id] = 0,
             upgrades' \subseteq upgrades,
             UNCHANGED <<answers, screen, deleted>>
      PROVE  TicketInv'
    <2>1. /\ caller.client \in Client
          /\ \A d \in Client :
               /\ HasTicket(d)' <=> HasTicket(d)
               /\ attempt'[d] \in Attempt
               /\ HasTicket(d) => attempt'[d].parent = attempt[d].parent
                                  /\ attempt'[d].ticket = attempt[d].ticket
               /\ ~HasTicket(d) => attempt'[d] = attempt[d]
          /\ DOMAIN attempt' = Client
        <3>1. CASE /\ attempt[caller.client].stage = "opening"
                   /\ attempt[caller.client].ticket = caller.ticket
            BY <1>7, <3>1, AttemptCases
            DEF Connects, AtStage, HasTicket, TicketTypeOK, Attempt, Caller
        <3>2. CASE ~(/\ attempt[caller.client].stage = "opening"
                     /\ attempt[caller.client].ticket = caller.ticket)
            BY <1>7, <3>2 DEF Connects, HasTicket, TicketTypeOK, Caller
        <3> QED BY <3>1, <3>2
    <2>2. TicketTypeOK'
        <3>1. attempt' \in [Client -> Attempt]
            BY <1>7, <2>1 DEF Connects, TicketTypeOK
        <3> QED BY <1>7, <3>1 DEF Connects, TicketTypeOK
    <2>3. AnswersAreFresh'
        BY <1>7, <2>1 DEF Connects, AnswersAreFresh, TicketTypeOK, HasTicket
    <2>4. TicketsHaveTheirOwner'
        BY <1>7, <2>1
        DEF TicketsHaveTheirOwner, TicketTypeOK, HasTicket, AnswersAreFresh,
            Ticket
    <2>5. CallersJoinTheirAttempt'
        BY <1>7, <2>1
        DEF Connects, CallersJoinTheirAttempt, JoinsItsAttempt, TicketTypeOK
    <2>6. RedeemedOnceInTime'
        BY <1>7 DEF Connects
    <2> QED BY <2>2, <2>3, <2>4, <2>5, <2>6
<1>8. ASSUME NEW u \in upgrades, NEW again \in BOOLEAN,
             authenticate_realtime(u, again)
      PROVE  TicketInv'
    <2>1. /\ tickets' \subseteq tickets
          /\ \A t \in tickets' : t.id # u.ticket
          /\ upgrades' \subseteq upgrades
          /\ UNCHANGED <<answers, screen, deleted>>
        BY <1>8 DEF authenticate_realtime, consume_ticket
    <2>2. CASE consume_ticket(u.ticket).found = {}
        BY <1>8, <2>1, <2>2
        DEF authenticate_realtime, TicketTypeOK, AnswersAreFresh,
            TicketsHaveTheirOwner, CallersJoinTheirAttempt, JoinsItsAttempt,
            HasTicket
    <2>3. ASSUME NEW t \in consume_ticket(u.ticket).found,
                 uses' = [uses EXCEPT ![t.id] = @ + 1],
                 IF u.page
                 THEN /\ checking' = checking \cup {CallerOf(u, t)}
                      /\ UNCHANGED <<sockets, attempt>>
                 ELSE /\ Connects(CallerOf(u, t))
                      /\ UNCHANGED checking
          PROVE  TicketInv'
        <3> DEFINE caller == CallerOf(u, t)
        <3>1. /\ t \in tickets /\ t \in Ticket /\ t.age < Ttl
              /\ t.id = u.ticket /\ u.client \in Client /\ t.owner = u.client
            BY <2>3 DEF consume_ticket, TicketTypeOK, TicketsHaveTheirOwner
        <3>2. /\ caller \in Caller /\ caller.owner = caller.client
              /\ caller.age < Ttl
              /\ caller.ticket = t.id /\ caller.origin = t.origin
              /\ caller.client = u.client
            BY <3>1 DEF CallerOf, Caller, Ticket
        <3>3. /\ JoinsItsAttempt(caller)
              /\ \A a \in answers : a.ticket # caller.ticket
            BY <3>1, <3>2
            DEF TicketsHaveTheirOwner, AnswersAreFresh, JoinsItsAttempt
        <3>4. /\ uses' \in [TicketId -> 0 .. 1]
              /\ \A x \in tickets' : uses'[x.id] = 0
            BY <2>1, <2>3, <3>1 DEF TicketsHaveTheirOwner, TicketTypeOK, Ticket
        <3>5. CASE u.page
            <4>1. /\ UNCHANGED <<sockets, attempt>>
                  /\ checking' = checking \cup {caller}
                BY <2>3, <3>5
            <4>2. TicketTypeOK'
                BY <2>1, <3>2, <3>4, <4>1 DEF TicketTypeOK
            <4>3. RedeemedOnceInTime'
                BY <3>2, <3>4, <4>1
            <4>4. AnswersAreFresh'
                BY <2>1, <3>3, <4>1 DEF AnswersAreFresh, HasTicket
            <4>5. TicketsHaveTheirOwner'
                BY <2>1, <3>4, <4>1 DEF TicketsHaveTheirOwner, HasTicket
            <4>6. CallersJoinTheirAttempt'
                BY <2>1, <3>2, <3>3, <4>1
                DEF CallersJoinTheirAttempt, JoinsItsAttempt, HasTicket
            <4> QED BY <4>2, <4>3, <4>4, <4>5, <4>6
        <3>6. CASE ~u.page
            <4>1. Connects(caller) /\ UNCHANGED checking
                BY <2>3, <3>6
            <4> QED BY <1>7, <2>1, <3>2, <3>3, <3>4, <4>1
        <3> QED BY <3>5, <3>6
    <2> QED BY <1>8, <2>2, <2>3 DEF authenticate_realtime
<1>9. ASSUME NEW caller \in checking, page_socket(caller) PROVE TicketInv'
    <2>1. CASE caller.client \in deleted
        BY <1>9, <2>1
        DEF page_socket, TicketTypeOK, AnswersAreFresh, TicketsHaveTheirOwner,
            CallersJoinTheirAttempt, JoinsItsAttempt, HasTicket
    <2>2. CASE caller.client \notin deleted
        <3>1. /\ Connects(caller) /\ checking' \subseteq checking
              /\ UNCHANGED <<tickets, uses, answers, screen, upgrades,
                             deleted>>
            BY <1>9, <2>2 DEF page_socket
        <3>2. /\ caller \in Caller /\ caller.owner = caller.client
              /\ caller.age < Ttl
              /\ JoinsItsAttempt(caller)
              /\ \A a \in answers : a.ticket # caller.ticket
            BY DEF TicketTypeOK, CallersJoinTheirAttempt, JoinsItsAttempt,
                   AnswersAreFresh
        <3>3. /\ uses' \in [TicketId -> 0 .. 1]
              /\ \A t \in tickets' : uses'[t.id] = 0
            BY <3>1 DEF TicketTypeOK, TicketsHaveTheirOwner
        <3> QED BY <1>7, <3>1, <3>2, <3>3
    <2> QED BY <2>1, <2>2
<1>10. ASSUME NEW caller \in checking, upgrade_fails(caller) PROVE TicketInv'
    BY <1>10
    DEF upgrade_fails, TicketTypeOK, AnswersAreFresh, TicketsHaveTheirOwner,
        CallersJoinTheirAttempt, JoinsItsAttempt, HasTicket
<1>11. ASSUME NEW s \in sockets, close_socket(s) PROVE TicketInv'
    BY <1>11
    DEF close_socket, TicketTypeOK, AnswersAreFresh, TicketsHaveTheirOwner,
        CallersJoinTheirAttempt, JoinsItsAttempt, HasTicket
<1>12. ASSUME NEW u \in upgrades, lose_upgrade(u) PROVE TicketInv'
    BY <1>12
    DEF lose_upgrade, serverVars, TicketTypeOK, AnswersAreFresh,
        TicketsHaveTheirOwner, CallersJoinTheirAttempt, JoinsItsAttempt,
        HasTicket
<1>13. CASE hub_restart
    BY <1>13
    DEF hub_restart, TicketTypeOK, AnswersAreFresh, TicketsHaveTheirOwner,
        CallersJoinTheirAttempt, JoinsItsAttempt, HasTicket, Waiting, Attempt
<1>14. ASSUME NEW c \in Client, delete_page(c) PROVE TicketInv'
    BY <1>14
    DEF delete_page, serverVars, TicketTypeOK, AnswersAreFresh,
        TicketsHaveTheirOwner, CallersJoinTheirAttempt, JoinsItsAttempt,
        HasTicket
<1>15. CASE tick
    <2> DEFINE Aged(t) == [t EXCEPT !.age = IF @ < Ttl THEN @ + 1 ELSE Ttl]
    <2>1. \A t \in tickets : /\ Aged(t) \in Ticket /\ Aged(t).id = t.id
                             /\ Aged(t).owner = t.owner /\ Aged(t).origin =
                                 t.origin
        BY DEF TicketTypeOK, Ticket
    <2>2. tickets' = {Aged(t) : t \in tickets}
        BY <1>15 DEF tick
    <2> HIDE DEF Aged
    <2>3. TicketTypeOK'
        BY <1>15, <2>1, <2>2 DEF tick, TicketTypeOK
    <2>4. TicketsHaveTheirOwner'
        BY <1>15, <2>1, <2>2 DEF tick, TicketsHaveTheirOwner, HasTicket
    <2> QED
        BY <1>15, <2>3, <2>4
        DEF tick, AnswersAreFresh, CallersJoinTheirAttempt, JoinsItsAttempt,
            HasTicket
<1>16. CASE UNCHANGED ticketVars
    BY <1>16
    DEF ticketVars, serverVars, TicketTypeOK, AnswersAreFresh,
        TicketsHaveTheirOwner, CallersJoinTheirAttempt, JoinsItsAttempt,
        HasTicket
<1> QED
    BY <1>1, <1>2, <1>3, <1>4, <1>5, <1>6, <1>8, <1>9, <1>10, <1>11, <1>12,
        <1>13, <1>14, <1>15, <1>16
    DEF TicketNext

\* For any number of clients and tickets and any life of a ticket, the map is
\* typed and a ticket opens one connection, in time (hub.rs issue_ticket,
\* consume_ticket).
THEOREM TicketsSound == TicketSpec => []TicketsAreSound
<1>1. TicketInv => TicketsAreSound
    BY DEF TicketInv
<1> QED
    BY <1>1, TicketInitial, TicketStep, PTL DEF TicketSpec

\* For any number of clients, a connection is its client's own and in the
\* trace its attempt began in (realtime.rs library_realtime_once, hub.rs
\* consume_ticket).
THEOREM TicketConnectionJoinsItsAttempt ==
    TicketSpec => []ConnectionJoinsItsAttempt
<1>1. TicketInv => ConnectionJoinsItsAttempt
    BY DEF TicketInv, TicketsAreSound, TicketTypeOK, Caller,
           CallersJoinTheirAttempt, JoinsItsAttempt, ConnectionJoinsItsAttempt,
           HasTicket
<1> QED
    BY <1>1, TicketInitial, TicketStep, PTL DEF TicketSpec
=============================================================================
