-------------------------------- MODULE MCHub --------------------------------
(* The two maps of RealtimeHub that are not channels: the leases, with three *)
(* sessions, so that a third can act between the release of one and the      *)
(* grant of another, and the tickets.  Each has a lock of its own and no     *)
(* call takes both, so that an interleaving of the two shows nothing one     *)
(* alone does not: a behaviour is of one of them.                            *)
EXTENDS EditLease, Tickets

CONSTANTS a, b, c

MCSession == {a, b, c}

VARIABLE part   \* the map whose calls are made

hubVars == <<part, vars, ticketVars>>

HubInit == part \in {"leases", "tickets"} /\ Init /\ TicketInit

HubNext ==
    /\ \/ part = "leases" /\ Next /\ UNCHANGED ticketVars
       \/ part = "tickets" /\ TicketNext /\ UNCHANGED vars
    /\ UNCHANGED part

HubSpec ==
    /\ HubInit /\ [][HubNext]_hubVars
    /\ WF_vars(part = "leases" /\ Tick)
    /\ part = "tickets" => TicketFairness

\* ClientsConnect of Tickets, for the behaviours that are of the tickets: a
\* realtime loop that keeps trying connects again and again, after lost
\* requests, refused or expired tickets and restarts, unless its page is gone.
LoopsConnect == part = "tickets" => ClientsConnect
=============================================================================
