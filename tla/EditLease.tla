------------------------------ MODULE EditLease ------------------------------
(***************************************************************************)
(* The single-editor edit lease of one page: RealtimeHub::leases           *)
(* (realtime/hub.rs), the lease handlers of realtime/dispatch.rs and the   *)
(* release on disconnect of realtime/socket.rs.                            *)
(*                                                                         *)
(* A lease records expires_at; only expires_at - now matters, so it is     *)
(* kept here as the time remaining, which Tick counts down and which is 0  *)
(* exactly when expires_at <= now.  The lease mutex makes every hub call   *)
(* one step; a handler's publish_page takes another mutex, so it is a step *)
(* of its own.                                                             *)
(***************************************************************************)
EXTENDS Integers, FiniteSets

CONSTANTS
    Session,    \* page sockets; each has one session id
    Nobody,     \* no lease in the map, no holder in a LeaseChanged
    LeaseTtl    \* LEASE_TTL_SECONDS

ASSUME LeaseAssumption ==
    /\ LeaseTtl \in Nat \ {0}
    /\ Nobody \notin Session

VARIABLES
    holder,     \* Lease.holder, Nobody when the page has no lease
    remaining,  \* Lease.expires_at - now, at least 0
    socket,     \* what each connection's task is doing
    mute,       \* connections whose client will never send again
    fresh,      \* how long each session may still count on its last grant
    announced   \* the holder of the last LeaseChanged on the page channel

vars == <<holder, remaining, socket, mute, fresh, announced>>

\* "holder" and "clear" are handlers between the hub call and the publish;
\* "closing" is the one after the receive loop.
SocketState == {"closed", "open", "holder", "clear", "closing"}

TypeOK ==
    /\ holder \in Session \cup {Nobody}
    /\ remaining \in 0 .. LeaseTtl
    /\ socket \in [Session -> SocketState]
    /\ mute \subseteq Session
    /\ fresh \in [Session -> 0 .. LeaseTtl]
    /\ announced \in Session \cup {Nobody}

\* Who holds an unexpired lease.
LiveHolder == IF remaining > 0 THEN holder ELSE Nobody

-----------------------------------------------------------------------------
(* RealtimeHub.                                                            *)

\* Mutant: a lease that has not expired is handed over.
Granted_Steal(s) ==
    /\ holder' = s
    /\ remaining' = LeaseTtl
    /\ fresh' = [fresh EXCEPT ![s] = LeaseTtl]

\* acquire_lease, outcome Granted: the caller holds the lease or nobody does
\* (an expired one counts as none), and it now runs a full term.
Granted(s) ==
    /\ LiveHolder \in {s, Nobody}
    /\ holder' = s
    /\ remaining' = LeaseTtl
    /\ fresh' = [fresh EXCEPT ![s] = LeaseTtl]

\* acquire_lease, outcome Denied: another session's lease is left alone.
Denied(s) ==
    /\ LiveHolder \notin {s, Nobody}
    /\ UNCHANGED <<holder, remaining, fresh>>

\* Mutant: the holder is not compared with the caller.
Released_AnyCaller(s) ==
    /\ holder # Nobody
    /\ holder' = Nobody
    /\ remaining' = 0
    /\ fresh' = [fresh EXCEPT ![s] = 0]

\* release_lease returning true: only the holder's entry is removed, expired
\* or not.
Released(s) ==
    /\ holder = s
    /\ holder' = Nobody
    /\ remaining' = 0
    /\ fresh' = [fresh EXCEPT ![s] = 0]

\* Mutant: reading the holder renews the lease.
current_lease_holder_Renews ==
    /\ remaining' = IF LiveHolder = Nobody THEN 0 ELSE LeaseTtl
    /\ holder' = LiveHolder

\* current_lease_holder: an expired lease is removed on the way.
current_lease_holder ==
    /\ holder' = LiveHolder
    /\ UNCHANGED remaining

-----------------------------------------------------------------------------
(* Connections.                                                            *)

\* handle_page_socket up to the welcome.  Session ids are random, so a closed
\* session stands for a fresh one when it connects again.
connect(s) ==
    /\ socket[s] = "closed"
    /\ current_lease_holder
    /\ socket' = [socket EXCEPT ![s] = "open"]
    /\ UNCHANGED <<mute, fresh, announced>>

\* dispatch.rs acquire_lease: a grant is announced.
acquire_lease(s) ==
    /\ socket[s] = "open" /\ s \notin mute
    /\ \/ Granted(s) /\ socket' = [socket EXCEPT ![s] = "holder"]
       \/ Denied(s) /\ UNCHANGED socket
    /\ UNCHANGED <<mute, announced>>

\* dispatch.rs renew_lease, and the lease check that opens commit_batch,
\* commit_tombstones and set_paper: the same hub call, never announced.
renew_lease(s) ==
    /\ socket[s] = "open" /\ s \notin mute
    /\ Granted(s) \/ Denied(s)
    /\ UNCHANGED <<socket, mute, announced>>

\* dispatch.rs release_lease.
release_lease(s) ==
    /\ socket[s] = "open" /\ s \notin mute
    /\ Released(s)
    /\ socket' = [socket EXCEPT ![s] = "clear"]
    /\ UNCHANGED <<mute, announced>>

\* handle_page_socket after the loop: the lease is released if it is held.
disconnect(s) ==
    /\ socket[s] = "open"
    /\ \/ Released(s) /\ socket' = [socket EXCEPT ![s] = "closing"]
       \/ /\ holder # s
          /\ fresh' = [fresh EXCEPT ![s] = 0]
          /\ socket' = [socket EXCEPT ![s] = "closed"]
          /\ UNCHANGED <<holder, remaining>>
    /\ mute' = mute \ {s}
    /\ UNCHANGED announced

\* publish_page(LeaseChanged), the second half of the handlers above.
publish_lease_changed(s) ==
    /\ socket[s] \in {"holder", "clear", "closing"}
    /\ announced' = IF socket[s] = "holder" THEN s ELSE Nobody
    /\ socket' = [socket EXCEPT
            ![s] = IF socket[s] = "closing" THEN "closed" ELSE "open"]
    /\ UNCHANGED <<holder, remaining, mute, fresh>>

\* The client freezes or its network dies without a close: the socket stays
\* open and nothing more arrives on it.
fall_silent(s) ==
    /\ socket[s] = "open"
    /\ mute' = mute \cup {s}
    /\ UNCHANGED <<holder, remaining, socket, fresh, announced>>

Tick ==
    /\ remaining > 0
    /\ remaining' = remaining - 1
    /\ fresh' = [s \in Session |-> IF fresh[s] > 0 THEN fresh[s] - 1 ELSE 0]
    /\ UNCHANGED <<holder, socket, mute, announced>>

\* The process restarts: the hub is in memory only, and every socket drops.
restart ==
    /\ holder' = Nobody
    /\ remaining' = 0
    /\ socket' = [s \in Session |-> "closed"]
    /\ fresh' = [s \in Session |-> 0]
    /\ announced' = Nobody
    /\ mute' = {}

-----------------------------------------------------------------------------

Init ==
    /\ holder = Nobody
    /\ remaining = 0
    /\ socket = [s \in Session |-> "closed"]
    /\ mute = {}
    /\ fresh = [s \in Session |-> 0]
    /\ announced = Nobody

Next ==
    \/ \E s \in Session :
           \/ connect(s)
           \/ acquire_lease(s)
           \/ renew_lease(s)
           \/ release_lease(s)
           \/ disconnect(s)
           \/ publish_lease_changed(s)
           \/ fall_silent(s)
    \/ Tick
    \/ restart

Spec == Init /\ [][Next]_vars

\* The clock advances; nothing else has to happen.
FairSpec == Spec /\ WF_vars(Tick)

-----------------------------------------------------------------------------
(* Properties.                                                             *)

\* A grant can be relied on: for a full LeaseTtl after a session's last grant
\* or renewal, unless it releases or disconnects, no other session is granted
\* the lease (hub.rs acquire_lease), however renewals, releases by others and
\* sweeps are interleaved.
GrantIsExclusive ==
    \A s, t \in Session : fresh[s] > 0 /\ fresh[t] > 0 => s = t

\* The inductive form: a session that may count on its grant is the holder,
\* and the lease outlasts the grant.
FreshGrantIsHeld ==
    \A s \in Session :
        fresh[s] > 0 => holder = s /\ remaining >= fresh[s]

\* What a grant is worth (hub.rs acquire_lease, renew_lease): it is exclusive
\* for its term, because whoever counts on one is the holder the hub keeps.
GrantsAreSound == TypeOK /\ FreshGrantIsHeld /\ GrantIsExclusive

\* A holder that falls silent without closing cannot keep the page: its lease
\* runs out whatever the other sessions do (LEASE_TTL_SECONDS is there for
\* sockets that stay open and dead).
SilentHolderLosesTheLease ==
    \A s \in Session : s \in mute ~> (LiveHolder # s \/ s \notin mute)

\* What protocol PageServerMessage::LeaseChanged says of itself: it is
\* broadcast whenever the holder changes or clears, so once no handler is
\* about to publish, the last one announced is the holder.
HolderChangesAreAnnounced ==
    (\A s \in Session : socket[s] \in {"open", "closed"}) =>
        announced = LiveHolder

LeaseView == INSTANCE AbstractLease WITH editor <- LiveHolder

\* The timed lease with its lazy sweeps implements AbstractLease.
ImplementsAbstractLease == LeaseView!Spec
=============================================================================
