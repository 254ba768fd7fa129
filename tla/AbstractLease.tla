---------------------------- MODULE AbstractLease ----------------------------
(***************************************************************************)
(* What the edit lease promises: at most one editor at a time, and the     *)
(* page changes hands only through a moment when nobody holds it.  A       *)
(* holder may lose the lease at any time (release, disconnect, expiry or a *)
(* restart).                                                               *)
(***************************************************************************)
CONSTANTS Session, Nobody

VARIABLE editor

Init == editor = Nobody

Grant(s) == editor = Nobody /\ editor' = s
Lose == editor # Nobody /\ editor' = Nobody

Next == Lose \/ \E s \in Session : Grant(s)

Spec == Init /\ [][Next]_editor
=============================================================================
