---------------------------- MODULE MCNavigation ----------------------------
(* Navigation with two pages and one move queued at a time, or with one page *)
(* and two moves: a second page tells a parked from a shown one, a second    *)
(* move is what a press before the last popstate queues.                     *)
EXTENDS Navigation

CONSTANTS a, b

\* What is typed or linked: a path that names no page, which is the library as
\* "/" is, and a page as a link spells it (a trailing slash is no part of the
\* id).  The library opens the other page too.
MCAddresses == {<<"p", "">>, <<"p", a, "">>}

VARIABLE part   \* what there are two of: "pages" or "moves"

MCInit == Init /\ part \in {"pages", "moves"} /\ (part = "moves" => b \notin owned)

MCNext ==
  /\ Next
  /\ part = "pages" => Len(traversals') <= 1
  /\ part = "moves" => b \notin owned'
  /\ UNCHANGED part

MCSpec == MCInit /\ [][MCNext]_<<vars, part>> /\ Fairness
=============================================================================
