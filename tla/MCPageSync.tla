----------------------------- MODULE MCPageSync ------------------------------
(* PageSync with a page of two one-stroke batches, one of which can be        *)
(* erased, and two editors.  For page_sync one of them draws and changes the  *)
(* paper and the other erases: who commits matters only where two commits     *)
(* could overlap, and a drawn stroke overlapping its erasure is that case.    *)
EXTENDS PageSync, TLC

CONSTANTS s1, s2, b1, b2, m1, p1, p2, e1, e2

MCStroke == {s1, s2}
MCBatchId == {b1, b2}
MCMutationId == {m1}
MCPaper == {p1, p2}
MCOnePaper == {p1}
MCEditor == {e1, e2}
MCStrokesOf == b1 :> {s1} @@ b2 :> {s2}
MCErasedBy == m1 :> {s1}

MCNext ==
  /\ Next
  /\ \A e \in Editor : handler'[e].step = "permitted" =>
        ((e = e2) <=> (handler'[e].command.kind = "erase"))

MCSpec == Init /\ [][MCNext]_vars /\ Fairness
=============================================================================
