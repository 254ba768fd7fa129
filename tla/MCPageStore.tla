----------------------------- MODULE MCPageStore -----------------------------
(* PageStore on a small page: every order of new, repeated, overlapping and  *)
(* suppressed commands up to MaxRevision.                                    *)
EXTENDS PageStore, TLC

CONSTANTS s1, s2, s3, b1, b2, b3, m1, m2, p1, p2

MCStroke == {s1, s2, s3}
MCBatchId == {b1, b2, b3}
MCMutationId == {m1, m2}
MCPaper == {p1, p2}

Symmetry ==
    Permutations(MCStroke) \cup Permutations(MCBatchId)
        \cup Permutations(MCMutationId) \cup Permutations(MCPaper)
=============================================================================
