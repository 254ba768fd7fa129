---------------------------- MODULE MCThumbnails -----------------------------
(* Thumbnails on one page whose single stroke is drawn, and then repapered or *)
(* erased, which gives each revision a picture of its own.                    *)
EXTENDS Thumbnails

CONSTANTS s1, b1, m1, p1, p2

MCStroke == {s1}
MCBatchId == {b1}
MCMutationId == {m1}
MCPaper == {p1, p2}
=============================================================================
