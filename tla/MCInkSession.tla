---------------------------- MODULE MCInkSession -----------------------------
(* The ink session on a small instance.                                    *)
EXTENDS InkSession
=============================================================================
