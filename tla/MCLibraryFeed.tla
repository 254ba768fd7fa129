--------------------------- MODULE MCLibraryFeed -----------------------------
(* LibraryFeed on two pages, followed by both clients.                       *)
EXTENDS LibraryFeed
=============================================================================
