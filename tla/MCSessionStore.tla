--------------------------- MODULE MCSessionStore ---------------------------
(* Two clients over the primary file and its shadow copies. *)
EXTENDS SessionStore

CONSTANTS c1, c2, d1, d2
=============================================================================
