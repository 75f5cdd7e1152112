-------------------------- MODULE MCRoundLifecycle --------------------------
(* Two workbooks: sources 0 and 1 are weekly rows, source 2 a studio class.  The rows
   of the workbooks are of one kind, or of both with one number in common. *)
EXTENDS RoundLifecycle, TLC

CONSTANTS w1, w2

MCRowsOf == (w1 :> {0}) @@ (w2 :> {0, 1})
MCOverlappingRows == (w1 :> {0, 2}) @@ (w2 :> {0, 1})
=============================================================================
