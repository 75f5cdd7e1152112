------------------------ MODULE MCOptimizerOperation ------------------------
(* More operations than the registry keeps records. *)
EXTENDS OptimizerOperation

CONSTANTS o1, o2
=============================================================================
