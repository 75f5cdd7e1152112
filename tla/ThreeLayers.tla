----------------------------- MODULE ThreeLayers -----------------------------
(***************************************************************************)
(* What the draft promises the operator, in terms of placements only: L0   *)
(* is edited, Stage copies L0 to L1, taking a stage back restores L0 and   *)
(* L1 together, and the one step that changes L2 copies the L1 that the    *)
(* operator sees, at most once in a round.  All three layers are plans.    *)
(***************************************************************************)
CONSTANTS
    IsPlan(_)      \* no lesson twice, no room or instructor double-booked

VARIABLES l0, l1, l2, committed

layers == <<l0, l1, l2, committed>>

Init == IsPlan(l0) /\ l1 = l0 /\ l2 = {} /\ committed = FALSE

Edit == IsPlan(l0') /\ UNCHANGED <<l1, l2, committed>>

Stage == l1' = l0 /\ UNCHANGED <<l0, l2, committed>>

\* A new optimizer run: one plan is both L0 and L1.
Restart == IsPlan(l0') /\ l1' = l0' /\ UNCHANGED <<l2, committed>>

Unstage == IsPlan(l1') /\ UNCHANGED <<l0, l2, committed>>

Commit == /\ ~committed /\ l0 = l1
          /\ l2' = l1 /\ committed' = TRUE
          /\ UNCHANGED <<l0, l1>>

Next == Edit \/ Stage \/ Restart \/ Unstage \/ Commit

Spec == Init /\ [][Next]_layers
=============================================================================
