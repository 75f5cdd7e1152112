-------------------------- MODULE MCReconciliation --------------------------
(* One lesson is placed at its hour; the other competes for its room. *)
EXTENDS Reconciliation, TLC

CONSTANTS a, b, r1, r2, t1, t2, ann, bob

MCTeacher == a :> ann @@ b :> bob
MCRequested == [l \in Lessons |-> t1]
MCSuits == {<<a, r1>>, <<a, r2>>, <<b, r1>>}

At(r, t) == [room |-> r, time |-> t]
\* Place b at another hour and move a away, or give a up for it; both share b's place,
\* which can be applied alone.  Change a's hour, which the task does not allow.
MCPackages ==
    {a :> At(r2, t1) @@ b :> At(r1, t2), a :> Withdraw @@ b :> At(r1, t2), a :> At(r1, t2)}
MCOutcomes == {a :> At(r1, t1) @@ b :> At(Nowhere, t1)}
MCTasks == {[protect |-> {}, allow |-> {bob}]}
=============================================================================
