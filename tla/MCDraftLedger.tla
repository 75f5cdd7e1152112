---------------------------- MODULE MCDraftLedger ----------------------------
(* Two lessons of one instructor whose times may meet; one of the two rooms also has a lecture. *)
EXTENDS DraftLedger, TLC

CONSTANTS l1, l2, r1, r2, t1, t2

MCTeacher == [l \in {l1, l2} |-> "ms_chan"]
MCRequested == (l1 :> t1) @@ (l2 :> t2)
MCSuits == {<<l1, r1>>, <<l2, r2>>}
MCLectureSpots == {<<r1, t1>>}
=============================================================================
