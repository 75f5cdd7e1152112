---------------------------- MODULE MCLessonCard ----------------------------
(* A lesson asked for on Tuesday at ten, with one other day and hour. *)
EXTENDS LessonCard

MCDays == {"tue", "wed"}
MCHours == {10, 14}
=============================================================================
