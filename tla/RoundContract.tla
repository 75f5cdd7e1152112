---------------------------- MODULE RoundContract ----------------------------
(***************************************************************************)
(* What a round promises about the bookings: a plan is drafted, committed  *)
(* whole and at most once, and the calendar is otherwise only ever wiped.  *)
(* A stop in the middle may lose the news of it, never a part of it.       *)
(***************************************************************************)
CONSTANTS Lessons, Crashes

VARIABLES plan, booked, committed

files == <<plan, booked, committed>>

Init == plan = {} /\ booked = {} /\ committed = FALSE

Redraft == plan' \in SUBSET Lessons /\ UNCHANGED <<booked, committed>>

\* Lessons with the ids of the plan's may be replaced, none else is added.
Book == plan \subseteq booked' /\ booked' \subseteq booked \cup plan

Commit ==
    /\ ~committed /\ committed' = TRUE
    /\ Book
    /\ UNCHANGED plan

\* The plan is booked and the round does not know it; the calendar is wiped and
\* the round is still there.
UntoldCommit == Crashes /\ ~committed /\ Book /\ UNCHANGED <<plan, committed>>
UntoldWipe == Crashes /\ booked' = {} /\ UNCHANGED <<plan, committed>>

NextRound ==
    /\ committed /\ committed' = FALSE
    /\ plan' = {}
    /\ UNCHANGED booked

Wipe == plan' = {} /\ booked' = {} /\ committed' = FALSE

Next == Redraft \/ Commit \/ NextRound \/ Wipe \/ UntoldCommit \/ UntoldWipe

Spec == Init /\ [][Next]_files
=============================================================================
