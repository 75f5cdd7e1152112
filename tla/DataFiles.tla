----------------------------- MODULE DataFiles -----------------------------
(***************************************************************************)
(* A data file of the workspace and its shadow copies: which copy a read   *)
(* selects, what a save leaves behind, and the workspace version that is   *)
(* computed from the selected copies.                                      *)
(***************************************************************************)
EXTENDS Integers, FiniteSetsExt

CONSTANTS
    Shadows,      \* how many shadow directories there are
    Missing       \* the text of a file that does not exist

ASSUME DataFilesAssumption == Shadows \in Nat

Paths == 0..Shadows
Absent == [text |-> Missing, time |-> 0]
Present(copies) == {p \in Paths : copies[p] # Absent}

\* _preferred_path_for_read: the newest copy, the primary one first.
Selected(copies) ==
    IF Present(copies) = {} THEN 0
    ELSE CHOOSE p \in Present(copies) :
            \A q \in Present(copies) :
               copies[q].time < copies[p].time \/ (copies[q].time = copies[p].time /\ p <= q)

Read(copies) == copies[Selected(copies)].text

\* The fact that compute_workspace_version records of a file.
Stamp(copies) == <<Selected(copies), copies[Selected(copies)].time>>

\* What a save leaves: the primary copy is replaced, or the first shadow that can be
\* written, or nothing is, and the first error is raised.
Saves(copies, text, now) ==
    {[copies EXCEPT ![p] = [text |-> text, time |-> now]] : p \in Paths} \cup {copies}
=============================================================================
