----------------------------- MODULE LessonCard ------------------------------
(***************************************************************************)
(* One weekly lesson through the Step 4 commands, with the data that       *)
(* DraftLedger abstracts: the day and hour the lesson holds, its pin, and  *)
(* the teacher confirmation a change of day or time asks for.  Rooms and   *)
(* other lessons are left out: a free place is always found.               *)
(***************************************************************************)
EXTENDS Integers, Sequences

CONSTANTS
    Days, Hours,
    RequestedDay, RequestedHour,   \* Day of Week and Class Time of the row
    MaxHistory                     \* MAX_UNDO_HISTORY

ASSUME RequestAssumption ==
    RequestedDay \in Days /\ RequestedHour \in Hours /\ MaxHistory \in Nat \ {0}

VARIABLES
    card,          \* the lesson's one entry in the draft
    history,
    redo,
    eligibility    \* instructor_time_change_status of its instructor

vars == <<card, history, redo, eligibility>>

Intervals == Days \X Hours
Requested == <<RequestedDay, RequestedHour>>
Eligibilities == {"ask_allowed", "original_time_only", "unknown"}

\* An unassigned entry keeps the interval it last held, its pin and its
\* confirmation; pinned "none" is an event without the key.
Cards == [placed: BOOLEAN, at: Intervals, pinned: {"none", "yes", "no"},
          confirmed: BOOLEAN]
Records == [action: {"move", "unassign", "assign", "stage"}, prev: Cards, new: Cards]

MayChange == eligibility \in {"ask_allowed", "unknown"}

\* build_context of an unassigned entry: the entry itself still has startTime,
\* but no key for its day, which is read from the workbook row.
Baseline == <<RequestedDay, card.at[2]>>

\* Time changes need an instructor in the pool and the operator's confirmation.
Permitted(changed, confirmed) == changed => MayChange /\ confirmed

Trim(s) == IF Len(s) > MaxHistory
             THEN SubSeq(s, Len(s) - MaxHistory + 1, Len(s))
             ELSE s

Commit(action, new) ==
    /\ card' = new
    /\ history' = Trim(Append(history, [action |-> action, prev |-> card, new |-> new]))
    /\ redo' = <<>>
    /\ UNCHANGED eligibility

-----------------------------------------------------------------------------
\* Mutant of Placed: the confirmation is not attached to the event.
PlacedUnsigned(at, changed) ==
    [placed |-> TRUE, at |-> at, pinned |-> "yes", confirmed |-> card.confirmed]

Placed(at, changed) ==
    [placed |-> TRUE, at |-> at, pinned |-> "yes", confirmed |-> card.confirmed \/ changed]

\* A move compares the new interval with the one the lesson holds.
Move(at, confirmed) ==
    /\ card.placed
    /\ Permitted(at # card.at, confirmed)
    /\ Commit("move", Placed(at, at # card.at))

\* An assignment compares it with the interval build_context reconstructs.
Assign(at, confirmed) ==
    /\ ~card.placed
    /\ Permitted(at # Baseline, confirmed)
    /\ Commit("assign", Placed(at, at # Baseline))

Unassign ==
    /\ card.placed
    /\ Commit("unassign", [card EXCEPT !.placed = FALSE])

\* Not recorded: neither undo nor redo knows about it.
Unlock ==
    /\ card.placed
    /\ card' = [card EXCEPT !.pinned = "no"]
    /\ UNCHANGED <<history, redo, eligibility>>

\* Mutant of Merged: only the interval comes back.
MergedInterval(saved) == [card EXCEPT !.at = saved.at, !.placed = saved.placed,
                                      !.pinned = "none"]

\* target.update(prev): a key that prev lacks keeps its current value.
Merged(saved) ==
    [saved EXCEPT !.pinned = IF @ = "none" THEN card.pinned ELSE @]

Undo ==
    /\ history # <<>>
    /\ LET r == history[Len(history)]
       IN  /\ card' = IF r.action \in {"move", "unassign"} THEN Merged(r.prev) ELSE r.prev
           /\ redo' = Append(redo, r)
    /\ history' = SubSeq(history, 1, Len(history) - 1)
    /\ UNCHANGED eligibility

Redo ==
    /\ redo # <<>>
    /\ LET r == redo[Len(redo)]
       IN  /\ card' = IF r.action = "stage" THEN card ELSE Merged(r.new)
           /\ history' = Trim(Append(history, r))
    /\ redo' = SubSeq(redo, 1, Len(redo) - 1)
    /\ UNCHANGED eligibility

Stage == Commit("stage", card)

\* A fresh run, or a rerun whose validation downgrades the pin, places the
\* lesson where the workbook asks or not at all; a preserved pin keeps it.
Rerun(preserve, downgraded, fits) ==
    /\ card' = IF preserve /\ card.placed /\ card.pinned = "yes" /\ ~downgraded
                 THEN card
                 ELSE [placed |-> fits, at |-> Requested, pinned |-> "none",
                       confirmed |-> FALSE]
    /\ history' = <<>>
    /\ redo' = <<>>
    /\ UNCHANGED eligibility

PutRules(status) == eligibility' = status /\ UNCHANGED <<card, history, redo>>

-----------------------------------------------------------------------------
Init ==
    /\ \E fits \in BOOLEAN :
          card = [placed |-> fits, at |-> Requested, pinned |-> "none", confirmed |-> FALSE]
    /\ history = <<>>
    /\ redo = <<>>
    /\ eligibility \in Eligibilities

Next ==
    \/ \E at \in Intervals, confirmed \in BOOLEAN : Move(at, confirmed)
    \/ \E at \in Intervals, confirmed \in BOOLEAN : Assign(at, confirmed)
    \/ Unassign
    \/ Unlock
    \/ Undo
    \/ Redo
    \/ Stage
    \/ \E preserve, downgraded, fits \in BOOLEAN : Rerun(preserve, downgraded, fits)
    \/ \E status \in Eligibilities : PutRules(status)

Spec == Init /\ [][Next]_vars

-----------------------------------------------------------------------------
\* The card and every saved state of it are well formed, and history and redo
\* stack stay within the bound.
TypeOK ==
    /\ card \in Cards
    /\ history \in Seq(Records) /\ redo \in Seq(Records)
    /\ Len(history) + Len(redo) <= MaxHistory
    /\ eligibility \in Eligibilities

\* A lesson that holds another interval than its row asks for carries a teacher
\* confirmation, through any unassign, undo, redo and pinned rerun, and whatever
\* the rules said when it came back.
OffRequestIsConfirmed == card.placed /\ card.at # Requested => card.confirmed

\* A lesson someone moved off its requested interval is pinned, so that a
\* preserve_pinned run keeps it there, unless it was unlocked.
OffRequestIsPinned == card.placed /\ card.at # Requested => card.pinned # "none"

\* "Teacher confirmation is required before changing the scheduled day or time":
\* an unconfirmed assignment puts a lesson where the workbook asks or back where
\* it was.  The baseline mixes the row's day with the last hour, so a third
\* interval is accepted without a confirmation, an original_time_only
\* instructor's lesson included.
AssignAsksTheTeacher ==
    [][\A at \in Intervals : Assign(at, FALSE) => at \in {Requested, card.at}]_vars
=============================================================================
