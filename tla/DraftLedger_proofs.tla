------------------------- MODULE DraftLedger_proofs -------------------------
(***************************************************************************)
(* Safety of the Step 4 draft for any lessons, rooms, times and any bound  *)
(* on the undo history.  The first invariant is about what is stored:      *)
(* every slot that is anywhere in the ledger, undo records included, keeps *)
(* its lesson's time and names its lesson in its id; every snapshot an     *)
(* undo may bring back lists each occurrence once.  The second one is      *)
(* about order: the records lead, one after the other, through sound       *)
(* drafts to the present one, so undo and redo take each other back.  With *)
(* both the draft implements the three layers.                             *)
(***************************************************************************)
EXTENDS DraftLedger, SequenceTheorems, NaturalsInduction, WellFoundedInduction, TLAPS

\* Slots of the right lesson at a time the lesson may have.
Kept == {s \in Slots : /\ s.id[2] = s.lesson
                       /\ s.lesson \notin Retimable => s.time = Requested[s.lesson]}

KeptIssues == {u \in Issues : u.id[2] = u.lesson}

KeptDrafts == [assigned: SUBSET Kept, unassigned: SUBSET KeptIssues]
SoundDrafts == {d \in KeptDrafts : ExactlyOnce(d) /\ PlacementPlan(Placements(d.assigned))}

\* A move keeps the event, an assignment the lesson.
KeptMoves == {r \in [action: {"move"}, prev: Kept, new: Kept] : r.prev.id = r.new.id}
KeptUnassigns == [action: {"unassign"}, slots: SUBSET Kept]
KeptAssigns == {r \in [action: {"assign"}, issue: KeptIssues, new: Kept] :
                   r.new.lesson = r.issue.lesson}
KeptStages == [action: {"stage"}, preL0: SoundDrafts, preL1: SoundDrafts]
SoundRecords == KeptMoves \cup KeptUnassigns \cup KeptAssigns \cup KeptStages

LedgerInv ==
    /\ draft \in SoundDrafts
    /\ authority \in SoundDrafts
    /\ history \in Seq(SoundRecords)
    /\ redo \in Seq(SoundRecords)
    /\ Len(history) + Len(redo) <= MaxHistory
    /\ unsealed \in BOOLEAN /\ dirty \in BOOLEAN /\ roundCommitted \in BOOLEAN
    /\ DivergenceIsUnsealed

\* The first round starts on an empty calendar and commits once.
CalendarInv ==
    /\ bookings \subseteq Kept
    /\ lectures \subseteq Rooms \X Times
    /\ ~roundCommitted => bookings = {}
    /\ CommittedSound

IInv == LedgerInv /\ CalendarInv

-----------------------------------------------------------------------------
(* Drafts and records. *)

\* Replacing an entry by id stays within any set that holds the replacement.
LEMMA UpdateByIdKeeps ==
    ASSUME NEW S, NEW slots \in SUBSET S, NEW saved \in S
    PROVE  UpdateById(slots, saved) \in SUBSET S
BY DEF UpdateById

\* What undo rebuilds is made of slots that keep their times.
LEMMA RevertKeeps ==
    ASSUME NEW d \in KeptDrafts, NEW r \in SoundRecords
    PROVE  Revert(d, r) \in KeptDrafts
<1>1. CASE r \in KeptMoves
  <2>1. UpdateById(d.assigned, r.prev) \in SUBSET Kept
    BY <1>1, UpdateByIdKeeps DEF KeptDrafts, KeptMoves
  <2>2. Revert(d, r) = [d EXCEPT !.assigned = UpdateById(d.assigned, r.prev)]
    BY <1>1 DEF Revert, KeptMoves
  <2> QED
    BY <2>1, <2>2 DEF KeptDrafts
<1>2. CASE r \in KeptUnassigns
  BY <1>2 DEF Revert, KeptDrafts, WithoutIds, KeptUnassigns
<1>3. CASE r \in KeptAssigns
  BY <1>3 DEF Revert, KeptDrafts, WithoutIds, KeptAssigns
<1>4. CASE r \in KeptStages
  BY <1>4 DEF Revert, SoundDrafts, KeptStages
<1> QED
  BY <1>1, <1>2, <1>3, <1>4 DEF SoundRecords

\* The same for redo.
LEMMA ReplayKeeps ==
    ASSUME NEW d \in KeptDrafts, NEW r \in SoundRecords
    PROVE  Replay(d, r) \in KeptDrafts
<1>1. CASE r \in KeptMoves
  <2>1. UpdateById(d.assigned, r.new) \in SUBSET Kept
    BY <1>1, UpdateByIdKeeps DEF KeptDrafts, KeptMoves
  <2>2. Replay(d, r) = [d EXCEPT !.assigned = IF r.new.id \in IdsOf(d.assigned)
                                                THEN UpdateById(d.assigned, r.new)
                                                ELSE d.assigned \cup {r.new}]
    BY <1>1 DEF Replay, KeptMoves
  <2> QED
    BY <1>1, <2>1, <2>2 DEF KeptDrafts, KeptMoves
<1>2. CASE r \in KeptUnassigns
  <2>1. {IssueOf(s) : s \in r.slots} \in SUBSET KeptIssues
    BY <1>2 DEF IssueOf, Issues, Kept, Slots, KeptIssues, KeptUnassigns
  <2> QED
    BY <1>2, <2>1 DEF Replay, KeptDrafts, WithoutIds, KeptUnassigns
<1>3. CASE r \in KeptAssigns
  <2>1. UpdateById(d.assigned, r.new) \in SUBSET Kept
    BY <1>3, UpdateByIdKeeps DEF KeptDrafts, KeptAssigns
  <2> QED
    BY <1>3, <2>1 DEF Replay, KeptDrafts, WithoutIds, KeptAssigns
<1>4. CASE r \in KeptStages
  BY <1>4 DEF Replay, KeptStages
<1> QED
  BY <1>1, <1>2, <1>3, <1>4 DEF SoundRecords

-----------------------------------------------------------------------------
(* Undo and redo of one record. *)

\* In a sound draft an event id names one slot, and no slot and issue share one.
LEMMA IdsAreNames ==
    ASSUME NEW d \in SoundDrafts
    PROVE  /\ \A s, t \in d.assigned : s.id = t.id => s = t
           /\ \A u, v \in d.unassigned : u.id = v.id => u = v
           /\ \A s \in d.assigned, u \in d.unassigned : s.lesson # u.lesson /\ s.id # u.id
<1>1. /\ \A s \in d.assigned : s.id[2] = s.lesson
      /\ \A u \in d.unassigned : u.id[2] = u.lesson
  BY DEF SoundDrafts, KeptDrafts, Kept, KeptIssues
<1>2. ExactlyOnce(d)
  BY DEF SoundDrafts
<1> QED
  BY <1>1, <1>2 DEF ExactlyOnce, LessonsOf

\* Replacing by id is replacing the slot that has it.
LEMMA UpdateIsReplace ==
    ASSUME NEW d \in SoundDrafts, NEW old \in d.assigned, NEW new, new.id = old.id
    PROVE  UpdateById(d.assigned, new) = (d.assigned \ {old}) \cup {new}
BY IdsAreNames DEF UpdateById

\* What redo does to the draft a record was written in.
LEMMA ReplayIs ==
    ASSUME NEW d \in SoundDrafts, NEW r \in SoundRecords, JustBefore(d, r)
    PROVE  /\ r \in KeptMoves => Replay(d, r) =
                 [assigned |-> (d.assigned \ {r.prev}) \cup {r.new}, unassigned |-> d.unassigned]
           /\ r \in KeptUnassigns => Replay(d, r) =
                 [assigned |-> d.assigned \ r.slots,
                  unassigned |-> d.unassigned \cup {IssueOf(s) : s \in r.slots}]
           /\ r \in KeptAssigns => Replay(d, r) =
                 [assigned |-> d.assigned \cup {r.new}, unassigned |-> d.unassigned \ {r.issue}]
           /\ r \in KeptStages => Replay(d, r) = d
<1>1. d = [assigned |-> d.assigned, unassigned |-> d.unassigned]
  BY DEF SoundDrafts, KeptDrafts
<1>2. ASSUME r \in KeptMoves
      PROVE  Replay(d, r) =
                 [assigned |-> (d.assigned \ {r.prev}) \cup {r.new}, unassigned |-> d.unassigned]
  <2>1. r.action = "move" /\ r.prev.id = r.new.id
    BY <1>2 DEF KeptMoves
  <2>2. r.prev \in d.assigned
    BY <2>1 DEF JustBefore
  <2>3. UpdateById(d.assigned, r.new) = (d.assigned \ {r.prev}) \cup {r.new}
    BY <2>1, <2>2, UpdateIsReplace
  <2>4. r.new.id \in IdsOf(d.assigned)
    BY <2>1, <2>2 DEF IdsOf
  <2>5. Replay(d, r) = [d EXCEPT !.assigned = UpdateById(d.assigned, r.new)]
    BY <2>1, <2>4 DEF Replay
  <2> QED
    BY <1>1, <2>3, <2>5
<1>3. ASSUME r \in KeptUnassigns
      PROVE  Replay(d, r) =
                 [assigned |-> d.assigned \ r.slots,
                  unassigned |-> d.unassigned \cup {IssueOf(s) : s \in r.slots}]
  <2>1. r.action = "unassign"
    BY <1>3 DEF KeptUnassigns
  <2>2. r.slots \subseteq d.assigned
    BY <2>1 DEF JustBefore
  <2>3. WithoutIds(d.assigned, IdsOf(r.slots)) = d.assigned \ r.slots
    BY <2>2, IdsAreNames DEF WithoutIds, IdsOf
  <2> QED
    BY <2>1, <2>3 DEF Replay
<1>4. ASSUME r \in KeptAssigns
      PROVE  Replay(d, r) =
                 [assigned |-> d.assigned \cup {r.new}, unassigned |-> d.unassigned \ {r.issue}]
  <2>1. r.action = "assign" /\ r.new.lesson = r.issue.lesson /\ r.new.id[2] = r.new.lesson
    BY <1>4 DEF KeptAssigns, Kept
  <2>2. r.issue \in d.unassigned
    BY <2>1 DEF JustBefore
  <2>3. r.new.id \notin IdsOf(d.assigned)
    <3>1. \A s \in d.assigned : s.id[2] = s.lesson
      BY DEF SoundDrafts, KeptDrafts, Kept
    <3> QED
      BY <2>1, <2>2, <3>1, IdsAreNames DEF IdsOf
  <2>4. WithoutIds(d.unassigned, {r.issue.id}) = d.unassigned \ {r.issue}
    BY <2>2, IdsAreNames DEF WithoutIds
  <2> QED
    BY <2>1, <2>3, <2>4 DEF Replay
<1>5. ASSUME r \in KeptStages
      PROVE  Replay(d, r) = d
  BY <1>5 DEF KeptStages, Replay
<1> QED
  BY <1>2, <1>3, <1>4, <1>5

\* What undo does to the draft a record left behind.
LEMMA RevertIs ==
    ASSUME NEW d \in SoundDrafts, NEW r \in SoundRecords, JustAfter(d, r)
    PROVE  /\ r \in KeptMoves => Revert(d, r) =
                 [assigned |-> (d.assigned \ {r.new}) \cup {r.prev}, unassigned |-> d.unassigned]
           /\ r \in KeptUnassigns => Revert(d, r) =
                 [assigned |-> d.assigned \cup r.slots,
                  unassigned |-> d.unassigned \ {IssueOf(s) : s \in r.slots}]
           /\ r \in KeptAssigns => Revert(d, r) =
                 [assigned |-> d.assigned \ {r.new}, unassigned |-> d.unassigned \cup {r.issue}]
           /\ r \in KeptStages => Revert(d, r) = d
<1>1. d = [assigned |-> d.assigned, unassigned |-> d.unassigned]
  BY DEF SoundDrafts, KeptDrafts
<1>2. ASSUME r \in KeptMoves
      PROVE  Revert(d, r) =
                 [assigned |-> (d.assigned \ {r.new}) \cup {r.prev}, unassigned |-> d.unassigned]
  <2>1. r.action = "move" /\ r.prev.id = r.new.id
    BY <1>2 DEF KeptMoves
  <2>2. r.new \in d.assigned
    BY <2>1 DEF JustAfter
  <2>3. UpdateById(d.assigned, r.prev) = (d.assigned \ {r.new}) \cup {r.prev}
    BY <2>1, <2>2, UpdateIsReplace
  <2>4. Revert(d, r) = [d EXCEPT !.assigned = UpdateById(d.assigned, r.prev)]
    BY <2>1 DEF Revert
  <2> QED
    BY <1>1, <2>3, <2>4
<1>3. ASSUME r \in KeptUnassigns
      PROVE  Revert(d, r) =
                 [assigned |-> d.assigned \cup r.slots,
                  unassigned |-> d.unassigned \ {IssueOf(s) : s \in r.slots}]
  <2>1. r.action = "unassign"
    BY <1>3 DEF KeptUnassigns
  <2>2. \A s \in r.slots : IssueOf(s) \in d.unassigned /\ IssueOf(s).id = s.id
    BY <2>1 DEF JustAfter, IssueOf
  <2>3. WithoutIds(d.unassigned, IdsOf(r.slots)) = d.unassigned \ {IssueOf(s) : s \in r.slots}
    <3>1. ASSUME NEW u \in d.unassigned
          PROVE  u.id \in IdsOf(r.slots) <=> u \in {IssueOf(s) : s \in r.slots}
      BY <2>2, IdsAreNames DEF IdsOf
    <3> QED
      BY <3>1 DEF WithoutIds
  <2> QED
    BY <2>1, <2>3 DEF Revert
<1>4. ASSUME r \in KeptAssigns
      PROVE  Revert(d, r) =
                 [assigned |-> d.assigned \ {r.new}, unassigned |-> d.unassigned \cup {r.issue}]
  <2>1. r.action = "assign"
    BY <1>4 DEF KeptAssigns
  <2>2. r.new \in d.assigned /\ r.issue.id \notin IdsOf(d.unassigned)
    BY <2>1 DEF JustAfter
  <2>3. WithoutIds(d.assigned, {r.new.id}) = d.assigned \ {r.new}
    BY <2>2, IdsAreNames DEF WithoutIds
  <2> QED
    BY <2>1, <2>2, <2>3 DEF Revert
<1>5. ASSUME r \in KeptStages
      PROVE  Revert(d, r) = d
  BY <1>5 DEF KeptStages, Revert, JustAfter
<1> QED
  BY <1>2, <1>3, <1>4, <1>5

\* Redoing a record where it was written leaves a draft it can be undone from, and
\* undoing it goes back.
LEMMA RedoRestores ==
    ASSUME NEW d \in SoundDrafts, NEW r \in SoundRecords, JustBefore(d, r),
           Replay(d, r) \in SoundDrafts
    PROVE  JustAfter(Replay(d, r), r) /\ Revert(Replay(d, r), r) = d
<1> DEFINE e == Replay(d, r)
<1>0. d = [assigned |-> d.assigned, unassigned |-> d.unassigned]
  BY DEF SoundDrafts, KeptDrafts
<1>1. CASE r \in KeptMoves
  <2>1. r.action = "move" /\ r.prev.lesson = r.new.lesson
    BY <1>1 DEF KeptMoves, Kept
  <2>2. r.prev \in d.assigned
    BY <2>1 DEF JustBefore
  <2>3. e = [assigned |-> (d.assigned \ {r.prev}) \cup {r.new}, unassigned |-> d.unassigned]
    BY <1>1, ReplayIs
  <2>4. JustAfter(e, r)
    BY <2>1, <2>3 DEF JustAfter
  <2>5. Revert(e, r) = [assigned |-> (e.assigned \ {r.new}) \cup {r.prev},
                        unassigned |-> e.unassigned]
    BY <1>1, <2>4, RevertIs
  <2>6. r.new \in d.assigned => r.new = r.prev
    BY <2>1, <2>2 DEF SoundDrafts, ExactlyOnce
  <2>7. (e.assigned \ {r.new}) \cup {r.prev} = d.assigned /\ e.unassigned = d.unassigned
    BY <2>2, <2>3, <2>6
  <2> QED
    BY <1>0, <2>4, <2>5, <2>7
<1>2. CASE r \in KeptUnassigns
  <2>1. r.action = "unassign"
    BY <1>2 DEF KeptUnassigns
  <2>2. r.slots \subseteq d.assigned
    BY <2>1 DEF JustBefore
  <2>3. e = [assigned |-> d.assigned \ r.slots,
             unassigned |-> d.unassigned \cup {IssueOf(s) : s \in r.slots}]
    BY <1>2, ReplayIs
  <2>4. JustAfter(e, r)
    BY <2>1, <2>3 DEF JustAfter
  <2>5. Revert(e, r) = [assigned |-> e.assigned \cup r.slots,
                        unassigned |-> e.unassigned \ {IssueOf(s) : s \in r.slots}]
    BY <1>2, <2>4, RevertIs
  <2>6. \A s \in r.slots : IssueOf(s) \notin d.unassigned
    BY <2>2, IdsAreNames DEF IssueOf
  <2>7. /\ e.assigned \cup r.slots = d.assigned
        /\ e.unassigned \ {IssueOf(s) : s \in r.slots} = d.unassigned
    BY <2>2, <2>3, <2>6
  <2> QED
    BY <1>0, <2>4, <2>5, <2>7
<1>3. CASE r \in KeptAssigns
  <2>1. r.action = "assign" /\ r.new.lesson = r.issue.lesson
    BY <1>3 DEF KeptAssigns
  <2>2. r.issue \in d.unassigned
    BY <2>1 DEF JustBefore
  <2>3. e = [assigned |-> d.assigned \cup {r.new}, unassigned |-> d.unassigned \ {r.issue}]
    BY <1>3, ReplayIs
  <2>4. JustAfter(e, r)
    BY <2>1, <2>2, <2>3, IdsAreNames DEF JustAfter, IdsOf
  <2>5. Revert(e, r) = [assigned |-> e.assigned \ {r.new},
                        unassigned |-> e.unassigned \cup {r.issue}]
    BY <1>3, <2>4, RevertIs
  <2>6. r.new \notin d.assigned
    BY <2>1, <2>2, IdsAreNames
  <2>7. e.assigned \ {r.new} = d.assigned /\ e.unassigned \cup {r.issue} = d.unassigned
    BY <2>2, <2>3, <2>6
  <2> QED
    BY <1>0, <2>4, <2>5, <2>7
<1>4. CASE r \in KeptStages
  <2>1. e = d /\ r.action = "stage"
    BY <1>4, ReplayIs DEF KeptStages
  <2>2. JustAfter(e, r)
    BY <2>1 DEF JustBefore, JustAfter
  <2> QED
    BY <1>4, <2>1, <2>2, RevertIs
<1> QED
  BY <1>1, <1>2, <1>3, <1>4 DEF SoundRecords

\* Undoing a record from the draft it left goes to a draft it can be redone from, and
\* redoing it comes back.
LEMMA UndoRestores ==
    ASSUME NEW d \in SoundDrafts, NEW r \in SoundRecords, JustAfter(d, r),
           Revert(d, r) \in SoundDrafts
    PROVE  JustBefore(Revert(d, r), r) /\ Replay(Revert(d, r), r) = d
<1> DEFINE e == Revert(d, r)
<1>0. d = [assigned |-> d.assigned, unassigned |-> d.unassigned]
  BY DEF SoundDrafts, KeptDrafts
<1>1. CASE r \in KeptMoves
  <2>1. r.action = "move" /\ r.prev.lesson = r.new.lesson
    BY <1>1 DEF KeptMoves, Kept
  <2>2. r.new \in d.assigned
    BY <2>1 DEF JustAfter
  <2>3. e = [assigned |-> (d.assigned \ {r.new}) \cup {r.prev}, unassigned |-> d.unassigned]
    BY <1>1, RevertIs
  <2>4. JustBefore(e, r)
    BY <2>1, <2>3 DEF JustBefore
  <2>5. Replay(e, r) = [assigned |-> (e.assigned \ {r.prev}) \cup {r.new},
                        unassigned |-> e.unassigned]
    BY <1>1, <2>4, ReplayIs
  <2>6. r.prev \in d.assigned => r.new = r.prev
    BY <2>1, <2>2 DEF SoundDrafts, ExactlyOnce
  <2>7. (e.assigned \ {r.prev}) \cup {r.new} = d.assigned /\ e.unassigned = d.unassigned
    BY <2>2, <2>3, <2>6
  <2> QED
    BY <1>0, <2>4, <2>5, <2>7
<1>2. CASE r \in KeptUnassigns
  <2>1. r.action = "unassign"
    BY <1>2 DEF KeptUnassigns
  <2>2. \A s \in r.slots : IssueOf(s) \in d.unassigned /\ IssueOf(s).lesson = s.lesson
    BY <2>1 DEF JustAfter, IssueOf
  <2>3. e = [assigned |-> d.assigned \cup r.slots,
             unassigned |-> d.unassigned \ {IssueOf(s) : s \in r.slots}]
    BY <1>2, RevertIs
  <2>4. JustBefore(e, r)
    BY <2>1, <2>3 DEF JustBefore
  <2>5. Replay(e, r) = [assigned |-> e.assigned \ r.slots,
                        unassigned |-> e.unassigned \cup {IssueOf(s) : s \in r.slots}]
    BY <1>2, <2>4, ReplayIs
  <2>6. \A s \in r.slots : s \notin d.assigned
    BY <2>2, IdsAreNames
  <2>7. /\ e.assigned \ r.slots = d.assigned
        /\ e.unassigned \cup {IssueOf(s) : s \in r.slots} = d.unassigned
    BY <2>2, <2>3, <2>6
  <2> QED
    BY <1>0, <2>4, <2>5, <2>7
<1>3. CASE r \in KeptAssigns
  <2>1. r.action = "assign"
    BY <1>3 DEF KeptAssigns
  <2>2. r.new \in d.assigned /\ r.issue.id \notin IdsOf(d.unassigned)
    BY <2>1 DEF JustAfter
  <2>3. e = [assigned |-> d.assigned \ {r.new}, unassigned |-> d.unassigned \cup {r.issue}]
    BY <1>3, RevertIs
  <2>4. JustBefore(e, r)
    BY <2>1, <2>3 DEF JustBefore
  <2>5. Replay(e, r) = [assigned |-> e.assigned \cup {r.new},
                        unassigned |-> e.unassigned \ {r.issue}]
    BY <1>3, <2>4, ReplayIs
  <2>6. r.issue \notin d.unassigned
    BY <2>2 DEF IdsOf
  <2>7. e.assigned \cup {r.new} = d.assigned /\ e.unassigned \ {r.issue} = d.unassigned
    BY <2>2, <2>3, <2>6
  <2> QED
    BY <1>0, <2>4, <2>5, <2>7
<1>4. CASE r \in KeptStages
  <2>1. e = d /\ r.action = "stage"
    BY <1>4, RevertIs DEF KeptStages
  <2>2. JustBefore(e, r)
    BY <2>1 DEF JustBefore, JustAfter
  <2> QED
    BY <1>4, <2>1, <2>2, ReplayIs
<1> QED
  BY <1>1, <1>2, <1>3, <1>4 DEF SoundRecords

-----------------------------------------------------------------------------
(* The history. *)

\* Trimming keeps the newest records, never more than the bound.
LEMMA TrimBounds ==
    ASSUME NEW S, NEW h \in Seq(S)
    PROVE  /\ Trim(h) \in Seq(S)
           /\ Len(Trim(h)) <= Len(h)
           /\ Len(Trim(h)) <= MaxHistory
<1> MaxHistory \in Nat \ {0}
  BY BoundAssumption
<1>1. CASE Len(h) > MaxHistory
  <2>1. \A i \in Len(h) - MaxHistory + 1 .. Len(h) : h[i] \in S
    BY <1>1, ElementOfSeq
  <2>2. /\ SubSeq(h, Len(h) - MaxHistory + 1, Len(h)) \in Seq(S)
        /\ Len(SubSeq(h, Len(h) - MaxHistory + 1, Len(h))) = MaxHistory
    BY <1>1, <2>1, SubSeqProperties
  <2> QED
    BY <1>1, <2>2 DEF Trim
<1>2. CASE ~(Len(h) > MaxHistory)
  BY <1>2 DEF Trim
<1> QED
  BY <1>1, <1>2

\* Taking the newest record off.
LEMMA FrontLast ==
    ASSUME NEW S, NEW h \in Seq(S), h # <<>>
    PROVE  /\ Last(h) \in S
           /\ Front(h) \in Seq(S)
           /\ Len(Front(h)) = Len(h) - 1
<1>1. Len(h) \in Nat /\ Len(h) > 0
  BY EmptySeq
<1>2. \A i \in 1 .. Len(h) - 1 : h[i] \in S
  BY <1>1, ElementOfSeq
<1> DEFINE n == Len(h) - 1
<1>3. n \in Int /\ 1 \in Int /\ \A i \in 1 .. n : h[i] \in S
  BY <1>1, <1>2
<1>4. /\ SubSeq(h, 1, n) \in Seq(S)
      /\ Len(SubSeq(h, 1, n)) = IF 1 <= n THEN n - 1 + 1 ELSE 0
  <2> HIDE DEF n
  <2> QED
    BY <1>3, SubSeqProperties
<1>5. (IF 1 <= n THEN n - 1 + 1 ELSE 0) = n
  <2>1. n \in Nat
    BY <1>1
  <2> HIDE DEF n
  <2>2. CASE 1 <= n
    BY <2>1, <2>2
  <2>3. CASE ~(1 <= n)
    BY <2>1, <2>3
  <2> QED
    BY <2>2, <2>3
<1>6. Front(h) \in Seq(S) /\ Len(Front(h)) = Len(h) - 1
  <2>1. Front(h) = SubSeq(h, 1, n)
    BY DEF Front
  <2>2. Front(h) \in Seq(S) /\ Len(Front(h)) = n
    <3> HIDE DEF n
    <3> QED
      BY <2>1, <1>4, <1>5
  <2> QED
    BY <2>2
<1>7. Last(h) \in S
  BY <1>1, ElementOfSeq DEF Last
<1> QED
  BY <1>6, <1>7

\* The records in front of the newest are where they were.
LEMMA FrontIs ==
    ASSUME NEW S, NEW h \in Seq(S), h # <<>>
    PROVE  \A i \in 1 .. Len(h) - 1 : Front(h)[i] = h[i]
<1> DEFINE n == Len(h) - 1
<1>1. n \in Nat /\ \A i \in 1 .. n : h[i] \in S
  <2>1. Len(h) \in Nat /\ Len(h) > 0
    BY EmptySeq
  <2> QED
    BY <2>1, ElementOfSeq
<1>2. n \in Int /\ 1 \in Int /\ 1 .. n = 1 .. n - 1 + 1
  BY <1>1
<1>3. Front(h) = SubSeq(h, 1, n)
  BY DEF Front
<1>4. \A i \in 1 .. n : SubSeq(h, 1, n)[i] = h[1 + i - 1]
  <2> HIDE DEF n
  <2> QED
    BY <1>1, <1>2, SubSeqProperties
<1> QED
  BY <1>1, <1>3, <1>4

\* A trimmed history holds the newest records.
LEMMA TrimIs ==
    ASSUME NEW S, NEW h \in Seq(S), Len(h) > MaxHistory
    PROVE  /\ Len(Trim(h)) = MaxHistory
           /\ \A i \in 1 .. MaxHistory : Trim(h)[i] = h[Len(h) - MaxHistory + i]
<1> DEFINE m == Len(h) - MaxHistory + 1
<1>1. MaxHistory \in Nat \ {0} /\ Len(h) \in Nat
  BY BoundAssumption
<1>2. \A i \in m .. Len(h) : h[i] \in S
  BY <1>1, ElementOfSeq
<1>3. m \in Int /\ Len(h) \in Int /\ m <= Len(h) /\ Len(h) - m + 1 = MaxHistory
  BY <1>1
<1>4. Trim(h) = SubSeq(h, m, Len(h))
  BY DEF Trim
<1>5. /\ Len(SubSeq(h, m, Len(h))) = MaxHistory
      /\ \A i \in 1 .. MaxHistory : SubSeq(h, m, Len(h))[i] = h[m + i - 1]
  <2> HIDE DEF m
  <2> QED
    BY <1>2, <1>3, SubSeqProperties
<1>6. \A i \in 1 .. MaxHistory : m + i - 1 = Len(h) - MaxHistory + i
  BY <1>1
<1> HIDE DEF m
<1> QED
  BY <1>4, <1>5, <1>6

-----------------------------------------------------------------------------
(* The drafts that the records lead through.                                     *)

\* D[i] is the draft after the first i records of h, and d the one after all of them:
\* each record can be undone from the draft it left, to the draft before.
Leads(D, h, d) ==
    /\ D \in [0 .. Len(h) -> SoundDrafts]
    /\ D[Len(h)] = d
    /\ \A i \in 1 .. Len(h) : JustAfter(D[i], h[i]) /\ D[i - 1] = Revert(D[i], h[i])
Past(h, d) == \E D : Leads(D, h, d)

\* The same for undone records: each can be redone from where it was taken back to.
Returns(D, s, d) ==
    /\ D \in [0 .. Len(s) -> SoundDrafts]
    /\ D[Len(s)] = d
    /\ \A i \in 1 .. Len(s) : JustBefore(D[i], s[i]) /\ D[i - 1] = Replay(D[i], s[i])
Future(s, d) == \E D : Returns(D, s, d)

ReplayInv == Past(history, draft) /\ Future(redo, draft)

\* Without records there is nothing to undo or to redo.
LEMMA NoRecords ==
    ASSUME NEW d \in SoundDrafts
    PROVE  Past(<<>>, d) /\ Future(<<>>, d)
<1> DEFINE D == [i \in 0 .. 0 |-> d]
<1>1. Len(<<>>) = 0
  OBVIOUS
<1>2. D \in [0 .. 0 -> SoundDrafts] /\ D[0] = d
  OBVIOUS
<1> HIDE DEF D
<1>3. Leads(D, <<>>, d) /\ Returns(D, <<>>, d)
  BY <1>1, <1>2 DEF Leads, Returns
<1> QED
  BY <1>3 DEF Past, Future

\* A record is pushed that can be undone to the draft there was.
LEMMA PastGrows ==
    ASSUME NEW h \in Seq(SoundRecords), NEW d, Past(h, d),
           NEW r \in SoundRecords, NEW e \in SoundDrafts,
           JustAfter(e, r), Revert(e, r) = d
    PROVE  Past(Append(h, r), e)
<1>1. PICK D : Leads(D, h, d)
  BY DEF Past
<1> DEFINE n == Len(h)
           E == [i \in 0 .. n + 1 |-> IF i = n + 1 THEN e ELSE D[i]]
<1>2. n \in Nat
  BY LenProperties
<1>3. /\ Len(Append(h, r)) = n + 1 /\ Append(h, r)[n + 1] = r
      /\ \A i \in 1 .. n : Append(h, r)[i] = h[i]
  BY AppendProperties
<1>4. D \in [0 .. n -> SoundDrafts] /\ D[n] = d
  BY <1>1 DEF Leads
<1>5. \A i \in 1 .. n : JustAfter(D[i], h[i]) /\ D[i - 1] = Revert(D[i], h[i])
  BY <1>1 DEF Leads
<1> HIDE DEF n
<1>6. E \in [0 .. n + 1 -> SoundDrafts]
  BY <1>2, <1>4
<1>7. E[n + 1] = e /\ \A i \in 0 .. n : E[i] = D[i]
  BY <1>2
<1> HIDE DEF E
<1>8. ASSUME NEW i \in 1 .. n + 1
      PROVE  JustAfter(E[i], Append(h, r)[i]) /\ E[i - 1] = Revert(E[i], Append(h, r)[i])
  <2>1. CASE i = n + 1
    <3>1. E[i - 1] = d /\ E[i] = e
      BY <1>2, <1>4, <1>7, <2>1
    <3> QED
      BY <1>3, <2>1, <3>1
  <2>2. CASE i # n + 1
    <3>1. i \in 1 .. n /\ i - 1 \in 0 .. n /\ i \in 0 .. n
      BY <1>2, <2>2
    <3> QED
      BY <1>3, <1>5, <1>7, <3>1
  <2> QED
    BY <2>1, <2>2
<1>9. Leads(E, Append(h, r), e)
  BY <1>3, <1>6, <1>7, <1>8 DEF Leads
<1> QED
  BY <1>9 DEF Past

\* The newest record is taken off: it can be undone, and the others still can.
LEMMA PastShrinks ==
    ASSUME NEW h \in Seq(SoundRecords), h # <<>>, NEW d, Past(h, d)
    PROVE  /\ JustAfter(d, Last(h))
           /\ Revert(d, Last(h)) \in SoundDrafts
           /\ Past(Front(h), Revert(d, Last(h)))
<1>1. PICK D : Leads(D, h, d)
  BY DEF Past
<1> DEFINE n == Len(h)
           E == [i \in 0 .. n - 1 |-> D[i]]
<1>2. n \in Nat \ {0}
  BY EmptySeq, LenProperties
<1>3. /\ Last(h) = h[n] /\ Len(Front(h)) = n - 1
      /\ \A i \in 1 .. n - 1 : Front(h)[i] = h[i]
  BY FrontIs, FrontLast DEF Last
<1>4. D \in [0 .. n -> SoundDrafts] /\ D[n] = d
  BY <1>1 DEF Leads
<1>5. \A i \in 1 .. n : JustAfter(D[i], h[i]) /\ D[i - 1] = Revert(D[i], h[i])
  BY <1>1 DEF Leads
<1> HIDE DEF n
<1>6. JustAfter(d, Last(h)) /\ D[n - 1] = Revert(d, Last(h)) /\ D[n - 1] \in SoundDrafts
  BY <1>2, <1>3, <1>4, <1>5
<1>7. E \in [0 .. n - 1 -> SoundDrafts] /\ \A i \in 0 .. n - 1 : E[i] = D[i]
  BY <1>2, <1>4
<1> HIDE DEF E
<1>8. E[n - 1] = D[n - 1]
  BY <1>2, <1>7
<1>9. ASSUME NEW i \in 1 .. n - 1
      PROVE  JustAfter(E[i], Front(h)[i]) /\ E[i - 1] = Revert(E[i], Front(h)[i])
  <2>1. i \in 1 .. n /\ i \in 0 .. n - 1 /\ i - 1 \in 0 .. n - 1
    BY <1>2
  <2> QED
    BY <1>3, <1>5, <1>7, <2>1
<1>10. Leads(E, Front(h), Revert(d, Last(h)))
  BY <1>3, <1>6, <1>7, <1>8, <1>9 DEF Leads
<1> QED
  BY <1>6, <1>10 DEF Past

\* The oldest records are trimmed: the newest can still be undone.
LEMMA PastTrims ==
    ASSUME NEW h \in Seq(SoundRecords), NEW d, Past(h, d)
    PROVE  Past(Trim(h), d)
<1>1. PICK D : Leads(D, h, d)
  BY DEF Past
<1> DEFINE n == Len(h)
           m == MaxHistory
           E == [i \in 0 .. m |-> D[n - m + i]]
<1>2. n \in Nat /\ m \in Nat
  BY LenProperties, BoundAssumption
<1>3. CASE ~(n > m)
  BY <1>3 DEF Trim
<1>4. CASE n > m
  <2>1. D \in [0 .. n -> SoundDrafts] /\ D[n] = d
    BY <1>1 DEF Leads
  <2>2. \A i \in 1 .. n : JustAfter(D[i], h[i]) /\ D[i - 1] = Revert(D[i], h[i])
    BY <1>1 DEF Leads
  <2>3. Len(Trim(h)) = m /\ \A i \in 1 .. m : Trim(h)[i] = h[n - m + i]
    BY <1>4, TrimIs
  <2> HIDE DEF n, m
  <2>4. \A i \in 0 .. m : n - m + i \in 0 .. n
    BY <1>2, <1>4
  <2>5. E \in [0 .. m -> SoundDrafts] /\ \A i \in 0 .. m : E[i] = D[n - m + i]
    BY <2>1, <2>4
  <2> HIDE DEF E
  <2>6. E[m] = d
    BY <1>2, <2>1, <2>5
  <2>7. ASSUME NEW i \in 1 .. m
        PROVE  JustAfter(E[i], Trim(h)[i]) /\ E[i - 1] = Revert(E[i], Trim(h)[i])
    <3>1. /\ i \in 0 .. m /\ i - 1 \in 0 .. m /\ n - m + i \in 1 .. n
          /\ n - m + (i - 1) = (n - m + i) - 1
      BY <1>2, <1>4
    <3>2. E[i] = D[n - m + i] /\ E[i - 1] = D[(n - m + i) - 1] /\ Trim(h)[i] = h[n - m + i]
      BY <2>3, <2>5, <3>1
    <3> QED
      BY <2>2, <3>1, <3>2
  <2>8. Leads(E, Trim(h), d)
    BY <2>3, <2>5, <2>6, <2>7 DEF Leads
  <2> QED
    BY <2>8 DEF Past
<1> QED
  BY <1>3, <1>4

\* The redo stack grows and shrinks like the history.
LEMMA FutureGrows ==
    ASSUME NEW s \in Seq(SoundRecords), NEW d, Future(s, d),
           NEW r \in SoundRecords, NEW e \in SoundDrafts,
           JustBefore(e, r), Replay(e, r) = d
    PROVE  Future(Append(s, r), e)
<1>1. PICK D : Returns(D, s, d)
  BY DEF Future
<1> DEFINE n == Len(s)
           E == [i \in 0 .. n + 1 |-> IF i = n + 1 THEN e ELSE D[i]]
<1>2. n \in Nat
  BY LenProperties
<1>3. /\ Len(Append(s, r)) = n + 1 /\ Append(s, r)[n + 1] = r
      /\ \A i \in 1 .. n : Append(s, r)[i] = s[i]
  BY AppendProperties
<1>4. D \in [0 .. n -> SoundDrafts] /\ D[n] = d
  BY <1>1 DEF Returns
<1>5. \A i \in 1 .. n : JustBefore(D[i], s[i]) /\ D[i - 1] = Replay(D[i], s[i])
  BY <1>1 DEF Returns
<1> HIDE DEF n
<1>6. E \in [0 .. n + 1 -> SoundDrafts]
  BY <1>2, <1>4
<1>7. E[n + 1] = e /\ \A i \in 0 .. n : E[i] = D[i]
  BY <1>2
<1> HIDE DEF E
<1>8. ASSUME NEW i \in 1 .. n + 1
      PROVE  JustBefore(E[i], Append(s, r)[i]) /\ E[i - 1] = Replay(E[i], Append(s, r)[i])
  <2>1. CASE i = n + 1
    <3>1. E[i - 1] = d /\ E[i] = e
      BY <1>2, <1>4, <1>7, <2>1
    <3> QED
      BY <1>3, <2>1, <3>1
  <2>2. CASE i # n + 1
    <3>1. i \in 1 .. n /\ i - 1 \in 0 .. n /\ i \in 0 .. n
      BY <1>2, <2>2
    <3> QED
      BY <1>3, <1>5, <1>7, <3>1
  <2> QED
    BY <2>1, <2>2
<1>9. Returns(E, Append(s, r), e)
  BY <1>3, <1>6, <1>7, <1>8 DEF Returns
<1> QED
  BY <1>9 DEF Future

LEMMA FutureShrinks ==
    ASSUME NEW s \in Seq(SoundRecords), s # <<>>, NEW d, Future(s, d)
    PROVE  /\ JustBefore(d, Last(s))
           /\ Replay(d, Last(s)) \in SoundDrafts
           /\ Future(Front(s), Replay(d, Last(s)))
<1>1. PICK D : Returns(D, s, d)
  BY DEF Future
<1> DEFINE n == Len(s)
           E == [i \in 0 .. n - 1 |-> D[i]]
<1>2. n \in Nat \ {0}
  BY EmptySeq, LenProperties
<1>3. /\ Last(s) = s[n] /\ Len(Front(s)) = n - 1
      /\ \A i \in 1 .. n - 1 : Front(s)[i] = s[i]
  BY FrontIs, FrontLast DEF Last
<1>4. D \in [0 .. n -> SoundDrafts] /\ D[n] = d
  BY <1>1 DEF Returns
<1>5. \A i \in 1 .. n : JustBefore(D[i], s[i]) /\ D[i - 1] = Replay(D[i], s[i])
  BY <1>1 DEF Returns
<1> HIDE DEF n
<1>6. JustBefore(d, Last(s)) /\ D[n - 1] = Replay(d, Last(s)) /\ D[n - 1] \in SoundDrafts
  BY <1>2, <1>3, <1>4, <1>5
<1>7. E \in [0 .. n - 1 -> SoundDrafts] /\ \A i \in 0 .. n - 1 : E[i] = D[i]
  BY <1>2, <1>4
<1> HIDE DEF E
<1>8. E[n - 1] = D[n - 1]
  BY <1>2, <1>7
<1>9. ASSUME NEW i \in 1 .. n - 1
      PROVE  JustBefore(E[i], Front(s)[i]) /\ E[i - 1] = Replay(E[i], Front(s)[i])
  <2>1. i \in 1 .. n /\ i \in 0 .. n - 1 /\ i - 1 \in 0 .. n - 1
    BY <1>2
  <2> QED
    BY <1>3, <1>5, <1>7, <2>1
<1>10. Returns(E, Front(s), Replay(d, Last(s)))
  BY <1>3, <1>6, <1>7, <1>8, <1>9 DEF Returns
<1> QED
  BY <1>6, <1>10 DEF Future

-----------------------------------------------------------------------------
(* What the integrity gate establishes. *)

\* A valid draft of kept slots can be committed: no two of its lessons share a
\* room or an instructor, and none sits under a lecture.  Ids tell lessons apart
\* because they name them, so Clash's exception for one id never applies.
LEMMA ValidIsSound ==
    ASSUME NEW d \in KeptDrafts, NEW locks, Valid(d, locks)
    PROVE  /\ d \in SoundDrafts
           /\ \A b, c \in d.assigned :
                 b # c => ~SameTimeAndPlace(b, c) /\ b.lesson # c.lesson
           /\ \A b \in d.assigned : RoomAllowed(b)
<1>1. ExactlyOnce(d) /\ \A b \in d.assigned : RoomAllowed(b)
  BY DEF Valid
<1>2. ASSUME NEW b \in d.assigned, NEW c \in d.assigned, b # c
      PROVE  ~SameTimeAndPlace(b, c) /\ b.lesson # c.lesson
  <2>1. b.lesson # c.lesson
    BY <1>1, <1>2 DEF ExactlyOnce
  <2>2. b.id[2] = b.lesson /\ c.id[2] = c.lesson
    BY DEF KeptDrafts, Kept
  <2>3. ~Clash(b, c)
    BY DEF Valid
  <2> QED
    BY <2>1, <2>2, <2>3 DEF Clash
<1>3. PlacementPlan(Placements(d.assigned))
  BY <1>2 DEF PlacementPlan, Placements, SameTimeAndPlace
<1> QED
  BY <1>1, <1>2, <1>3 DEF SoundDrafts

\* An optimizer candidate keeps the requested times and the pinned slots.
LEMMA CandidateKeeps ==
    ASSUME NEW kept \in SUBSET Kept, NEW room \in [Lessons -> Rooms \cup {NoRoom}]
    PROVE  Candidate(kept, room) \in KeptDrafts
<1> DEFINE open == Lessons \ LessonsOf(kept)
<1>1. Generated(room, open) \in SUBSET Kept
  <2> SUFFICES ASSUME NEW l \in {k \in open : room[k] # NoRoom}
               PROVE  [id |-> <<"optimizer", l>>, lesson |-> l, room |-> room[l],
                       time |-> Requested[l]] \in Kept
    BY DEF Generated
  <2>1. l \in Lessons /\ room[l] \in Rooms
    OBVIOUS
  <2>2. Requested[l] \in Times
    BY <2>1, SourceAssumption
  <2>3. <<"optimizer", l>> \in Ids /\ <<"optimizer", l>>[2] = l
    BY <2>1 DEF Ids
  <2> QED
    BY <2>1, <2>2, <2>3 DEF Kept, Slots
<1>2. {[id |-> <<"optimizer", l>>, lesson |-> l] :
          l \in {k \in open : room[k] = NoRoom}} \in SUBSET KeptIssues
  BY DEF Issues, Ids, KeptIssues
<1> QED
  BY <1>1, <1>2 DEF Candidate, KeptDrafts

-----------------------------------------------------------------------------
(* The common part of all draft commands. *)

\* A persisted command leaves a sound draft, a trimmed history, and everything
\* outside the ledger as it was.
LEMMA PersistSteps ==
    ASSUME IInv,
           NEW d \in KeptDrafts, NEW h \in Seq(SoundRecords), NEW r \in Seq(SoundRecords),
           Len(h) + Len(r) <= MaxHistory \/ r = <<>>,
           Persist(d, h, r)
    PROVE  /\ draft' \in SoundDrafts
           /\ history' \in Seq(SoundRecords)
           /\ redo' \in Seq(SoundRecords)
           /\ Len(history') + Len(redo') <= MaxHistory
           /\ dirty' \in BOOLEAN /\ roundCommitted' \in BOOLEAN
           /\ CalendarInv'
<1>1. d \in SoundDrafts
  BY ValidIsSound DEF Persist
<1>2. /\ Trim(h) \in Seq(SoundRecords)
      /\ Len(Trim(h)) <= Len(h) /\ Len(Trim(h)) <= MaxHistory
  BY TrimBounds
<1>3. Len(Trim(h)) + Len(r) <= MaxHistory
  <2>1. Len(h) \in Nat /\ Len(r) \in Nat /\ Len(Trim(h)) \in Nat /\ MaxHistory \in Nat
    BY <1>2, LenProperties, BoundAssumption
  <2>2. r = <<>> => Len(r) = 0
    BY EmptySeq
  <2> QED
    BY <1>2, <2>1, <2>2
<1>4. CalendarInv'
  BY DEF Persist, IInv, CalendarInv, CommittedSound, RoomAllowed, SameTimeAndPlace
<1> QED
  BY <1>1, <1>2, <1>3, <1>4 DEF Persist, IInv, LedgerInv

\* A new edit unseals the draft and forgets what was undone.
LEMMA EditSteps ==
    ASSUME IInv, NEW d \in KeptDrafts, NEW record \in SoundRecords, Edit(d, record)
    PROVE  IInv'
<1>1. Append(history, record) \in Seq(SoundRecords)
  BY AppendProperties DEF IInv, LedgerInv
<1>2. <<>> \in Seq(SoundRecords)
  BY EmptySeq
<1>3. Persist(d, Append(history, record), <<>>)
  BY DEF Edit
<1>4. /\ draft' \in SoundDrafts
      /\ history' \in Seq(SoundRecords) /\ redo' \in Seq(SoundRecords)
      /\ Len(history') + Len(redo') <= MaxHistory
      /\ dirty' \in BOOLEAN /\ roundCommitted' \in BOOLEAN
      /\ CalendarInv'
  BY <1>1, <1>2, <1>3, PersistSteps
<1>5. unsealed' = TRUE /\ authority' = authority
  BY DEF Edit
<1> QED
  BY <1>4, <1>5 DEF IInv, LedgerInv, DivergenceIsUnsealed

-----------------------------------------------------------------------------
(* One lemma per command. *)

\* The first candidate is both layers of a sealed draft, and nothing is booked.
LEMMA InitHolds == Init => IInv
<1> SUFFICES ASSUME Init PROVE IInv
  OBVIOUS
<1>1. PICK room \in [Lessons -> Rooms \cup {NoRoom}] : draft = Candidate({}, room)
  BY DEF Init
<1>2. draft \in SoundDrafts
  <2>1. draft \in KeptDrafts
    BY <1>1, CandidateKeeps
  <2> QED
    BY <2>1, ValidIsSound DEF Init
<1>3. history \in Seq(SoundRecords) /\ redo \in Seq(SoundRecords)
      /\ Len(history) = 0 /\ Len(redo) = 0
  BY EmptySeq DEF Init
<1>4. LedgerInv
  <2>1. Len(history) + Len(redo) <= MaxHistory
    BY <1>3, BoundAssumption
  <2>2. ~Stale
    BY DEF Init, Stale
  <2>3. authority \in SoundDrafts
    BY <1>2 DEF Init
  <2>4. unsealed \in BOOLEAN /\ dirty \in BOOLEAN /\ roundCommitted \in BOOLEAN
    BY DEF Init
  <2> QED
    BY <1>2, <1>3, <2>1, <2>2, <2>3, <2>4 DEF LedgerInv, DivergenceIsUnsealed
<1>5. CalendarInv
  BY DEF Init, CalendarInv, CommittedSound
<1> QED
  BY <1>4, <1>5 DEF IInv

\* A rerun starts a sealed draft over whatever was committed.
LEMMA OptimizeHolds ==
    ASSUME IInv,
           NEW kept \in SUBSET draft.assigned,
           NEW room \in [Lessons -> Rooms \cup {NoRoom}],
           Optimize(kept, room)
    PROVE  IInv'
<1> DEFINE d == Candidate(kept, room)
<1>1. d \in KeptDrafts
  BY CandidateKeeps DEF IInv, LedgerInv, SoundDrafts, KeptDrafts
<1>2. d \in SoundDrafts
  <2>1. Valid(d, {b \in bookings : b.lesson \notin LessonsOf(d.assigned)})
    BY DEF Optimize, CandidateOK
  <2> HIDE DEF d
  <2> QED
    BY <1>1, <2>1, ValidIsSound
<1>3. /\ draft' = d /\ authority' = d
      /\ history' = <<>> /\ redo' = <<>>
      /\ unsealed' = FALSE /\ dirty' = FALSE
      /\ UNCHANGED <<roundCommitted, bookings, lectures>>
  BY DEF Optimize, Fresh
<1> HIDE DEF d
<1>4. history' \in Seq(SoundRecords) /\ redo' \in Seq(SoundRecords)
      /\ Len(history') = 0 /\ Len(redo') = 0
  BY <1>3, EmptySeq
<1>5. LedgerInv'
  <2>1. Len(history') + Len(redo') <= MaxHistory
    BY <1>4, BoundAssumption
  <2>2. ~Stale'
    BY <1>3 DEF Stale
  <2>3. unsealed' \in BOOLEAN /\ dirty' \in BOOLEAN /\ roundCommitted' \in BOOLEAN
    BY <1>3 DEF IInv, LedgerInv
  <2> QED
    BY <1>2, <1>3, <1>4, <2>1, <2>2, <2>3 DEF LedgerInv, DivergenceIsUnsealed
<1>6. CalendarInv'
  BY <1>3 DEF IInv, CalendarInv, CommittedSound, RoomAllowed, SameTimeAndPlace
<1> QED
  BY <1>5, <1>6 DEF IInv

\* A move keeps the lesson in the slot's id, and its time unless it may change.
LEMMA MoveHolds ==
    ASSUME IInv, NEW s \in draft.assigned, NEW room \in Rooms, NEW time \in Times,
           Move(s, room, time)
    PROVE  IInv'
<1> DEFINE new == [s EXCEPT !.room = room, !.time = time]
           d == [draft EXCEPT !.assigned = (@ \ {s}) \cup {new}]
           record == [action |-> "move", prev |-> s, new |-> new]
<1>1. draft \in KeptDrafts /\ s \in Kept
  BY DEF IInv, LedgerInv, SoundDrafts, KeptDrafts
<1>2. new \in Kept
  BY <1>1 DEF Move, Kept, Slots
<1>3. d \in KeptDrafts
  BY <1>1, <1>2 DEF KeptDrafts
<1>4. record \in SoundRecords
  <2>1. new.id = s.id
    BY <1>1 DEF Kept, Slots
  <2> QED
    BY <1>1, <1>2, <2>1 DEF SoundRecords, KeptMoves
<1>5. Edit(d, record)
  BY DEF Move
<1> QED
  BY <1>3, <1>4, <1>5, EditSteps

\* A manual assignment names its lesson in its id, as optimizer events do.
LEMMA AssignHolds ==
    ASSUME IInv, NEW u \in draft.unassigned, NEW room \in Rooms, NEW time \in Times,
           Assign(u, room, time)
    PROVE  IInv'
<1> DEFINE new == [id |-> <<"source", u.lesson>>, lesson |-> u.lesson,
                   room |-> room, time |-> time]
           d == [assigned |-> draft.assigned \cup {new},
                 unassigned |-> draft.unassigned \ {u}]
           record == [action |-> "assign", issue |-> u, new |-> new]
<1>1. draft \in KeptDrafts /\ u \in KeptIssues
  BY DEF IInv, LedgerInv, SoundDrafts, KeptDrafts
<1>2. new \in Kept
  <2>1. u.lesson \in Lessons
    BY <1>1 DEF Issues, KeptIssues
  <2>2. <<"source", u.lesson>> \in Ids /\ <<"source", u.lesson>>[2] = u.lesson
    BY <2>1 DEF Ids
  <2>3. u.lesson \notin Retimable => time = Requested[u.lesson]
    BY DEF Assign
  <2> QED
    BY <2>1, <2>2, <2>3 DEF Kept, Slots
<1>3. d \in KeptDrafts
  BY <1>1, <1>2 DEF KeptDrafts
<1>4. record \in SoundRecords
  BY <1>1, <1>2 DEF SoundRecords, KeptAssigns
<1>5. Edit(d, record)
  BY DEF Assign
<1> QED
  BY <1>3, <1>4, <1>5, EditSteps

\* What leaves the draft is kept, whole, in its record.
LEMMA UnassignHolds ==
    ASSUME IInv, NEW slots \in SUBSET draft.assigned, Unassign(slots)
    PROVE  IInv'
<1> DEFINE d == [assigned |-> draft.assigned \ slots,
                 unassigned |-> draft.unassigned \cup {IssueOf(s) : s \in slots}]
           record == [action |-> "unassign", slots |-> slots]
<1>1. draft \in KeptDrafts /\ slots \in SUBSET Kept
  BY DEF IInv, LedgerInv, SoundDrafts, KeptDrafts
<1>2. {IssueOf(s) : s \in slots} \in SUBSET KeptIssues
  BY <1>1 DEF IssueOf, Issues, Kept, Slots, KeptIssues
<1>3. d \in KeptDrafts
  BY <1>1, <1>2 DEF KeptDrafts
<1>4. record \in SoundRecords
  BY <1>1 DEF SoundRecords, KeptUnassigns
<1>5. Edit(d, record)
  BY DEF Unassign
<1> QED
  BY <1>3, <1>4, <1>5, EditSteps

\* Unlock unseals the draft and changes nothing that is proved about.
LEMMA UnlockHolds == ASSUME IInv, Unlock PROVE IInv'
<1>1. /\ draft \in KeptDrafts
      /\ history \in Seq(SoundRecords) /\ redo \in Seq(SoundRecords)
      /\ Len(history) + Len(redo) <= MaxHistory
      /\ Persist(draft, history, redo)
  BY DEF Unlock, IInv, LedgerInv, SoundDrafts
<1>2. /\ draft' \in SoundDrafts
      /\ history' \in Seq(SoundRecords) /\ redo' \in Seq(SoundRecords)
      /\ Len(history') + Len(redo') <= MaxHistory
      /\ dirty' \in BOOLEAN /\ roundCommitted' \in BOOLEAN
      /\ CalendarInv'
  BY <1>1, PersistSteps
<1>3. unsealed' = TRUE /\ authority' = authority
  BY DEF Unlock
<1> QED
  BY <1>2, <1>3 DEF IInv, LedgerInv, DivergenceIsUnsealed

\* Undo restores the snapshot that only a record of a stage carries.
LEMMA UndoHolds == ASSUME IInv, Undo PROVE IInv'
<1> DEFINE r == Last(history)
           d == Revert(draft, r)
<1>1. /\ draft \in KeptDrafts /\ authority \in SoundDrafts
      /\ history \in Seq(SoundRecords) /\ redo \in Seq(SoundRecords)
      /\ Len(history) + Len(redo) <= MaxHistory
  BY DEF IInv, LedgerInv, SoundDrafts
<1>2. /\ r \in SoundRecords
      /\ Front(history) \in Seq(SoundRecords)
      /\ Len(Front(history)) = Len(history) - 1
  BY <1>1, FrontLast DEF Undo
<1>3. d \in KeptDrafts
  BY <1>1, <1>2, RevertKeeps
<1>4. Append(redo, r) \in Seq(SoundRecords) /\ Len(Append(redo, r)) = Len(redo) + 1
  <2> HIDE DEF r
  <2> QED
    BY <1>1, <1>2, AppendProperties
<1>5. Len(Front(history)) + Len(Append(redo, r)) <= MaxHistory
  <2>1. Len(history) \in Nat /\ Len(redo) \in Nat /\ MaxHistory \in Nat
    BY <1>1, LenProperties, BoundAssumption
  <2> QED
    BY <1>1, <1>2, <1>4, <2>1
<1>6. /\ Persist(d, Front(history), Append(redo, r))
      /\ authority' = IF r.action = "stage" THEN r.preL1 ELSE authority
      /\ unsealed' = TRUE
  BY DEF Undo
<1>7. authority' \in SoundDrafts
  <2>1. r.action = "stage" => r.preL1 \in SoundDrafts
    <3> HIDE DEF r
    <3> QED
      BY <1>2 DEF SoundRecords, KeptMoves, KeptUnassigns, KeptAssigns, KeptStages
  <2> QED
    BY <1>1, <1>6, <2>1
<1>8. /\ draft' \in SoundDrafts
      /\ history' \in Seq(SoundRecords) /\ redo' \in Seq(SoundRecords)
      /\ Len(history') + Len(redo') <= MaxHistory
      /\ dirty' \in BOOLEAN /\ roundCommitted' \in BOOLEAN
      /\ CalendarInv'
  <2> HIDE DEF d, r
  <2> QED
    BY <1>2, <1>3, <1>4, <1>5, <1>6, PersistSteps
<1> QED
  BY <1>6, <1>7, <1>8 DEF IInv, LedgerInv, DivergenceIsUnsealed

\* Redo of a stage stages what the gate has just found valid.
LEMMA RedoHolds == ASSUME IInv, Redo PROVE IInv'
<1> DEFINE r == Last(redo)
           d == Replay(draft, r)
<1>1. /\ draft \in KeptDrafts /\ authority \in SoundDrafts
      /\ history \in Seq(SoundRecords) /\ redo \in Seq(SoundRecords)
      /\ Len(history) + Len(redo) <= MaxHistory
  BY DEF IInv, LedgerInv, SoundDrafts
<1>2. /\ r \in SoundRecords
      /\ Front(redo) \in Seq(SoundRecords)
      /\ Len(Front(redo)) = Len(redo) - 1
  BY <1>1, FrontLast DEF Redo
<1>3. d \in KeptDrafts
  BY <1>1, <1>2, ReplayKeeps
<1>4. Append(history, r) \in Seq(SoundRecords)
      /\ Len(Append(history, r)) = Len(history) + 1
  <2> HIDE DEF r
  <2> QED
    BY <1>1, <1>2, AppendProperties
<1>5. Len(Append(history, r)) + Len(Front(redo)) <= MaxHistory
  <2>1. Len(history) \in Nat /\ Len(redo) \in Nat /\ MaxHistory \in Nat
    BY <1>1, LenProperties, BoundAssumption
  <2> QED
    BY <1>1, <1>2, <1>4, <2>1
<1>6. /\ Persist(d, Append(history, r), Front(redo))
      /\ authority' = IF r.action = "stage" THEN d ELSE authority
      /\ unsealed' = (r.action # "stage")
  BY DEF Redo
<1>7. /\ draft' \in SoundDrafts
      /\ history' \in Seq(SoundRecords) /\ redo' \in Seq(SoundRecords)
      /\ Len(history') + Len(redo') <= MaxHistory
      /\ dirty' \in BOOLEAN /\ roundCommitted' \in BOOLEAN
      /\ CalendarInv'
  <2> HIDE DEF d, r
  <2> QED
    BY <1>2, <1>3, <1>4, <1>5, <1>6, PersistSteps
<1>8. draft' = d
  BY <1>6 DEF Persist
<1>9. authority' \in SoundDrafts /\ unsealed' \in BOOLEAN
  BY <1>1, <1>6, <1>7, <1>8
<1>10. Stale' => unsealed'
  <2> HIDE DEF d, r
  <2> QED
    BY <1>6, <1>8 DEF Stale
<1> QED
  BY <1>7, <1>9, <1>10 DEF IInv, LedgerInv, DivergenceIsUnsealed

\* Stage copies one sound draft and records both layers.
LEMMA StageHolds == ASSUME IInv, Stage PROVE IInv'
<1> DEFINE record == [action |-> "stage", preL0 |-> draft, preL1 |-> authority]
<1>1. draft \in SoundDrafts /\ authority \in SoundDrafts
      /\ history \in Seq(SoundRecords)
  BY DEF IInv, LedgerInv
<1>2. record \in SoundRecords
  BY <1>1 DEF SoundRecords, KeptStages
<1>3. Append(history, record) \in Seq(SoundRecords)
  <2> HIDE DEF record
  <2> QED
    BY <1>1, <1>2, AppendProperties
<1>4. history' \in Seq(SoundRecords) /\ Len(history') <= MaxHistory
  BY <1>3, TrimBounds DEF Stage
<1>5. redo' \in Seq(SoundRecords) /\ Len(redo') = 0
  BY EmptySeq DEF Stage
<1>6. Len(history') + Len(redo') <= MaxHistory
  <2>1. Len(history') \in Nat
    BY <1>4, LenProperties
  <2> QED
    BY <1>4, <1>5, <2>1
<1>7. /\ draft' \in SoundDrafts /\ authority' \in SoundDrafts /\ ~Stale'
      /\ unsealed' \in BOOLEAN /\ dirty' \in BOOLEAN /\ roundCommitted' \in BOOLEAN
  BY <1>1 DEF Stage, Stale, IInv, LedgerInv
<1>8. CalendarInv'
  BY DEF Stage, IInv, CalendarInv, CommittedSound, RoomAllowed, SameTimeAndPlace
<1> QED
  BY <1>4, <1>5, <1>6, <1>7, <1>8 DEF IInv, LedgerInv, DivergenceIsUnsealed

\* The commit finds no bookings of its own round and leaves the sealed draft.
LEMMA FinalizeHolds == ASSUME IInv, Finalize PROVE IInv' /\ bookings' = draft.assigned
<1>1. bookings = {}
  BY DEF Finalize, FinalizeReady, IInv, CalendarInv
<1>2. bookings' = draft.assigned
  BY <1>1 DEF Finalize, WithoutIds
<1>3. draft \in KeptDrafts
  BY DEF IInv, LedgerInv, SoundDrafts
<1>4. /\ \A b, c \in draft.assigned :
            b # c => ~SameTimeAndPlace(b, c) /\ b.lesson # c.lesson
      /\ \A b \in draft.assigned : RoomAllowed(b)
  BY <1>3, ValidIsSound DEF Finalize
<1>5. CalendarInv'
  <2>1. draft.assigned \subseteq Kept
    BY <1>3 DEF KeptDrafts
  <2>2. lectures' = lectures /\ roundCommitted' = TRUE
    BY DEF Finalize
  <2>3. CommittedSound'
    BY <1>2, <1>4, <2>2 DEF CommittedSound, RoomAllowed, SameTimeAndPlace
  <2> QED
    BY <1>2, <2>1, <2>2, <2>3 DEF CalendarInv, IInv
<1>6. LedgerInv'
  BY DEF Finalize, IInv, LedgerInv, DivergenceIsUnsealed, Stale
<1> QED
  BY <1>2, <1>5, <1>6 DEF IInv

\* New lectures avoid the committed lessons and touch nothing else.
LEMMA PutLecturesHolds ==
    ASSUME IInv, NEW spots \in SUBSET LectureSpots, PutLectures(spots)
    PROVE  IInv'
<1>1. LedgerInv'
  BY DEF PutLectures, ledger, IInv, LedgerInv, DivergenceIsUnsealed, Stale
<1>2. CalendarInv'
  BY SourceAssumption
     DEF PutLectures, IInv, CalendarInv, CommittedSound, RoomAllowed, SameTimeAndPlace
<1> QED
  BY <1>1, <1>2 DEF IInv

-----------------------------------------------------------------------------
(* Every record finds what it names.                                             *)

\* A new edit is what the redo of its record would do.
LEMMA EditReplays ==
    ASSUME IInv, IInv', ReplayInv, NEW record \in SoundRecords,
           JustBefore(draft, record), Edit(Replay(draft, record), record)
    PROVE  ReplayInv'
<1> DEFINE d == Replay(draft, record)
<1>1. /\ draft' = d /\ history' = Trim(Append(history, record)) /\ redo' = <<>>
      /\ draft \in SoundDrafts /\ history \in Seq(SoundRecords) /\ Past(history, draft)
  BY DEF Edit, Persist, IInv, LedgerInv, ReplayInv
<1>2. d \in SoundDrafts
  BY <1>1 DEF IInv, LedgerInv
<1>3. JustAfter(d, record) /\ Revert(d, record) = draft
  BY <1>1, <1>2, RedoRestores
<1> HIDE DEF d
<1>4. Past(Append(history, record), d) /\ Append(history, record) \in Seq(SoundRecords)
  BY <1>1, <1>2, <1>3, PastGrows, AppendProperties
<1>5. Past(Trim(Append(history, record)), d) /\ Future(<<>>, d)
  BY <1>2, <1>4, PastTrims, NoRecords
<1> QED
  BY <1>1, <1>5 DEF ReplayInv

LEMMA MoveReplays ==
    ASSUME IInv, IInv', ReplayInv, NEW s \in draft.assigned,
           NEW room \in Rooms, NEW time \in Times, Move(s, room, time)
    PROVE  ReplayInv'
<1> DEFINE new == [s EXCEPT !.room = room, !.time = time]
           record == [action |-> "move", prev |-> s, new |-> new]
<1>1. draft \in SoundDrafts /\ s \in Kept
  BY DEF IInv, LedgerInv, SoundDrafts, KeptDrafts
<1>2. new \in Kept /\ new.id = s.id
  BY <1>1 DEF Move, Kept, Slots
<1>3. Edit([draft EXCEPT !.assigned = (@ \ {s}) \cup {new}], record)
  BY DEF Move
<1>4. record \in KeptMoves /\ record.prev = s /\ record.new = new /\ record.action = "move"
  BY <1>1, <1>2 DEF KeptMoves
<1> HIDE DEF record, new
<1>5. record \in SoundRecords
  BY <1>4 DEF SoundRecords
<1>6. JustBefore(draft, record)
  BY <1>4 DEF JustBefore
<1>7. Replay(draft, record) =
         [assigned |-> (draft.assigned \ {s}) \cup {new}, unassigned |-> draft.unassigned]
  BY <1>1, <1>4, <1>5, <1>6, ReplayIs
<1>8. Replay(draft, record) = [draft EXCEPT !.assigned = (@ \ {s}) \cup {new}]
  BY <1>1, <1>7 DEF SoundDrafts, KeptDrafts
<1> QED
  BY <1>3, <1>5, <1>6, <1>8, EditReplays

LEMMA AssignReplays ==
    ASSUME IInv, IInv', ReplayInv, NEW u \in draft.unassigned,
           NEW room \in Rooms, NEW time \in Times, Assign(u, room, time)
    PROVE  ReplayInv'
<1> DEFINE new == [id |-> <<"source", u.lesson>>, lesson |-> u.lesson,
                   room |-> room, time |-> time]
           record == [action |-> "assign", issue |-> u, new |-> new]
<1>1. draft \in SoundDrafts /\ u \in KeptIssues
  BY DEF IInv, LedgerInv, SoundDrafts, KeptDrafts
<1>2. new \in Kept /\ new.lesson = u.lesson
  <2>1. u.lesson \in Lessons
    BY <1>1 DEF Issues, KeptIssues
  <2>2. <<"source", u.lesson>> \in Ids /\ <<"source", u.lesson>>[2] = u.lesson
    BY <2>1 DEF Ids
  <2>3. u.lesson \notin Retimable => time = Requested[u.lesson]
    BY DEF Assign
  <2> QED
    BY <2>1, <2>2, <2>3 DEF Kept, Slots
<1>3. Edit([assigned |-> draft.assigned \cup {new},
            unassigned |-> draft.unassigned \ {u}], record)
  BY DEF Assign
<1>4. record \in KeptAssigns /\ record.issue = u /\ record.new = new /\ record.action = "assign"
  BY <1>1, <1>2 DEF KeptAssigns
<1> HIDE DEF record, new
<1>5. record \in SoundRecords
  BY <1>4 DEF SoundRecords
<1>6. JustBefore(draft, record)
  BY <1>4 DEF JustBefore
<1>7. Replay(draft, record) =
         [assigned |-> draft.assigned \cup {new}, unassigned |-> draft.unassigned \ {u}]
  BY <1>1, <1>4, <1>5, <1>6, ReplayIs
<1> QED
  BY <1>3, <1>5, <1>6, <1>7, EditReplays

LEMMA UnassignReplays ==
    ASSUME IInv, IInv', ReplayInv, NEW slots \in SUBSET draft.assigned, Unassign(slots)
    PROVE  ReplayInv'
<1> DEFINE record == [action |-> "unassign", slots |-> slots]
<1>1. draft \in SoundDrafts /\ slots \in SUBSET Kept
  BY DEF IInv, LedgerInv, SoundDrafts, KeptDrafts
<1>2. Edit([assigned |-> draft.assigned \ slots,
            unassigned |-> draft.unassigned \cup {IssueOf(s) : s \in slots}], record)
  BY DEF Unassign
<1>3. record \in KeptUnassigns /\ record.slots = slots /\ record.action = "unassign"
  BY <1>1 DEF KeptUnassigns
<1> HIDE DEF record
<1>4. record \in SoundRecords
  BY <1>3 DEF SoundRecords
<1>5. JustBefore(draft, record)
  BY <1>3 DEF JustBefore
<1>6. Replay(draft, record) =
         [assigned |-> draft.assigned \ slots,
          unassigned |-> draft.unassigned \cup {IssueOf(s) : s \in slots}]
  BY <1>1, <1>3, <1>4, <1>5, ReplayIs
<1> QED
  BY <1>2, <1>4, <1>5, <1>6, EditReplays

\* Unlock trims a history that is trimmed already.
LEMMA UnlockReplays == ASSUME IInv, ReplayInv, Unlock PROVE ReplayInv'
<1>1. /\ draft' = draft /\ history' = Trim(history) /\ redo' = redo
      /\ history \in Seq(SoundRecords) /\ Past(history, draft) /\ Future(redo, draft)
  BY DEF Unlock, Persist, IInv, LedgerInv, ReplayInv
<1>2. Past(Trim(history), draft)
  BY <1>1, PastTrims
<1> QED
  BY <1>1, <1>2 DEF ReplayInv

\* What is undone can be redone, and what is below it undone.
LEMMA UndoReplays == ASSUME IInv, IInv', ReplayInv, Undo PROVE ReplayInv'
<1> DEFINE r == Last(history)
           d == Revert(draft, r)
<1>1. /\ draft' = d /\ history' = Trim(Front(history)) /\ redo' = Append(redo, r)
      /\ history # <<>>
      /\ draft \in SoundDrafts /\ history \in Seq(SoundRecords) /\ redo \in Seq(SoundRecords)
      /\ Past(history, draft) /\ Future(redo, draft)
  BY DEF Undo, Persist, IInv, LedgerInv, ReplayInv
<1>2. r \in SoundRecords /\ Front(history) \in Seq(SoundRecords)
  BY <1>1, FrontLast
<1>3. JustAfter(draft, r) /\ d \in SoundDrafts /\ Past(Front(history), d)
  BY <1>1, PastShrinks
<1>4. JustBefore(d, r) /\ Replay(d, r) = draft
  BY <1>1, <1>2, <1>3, UndoRestores
<1> HIDE DEF d, r
<1>5. Past(Trim(Front(history)), d)
  BY <1>2, <1>3, PastTrims
<1>6. Future(Append(redo, r), d)
  BY <1>1, <1>2, <1>3, <1>4, FutureGrows
<1> QED
  BY <1>1, <1>5, <1>6 DEF ReplayInv

LEMMA RedoReplays == ASSUME IInv, IInv', ReplayInv, Redo PROVE ReplayInv'
<1> DEFINE r == Last(redo)
           d == Replay(draft, r)
<1>1. /\ draft' = d /\ history' = Trim(Append(history, r)) /\ redo' = Front(redo)
      /\ redo # <<>>
      /\ draft \in SoundDrafts /\ history \in Seq(SoundRecords) /\ redo \in Seq(SoundRecords)
      /\ Past(history, draft) /\ Future(redo, draft)
  BY DEF Redo, Persist, IInv, LedgerInv, ReplayInv
<1>2. r \in SoundRecords
  BY <1>1, FrontLast
<1>3. JustBefore(draft, r) /\ d \in SoundDrafts /\ Future(Front(redo), d)
  BY <1>1, FutureShrinks
<1>4. JustAfter(d, r) /\ Revert(d, r) = draft
  BY <1>1, <1>2, <1>3, RedoRestores
<1> HIDE DEF d, r
<1>5. Past(Append(history, r), d) /\ Append(history, r) \in Seq(SoundRecords)
  BY <1>1, <1>2, <1>3, <1>4, PastGrows, AppendProperties
<1>6. Past(Trim(Append(history, r)), d)
  BY <1>5, PastTrims
<1> QED
  BY <1>1, <1>3, <1>6 DEF ReplayInv

\* The record of a stage is written in the draft it restores.
LEMMA StageReplays == ASSUME IInv, ReplayInv, Stage PROVE ReplayInv'
<1> DEFINE record == [action |-> "stage", preL0 |-> draft, preL1 |-> authority]
<1>1. /\ draft' = draft /\ history' = Trim(Append(history, record)) /\ redo' = <<>>
      /\ draft \in SoundDrafts /\ authority \in SoundDrafts
      /\ history \in Seq(SoundRecords) /\ Past(history, draft)
  BY DEF Stage, IInv, LedgerInv, ReplayInv
<1>2. record \in KeptStages /\ record.action = "stage" /\ record.preL0 = draft
  BY <1>1 DEF KeptStages
<1> HIDE DEF record
<1>3. record \in SoundRecords /\ JustAfter(draft, record) /\ Revert(draft, record) = draft
  BY <1>2 DEF SoundRecords, JustAfter, Revert
<1>4. Past(Append(history, record), draft) /\ Append(history, record) \in Seq(SoundRecords)
  BY <1>1, <1>3, PastGrows, AppendProperties
<1>5. Past(Trim(Append(history, record)), draft) /\ Future(<<>>, draft)
  BY <1>1, <1>4, PastTrims, NoRecords
<1> QED
  BY <1>1, <1>5 DEF ReplayInv

\* Every command keeps the records replayable, in both directions.
LEMMA NextReplays == IInv /\ IInv' /\ ReplayInv /\ [Next]_vars => ReplayInv'
<1> SUFFICES ASSUME IInv, IInv', ReplayInv, [Next]_vars PROVE ReplayInv'
  OBVIOUS
<1>1. ASSUME NEW kept, NEW room, Optimize(kept, room)
      PROVE  ReplayInv'
  <2>1. draft' \in SoundDrafts /\ history' = <<>> /\ redo' = <<>>
    BY <1>1 DEF Optimize, Fresh, IInv, LedgerInv
  <2> QED
    BY <2>1, NoRecords DEF ReplayInv
<1>2. ASSUME NEW s \in draft.assigned, NEW room \in Rooms, NEW time \in Times,
             Move(s, room, time)
      PROVE  ReplayInv'
  BY <1>2, MoveReplays
<1>3. ASSUME NEW u \in draft.unassigned, NEW room \in Rooms, NEW time \in Times,
             Assign(u, room, time)
      PROVE  ReplayInv'
  BY <1>3, AssignReplays
<1>4. ASSUME NEW slots \in SUBSET draft.assigned, Unassign(slots)
      PROVE  ReplayInv'
  BY <1>4, UnassignReplays
<1>5. CASE Unlock
  BY <1>5, UnlockReplays
<1>6. CASE Undo
  BY <1>6, UndoReplays
<1>7. CASE Redo
  BY <1>7, RedoReplays
<1>8. CASE Stage
  BY <1>8, StageReplays
<1>9. CASE Finalize \/ (\E spots \in SUBSET LectureSpots : PutLectures(spots)) \/ UNCHANGED vars
  <2>1. UNCHANGED <<draft, history, redo>>
    BY <1>9 DEF Finalize, PutLectures, vars, ledger
  <2> QED
    BY <2>1 DEF ReplayInv
<1> QED
  BY <1>1, <1>2, <1>3, <1>4, <1>5, <1>6, <1>7, <1>8, <1>9 DEF Next

-----------------------------------------------------------------------------
(* The invariant and what follows from it. *)

\* Every command, and every stutter, preserves the inductive invariant.
LEMMA NextHolds == IInv /\ [Next]_vars => IInv'
<1> SUFFICES ASSUME IInv, [Next]_vars PROVE IInv'
  OBVIOUS
<1>1. ASSUME NEW kept \in SUBSET draft.assigned,
             NEW room \in [Lessons -> Rooms \cup {NoRoom}],
             Optimize(kept, room)
      PROVE  IInv'
  BY <1>1, OptimizeHolds
<1>2. ASSUME NEW s \in draft.assigned, NEW room \in Rooms, NEW time \in Times,
             Move(s, room, time)
      PROVE  IInv'
  BY <1>2, MoveHolds
<1>3. ASSUME NEW u \in draft.unassigned, NEW room \in Rooms, NEW time \in Times,
             Assign(u, room, time)
      PROVE  IInv'
  BY <1>3, AssignHolds
<1>4. ASSUME NEW slots \in SUBSET draft.assigned, Unassign(slots)
      PROVE  IInv'
  BY <1>4, UnassignHolds
<1>5. CASE Unlock
  BY <1>5, UnlockHolds
<1>6. CASE Undo
  BY <1>6, UndoHolds
<1>7. CASE Redo
  BY <1>7, RedoHolds
<1>8. CASE Stage
  BY <1>8, StageHolds
<1>9. CASE Finalize
  BY <1>9, FinalizeHolds
<1>10. ASSUME NEW spots \in SUBSET LectureSpots, PutLectures(spots)
       PROVE  IInv'
  BY <1>10, PutLecturesHolds
<1>11. CASE UNCHANGED vars
  BY <1>11 DEF vars, ledger, IInv, LedgerInv, CalendarInv, DivergenceIsUnsealed,
               Stale, CommittedSound, RoomAllowed, SameTimeAndPlace
<1> QED
  BY <1>1, <1>2, <1>3, <1>4, <1>5, <1>6, <1>7, <1>8, <1>9, <1>10, <1>11 DEF Next

\* The inductive invariant holds in every reachable state of the draft.
THEOREM InvariantHolds == Spec => []IInv
BY InitHolds, NextHolds, PTL DEF Spec

\* Every stored value has its type, and history and redo stack together never
\* outgrow MAX_UNDO_HISTORY, for any bound and any workbook.
THEOREM TypeCorrect == Spec => []TypeOK
<1>1. IInv => TypeOK
  <2> SUFFICES ASSUME IInv PROVE TypeOK
    OBVIOUS
  <2>1. Kept \subseteq Slots
    BY DEF Kept
  <2>2. SoundDrafts \subseteq Drafts
    BY <2>1 DEF SoundDrafts, KeptDrafts, KeptIssues, Drafts
  <2>3. SoundRecords \subseteq Records
    <3>1. KeptMoves \subseteq MoveRecords
      BY <2>1 DEF KeptMoves, MoveRecords
    <3>2. KeptUnassigns \subseteq UnassignRecords
      BY <2>1 DEF KeptUnassigns, UnassignRecords
    <3>3. KeptAssigns \subseteq AssignRecords
      BY <2>1 DEF KeptAssigns, KeptIssues, AssignRecords
    <3>4. KeptStages \subseteq StageRecords
      BY <2>2 DEF KeptStages, StageRecords
    <3> QED
      BY <3>1, <3>2, <3>3, <3>4 DEF SoundRecords, Records
  <2>4. Seq(SoundRecords) \subseteq Seq(Records)
    BY <2>3
  <2> QED
    BY <2>1, <2>2, <2>4 DEF IInv, LedgerInv, CalendarInv, TypeOK
<1> QED
  BY <1>1, InvariantHolds, PTL

\* However undo, redo and the gate interleave, every occurrence of the workbook
\* is in the draft, and in the staged snapshot, exactly once.
THEOREM LedgerIsExact == Spec => []LedgerIntact
<1>1. IInv => LedgerIntact
  BY DEF IInv, LedgerInv, SoundDrafts, LedgerIntact
<1> QED
  BY <1>1, InvariantHolds, PTL

\* A draft that differs from its staged snapshot is never sealed.
THEOREM SealIsHonest == Spec => []DivergenceIsUnsealed
<1>1. IInv => DivergenceIsUnsealed
  BY DEF IInv, LedgerInv
<1> QED
  BY <1>1, InvariantHolds, PTL

\* A lesson of an original_time_only instructor is never anywhere but at the time
\* its row asks for.
THEOREM TimesAreKept == Spec => []TimesKept
<1>1. IInv => TimesKept
  BY DEF IInv, LedgerInv, CalendarInv, SoundDrafts, KeptDrafts, Kept, TimesKept
<1> QED
  BY <1>1, InvariantHolds, PTL

\* Whatever was committed stays free of room, instructor and lecture clashes.
THEOREM CommitIsSound == Spec => []CommittedSound
<1>1. IInv => CommittedSound
  BY DEF IInv, CalendarInv
<1> QED
  BY <1>1, InvariantHolds, PTL

\* Only Finalize writes bookings, once, and it writes the staged placements.
THEOREM CommitIsStaged == Spec => CommitsWhatWasStaged
<1> DEFINE Staged == bookings' # bookings \/ roundCommitted' # roundCommitted =>
              /\ ~roundCommitted /\ roundCommitted'
              /\ Placements(bookings') = Placements(authority.assigned)
<1>1. IInv /\ [Next]_vars => Staged
  <2> SUFFICES ASSUME IInv, [Next]_vars PROVE Staged
    OBVIOUS
  <2>1. CASE Finalize
    <3>1. Placements(bookings') = Placements(draft.assigned)
      BY <2>1, FinalizeHolds
    <3> QED
      BY <2>1, <3>1 DEF Finalize, FinalizeReady, Stale
  <2>2. CASE ~Finalize
    <3>1. UNCHANGED <<roundCommitted, bookings>>
      BY <2>2 DEF Next, vars, Optimize, Move, Assign, Unassign, Unlock, Undo, Redo,
                  Stage, PutLectures, Edit, Persist
    <3> QED
      BY <3>1
  <2> QED
    BY <2>1, <2>2
<1>2. IInv /\ [Next]_vars => [Staged]_vars
  BY <1>1
<1> QED
  BY <1>2, InvariantHolds, PTL DEF Spec, CommitsWhatWasStaged

-----------------------------------------------------------------------------
(* The walk through the records that RecordsFindTheirTargets takes is a function *)
(* defined by recursion; that there is one is shown by induction on its length.  *)

\* Induction, in first order: a nonempty set of naturals has a least element.
LEMMA LeastNatural ==
    ASSUME NEW T \in SUBSET Nat, T # {}
    PROVE  \E x \in T : \A y \in T : x <= y
<1> DEFINE R == OpToRel(<, Nat)
<1>1. IsWellFoundedOn(R, Nat)
  BY NatLessThanWellFounded
<1>2. R = {ss \in Nat \X Nat : ss[1] < ss[2]}
  BY DEF OpToRel
<1> HIDE DEF R
<1>3. PICK x \in T : \A y \in T : ~(<<y, x>> \in R)
  BY <1>1, WFMin
<1>4. ASSUME NEW y \in T
      PROVE  x <= y
  <2>1. x \in Nat /\ y \in Nat /\ <<y, x>> \notin R
    BY <1>3
  <2>2. ~(y < x)
    BY <1>2, <2>1
  <2> QED
    BY <2>1, <2>2
<1> QED
  BY <1>4

Apply(way, d, r) == IF way = "undo" THEN Revert(d, r) ELSE Replay(d, r)

\* f walks n records of h back from d.
Walks(way, f, n, d, h) ==
    /\ f = [k \in 0 .. n |-> f[k]]
    /\ f[0] = d
    /\ \A k \in 1 .. n : f[k] = Apply(way, f[k - 1], h[Len(h) - k + 1])

LEMMA WalkExists ==
    ASSUME NEW way, NEW d, NEW h, NEW n \in Nat
    PROVE  \E f : Walks(way, f, n, d, h)
<1> DEFINE T == {k \in Nat : ~\E f : Walks(way, f, k, d, h)}
<1> SUFFICES ASSUME T # {} PROVE FALSE
  OBVIOUS
<1>1. PICK x \in T : \A y \in T : x <= y
  BY LeastNatural
<1>2. x \in Nat /\ ~\E f : Walks(way, f, x, d, h)
  OBVIOUS
<1>3. CASE x = 0
  <2> DEFINE f == [k \in 0 .. 0 |-> d]
  <2>1. f = [k \in 0 .. 0 |-> f[k]] /\ f[0] = d
    OBVIOUS
  <2> HIDE DEF f
  <2>2. Walks(way, f, 0, d, h)
    BY <2>1 DEF Walks
  <2> QED
    BY <1>2, <1>3, <2>2
<1>4. CASE x # 0
  <2>1. x - 1 \in Nat /\ x - 1 \notin T
    <3>1. x - 1 \in Nat /\ ~(x <= x - 1)
      BY <1>2, <1>4
    <3> QED
      BY <1>1, <3>1
  <2>2. PICK g : Walks(way, g, x - 1, d, h)
    BY <2>1
  <2> DEFINE f == [k \in 0 .. x |-> IF k = x THEN Apply(way, g[x - 1], h[Len(h) - x + 1]) ELSE g[k]]
  <2>3. f = [k \in 0 .. x |-> f[k]]
    OBVIOUS
  <2>4. f[x] = Apply(way, g[x - 1], h[Len(h) - x + 1]) /\ \A k \in 0 .. x - 1 : f[k] = g[k]
    BY <1>2
  <2> HIDE DEF f
  <2>5. f[0] = d
    BY <1>2, <1>4, <2>2, <2>4 DEF Walks
  <2>6. ASSUME NEW k \in 1 .. x
        PROVE  f[k] = Apply(way, f[k - 1], h[Len(h) - k + 1])
    <3>1. k - 1 \in 0 .. x - 1
      BY <1>2
    <3>2. CASE k = x
      BY <2>4, <3>1, <3>2
    <3>3. CASE k # x
      <4>1. k \in 1 .. x - 1 /\ k \in 0 .. x - 1
        BY <1>2, <3>3
      <4> QED
        BY <2>2, <2>4, <3>1, <4>1 DEF Walks
    <3> QED
      BY <3>2, <3>3
  <2>7. Walks(way, f, x, d, h)
    BY <2>3, <2>5, <2>6 DEF Walks
  <2> QED
    BY <1>2, <2>7
<1> QED
  BY <1>3, <1>4

\* Two walks agree as far as both go.
LEMMA WalksAgree ==
    ASSUME NEW way, NEW d, NEW h, NEW n \in Nat, NEW m \in Nat, n <= m,
           NEW f, Walks(way, f, n, d, h), NEW g, Walks(way, g, m, d, h)
    PROVE  \A k \in 0 .. n : f[k] = g[k]
<1> DEFINE T == {k \in 0 .. n : f[k] # g[k]}
<1> SUFFICES ASSUME T # {} PROVE FALSE
  OBVIOUS
<1>0. T \in SUBSET Nat
  OBVIOUS
<1>1. PICK x \in T : \A y \in T : x <= y
  BY <1>0, LeastNatural
<1>2. x \in 0 .. n /\ f[x] # g[x]
  OBVIOUS
<1>3. x # 0
  BY <1>2 DEF Walks
<1>4. x \in 1 .. n /\ x \in 1 .. m /\ x - 1 \in 0 .. n /\ ~(x <= x - 1)
  BY <1>2, <1>3
<1>5. f[x - 1] = g[x - 1]
  BY <1>1, <1>4
<1>6. /\ f[x] = Apply(way, f[x - 1], h[Len(h) - x + 1])
      /\ g[x] = Apply(way, g[x - 1], h[Len(h) - x + 1])
  BY <1>4 DEF Walks
<1> QED
  BY <1>2, <1>5, <1>6

\* So there is one that never ends.
Endless(way, F, d, h) ==
    F = [k \in Nat |-> IF k = 0 THEN d ELSE Apply(way, F[k - 1], h[Len(h) - k + 1])]

LEMMA EndlessWalk ==
    ASSUME NEW way, NEW d, NEW h
    PROVE  \E F : Endless(way, F, d, h)
<1> DEFINE W(k) == CHOOSE f : Walks(way, f, k, d, h)
           F == [k \in Nat |-> W(k)[k]]
<1>1. ASSUME NEW k \in Nat
      PROVE  Walks(way, W(k), k, d, h)
  BY WalkExists
<1>2. ASSUME NEW k \in Nat
      PROVE  F[k] = IF k = 0 THEN d ELSE Apply(way, F[k - 1], h[Len(h) - k + 1])
  <2>1. F[k] = W(k)[k]
    OBVIOUS
  <2>2. CASE k = 0
    <3>1. W(k)[0] = d
      BY <1>1 DEF Walks
    <3> QED
      BY <2>1, <2>2, <3>1
  <2>3. CASE k # 0
    <3>1. k - 1 \in Nat /\ k - 1 <= k /\ k - 1 \in 0 .. k - 1 /\ k \in 1 .. k
      BY <2>3
    <3>2. F[k - 1] = W(k - 1)[k - 1]
      BY <3>1
    <3>3. Walks(way, W(k - 1), k - 1, d, h) /\ Walks(way, W(k), k, d, h)
      BY <1>1, <3>1
    <3> HIDE DEF W, F
    <3>4. W(k - 1)[k - 1] = W(k)[k - 1]
      BY <3>1, <3>3, WalksAgree
    <3>5. W(k)[k] = Apply(way, W(k)[k - 1], h[Len(h) - k + 1])
      BY <3>1, <3>3 DEF Walks
    <3> QED
      BY <2>1, <2>3, <3>2, <3>4, <3>5
  <2> QED
    BY <2>2, <2>3
<1>3. F = [k \in Nat |-> F[k]]
  OBVIOUS
<1> HIDE DEF F
<1>4. Endless(way, F, d, h)
  BY <1>2, <1>3 DEF Endless
<1> QED
  BY <1>4

\* The recursive functions are such walks.
LEMMA UndoneIs ==
    /\ UndoneDraft[0] = draft
    /\ \A k \in Nat \ {0} :
          UndoneDraft[k] = Revert(UndoneDraft[k - 1], history[Len(history) - k + 1])
<1>1. PICK F : Endless("undo", F, draft, history)
  BY EndlessWalk
<1>2. F = [k \in Nat |-> IF k = 0 THEN draft
                         ELSE Revert(F[k - 1], history[Len(history) - k + 1])]
  BY <1>1 DEF Endless, Apply
<1>3. UndoneDraft = [k \in Nat |-> IF k = 0 THEN draft
                        ELSE Revert(UndoneDraft[k - 1], history[Len(history) - k + 1])]
  BY <1>2 DEF UndoneDraft
<1> QED
  BY <1>3

LEMMA RedoneIs ==
    /\ RedoneDraft[0] = draft
    /\ \A k \in Nat \ {0} :
          RedoneDraft[k] = Replay(RedoneDraft[k - 1], redo[Len(redo) - k + 1])
<1>1. PICK F : Endless("redo", F, draft, redo)
  BY EndlessWalk
<1>2. F = [k \in Nat |-> IF k = 0 THEN draft
                         ELSE Replay(F[k - 1], redo[Len(redo) - k + 1])]
  BY <1>1 DEF Endless, Apply
<1>3. RedoneDraft = [k \in Nat |-> IF k = 0 THEN draft
                        ELSE Replay(RedoneDraft[k - 1], redo[Len(redo) - k + 1])]
  BY <1>2 DEF RedoneDraft
<1> QED
  BY <1>3

\* Undoing follows the drafts that the records lead through.
LEMMA UndoneFollows ==
    ASSUME history \in Seq(SoundRecords), NEW D, Leads(D, history, draft)
    PROVE  \A k \in 0 .. Len(history) : UndoneDraft[k] = D[Len(history) - k]
<1> DEFINE n == Len(history)
           T == {k \in 0 .. n : UndoneDraft[k] # D[n - k]}
<1> SUFFICES ASSUME T # {} PROVE FALSE
  OBVIOUS
<1>1. T \in SUBSET Nat /\ n \in Nat
  BY LenProperties
<1>2. PICK x \in T : \A y \in T : x <= y
  BY <1>1, LeastNatural
<1>3. x \in 0 .. n /\ UndoneDraft[x] # D[n - x]
  OBVIOUS
<1>4. D[n] = draft /\ \A i \in 1 .. n : D[i - 1] = Revert(D[i], history[i])
  BY DEF Leads
<1> HIDE DEF n
<1>5. x # 0
  <2>1. n - 0 = n
    BY <1>1
  <2> QED
    BY <1>3, <1>4, <2>1, UndoneIs
<1>6. /\ x \in Nat \ {0} /\ x - 1 \in 0 .. n /\ ~(x <= x - 1)
      /\ n - x + 1 \in 1 .. n /\ n - (x - 1) = n - x + 1 /\ (n - x + 1) - 1 = n - x
  BY <1>1, <1>3, <1>5
<1>7. UndoneDraft[x - 1] = D[n - x + 1]
  <2>1. UndoneDraft[x - 1] = D[n - (x - 1)]
    BY <1>2, <1>6
  <2> QED
    BY <1>6, <2>1
<1>8. UndoneDraft[x] = Revert(D[n - x + 1], history[n - x + 1])
  BY <1>6, <1>7, UndoneIs DEF n
<1>9. D[n - x] = Revert(D[n - x + 1], history[n - x + 1])
  BY <1>4, <1>6
<1> QED
  BY <1>3, <1>8, <1>9

LEMMA RedoneFollows ==
    ASSUME redo \in Seq(SoundRecords), NEW D, Returns(D, redo, draft)
    PROVE  \A k \in 0 .. Len(redo) : RedoneDraft[k] = D[Len(redo) - k]
<1> DEFINE n == Len(redo)
           T == {k \in 0 .. n : RedoneDraft[k] # D[n - k]}
<1> SUFFICES ASSUME T # {} PROVE FALSE
  OBVIOUS
<1>1. T \in SUBSET Nat /\ n \in Nat
  BY LenProperties
<1>2. PICK x \in T : \A y \in T : x <= y
  BY <1>1, LeastNatural
<1>3. x \in 0 .. n /\ RedoneDraft[x] # D[n - x]
  OBVIOUS
<1>4. D[n] = draft /\ \A i \in 1 .. n : D[i - 1] = Replay(D[i], redo[i])
  BY DEF Returns
<1> HIDE DEF n
<1>5. x # 0
  <2>1. n - 0 = n
    BY <1>1
  <2> QED
    BY <1>3, <1>4, <2>1, RedoneIs
<1>6. /\ x \in Nat \ {0} /\ x - 1 \in 0 .. n /\ ~(x <= x - 1)
      /\ n - x + 1 \in 1 .. n /\ n - (x - 1) = n - x + 1 /\ (n - x + 1) - 1 = n - x
  BY <1>1, <1>3, <1>5
<1>7. RedoneDraft[x - 1] = D[n - x + 1]
  <2>1. RedoneDraft[x - 1] = D[n - (x - 1)]
    BY <1>2, <1>6
  <2> QED
    BY <1>6, <2>1
<1>8. RedoneDraft[x] = Replay(D[n - x + 1], redo[n - x + 1])
  BY <1>6, <1>7, RedoneIs DEF n
<1>9. D[n - x] = Replay(D[n - x + 1], redo[n - x + 1])
  BY <1>4, <1>6
<1> QED
  BY <1>3, <1>8, <1>9

\* In every reachable state the records lead through sound drafts.
THEOREM RecordsLeadThrough == Spec => []ReplayInv
<1>1. Init => ReplayInv
  <2> SUFFICES ASSUME Init PROVE ReplayInv
    OBVIOUS
  <2>1. draft \in SoundDrafts /\ history = <<>> /\ redo = <<>>
    BY InitHolds DEF Init, IInv, LedgerInv
  <2> QED
    BY <2>1, NoRecords DEF ReplayInv
<1> QED
  BY <1>1, NextReplays, InvariantHolds, PTL DEF Spec

\* However commands, undos, redos, unlocks and trims were mixed, for any bound on the
\* history: every record is undone from exactly the draft it produced and redone from
\* exactly the draft it was taken back to.
THEOREM RecordsAreReplayable == Spec => []RecordsFindTheirTargets
<1>1. IInv /\ ReplayInv => RecordsFindTheirTargets
  <2> SUFFICES ASSUME IInv, ReplayInv PROVE RecordsFindTheirTargets
    OBVIOUS
  <2>1. history \in Seq(SoundRecords) /\ redo \in Seq(SoundRecords)
    BY DEF IInv, LedgerInv
  <2>2. PICK D : Leads(D, history, draft)
    BY DEF ReplayInv, Past
  <2>3. PICK E : Returns(E, redo, draft)
    BY DEF ReplayInv, Future
  <2>4. ASSUME NEW k \in 1 .. Len(history)
        PROVE  /\ JustAfter(UndoneDraft[k - 1], history[Len(history) - k + 1])
               /\ ExactlyOnce(UndoneDraft[k])
    <3> DEFINE n == Len(history)
    <3>1. n \in Nat
      BY <2>1, LenProperties
    <3>2. /\ D \in [0 .. n -> SoundDrafts]
          /\ \A i \in 1 .. n : JustAfter(D[i], history[i])
      BY <2>2 DEF Leads
    <3>3. \A j \in 0 .. n : UndoneDraft[j] = D[n - j]
      BY <2>1, <2>2, UndoneFollows
    <3>4. k \in 1 .. n
      OBVIOUS
    <3> HIDE DEF n
    <3>5. /\ k - 1 \in 0 .. n /\ k \in 0 .. n /\ n - k + 1 \in 1 .. n
          /\ n - (k - 1) = n - k + 1 /\ n - k \in 0 .. n
      BY <3>1, <3>4
    <3>6. UndoneDraft[k - 1] = D[n - k + 1] /\ UndoneDraft[k] = D[n - k]
      <4>1. UndoneDraft[k - 1] = D[n - (k - 1)]
        BY <3>3, <3>5
      <4> QED
        BY <3>3, <3>5, <4>1
    <3>7. ExactlyOnce(D[n - k])
      BY <3>2, <3>5 DEF SoundDrafts
    <3>8. JustAfter(UndoneDraft[k - 1], history[n - k + 1])
      BY <3>2, <3>5, <3>6
    <3> QED
      BY <3>6, <3>7, <3>8 DEF n
  <2>5. ASSUME NEW k \in 1 .. Len(redo)
        PROVE  /\ JustBefore(RedoneDraft[k - 1], redo[Len(redo) - k + 1])
               /\ ExactlyOnce(RedoneDraft[k])
    <3> DEFINE n == Len(redo)
    <3>1. n \in Nat
      BY <2>1, LenProperties
    <3>2. /\ E \in [0 .. n -> SoundDrafts]
          /\ \A i \in 1 .. n : JustBefore(E[i], redo[i])
      BY <2>3 DEF Returns
    <3>3. \A j \in 0 .. n : RedoneDraft[j] = E[n - j]
      BY <2>1, <2>3, RedoneFollows
    <3>4. k \in 1 .. n
      OBVIOUS
    <3> HIDE DEF n
    <3>5. /\ k - 1 \in 0 .. n /\ k \in 0 .. n /\ n - k + 1 \in 1 .. n
          /\ n - (k - 1) = n - k + 1 /\ n - k \in 0 .. n
      BY <3>1, <3>4
    <3>6. RedoneDraft[k - 1] = E[n - k + 1] /\ RedoneDraft[k] = E[n - k]
      <4>1. RedoneDraft[k - 1] = E[n - (k - 1)]
        BY <3>3, <3>5
      <4> QED
        BY <3>3, <3>5, <4>1
    <3>7. ExactlyOnce(E[n - k])
      BY <3>2, <3>5 DEF SoundDrafts
    <3>8. JustBefore(RedoneDraft[k - 1], redo[n - k + 1])
      BY <3>2, <3>5, <3>6
    <3> QED
      BY <3>6, <3>7, <3>8 DEF n
  <2> QED
    BY <2>4, <2>5 DEF RecordsFindTheirTargets
<1> QED
  BY <1>1, RecordsLeadThrough, InvariantHolds, PTL

\* The record an undo pushes leads back to the draft there was, and so does the record a
\* redo pushes.
UndoRedoCancel ==
    /\ Undo => Replay(draft', Last(redo')) = draft
    /\ Redo => Revert(draft', Last(history')) = draft

\* Undo and Redo take each other back, whatever was edited, staged and trimmed before.
THEOREM UndoAndRedoCancel == Spec => [][UndoRedoCancel]_vars
<1>1. ASSUME IInv, ReplayInv, IInv', Undo
      PROVE  Replay(draft', Last(redo')) = draft
  <2> DEFINE r == Last(history)
  <2>1. /\ draft' = Revert(draft, r) /\ redo' = Append(redo, r) /\ history # <<>>
        /\ draft \in SoundDrafts /\ history \in Seq(SoundRecords)
        /\ redo \in Seq(SoundRecords) /\ Past(history, draft)
    BY <1>1 DEF Undo, Persist, IInv, LedgerInv, ReplayInv
  <2>2. /\ r \in SoundRecords /\ JustAfter(draft, r) /\ Revert(draft, r) \in SoundDrafts
    BY <2>1, FrontLast, PastShrinks
  <2> HIDE DEF r
  <2>3. Last(redo') = r
    BY <2>1, <2>2, AppendProperties, LenProperties DEF Last
  <2> QED
    BY <2>1, <2>2, <2>3, UndoRestores
<1>2. ASSUME IInv, ReplayInv, IInv', Redo
      PROVE  Revert(draft', Last(history')) = draft
  <2> DEFINE r == Last(redo)
  <2>1. /\ draft' = Replay(draft, r) /\ history' = Trim(Append(history, r)) /\ redo # <<>>
        /\ draft \in SoundDrafts /\ history \in Seq(SoundRecords)
        /\ redo \in Seq(SoundRecords) /\ Future(redo, draft)
        /\ Len(history) + Len(redo) <= MaxHistory
    BY <1>2 DEF Redo, Persist, IInv, LedgerInv, ReplayInv
  <2>2. /\ r \in SoundRecords /\ JustBefore(draft, r) /\ Replay(draft, r) \in SoundDrafts
    BY <2>1, FrontLast, FutureShrinks
  <2> HIDE DEF r
  <2>3. /\ Len(Append(history, r)) = Len(history) + 1
        /\ Append(history, r)[Len(history) + 1] = r
    BY <2>1, <2>2, AppendProperties
  <2>4. ~(Len(history) + 1 > MaxHistory)
    <3>1. Len(history) \in Nat /\ Len(redo) \in Nat /\ Len(redo) # 0 /\ MaxHistory \in Nat
      BY <2>1, LenProperties, EmptySeq, BoundAssumption
    <3> QED
      BY <2>1, <3>1
  <2>5. history' = Append(history, r)
    BY <2>1, <2>3, <2>4 DEF Trim
  <2>6. Last(history') = r
    BY <2>3, <2>5 DEF Last
  <2> QED
    BY <2>1, <2>2, <2>6, RedoRestores
<1>3. IInv /\ ReplayInv /\ IInv' /\ [Next]_vars => [UndoRedoCancel]_vars
  BY <1>1, <1>2 DEF UndoRedoCancel
<1> QED
  BY <1>3, InvariantHolds, RecordsLeadThrough, PTL DEF Spec

-----------------------------------------------------------------------------
(* The draft implements the three layers.                                        *)

\* Both layers of a sound state are plans, in terms of placements.
LEMMA LayersArePlans ==
    ASSUME IInv
    PROVE  PlacementPlan(Placements(draft.assigned)) /\ PlacementPlan(Placements(authority.assigned))
BY DEF IInv, LedgerInv, SoundDrafts

\* Whatever persists a draft and leaves the snapshot alone is an edit.
LEMMA PersistIsEdit ==
    ASSUME IInv', NEW d, NEW h, NEW r, Persist(d, h, r), authority' = authority
    PROVE  Layers!Edit
<1>1. PlacementPlan(Placements(draft'.assigned))
  BY DEF IInv, LedgerInv, SoundDrafts
<1> QED
  BY <1>1 DEF Persist, Layers!Edit

\* The undo of a stage finds the draft that was staged: only L1 changes.
LEMMA UndoIsStep == ASSUME IInv, IInv', ReplayInv, Undo PROVE Layers!Next
<1> DEFINE r == Last(history)
<1>1. /\ Persist(Revert(draft, r), Front(history), Append(redo, r))
      /\ authority' = IF r.action = "stage" THEN r.preL1 ELSE authority
      /\ draft \in SoundDrafts /\ history \in Seq(SoundRecords) /\ history # <<>>
      /\ Past(history, draft)
  BY DEF Undo, IInv, LedgerInv, ReplayInv
<1>2. r \in SoundRecords /\ JustAfter(draft, r)
  BY <1>1, FrontLast, PastShrinks
<1> HIDE DEF r
<1>3. CASE r.action = "stage"
  <2>1. r \in KeptStages
    BY <1>2, <1>3 DEF SoundRecords, KeptMoves, KeptUnassigns, KeptAssigns
  <2>2. draft' = draft
    BY <1>1, <1>2, <2>1, RevertIs DEF Persist
  <2>3. PlacementPlan(Placements(authority'.assigned))
    BY DEF IInv, LedgerInv, SoundDrafts
  <2>4. Layers!Unstage
    BY <1>1, <2>2, <2>3 DEF Persist, Layers!Unstage
  <2> QED
    BY <2>4 DEF Layers!Next
<1>4. CASE r.action # "stage"
  <2>1. Layers!Edit
    BY <1>1, <1>4, PersistIsEdit
  <2> QED
    BY <2>1 DEF Layers!Next
<1> QED
  BY <1>3, <1>4

\* The redo of a stage stages the draft again.
LEMMA RedoIsStep == ASSUME IInv, IInv', Redo PROVE Layers!Next
<1> DEFINE r == Last(redo)
<1>1. /\ Persist(Replay(draft, r), Append(history, r), Front(redo))
      /\ authority' = IF r.action = "stage" THEN Replay(draft, r) ELSE authority
      /\ draft \in SoundDrafts /\ redo \in Seq(SoundRecords) /\ redo # <<>>
  BY DEF Redo, IInv, LedgerInv
<1>2. r \in SoundRecords
  BY <1>1, FrontLast
<1> HIDE DEF r
<1>3. CASE r.action = "stage"
  <2>1. Replay(draft, r) = draft
    BY <1>3 DEF Replay
  <2>2. Layers!Stage
    BY <1>1, <1>3, <2>1 DEF Persist, Layers!Stage
  <2> QED
    BY <2>2 DEF Layers!Next
<1>4. CASE r.action # "stage"
  <2>1. Layers!Edit
    BY <1>1, <1>4, PersistIsEdit
  <2> QED
    BY <2>1 DEF Layers!Next
<1> QED
  BY <1>3, <1>4

\* Each command is a step of the contract, or changes no placement.
LEMMA StepIsStep == IInv /\ IInv' /\ ReplayInv /\ [Next]_vars => [Layers!Next]_(Layers!layers)
<1> SUFFICES ASSUME IInv, IInv', ReplayInv, [Next]_vars
             PROVE  Layers!Next \/ UNCHANGED Layers!layers
  OBVIOUS
<1>1. ASSUME NEW kept, NEW room, Optimize(kept, room)
      PROVE  Layers!Next
  <2>1. Layers!Restart
    BY <1>1 DEF Optimize, Fresh, Layers!Restart, IInv, LedgerInv, SoundDrafts
  <2> QED
    BY <2>1 DEF Layers!Next
<1>2. ASSUME NEW d, NEW h, NEW r, Persist(d, h, r), authority' = authority
      PROVE  Layers!Next
  BY <1>2, PersistIsEdit DEF Layers!Next
<1>3. ASSUME NEW d, NEW record, Edit(d, record)
      PROVE  Layers!Next
  BY <1>2, <1>3 DEF Edit
<1>4. ASSUME NEW s, NEW room, NEW time, Move(s, room, time)
      PROVE  Layers!Next
  BY <1>3, <1>4 DEF Move
<1>5. ASSUME NEW u, NEW room, NEW time, Assign(u, room, time)
      PROVE  Layers!Next
  BY <1>3, <1>5 DEF Assign
<1>6. ASSUME NEW slots, Unassign(slots)
      PROVE  Layers!Next
  BY <1>3, <1>6 DEF Unassign
<1>7. CASE Unlock
  BY <1>2, <1>7 DEF Unlock
<1>8. CASE Undo
  BY <1>8, UndoIsStep
<1>9. CASE Redo
  BY <1>9, RedoIsStep
<1>10. CASE Stage
  <2>1. Layers!Stage
    BY <1>10 DEF Stage, Layers!Stage
  <2> QED
    BY <2>1 DEF Layers!Next
<1>11. CASE Finalize
  <2>1. bookings' = draft.assigned
    BY <1>11, FinalizeHolds
  <2>2. Layers!Commit
    BY <1>11, <2>1 DEF Finalize, FinalizeReady, Stale, Layers!Commit
  <2> QED
    BY <2>2 DEF Layers!Next
<1>12. CASE (\E spots \in SUBSET LectureSpots : PutLectures(spots)) \/ UNCHANGED vars
  BY <1>12 DEF PutLectures, vars, ledger, Layers!layers
<1> QED
  BY <1>1, <1>4, <1>5, <1>6, <1>7, <1>8, <1>9, <1>10, <1>11, <1>12 DEF Next

\* For any workbook, rooms and bound on the history: what the operator sees of L0, L1
\* and the bookings changes only as the three-layer contract allows.  That the undo of
\* a stage is a step of it needs that its record is found in the draft it was written in.
THEOREM DraftIsThreeLayers == Spec => ImplementsThreeLayers
<1>1. Init => Layers!Init
  <2> SUFFICES ASSUME Init PROVE Layers!Init
    OBVIOUS
  <2>1. PlacementPlan(Placements(draft.assigned))
    BY InitHolds, LayersArePlans
  <2>2. authority = draft /\ bookings = {} /\ roundCommitted = FALSE
    BY DEF Init
  <2>3. Placements(bookings) = {}
    BY <2>2 DEF Placements
  <2> QED
    BY <2>1, <2>2, <2>3 DEF Layers!Init
<1> QED
  BY <1>1, StepIsStep, InvariantHolds, RecordsLeadThrough, PTL
     DEF Spec, ImplementsThreeLayers, Layers!Spec
=============================================================================
