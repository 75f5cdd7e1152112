----------------------------- MODULE DraftLedger -----------------------------
(***************************************************************************)
(* The Step 4 draft of one scheduling round: the live draft L0, the staged *)
(* snapshot L1 (validation_authority), the undo history and redo stack,    *)
(* and the committed bookings L2.  One action is one HTTP command; every   *)
(* command runs to its end under the application's mutation lock, and a    *)
(* command whose candidate fails the integrity gate, or whose save         *)
(* conflicts, restores its snapshot: it is a stuttering step here.         *)
(*                                                                         *)
(* A lesson is a source_request_id of the imported workbook.  The lists of *)
(* the session file are sets: their order is display only, and             *)
(* RecordsFindTheirTargets shows that no command ever appends an entry     *)
(* that is already there.                                                  *)
(***************************************************************************)
EXTENDS Integers, Sequences, FiniteSets

CONSTANTS
    Lessons,        \* the occurrences of the imported workbook
    Rooms,
    Times,          \* weekly day-and-hour intervals
    Teacher,        \* the instructor of each lesson
    Requested,      \* the time the workbook asks for
    Suits,          \* the pairs <<lesson, room>> the room rules allow
    Retimable,      \* lessons whose teacher is not original_time_only
    LectureSpots,   \* the <<room, time>> pairs a lecture may occupy
    MaxHistory,     \* MAX_UNDO_HISTORY
    MaxBlock,       \* lessons one unassign_block command may name
    NoRoom          \* the optimizer's "no room found"

\* What preflight establishes before a run: no instructor is asked for twice
\* at one time (audit_source_schedule).  MAX_UNDO_HISTORY is positive.
ASSUME SourceAssumption ==
    /\ Requested \in [Lessons -> Times]
    /\ Retimable \subseteq Lessons
    /\ LectureSpots \subseteq Rooms \X Times
    /\ NoRoom \notin Rooms
    /\ \A l, k \in Lessons :
          l # k => ~(Teacher[l] = Teacher[k] /\ Requested[l] = Requested[k])

ASSUME BoundAssumption == MaxHistory \in Nat \ {0} /\ MaxBlock \in Nat \ {0}

VARIABLES
    draft,           \* L0: assignments and unassigned_lessons
    authority,       \* L1: validation_authority
    history,
    redo,            \* redo_stack
    unsealed,
    dirty,
    roundCommitted,  \* round_committed
    bookings,        \* L2: committed lessons in bookings.json
    lectures         \* locked lectures in bookings.json

ledger == <<draft, authority, history, redo, unsealed, dirty>>
vars == <<ledger, roundCommitted, bookings, lectures>>

-----------------------------------------------------------------------------
\* An optimizer event id and the id a manual assignment gets are different:
\* the second one is the source request id itself.
Ids == {"optimizer", "source"} \X Lessons

Slots == [id: Ids, lesson: Lessons, room: Rooms, time: Times]
Issues == [id: Ids, lesson: Lessons]
Drafts == [assigned: SUBSET Slots, unassigned: SUBSET Issues]

MoveRecords == [action: {"move"}, prev: Slots, new: Slots]
UnassignRecords == [action: {"unassign"}, slots: SUBSET Slots]
AssignRecords == [action: {"assign"}, issue: Issues, new: Slots]
StageRecords == [action: {"stage"}, preL0: Drafts, preL1: Drafts]
Records == MoveRecords \cup UnassignRecords \cup AssignRecords \cup StageRecords

IssueOf(s) == [id |-> s.id, lesson |-> s.lesson]
LessonsOf(entries) == {e.lesson : e \in entries}
IdsOf(entries) == {e.id : e \in entries}

\* Where each lesson is: what _pi_placement_signature compares.
Placements(slots) == {<<s.lesson, s.room, s.time>> : s \in slots}

SameTimeAndPlace(s, o) ==
    s.time = o.time /\ (s.room = o.room \/ Teacher[s.lesson] = Teacher[o.lesson])

\* Mutant of Clash: instructors are not compared.
ClashRoomsOnly(s, o) == s.id # o.id /\ s.time = o.time /\ s.room = o.room

\* Both conflict checks skip an event with the candidate's own id.
Clash(s, o) == s.id # o.id /\ SameTimeAndPlace(s, o)

RoomAllowed(s) == <<s.lesson, s.room>> \in Suits /\ <<s.room, s.time>> \notin lectures

-----------------------------------------------------------------------------
(* The integrity gate, verify_candidate_state. *)

\* Exactly one entry, assigned or unresolved, for every source occurrence.
\* Entries are counted: an assigned pair with one lesson would be a duplicate.
ExactlyOnce(d) ==
    /\ \A s, t \in d.assigned : s.lesson = t.lesson => s = t
    /\ \A u, v \in d.unassigned : u.lesson = v.lesson => u = v
    /\ LessonsOf(d.assigned) \cap LessonsOf(d.unassigned) = {}
    /\ LessonsOf(d.assigned) \cup LessonsOf(d.unassigned) = Lessons

\* Committed events count as occupied unless the draft the request loaded, its
\* staged snapshot or the candidate itself holds the same source occurrence.
Locks(d) ==
    {b \in bookings : b.lesson \notin LessonsOf(draft.assigned)
                                      \cup LessonsOf(authority.assigned)
                                      \cup LessonsOf(d.assigned)}

Valid(d, locks) ==
    /\ ExactlyOnce(d)
    /\ \A s \in d.assigned : RoomAllowed(s)
    /\ \A s \in d.assigned : \A o \in d.assigned \cup locks : ~Clash(s, o)

Stale == Placements(draft.assigned) # Placements(authority.assigned)

-----------------------------------------------------------------------------
(* History records: what undo takes back and redo applies again. *)

UpdateById(slots, saved) ==
    {IF s.id = saved.id THEN saved ELSE s : s \in slots}

WithoutIds(entries, ids) == {e \in entries : e.id \notin ids}

Revert(d, r) ==
    CASE r.action = "move" -> [d EXCEPT !.assigned = UpdateById(@, r.prev)]
      [] r.action = "unassign" ->
            [assigned   |-> d.assigned \cup r.slots,
             unassigned |-> WithoutIds(d.unassigned, IdsOf(r.slots))]
      [] r.action = "assign" ->
            [assigned   |-> WithoutIds(d.assigned, {r.new.id}),
             unassigned |-> IF r.issue.id \in IdsOf(d.unassigned)
                              THEN d.unassigned
                              ELSE d.unassigned \cup {r.issue}]
      [] r.action = "stage" -> r.preL0

Replay(d, r) ==
    CASE r.action = "move" ->
            [d EXCEPT !.assigned = IF r.new.id \in IdsOf(@)
                                     THEN UpdateById(@, r.new)
                                     ELSE @ \cup {r.new}]
      [] r.action = "unassign" ->
            [assigned   |-> WithoutIds(d.assigned, IdsOf(r.slots)),
             unassigned |-> d.unassigned \cup {IssueOf(s) : s \in r.slots}]
      [] r.action = "assign" ->
            [assigned   |-> IF r.new.id \in IdsOf(d.assigned)
                              THEN UpdateById(d.assigned, r.new)
                              ELSE d.assigned \cup {r.new},
             unassigned |-> WithoutIds(d.unassigned, {r.issue.id})]
      [] r.action = "stage" -> d

Last(s) == s[Len(s)]
Front(s) == SubSeq(s, 1, Len(s) - 1)

\* Mutant of Trim: one record too many survives.
TrimLate(s) == IF Len(s) > MaxHistory + 1
                 THEN SubSeq(s, Len(s) - MaxHistory + 1, Len(s))
                 ELSE s

\* trim_undo_history keeps the newest MAX_UNDO_HISTORY records.
Trim(s) == IF Len(s) > MaxHistory
             THEN SubSeq(s, Len(s) - MaxHistory + 1, Len(s))
             ELSE s

-----------------------------------------------------------------------------
(* One optimizer candidate.  Weekly lessons are placed at the requested time *)
(* or not at all; which of the free rooms wins is the allocator's business.  *)

\* _validate_pinned_assignments keeps a pinned event unless a lecture, another
\* pin or any committed event is in its way.  Which events carry a pin is left
\* open here (LessonCard models the pin); a fresh run keeps none.
Keepable(kept) ==
    \A s \in kept : RoomAllowed(s) /\ \A o \in kept \cup bookings : ~Clash(s, o)

Generated(room, ls) ==
    {[id |-> <<"optimizer", l>>, lesson |-> l, room |-> room[l],
      time |-> Requested[l]] : l \in {k \in ls : room[k] # NoRoom}}

Candidate(kept, room) ==
    LET open == Lessons \ LessonsOf(kept)
    IN  [assigned   |-> kept \cup Generated(room, open),
         unassigned |-> {[id |-> <<"optimizer", l>>, lesson |-> l] :
                            l \in {k \in open : room[k] = NoRoom}}]

\* The allocator never reuses a room that any committed event holds then, the
\* lesson's own included; the gate drops the locks of sources it placed.
CandidateOK(kept, d) ==
    /\ \A s \in d.assigned \ kept : \A b \in bookings :
          ~(s.room = b.room /\ s.time = b.time)
    /\ Valid(d, {b \in bookings : b.lesson \notin LessonsOf(d.assigned)})

Fresh(d) ==
    /\ draft' = d
    /\ authority' = d
    /\ history' = <<>>
    /\ redo' = <<>>
    /\ unsealed' = FALSE
    /\ dirty' = FALSE

\* run_optimizer replaces the whole edit session; round_committed stays.
Optimize(kept, room) ==
    /\ kept \subseteq draft.assigned
    /\ Keepable(kept)
    /\ CandidateOK(kept, Candidate(kept, room))
    /\ Fresh(Candidate(kept, room))
    /\ UNCHANGED <<roundCommitted, bookings, lectures>>

-----------------------------------------------------------------------------
(* Draft commands. *)

\* _persist_mutation: gate, mark dirty, trim, save.
Persist(d, h, r) ==
    /\ Valid(d, Locks(d))
    /\ draft' = d
    /\ history' = Trim(h)
    /\ redo' = r
    /\ dirty' = TRUE
    /\ UNCHANGED <<roundCommitted, bookings, lectures>>

\* Mutants of Edit: the redo stack survives a new edit; the seal does.
EditKeepsRedo(d, record) ==
    /\ Persist(d, Append(history, record), redo)
    /\ unsealed' = TRUE
    /\ authority' = authority
EditKeepsSeal(d, record) ==
    /\ Persist(d, Append(history, record), <<>>)
    /\ unsealed' = unsealed
    /\ authority' = authority

\* A new edit: unseal, push its record, forget what was undone.
Edit(d, record) ==
    /\ Persist(d, Append(history, record), <<>>)
    /\ unsealed' = TRUE
    /\ authority' = authority

Move(s, room, time) ==
    LET new == [s EXCEPT !.room = room, !.time = time]
    IN  /\ s \in draft.assigned
        /\ time # s.time => s.lesson \in Retimable
        /\ Edit([draft EXCEPT !.assigned = (@ \ {s}) \cup {new}],
                [action |-> "move", prev |-> s, new |-> new])

\* Mutant of Assign: any instructor's lesson may change its time.
AssignAnyTime(u, room, time) ==
    LET new == [id |-> <<"source", u.lesson>>, lesson |-> u.lesson,
                room |-> room, time |-> time]
    IN  /\ u \in draft.unassigned
        /\ Edit([assigned |-> draft.assigned \cup {new},
                 unassigned |-> draft.unassigned \ {u}],
                [action |-> "assign", issue |-> u, new |-> new])

\* A manual assignment takes its source request id as event id.
Assign(u, room, time) ==
    LET new == [id |-> <<"source", u.lesson>>, lesson |-> u.lesson,
                room |-> room, time |-> time]
    IN  /\ u \in draft.unassigned
        /\ time # Requested[u.lesson] => u.lesson \in Retimable
        /\ Edit([assigned |-> draft.assigned \cup {new},
                 unassigned |-> draft.unassigned \ {u}],
                [action |-> "assign", issue |-> u, new |-> new])

\* unassign names one event, unassign_block up to a block of them.
Unassign(slots) ==
    /\ slots # {} /\ slots \subseteq draft.assigned
    /\ Cardinality(slots) <= MaxBlock
    /\ Edit([assigned   |-> draft.assigned \ slots,
             unassigned |-> draft.unassigned \cup {IssueOf(s) : s \in slots}],
            [action |-> "unassign", slots |-> slots])

\* unlock clears the pin of one event and leaves history and redo stack alone.
Unlock ==
    /\ draft.assigned # {}
    /\ Persist(draft, history, redo)
    /\ unsealed' = TRUE
    /\ authority' = authority

Undo ==
    /\ history # <<>>
    /\ LET r == Last(history)
       IN  /\ Persist(Revert(draft, r), Front(history), Append(redo, r))
           /\ authority' = IF r.action = "stage" THEN r.preL1 ELSE authority
    /\ unsealed' = TRUE

\* Only the redo of a stage keeps the seal, and it stages the draft again.
Redo ==
    /\ redo # <<>>
    /\ LET r == Last(redo)
           d == Replay(draft, r)
       IN  /\ Persist(d, Append(history, r), Front(redo))
           /\ authority' = IF r.action = "stage" THEN d ELSE authority
           /\ unsealed' = (r.action # "stage")

-----------------------------------------------------------------------------
(* Stage, Finalize, and lecture uploads. *)

\* Mutant of Stage: the snapshot forgets the unresolved lessons.
StageAssignedOnly ==
    /\ authority' = [draft EXCEPT !.unassigned = {}]
    /\ unsealed' = FALSE
    /\ history' = Trim(Append(history, [action |-> "stage", preL0 |-> draft,
                                        preL1 |-> authority]))
    /\ redo' = <<>>
    /\ UNCHANGED <<draft, dirty, roundCommitted, bookings, lectures>>

\* stage_schedule copies L0 to L1 without a gate and leaves dirty alone.
Stage ==
    /\ authority' = draft
    /\ unsealed' = FALSE
    /\ history' = Trim(Append(history, [action |-> "stage", preL0 |-> draft,
                                        preL1 |-> authority]))
    /\ redo' = <<>>
    /\ UNCHANGED <<draft, dirty, roundCommitted, bookings, lectures>>

\* Mutant of FinalizeReady: neither the seal nor the snapshot is asked for.
FinalizeReadyUnstaged == ~roundCommitted

FinalizeReady == ~roundCommitted /\ ~unsealed /\ ~Stale

\* collect_finalize_conflicts: every lesson once more, now against the draft and the
\* other occurrences of the staged snapshot.
FinalizeFree ==
    LET staged == {a \in authority.assigned : a.lesson \notin LessonsOf(draft.assigned)}
    IN  \A s \in draft.assigned :
            RoomAllowed(s) /\ \A o \in draft.assigned \cup staged : ~Clash(s, o)

\* Mutant of Finalize: round_committed is not recorded.
FinalizeUnrecorded ==
    /\ FinalizeReady
    /\ Valid(draft, Locks(draft))
    /\ FinalizeFree
    /\ bookings' = WithoutIds(bookings, IdsOf(draft.assigned)) \cup draft.assigned
    /\ dirty' = FALSE
    /\ UNCHANGED <<draft, authority, history, redo, unsealed, roundCommitted, lectures>>

Finalize ==
    /\ FinalizeReady
    /\ Valid(draft, Locks(draft))
    /\ FinalizeFree
    /\ bookings' = WithoutIds(bookings, IdsOf(draft.assigned)) \cup draft.assigned
    /\ roundCommitted' = TRUE
    /\ dirty' = FALSE
    /\ UNCHANGED <<draft, authority, history, redo, unsealed, lectures>>

\* put_lectures checks the new lectures against committed lessons only.
PutLectures(spots) ==
    /\ \A b \in bookings : <<b.room, b.time>> \notin spots
    /\ lectures' = spots
    /\ UNCHANGED <<ledger, roundCommitted, bookings>>

-----------------------------------------------------------------------------
\* The first optimizer run of a round, over an empty calendar.
Init ==
    /\ lectures = {}
    /\ bookings = {}
    /\ roundCommitted = FALSE
    /\ \E room \in [Lessons -> Rooms \cup {NoRoom}] : draft = Candidate({}, room)
    /\ authority = draft
    /\ Valid(draft, {})
    /\ history = <<>>
    /\ redo = <<>>
    /\ unsealed = FALSE
    /\ dirty = FALSE

Next ==
    \/ \E kept \in SUBSET draft.assigned, room \in [Lessons -> Rooms \cup {NoRoom}] :
          Optimize(kept, room)
    \/ \E s \in draft.assigned, room \in Rooms, time \in Times : Move(s, room, time)
    \/ \E u \in draft.unassigned, room \in Rooms, time \in Times : Assign(u, room, time)
    \/ \E slots \in SUBSET draft.assigned : Unassign(slots)
    \/ Unlock
    \/ Undo
    \/ Redo
    \/ Stage
    \/ Finalize
    \/ \E spots \in SUBSET LectureSpots : PutLectures(spots)

Spec == Init /\ [][Next]_vars

-----------------------------------------------------------------------------
(* Properties. *)

\* Every stored value has its type, and history and redo stack together never
\* hold more records than the session file is trimmed to.
TypeOK ==
    /\ draft \in Drafts
    /\ authority \in Drafts
    /\ history \in Seq(Records)
    /\ redo \in Seq(Records)
    /\ Len(history) + Len(redo) <= MaxHistory
    /\ unsealed \in BOOLEAN /\ dirty \in BOOLEAN /\ roundCommitted \in BOOLEAN
    /\ bookings \subseteq Slots
    /\ lectures \subseteq Rooms \X Times

\* No occurrence is ever lost, invented or listed twice: not in the draft and
\* not in the staged snapshot an undo may bring back.
LedgerIntact == ExactlyOnce(draft) /\ ExactlyOnce(authority)

\* The draft after the newest k records are undone, and after the newest k
\* undone records are redone.
UndoneDraft[k \in Nat] ==
    IF k = 0 THEN draft ELSE Revert(UndoneDraft[k - 1], history[Len(history) - k + 1])
RedoneDraft[k \in Nat] ==
    IF k = 0 THEN draft ELSE Replay(RedoneDraft[k - 1], redo[Len(redo) - k + 1])

\* The draft a record was written in and the draft it left behind.
JustAfter(d, r) ==
    CASE r.action = "move" -> r.new \in d.assigned
      [] r.action = "unassign" -> \A s \in r.slots : IssueOf(s) \in d.unassigned
      [] r.action = "assign" ->
            r.new \in d.assigned /\ r.issue.id \notin IdsOf(d.unassigned)
      [] r.action = "stage" -> d = r.preL0
JustBefore(d, r) ==
    CASE r.action = "move" -> r.prev \in d.assigned
      [] r.action = "unassign" -> r.slots \subseteq d.assigned
      [] r.action = "assign" -> r.issue \in d.unassigned
      [] r.action = "stage" -> d = r.preL0

\* However commands, undos, redos, unlocks and trims were mixed, every record of
\* the history is undone from exactly the draft it produced, every record of the
\* redo stack is redone from exactly the draft it was taken back to, and every
\* draft on the way lists each occurrence once: undo and redo never meet a
\* missing or a second event, so revert_record's fallback branches never run.
RecordsFindTheirTargets ==
    /\ \A k \in 1..Len(history) :
          /\ JustAfter(UndoneDraft[k - 1], history[Len(history) - k + 1])
          /\ ExactlyOnce(UndoneDraft[k])
    /\ \A k \in 1..Len(redo) :
          /\ JustBefore(RedoneDraft[k - 1], redo[Len(redo) - k + 1])
          /\ ExactlyOnce(RedoneDraft[k])

\* A draft whose placements differ from the staged snapshot is never sealed,
\* whatever was undone or redone since: the unsealed flag and authority_stale
\* are two guards of Finalize, and the flag alone would do.
DivergenceIsUnsealed == Stale => unsealed

\* A lesson of an original_time_only instructor stays at the time the workbook
\* asks for, in the draft and in what is committed.
TimesKept ==
    \A s \in draft.assigned \cup authority.assigned \cup bookings :
        s.lesson \notin Retimable => s.time = Requested[s.lesson]

\* Committed lessons are pairwise free of room and instructor clashes, no
\* occurrence is committed twice, and no lecture saved before or after the
\* commit sits on a committed lesson.
CommittedSound ==
    /\ \A b, c \in bookings : b # c => ~SameTimeAndPlace(b, c) /\ b.lesson # c.lesson
    /\ \A b \in bookings : RoomAllowed(b)

\* Only Finalize writes bookings, once in a round, and what it commits is the
\* placement of every lesson in the snapshot that was staged.
CommitsWhatWasStaged ==
    [][bookings' # bookings \/ roundCommitted' # roundCommitted =>
          /\ ~roundCommitted /\ roundCommitted'
          /\ Placements(bookings') = Placements(authority.assigned)]_vars

-----------------------------------------------------------------------------
(* The draft implements the three layers. *)

PlacementPlan(p) ==
    \A x, y \in p : x # y =>
        /\ x[1] # y[1]
        /\ ~(x[3] = y[3] /\ (x[2] = y[2] \/ Teacher[x[1]] = Teacher[y[1]]))

Layers == INSTANCE ThreeLayers WITH
    IsPlan <- PlacementPlan,
    l0 <- Placements(draft.assigned),
    l1 <- Placements(authority.assigned),
    l2 <- Placements(bookings),
    committed <- roundCommitted

\* Every command is an edit, a stage, a restart, a taken-back stage or the
\* commit of the three-layer contract, or changes no placement.
ImplementsThreeLayers == Layers!Spec
=============================================================================
