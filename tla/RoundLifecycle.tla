--------------------------- MODULE RoundLifecycle ---------------------------
(***************************************************************************)
(* Scheduling rounds over the two files that outlive a request: the        *)
(* session (workbook, draft, round_committed) and bookings.json.  Finalize *)
(* and Reset write the bookings first and the session second; the process  *)
(* may stop between the two, or the second write may fail and be rolled    *)
(* back.  What one round does to its draft is DraftLedger's subject: here  *)
(* a draft is only where its rows are placed.                              *)
(*                                                                         *)
(* A row is a source_request_id.  It is made of the row number and whether *)
(* the row asks for weekly lessons or a studio class: two workbooks share  *)
(* the sources of their first rows.                                        *)
(***************************************************************************)
EXTENDS Naturals, FiniteSets

CONSTANTS
    Books,        \* workbook versions
    RowsOf,       \* the rows of each workbook
    Spots,        \* a room and an interval
    NoBook,       \* no workbook imported, or no draft generated
    Crashes       \* may the process stop between two writes?

ASSUME BookAssumption ==
    /\ NoBook \notin Books
    /\ RowsOf \in [Books -> SUBSET Nat]
    /\ Crashes \in BOOLEAN

VARIABLES
    session,      \* session_cache.json
    bookings,     \* the committed lessons of bookings.json
    pending       \* the command between its two writes, with what it read

vars == <<session, bookings, pending>>

Rows == UNION {RowsOf[b] : b \in Books}

\* The optimizer's ids carry the student, day and hour; a manual assignment's
\* id is the bare source.
Ids == ({"optimizer"} \X Books \X Rows) \cup ({"source"} \X Rows)
Lessons == [id: Ids, book: Books, row: Rows, spot: Spots]

RowsIn(lessons) == {p.row : p \in lessons}
IdsIn(lessons) == {p.id : p \in lessons}

\* A session file that does not exist, and what a command finds in it.
EmptySession ==
    [book |-> NoBook, draftBook |-> NoBook, l0 |-> {}, l1 |-> {},
     unsealed |-> FALSE, dirty |-> FALSE, committed |-> FALSE]
Sessions ==
    [book: Books \cup {NoBook}, draftBook: Books \cup {NoBook},
     l0: SUBSET Lessons, l1: SUBSET Lessons,
     unsealed: BOOLEAN, dirty: BOOLEAN, committed: BOOLEAN]

Idle == [kind |-> "none", before |-> {}]
IsIdle == pending = Idle

-----------------------------------------------------------------------------
Clash(p, q) == p.id # q.id /\ p.spot = q.spot

\* Committed lessons whose source is in neither layer of the draft that was
\* loaded nor in the candidate.
Locks(placed) ==
    {b \in bookings : b.row \notin RowsIn(session.l0 \cup session.l1 \cup placed)}

\* Mutants of Gate: the draft's workbook version is not compared; the committed
\* lessons are not.
GateAnyVersion(placed) ==
    session.book # NoBook =>
        \A p \in placed, q \in placed \cup Locks(placed) : ~Clash(p, q)
GateUnlocked(placed) ==
    session.book # NoBook =>
        /\ session.draftBook = session.book
        /\ \A p, q \in placed : ~Clash(p, q)

\* verify_candidate_state and the provenance comparison; without an imported
\* workbook the gate is off.
Gate(placed) ==
    session.book # NoBook =>
        /\ session.draftBook = session.book
        /\ \A p \in placed, q \in placed \cup Locks(placed) : ~Clash(p, q)

\* An import replaces the workbook and neither the draft nor round_committed.
Import(b) ==
    /\ IsIdle
    /\ session' = [session EXCEPT !.book = b]
    /\ UNCHANGED <<bookings, pending>>

\* The allocator avoids every committed spot, the source's own included.
Run(spotOf) ==
    LET placed == {[id |-> <<"optimizer", session.book, r>>, book |-> session.book,
                    row |-> r, spot |-> spotOf[r]] : r \in DOMAIN spotOf}
    IN  /\ IsIdle
        /\ \A p, q \in placed : p # q => p.spot # q.spot
        /\ \A p \in placed : \A b \in bookings : p.spot # b.spot
        /\ session' = [session EXCEPT !.draftBook = session.book, !.l0 = placed,
                                      !.l1 = placed, !.unsealed = FALSE, !.dirty = FALSE]
        /\ UNCHANGED <<bookings, pending>>

Edit(placed) ==
    /\ IsIdle
    /\ Gate(placed)
    /\ session' = [session EXCEPT !.l0 = placed, !.unsealed = TRUE, !.dirty = TRUE]
    /\ UNCHANGED <<bookings, pending>>

Move(p, spot) == Edit((session.l0 \ {p}) \cup {[p EXCEPT !.spot = spot]})

Assign(row, spot) ==
    Edit(session.l0 \cup {[id |-> <<"source", row>>, book |-> session.draftBook,
                           row |-> row, spot |-> spot]})

Unassign(p) == Edit(session.l0 \ {p})

Stage ==
    /\ IsIdle
    /\ session' = [session EXCEPT !.l1 = session.l0, !.unsealed = FALSE]
    /\ UNCHANGED <<bookings, pending>>

-----------------------------------------------------------------------------
(* Finalize: bookings.json, then the session. *)

Sealed == ~session.unsealed /\ session.l0 = session.l1

\* Mutants of FinalizeWrite: nothing is remembered for the rollback; only
\* uncommitted lessons were to be replaced.
FinalizeWriteForgetful ==
    /\ IsIdle
    /\ ~session.committed /\ Sealed /\ Gate(session.l0)
    /\ bookings' = {b \in bookings : b.id \notin IdsIn(session.l0)} \cup session.l0
    /\ pending' = [kind |-> "finalize", before |-> {}]
    /\ UNCHANGED session
FinalizeWriteReplacesAll ==
    /\ IsIdle
    /\ ~session.committed /\ Sealed /\ Gate(session.l0)
    /\ bookings' = session.l0
    /\ pending' = [kind |-> "finalize", before |-> bookings]
    /\ UNCHANGED session

FinalizeWrite ==
    /\ IsIdle
    /\ ~session.committed /\ Sealed /\ Gate(session.l0)
    /\ bookings' = {b \in bookings : b.id \notin IdsIn(session.l0)} \cup session.l0
    /\ pending' = [kind |-> "finalize", before |-> bookings]
    /\ UNCHANGED session

FinalizeSave ==
    /\ pending.kind = "finalize"
    /\ session' = [session EXCEPT !.committed = TRUE, !.dirty = FALSE]
    /\ pending' = Idle
    /\ UNCHANGED bookings

\* Another writer's session or a failed write: the bookings are written back.
Rollback ==
    /\ ~IsIdle
    /\ bookings' = pending.before
    /\ pending' = Idle
    /\ UNCHANGED session

\* The process stops, or the rollback itself fails.
Crash ==
    /\ Crashes /\ ~IsIdle
    /\ pending' = Idle
    /\ UNCHANGED <<session, bookings>>

-----------------------------------------------------------------------------
\* can_start_round_two asks for a committed round and a clean sealed draft.
StartRound ==
    /\ IsIdle
    /\ session.committed /\ ~session.dirty /\ Sealed
    /\ session' = EmptySession
    /\ UNCHANGED <<bookings, pending>>

\* Reset keeps the lectures only; without lessons to drop it is one write.
ResetWrite ==
    /\ IsIdle
    /\ bookings # {}
    /\ bookings' = {}
    /\ pending' = [kind |-> "reset", before |-> bookings]
    /\ UNCHANGED session

ResetSave ==
    /\ pending.kind = "reset" \/ (IsIdle /\ bookings = {})
    /\ session' = EmptySession
    /\ pending' = Idle
    /\ UNCHANGED bookings

-----------------------------------------------------------------------------
Init == session = EmptySession /\ bookings = {} /\ pending = Idle

RunSome ==
    /\ session.book # NoBook
    /\ \E rows \in SUBSET RowsOf[session.book] :
          \E spotOf \in [rows -> Spots] : Run(spotOf)

AssignSome ==
    /\ session.draftBook # NoBook
    /\ \E row \in RowsOf[session.draftBook] \ RowsIn(session.l0), spot \in Spots :
          Assign(row, spot)

Next ==
    \/ \E b \in Books : Import(b)
    \/ RunSome
    \/ \E p \in session.l0, spot \in Spots : Move(p, spot)
    \/ AssignSome
    \/ \E p \in session.l0 : Unassign(p)
    \/ Stage
    \/ FinalizeWrite
    \/ FinalizeSave
    \/ Rollback
    \/ Crash
    \/ StartRound
    \/ ResetWrite
    \/ ResetSave

Spec == Init /\ [][Next]_vars

-----------------------------------------------------------------------------
(* Properties. *)

\* Both files are well formed, and a draft has one workbook and one entry a row.
TypeOK ==
    /\ session \in Sessions
    /\ bookings \subseteq Lessons
    /\ pending \in [kind: {"none", "finalize", "reset"}, before: SUBSET Lessons]
    /\ \A p, q \in session.l0 : p.row = q.row => p = q

\* What Finalize commits was generated from the workbook that is imported at
\* that moment: a draft left over from an earlier workbook is never committed.
CommitsActiveWorkbook ==
    [][\A b \in bookings' \ bookings :
          pending.kind = "none" => b.book = session.book]_vars

\* When the session file says the round became committed, every lesson of it is
\* in bookings.json already, so a stop between the writes never loses a commit.
CommitIsBookedFirst ==
    [][session'.committed /\ ~session.committed => session.l0 \subseteq bookings]_vars

\* README, "Committed assignments carry forward as locks": no spot is committed
\* to lessons of two workbooks.  It fails where the workbooks share a row number: a
\* row of the next workbook hides the lock of the row with the same number.
NoDoubleBooking ==
    \A b, c \in bookings : b.book # c.book => b.spot # c.spot

\* What is left of the line whatever numbers the workbooks share: lessons of two
\* workbooks are in one spot only if the row number of one is a row of the other's
\* workbook.  A lock no row of the draft's workbook hides is never booked over,
\* through crashes, rollbacks and resets.
OnlySharedRowsCollide ==
    \A b, c \in bookings :
       b.book # c.book /\ b.spot = c.spot =>
          b.row \in RowsOf[c.book] \/ c.row \in RowsOf[b.book]

\* What a commit takes away of another workbook was assigned by hand, to a row whose
\* number the draft placed as well: the optimizer's lessons of earlier rounds stay.
OnlyHandMadeAreReplaced ==
    [][FinalizeWrite =>
          \A b \in bookings \ bookings' :
             \/ b.book = session.book
             \/ b.id = <<"source", b.row>> /\ b.row \in RowsIn(session.l0)]_vars

-----------------------------------------------------------------------------
\* Between the two writes the contract still sees the bookings of before.  After a
\* stop the session's plan may be booked without being committed.
Contract == INSTANCE RoundContract WITH
    plan <- session.l1,
    booked <- IF IsIdle THEN bookings ELSE pending.before,
    committed <- session.committed

\* The two files change like one: Finalize is the atomic commit of the staged plan
\* or nothing at all.  A stop between its writes leaves the commit untold, and
\* never half a plan.
ImplementsContract == Contract!Spec
=============================================================================
