------------------------ MODULE RoundLifecycle_proofs ------------------------
(***************************************************************************)
(* The two files of a round implement one atomic calendar, for any         *)
(* workbooks, rows and spots, whether or not the process may stop between  *)
(* the writes.  The argument is what a command between its two writes      *)
(* knows: a finalize still has the sealed draft it booked, a reset has     *)
(* already emptied the bookings.  What the bookings hold across rounds     *)
(* follows from where lessons come from: a draft is made from one          *)
(* workbook, and an id tells the workbook or the row.                      *)
(***************************************************************************)
EXTENDS RoundLifecycle, TLAPS

OneEntryARow == \A p, q \in session.l0 : p.row = q.row => p = q

PendingInv ==
    /\ pending.kind = "none" <=> IsIdle
    /\ pending.kind = "finalize" =>
          /\ ~session.committed /\ session.l0 = session.l1
          /\ session.l0 \subseteq bookings
          /\ bookings \subseteq pending.before \cup session.l0
    /\ pending.kind = "reset" => bookings = {}

IInv == TypeOK /\ PendingInv

-----------------------------------------------------------------------------
LEMMA EmptyIsTyped == EmptySession \in Sessions
BY DEF EmptySession, Sessions

LEMMA InitHolds == Init => IInv
BY EmptyIsTyped DEF Init, IInv, TypeOK, PendingInv, Idle, IsIdle, EmptySession

\* A command that rewrites the session and not the bookings, between no writes.
LEMMA SessionHolds ==
    ASSUME IInv, IsIdle, session' \in Sessions, OneEntryARow', UNCHANGED <<bookings, pending>>
    PROVE  IInv'
BY DEF IInv, TypeOK, PendingInv, IsIdle, Idle, OneEntryARow

LEMMA ImportHolds == ASSUME IInv, NEW b \in Books, Import(b) PROVE IInv'
<1>1. session' \in Sessions /\ OneEntryARow'
  BY DEF Import, IInv, TypeOK, Sessions, OneEntryARow
<1> QED
  BY <1>1, SessionHolds DEF Import

\* A generated draft.
LEMMA RunHolds == ASSUME IInv, RunSome PROVE IInv'
<1>0. PICK rows \in SUBSET RowsOf[session.book] : \E spotOf \in [rows -> Spots] : Run(spotOf)
  BY DEF RunSome
<1>1. PICK spotOf \in [rows -> Spots] : Run(spotOf)
  BY <1>0
<1> DEFINE Lesson(r) == [id |-> <<"optimizer", session.book, r>>, book |-> session.book,
                         row |-> r, spot |-> spotOf[r]]
           placed == {Lesson(r) : r \in DOMAIN spotOf}
<1>2. session.book \in Books
  BY DEF RunSome, IInv, TypeOK, Sessions
<1>3. \A r \in DOMAIN spotOf : Lesson(r) \in Lessons
  <2> SUFFICES ASSUME NEW r \in DOMAIN spotOf
               PROVE  Lesson(r) \in Lessons
    OBVIOUS
  <2>1. r \in Rows /\ spotOf[r] \in Spots
    BY <1>2 DEF Rows
  <2>2. <<"optimizer", session.book, r>> \in Ids
    BY <1>2, <2>1 DEF Ids
  <2> QED
    BY <1>2, <2>1, <2>2 DEF Lessons
<1>4. placed \in SUBSET Lessons /\ \A p, q \in placed : p.row = q.row => p = q
  BY <1>3
<1>5. /\ session' = [session EXCEPT !.draftBook = session.book, !.l0 = placed,
                                    !.l1 = placed, !.unsealed = FALSE, !.dirty = FALSE]
      /\ IsIdle /\ UNCHANGED <<bookings, pending>>
  BY <1>1 DEF Run
<1> HIDE DEF placed
<1>6. session' \in Sessions /\ session'.l0 = placed
  BY <1>2, <1>4, <1>5 DEF IInv, TypeOK, Sessions
<1>7. OneEntryARow'
  BY <1>4, <1>6 DEF OneEntryARow
<1> QED
  BY <1>5, <1>6, <1>7, SessionHolds

\* An edit keeps the rows apart.
LEMMA EditHolds ==
    ASSUME IInv, NEW placed \in SUBSET Lessons, Edit(placed),
           \A p, q \in placed : p.row = q.row => p = q
    PROVE  IInv'
<1>1. session' \in Sessions /\ session'.l0 = placed
  BY DEF Edit, IInv, TypeOK, Sessions
<1>2. OneEntryARow'
  BY <1>1 DEF OneEntryARow
<1> QED
  BY <1>1, <1>2, SessionHolds DEF Edit

LEMMA MoveHolds ==
    ASSUME IInv, NEW p \in session.l0, NEW spot \in Spots, Move(p, spot)
    PROVE  IInv'
<1> DEFINE moved == [p EXCEPT !.spot = spot]
           placed == (session.l0 \ {p}) \cup {moved}
<1>1. session.l0 \in SUBSET Lessons
  BY DEF IInv, TypeOK, Sessions
<1>2. moved \in Lessons /\ moved.row = p.row
  BY <1>1 DEF Lessons
<1>3. placed \in SUBSET Lessons
  BY <1>1, <1>2
<1>4. \A x, y \in placed : x.row = y.row => x = y
  BY <1>2 DEF IInv, TypeOK
<1>5. Edit(placed)
  BY DEF Move
<1> HIDE DEF placed
<1> QED
  BY <1>3, <1>4, <1>5, EditHolds

LEMMA AssignHolds == ASSUME IInv, AssignSome PROVE IInv'
<1>1. PICK row \in RowsOf[session.draftBook] \ RowsIn(session.l0), spot \in Spots :
          Assign(row, spot)
  BY DEF AssignSome
<1> DEFINE lesson == [id |-> <<"source", row>>, book |-> session.draftBook,
                      row |-> row, spot |-> spot]
           placed == session.l0 \cup {lesson}
<1>2. session.draftBook \in Books /\ session.l0 \in SUBSET Lessons
  BY DEF AssignSome, IInv, TypeOK, Sessions
<1>3. lesson \in Lessons
  <2>1. row \in Rows
    BY <1>2 DEF Rows
  <2>2. <<"source", row>> \in Ids
    BY <2>1 DEF Ids
  <2> QED
    BY <1>2, <2>1, <2>2 DEF Lessons
<1>4. \A x \in session.l0 : x.row # lesson.row
  BY DEF RowsIn
<1>5. /\ placed \in SUBSET Lessons
      /\ \A x, y \in placed : x.row = y.row => x = y
  BY <1>2, <1>3, <1>4 DEF IInv, TypeOK
<1>6. Edit(placed)
  BY <1>1 DEF Assign
<1> HIDE DEF placed
<1> QED
  BY <1>5, <1>6, EditHolds

LEMMA UnassignHolds ==
    ASSUME IInv, NEW p \in session.l0, Unassign(p)
    PROVE  IInv'
<1> DEFINE placed == session.l0 \ {p}
<1>1. /\ placed \in SUBSET Lessons
      /\ \A x, y \in placed : x.row = y.row => x = y
  BY DEF IInv, TypeOK, Sessions
<1>2. Edit(placed)
  BY DEF Unassign
<1> HIDE DEF placed
<1> QED
  BY <1>1, <1>2, EditHolds

LEMMA StageHolds == ASSUME IInv, Stage PROVE IInv'
<1>1. session' \in Sessions /\ OneEntryARow'
  BY DEF Stage, IInv, TypeOK, Sessions, OneEntryARow
<1> QED
  BY <1>1, SessionHolds DEF Stage

LEMMA StartRoundHolds == ASSUME IInv, StartRound PROVE IInv'
<1>1. session' \in Sessions /\ OneEntryARow'
  BY EmptyIsTyped DEF StartRound, OneEntryARow, EmptySession
<1> QED
  BY <1>1, SessionHolds DEF StartRound

LEMMA FinalizeWriteHolds == ASSUME IInv, FinalizeWrite PROVE IInv'
<1>1. /\ IsIdle /\ ~session.committed /\ session.l0 = session.l1
      /\ bookings' = {b \in bookings : b.id \notin IdsIn(session.l0)} \cup session.l0
      /\ pending' = [kind |-> "finalize", before |-> bookings]
      /\ session' = session
  BY DEF FinalizeWrite, Sealed
<1>2. TypeOK'
  BY <1>1 DEF IInv, TypeOK, Sessions
<1>3. PendingInv'
  BY <1>1 DEF PendingInv, IsIdle, Idle
<1> QED
  BY <1>2, <1>3 DEF IInv

LEMMA FinalizeSaveHolds == ASSUME IInv, FinalizeSave PROVE IInv'
<1>1. session' \in Sessions /\ session'.l0 = session.l0
  BY DEF FinalizeSave, IInv, TypeOK, Sessions
<1> QED
  BY <1>1 DEF FinalizeSave, IInv, TypeOK, PendingInv, IsIdle, Idle

\* The bookings or the session of before, and no command any more.
LEMMA GivingUpHolds == ASSUME IInv, Rollback \/ Crash PROVE IInv'
BY DEF Rollback, Crash, IInv, TypeOK, PendingInv, IsIdle, Idle

LEMMA ResetHolds == ASSUME IInv, ResetWrite \/ ResetSave PROVE IInv'
<1>1. CASE ResetWrite
  BY <1>1 DEF ResetWrite, IInv, TypeOK, PendingInv, IsIdle, Idle
<1>2. CASE ResetSave
  BY <1>2, EmptyIsTyped DEF ResetSave, IInv, TypeOK, PendingInv, IsIdle, Idle, EmptySession
<1> QED
  BY <1>1, <1>2

LEMMA NextHolds == ASSUME IInv, [Next]_vars PROVE IInv'
<1>1. CASE UNCHANGED vars
  BY <1>1 DEF vars, IInv, TypeOK, PendingInv, IsIdle
<1> QED
  BY <1>1, ImportHolds, RunHolds, MoveHolds, AssignHolds, UnassignHolds, StageHolds,
     FinalizeWriteHolds, FinalizeSaveHolds, GivingUpHolds, StartRoundHolds, ResetHolds
  DEF Next

LEMMA InvariantHolds == Spec => []IInv
BY InitHolds, NextHolds, PTL DEF Spec

-----------------------------------------------------------------------------
(* Theorems. *)

\* Both files stay well formed; a draft has one entry a row.
THEOREM TypeCorrect == Spec => []TypeOK
<1>1. IInv => TypeOK
  BY DEF IInv
<1> QED
  BY <1>1, InvariantHolds, PTL

\* Only the second write of Finalize commits a round, and the lessons are booked then.
THEOREM CommitIsBooked == Spec => CommitIsBookedFirst
<1> DEFINE Booked == session'.committed /\ ~session.committed => session.l0 \subseteq bookings
<1>1. ASSUME IInv, Next
      PROVE  Booked
  <2>1. CASE FinalizeSave
    BY <1>1, <2>1 DEF FinalizeSave, IInv, PendingInv
  <2>2. session \in Sessions
    BY <1>1 DEF IInv, TypeOK
  <2>3. CASE \/ \E b \in Books : Import(b)
             \/ RunSome
             \/ \E p \in session.l0, spot \in Spots : Move(p, spot)
             \/ AssignSome
             \/ \E p \in session.l0 : Unassign(p)
             \/ Stage
    <3>1. session'.committed = session.committed
      BY <2>2, <2>3
      DEF Import, RunSome, Run, Move, AssignSome, Assign, Unassign, Edit, Stage, Sessions
    <3> QED
      BY <3>1
  <2>4. CASE FinalizeWrite \/ Rollback \/ Crash \/ ResetWrite
    BY <2>4 DEF FinalizeWrite, Rollback, Crash, ResetWrite
  <2>5. CASE StartRound \/ ResetSave
    BY <2>5 DEF StartRound, ResetSave, EmptySession
  <2> QED
    BY <1>1, <2>1, <2>3, <2>4, <2>5 DEF Next
<1>2. IInv /\ [Next]_vars => [Booked]_vars
  BY <1>1
<1> QED
  BY <1>2, InvariantHolds, PTL DEF Spec, CommitIsBookedFirst

\* A step that only drafts.
LEMMA DraftingImplements ==
    ASSUME IInv, IsIdle, UNCHANGED <<bookings, pending>>,
           session'.l1 \in SUBSET Lessons, session'.committed = session.committed
    PROVE  Contract!Redraft
BY DEF Contract!Redraft, IsIdle, Idle

LEMMA StepImplements ==
    ASSUME IInv, IInv', [Next]_vars
    PROVE  [Contract!Next]_Contract!files
<1>1. session \in Sessions /\ session' \in Sessions
  BY DEF IInv, TypeOK
<1>2. session'.l1 \in SUBSET Lessons
  BY <1>1 DEF Sessions
<1>3. ASSUME IsIdle, UNCHANGED <<bookings, pending>>, session'.committed = session.committed
      PROVE  Contract!Redraft
  BY <1>2, <1>3, DraftingImplements
<1>4. CASE \/ \E b \in Books : Import(b)
           \/ RunSome
           \/ \E p \in session.l0, spot \in Spots : Move(p, spot)
           \/ AssignSome
           \/ \E p \in session.l0 : Unassign(p)
           \/ Stage
  <2>1. IsIdle /\ UNCHANGED <<bookings, pending>> /\ session'.committed = session.committed
    BY <1>1, <1>4
    DEF Import, RunSome, Run, Move, AssignSome, Assign, Unassign, Edit, Stage, Sessions
  <2> QED
    BY <1>3, <2>1 DEF Contract!Next
<1>5. CASE FinalizeWrite
  <2>1. IsIdle /\ ~IsIdle' /\ pending'.before = bookings /\ session' = session
    BY <1>5 DEF FinalizeWrite, IsIdle, Idle
  <2> QED
    BY <2>1 DEF Contract!files
<1>6. CASE FinalizeSave
  <2>1. /\ ~IsIdle /\ IsIdle' /\ bookings' = bookings
        /\ session'.l1 = session.l1 /\ session'.committed /\ ~session.committed
        /\ session.l1 \subseteq bookings /\ bookings \subseteq pending.before \cup session.l1
    BY <1>1, <1>6 DEF FinalizeSave, IInv, PendingInv, IsIdle, Idle, Sessions
  <2>2. session'.committed = TRUE
    BY <1>6, <1>1 DEF FinalizeSave, Sessions
  <2>3. Contract!Book
    BY <2>1 DEF Contract!Book
  <2>4. Contract!Commit
    BY <2>1, <2>2, <2>3 DEF Contract!Commit
  <2> QED
    BY <2>4 DEF Contract!Next
<1>7. CASE Rollback
  <2>1. ~IsIdle /\ IsIdle' /\ bookings' = pending.before /\ session' = session
    BY <1>7 DEF Rollback, IsIdle
  <2> QED
    BY <2>1 DEF Contract!files
<1>8. CASE Crash
  <2>1. ~IsIdle /\ IsIdle' /\ bookings' = bookings /\ session' = session /\ Crashes
    BY <1>8 DEF Crash, IsIdle
  <2>2. pending.kind \in {"finalize", "reset"}
    BY <2>1 DEF IInv, PendingInv, TypeOK
  <2>3. CASE pending.kind = "finalize"
    <3>1. Contract!Book /\ ~session.committed
      BY <2>1, <2>3 DEF Contract!Book, IInv, PendingInv
    <3>2. Contract!UntoldCommit
      BY <2>1, <3>1 DEF Contract!UntoldCommit
    <3> QED
      BY <3>2 DEF Contract!Next
  <2>4. CASE pending.kind = "reset"
    <3>1. Contract!UntoldWipe
      BY <2>1, <2>4 DEF Contract!UntoldWipe, IInv, PendingInv
    <3> QED
      BY <3>1 DEF Contract!Next
  <2> QED
    BY <2>2, <2>3, <2>4
<1>9. CASE StartRound
  <2>1. /\ IsIdle /\ UNCHANGED <<bookings, pending>> /\ session.committed
        /\ session'.l1 = {} /\ session'.committed = FALSE
    BY <1>9 DEF StartRound, EmptySession
  <2>2. Contract!NextRound
    BY <2>1 DEF Contract!NextRound, IsIdle
  <2> QED
    BY <2>2 DEF Contract!Next
<1>10. CASE ResetWrite
  <2>1. IsIdle /\ ~IsIdle' /\ pending'.before = bookings /\ session' = session
    BY <1>10 DEF ResetWrite, IsIdle, Idle
  <2> QED
    BY <2>1 DEF Contract!files
<1>11. CASE ResetSave
  <2>1. /\ IsIdle' /\ bookings' = {} /\ session'.l1 = {} /\ session'.committed = FALSE
    BY <1>11 DEF ResetSave, EmptySession, IsIdle, IInv, PendingInv
  <2>2. Contract!Wipe
    BY <2>1 DEF Contract!Wipe
  <2> QED
    BY <2>2 DEF Contract!Next
<1>12. CASE UNCHANGED vars
  BY <1>12 DEF vars, Contract!files, IsIdle
<1> QED
  BY <1>4, <1>5, <1>6, <1>7, <1>8, <1>9, <1>10, <1>11, <1>12 DEF Next

\* The two files change like one: Finalize commits the staged plan whole or not at
\* all, and a stop between its writes never leaves half a plan.
THEOREM TwoFilesAreOne == Spec => ImplementsContract
<1>1. Init => Contract!Init
  BY DEF Init, Contract!Init, EmptySession, IsIdle
<1>2. IInv /\ IInv' /\ [Next]_vars => [Contract!Next]_Contract!files
  BY StepImplements
<1> QED
  BY <1>1, <1>2, InvariantHolds, PTL DEF Spec, ImplementsContract, Contract!Spec

-----------------------------------------------------------------------------
(* Whose lessons the files hold.  A lesson names the workbook it was made from    *)
(* and a row of it, and its id says as much; a draft is made from one workbook.   *)

Genuine(p) ==
    /\ p.row \in RowsOf[p.book]
    /\ p.id \in {<<"optimizer", p.book, p.row>>, <<"source", p.row>>}

OneWorkbook ==
    /\ \A p \in session.l0 \cup session.l1 : Genuine(p) /\ p.book = session.draftBook
    /\ session.book = NoBook => session.draftBook = NoBook

BookedGenuine == \A b \in bookings \cup pending.before : Genuine(b)

OriginInv == OneWorkbook /\ BookedGenuine

LEMMA OriginInit == Init => OriginInv
BY DEF Init, OriginInv, OneWorkbook, BookedGenuine, EmptySession, Idle

\* A command on the session alone.
LEMMA OriginSession ==
    ASSUME OriginInv, OneWorkbook', UNCHANGED <<bookings, pending>>
    PROVE  OriginInv'
BY DEF OriginInv, BookedGenuine, Genuine

\* An edit leaves lessons of the draft's workbook.
LEMMA OriginEdit ==
    ASSUME IInv, OriginInv, NEW placed \in SUBSET Lessons, Edit(placed),
           \A p \in placed : Genuine(p) /\ p.book = session.draftBook
    PROVE  OriginInv'
<1>1. /\ session'.l0 = placed /\ session'.l1 = session.l1
      /\ session'.book = session.book /\ session'.draftBook = session.draftBook
  BY DEF Edit, IInv, TypeOK, Sessions
<1>2. OneWorkbook'
  BY <1>1 DEF OriginInv, OneWorkbook, Genuine
<1> QED
  BY <1>2, OriginSession DEF Edit

LEMMA OriginRun == ASSUME IInv, OriginInv, RunSome PROVE OriginInv'
<1>0. PICK rows \in SUBSET RowsOf[session.book] : \E spotOf \in [rows -> Spots] : Run(spotOf)
  BY DEF RunSome
<1>1. PICK spotOf \in [rows -> Spots] : Run(spotOf)
  BY <1>0
<1> DEFINE placed == {[id |-> <<"optimizer", session.book, r>>, book |-> session.book,
                       row |-> r, spot |-> spotOf[r]] : r \in DOMAIN spotOf}
<1>2. \A p \in placed : Genuine(p) /\ p.book = session.book
  BY DEF Genuine
<1>3. /\ session' = [session EXCEPT !.draftBook = session.book, !.l0 = placed,
                                    !.l1 = placed, !.unsealed = FALSE, !.dirty = FALSE]
      /\ UNCHANGED <<bookings, pending>>
  BY <1>1 DEF Run
<1> HIDE DEF placed
<1>4. /\ session'.l0 = placed /\ session'.l1 = placed
      /\ session'.book = session.book /\ session'.draftBook = session.book
  BY <1>3 DEF IInv, TypeOK, Sessions
<1>5. OneWorkbook'
  BY <1>2, <1>4 DEF OneWorkbook, Genuine
<1> QED
  BY <1>3, <1>5, OriginSession

LEMMA OriginMove ==
    ASSUME IInv, OriginInv, NEW p \in session.l0, NEW spot \in Spots, Move(p, spot)
    PROVE  OriginInv'
<1> DEFINE moved == [p EXCEPT !.spot = spot]
           placed == (session.l0 \ {p}) \cup {moved}
<1>1. session.l0 \in SUBSET Lessons
  BY DEF IInv, TypeOK, Sessions
<1>2. moved \in Lessons /\ moved.row = p.row /\ moved.id = p.id /\ moved.book = p.book
  BY <1>1 DEF Lessons
<1>3. placed \in SUBSET Lessons /\ \A x \in placed : Genuine(x) /\ x.book = session.draftBook
  BY <1>1, <1>2 DEF OriginInv, OneWorkbook, Genuine
<1>4. Edit(placed)
  BY DEF Move
<1> HIDE DEF placed
<1> QED
  BY <1>3, <1>4, OriginEdit

LEMMA OriginAssign == ASSUME IInv, OriginInv, AssignSome PROVE OriginInv'
<1>1. PICK row \in RowsOf[session.draftBook] \ RowsIn(session.l0), spot \in Spots :
          Assign(row, spot)
  BY DEF AssignSome
<1> DEFINE lesson == [id |-> <<"source", row>>, book |-> session.draftBook,
                      row |-> row, spot |-> spot]
           placed == session.l0 \cup {lesson}
<1>2. session.draftBook \in Books /\ session.l0 \in SUBSET Lessons
  BY DEF AssignSome, IInv, TypeOK, Sessions
<1>3. row \in Rows
  BY <1>2 DEF Rows
<1>4. lesson \in Lessons
  BY <1>2, <1>3 DEF Lessons, Ids
<1>5. Genuine(lesson) /\ lesson.book = session.draftBook
  BY DEF Genuine
<1>6. placed \in SUBSET Lessons /\ \A x \in placed : Genuine(x) /\ x.book = session.draftBook
  BY <1>2, <1>4, <1>5 DEF OriginInv, OneWorkbook
<1>7. Edit(placed)
  BY <1>1 DEF Assign
<1> HIDE DEF placed
<1> QED
  BY <1>6, <1>7, OriginEdit

LEMMA OriginUnassign ==
    ASSUME IInv, OriginInv, NEW p \in session.l0, Unassign(p)
    PROVE  OriginInv'
<1> DEFINE placed == session.l0 \ {p}
<1>1. placed \in SUBSET Lessons /\ \A x \in placed : Genuine(x) /\ x.book = session.draftBook
  BY DEF IInv, TypeOK, Sessions, OriginInv, OneWorkbook
<1>2. Edit(placed)
  BY DEF Unassign
<1> HIDE DEF placed
<1> QED
  BY <1>1, <1>2, OriginEdit

LEMMA OriginHolds == ASSUME IInv, OriginInv, [Next]_vars PROVE OriginInv'
<1>0. session \in Sessions
  BY DEF IInv, TypeOK
<1>1. CASE \/ \E b \in Books : Import(b)
           \/ Stage
           \/ StartRound
  <2>1. OneWorkbook' /\ UNCHANGED <<bookings, pending>>
    <3>1. ASSUME NEW b \in Books, Import(b)
          PROVE  OneWorkbook' /\ UNCHANGED <<bookings, pending>>
      <4>1. b # NoBook
        BY BookAssumption
      <4> QED
        BY <1>0, <3>1, <4>1 DEF Import, OriginInv, OneWorkbook, Genuine, Sessions
    <3>2. CASE Stage
      BY <1>0, <3>2 DEF Stage, OriginInv, OneWorkbook, Genuine, Sessions
    <3>3. CASE StartRound
      BY <3>3 DEF StartRound, OneWorkbook, EmptySession
    <3> QED
      BY <1>1, <3>1, <3>2, <3>3
  <2> QED
    BY <2>1, OriginSession
<1>2. CASE FinalizeWrite
  BY <1>2 DEF FinalizeWrite, OriginInv, OneWorkbook, BookedGenuine, Genuine
<1>3. CASE FinalizeSave
  <2>1. /\ session'.l0 = session.l0 /\ session'.l1 = session.l1
        /\ session'.book = session.book /\ session'.draftBook = session.draftBook
        /\ bookings' = bookings /\ pending'.before = {}
    BY <1>0, <1>3 DEF FinalizeSave, Sessions, Idle
  <2> QED
    BY <2>1 DEF OriginInv, OneWorkbook, BookedGenuine, Genuine
<1>4. CASE Rollback \/ Crash
  BY <1>4 DEF Rollback, Crash, Idle, OriginInv, OneWorkbook, BookedGenuine, Genuine
<1>5. CASE ResetWrite
  BY <1>5 DEF ResetWrite, OriginInv, OneWorkbook, BookedGenuine, Genuine
<1>6. CASE ResetSave
  BY <1>6 DEF ResetSave, Idle, EmptySession, OriginInv, OneWorkbook, BookedGenuine, Genuine
<1>7. CASE UNCHANGED vars
  BY <1>7 DEF vars, OriginInv, OneWorkbook, BookedGenuine, Genuine
<1> QED
  BY <1>1, <1>2, <1>3, <1>4, <1>5, <1>6, <1>7,
     OriginRun, OriginMove, OriginAssign, OriginUnassign DEF Next

LEMMA OriginKept == Spec => []OriginInv
BY InvariantHolds, OriginInit, OriginHolds, PTL DEF Spec

\* A sealed draft that passes the gate is made from the imported workbook.
LEMMA FinalizesActive ==
    ASSUME IInv, OriginInv, FinalizeWrite, NEW p \in session.l0
    PROVE  p.book = session.book /\ session.book # NoBook
<1>1. p \in Lessons /\ p.book = session.draftBook
  BY DEF IInv, TypeOK, Sessions, OriginInv, OneWorkbook
<1>2. session.draftBook # NoBook
  BY <1>1, BookAssumption DEF Lessons
<1>3. session.book # NoBook
  BY <1>2 DEF OriginInv, OneWorkbook
<1> QED
  BY <1>1, <1>3 DEF FinalizeWrite, Gate

\* What Finalize adds to the bookings was made from the workbook that is imported at
\* that moment, whatever was imported over the draft before.
THEOREM ActiveIsCommitted == Spec => CommitsActiveWorkbook
<1> DEFINE Active == \A b \in bookings' \ bookings : pending.kind = "none" => b.book = session.book
<1>1. ASSUME IInv, OriginInv, Next
      PROVE  Active
  <2>1. CASE FinalizeWrite
    <3>1. \A b \in bookings' \ bookings : b \in session.l0
      BY <2>1 DEF FinalizeWrite
    <3> QED
      BY <1>1, <2>1, <3>1, FinalizesActive
  <2>2. CASE Rollback
    BY <1>1, <2>2 DEF Rollback, IInv, PendingInv
  <2>3. CASE bookings' \subseteq bookings
    BY <2>3
  <2>4. FinalizeWrite \/ Rollback \/ bookings' \subseteq bookings
    BY <1>1 DEF Next, Import, RunSome, Run, Move, AssignSome, Assign, Unassign, Edit, Stage,
                FinalizeSave, Crash, StartRound, ResetWrite, ResetSave
  <2> QED
    BY <2>1, <2>2, <2>3, <2>4
<1>2. IInv /\ OriginInv /\ [Next]_vars => [Active]_vars
  BY <1>1
<1> QED
  BY <1>2, InvariantHolds, OriginKept, PTL DEF Spec, CommitsActiveWorkbook

-----------------------------------------------------------------------------
(* Locks of other workbooks.  Row numbers may be shared: what is proved is that    *)
(* only a shared number can lose a lock, whatever the workbooks are.               *)

\* What a commit takes away of another workbook has the id of a placed lesson, so it
\* was assigned by hand to a row whose number the draft placed as well.
THEOREM LocksCarryForward == Spec => OnlyHandMadeAreReplaced
<1> DEFINE Carried ==
             FinalizeWrite =>
                \A b \in bookings \ bookings' :
                   \/ b.book = session.book
                   \/ b.id = <<"source", b.row>> /\ b.row \in RowsIn(session.l0)
<1>1. ASSUME IInv, OriginInv, FinalizeWrite, NEW b \in bookings \ bookings'
      PROVE  \/ b.book = session.book
             \/ b.id = <<"source", b.row>> /\ b.row \in RowsIn(session.l0)
  <2>1. b.id \in IdsIn(session.l0)
    BY <1>1 DEF FinalizeWrite
  <2>2. PICK p \in session.l0 : p.id = b.id
    BY <2>1 DEF IdsIn
  <2>3. p.book = session.book
    BY <1>1, FinalizesActive
  <2>4. Genuine(p) /\ Genuine(b)
    BY <1>1 DEF OriginInv, OneWorkbook, BookedGenuine
  <2>5. CASE p.id = <<"optimizer", p.book, p.row>>
    <3>1. b.id = <<"optimizer", b.book, b.row>>
      BY <2>2, <2>4, <2>5 DEF Genuine
    <3>2. <<"optimizer", b.book, b.row>>[2] = <<"optimizer", p.book, p.row>>[2]
      BY <2>2, <2>5, <3>1
    <3> QED
      BY <2>3, <3>2
  <2>6. CASE p.id = <<"source", p.row>>
    <3>1. b.id = <<"source", b.row>>
      BY <2>2, <2>4, <2>6 DEF Genuine
    <3>2. <<"source", b.row>>[2] = <<"source", p.row>>[2]
      BY <2>2, <2>6, <3>1
    <3> QED
      BY <3>1, <3>2 DEF RowsIn
  <2> QED
    BY <2>4, <2>5, <2>6 DEF Genuine
<1>2. IInv /\ OriginInv => Carried
  BY <1>1
<1> QED
  BY <1>2, InvariantHolds, OriginKept, PTL DEF OnlyHandMadeAreReplaced

\* The row of one lesson is a row of the other's workbook.
Shared(b, c) == b.row \in RowsOf[c.book] \/ c.row \in RowsOf[b.book]

SpotsApart(lessons) ==
    \A b, c \in lessons : b.book # c.book /\ b.spot = c.spot => Shared(b, c)

LEMMA FinalizeKeepsApart ==
    ASSUME IInv, OriginInv, FinalizeWrite, SpotsApart(bookings)
    PROVE  SpotsApart(bookings')
<1>1. bookings' = {b \in bookings : b.id \notin IdsIn(session.l0)} \cup session.l0
  BY DEF FinalizeWrite
<1>2. ASSUME NEW c \in session.l0, NEW b \in bookings, b.id \notin IdsIn(session.l0),
             b.book # c.book, b.spot = c.spot
      PROVE  b.row \in RowsOf[c.book]
  <2>1. c.book = session.book /\ session.book # NoBook
    BY FinalizesActive
  <2>2. SUFFICES ASSUME b.row \notin RowsOf[c.book]
                 PROVE  FALSE
    OBVIOUS
  <2>3. \A p \in session.l0 \cup session.l1 : p.row \in RowsOf[c.book]
    BY DEF OriginInv, OneWorkbook, Genuine
  <2>4. b \in Locks(session.l0)
    BY <2>2, <2>3 DEF Locks, RowsIn
  <2>5. ~Clash(c, b)
    BY <2>1, <2>4 DEF FinalizeWrite, Gate
  <2>6. b.id # c.id
    BY <1>2 DEF IdsIn
  <2> QED
    BY <1>2, <2>5, <2>6 DEF Clash
<1>3. \A p, q \in session.l0 : p.book = q.book
  BY FinalizesActive
<1>4. ASSUME NEW b \in bookings', NEW c \in bookings', b.book # c.book,
             b.spot = c.spot
      PROVE  Shared(b, c)
  <2>1. CASE b \in session.l0 /\ c \in session.l0
    BY <1>3, <1>4, <2>1
  <2>2. CASE b \in session.l0 /\ c \notin session.l0
    <3>1. c \in bookings /\ c.id \notin IdsIn(session.l0)
      BY <1>1, <2>2
    <3> QED
      BY <1>2, <1>4, <2>2, <3>1 DEF Shared
  <2>3. CASE b \notin session.l0 /\ c \in session.l0
    <3>1. b \in bookings /\ b.id \notin IdsIn(session.l0)
      BY <1>1, <2>3
    <3> QED
      BY <1>2, <1>4, <2>3, <3>1 DEF Shared
  <2>4. CASE b \notin session.l0 /\ c \notin session.l0
    BY <1>1, <1>4, <2>4 DEF SpotsApart
  <2> QED
    BY <2>1, <2>2, <2>3, <2>4
<1> QED
  BY <1>4 DEF SpotsApart

ApartInv == SpotsApart(bookings) /\ SpotsApart(pending.before)

LEMMA ApartHolds ==
    ASSUME IInv, OriginInv, ApartInv, [Next]_vars
    PROVE  ApartInv'
<1>1. CASE FinalizeWrite
  <2>1. SpotsApart(bookings') /\ pending'.before = bookings
    BY <1>1, FinalizeKeepsApart DEF ApartInv, FinalizeWrite
  <2> QED
    BY <2>1 DEF ApartInv, SpotsApart
<1>2. CASE Rollback
  BY <1>2 DEF Rollback, ApartInv, SpotsApart, Idle
<1>3. CASE ResetWrite
  BY <1>3 DEF ResetWrite, ApartInv, SpotsApart
<1>4. CASE FinalizeSave \/ Crash \/ ResetSave
  BY <1>4 DEF FinalizeSave, Crash, ResetSave, ApartInv, SpotsApart, Idle
<1>5. CASE UNCHANGED <<bookings, pending>>
  BY <1>5 DEF ApartInv, SpotsApart
<1>6. \/ FinalizeWrite \/ Rollback \/ ResetWrite \/ FinalizeSave \/ Crash \/ ResetSave
      \/ UNCHANGED <<bookings, pending>>
  BY DEF Next, vars, Import, RunSome, Run, Move, AssignSome, Assign, Unassign, Edit, Stage,
         StartRound
<1> QED
  BY <1>1, <1>2, <1>3, <1>4, <1>5, <1>6

\* Whatever numbers the workbooks share, and through any crashes, rollbacks and resets,
\* lessons of two workbooks are in one spot only if the row of one is a row number of
\* the other's workbook: a lock that no row of the draft's workbook hides is kept by
\* the gate.
THEOREM SpotsAreBookedOnce == Spec => []OnlySharedRowsCollide
<1>1. Init => ApartInv
  BY DEF Init, ApartInv, SpotsApart, Idle
<1>2. IInv /\ OriginInv /\ ApartInv /\ [Next]_vars => ApartInv'
  BY ApartHolds
<1>3. ApartInv => OnlySharedRowsCollide
  BY DEF ApartInv, SpotsApart, Shared, OnlySharedRowsCollide
<1> QED
  BY <1>1, <1>2, <1>3, InvariantHolds, OriginKept, PTL DEF Spec
=============================================================================
