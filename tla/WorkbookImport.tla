--------------------------- MODULE WorkbookImport ---------------------------
(***************************************************************************)
(* Workbook import: previews in a small store, an apply that is checked    *)
(* against the workspace the preview was made in, the master data and the  *)
(* session it writes file by file, and the journal that takes the writes   *)
(* of a failed two-sheet import back.  Another process writes files in     *)
(* between, saves fail over to shadow copies, the application stops.       *)
(***************************************************************************)
EXTENDS DataFiles, SequencesExt

CONSTANTS
    Masters,      \* rooms.json, students.json, ...
    Untracked,    \* the master files the workspace version leaves out
    Session,      \* session_cache.json
    Uploads,      \* the workbooks that are uploaded, as a whole or for one slot
    NoSheet,      \* the sheet of a role a workbook does not have
    Clashes,      \* <<weekly, studio>> sheets that put a teacher in two places
    MaxItems,     \* ImportPreviewStore.MAX_ITEMS
    MaxPreviews,  \* bound: previews
    MaxOutside,   \* bound: writes of other processes
    MaxFaults     \* bound: failing writes and stops

ASSUME ImportAssumption ==
    /\ MaxItems \in Nat \ {0} /\ {MaxPreviews, MaxOutside, MaxFaults} \subseteq Nat
    /\ Untracked \subseteq Masters /\ Session \notin Masters
    /\ \A u \in Uploads : /\ u.book.good \cup u.book.bad \subseteq Masters
                        /\ u.kind \in {"workbook", "weekly", "studio"}
    /\ IsFiniteSet(Masters) /\ <<NoSheet, NoSheet>> \notin Clashes
    /\ Missing \notin {"sheet", "outside"} \X Nat

VARIABLES
    file,         \* the copies of every data file
    clock,        \* the last modification time given out
    store,        \* the previews, oldest first
    job,          \* the apply request at work
    answer,       \* the last answer to an apply request
    previews, outside, faults,  \* how many there were
    torn          \* how an apply was cut short: "stop", "rollback", "outside" 

disk == <<file, clock>>
counts == <<previews, outside, faults>>
vars == <<disk, store, job, answer, counts, torn>>

Files == Masters \cup {Session}
Slots(kind) == IF kind = "workbook" THEN <<"weekly", "studio">> ELSE <<kind>>
NoAnswer == [id |-> 0, what |-> "none"]
NoJob == [step |-> "none"]

Version == [f \in Files \ Untracked |-> Stamp(file[f])]
Rows == Read(file[Session])

-----------------------------------------------------------------------------
(* Parsing.  A workbook is its weekly and its studio sheet and the master    *)
(* sheets from which records can and cannot be inferred.                     *)

\* A sheet of the picked role with the required columns; one sheet per role.
Schedulable(b, kind) == \A n \in DOMAIN Slots(kind) : b[Slots(kind)[n]] # NoSheet

\* build_workbook_import_preview and build_import_preview: the new sheet is audited
\* with its counterpart, of the same workbook or of the session.
Audited(b, kind) ==
    CASE kind = "workbook" -> <<b.weekly, b.studio>>
      [] kind = "weekly"   -> <<b.weekly, Rows.studio>>
      [] kind = "studio"   -> <<Rows.weekly, b.studio>>

\* What an apply has to do, in order: for each slot every master sheet of the
\* workbook, then the session.
Todo(entry) ==
    LET masters == SetToSeq(entry.book.good \cup entry.book.bad)
        Of(slot) == [n \in 1..(Len(masters) + 1) |->
                        [slot |-> slot,
                         file |-> IF n <= Len(masters) THEN masters[n] ELSE Session]]
    IN  IF entry.kind = "workbook" THEN Of("weekly") \o Of("studio") ELSE Of(entry.kind)

-----------------------------------------------------------------------------
(* Previews.                                                                 *)

\* Mutant of Put: no preview gives way.
PutNoEviction(entry) == Append(store, entry)

Put(entry) ==
    LET all == Append(store, entry)
    IN  IF Len(all) > MaxItems THEN Tail(all) ELSE all

\* read_workspace_snapshot holds the mutation lock, so no apply is at work.  A whole
\* workbook may lack a sheet: its preview lists what blocks it.  What a reader saw
\* then is history, for the properties.
Preview(b, kind) ==
    /\ job = NoJob
    /\ previews < MaxPreviews
    /\ previews' = previews + 1
    /\ kind # "workbook" => Schedulable(b, kind)
    /\ store' = Put([id |-> previews + 1, book |-> b, kind |-> kind, version |-> Version,
                     conflict |-> Audited(b, kind) \in Clashes,
                     seen |-> [f \in Files |-> Read(file[f])]])
    /\ UNCHANGED <<disk, job, answer, outside, faults, torn>>

-----------------------------------------------------------------------------
(* An apply request holds the store's lock and the mutation lock.            *)

\* Mutant of Current: only the version the client names is checked, and it may have
\* reloaded the workspace.
CurrentForClient(entry) == TRUE

\* The version of the request and that of the preview are both the current one.
Current(entry) == entry.version = Version

Begin(entry) ==
    /\ job = NoJob
    /\ Current(entry)
    /\ ~entry.conflict
    /\ Schedulable(entry.book, entry.kind)
    /\ job' = [step |-> "open", entry |-> entry, at |-> 1, before |-> file[Session],
               rows |-> Missing, journal |-> <<>>, failed |-> {}, error |-> "none",
               conflicts |-> {}]
    /\ answer' = NoAnswer
    /\ UNCHANGED <<disk, store, counts, torn>>

Entry == job.entry
Atomic == Entry.kind = "workbook"
Target == Todo(Entry)[job.at]
AtMaster == Target.file # Session

\* The session is read with its revision, then the copies are captured.
Open ==
    /\ job.step = "open"
    /\ job' = [job EXCEPT !.step = "write", !.before = file[Target.file], !.rows = Rows]
    /\ UNCHANGED <<disk, store, answer, counts, torn>>

\* The rows of the slot replace those of the session that was read.
Uploaded == [job.rows EXCEPT ![Target.slot] = Entry.book[Target.slot]]
Expected == IF AtMaster THEN <<"sheet", Entry.id>> ELSE Uploaded

\* Mutant of Unchanged: the save does not compare revisions.
UnchangedBlind == TRUE

\* save_session compares the revision; save_data does not.
Unchanged == AtMaster \/ Stamp(file[Session]) = Stamp(job.before)

\* infer_room_records and its like raise when a sheet is empty or has no such column.
Inferable(f) == f \notin Entry.book.bad

Fault(n) == faults + n <= MaxFaults /\ faults' = faults + n

\* The write succeeds at some copy, or at none; an error may follow a good write.
Write ==
    /\ job.step = "write"
    /\ AtMaster => Inferable(Target.file)
    /\ Unchanged
    /\ clock' = clock + 1
    /\ \E copies \in Saves(file[Target.file], Expected, clock + 1), late \in BOOLEAN :
          LET none == copies = file[Target.file]
              primary == copies[0] # file[Target.file][0]
          IN  /\ late => ~none
              /\ Fault((IF primary THEN 0 ELSE 1) + (IF late THEN 1 ELSE 0))
              /\ file' = [file EXCEPT ![Target.file] = copies]
              /\ job' = [job EXCEPT !.step = "close", !.error = IF late \/ none THEN "raised" ELSE "none"]
    /\ UNCHANGED <<store, answer, previews, outside, torn>>

\* The save outcome is "conflict", or no records can be inferred from the sheet.
Refuse ==
    /\ job.step = "write"
    /\ ~Unchanged \/ (AtMaster /\ ~Inferable(Target.file))
    /\ job' = [job EXCEPT !.step = "close",
                          !.error = IF AtMaster THEN "raised" ELSE "conflict"]
    /\ UNCHANGED <<disk, store, answer, counts, torn>>

\* Mutant of Owned: what changed while the write succeeded is taken for its own.
OwnedIfSucceeded(copy) == job.error = "none"

\* _json_write_ownership: the copy holds exactly what was to be written.
Owned(copy) == copy.text = Expected

Records ==
    LET f == Target.file
        changed == {p \in Paths : job.before[p] # file[f][p] /\ Owned(file[f][p])}
    IN  [n \in 1..Cardinality(changed) |->
            LET p == SetToSeq(changed)[n]
            IN  [file |-> f, path |-> p, before |-> job.before[p], after |-> file[f][p]]]

\* What went wrong with a master sheet: its error, or the read-back differs.
Noted ==
    IF AtMaster /\ (job.error # "none" \/ Read(file[Target.file]) # Expected)
      THEN job.failed \cup {Target.file} ELSE job.failed

\* Mutant of Failing: a failed master sheet is only noted.
FailingLenient == ~AtMaster /\ job.error # "none"

\* An error of a session save is raised.  A two-sheet import also raises a conflict
\* and, after the last master sheet, what went wrong with any of them; a one-sheet
\* import goes on.
Failing ==
    IF AtMaster
      THEN Atomic /\ Noted # {} /\ Todo(Entry)[job.at + 1].file = Session
      ELSE job.error = "raised" \/ (Atomic /\ job.error = "conflict")

\* The copies are captured again; then the next file, the end, or the rollback.
Close(next) ==
    /\ job' = [job EXCEPT !.step = next, !.error = "none",
                          !.journal = IF Atomic THEN @ \o Records ELSE @,
                          !.failed = IF AtMaster THEN Noted ELSE {},
                          !.at = IF next = "open" THEN @ + 1 ELSE @]
    /\ UNCHANGED <<disk, store, answer, counts, torn>>

Advance == job.step = "close" /\ ~Failing /\ Close(IF job.at < Len(Todo(Entry)) THEN "open" ELSE "done")
Fail == job.step = "close" /\ Failing /\ Close("undo")

\* The result is returned and the preview consumed.
Applied ==
    /\ job.step = "done"
    /\ \E n \in DOMAIN store : store[n].id = Entry.id /\ store' = RemoveAt(store, n)
    /\ answer' = [id |-> Entry.id, what |-> "applied"]
    /\ job' = NoJob
    /\ UNCHANGED <<disk, counts, torn>>

-----------------------------------------------------------------------------
(* Compensation: the records in reverse order.                               *)

Record == Last(job.journal)
Place(r) == <<r.file, r.path>>

Mine(r) == Place(r) \notin job.conflicts /\ file[r.file][r.path] = r.after

\* A copy that somebody else has written since stays, and so do its earlier records.
Compare ==
    /\ job.step = "undo"
    /\ job.journal # <<>>
    /\ job' = IF Mine(Record) THEN [job EXCEPT !.step = "restore"]
              ELSE [job EXCEPT !.journal = Front(@), !.conflicts = @ \cup {Place(Record)}]
    /\ UNCHANGED <<disk, store, answer, counts, torn>>

\* The comparison held no lock that another process knows, and is not repeated.
Restore ==
    /\ job.step = "restore"
    /\ file' = [file EXCEPT ![Record.file][Record.path] = Record.before]
    /\ job' = [job EXCEPT !.step = "undo", !.journal = Front(@)]
    /\ UNCHANGED <<clock, store, answer, counts, torn>>

\* Mutant of Verdict: only the journal's conflicts count.
VerdictOfJournal == IF job.conflicts # {} THEN "changed" ELSE "failed"

\* "failed" promises that nothing was applied; the preview stays.  A one-sheet import
\* has no journal and no such answer.
Verdict ==
    IF ~Atomic THEN "error"
    ELSE IF job.conflicts # {} \/ Entry.version # Version THEN "changed" ELSE "failed"

Failed ==
    /\ job.step = "undo"
    /\ job.journal = <<>>
    /\ answer' = [id |-> Entry.id, what |-> Verdict]
    /\ job' = NoJob
    /\ UNCHANGED <<disk, store, counts, torn>>

\* A copy cannot be restored.  The answer has the code of "failed"; only its reason
\* says "rollback also failed".
RestoreFails ==
    /\ job.step = "restore"
    /\ Fault(1)
    /\ answer' = [id |-> Entry.id, what |-> "half done"]
    /\ torn' = torn \cup {"rollback"}
    /\ job' = NoJob
    /\ UNCHANGED <<disk, store, previews, outside>>

-----------------------------------------------------------------------------
\* Another process writes a master file, or saves the session it has just read.
Outside(f) ==
    /\ outside < MaxOutside
    /\ outside' = outside + 1
    /\ clock' = clock + 1
    /\ file' = [file EXCEPT ![f] =
                  [@ EXCEPT ![0] = [text |-> IF f = Session
                                               THEN [Rows EXCEPT !.mark = outside + 1]
                                               ELSE <<"outside", outside + 1>>,
                                    time |-> clock + 1]]]
    /\ torn' = IF f = Session /\ job # NoJob THEN torn \cup {"outside"} ELSE torn
    /\ UNCHANGED <<store, job, answer, previews, faults>>

\* The application stops; the previews and the journal are gone with it.
Stop ==
    /\ Fault(1)
    /\ job' = NoJob
    /\ store' = <<>>
    /\ torn' = IF job # NoJob THEN torn \cup {"stop"} ELSE torn
    /\ UNCHANGED <<disk, answer, previews, outside>>

Init ==
    /\ file = [f \in Files |->
                 [p \in Paths |->
                    IF p # 0 THEN Absent
                    ELSE [text |-> IF f = Session
                                     THEN [weekly |-> NoSheet, studio |-> NoSheet, mark |-> 0]
                                     ELSE <<"sheet", 0>>,
                          time |-> 1]]]
    /\ clock = 1
    /\ store = <<>>
    /\ job = NoJob
    /\ answer = NoAnswer
    /\ previews = 0 /\ outside = 0 /\ faults = 0
    /\ torn = {}

Next ==
    \/ \E u \in Uploads : Preview(u.book, u.kind)
    \/ \E entry \in ToSet(store) : Begin(entry)
    \/ Open \/ Write \/ Refuse \/ Advance \/ Fail \/ Applied
    \/ Compare \/ Restore \/ RestoreFails \/ Failed
    \/ \E f \in Files : Outside(f)
    \/ Stop

Spec == Init /\ [][Next]_vars

-----------------------------------------------------------------------------
(* Properties. *)

\* Previews are few and apart, the copies are well formed.
TypeOK ==
    /\ Len(store) <= MaxItems
    /\ \A m, n \in DOMAIN store : m < n => store[m].id < store[n].id
    /\ \A f \in Files, p \in Paths : file[f][p].time \in 0..clock
    /\ job # NoJob => \E n \in DOMAIN store : store[n] = Entry

\* The weekly and the studio rows of the session never put a teacher in two places:
\* they were audited together, however many previews were open when one of the
\* sheets changed.  Claimed as long as no import was stopped, no rollback failed and
\* no other process saved the session while an import was at work.
SheetsWereAudited == job = NoJob /\ torn = {} => <<Rows.weekly, Rows.studio>> \notin Clashes

\* A workbook that is answered as applied is there as a whole: every master sheet and
\* both sets of rows are what a read returns, unless another process wrote since.
AppliedIsWhole ==
    [][answer' # answer /\ answer'.what = "applied" /\ Atomic =>
          /\ \A f \in Entry.book.good \cup Entry.book.bad :
                Read(file[f]) = <<"sheet", Entry.id>> \/ Read(file[f])[1] = "outside"
          /\ Rows.weekly = Entry.book.weekly /\ Rows.studio = Entry.book.studio]_vars

\* An import that failed leaves no master sheet of its own in any copy, whatever
\* failed over to a shadow and whatever error followed a good write, unless a
\* rollback failed before.
FailedLeavesNothing ==
    \A f \in Masters, p \in Paths :
       answer.what \in {"failed", "changed"} /\ "rollback" \notin torn =>
          file[f][p].text # <<"sheet", answer.id>>

\* An import that is answered as not applied, neither with a changed workspace nor with
\* a rollback that failed, leaves every tracked file reading as it did when the preview
\* was made.
FailedChangedNothing ==
    [][answer' # answer /\ answer'.what = "failed" =>
          \A f \in Files \ Untracked : Read(file[f]) = Entry.seen[f]]_vars

\* A copy that changed after the rollback had compared it.
Overtaken == job.step = "restore" /\ file[Record.file][Record.path] # Record.after

\* A session saved by another process is not undone by an import: no save takes the
\* session back behind it, nor does a rollback, except where the other save fell
\* between the comparison and the rewriting of the very copy it went to.
OutsideSaveStays ==
    [][\/ Read(file'[Session]).mark >= Read(file[Session]).mark
       \/ Overtaken /\ Place(Record) = <<Session, 0>>]_vars
=============================================================================
