# The lesson scheduler, specified

A TLA+ development of the scheduling core of this repository: the Step 4 draft
with its undo history and staged snapshot, the rounds that commit drafts to the
calendar, the session file they are kept in, the optimizer that runs in the
background and the room allocator inside it, the reconciliation assistant, and
the workbook import. TLC checks small instances of eight components; TLAPS
proves safety properties of all of them for every instance.

Paths below are relative to the repository (`modules/...`). The file
`PROJECT.json` maps every definition to the lines it models.

## The system

A convener imports a workbook of lesson requests, sets rules, lets an optimizer
place the lessons in rooms, repairs what is left by hand or with the assistant,
and commits the result to a calendar. One Python process (FastAPI) keeps all
state in JSON files; a React client sends commands with the workspace version it
saw last.

| Part | State it keeps | Operations | Hard behaviour |
|---|---|---|---|
| Step 4 draft (`step4_service`, `step4_resolution_actions`, the two primitives files, `stage_service`, `validation_authority`) | L0 (assigned and unassigned lessons), L1 (staged snapshot), history, redo stack, `unsealed`, `dirty` | move, assign, unassign, unassign_block, unlock, undo, redo, stage, finalize | long command sequences; a bounded history; two guards on the same fact (seal, staleness); snapshot and restore on failure |
| Candidate verification (`reconciliation_checker`, `conflict_validator`, `instructor_time_integrity`, `finalize_validation`) | none | `verify_candidate_state` on every persisted mutation | which other events count as occupied |
| Teacher confirmation (`schedule_change_policy`) and pins | keys on each event | attached on a move or assignment, merged by undo | values that survive edits they were not made for |
| Rounds (`workflow_service`, `session_state`, `api/services/scheduler`) | `round_committed`, committed events in `bookings.json` | import, optimizer run, finalize, start the next round, reset | two files, written one after the other; flags that outlive their draft; row-number identities |
| Session store (`session_manager`, `atomic_json_io`) | `session_cache.json` and shadow copies, file times | load with revision, guarded save, clear | lost updates, failing paths, torn files, stops |
| Optimizer operations (`scheduler_optimizer`, `operations`, `optimizer_service`, `workspace`) | operation registry, executor queue | request, run, poll | computes outside the mutation lock; version guards; bounded registry; restart |
| Room allocator (`optimizer*.py`) | a board of placements, an unassigned list, linked blocks | place weekly groups, link them, place studio requests, relocate or evict a block | a list of conflicts that goes stale while blocks move; protection and priority through several steps |
| Reconciliation assistant (`pi_reconciliation`, `reconciliation_investigation`, `resolution_package`, `pi_optimizer_intervention`) | capabilities and investigations in memory, plans in the session | investigate, tool calls, submit, close at a bound, persist, decide, apply | an external agent; deadlines; a budget; edits and reruns meanwhile; bounded memory |
| Import (`scheduler_imports`, `imports`, `upload_workbook_service`) | preview store, workbook frames, master files | preview, apply, roll back | stale previews; several files written, compensated on failure; other writers |
| Bookings and data files (`data_loader`) | JSON files and shadows | load, save | fallback copies |
| Lectures, rules (`lecture_service`, `scheduler_configuration`) | lectures in `bookings.json`, `scheduling_rules.json` | put | change under a live draft |
| Learning records | `optimizer_learning_records` | write after a run and after finalize, recover | written after the save it describes |
| Exports, info hub, parsing, HTTP shell, frontend, native shell, legacy solver | little or none that scheduling depends on | | |

How they interact. Every command that changes a file runs under one
`mutation_lock` of the process, checks the version of the tracked files
(`require_current_version`), restores the session with its revision, changes the
copy, and saves it with that revision. Two workers are the exception: the
optimizer and the assistant compute outside the lock on one executor thread, and
take the lock for the last check and the save. Finalize, Reset and an import write several
files. Several processes may share the files: between them only the file lock
and the revision count.

What makes each part correct, in one line each:

- draft: no occurrence is lost or doubled, undo and redo are exact, only what was
  staged and is free of conflicts is committed;
- confirmation and pins: a lesson at another time than requested was confirmed
  and is pinned;
- rounds: commits carry forward, never double-book, and belong to the imported
  workbook, also when the process stops between the two files;
- session store: one session, no unseen overwrite, no older copy comes back;
- optimizer operations: a result is saved only over what it was computed from,
  never over edits nobody agreed to drop, and every operation is answered;
- allocator: no room is used twice, no request is lost or handed over twice,
  blocks move whole, pins stay, and nobody yields to a weaker request;
- assistant: a brief is true to what was simulated, a plan belongs to its run, an
  apply leaves exactly the schedule that was shown, and the draft stays sound;
- import: all of the workbook or nothing that the import still owns, and only
  sheets that were audited together.

## Modules

| Module | Models | Shape |
|---|---|---|
| `DraftLedger` | L0, L1, history, redo, seal, the gate, bookings and lectures of one round, for many lessons | one action per HTTP command |
| `ThreeLayers` | the contract of L0, L1, L2 in terms of placements only | abstract; `DraftLedger` implements it |
| `LessonCard` | one lesson with day, hour, pin and confirmation: what `DraftLedger` abstracts | one action per command |
| `RoundLifecycle` | session file and bookings file over many rounds and workbooks, with the two writes of Finalize and Reset as two steps | one action per command or write |
| `RoundContract` | rounds with an atomic commit that a stop may leave untold | abstract; `RoundLifecycle` implements it |
| `SessionStore` | the primary file, its shadows, times, revisions, faults | one action per file step |
| `SessionRegister` | one optimistic register | abstract; `SessionStore` implements it |
| `OptimizerOperation` | request, registry, queue, worker, guards, lock, other requests | one action per step between which another thread may run |
| `RoomAllocation` | the allocator on one weekday: pins, weekly groups, linked blocks, studio requests, preemption | one action per group, request and conflict |
| `PackageSandbox` | what a package of placements does to a draft, and its verdict | operators |
| `Reconciliation` | investigations, the worker, Pi's calls, briefs, plans, the operator, edits and reruns | EXTENDS `PackageSandbox`; one action per request, call or step of the worker |
| `DataFiles` | copies of one data file: what is read, what a save leaves | operators |
| `WorkbookImport` | previews, applies, master files, session, journal, rollback, another process | EXTENDS `DataFiles`; one action per file step |
| `..._proofs` | TLAPS proofs about `DraftLedger`, `LessonCard`, `RoundLifecycle`, `SessionStore`, `OptimizerOperation`, `RoomAllocation`, `Reconciliation`, `WorkbookImport` | see *Proofs* |
| `MC...` | constants of the instances | |

### DraftLedger

A lesson is a source request id; a slot is an event (id, lesson, room, time).
Times are weekly intervals that either coincide or do not overlap. Lists are
sets: their order is display, and `RecordsFindTheirTargets` shows that no command
appends what is there. Each command of `execute_draft_command`
(`api/services/scheduler.py`) is one action because it holds the mutation lock from
the version check to the answer; a command that fails restores its snapshot
(`_restore_mutation_state`) and is a stuttering step. `Persist` is
`_persist_mutation`: gate, dirty, trim, save. `Valid` is the verdict of
`verify_candidate_state`; `Locks` is what `merge_committed_bookings_into_l1` and
`build_occupancy_assignments` leave of the committed events; `FinalizeFree` is
the last look of `collect_finalize_conflicts`. `Optimize` places lessons at their
requested time or not at all and leaves the room open: it is any candidate the
allocator could produce and the gate accept (`RoomAllocation` says which).

Left out: studio lessons (several dates of one row), rule edits under the draft,
the single interventions of the resolution tools, and the order of lists. A
blocked weekly row (malformed cells) never enters the draft as a slot.

### LessonCard

`DraftLedger` knows whether an instructor may change times; `LessonCard` knows
what the code compares to decide that a time *is* changed. `Baseline` is
`build_context`: the day of the workbook row with the start the entry last held.
`Merged` is `target.update(prev)`: absent keys keep their live value.
`Rerun` covers fresh and pin-preserving runs and pins that no longer fit.

### RoundLifecycle

`session` is what `build_scheduler_session_snapshot` saves, cut down to the
workbook version, the version the draft was generated from, the two layers and
three flags. `FinalizeWrite`/`FinalizeSave`/`Rollback` are the two halves of
`commit_current_round` and its `except` branch; `Crash` stops the process, or
loses the rollback, between them. `Rows` are source request ids, which
`weekly_source_request_id` makes from the row number alone, so `RowsOf` may
overlap for different workbooks. An optimizer id carries the student, day and
hour; the model takes the students of two workbooks to be different.

The contract has five steps for the calendar: `Commit`, `NextRound`, `Wipe`, and
what a stop leaves: `UntoldCommit` (the plan is booked, the session does not
know) and `UntoldWipe`. Everything else must be a redraft.

### SessionStore

Candidate paths are numbers, the primary is 0. `Write` is `os.replace` of a
complete file; `WriteFails` moves on to the next shadow, as `save_session` does;
`Tear` is the in-place write of `atomic_write_json(preserve_existing=False)`
before it is complete. Everything between taking and releasing the file lock is
one holder's steps. File times are strictly increasing: two writes within one
tick of the clock are outside the model. `faults` is chosen at the start and
never changes, so that one run covers a store with and without torn files; the
register is claimed for the behaviours without (`Orderly`).

### OptimizerOperation

The workspace is two revision numbers: the session file, and all other tracked
files; their pair is the version (`compute_workspace_version` digests the
content). Other requests are atomic (`ChangeSession`, `ChangeFiles`): they hold
the mutation lock throughout. The request is two steps, as nothing stops another
thread between its version check and its second read of the session. The worker
is a step per read, guard, lock and save. Assistant runs share the executor; a
run that waits behind one is a queued operation here.

### RoomAllocation

One weekday. A request holds one hour or, when it starts at half past, the two
hours it touches; a booking of that weekday excludes like a weekly lesson, so a
room and its hours decide every conflict. Rows that cannot be read, bookings and
pins are chosen at the start. `PlaceGroup` takes the weekly groups in the order
of `_block_priority`; `Link` builds the blocks that studio requests will meet
from what *is* placed, pins included. `PlaceStudio` starts with the preferred
room and opens a contest when it is taken; `Resolve` then treats one conflict at a
time: `Deny` (protected, or the food chain forbids), `Move` (another room takes
the whole block), or `Evict`. The list of conflicts is the one of the start, as
in `resolve_grandmaster_conflicts`. Scores keep what orders rooms: wishes,
favourites, and the priority of a room's type for an instrument.

Left out: a series of several dates (a date is only an order), reasons and logs,
the teacher's own availability, a pin that was moved onto the hour of an unpinned
row of the same teacher, and `optimizer_path.py`, which nothing calls.

### PackageSandbox and Reconciliation

A package maps lessons to places or to *withdraw*. `After` applies it whole;
`Works` is the verdict of `evaluate_reconciliation_package`; `Permitted` the
operator's constraints. An entry without a room keeps the hour it last held and its
confirmation (`Entries`, `signed`), and that hour is what `Retimed` compares with:
`build_context` reads the start of the entry and the day of its row, and the
sandbox has one day. A lesson that was moved with a confirmation, withdrawn and
placed again at the same hour is therefore not asked about again, in the code and
here; `DraftSound` says that it was confirmed then. An investigation is a record
with what was simulated, how many calls were made, the second it was created in
and the brief. `Stored` sorts plans by that second and keeps their order within one,
as the stable sort of `_persist_private_investigation` does: of several plans of one
second those saved first stay, and a new one may be pushed out by the save that
stores it. `NewestPlanStays` claims only that a plan never gives way to one of an
earlier second. Pi is external: while its capability lives it
may make any call at any time, also after the brief, also while the worker is
already closing. The worker's steps are the ones of
`run_pi_reconciliation_operation` with every `except` branch: the RPC ends or
fails, the server closes at the bound, the record is saved, the save or the
ledger raises, the handler saves again and may raise before or after its plan is
stored. `Edit`, `RunOptimizer`, `Clear` and
`ChangeFiles` are the other requests; `ApplySome` applies an option or what the
options share.

Left out: room locks, the pins a rerun keeps (`LessonCard` has them: an
optimizer run here is a fresh one), the piano leverage package, metrics other than
those that decide dominance here, and the text of a brief. A teacher-day block is the
package of its lessons.

### DataFiles and WorkbookImport

A file is its copies with their times; `Saves` is every outcome of
`_save_data_with_outcome`. An upload is its weekly and its studio sheet, and the
master sheets that records can and cannot be inferred from. An apply is checked
(`Current`: the version of the request, and the version the preview was made
in), then writes the master files and the session in the order of
`process_scheduler_upload`, each as open, write, close; `Owned` and `Records`
are the journal of `_WorkspaceMutationJournal`. Its rollback is two steps for each
record, `Compare` and `Restore`, because nothing keeps another process out between
the comparison of a file and its rewriting; `OutsideSaveStays` excepts exactly that
window (`Overtaken`). `RestoreFails` answers with
the code of `Failed` (422 IMPORT_APPLY_FAILED): the model's own answer *half done*
stands for the reason in its details. A workbook preview without a sheet is stored,
as in the code, and refused by `Begin`. `Outside` is another process: it does not
know the lock. One-sheet imports have no journal.

## Runs

| Run | Question | Instance |
|---|---|---|
| `draft` | Is the ledger exact and replayable through every mix of commands, what gets committed sound and staged, and the draft an implementation of three layers? | 2 lessons of one instructor, 2 rooms, 2 times, 2 records, blocks of 2 |
| `lesson_card` | Is an off-request lesson confirmed and pinned? | 2 days, 2 hours, 2 records |
| `lesson_card_ask` (violation) | Does every assignment that changes the time ask? | the same |
| `rounds` | Which locks can a later round book over, which committed lessons can it replace; do commits belong to the imported workbook and keep the contract, through stops? | 2 workbooks with one row number in common, 2 spots, stops |
| `rounds_double` (violation) | Is a spot committed to one workbook only? | 2 workbooks that share a row, no stops |
| `session` | Do several files with times behave like one register; is a save served even after torn files and half clears? | 2 clients, 2 payloads, 3 paths, 4 writes, two fault regimes |
| `optimizer` | Is a result saved only over what it read; is every operation answered? | 2 operations, 1 record, 2 changes by others |
| `reconciliation` | Are briefs honest and final, plans of their run and kept, applies what was shown, the draft sound? | 2 lessons, 2 rooms, 2 times, 3 packages, 3 calls, 2 investigations of one second or of two, 3 turns of the operator, 2 runs, 1 stored plan |
| `assistant_memory` (violation) | Does a decision outlive its plan as task memory? | the same |
| `import` | Is a workbook applied whole or taken back, over shadows and beside another process? | 3 uploads of 2 workbooks (two whole ones and one studio sheet; a weekly sheet takes the mirrored path), 2 master files, 1 shadow, a store of 2, 3 previews, 1 outside write, 1 fault |
| `allocator` | Is every room used once, every request accounted for, every block whole, every pin kept, every eviction due? | 3 weekly and 2 studio requests of 3 teachers, 2 rooms, 4 hours, at most 1 booking, pin or unreadable row |
| `allocator_twice` (violation) | Is a request handed over at most once? | the same |

Why the bounds are enough. Two lessons of one instructor at two times give every
kind of clash (room, instructor, lecture), a swap that needs an unassign in
between, and blocks of more than one; two history records are the least with a
trim, an undo of an undo's remainder, and a redo stack of two. Two workbooks are
the least with a next round; a row they share and one they do not give both kinds
of lock. Three paths give a fallback that fails too and two shadows of different
age; four writes let a writer fall back, another succeed on the primary, and a
third fall back again. Two operations over a one-record registry evict at the
first completion, and two foreign changes reach every step of the worker. Five
requests on four hours give a block of two in the way of a two-hour request, a
stronger, an equal and a weaker teacher, a room with and without a haven, and a
group no room takes. Three calls reach the budget after a dominated and a
dominating package; one stored plan makes every second investigation evict. Three
previews overflow the store of two; one fault is enough because a second one only
matters after a failed rollback, which is marked (`torn`). `MaxClock`,
`MaxVersion`, `MaxInv`, `MaxTurns`, `MaxRuns`, `MaxPreviews`, `MaxOutside`,
`MaxFaults` stop a behaviour, they never change one.
`CHECK_DEADLOCK FALSE` stands where these bounds really end a behaviour
(`reconciliation`, `import`); the allocator stutters only when it is done.

Fairness. Only `OptimizerOperation` states any: weak fairness of the worker's
steps. The executor has one thread that the operating system schedules, every
step of `run_optimizer_operation` is a terminating computation, and the mutation
lock is held by requests for bounded work only (no request waits for the worker
while it holds it). Nothing is assumed of clients, so a request that was checked
may never be accepted. `Reconciliation` states none: the agent may hang until its
deadline, and a save that raises inside the handler leaves its operation running
(see *Not modelled and not claimed*).

Disagreements with the documents (the *violation* runs, each one finding in
`PROJECT.json`):

1. An unassigned lesson is compared with a baseline that mixes the row's day and
   the lesson's last hour, so an assignment can change its time unasked.
2. Locks of earlier rounds are matched by row number; the next workbook's row of
   the same number hides them, and the spot is booked twice. By the same identity a
   manual assignment of an earlier round can be replaced. `rounds` and two
   theorems say that nothing else goes wrong: a spot is booked twice only through a
   shared number, and only a hand-made lesson is replaced.
3. A decision whose plan is pushed out of the store is put into a key of the
   session that the session snapshot does not save; the next investigation is not
   told.
4. A two-hour studio request over two lessons of one block evicts the block for
   the first and hands the second one over again; the candidate's verification
   then fails the whole optimizer run.

## Proofs

| Module | Theorem | Says |
|---|---|---|
| `DraftLedger_proofs` | `InvariantHolds` | the inductive `IInv` is an invariant |
| | `TypeCorrect` | `TypeOK`, with history and redo stack together within MAX_UNDO_HISTORY |
| | `LedgerIsExact` | every occurrence is in L0, and in L1, exactly once |
| | `SealIsHonest` | a draft that differs from L1 is unsealed |
| | `TimesAreKept` | lessons of original_time_only instructors keep their requested time in L0, L1 and the bookings |
| | `CommitIsSound` | committed lessons never clash with each other or with a lecture |
| | `CommitIsStaged` | only Finalize writes bookings, once, and writes what was staged |
| | `RecordsLeadThrough` | the second invariant `ReplayInv`: the records lead through sound drafts to the present one |
| | `RecordsAreReplayable`, `UndoAndRedoCancel` | every record is undone from the draft it produced and redone from the draft it was taken back to; undo and redo take each other back |
| | `DraftIsThreeLayers` | `DraftLedger` implements `ThreeLayers` |
| `LessonCard_proofs` | `TypeCorrect`, `OffRequestStaysConfirmed`, `OffRequestStaysPinned` | confirmation and pin of a lesson off its request |
| `RoundLifecycle_proofs` | `TypeCorrect`, `CommitIsBooked` | both files well formed; a round the session calls committed is booked |
| | `TwoFilesAreOne` | `RoundLifecycle` implements `RoundContract` |
| | `ActiveIsCommitted` | a commit books lessons of the loaded workbook |
| | `LocksCarryForward` | a commit takes nothing of another workbook away but what was assigned by hand to a row number the draft has placed |
| | `SpotsAreBookedOnce` | lessons of two workbooks are in one spot only if the row of one is a row number of the other's workbook |
| `SessionStore_proofs` | `TypeCorrect`, `SavesAreServed` | no two files share a time; a save that succeeds is what the next load returns, after any faults |
| | `StoreIsRegister` | `SessionStore` implements `SessionRegister`, as long as no file is torn and no clear interrupted |
| `OptimizerOperation_proofs` | `SavedOverWhatWasRead`, `EditsAreNotDiscarded` | no stale result is saved; no edit is dropped unasked |
| | `TypeCorrect`, `PollersFindIt` | registry, lock and runs are well formed; what is queued or running is never evicted |
| `RoomAllocation_proofs` | `InvariantHolds`, `RoomsAreUsedOnce`, `PinsStay` | no double use, and pins stay, through relocation and eviction |
| | `FoodChainIsStrict` | who outranks whom is irreflexive and transitive |
| | `BooksAreKept` | the inductive `Books`: board, blocks and account of the requests agree at every stage |
| | `TypeCorrect`, `BlocksAreOneRoom` | a block is on the board, apart from the others, in one room |
| | `EverybodyIsAnswered`, `WeakerYields` | every request ends on the board or with Resolve; only a weaker block gives way |
| `Reconciliation_proofs` | `DraftStaysSound`, `PlansAreOfTheRun` | the draft has no clash and no unconfirmed change of time, waiting lessons included; every stored plan is of the session's run |
| | `TypeCorrect`, `BriefsAreHonest`, `BriefStays` | a brief is true to all that was simulated, and final |
| | `NewestStays`, `AppliedIsShown` | a plan never gives way to one of an earlier second; an apply leaves what was shown |
| `WorkbookImport_proofs` | `TypeCorrect` | previews, data files and the import at work |
| | `FailedIsHarmless`, `FailedImportLeavesNothing` | a failed import leaves every tracked file reading as before; after a rollback that went through, no copy holds a sheet of its own |
| | `OthersAreKept` | no save takes the session back behind another process, and a rollback only between its comparison and its rewrite |
| | `AppliedIsComplete` | what is answered as applied is there whole |
| | `SheetsAreAudited` | the two sheets of the session were audited together |

Assumptions are the named `ASSUME`s of the modules: sets of constants have their
types, markers (no room, no book, nobody) are none of the values, bounds are
positive. Five say something about the program: `SourceAssumption` (preflight has
refused workbooks that ask one instructor twice at one time),
`AllocationAssumption` (a request is weekly or studio, wishes name rooms),
`SandboxAssumption` (teachers outside the time-change pool are still teachers),
`ReconciliationAssumption` (an optimizer run returns a draft without clashes at
the requested times, which is what `DraftLedger`'s gate establishes) and
`ImportAssumption` (there are finitely many master files, and a missing sheet
clashes with nothing). None of them keeps the row numbers of two workbooks apart: the
theorems on rounds hold for workbooks that share them.

The arguments.

*Draft.* None of the properties is inductive: an undo brings back slots and
snapshots that are only in the history. `IInv` therefore says of every slot in
the ledger *and in every record* that it names its lesson in its id and keeps the
time of a lesson that may not move (`Kept`), and of every snapshot in a stage
record that it lists each occurrence once (`SoundDrafts`). That a slot's id names
its lesson is what makes `Clash`'s exception for equal ids harmless
(`ValidIsSound`): two slots of different lessons are always compared. The gate
re-establishes exactness for any command that persists (`PersistSteps`); Stage
skips the gate and copies a draft that is exact already. The calendar part says
that nothing is booked before the round commits, so that Finalize finds no
bookings of its own and leaves exactly the sealed draft (`FinalizeHolds`); the
seal then turns the draft's placements into the staged ones.

That records find their targets is about their order, so `ReplayInv` says that
there *is* a sequence of sound drafts, from the oldest record to the present draft,
in which each record leads back from one to the one before (`Leads`, `Returns`).
Such a sequence grows by an edit, loses its end by an undo and its beginning by a
trim (`PastGrows`, `PastShrinks`, `PastTrims`). What ties the two directions
together are four lemmas on one record: in a sound draft an id names one slot, so
undo and redo by id are exact (`ReplayIs`, `RevertIs`) and inverse
(`RedoRestores`, `UndoRestores`); an edit is the redo of its own record. The
recursive functions of `RecordsFindTheirTargets` are then shown to walk that
sequence. The contract needs it in one place: the undo of a stage may change L1
only, which is so because its record is met in the very draft it was written in.

*Lesson card.* A card must be confirmed and pinned off its request even while it
is not placed (`Marked`), because an assignment compares with the hour the card
last held, and so must every card in a record. A saved card without a pin key is
where the workbook asks, so merging it cannot lose a pin that is needed.

*Rounds.* `PendingInv` is what a command between its two writes knows: a
finalize still has the sealed draft it booked and nothing else is new in the
bookings; a reset has emptied them. Each step then maps to a contract step or a
stutter, a stop to one of the two untold steps. What the bookings hold over many
rounds follows from where lessons come from (`OriginInv`): a draft is made from
one workbook, so a draft that passes the gate is made from the one that is
imported. A lock of another workbook is hidden only by a row of the draft with the
lock's number, so a spot that is taken twice has a shared number behind it, in what
is booked and in what a rollback would bring back (`ApartInv`). A commit replaces by
id, and the id of another workbook's optimizer lesson is nobody else's.

*Session store.* Whatever was written before is older than the clock
(`TimesInv`), so the file that a save writes is the only newest one, torn or half
cleared neighbours included. The register follows from `RegisterInv`: a path and a
time tell the text to whoever loaded it (`TextInv`), no other file changes while a
save holds the lock, and a clear leaves nothing behind it (`HolderInv`). A save
that finds its revision current has therefore seen the session it replaces.

*Optimizer.* Revisions only grow. What the worker read lies between the version
the request saw and the version of now; when both are equal at the recheck under
the lock, everything it read is of that version. A draft that became dirty after
it was accepted clean has another session revision, so it fails the recheck. The
registry is a list without repetitions; a prefix of it has as many finished
records as its rank says (`Rank`), which is how the loop that evicts the oldest
finished ones is shown to keep the others.

*Allocator.* The lessons of a group or block have one teacher, whom the source
never asks twice at one hour; so a room that fits each of them fits all
(`BlockIsFree`, `PlacingKeeps`). `PlacingKeeps` is one lemma for every action that
gives requests a room while others leave it. The second invariant, `Books`, says
stage by stage who waits (`Stages`), that whoever waits is fresh and everybody
else was answered (`Account`), and that blocks lie apart on the board (`Blocks`):
being linked without a long gap is an equivalence on a teacher's lessons.

*Assistant.* Soundness of a draft after a package follows from its targets alone
(`AfterIsSound`): lessons it does not touch are compared with its targets by the
targets' own checks. That an hour off the request is confirmed is carried for
waiting lessons too (`DraftInv`), because they come back at that hour unasked. That
a plan's place in the order never changes is `CreatedInv`: it keeps the second its
investigation was created in; whoever gives way then has `MaxPlans` plans of its
second or a later one before it. `PlansBelongToRun` needs nothing more than that a run drops
the plans and that saving compares the run under the lock. `EvidenceInv` says that
only the running investigation gathers evidence and that its brief, once there,
is true to all of it; late calls and the closing server find the brief and leave
both alone.

*Import.* `Shape` gives every step its types and the place in the list of things
to do. The rest is about the copies that are *or may come back* (`Known`): on
disk, captured before a write, or in a record of the journal. A path and a time
name one text among them for good (`SeenInv`), so a workspace that has a
preview's version reads as the preview saw it; the marks of session copies never go back,
and what is taken back over the import's own copy has the mark of what it replaces
(`MarkInv`), so a rollback goes back only where another save overtook it. `CoverInv` says that every copy
holding the import's sheet has its latest record in the journal, so that taking
the records back leaves none (`TraceInv`, `FreshInv`); `AuditInv` says that the
records of a session copy lead, one to the next, from what the preview found to
what is on disk (`From`, `Chain`), so that taking them back ends there.
`WholeInv` follows the list of things to do to its end.

Model-checked only: `AcceptedFinishes` (liveness). Every other property of a
passing run is stated by a theorem, the three refinements included. The type
invariants of `LessonCard`, `RoundLifecycle` and `SessionStore` are proved and not
run again.

Out of the prover's reach, and left to TLC for good: liveness under fairness and
`ENABLED`; what a fold or another operator that takes an operator computes for
every input (the induction theorems of the library cannot be instantiated); and
modules with RECURSIVE operators (this project has none). Induction over a number
is done in first order, from the fact that a nonempty set of naturals has a least
element (`LeastNatural`).

## Not modelled and not claimed

Not modelled:

- Studio lessons in the draft and a series of dates in the allocator; single
  interventions, waiting entries, leverage packages and previews of the
  resolution tools; advice, causal diagnosis and counterfactuals shown beside a
  brief.
- Learning-record content, its recovery and its repair at the next start.
- Cells of a workbook and the fingerprint of an upload; normalisation on load;
  exports; info hub; HTTP plumbing; frontend; native shell; the legacy solver.
- Two saves of a file within one tick of its clock, and clocks that go back.
- In `DataFiles`, a write in place that fails half-way and leaves a truncated copy:
  that of a shadow (`data_loader.py:305`, `atomic_json_io.py:52`), which a later read
  would prefer, and that of a rollback's rewrite (`imports.py:264`). `SessionStore`
  has the torn shadows of the session file.
- A pin moved onto the hour of an unpinned row of its teacher, as the input of a
  run: the allocator compares rooms only and would place both, and the run's
  verification then refuses the candidate.

Behaviour seen while modelling that no run states as a property:

- After Finalize a draft can be edited and staged but not finalized again:
  `is_finalize_ready` is false for the rest of the round (CONTEXT.md:40 expects a
  re-Finalize).
- `round_committed` survives an import and a run, so the next round may start over
  a draft that was never committed.
- When the save inside the handler of a failed agent process raises
  (`pi_reconciliation.py:1007`), nothing answers the operation; it stays
  *running*.
- The rollback of an import compares a file with what the import wrote and then
  rewrites it (`imports.py:321-324`), with no lock another process knows around the
  two. What that process saves in between is overwritten and no conflict is reported,
  although the journal is said to "Compensate only writes still owned by this import
  transaction" (`imports.py:270`). TLC finds it in the instance of `import` when the
  second disjunct of `OutsideSaveStays` is dropped.
- A stop between the two sheets of an import leaves half of it: the journal is in
  memory. Master files have no revision, so another process's write just before
  an import's own is lost; `courses.json` is not among the tracked files.
- Relocation does not look at a weekly lesson's wishes, a block may be evicted for
  a request that is denied afterwards, and a block's tier is that of its first
  lesson.

## Plan

Done: the eight components above with their contracts and proofs.

Next, to model: `StudioLedger` (dates of one row as occurrences, mixed with
weekly slots); the resolution tools' single interventions as actions over
`DraftLedger` records; learning records and their repair; a composition of
`OptimizerOperation` and `Reconciliation` on the one executor.

Next, to prove: what those extensions add. Of the present models only liveness is
without a proof.
