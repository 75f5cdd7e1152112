------------------------- MODULE OptimizerOperation -------------------------
(***************************************************************************)
(* Optimizer runs as background operations: the /optimize request, the     *)
(* operation registry, the single worker thread, and the commands of other *)
(* requests that change the workspace meanwhile.  The worker computes      *)
(* outside the mutation lock; what keeps its result from overwriting newer *)
(* work are the version guards and the session revision.                   *)
(***************************************************************************)
EXTENDS Integers, SequencesExt

CONSTANTS
    Ops,          \* the operations that are ever requested
    MaxRecords,   \* MAX_OPERATION_RECORDS
    MaxVersion,   \* bound: changes other requests make to the workspace
    Nobody

ASSUME OperationAssumption ==
    MaxRecords \in Nat \ {0} /\ MaxVersion \in Nat /\ Nobody \notin Ops

VARIABLES
    session,      \* revision of the session file
    files,        \* revision of the other tracked files
    dirty,        \* the draft has edits that are not published
    op,           \* what the registry and the request know of an operation
    records,      \* the registry's records, oldest first
    queue,        \* the executor's queue
    worker,       \* the running operation, its next step and what it read
    lock          \* the worker holds the mutation lock

workspace == <<session, files, dirty>>
vars == <<workspace, op, records, queue, worker, lock>>

\* compute_workspace_version digests the tracked files.
Version == <<session, files>>

Active == {"queued", "running"}
Terminal == {"completed", "failed"}
NotAsked == [status |-> "new", expected |-> <<0, 0>>, choice |-> FALSE]
IdleWorker == [op |-> Nobody, step |-> "idle", session |-> 0, files |-> {}]

SetStatus(o, status) == op' = [op EXCEPT ![o].status = status]
Step(step) == worker' = [worker EXCEPT !.step = step]

-----------------------------------------------------------------------------
(* Other requests.  Each holds the mutation lock from its version check to   *)
(* its answer.                                                               *)

ChangeSession(d) ==
    /\ ~lock
    /\ session + files < MaxVersion
    /\ session' = session + 1
    /\ dirty' = d
    /\ UNCHANGED <<files, op, records, queue, worker, lock>>

ChangeFiles ==
    /\ ~lock
    /\ session + files < MaxVersion
    /\ files' = files + 1
    /\ UNCHANGED <<session, dirty, op, records, queue, worker, lock>>

-----------------------------------------------------------------------------
(* The /optimize request does not take the mutation lock.                    *)

\* choice: the request names a rerun mode.
CheckVersion(o, choice) ==
    /\ op[o].status = "new"
    /\ op' = [op EXCEPT ![o] = [status |-> "checked", expected |-> Version,
                                choice |-> choice]]
    /\ UNCHANGED <<workspace, records, queue, worker, lock>>

\* Mutant of Evict: the oldest records go whatever their status.
EvictOldest(rs) ==
    IF Len(rs) > MaxRecords THEN SubSeq(rs, Len(rs) - MaxRecords + 1, Len(rs)) ELSE rs

\* _evict_terminal_locked: the oldest finished records leave, as many as are too
\* many; the others keep their order.
Evict(rs) ==
    LET finished == {i \in DOMAIN rs : op[rs[i]].status \in Terminal}
        surplus == {i \in finished :
                      Cardinality({j \in finished : j < i}) < Len(rs) - MaxRecords}
        stay == DOMAIN rs \ surplus
        rank(i) == Cardinality({j \in stay : j <= i})
    IN  [k \in 1 .. Cardinality(stay) |-> rs[CHOOSE i \in stay : rank(i) = k]]

\* Mutant of Accept: the draft's edits are not looked at.
AcceptDirty(o) ==
    /\ op[o].status = "checked"
    /\ SetStatus(o, "queued")
    /\ records' = Evict(Append(records, o))
    /\ queue' = Append(queue, o)
    /\ UNCHANGED <<workspace, worker, lock>>

\* The session is read again, a dirty draft wants a rerun mode, and the
\* operation is registered and handed to the executor.
Accept(o) ==
    /\ op[o].status = "checked"
    /\ dirty => op[o].choice
    /\ SetStatus(o, "queued")
    /\ records' = Evict(Append(records, o))
    /\ queue' = Append(queue, o)
    /\ UNCHANGED <<workspace, worker, lock>>

Refuse(o) ==
    /\ op[o].status = "checked"
    /\ dirty /\ ~op[o].choice
    /\ SetStatus(o, "refused")
    /\ UNCHANGED <<workspace, records, queue, worker, lock>>

-----------------------------------------------------------------------------
(* The worker thread: run_optimizer_operation.                               *)

Take ==
    /\ worker = IdleWorker
    /\ queue # <<>>
    /\ worker' = [IdleWorker EXCEPT !.op = Head(queue), !.step = "guard"]
    /\ queue' = Tail(queue)
    /\ UNCHANGED <<workspace, op, records, lock>>

Current == op[worker.op].expected = Version

\* Mutant of Fail: the exception ends in the discarded future.
FailSilently ==
    /\ worker' = IdleWorker
    /\ lock' = FALSE
    /\ UNCHANGED <<workspace, op, records, queue>>

\* Every exception is caught and becomes the operation's error.
Fail ==
    /\ SetStatus(worker.op, "failed")
    /\ worker' = IdleWorker
    /\ lock' = FALSE
    /\ UNCHANGED <<workspace, records, queue>>

\* The first guard; a stale operation never enters a running phase.
Guard ==
    /\ worker.step = "guard"
    /\ IF Current THEN Step("restore") /\ UNCHANGED <<workspace, op, records, queue, lock>>
                  ELSE Fail

\* restore_scheduler_state: the session and its revision.
Restore ==
    /\ worker.step = "restore"
    /\ worker' = [worker EXCEPT !.step = "preflight", !.session = session]
    /\ SetStatus(worker.op, "running")
    /\ UNCHANGED <<workspace, records, queue, lock>>

ReadFiles(step) == worker' = [worker EXCEPT !.step = step, !.files = @ \cup {files}]

\* The rules and the preflight are read before the second guard.
Preflight ==
    /\ worker.step = "preflight"
    /\ ReadFiles("second guard")
    /\ UNCHANGED <<workspace, op, records, queue, lock>>

SecondGuard ==
    /\ worker.step = "second guard"
    /\ IF Current THEN Step("optimize") /\ UNCHANGED <<workspace, op, records, queue, lock>>
                  ELSE Fail

\* Bookings, students and rooms, and the allocation.
Optimize ==
    /\ worker.step = "optimize"
    /\ ReadFiles("commit")
    /\ UNCHANGED <<workspace, op, records, queue, lock>>

\* Blocked preflight, refused candidate, unreadable file.
OptimizeFails == worker.step \in {"preflight", "optimize"} /\ Fail

Lock ==
    /\ worker.step = "commit"
    /\ ~lock
    /\ lock' = TRUE
    /\ Step("recheck")
    /\ UNCHANGED <<workspace, op, records, queue>>

\* Mutant of Recheck: the session revision alone is trusted.
RecheckSession ==
    /\ worker.step = "recheck"
    /\ IF worker.session = session
         THEN Step("save") /\ UNCHANGED <<workspace, op, records, queue, lock>>
         ELSE Fail

Recheck ==
    /\ worker.step = "recheck"
    /\ IF Current THEN Step("save") /\ UNCHANGED <<workspace, op, records, queue, lock>>
                  ELSE Fail

\* Mutant of Save: the lock is not released.
SaveKeepsLock ==
    /\ worker.step = "save"
    /\ worker.session = session
    /\ session' = session + 1
    /\ dirty' = FALSE
    /\ Step("record")
    /\ UNCHANGED <<files, op, records, queue, lock>>

\* persist_scheduler_session with the revision that was restored.
Save ==
    /\ worker.step = "save"
    /\ worker.session = session
    /\ session' = session + 1
    /\ dirty' = FALSE
    /\ lock' = FALSE
    /\ Step("record")
    /\ UNCHANGED <<files, op, records, queue>>

\* A conflict or a failed write.
SaveFails == worker.step = "save" /\ Fail

\* The learning record is a tracked file; its failure is only a warning.
Record(written) ==
    /\ worker.step = "record"
    /\ ~lock
    /\ files' = IF written THEN files + 1 ELSE files
    /\ SetStatus(worker.op, "completed")
    /\ worker' = IdleWorker
    /\ UNCHANGED <<session, dirty, records, queue, lock>>

Work == Take \/ Guard \/ Restore \/ Preflight \/ SecondGuard \/ Optimize
          \/ OptimizeFails \/ Lock \/ Recheck \/ Save \/ SaveFails \/ \E written \in BOOLEAN : Record(written)

\* The process stops and starts: the registry and the queue are in memory.
Restart ==
    /\ op' = [o \in Ops |-> IF op[o].status = "new" THEN op[o]
                                                  ELSE [op[o] EXCEPT !.status = "lost"]]
    /\ records' = <<>>
    /\ queue' = <<>>
    /\ worker' = IdleWorker
    /\ lock' = FALSE
    /\ UNCHANGED workspace

-----------------------------------------------------------------------------
Init ==
    /\ session = 0 /\ files = 0
    /\ dirty \in BOOLEAN
    /\ op = [o \in Ops |-> NotAsked]
    /\ records = <<>>
    /\ queue = <<>>
    /\ worker = IdleWorker
    /\ lock = FALSE

Next ==
    \/ \E d \in BOOLEAN : ChangeSession(d)
    \/ ChangeFiles
    \/ \E o \in Ops, choice \in BOOLEAN : CheckVersion(o, choice)
    \/ \E o \in Ops : Accept(o) \/ Refuse(o)
    \/ Work
    \/ Restart

\* The worker thread is scheduled; no request holds the mutation lock for ever.
Spec == Init /\ [][Next]_vars /\ WF_vars(Work)

-----------------------------------------------------------------------------
(* Properties. *)

\* Everything is well formed, and the worker holds the lock exactly in the
\* steps between taking and releasing it.
TypeOK ==
    /\ session \in Nat /\ files \in Nat /\ dirty \in BOOLEAN
    /\ op \in [Ops -> [status: Active \cup Terminal
                                 \cup {"new", "checked", "refused", "lost"},
                       expected: Nat \X Nat, choice: BOOLEAN]]
    /\ records \in Seq(Ops) /\ queue \in Seq(Ops)
    /\ worker \in [op: Ops \cup {Nobody},
                   step: {"idle", "guard", "restore", "preflight", "second guard",
                          "optimize", "commit", "recheck", "save", "record"},
                   session: Nat, files: SUBSET Nat]
    /\ lock \in BOOLEAN /\ (lock <=> worker.step \in {"recheck", "save"})

\* A generated draft is saved only over the workspace its request saw, and was
\* computed from nothing else, whatever changed while it was queued or ran.
SavesOverWhatItRead ==
    [][Save => /\ Current
               /\ worker.session = session /\ worker.files = {files}]_vars

\* A draft with unpublished edits is replaced only when the request named a rerun
\* mode, although the request looks at the draft without any lock.
NoSilentDiscard == [][Save /\ dirty => op[worker.op].choice]_vars

\* A client that polls a queued or running operation finds it, however many
\* operations were accepted since: only a restart loses one.
ActiveIsListed ==
    \A o \in Ops : op[o].status \in Active => Contains(records, o)

\* Every accepted operation is answered: it completes, fails, or dies with the
\* process.
AcceptedFinishes ==
    \A o \in Ops : op[o].status = "queued" ~> op[o].status \in Terminal \cup {"lost"}
=============================================================================
