--------------------- MODULE OptimizerOperation_proofs ---------------------
(***************************************************************************)
(* What a background run saves, and over what, for any number of           *)
(* operations and of changes by other requests.  Revisions only grow, so   *)
(* all that was read between two moments at which the workspace is the one *)
(* the request saw is of that workspace; and a draft that became dirty     *)
(* since has another session revision.                                     *)
(***************************************************************************)
EXTENDS OptimizerOperation, SequenceTheorems, FiniteSetTheorems, TLAPS

Statuses == Active \cup Terminal \cup {"new", "checked", "refused", "lost"}
Steps == {"guard", "restore", "preflight", "second guard", "optimize", "commit",
          "recheck", "save", "record"}

WorkspaceInv == session \in Nat /\ files \in Nat

\* Nothing expects a revision that is still to come; an operation that was accepted
\* without a rerun mode met no edits, so edits of its draft came later.
OpsInv ==
    /\ op \in [Ops -> [status: Statuses, expected: Nat \X Nat, choice: BOOLEAN]]
    /\ \A o \in Ops : op[o].expected[1] <= session /\ op[o].expected[2] <= files
    /\ \A o \in Ops : op[o].status \in Active /\ ~op[o].choice /\ dirty =>
                         op[o].expected[1] < session

\* An operation waits once, and not while it runs.
QueueInv ==
    /\ queue \in Seq(Ops)
    /\ \A i \in 1 .. Len(queue) :
          /\ op[queue[i]].status = "queued"
          /\ queue[i] # worker.op
          /\ \A j \in 1 .. Len(queue) : queue[i] = queue[j] => i = j

WorkerInv ==
    /\ worker \in [op: Ops \cup {Nobody}, step: Steps \cup {"idle"},
                   session: Nat, files: SUBSET Nat]
    /\ worker.step = "idle" => worker.op = Nobody /\ worker.files = {}
    /\ worker.step # "idle" =>
          /\ worker.op \in Ops
          /\ op[worker.op].status \in Active
          /\ \A f \in worker.files : op[worker.op].expected[2] <= f /\ f <= files
    /\ worker.step \in {"commit", "recheck", "save"} => worker.files # {}
    /\ worker.step = "save" => Current
    /\ worker.step \in {"recheck", "save"} => lock

IInv == WorkspaceInv /\ OpsInv /\ QueueInv /\ WorkerInv

-----------------------------------------------------------------------------
LEMMA InitHolds == Init => IInv
<1> SUFFICES ASSUME Init PROVE IInv
  OBVIOUS
<1>1. WorkspaceInv
  BY DEF Init, WorkspaceInv
<1>2. OpsInv
  <2>1. NotAsked \in [status: Statuses, expected: Nat \X Nat, choice: BOOLEAN]
    BY DEF NotAsked, Statuses
  <2>2. NotAsked.expected[1] = 0 /\ NotAsked.expected[2] = 0 /\ NotAsked.status \notin Active
    BY DEF NotAsked, Active
  <2> QED
    BY <2>1, <2>2 DEF Init, OpsInv
<1>3. QueueInv
  BY DEF Init, QueueInv
<1>4. WorkerInv
  BY DEF Init, WorkerInv, IdleWorker
<1> QED
  BY <1>1, <1>2, <1>3, <1>4 DEF IInv

\* Another request moves a revision on; it waits while the worker holds the lock.
LEMMA ChangeHolds ==
    ASSUME IInv, (\E d \in BOOLEAN : ChangeSession(d)) \/ ChangeFiles
    PROVE  IInv'
<1>1. /\ ~lock /\ UNCHANGED <<op, records, queue, worker, lock>>
      /\ \/ session' = session + 1 /\ files' = files /\ dirty' \in BOOLEAN
         \/ files' = files + 1 /\ session' = session /\ dirty' = dirty
  BY DEF ChangeSession, ChangeFiles
<1>2. session' \in Nat /\ files' \in Nat /\ session <= session' /\ files <= files'
  BY <1>1 DEF IInv, WorkspaceInv
<1>3. WorkspaceInv'
  BY <1>1, <1>2 DEF IInv, WorkspaceInv
<1>4. OpsInv'
  <2>1. \A o \in Ops : op[o].expected[1] \in Nat /\ op[o].expected[2] \in Nat
    BY DEF IInv, OpsInv
  <2> QED
    BY <1>1, <1>2, <2>1 DEF IInv, OpsInv, WorkspaceInv
<1>5. QueueInv'
  BY <1>1 DEF IInv, QueueInv
<1>6. WorkerInv'
  <2>1. worker.step # "save"
    BY <1>1 DEF IInv, WorkerInv
  <2>2. worker.step # "idle" => op[worker.op].expected[2] \in Nat
    BY DEF IInv, WorkerInv, OpsInv
  <2> QED
    BY <1>1, <1>2, <2>1, <2>2 DEF IInv, WorkerInv, WorkspaceInv
<1> QED
  BY <1>3, <1>4, <1>5, <1>6 DEF IInv

\* An operation that does not wait or run changes its status.
LEMMA OtherOpHolds ==
    ASSUME IInv, NEW o \in Ops, op[o].status \notin Active,
           NEW r \in [status: Statuses \ Active, expected: Nat \X Nat, choice: BOOLEAN],
           r.expected[1] <= session, r.expected[2] <= files,
           op' = [op EXCEPT ![o] = r],
           UNCHANGED <<workspace, queue, worker, lock>>
    PROVE  IInv'
<1>1. UNCHANGED <<session, files, dirty>>
  BY DEF workspace
<1>2. WorkspaceInv'
  BY <1>1 DEF IInv, WorkspaceInv
<1>3. OpsInv'
  BY <1>1 DEF IInv, OpsInv
<1>4. \A i \in 1 .. Len(queue) : queue[i] \in Ops /\ queue[i] # o
  BY ElementOfSeq DEF IInv, QueueInv, Active
<1>5. QueueInv'
  BY <1>4 DEF IInv, QueueInv, OpsInv
<1>6. worker.step # "idle" => worker.op # o /\ op'[worker.op] = op[worker.op]
  BY DEF IInv, WorkerInv, OpsInv
<1>7. WorkerInv'
  BY <1>1, <1>6 DEF IInv, WorkerInv, Current, Version
<1> QED
  BY <1>2, <1>3, <1>5, <1>7 DEF IInv

LEMMA CheckVersionHolds ==
    ASSUME IInv, NEW o \in Ops, NEW choice \in BOOLEAN, CheckVersion(o, choice)
    PROVE  IInv'
<1> DEFINE r == [status |-> "checked", expected |-> Version, choice |-> choice]
<1>1. /\ r \in [status: Statuses \ Active, expected: Nat \X Nat, choice: BOOLEAN]
      /\ r.expected[1] <= session /\ r.expected[2] <= files
  BY DEF IInv, WorkspaceInv, Version, Statuses, Active
<1>2. op[o].status \notin Active /\ op' = [op EXCEPT ![o] = r]
  BY DEF CheckVersion, Active
<1> HIDE DEF r
<1> QED
  BY <1>1, <1>2, OtherOpHolds DEF CheckVersion

LEMMA RefuseHolds == ASSUME IInv, NEW o \in Ops, Refuse(o) PROVE IInv'
<1> DEFINE r == [op[o] EXCEPT !.status = "refused"]
<1>1. /\ r \in [status: Statuses \ Active, expected: Nat \X Nat, choice: BOOLEAN]
      /\ r.expected[1] <= session /\ r.expected[2] <= files
  BY DEF IInv, OpsInv, Statuses, Active
<1>2. op[o].status \notin Active /\ op' = [op EXCEPT ![o] = r]
  BY DEF Refuse, SetStatus, Active
<1> HIDE DEF r
<1> QED
  BY <1>1, <1>2, OtherOpHolds DEF Refuse

LEMMA AcceptHolds == ASSUME IInv, NEW o \in Ops, Accept(o) PROVE IInv'
<1>1. /\ UNCHANGED <<session, files, dirty, worker, lock>>
      /\ op[o].status = "checked" /\ (dirty => op[o].choice)
      /\ op' = [op EXCEPT ![o].status = "queued"]
      /\ queue' = Append(queue, o)
  BY DEF Accept, SetStatus, workspace
<1>2. WorkspaceInv'
  BY <1>1 DEF IInv, WorkspaceInv
<1>3. /\ op' \in [Ops -> [status: Statuses, expected: Nat \X Nat, choice: BOOLEAN]]
      /\ op'[o].status = "queued"
      /\ \A p \in Ops : /\ op'[p].expected = op[p].expected
                        /\ op'[p].choice = op[p].choice
                        /\ p # o => op'[p] = op[p]
  BY <1>1 DEF IInv, OpsInv, Statuses, Active
<1>4. OpsInv'
  BY <1>1, <1>3 DEF IInv, OpsInv
<1>5. \A i \in 1 .. Len(queue) : queue[i] \in Ops /\ queue[i] # o
  BY <1>1, ElementOfSeq DEF IInv, QueueInv
<1>6. worker.op # o
  <2>1. CASE worker.step = "idle"
    BY <2>1, <1>1, OperationAssumption DEF IInv, WorkerInv
  <2>2. CASE worker.step # "idle"
    BY <2>2, <1>1 DEF IInv, WorkerInv, Active
  <2> QED
    BY <2>1, <2>2
<1>7. QueueInv'
  <2>1. /\ queue' \in Seq(Ops) /\ Len(queue') = Len(queue) + 1 /\ Len(queue) \in Nat
        /\ queue'[Len(queue) + 1] = o
        /\ \A i \in 1 .. Len(queue) : queue'[i] = queue[i]
    BY <1>1 DEF IInv, QueueInv
  <2>2. \A i \in 1 .. Len(queue') : i \in 1 .. Len(queue) \/ i = Len(queue) + 1
    BY <2>1
  <2> QED
    BY <1>1, <1>3, <1>5, <1>6, <2>1, <2>2 DEF IInv, QueueInv
<1>8. WorkerInv'
  BY <1>1, <1>3, <1>6 DEF IInv, WorkerInv, Current, Version
<1> QED
  BY <1>2, <1>4, <1>7, <1>8 DEF IInv

-----------------------------------------------------------------------------
(* The worker. *)

\* The operation leaves the queue.
LEMMA TakeHolds == ASSUME IInv, Take PROVE IInv'
<1> DEFINE o == Head(queue)
<1>1. /\ UNCHANGED <<session, files, dirty, op, lock>>
      /\ worker.step = "idle" /\ queue # <<>>
      /\ worker' = [op |-> o, step |-> "guard", session |-> 0, files |-> {}]
      /\ queue' = Tail(queue)
  BY DEF Take, IdleWorker, workspace
<1>2. /\ Len(queue) \in Nat /\ Len(queue) > 0 /\ o = queue[1] /\ o \in Ops
      /\ queue' \in Seq(Ops) /\ Len(queue') = Len(queue) - 1
      /\ \A i \in 1 .. Len(queue') : queue'[i] = queue[i + 1]
  BY <1>1, EmptySeq, ElementOfSeq, HeadTailProperties DEF IInv, QueueInv
<1> HIDE DEF o
<1>3. WorkspaceInv' /\ OpsInv'
  BY <1>1 DEF IInv, WorkspaceInv, OpsInv
<1>4. QueueInv'
  <2>1. \A i \in 1 .. Len(queue') : i + 1 \in 1 .. Len(queue) /\ i + 1 # 1
    BY <1>2
  <2>2. 1 \in 1 .. Len(queue)
    BY <1>2
  <2>3. worker'.op = o
    BY <1>1
  <2>4. ASSUME NEW i \in 1 .. Len(queue')
        PROVE  /\ op[queue'[i]].status = "queued"
               /\ queue'[i] # o
               /\ \A j \in 1 .. Len(queue') : queue'[i] = queue'[j] => i = j
    <3>1. queue'[i] = queue[i + 1] /\ i + 1 \in 1 .. Len(queue) /\ i + 1 # 1
      BY <1>2, <2>1
    <3>2. op[queue'[i]].status = "queued" /\ queue'[i] # o
      BY <1>2, <2>2, <3>1 DEF IInv, QueueInv
    <3>3. ASSUME NEW j \in 1 .. Len(queue'), queue'[i] = queue'[j]
          PROVE  i = j
      <4>1. queue'[j] = queue[j + 1] /\ j + 1 \in 1 .. Len(queue)
        BY <1>2, <2>1
      <4>2. i + 1 = j + 1
        BY <3>1, <3>3, <4>1 DEF IInv, QueueInv
      <4> QED
        BY <4>2, <1>2
    <3> QED
      BY <3>2, <3>3
  <2> QED
    BY <1>1, <1>2, <2>3, <2>4 DEF QueueInv
<1>5. WorkerInv'
  <2>1. op[o].status = "queued"
    BY <1>2 DEF IInv, QueueInv
  <2>2. worker' \in [op: Ops \cup {Nobody}, step: Steps \cup {"idle"},
                     session: Nat, files: SUBSET Nat]
    BY <1>1, <1>2 DEF Steps
  <2> QED
    BY <1>1, <1>2, <2>1, <2>2 DEF WorkerInv, Active
<1> QED
  BY <1>3, <1>4, <1>5 DEF IInv

\* The running operation changes its status, and the worker is done or goes on.
LEMMA RunningOpHolds ==
    ASSUME IInv, worker.step # "idle", NEW status \in Statuses,
           SetStatus(worker.op, status), UNCHANGED <<session, dirty, queue>>,
           files' \in {files, files + 1},
           worker'.op \in {worker.op, Nobody}
    PROVE  WorkspaceInv' /\ OpsInv' /\ QueueInv'
<1>1. worker.op \in Ops /\ op[worker.op].status \in Active
  BY DEF IInv, WorkerInv
<1>2. /\ op' \in [Ops -> [status: Statuses, expected: Nat \X Nat, choice: BOOLEAN]]
      /\ \A p \in Ops : /\ op'[p].expected = op[p].expected
                        /\ op'[p].choice = op[p].choice
                        /\ p # worker.op => op'[p] = op[p]
  BY <1>1 DEF SetStatus, IInv, OpsInv
<1>3. WorkspaceInv'
  BY DEF IInv, WorkspaceInv
<1>4. OpsInv'
  <2>1. \A p \in Ops : op[p].expected[2] \in Nat /\ files \in Nat
    BY DEF IInv, OpsInv, WorkspaceInv
  <2> QED
    BY <1>1, <1>2, <2>1 DEF IInv, OpsInv
<1>5. QueueInv'
  <2>1. \A i \in 1 .. Len(queue) : queue[i] \in Ops /\ queue[i] # worker.op
    BY ElementOfSeq DEF IInv, QueueInv
  <2>2. \A i \in 1 .. Len(queue) : op'[queue[i]] = op[queue[i]]
    BY <1>2, <2>1
  <2>3. \A i \in 1 .. Len(queue) : queue[i] # worker'.op
    BY <2>1, OperationAssumption
  <2>4. /\ queue \in Seq(Ops) /\ queue' = queue
        /\ \A i \in 1 .. Len(queue) :
              /\ op[queue[i]].status = "queued"
              /\ \A j \in 1 .. Len(queue) : queue[i] = queue[j] => i = j
    BY DEF IInv, QueueInv
  <2> QED
    BY <2>2, <2>3, <2>4 DEF QueueInv
<1> QED
  BY <1>3, <1>4, <1>5

LEMMA FailHolds == ASSUME IInv, worker.step # "idle", Fail PROVE IInv'
<1>1. /\ worker' = [op |-> Nobody, step |-> "idle", session |-> 0, files |-> {}]
      /\ lock' = FALSE
  BY DEF Fail, IdleWorker
<1>2. WorkspaceInv' /\ OpsInv' /\ QueueInv'
  BY <1>1, RunningOpHolds DEF Fail, workspace, Statuses, Terminal
<1>3. WorkerInv'
  BY <1>1 DEF WorkerInv
<1> QED
  BY <1>2, <1>3 DEF IInv

LEMMA RecordHolds ==
    ASSUME IInv, NEW written \in BOOLEAN, Record(written)
    PROVE  IInv'
<1>1. /\ worker' = [op |-> Nobody, step |-> "idle", session |-> 0, files |-> {}]
      /\ lock' = FALSE /\ worker.step = "record"
  BY DEF Record, IdleWorker
<1>2. WorkspaceInv' /\ OpsInv' /\ QueueInv'
  BY <1>1, RunningOpHolds DEF Record, Statuses, Terminal
<1>3. WorkerInv'
  BY <1>1 DEF WorkerInv
<1> QED
  BY <1>2, <1>3 DEF IInv

LEMMA RestoreHolds == ASSUME IInv, Restore PROVE IInv'
<1>1. /\ worker.step = "restore"
      /\ worker' = [worker EXCEPT !.step = "preflight", !.session = session]
      /\ UNCHANGED <<session, files, dirty, queue, lock>>
      /\ SetStatus(worker.op, "running")
  BY DEF Restore, workspace
<1>2. /\ worker'.op = worker.op /\ worker'.step = "preflight" /\ worker'.files = worker.files
      /\ worker'.session = session
      /\ worker' \in [op: Ops \cup {Nobody}, step: Steps \cup {"idle"},
                      session: Nat, files: SUBSET Nat]
  BY <1>1 DEF IInv, WorkerInv, WorkspaceInv, Steps
<1>3. WorkspaceInv' /\ OpsInv' /\ QueueInv'
  BY <1>1, <1>2, RunningOpHolds DEF Statuses, Active
<1>4. WorkerInv'
  <2>1. worker.op \in Ops /\ op'[worker.op].status = "running"
                          /\ op'[worker.op].expected = op[worker.op].expected
    BY <1>1 DEF IInv, WorkerInv, OpsInv, SetStatus
  <2> QED
    BY <1>1, <1>2, <2>1 DEF IInv, WorkerInv, Active
<1> QED
  BY <1>3, <1>4 DEF IInv

\* The worker goes on, and has read the files once more or not; nothing else changes.
LEMMA ProceedHolds ==
    ASSUME IInv, worker.step # "idle", NEW step \in Steps, NEW read \in SUBSET {files},
           worker' = [worker EXCEPT !.step = step, !.files = @ \cup read],
           step \in {"commit", "recheck", "save"} => worker.files \cup read # {},
           step = "save" => Current,
           step \in {"recheck", "save"} => lock',
           UNCHANGED <<workspace, op, queue>>
    PROVE  IInv'
<1>1. UNCHANGED <<session, files, dirty>>
  BY DEF workspace
<1>2. /\ worker'.op = worker.op /\ worker'.step = step
      /\ worker'.files = worker.files \cup read
      /\ worker' \in [op: Ops \cup {Nobody}, step: Steps \cup {"idle"},
                      session: Nat, files: SUBSET Nat]
  BY DEF IInv, WorkerInv, WorkspaceInv
<1>3. WorkspaceInv' /\ OpsInv'
  BY <1>1 DEF IInv, WorkspaceInv, OpsInv
<1>4. QueueInv'
  BY <1>2 DEF IInv, QueueInv
<1>5. WorkerInv'
  <2>1. worker.op \in Ops /\ op[worker.op].status \in Active
    BY DEF IInv, WorkerInv
  <2>2. \A f \in worker'.files : op[worker.op].expected[2] <= f /\ f <= files
    BY <1>2, <2>1 DEF IInv, WorkerInv, OpsInv, WorkspaceInv
  <2>3. step # "idle"
    BY DEF Steps
  <2> QED
    BY <1>1, <1>2, <2>1, <2>2, <2>3 DEF WorkerInv, Current, Version
<1> QED
  BY <1>3, <1>4, <1>5 DEF IInv

\* The same without a read.
LEMMA StepHolds ==
    ASSUME IInv, worker.step # "idle", NEW step \in Steps, Step(step),
           step \in {"commit", "recheck", "save"} =>
               worker.step \in {"commit", "recheck", "save"},
           step = "save" => Current,
           step \in {"recheck", "save"} => lock',
           UNCHANGED <<workspace, op, queue>>
    PROVE  IInv'
<1> DEFINE read == {}
<1>1. worker' = [worker EXCEPT !.step = step, !.files = @ \cup read]
  BY DEF Step, IInv, WorkerInv
<1>2. step \in {"commit", "recheck", "save"} => worker.files \cup read # {}
  BY DEF IInv, WorkerInv
<1>3. read \in SUBSET {files}
  OBVIOUS
<1> HIDE DEF read
<1> QED
  BY <1>1, <1>2, <1>3, ProceedHolds

\* The draft is saved and the lock released; no draft is dirty any more.
LEMMA SaveHolds == ASSUME IInv, Save PROVE IInv'
<1>1. /\ worker.step = "save" /\ session' = session + 1 /\ dirty' = FALSE
      /\ lock' = FALSE /\ worker' = [worker EXCEPT !.step = "record"]
      /\ UNCHANGED <<files, op, queue>>
  BY DEF Save, Step
<1>2. /\ worker'.op = worker.op /\ worker'.step = "record" /\ worker'.files = worker.files
      /\ worker' \in [op: Ops \cup {Nobody}, step: Steps \cup {"idle"},
                      session: Nat, files: SUBSET Nat]
  BY <1>1 DEF IInv, WorkerInv, Steps
<1>3. WorkspaceInv'
  BY <1>1 DEF IInv, WorkspaceInv
<1>4. OpsInv'
  <2>1. \A o \in Ops : op[o].expected[1] \in Nat /\ session \in Nat
    BY DEF IInv, OpsInv, WorkspaceInv
  <2> QED
    BY <1>1, <2>1 DEF IInv, OpsInv
<1>5. QueueInv'
  BY <1>1, <1>2 DEF IInv, QueueInv
<1>6. WorkerInv'
  BY <1>1, <1>2 DEF IInv, WorkerInv
<1> QED
  BY <1>3, <1>4, <1>5, <1>6 DEF IInv

LEMMA RestartHolds == ASSUME IInv, Restart PROVE IInv'
<1>1. /\ worker' = [op |-> Nobody, step |-> "idle", session |-> 0, files |-> {}]
      /\ lock' = FALSE /\ queue' = <<>>
      /\ UNCHANGED <<session, files, dirty>>
      /\ op' = [o \in Ops |-> IF op[o].status = "new" THEN op[o]
                                                    ELSE [op[o] EXCEPT !.status = "lost"]]
  BY DEF Restart, IdleWorker, workspace
<1>2. \A o \in Ops : /\ op'[o] \in [status: Statuses, expected: Nat \X Nat, choice: BOOLEAN]
                     /\ op'[o].expected = op[o].expected
                     /\ op'[o].status \notin Active
  BY <1>1 DEF IInv, OpsInv, Statuses, Active
<1>3. WorkspaceInv' /\ OpsInv'
  <2>1. op' \in [Ops -> [status: Statuses, expected: Nat \X Nat, choice: BOOLEAN]]
    BY <1>1, <1>2
  <2> QED
    BY <1>1, <1>2, <2>1 DEF IInv, WorkspaceInv, OpsInv
<1>4. QueueInv'
  BY <1>1 DEF QueueInv
<1>5. WorkerInv'
  BY <1>1 DEF WorkerInv
<1> QED
  BY <1>3, <1>4, <1>5 DEF IInv

LEMMA WorkHolds == ASSUME IInv, Work PROVE IInv'
<1>1. CASE Guard \/ SecondGuard \/ Recheck \/ OptimizeFails \/ SaveFails
  <2>1. CASE worker.step # "idle" /\ Fail
    BY <2>1, FailHolds
  <2>2. CASE Guard /\ Current
    BY <2>2, StepHolds DEF Guard, Steps
  <2>3. CASE SecondGuard /\ Current
    BY <2>3, StepHolds DEF SecondGuard, Steps
  <2>4. CASE Recheck /\ Current
    <3>1. lock'
      BY <2>4 DEF Recheck, IInv, WorkerInv
    <3> QED
      BY <2>4, <3>1, StepHolds DEF Recheck, Steps
  <2> QED
    BY <1>1, <2>1, <2>2, <2>3, <2>4
    DEF Guard, SecondGuard, Recheck, OptimizeFails, SaveFails
<1>2. CASE Preflight
  BY <1>2, ProceedHolds DEF Preflight, ReadFiles, Steps, IInv, WorkerInv
<1>3. CASE Optimize
  BY <1>3, ProceedHolds DEF Optimize, ReadFiles, Steps, IInv, WorkerInv
<1>4. CASE Lock
  BY <1>4, StepHolds DEF Lock, Steps
<1> QED
  BY <1>1, <1>2, <1>3, <1>4, TakeHolds, RestoreHolds, SaveHolds, RecordHolds DEF Work

LEMMA NextHolds == ASSUME IInv, [Next]_vars PROVE IInv'
<1>1. CASE UNCHANGED vars
  <2>1. UNCHANGED <<session, files, dirty, op, queue, worker, lock>>
    BY <1>1 DEF vars, workspace
  <2> QED
    BY <2>1 DEF IInv, WorkspaceInv, OpsInv, QueueInv, WorkerInv, Current, Version
<1> QED
  BY <1>1, ChangeHolds, CheckVersionHolds, AcceptHolds, RefuseHolds, WorkHolds, RestartHolds
  DEF Next

-----------------------------------------------------------------------------
(* Theorems. *)

LEMMA InvariantHolds == Spec => []IInv
BY InitHolds, NextHolds, PTL DEF Spec

\* A result is saved only over the workspace its request saw, and was computed from
\* files of that workspace only, however many requests came in between.
THEOREM SavedOverWhatWasRead == Spec => SavesOverWhatItRead
<1> DEFINE Fresh == Save => /\ Current
                            /\ worker.session = session /\ worker.files = {files}
<1>1. ASSUME IInv, Save
      PROVE  Current /\ worker.session = session /\ worker.files = {files}
  <2>1. worker.step = "save" /\ worker.session = session
    BY <1>1 DEF Save
  <2>2. /\ Current /\ worker.files # {}
        /\ \A f \in worker.files : op[worker.op].expected[2] <= f /\ f <= files /\ f \in Nat
    BY <1>1, <2>1 DEF IInv, WorkerInv
  <2>3. op[worker.op].expected[2] = files /\ files \in Nat
    BY <1>1, <2>2 DEF Current, Version, IInv, WorkspaceInv
  <2> QED
    BY <2>1, <2>2, <2>3
<1>2. IInv => Fresh
  BY <1>1
<1> QED
  BY <1>2, InvariantHolds, PTL DEF SavesOverWhatItRead

\* Unpublished edits are replaced only if the request named a rerun mode, although it
\* looked at the draft without a lock and the edits may have come later.
THEOREM EditsAreNotDiscarded == Spec => NoSilentDiscard
<1> DEFINE Asked == Save /\ dirty => op[worker.op].choice
<1>1. ASSUME IInv, Save, dirty
      PROVE  op[worker.op].choice
  <2>1. worker.op \in Ops /\ op[worker.op].status \in Active /\ Current
    BY <1>1 DEF Save, IInv, WorkerInv
  <2>2. op[worker.op].expected[1] = session /\ session \in Nat
    BY <1>1, <2>1 DEF Current, Version, IInv, WorkspaceInv
  <2> QED
    BY <1>1, <2>1, <2>2 DEF IInv, OpsInv
<1>2. IInv => Asked
  BY <1>1
<1> QED
  BY <1>2, InvariantHolds, PTL DEF NoSilentDiscard

-----------------------------------------------------------------------------
(* The registry: what is evicted is finished, the rest is kept in order.        *)

LEMMA LeastNatural ==
    ASSUME NEW T \in SUBSET Nat, T # {}
    PROVE  \E x \in T : \A y \in T : x <= y
<1> DEFINE R == OpToRel(<, Nat)
<1>1. IsWellFoundedOn(R, Nat)
  BY NatLessThanWellFounded
<1>2. R = {ss \in Nat \X Nat : ss[1] < ss[2]}
  BY DEF OpToRel
<1> HIDE DEF R
<1>3. PICK x \in T : \A y \in T : ~(<<y, x>> \in R)
  BY <1>1, WFMin
<1>4. ASSUME NEW y \in T
      PROVE  x <= y
  <2>1. x \in Nat /\ y \in Nat /\ <<y, x>> \notin R
    BY <1>3
  <2>2. ~(y < x)
    BY <1>2, <2>1
  <2> QED
    BY <2>1, <2>2
<1> QED
  BY <1>4

UpTo(T, i) == {j \in T : j <= i}
Rank(T, i) == Cardinality(UpTo(T, i))

LEMMA RankType ==
    ASSUME NEW n \in Nat, NEW T \in SUBSET (1 .. n), NEW i
    PROVE  /\ IsFiniteSet(T) /\ Cardinality(T) \in Nat
           /\ IsFiniteSet(UpTo(T, i))
           /\ Rank(T, i) \in Nat /\ Rank(T, i) <= Cardinality(T)
<1>1. IsFiniteSet(1 .. n)
  BY FS_Interval
<1>2. IsFiniteSet(T)
  BY <1>1, FS_Subset
<1>3. UpTo(T, i) \in SUBSET T
  BY DEF UpTo
<1> QED
  BY <1>2, <1>3, FS_Subset, FS_CardinalityType DEF Rank

\* One place further on the rank grows by one for a member and stays otherwise.
LEMMA NextRank ==
    ASSUME NEW n \in Nat, NEW T \in SUBSET (1 .. n), NEW i \in 1 .. n
    PROVE  Rank(T, i) = IF i \in T THEN Rank(T, i - 1) + 1 ELSE Rank(T, i - 1)
<1>0. ~(i <= i - 1)
  OBVIOUS
<1>1. IsFiniteSet(UpTo(T, i - 1)) /\ i \notin UpTo(T, i - 1)
  BY <1>0, RankType DEF UpTo
<1>2. \A j \in T : j \in Int /\ (j <= i <=> j <= i - 1 \/ j = i)
  OBVIOUS
<1>3. CASE i \in T
  <2>1. UpTo(T, i) = UpTo(T, i - 1) \cup {i}
    BY <1>2, <1>3 DEF UpTo
  <2> QED
    BY <1>1, <1>3, <2>1, FS_AddElement DEF Rank
<1>4. CASE i \notin T
  <2>1. UpTo(T, i) = UpTo(T, i - 1)
    BY <1>2, <1>4 DEF UpTo
  <2> QED
    BY <1>4, <2>1 DEF Rank
<1> QED
  BY <1>3, <1>4

\* Every number up to the size of a set is the rank of a member.
LEMMA RanksAreHit ==
    ASSUME NEW n \in Nat, NEW T \in SUBSET (1 .. n), NEW k \in 1 .. Cardinality(T)
    PROVE  \E i \in T : Rank(T, i) = k
<1> DEFINE U == {i \in 1 .. n : Rank(T, i) >= k}
<1> DEFINE size == Cardinality(T)
<1>a. size \in Nat
  BY RankType
<1> HIDE DEF size
<1>0. size \in Nat /\ k \in Nat /\ k >= 1 /\ k <= size
  BY <1>a DEF size
<1>b. \A j \in T : j <= n /\ ~(j <= 0)
  OBVIOUS
<1>1. UpTo(T, n) = T /\ UpTo(T, 0) = {}
  BY <1>b DEF UpTo
<1>2. Rank(T, n) = size /\ Rank(T, 0) = 0
  BY <1>1, FS_EmptySet DEF Rank, size
<1>3. n # 0
  BY <1>0, <1>2
<1>4. U \in SUBSET Nat /\ U # {}
  BY <1>0, <1>2, <1>3
<1>5. PICK i \in U : \A j \in U : i <= j
  BY <1>4, LeastNatural
<1>6. i \in 1 .. n /\ Rank(T, i) >= k /\ Rank(T, i) \in Nat /\ Rank(T, i - 1) \in Nat
  BY <1>5, RankType
<1>7. Rank(T, i - 1) < k
  <2>1. CASE i = 1
    BY <1>0, <1>2, <2>1
  <2>2. CASE i # 1
    <3>1. i - 1 \in 1 .. n /\ ~(i <= i - 1)
      BY <1>6, <2>2
    <3>2. i - 1 \notin U
      BY <1>5, <3>1
    <3> QED
      BY <1>0, <1>6, <3>1, <3>2
  <2> QED
    BY <2>1, <2>2
<1> QED
  BY <1>0, <1>6, <1>7, NextRank

\* Different members have different ranks.
LEMMA RanksDiffer ==
    ASSUME NEW n \in Nat, NEW T \in SUBSET (1 .. n), NEW i \in T, NEW j \in T, i < j
    PROVE  Rank(T, i) < Rank(T, j)
<1>0. \A k \in T : k <= i => k <= j - 1
  BY \A k \in T : k \in Int
<1>1. UpTo(T, i) \in SUBSET UpTo(T, j - 1)
  BY <1>0 DEF UpTo
<1>2. IsFiniteSet(UpTo(T, j - 1))
  BY RankType
<1>3. Rank(T, i) <= Rank(T, j - 1)
  BY <1>1, <1>2, FS_Subset DEF Rank
<1>4. Rank(T, i) \in Nat /\ Rank(T, j - 1) \in Nat
  BY RankType
<1>5. Rank(T, j) = Rank(T, j - 1) + 1
  BY NextRank
<1> QED
  BY <1>3, <1>4, <1>5

\* Eviction leaves a list of operations, with every one that is not finished.
LEMMA EvictKeeps ==
    ASSUME NEW rs \in Seq(Ops)
    PROVE  /\ Evict(rs) \in Seq(Ops)
           /\ \A o \in Ops : Contains(rs, o) /\ op[o].status \notin Terminal =>
                 Contains(Evict(rs), o)
<1> DEFINE finished == {i \in DOMAIN rs : op[rs[i]].status \in Terminal}
           surplus == {i \in finished :
                         Cardinality({j \in finished : j < i}) < Len(rs) - MaxRecords}
           stay == DOMAIN rs \ surplus
           n == Len(rs)
           at(k) == CHOOSE i \in stay : Rank(stay, i) = k
<1>1. n \in Nat /\ DOMAIN rs = 1 .. n /\ stay \in SUBSET (1 .. n)
  BY LenProperties
<1>2. Evict(rs) = [k \in 1 .. Cardinality(stay) |-> rs[at(k)]]
  BY DEF Evict, Rank, UpTo
<1>3. \A i \in 1 .. n : op[rs[i]].status \notin Terminal => i \in stay
  BY <1>1
<1> HIDE DEF stay, n
<1>4. Cardinality(stay) \in Nat
  BY <1>1, RankType
<1>5. ASSUME NEW k \in 1 .. Cardinality(stay)
      PROVE  at(k) \in stay /\ Rank(stay, at(k)) = k
  BY <1>1, RanksAreHit
<1> HIDE DEF at
<1>6. \A k \in 1 .. Cardinality(stay) : rs[at(k)] \in Ops
  <2>1. \A i \in 1 .. n : rs[i] \in Ops
    BY ElementOfSeq DEF n
  <2> QED
    BY <1>1, <1>5, <2>1
<1>7. Evict(rs) \in Seq(Ops) /\ Len(Evict(rs)) = Cardinality(stay)
  BY <1>2, <1>4, <1>6, IsASeq
<1>8. ASSUME NEW o \in Ops, Contains(rs, o), op[o].status \notin Terminal
      PROVE  Contains(Evict(rs), o)
  <2>1. PICK i \in 1 .. n : rs[i] = o
    BY <1>8 DEF Contains, n
  <2>2. i \in stay
    BY <1>3, <1>8, <2>1
  <2> DEFINE k == Rank(stay, i)
  <2>3. k \in Nat /\ k <= Cardinality(stay) /\ k # 0
    <3>1. k \in Nat /\ k <= Cardinality(stay) /\ Rank(stay, i - 1) \in Nat
      BY <1>1, RankType
    <3>2. k = Rank(stay, i - 1) + 1
      BY <1>1, <2>1, <2>2, NextRank
    <3> QED
      BY <3>1, <3>2
  <2>4. k \in 1 .. Cardinality(stay)
    BY <1>4, <2>3
  <2>5. at(k) \in stay /\ Rank(stay, at(k)) = Rank(stay, i)
    BY <1>5, <2>4
  <2>6. at(k) \in 1 .. n /\ i \in 1 .. n /\ Rank(stay, i) \in Nat
    BY <1>1, <2>3, <2>5
  <2> HIDE DEF k
  <2>7. ~(at(k) < i) /\ ~(i < at(k))
    <3>1. at(k) < i => Rank(stay, at(k)) < Rank(stay, i)
      BY <1>1, <2>2, <2>5, RanksDiffer
    <3>2. i < at(k) => Rank(stay, i) < Rank(stay, at(k))
      BY <1>1, <2>2, <2>5, RanksDiffer
    <3> QED
      BY <2>5, <2>6, <3>1, <3>2
  <2>8. at(k) = i
    BY <2>6, <2>7
  <2>9. Evict(rs)[k] = o
    BY <1>2, <2>1, <2>4, <2>8
  <2> QED
    BY <1>7, <2>4, <2>9 DEF Contains
<1> QED
  BY <1>7, <1>8

-----------------------------------------------------------------------------
(* What a client finds, and who holds the lock.                                *)

RegistryInv ==
    /\ records \in Seq(Ops)
    /\ ActiveIsListed
    /\ dirty \in BOOLEAN
    /\ lock \in BOOLEAN /\ (lock <=> worker.step \in {"recheck", "save"})

LEMMA RegistryInit == Init => RegistryInv
<1> SUFFICES ASSUME Init PROVE RegistryInv
  OBVIOUS
<1>1. \A o \in Ops : op[o].status \notin Active
  BY DEF Init, NotAsked, Active
<1>2. records \in Seq(Ops) /\ lock = FALSE /\ worker.step = "idle"
  BY DEF Init, IdleWorker
<1> QED
  BY <1>1, <1>2 DEF Init, RegistryInv, ActiveIsListed

\* Nothing of it changes when no operation becomes active.
LEMMA RegistryKept ==
    ASSUME RegistryInv, UNCHANGED records,
           \A o \in Ops : op'[o].status \in Active => op[o].status \in Active,
           dirty' \in BOOLEAN, lock' \in BOOLEAN,
           lock' <=> worker'.step \in {"recheck", "save"}
    PROVE  RegistryInv'
BY DEF RegistryInv, ActiveIsListed

\* The status of the running operation changes.
LEMMA RunningKept ==
    ASSUME IInv, worker.step # "idle", NEW status, SetStatus(worker.op, status),
           NEW o \in Ops, op'[o].status \in Active
    PROVE  op[o].status \in Active
BY DEF IInv, OpsInv, WorkerInv, SetStatus

LEMMA AcceptRegistry ==
    ASSUME IInv, RegistryInv, NEW o \in Ops, Accept(o)
    PROVE  RegistryInv'
<1> DEFINE rs == Append(records, o)
<1>1. /\ records' = Evict(rs) /\ UNCHANGED <<dirty, worker, lock>>
      /\ op[o].status = "checked" /\ op' = [op EXCEPT ![o].status = "queued"]
  BY DEF Accept, SetStatus, workspace
<1>2. /\ rs \in Seq(Ops) /\ Len(rs) = Len(records) + 1 /\ Len(records) \in Nat
      /\ rs[Len(records) + 1] = o
      /\ \A i \in 1 .. Len(records) : rs[i] = records[i]
  BY DEF RegistryInv
<1> HIDE DEF rs
<1>3. \A p \in Ops : p = o \/ Contains(records, p) => Contains(rs, p)
  BY <1>2 DEF Contains
<1>4. /\ records' \in Seq(Ops)
      /\ \A p \in Ops : Contains(rs, p) /\ op[p].status \notin Terminal => Contains(records', p)
  BY <1>1, <1>2, EvictKeeps
<1>5. ASSUME NEW p \in Ops, op'[p].status \in Active
      PROVE  Contains(records', p)
  <2>1. CASE p = o
    BY <1>1, <1>3, <1>4, <2>1 DEF Terminal
  <2>2. CASE p # o
    <3>1. op[p].status \in Active
      BY <1>1, <1>5, <2>2 DEF IInv, OpsInv
    <3> QED
      BY <1>3, <1>4, <3>1 DEF RegistryInv, ActiveIsListed, Active, Terminal
  <2> QED
    BY <2>1, <2>2
<1> QED
  BY <1>1, <1>4, <1>5 DEF RegistryInv, ActiveIsListed

LEMMA RestartRegistry == ASSUME IInv, RegistryInv, Restart PROVE RegistryInv'
<1>1. ASSUME NEW o \in Ops
      PROVE  op'[o].status \notin Active
  BY DEF Restart, Active, IInv, OpsInv
<1>2. records' \in Seq(Ops) /\ lock' = FALSE /\ worker'.step = "idle" /\ dirty' = dirty
  BY DEF Restart, IdleWorker, workspace
<1> QED
  BY <1>1, <1>2 DEF RegistryInv, ActiveIsListed

LEMMA FailRegistry ==
    ASSUME IInv, RegistryInv, worker.step # "idle", Fail
    PROVE  RegistryInv'
<1>1. \A o \in Ops : op'[o].status \in Active => op[o].status \in Active
  BY RunningKept DEF Fail
<1>2. records' = records /\ lock' = FALSE /\ worker'.step = "idle" /\ dirty' = dirty
  BY DEF Fail, IdleWorker, workspace
<1> QED
  BY <1>1, <1>2, RegistryKept DEF RegistryInv

LEMMA WorkRegistry == ASSUME IInv, RegistryInv, Work PROVE RegistryInv'
<1>0. worker = [worker EXCEPT !.step = worker.step] /\ dirty \in BOOLEAN
  BY DEF IInv, WorkerInv, RegistryInv
<1>1. CASE worker.step # "idle" /\ Fail
  BY <1>1, FailRegistry
<1>2. CASE \/ (Guard \/ SecondGuard \/ Recheck) /\ Current
           \/ Take \/ Preflight \/ Optimize \/ Lock \/ Save
  <2>1. UNCHANGED <<records, op>> /\ dirty' \in BOOLEAN
    BY <1>2 DEF Guard, SecondGuard, Recheck, Take, Preflight, Optimize, Lock, Save,
                workspace, RegistryInv
  <2>2. lock' \in BOOLEAN
    BY <1>2 DEF Guard, SecondGuard, Recheck, Take, Preflight, Optimize, Lock, Save, RegistryInv
  <2>3. lock' <=> worker'.step \in {"recheck", "save"}
    <3>1. \A step : Step(step) => worker'.step = step
      BY DEF Step, IInv, WorkerInv
    <3>2. \A step : ReadFiles(step) => worker'.step = step
      BY DEF ReadFiles, IInv, WorkerInv
    <3>3. Take => worker'.step = "guard" /\ worker.step = "idle"
      BY DEF Take, IdleWorker
    <3>4. lock <=> worker.step \in {"recheck", "save"}
      BY DEF RegistryInv
    <3>5. CASE (Guard \/ SecondGuard \/ Recheck) /\ Current
      BY <3>1, <3>4, <3>5 DEF Guard, SecondGuard, Recheck
    <3>6. CASE Preflight \/ Optimize
      <4>1. lock' = lock /\ worker.step \in {"preflight", "optimize"}
        BY <3>6 DEF Preflight, Optimize
      <4>2. worker'.step \in {"second guard", "commit"}
        BY <3>2, <3>6 DEF Preflight, Optimize
      <4>3. ~(worker'.step \in {"recheck", "save"}) /\ ~(worker.step \in {"recheck", "save"})
        BY <4>1, <4>2
      <4> QED
        BY <3>4, <4>1, <4>3
    <3>7. CASE Take
      BY <3>3, <3>4, <3>7 DEF Take
    <3>8. CASE Lock
      BY <3>1, <3>8 DEF Lock
    <3>9. CASE Save
      BY <3>1, <3>9 DEF Save
    <3> QED
      BY <1>2, <3>5, <3>6, <3>7, <3>8, <3>9
  <2> QED
    BY <2>1, <2>2, <2>3, RegistryKept
<1>3. CASE Restore
  <2>1. \A o \in Ops : op'[o].status \in Active => op[o].status \in Active
    BY <1>3, RunningKept DEF Restore
  <2> QED
    BY <1>3, <2>1, RegistryKept DEF Restore, workspace, RegistryInv, IInv, WorkerInv
<1>4. CASE \E written \in BOOLEAN : Record(written)
  <2>1. \A o \in Ops : op'[o].status \in Active => op[o].status \in Active
    BY <1>4, RunningKept DEF Record
  <2> QED
    BY <1>4, <2>1, RegistryKept DEF Record, IdleWorker, RegistryInv
<1> QED
  BY <1>1, <1>2, <1>3, <1>4
  DEF Work, Guard, SecondGuard, Recheck, OptimizeFails, SaveFails

LEMMA NextRegistry == ASSUME IInv, RegistryInv, [Next]_vars PROVE RegistryInv'
<1>1. CASE (\E d \in BOOLEAN : ChangeSession(d)) \/ ChangeFiles \/ UNCHANGED vars
  <2>1. UNCHANGED <<records, op, worker, lock>> /\ dirty' \in BOOLEAN
    BY <1>1 DEF ChangeSession, ChangeFiles, vars, workspace, RegistryInv
  <2> QED
    BY <2>1, RegistryKept DEF RegistryInv
<1>2. CASE \E o \in Ops, choice \in BOOLEAN : CheckVersion(o, choice) \/ Refuse(o)
  <2>1. PICK o \in Ops : \E choice \in BOOLEAN : CheckVersion(o, choice) \/ Refuse(o)
    BY <1>2
  <2>2. \A p \in Ops : op'[p].status \in Active => op[p].status \in Active
    BY <2>1 DEF CheckVersion, Refuse, SetStatus, IInv, OpsInv, Active
  <2>3. UNCHANGED <<records, dirty, worker, lock>>
    BY <2>1 DEF CheckVersion, Refuse, workspace
  <2> QED
    BY <2>2, <2>3, RegistryKept DEF RegistryInv
<1> QED
  BY <1>1, <1>2, AcceptRegistry, WorkRegistry, RestartRegistry DEF Next

LEMMA RegistryHolds == Spec => []RegistryInv
BY InvariantHolds, RegistryInit, NextRegistry, PTL DEF Spec

\* Operations, registry, queue and worker stay well formed, and the worker holds the
\* mutation lock exactly from the recheck to the end of its save.
THEOREM TypeCorrect == Spec => []TypeOK
<1>1. ASSUME IInv, RegistryInv
      PROVE  TypeOK
  <2>1. lock \in BOOLEAN /\ (lock <=> worker.step \in {"recheck", "save"})
    BY <1>1 DEF RegistryInv
  <2>2. worker \in [op: Ops \cup {Nobody},
                    step: {"idle", "guard", "restore", "preflight", "second guard",
                           "optimize", "commit", "recheck", "save", "record"},
                    session: Nat, files: SUBSET Nat]
    BY <1>1 DEF IInv, WorkerInv, Steps
  <2>3. records \in Seq(Ops) /\ dirty \in BOOLEAN
    BY <1>1 DEF RegistryInv
  <2>4. session \in Nat /\ files \in Nat /\ queue \in Seq(Ops)
    BY <1>1 DEF IInv, WorkspaceInv, QueueInv
  <2>5. op \in [Ops -> [status: Statuses, expected: Nat \X Nat, choice: BOOLEAN]]
    BY <1>1 DEF IInv, OpsInv
  <2> QED
    BY <2>1, <2>2, <2>3, <2>4, <2>5 DEF TypeOK, Statuses
<1> QED
  BY <1>1, InvariantHolds, RegistryHolds, PTL

\* A queued or running operation is in the registry, however small the registry is:
\* eviction takes finished ones only.
THEOREM PollersFindIt == Spec => []ActiveIsListed
<1>1. RegistryInv => ActiveIsListed
  BY DEF RegistryInv
<1> QED
  BY <1>1, RegistryHolds, PTL
=============================================================================
