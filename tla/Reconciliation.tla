--------------------------- MODULE Reconciliation ---------------------------
(***************************************************************************)
(* The reconciliation assistant: the request that builds an investigation, *)
(* the worker that runs Pi, the tool calls Pi makes meanwhile, the brief,  *)
(* the plan records kept in the session, and the operator who decides on a *)
(* brief or applies it, while other requests edit the draft.               *)
(***************************************************************************)
EXTENDS PackageSandbox, Sequences

CONSTANTS
    Packages,     \* the packages Pi tries
    Tasks,        \* the operator's constraints: protected, time-change exceptions
    MaxCalls,     \* max_tool_calls
    MaxPlans,     \* MAX_STORED_RECONCILIATION_PLANS
    Outcomes,     \* the drafts that an optimizer run may return
    MaxInv,       \* bound: investigations
    MaxTurns,     \* bound: requests of the operator
    MaxRuns       \* bound: optimizer runs

ASSUME ReconciliationAssumption ==
    /\ {MaxCalls, MaxPlans, MaxRuns} \subseteq Nat \ {0}
    /\ {MaxInv, MaxTurns} \subseteq Nat
    /\ NoPackage \notin Packages
    /\ \A p \in Packages : /\ DOMAIN p \subseteq Lessons
                           /\ \A l \in DOMAIN p : p[l] \in Spots \cup {Withdraw}
    /\ Outcomes \subseteq [Lessons -> Entries]
    /\ \A d \in Outcomes : Sound(d) /\ \A l \in Lessons : d[l].time = Requested[l]

VARIABLES
    draft, signed,  \* the entries, and the lessons whose entry has a confirmation
    run,            \* optimizer_run_id, 0 is none
    plans,          \* reconciliation_plans of the session, by investigation
    memory,         \* reconciliation_decision_memory as the session file has it
    inv,            \* the investigation objects in memory, in creation order
    queue,          \* the executor's queue
    worker,         \* the running investigation and the step of its operation
    turns, runs     \* how many steps of the operator and optimizer runs there were

session == <<draft, signed, run, plans, memory>>
vars == <<session, inv, queue, worker, turns, runs>>

Invs == 1..MaxInv
NoBrief == [status |-> "none", termination |-> "none",
            primary |-> NoPackage, fallback |-> NoPackage]
NoTask == [protect |-> {}, allow |-> {}]
Blank == [l \in Lessons |-> [room |-> Nowhere, time |-> Requested[l]]]
IdleWorker == [on |-> 0, step |-> "idle"]
Answered == {"completed", "failed"}

Built == Len(inv)
Live(i) == worker.on = i

-----------------------------------------------------------------------------
(* The investigation object.                                                 *)

\* Mutant of ConsumeToolCall: the budget is checked after the call.
ConsumeToolCallOnce(v) == v.brief = NoBrief /\ v.calls <= MaxCalls

\* _consume_tool_call: exploration ends with the brief or the budget.
ConsumeToolCall(v) == v.brief = NoBrief /\ v.calls < MaxCalls

\* What submit_reconciliation_brief requires of the packages a brief names.
Offerable(v, p, q) ==
    /\ p # q
    /\ \A o \in {p, q} \ {NoPackage} : o \in v.sims /\ Usable(v.snapshot, o)
    /\ q # NoPackage => p # NoPackage /\ ~Dominates(v.snapshot, q, p)
    /\ Withdrawn(p) # {} => \A o \in v.sims \ {p} : ~Preserving(v.snapshot, o)

NothingPlaces(v) == \A o \in v.sims : ~Placing(v.snapshot, o)

\* Mutant of Submittable: what was simulated is not looked at.
SubmittableBlind(v, b) ==
    /\ v.brief = NoBrief
    /\ CASE b.termination = "recommendation_ready" -> Offerable(v, b.primary, b.fallback)
         [] b.termination = "no_feasible_package_found" ->
               b.primary = NoPackage /\ b.fallback = NoPackage /\ v.inspected
         [] b.termination = "budget_exhausted" ->
               v.calls >= MaxCalls /\
               (b.primary # NoPackage \/ b.fallback # NoPackage => Offerable(v, b.primary, b.fallback))

Submittable(v, b) ==
    /\ v.brief = NoBrief
    /\ b.primary # NoPackage \/ b.fallback # NoPackage => Offerable(v, b.primary, b.fallback)
    /\ CASE b.termination = "recommendation_ready" -> b.primary # NoPackage
         [] b.termination = "no_feasible_package_found" ->
               /\ b.primary = NoPackage /\ b.fallback = NoPackage
               /\ NothingPlaces(v) /\ v.inspected
         [] b.termination = "budget_exhausted" -> v.calls >= MaxCalls

Briefs(packages) ==
    [status: {"proposed"},
     termination: {"recommendation_ready", "no_feasible_package_found", "budget_exhausted"},
     primary: packages \cup {NoPackage}, fallback: packages \cup {NoPackage}]

\* The sort key of close_at_server_bound: preserving first, then what it resolves,
\* what remains, the room switches.
Before(d, p, q) ==
    LET kp == <<IF Preserving(d, p) THEN 0 ELSE 1, -Resolved(d, p), Costs(d, p).switches>>
        kq == <<IF Preserving(d, q) THEN 0 ELSE 1, -Resolved(d, q), Costs(d, q).switches>>
    IN  \E n \in 1..3 : kp[n] < kq[n] /\ \A m \in 1..(n - 1) : kp[m] = kq[m]

FirstOf(d, ps) ==
    IF ps = {} THEN {NoPackage} ELSE {p \in ps : \A q \in ps : ~Before(d, q, p)}

\* The briefs the server may write at a bound; equal keys are in simulation order.
BoundBriefs(v) ==
    LET placing == {p \in v.sims : Placing(v.snapshot, p)}
        pairs == UNION {{<<p, q>> : q \in FirstOf(v.snapshot, placing \ {p})} :
                           p \in FirstOf(v.snapshot, placing)}
    IN  {[status |-> "proposed", termination |-> "budget_exhausted",
          primary |-> pq[1], fallback |-> pq[2]] : pq \in pairs}

\* submit_reconciliation_brief does not take every brief the server writes.
Closable(v, b) == b.primary # NoPackage => Offerable(v, b.primary, b.fallback)

-----------------------------------------------------------------------------
(* The session and its plan records.                                         *)

\* Any save of the session moves the workspace version on.
Outdated(f) == [i \in 1..Len(f) |-> [f[i] EXCEPT !.fresh = FALSE]]

\* persisted_record; the simulations the brief does not name are of no use to it.
Record(i, status) ==
    [run |-> inv[i].run, created |-> inv[i].created,
     snapshot |-> inv[i].snapshot, task |-> inv[i].task,
     spent |-> inv[i].calls >= MaxCalls, brief |-> inv[i].brief, operation |-> status]

\* Mutant of Stored: the sort is not reversed.
StoredOldest(i, record) ==
    LET all == [k \in DOMAIN plans \cup {i} |-> IF k = i THEN record ELSE plans[k]]
        Ahead(j, k) == \/ all[j].created < all[k].created
                       \/ all[j].created = all[k].created /\ j < k
        kept == {k \in DOMAIN all : Cardinality({j \in DOMAIN all : Ahead(j, k)}) < MaxPlans}
    IN  [k \in kept |-> all[k]]

\* Sorted by created_at, the latest first; the sort is stable, so plans of one second
\* stay in the order in which they were saved.  The first MaxPlans stay.
Stored(i, record) ==
    LET all == [k \in DOMAIN plans \cup {i} |-> IF k = i THEN record ELSE plans[k]]
        Ahead(j, k) == \/ all[j].created > all[k].created
                       \/ all[j].created = all[k].created /\ j < k
        kept == {k \in DOMAIN all : Cardinality({j \in DOMAIN all : Ahead(j, k)}) < MaxPlans}
    IN  [k \in kept |-> all[k]]

\* Mutant of Persist: the record is saved into whatever run is there.
PersistAnyRun(i, record) ==
    /\ plans' = Stored(i, record)
    /\ memory' = {}
    /\ UNCHANGED <<draft, signed, run>>

\* _persist_private_investigation.  The decisions of the plans that leave are put
\* into the edit session, which is saved without them.
Persist(i, record) ==
    /\ record.run = run
    /\ plans' = Stored(i, record)
    /\ memory' = {}
    /\ UNCHANGED <<draft, signed, run>>

-----------------------------------------------------------------------------
(* Requests.  Each holds the mutation lock from its version check to its     *)
(* answer; the worker takes it to save.                                      *)

Turn == turns < MaxTurns /\ turns' = turns + 1

\* created_at counts seconds: that of the investigation before, or a later one.
Seconds == IF Built = 0 THEN {0} ELSE {inv[Built].created, inv[Built].created + 1}

Investigate(task) ==
    /\ Turn
    /\ run # 0
    /\ Built < MaxInv
    /\ Unresolved(draft) # {}
    /\ \E second \in Seconds :
          inv' = Append(inv, [status |-> "queued", run |-> run, created |-> second,
                              snapshot |-> draft, task |-> task, fresh |-> TRUE,
                              sims |-> {}, calls |-> 0, inspected |-> FALSE,
                              brief |-> NoBrief])
    /\ queue' = Append(queue, Built + 1)
    /\ UNCHANGED <<session, worker, runs>>

\* An edit of the operator: it moves, places or unassigns a lesson.  A changed hour
\* needs the teacher's confirmation and a teacher who is not fixed to his hours; an
\* unassigned entry keeps its confirmation.
Edit(l, place) ==
    LET p == [k \in {l} |-> place]
    IN  /\ run # 0
        /\ IF place = Withdraw THEN l \in Placed(draft)
           ELSE Fits(After(draft, p), l) /\ draft[l] # place
        /\ Required(draft, p) \cap Fixed = {}
        /\ draft' = After(draft, p)
        /\ signed' = signed \cup Retimed(draft, p)
        /\ Turn
        /\ inv' = Outdated(inv)
        /\ UNCHANGED <<run, plans, memory, queue, worker, runs>>

\* Another tracked file changes.
ChangeFiles ==
    /\ Turn
    /\ inv' = Outdated(inv)
    /\ inv' # inv
    /\ UNCHANGED <<session, queue, worker, runs>>

\* Reset, the next round: no draft, no run, no plans.
Clear ==
    /\ Turn
    /\ run # 0
    /\ draft' = Blank
    /\ signed' = {}
    /\ run' = 0
    /\ plans' = <<>>
    /\ memory' = {}
    /\ inv' = Outdated(inv)
    /\ UNCHANGED <<queue, worker, runs>>

\* set_decision has no look at the schedule, nor at an earlier decision.
Decide(i, decision) ==
    /\ Turn
    /\ i \in DOMAIN plans
    /\ plans[i].brief # NoBrief
    /\ Persist(i, [plans[i] EXCEPT !.brief.status = decision, !.operation = "completed"])
    /\ inv' = Outdated(inv)
    /\ UNCHANGED <<queue, worker, runs>>

\* The packages an apply request can name: an option of the brief, or what the two
\* options share, simulated again within the budget.
Options(r) == {r.brief.primary, r.brief.fallback} \ {NoPackage}
Shared(r) ==
    IF Cardinality(Options(r)) < 2 \/ r.spent THEN {}
    ELSE {p \in {Common(r.brief.primary, r.brief.fallback)} \ {NoPackage} :
             Permitted(r.snapshot, p, r.task) /\ Usable(r.snapshot, p)}

\* Mutant of Applicable: the schedule may have changed.
ApplicableStale(r, p) ==
    /\ r.brief.status \in {"proposed", "pursuing"}
    /\ p \in Options(r) \cup Shared(r)
    /\ Works(draft, p)

Applicable(r, p) ==
    /\ r.snapshot = draft
    /\ r.brief.status \in {"proposed", "pursuing"}
    /\ p \in Options(r) \cup Shared(r)
    /\ Works(draft, p)

\* Mutant of Commit: the confirmations are not attached.
CommitUnsigned(p, confirmed) ==
    /\ draft' = After(draft, p)
    /\ signed' = signed

\* The package becomes one compound record of the history; every retimed lesson
\* carries its teacher's confirmation.
Commit(p, confirmed) ==
    /\ draft' = After(draft, p)
    /\ signed' = signed \cup {l \in Retimed(draft, p) : Teacher[l] \in confirmed}

\* The schedule is saved first; that the plan could not be updated afterwards is
\* only a warning.
Apply(i, p, confirmed, authorized, recorded) ==
    /\ Turn
    /\ Required(draft, p) \subseteq confirmed
    /\ Withdrawn(p) \subseteq authorized
    /\ Commit(p, confirmed)
    /\ plans' = IF recorded THEN [plans EXCEPT ![i].operation = "applied"] ELSE plans
    /\ inv' = Outdated(inv)
    /\ UNCHANGED <<run, memory, queue, worker, runs>>

-----------------------------------------------------------------------------
(* Tool calls, while the capability of the running investigation lives.      *)

Inspect(i) ==
    /\ Live(i)
    /\ ConsumeToolCall(inv[i])
    /\ inv' = [inv EXCEPT ![i].calls = @ + 1, ![i].inspected = TRUE]
    /\ UNCHANGED <<session, queue, worker, turns, runs>>

\* Against the workspace version of the request; a package the task forbids costs a
\* call and leaves no simulation, and so does one that was simulated before.
Simulate(i, p) ==
    /\ Live(i)
    /\ inv[i].fresh
    /\ ConsumeToolCall(inv[i])
    /\ inv' = [inv EXCEPT ![i].calls = @ + 1,
                          ![i].sims = IF Permitted(inv[i].snapshot, p, inv[i].task)
                                        THEN @ \cup {p} ELSE @]
    /\ UNCHANGED <<session, queue, worker, turns, runs>>

\* A brief is not checked against the workspace version.
Submit(i, b) ==
    /\ Live(i)
    /\ Submittable(inv[i], b)
    /\ inv' = [inv EXCEPT ![i].brief = b]
    /\ UNCHANGED <<session, queue, worker, turns, runs>>

-----------------------------------------------------------------------------
(* The worker: run_pi_reconciliation_operation.                              *)

Step(step) == worker' = [worker EXCEPT !.step = step]

\* The operation ends and its investigation object is dropped with the capability;
\* when it was created is kept for the properties.
End(i, status) ==
    /\ inv' = [(IF plans' = plans THEN inv ELSE Outdated(inv)) EXCEPT ![i] =
                  [status |-> status, run |-> 0, snapshot |-> Blank,
                   created |-> inv[i].created, task |-> NoTask, fresh |-> FALSE, sims |-> {}, calls |-> 0,
                   inspected |-> FALSE, brief |-> NoBrief]]
    /\ worker' = IdleWorker
    /\ UNCHANGED <<queue, turns, runs>>

\* Optimizer runs share the executor.
RunOptimizer(d) ==
    /\ Turn
    /\ worker = IdleWorker
    /\ runs < MaxRuns
    /\ draft' = d
    /\ signed' = {}
    /\ run' = runs + 1
    /\ runs' = runs + 1
    /\ plans' = <<>>
    /\ memory' = {}
    /\ inv' = Outdated(inv)
    /\ UNCHANGED <<queue, worker>>

Take ==
    /\ worker = IdleWorker
    /\ queue # <<>>
    /\ worker' = [on |-> Head(queue), step |-> "rpc"]
    /\ inv' = [inv EXCEPT ![Head(queue)].status = "running"]
    /\ queue' = Tail(queue)
    /\ UNCHANGED <<session, turns, runs>>

\* Pi settles, or a bound stops it: the clock, its exit, an unfinished turn.
RpcEnds ==
    /\ worker.step = "rpc"
    /\ Step("close")
    /\ UNCHANGED <<session, inv, queue, turns, runs>>

\* Any other failure of the RPC: no answer, no metadata, no JSON.
RpcFails ==
    /\ worker.step = "rpc"
    /\ Step("handler")
    /\ UNCHANGED <<session, inv, queue, turns, runs>>

\* Mutant of CloseAtBound: the server's brief takes the place of Pi's.
CloseAtBoundAlways(i) ==
    /\ worker.step = "close"
    /\ \E b \in BoundBriefs(inv[i]) :
          /\ Closable(inv[i], b)
          /\ inv' = [inv EXCEPT ![i].brief = b]
    /\ Step("save")
    /\ UNCHANGED <<session, queue, turns, runs>>

\* close_at_bound.
CloseAtBound(i) ==
    /\ worker.step = "close"
    /\ IF inv[i].brief # NoBrief THEN UNCHANGED inv
       ELSE \E b \in BoundBriefs(inv[i]) :
               /\ Closable(inv[i], b)
               /\ inv' = [inv EXCEPT ![i].brief = b]
    /\ Step("save")
    /\ UNCHANGED <<session, queue, turns, runs>>

\* The server's own brief is refused: no brief at all.
CloseRaises(i) ==
    /\ worker.step = "close"
    /\ inv[i].brief = NoBrief
    /\ \E b \in BoundBriefs(inv[i]) : ~Closable(inv[i], b)
    /\ Step("failing")
    /\ UNCHANGED <<session, inv, queue, turns, runs>>

Save(i) ==
    /\ worker.step = "save"
    /\ Persist(i, Record(i, "completed"))
    /\ End(i, "completed")

\* The run changed, the save conflicts or cannot be written.
SaveRaises ==
    /\ worker.step = "save"
    /\ Step("failing")
    /\ UNCHANGED <<session, inv, queue, turns, runs>>

\* The learning record is written after the plan.
LedgerRaises(i) ==
    /\ worker.step = "save"
    /\ Persist(i, Record(i, "completed"))
    /\ inv' = Outdated(inv)
    /\ Step("failing")
    /\ UNCHANGED <<queue, turns, runs>>

\* A brief that was submitted before the RPC failed is saved all the same.
HandlerSaves(i) ==
    /\ worker.step = "handler"
    /\ inv[i].brief # NoBrief
    /\ Persist(i, Record(i, "completed"))
    /\ End(i, "completed")

HandlerFails(i) ==
    /\ worker.step = "handler"
    /\ inv[i].brief = NoBrief
    /\ Step("failing")
    /\ UNCHANGED <<session, inv, queue, turns, runs>>

\* An exception of the handler's own save, or of the learning record after it, leaves
\* the function; the future that carries it is dropped.
HandlerRaises(i) ==
    /\ worker.step = "handler"
    /\ inv[i].brief # NoBrief
    /\ \/ UNCHANGED session
       \/ Persist(i, Record(i, "completed"))
    /\ End(i, "running")

\* The failed attempt is kept if it can be; the operation is answered anyway.
FailAttempt(i) ==
    /\ worker.step = "failing"
    /\ \/ Persist(i, Record(i, "failed"))
       \/ UNCHANGED session
    /\ End(i, "failed")

Work ==
    \/ Take
    \/ RpcEnds
    \/ RpcFails
    \/ SaveRaises
    \/ \E i \in DOMAIN inv :
          /\ Live(i)
          /\ \/ CloseAtBound(i) \/ CloseRaises(i) \/ Save(i) \/ LedgerRaises(i)
             \/ HandlerSaves(i) \/ HandlerFails(i) \/ HandlerRaises(i) \/ FailAttempt(i)

-----------------------------------------------------------------------------
Init ==
    /\ draft \in Outcomes
    /\ signed = {}
    /\ run = 1
    /\ plans = <<>>
    /\ memory = {}
    /\ inv = <<>>
    /\ queue = <<>>
    /\ worker = IdleWorker
    /\ turns = 0
    /\ runs = 1

Tool ==
    \E i \in DOMAIN inv :
       \/ Inspect(i)
       \/ \E p \in Packages : Simulate(i, p)
       \/ Live(i) /\ \E b \in Briefs(inv[i].sims) : Submit(i, b)

ApplySome ==
    \E i \in DOMAIN plans :
       \E p \in Options(plans[i]) \cup Shared(plans[i]) :
          /\ Applicable(plans[i], p)
          /\ \E confirmed \in SUBSET Teachers, authorized \in SUBSET Lessons,
                recorded \in BOOLEAN : Apply(i, p, confirmed, authorized, recorded)

Next ==
    \/ \E task \in Tasks : Investigate(task)
    \/ \E l \in Lessons, place \in Spots \cup {Withdraw} : Edit(l, place)
    \/ ChangeFiles
    \/ Clear
    \/ \E i \in Invs, decision \in {"pursuing", "rejected"} : Decide(i, decision)
    \/ ApplySome
    \/ Tool
    \/ \E d \in Outcomes : RunOptimizer(d)
    \/ Work

Spec == Init /\ [][Next]_vars

-----------------------------------------------------------------------------
(* Properties. *)

\* Everything is well formed; only the running investigation holds evidence, within
\* its budget, and at most MaxPlans plans are kept.
TypeOK ==
    /\ draft \in [Lessons -> Entries] /\ signed \subseteq Lessons
    /\ run \in 0..MaxRuns
    /\ DOMAIN plans \subseteq 1..Built /\ Cardinality(DOMAIN plans) <= MaxPlans
    /\ \A i \in DOMAIN inv :
          /\ inv[i].status \in {"queued", "running"} \cup Answered
          /\ inv[i].calls <= MaxCalls
          /\ inv[i].sims # {} => Live(i)
          /\ inv[i].brief \in Briefs(inv[i].sims) \cup {NoBrief}
    /\ worker.step \in {"idle", "rpc", "close", "save", "handler", "failing"}

\* Whatever was applied or edited, in any order, the draft has no clash, and every
\* lesson off its requested time carries its teacher's confirmation.  So does one that
\* was withdrawn there: it may come back at that hour and nobody asks again.
DraftSound ==
    /\ Sound(draft)
    /\ \A l \in Lessons : draft[l].time # Requested[l] => l \in signed

\* A brief is true to everything that was simulated, however late a call came: "no
\* package" means none places a lesson, and a sacrifice is offered only when no
\* simulated package spares the placed lessons.
HonestBrief ==
    \A v \in {inv[i] : i \in DOMAIN inv} :
       /\ v.brief.termination = "no_feasible_package_found" => NothingPlaces(v)
       /\ v.brief.primary # NoPackage => Offerable(v, v.brief.primary, v.brief.fallback)

\* A plan belongs to the optimizer run the session holds, even when the run changed
\* while its investigation was at work.
PlansBelongToRun == \A i \in DOMAIN plans : plans[i].run = run

\* Once there is a brief, it and its evidence stay what they are until the
\* operation ends, whatever the server closes and Pi still calls.
BriefIsFinal ==
    [][\A i \in DOMAIN inv :
          inv[i].brief # NoBrief /\ worker'.on = i =>
             inv'[i].brief = inv[i].brief /\ inv'[i].sims = inv[i].sims]_vars

\* A completed investigation leaves its plan for the operator.  A plan of the run goes
\* only where others stay, and none of those is of an earlier second.  Of one second
\* the plan that was saved first stays, be it the older one.
NewestPlanStays ==
    [][\A i \in DOMAIN inv :
          /\ i \in DOMAIN plans \/ (inv[i].status # "completed" /\ inv'[i].status = "completed")
          /\ run' = run
          /\ i \notin DOMAIN plans'
          => /\ DOMAIN plans' # {}
             /\ \A j \in DOMAIN plans' : plans'[j].created >= inv[i].created]_vars

\* What an apply leaves in the draft is the state that the simulation showed, of an
\* option or of what the options share, however the schedule changed since.
AppliesWhatWasShown ==
    [][draft' # draft /\ turns' # turns =>
          \A i \in DOMAIN plans : \A p \in Packages \cup Shared(plans[i]) :
             /\ Applicable(plans[i], p)
             /\ \E recorded \in BOOLEAN : Apply(i, p, Teachers, Lessons, recorded)
             => draft' = After(plans[i].snapshot, p)]_vars

\* A decision of the operator is task memory for the next investigation of the same
\* run, also when its plan is no longer stored.
DecisionsAreRemembered ==
    [][run' = run /\ run # 0 =>
          \A i \in DOMAIN plans :
             plans[i].brief.status \in {"rejected", "pursuing"} =>
                i \in DOMAIN plans' \cup memory']_vars
=============================================================================
