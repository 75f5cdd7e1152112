----------------------- MODULE Reconciliation_proofs -----------------------
(***************************************************************************)
(* Safety of the reconciliation assistant for any lessons, packages, tasks *)
(* and bounds.  A package is checked as a whole on the state it leaves, so *)
(* a draft without clashes stays one whatever the package contains; a plan *)
(* is saved only into the run it was made for.                             *)
(***************************************************************************)
EXTENDS Reconciliation, SequenceTheorems, FiniteSetTheorems, TLAPS

-----------------------------------------------------------------------------
(* Packages. *)

\* If every targeted lesson fits where the package leaves it, nobody clashes.
LEMMA AfterIsSound ==
    ASSUME NEW d, NEW p, Sound(d), \A l \in Targeted(p) : Fits(After(d, p), l)
    PROVE  Sound(After(d, p))
<1> DEFINE e == After(d, p)
<1> SUFFICES ASSUME NEW l \in Placed(e)
             PROVE  Fits(e, l)
  BY DEF Sound
<1>1. \A k \in Placed(e) : k \in Targeted(p) \/ (k \in Placed(d) /\ e[k] = d[k])
  BY DEF Placed, Unresolved, After, Targeted, Withdrawn
<1>2. CASE l \in Targeted(p)
  BY <1>2
<1>3. CASE l \in Placed(d) /\ e[l] = d[l]
  <2>1. Fits(d, l)
    BY <1>3 DEF Sound
  <2>2. ASSUME NEW k \in Placed(e) \ {l}, e[k].time = e[l].time
        PROVE  e[k].room # e[l].room /\ Teacher[k] # Teacher[l]
    <3>1. CASE k \in Targeted(p)
      <4>1. Fits(e, k)
        BY <3>1
      <4> QED
        BY <2>2, <4>1 DEF Fits
    <3>2. CASE k \in Placed(d) /\ e[k] = d[k]
      BY <1>3, <2>1, <2>2, <3>2 DEF Fits
    <3> QED
      BY <1>1, <3>1, <3>2
  <2> HIDE DEF e
  <2> QED
    BY <1>3, <2>1, <2>2 DEF Fits
<1> QED
  BY <1>1, <1>2, <1>3

\* Every lesson off its requested time is in S, one without a room at the hour it last
\* held as well.
Signed(d, S) == \A l \in Lessons : d[l].time # Requested[l] => l \in S

\* What a package retimes is exactly what needs a new confirmation.
LEMMA AfterIsSigned ==
    ASSUME NEW d \in [Lessons -> Entries], NEW p, NEW S, Signed(d, S)
    PROVE  Signed(After(d, p), S \cup Retimed(d, p))
<1> SUFFICES ASSUME NEW l \in Lessons, After(d, p)[l].time # Requested[l]
             PROVE  l \in S \cup Retimed(d, p)
  BY DEF Signed
<1>1. CASE l \in Targeted(p)
  <2>1. After(d, p)[l] = p[l]
    BY <1>1 DEF After, Targeted, Withdrawn
  <2>2. l \notin Retimed(d, p) => p[l].time = d[l].time
    BY <1>1 DEF Retimed
  <2> QED
    BY <2>1, <2>2 DEF Signed
<1>2. CASE l \notin Targeted(p)
  <2>1. After(d, p)[l] \in {d[l], [d[l] EXCEPT !.room = Nowhere]}
    BY <1>2 DEF After, Targeted
  <2>2. d[l] \in Entries
    OBVIOUS
  <2>3. [d[l] EXCEPT !.room = Nowhere].time = d[l].time
    BY <2>2 DEF Entries
  <2> QED
    BY <2>1, <2>3 DEF Signed
<1> QED
  BY <1>1, <1>2

\* A generated draft leaves every lesson at its requested time.
LEMMA OutcomesAreSound ==
    ASSUME NEW d \in Outcomes, NEW S
    PROVE  Sound(d) /\ Signed(d, S)
<1>1. Sound(d) /\ \A l \in Lessons : d[l].time = Requested[l]
  BY ReconciliationAssumption
<1> QED
  BY <1>1 DEF Signed

-----------------------------------------------------------------------------
(* Plans. *)

LEMMA ToolKeepsSession ==
    ASSUME Tool
    PROVE  UNCHANGED session
BY DEF Tool, Inspect, Simulate, Submit

\* Every stored plan is a record with a run, and that is the run of the session.
PlanInv == \A i \in DOMAIN plans : "run" \in DOMAIN plans[i] /\ plans[i].run = run

\* The record is one of the present run; the others were there before.
LEMMA PersistHolds ==
    ASSUME PlanInv, NEW i, NEW record, "run" \in DOMAIN record, Persist(i, record)
    PROVE  PlanInv'
<1>1. /\ DOMAIN plans' \subseteq DOMAIN plans \cup {i}
      /\ \A k \in DOMAIN plans' : plans'[k] = IF k = i THEN record ELSE plans[k]
  BY DEF Persist, Stored
<1> QED
  BY <1>1 DEF PlanInv, Persist

LEMMA RecordHasRun ==
    ASSUME NEW i, NEW status
    PROVE  "run" \in DOMAIN Record(i, status)
BY DEF Record

LEMMA PlansStay ==
    ASSUME PlanInv, UNCHANGED <<run, plans>>
    PROVE  PlanInv'
BY DEF PlanInv

LEMMA PlansCleared ==
    ASSUME plans' = <<>>
    PROVE  PlanInv'
BY DEF PlanInv

LEMMA PlanNext ==
    ASSUME PlanInv, [Next]_vars
    PROVE  PlanInv'
<1>1. CASE \E task \in Tasks : Investigate(task)
  BY <1>1, PlansStay DEF Investigate, session
<1>2. CASE \E l \in Lessons, place \in Spots \cup {Withdraw} : Edit(l, place)
  BY <1>2, PlansStay DEF Edit
<1>3. CASE ChangeFiles
  BY <1>3, PlansStay DEF ChangeFiles, session
<1>4. CASE Clear \/ \E d \in Outcomes : RunOptimizer(d)
  BY <1>4, PlansCleared DEF Clear, RunOptimizer
<1>5. CASE \E i \in Invs, decision \in {"pursuing", "rejected"} : Decide(i, decision)
  <2>1. PICK i \in Invs, decision \in {"pursuing", "rejected"} : Decide(i, decision)
    BY <1>5
  <2> DEFINE record == [plans[i] EXCEPT !.brief.status = decision, !.operation = "completed"]
  <2>2. i \in DOMAIN plans /\ Persist(i, record)
    BY <2>1 DEF Decide
  <2>3. "run" \in DOMAIN record
    BY <2>2 DEF PlanInv
  <2> HIDE DEF record
  <2> QED
    BY <2>2, <2>3, PersistHolds
<1>6. CASE ApplySome
  <2>1. PICK i \in DOMAIN plans :
          plans' \in {[plans EXCEPT ![i].operation = "applied"], plans}
    BY <1>6 DEF ApplySome, Apply
  <2>2. run' = run
    BY <1>6 DEF ApplySome, Apply
  <2> QED
    BY <2>1, <2>2 DEF PlanInv
<1>7. CASE Tool
  BY <1>7, ToolKeepsSession, PlansStay DEF session
<1>8. CASE Work
  <2>1. CASE \E i, status : Persist(i, Record(i, status))
    BY <2>1, RecordHasRun, PersistHolds
  <2>2. CASE UNCHANGED session
    BY <2>2, PlansStay DEF session
  <2> QED
    BY <1>8, <2>1, <2>2
    DEF Work, Take, RpcEnds, RpcFails, SaveRaises, CloseAtBound, CloseRaises, Save,
        LedgerRaises, HandlerSaves, HandlerFails, HandlerRaises, FailAttempt
<1>9. CASE UNCHANGED vars
  BY <1>9, PlansStay DEF vars, session
<1> QED
  BY <1>1, <1>2, <1>3, <1>4, <1>5, <1>6, <1>7, <1>8, <1>9 DEF Next

\* A stored plan is always one of the optimizer run that the session holds, although
\* its investigation may have been at work while the run was replaced.
THEOREM PlansAreOfTheRun == Spec => []PlansBelongToRun
<1>1. Init => PlanInv
  BY DEF Init, PlanInv
<1>2. PlanInv /\ [Next]_vars => PlanInv'
  BY PlanNext
<1>3. PlanInv => PlansBelongToRun
  BY DEF PlanInv, PlansBelongToRun
<1> QED
  BY <1>1, <1>2, <1>3, PTL DEF Spec

-----------------------------------------------------------------------------
(* Sets of numbers. *)

LEMMA LeastNatural ==
    ASSUME NEW T \in SUBSET Nat, T # {}
    PROVE  \E x \in T : \A y \in T : x <= y
<1> DEFINE R == OpToRel(<, Nat)
<1>1. IsWellFoundedOn(R, Nat)
  BY NatLessThanWellFounded
<1>2. R = {ss \in Nat \X Nat : ss[1] < ss[2]}
  BY DEF OpToRel
<1> HIDE DEF R
<1>3. PICK x \in T : \A y \in T : ~(<<y, x>> \in R)
  BY <1>1, WFMin
<1>4. ASSUME NEW y \in T
      PROVE  x <= y
  <2>1. x \in Nat /\ y \in Nat /\ <<y, x>> \notin R
    BY <1>3
  <2>2. ~(y < x)
    BY <1>2, <2>1
  <2> QED
    BY <2>1, <2>2
<1> QED
  BY <1>4

-----------------------------------------------------------------------------
(* The order in which plans are stored.  c gives the second of each plan. *)

Leads(c, j, k) == c[j] > c[k] \/ (c[j] = c[k] /\ j < k)
Leaders(c, k) == {j \in DOMAIN c : Leads(c, j, k)}
Kept(c) == {k \in DOMAIN c : Cardinality(Leaders(c, k)) < MaxPlans}

LEMMA LeadersAreFinite ==
    ASSUME NEW n \in Nat, NEW c, DOMAIN c \subseteq 1 .. n, NEW T \in SUBSET DOMAIN c
    PROVE  IsFiniteSet(T) /\ Cardinality(T) \in Nat
<1>1. IsFiniteSet(1 .. n) /\ T \subseteq 1 .. n
  BY FS_Interval
<1> QED
  BY <1>1, FS_Subset, FS_CardinalityType

\* Who is led has more leaders.
LEMMA LeadersGrow ==
    ASSUME NEW n \in Nat, NEW c, DOMAIN c \subseteq 1 .. n,
           \A k \in DOMAIN c : c[k] \in Nat,
           NEW j \in DOMAIN c, NEW k \in DOMAIN c, Leads(c, j, k)
    PROVE  Cardinality(Leaders(c, j)) < Cardinality(Leaders(c, k))
<1>1. \A m \in DOMAIN c : m \in Nat /\ c[m] \in Nat
  OBVIOUS
<1>2. Leaders(c, j) \subseteq Leaders(c, k) \ {j}
  BY <1>1 DEF Leaders, Leads
<1>3. j \in Leaders(c, k)
  BY DEF Leaders
<1>4. /\ IsFiniteSet(Leaders(c, k)) /\ Cardinality(Leaders(c, k)) \in Nat
      /\ Cardinality(Leaders(c, j)) \in Nat
  BY LeadersAreFinite DEF Leaders
<1>5. /\ IsFiniteSet(Leaders(c, k) \ {j})
      /\ Cardinality(Leaders(c, k) \ {j}) = Cardinality(Leaders(c, k)) - 1
  BY <1>3, <1>4, FS_RemoveElement
<1>6. Cardinality(Leaders(c, j)) <= Cardinality(Leaders(c, k) \ {j})
  BY <1>2, <1>5, FS_Subset
<1> QED
  BY <1>4, <1>5, <1>6

\* Of a set of plans one has the fewest leaders, and one the most.
LEMMA FirstOfPlans ==
    ASSUME NEW n \in Nat, NEW c, DOMAIN c \subseteq 1 .. n,
           NEW T \in SUBSET DOMAIN c, T # {}
    PROVE  \E m \in T : \A k \in T : Cardinality(Leaders(c, m)) <= Cardinality(Leaders(c, k))
<1> DEFINE ranks == {Cardinality(Leaders(c, k)) : k \in T}
<1>1. ranks \in SUBSET Nat /\ ranks # {}
  <2>1. \A k \in T : Cardinality(Leaders(c, k)) \in Nat
    BY LeadersAreFinite DEF Leaders
  <2> QED
    BY <2>1
<1>2. PICK r \in ranks : \A q \in ranks : r <= q
  <2> HIDE DEF ranks
  <2> QED
    BY <1>1, LeastNatural
<1> QED
  BY <1>2

LEMMA LastOfPlans ==
    ASSUME NEW n \in Nat, NEW c, DOMAIN c \subseteq 1 .. n,
           NEW T \in SUBSET DOMAIN c, T # {}, NEW bound \in Nat,
           \A k \in T : Cardinality(Leaders(c, k)) <= bound
    PROVE  \E m \in T : \A k \in T : Cardinality(Leaders(c, k)) <= Cardinality(Leaders(c, m))
<1> DEFINE Rank(k) == Cardinality(Leaders(c, k))
           gaps == {bound - Rank(k) : k \in T}
<1>1. \A k \in T : Rank(k) \in Nat /\ Rank(k) <= bound
  BY LeadersAreFinite DEF Leaders
<1> HIDE DEF Rank
<1>2. \A k \in T : bound - Rank(k) \in Nat
  BY <1>1
<1>3. gaps \in SUBSET Nat /\ gaps # {}
  BY <1>2
<1>4. PICK g \in gaps : \A h \in gaps : g <= h
  <2> HIDE DEF gaps
  <2> QED
    BY <1>3, LeastNatural
<1>5. PICK m \in T : g = bound - Rank(m)
  OBVIOUS
<1>6. ASSUME NEW k \in T PROVE Rank(k) <= Rank(m)
  <2>1. bound - Rank(m) <= bound - Rank(k)
    BY <1>4, <1>5
  <2>2. Rank(k) \in Nat /\ Rank(m) \in Nat
    BY <1>1
  <2> QED
    BY <2>1, <2>2
<1> QED
  BY <1>6 DEF Rank

\* At most MaxPlans plans stay, at least one, and none that goes is of a later second.
LEMMA KeptPlans ==
    ASSUME NEW n \in Nat, NEW c, DOMAIN c \subseteq 1 .. n, DOMAIN c # {},
           \A k \in DOMAIN c : c[k] \in Nat
    PROVE  /\ Kept(c) # {} /\ Cardinality(Kept(c)) <= MaxPlans
           /\ \A k \in DOMAIN c \ Kept(c), j \in Kept(c) : c[j] >= c[k]
<1>1. MaxPlans \in Nat /\ MaxPlans > 0
  BY ReconciliationAssumption
<1>2. \A k \in DOMAIN c : Cardinality(Leaders(c, k)) \in Nat
  BY LeadersAreFinite DEF Leaders
<1>3. Kept(c) # {}
  <2>1. PICK m \in DOMAIN c :
          \A k \in DOMAIN c : Cardinality(Leaders(c, m)) <= Cardinality(Leaders(c, k))
    BY FirstOfPlans
  <2>2. ASSUME NEW j \in Leaders(c, m) PROVE FALSE
    <3>1. j \in DOMAIN c /\ Leads(c, j, m)
      BY <2>2 DEF Leaders
    <3>2. Cardinality(Leaders(c, j)) < Cardinality(Leaders(c, m))
      BY <3>1, LeadersGrow
    <3> QED
      BY <1>2, <2>1, <3>1, <3>2
  <2>3. Leaders(c, m) = {}
    BY <2>2
  <2>4. Cardinality(Leaders(c, m)) = 0
    BY <2>3, FS_EmptySet
  <2> QED
    BY <1>1, <2>4 DEF Kept
<1>4. Cardinality(Kept(c)) <= MaxPlans
  <2>1. Kept(c) \subseteq DOMAIN c /\ \A k \in Kept(c) : Cardinality(Leaders(c, k)) < MaxPlans
    BY DEF Kept
  <2>2. \A k \in Kept(c) : Cardinality(Leaders(c, k)) <= MaxPlans
    BY <1>1, <1>2, <2>1
  <2>3. PICK m \in Kept(c) :
          \A k \in Kept(c) : Cardinality(Leaders(c, k)) <= Cardinality(Leaders(c, m))
    BY <1>1, <1>3, <2>1, <2>2, LastOfPlans
  <2>4. ASSUME NEW k \in Kept(c) \ {m} PROVE k \in Leaders(c, m)
    <3>1. k \in DOMAIN c /\ m \in DOMAIN c /\ k \in Nat /\ m \in Nat /\ k # m
      BY <2>1
    <3>2. Leads(c, k, m) \/ Leads(c, m, k)
      BY <3>1 DEF Leads
    <3>3. CASE Leads(c, m, k)
      <4>1. Cardinality(Leaders(c, m)) < Cardinality(Leaders(c, k))
        BY <3>1, <3>3, LeadersGrow
      <4>2. Cardinality(Leaders(c, k)) <= Cardinality(Leaders(c, m))
        BY <2>3
      <4> QED
        BY <1>2, <3>1, <4>1, <4>2
    <3> QED
      BY <3>1, <3>2, <3>3 DEF Leaders
  <2>5. Kept(c) \ {m} \subseteq Leaders(c, m)
    BY <2>4
  <2>6. /\ IsFiniteSet(Kept(c)) /\ Cardinality(Kept(c)) \in Nat
        /\ IsFiniteSet(Leaders(c, m)) /\ Cardinality(Leaders(c, m)) \in Nat
    BY <2>1, LeadersAreFinite DEF Leaders
  <2>7. Cardinality(Kept(c) \ {m}) = Cardinality(Kept(c)) - 1
    BY <2>6, FS_RemoveElement
  <2>8. Cardinality(Kept(c) \ {m}) <= Cardinality(Leaders(c, m))
    BY <2>5, <2>6, FS_Subset
  <2>9. Cardinality(Leaders(c, m)) < MaxPlans
    BY <2>1
  <2> QED
    BY <1>1, <2>6, <2>7, <2>8, <2>9
<1>5. ASSUME NEW k \in DOMAIN c \ Kept(c), NEW j \in Kept(c)
      PROVE  c[j] >= c[k]
  <2>1. /\ j \in DOMAIN c /\ Cardinality(Leaders(c, j)) < MaxPlans
        /\ ~(Cardinality(Leaders(c, k)) < MaxPlans)
    BY DEF Kept
  <2>2. ~Leads(c, k, j)
    <3>1. Leads(c, k, j) => Cardinality(Leaders(c, k)) < Cardinality(Leaders(c, j))
      BY <2>1, LeadersGrow
    <3> QED
      BY <1>1, <1>2, <2>1, <3>1
  <2>3. c[j] \in Nat /\ c[k] \in Nat
    BY <2>1
  <2> QED
    BY <2>2, <2>3 DEF Leads
<1> QED
  BY <1>3, <1>4, <1>5

\* The plans that stay when a record is stored.
LEMMA StoredKeeps ==
    ASSUME NEW n \in Nat, DOMAIN plans \subseteq 1 .. n, NEW i \in 1 .. n, NEW record,
           record.created \in Nat, \A k \in DOMAIN plans : plans[k].created \in Nat
    PROVE  /\ DOMAIN Stored(i, record) \subseteq DOMAIN plans \cup {i}
           /\ DOMAIN Stored(i, record) # {}
           /\ Cardinality(DOMAIN Stored(i, record)) <= MaxPlans
           /\ \A k \in DOMAIN Stored(i, record) :
                 Stored(i, record)[k] = IF k = i THEN record ELSE plans[k]
           /\ \A k \in (DOMAIN plans \cup {i}) \ DOMAIN Stored(i, record),
                 j \in DOMAIN Stored(i, record) :
                 Stored(i, record)[j].created >=
                    (IF k = i THEN record ELSE plans[k]).created
<1> DEFINE all == [k \in DOMAIN plans \cup {i} |-> IF k = i THEN record ELSE plans[k]]
           c == [k \in DOMAIN plans \cup {i} |-> all[k].created]
<1>1. Stored(i, record) = [k \in Kept(c) |-> all[k]]
  <2>1. \A j, k \in DOMAIN all :
           Leads(c, j, k) <=> \/ all[j].created > all[k].created
                              \/ all[j].created = all[k].created /\ j < k
    BY DEF Leads
  <2>2. \A k \in DOMAIN all :
           Leaders(c, k) = {j \in DOMAIN all : \/ all[j].created > all[k].created
                                               \/ all[j].created = all[k].created /\ j < k}
    BY <2>1 DEF Leaders
  <2>3. Kept(c) = {k \in DOMAIN all :
                     Cardinality({j \in DOMAIN all :
                                     \/ all[j].created > all[k].created
                                     \/ all[j].created = all[k].created /\ j < k}) < MaxPlans}
    BY <2>2 DEF Kept
  <2> QED
    BY <2>3 DEF Stored
<1>2. /\ DOMAIN c \subseteq 1 .. n /\ DOMAIN c # {} /\ DOMAIN c = DOMAIN plans \cup {i}
      /\ \A k \in DOMAIN c : c[k] \in Nat /\ c[k] = all[k].created
  OBVIOUS
<1>3. Kept(c) \subseteq DOMAIN c
  BY DEF Kept
<1>4. \A k \in DOMAIN plans \cup {i} : all[k] = IF k = i THEN record ELSE plans[k]
  OBVIOUS
<1> HIDE DEF c, all
<1>5. /\ Kept(c) # {} /\ Cardinality(Kept(c)) <= MaxPlans
      /\ \A k \in DOMAIN c \ Kept(c), j \in Kept(c) : c[j] >= c[k]
  BY <1>2, KeptPlans
<1>6. DOMAIN Stored(i, record) = Kept(c) /\ \A k \in Kept(c) : Stored(i, record)[k] = all[k]
  BY <1>1
<1> QED
  BY <1>2, <1>3, <1>4, <1>5, <1>6

-----------------------------------------------------------------------------
(* Types, and what an investigation may claim. *)

Drafts == [Lessons -> Entries]
BriefSet == [status: {"none", "proposed", "pursuing", "rejected"},
             termination: {"none", "recommendation_ready", "no_feasible_package_found",
                           "budget_exhausted"},
             primary: Packages \cup {NoPackage}, fallback: Packages \cup {NoPackage}]
Investigation == [status: {"queued", "running"} \cup Answered, run: Nat, created: Nat, snapshot: Drafts,
                  task: Tasks \cup {NoTask}, fresh: BOOLEAN, sims: SUBSET Packages,
                  calls: Nat, inspected: BOOLEAN, brief: BriefSet]
Plan == [run: Nat, created: Nat, snapshot: Drafts, task: Tasks \cup {NoTask}, spent: BOOLEAN,
         brief: BriefSet, operation: {"completed", "failed", "applied"}]
Stages == {"idle", "rpc", "close", "save", "handler", "failing"}

\* A package names lessons and places.
IsPackage(p) ==
    DOMAIN p \subseteq Lessons /\ \A l \in DOMAIN p : p[l] \in Spots \cup {Withdraw}

\* An investigation is within its budget and its brief is true to its evidence.
Honest(v) ==
    /\ v.calls <= MaxCalls
    /\ v.brief \in Briefs(v.sims) \cup {NoBrief}
    /\ v.brief.termination = "no_feasible_package_found" => NothingPlaces(v)
    /\ v.brief.primary # NoPackage => Offerable(v, v.brief.primary, v.brief.fallback)

DraftTypes ==
    /\ draft \in Drafts /\ signed \in SUBSET Lessons
    /\ runs \in 0 .. MaxRuns /\ run \in 0 .. runs

PlanTypes ==
    /\ DOMAIN plans \subseteq 1 .. Built
    /\ Cardinality(DOMAIN plans) <= MaxPlans
    /\ \A i \in DOMAIN plans : plans[i] \in Plan

InvTypes ==
    /\ inv \in Seq(Investigation)
    /\ \A i \in 1 .. Len(inv) : Honest(inv[i]) /\ (inv[i].sims # {} => worker.on = i)

WorkerTypes ==
    /\ queue \in Seq(1 .. Built)
    /\ worker \in [on: 0 .. Built, step: Stages]

EvidenceInv == DraftTypes /\ PlanTypes /\ InvTypes /\ WorkerTypes

LEMMA UnbriefedIsHonest ==
    ASSUME NEW v, v.brief = NoBrief, v.calls <= MaxCalls
    PROVE  Honest(v)
BY DEF Honest, NoBrief

\* What a package leaves is a draft, and what it retimes are lessons.
LEMMA AfterIsDraft ==
    ASSUME NEW d \in Drafts, NEW p, IsPackage(p)
    PROVE  After(d, p) \in Drafts /\ Retimed(d, p) \subseteq Lessons
<1>1. \A l \in DOMAIN p : l \notin Withdrawn(p) => p[l] \in Entries
  BY DEF IsPackage, Withdrawn, Spots, Entries
<1>2. \A l \in Lessons : d[l] \in Entries /\ [d[l] EXCEPT !.room = Nowhere] \in Entries
  BY DEF Entries, Drafts
<1>3. After(d, p) \in Drafts
  BY <1>1, <1>2 DEF After, Drafts
<1> QED
  BY <1>3 DEF Retimed, Targeted, IsPackage

\* The options of a stored plan, and what they share, are packages.
LEMMA OfferedIsPackage ==
    ASSUME NEW r \in Plan, NEW p \in Options(r) \cup Shared(r)
    PROVE  IsPackage(p)
<1>1. \A q \in Packages : IsPackage(q)
  BY ReconciliationAssumption DEF IsPackage
<1>2. Options(r) \subseteq Packages
  BY DEF Options, Plan, BriefSet
<1>3. CASE p \in Shared(r)
  <2> DEFINE q1 == r.brief.primary
             q2 == r.brief.fallback
             same == {l \in DOMAIN q1 \cap DOMAIN q2 : q1[l] = q2[l]}
  <2>1. p = Common(q1, q2) /\ p # NoPackage /\ ~(Cardinality(Options(r)) < 2)
    BY <1>3 DEF Shared
  <2>2. p = [l \in same |-> q1[l]]
    BY <2>1 DEF Common
  <2>3. CASE q1 \in Packages
    BY <2>2, <2>3, <1>1 DEF IsPackage
  <2>4. CASE q1 = NoPackage
    <3>1. Options(r) \subseteq {q2}
      BY <2>4 DEF Options
    <3>2. IsFiniteSet({q2}) /\ Cardinality({q2}) = 1
      BY FS_Singleton
    <3>3. Cardinality(Options(r)) <= 1
      BY <3>1, <3>2, FS_Subset
    <3>4. Cardinality(Options(r)) \in Nat
      BY <3>1, <3>2, FS_Subset, FS_CardinalityType
    <3> QED
      BY <2>1, <3>3, <3>4
  <2> QED
    BY <2>3, <2>4 DEF Plan, BriefSet
<1> QED
  BY <1>1, <1>2, <1>3

\* A save of the session outdates the snapshots and touches no evidence.
LEMMA OutdatedKeeps ==
    ASSUME InvTypes
    PROVE  /\ Outdated(inv) \in Seq(Investigation)
           /\ Len(Outdated(inv)) = Len(inv)
           /\ \A i \in 1 .. Len(inv) :
                 /\ Outdated(inv)[i] = [inv[i] EXCEPT !.fresh = FALSE]
                 /\ Outdated(inv)[i].sims = inv[i].sims
                 /\ Outdated(inv)[i].brief = inv[i].brief
                 /\ Outdated(inv)[i].status = inv[i].status
                 /\ Outdated(inv)[i].created = inv[i].created
                 /\ Honest(Outdated(inv)[i])
<1>1. /\ inv \in Seq(Investigation) /\ Len(inv) \in Nat
      /\ \A i \in 1 .. Len(inv) : inv[i] \in Investigation /\ Honest(inv[i])
  BY ElementOfSeq DEF InvTypes
<1>2. \A i \in 1 .. Len(inv) : [inv[i] EXCEPT !.fresh = FALSE] \in Investigation
  BY <1>1 DEF Investigation
<1>3. /\ Outdated(inv) \in Seq(Investigation) /\ Len(Outdated(inv)) = Len(inv)
      /\ \A i \in 1 .. Len(inv) : Outdated(inv)[i] = [inv[i] EXCEPT !.fresh = FALSE]
  BY <1>1, <1>2, IsASeq DEF Outdated
<1>4. ASSUME NEW i \in 1 .. Len(inv)
      PROVE  /\ Outdated(inv)[i].sims = inv[i].sims
             /\ Outdated(inv)[i].brief = inv[i].brief
             /\ Outdated(inv)[i].status = inv[i].status
             /\ Outdated(inv)[i].created = inv[i].created
             /\ Outdated(inv)[i].calls = inv[i].calls
             /\ Outdated(inv)[i].snapshot = inv[i].snapshot
  BY <1>1, <1>3 DEF Investigation
<1>5. ASSUME NEW i \in 1 .. Len(inv)
      PROVE  Honest(Outdated(inv)[i])
  BY <1>1, <1>4 DEF Honest, NothingPlaces, Offerable
<1> QED
  BY <1>3, <1>4, <1>5

LEMMA SecondsAreNumbers ==
    ASSUME EvidenceInv, NEW second \in Seconds
    PROVE  second \in Nat
<1>1. CASE Built = 0
  BY <1>1 DEF Seconds
<1>2. CASE Built # 0
  <2>1. Built \in 1 .. Len(inv)
    BY <1>2 DEF Built, EvidenceInv, InvTypes
  <2>2. inv[Built] \in Investigation
    BY <2>1, ElementOfSeq DEF EvidenceInv, InvTypes
  <2>3. inv[Built].created \in Nat
    BY <2>2 DEF Investigation
  <2> QED
    BY <1>2, <2>3 DEF Seconds
<1> QED
  BY <1>1, <1>2

\* The requests of the operator and of others.
LEMMA InvestigateTypes ==
    ASSUME EvidenceInv, NEW task \in Tasks, Investigate(task)
    PROVE  EvidenceInv'
<1>0. PICK second \in Seconds :
        /\ inv' = Append(inv, [status |-> "queued", run |-> run, created |-> second,
                               snapshot |-> draft, task |-> task, fresh |-> TRUE,
                               sims |-> {}, calls |-> 0, inspected |-> FALSE,
                               brief |-> NoBrief])
        /\ queue' = Append(queue, Built + 1)
        /\ UNCHANGED <<draft, signed, run, plans, worker, runs>>
  BY DEF Investigate, session
<1> DEFINE v == [status |-> "queued", run |-> run, created |-> second, snapshot |-> draft,
                 task |-> task, fresh |-> TRUE, sims |-> {}, calls |-> 0,
                 inspected |-> FALSE, brief |-> NoBrief]
<1>s. second \in Nat
  BY SecondsAreNumbers
<1>1. /\ inv' = Append(inv, v) /\ queue' = Append(queue, Built + 1)
      /\ UNCHANGED <<draft, signed, run, plans, worker, runs>>
  BY <1>0
<1>2. v \in Investigation
  BY <1>s DEF Investigation, EvidenceInv, DraftTypes, BriefSet, NoBrief, Answered
<1>3. Honest(v) /\ v.sims = {}
  BY ReconciliationAssumption DEF Honest, NoBrief
<1> HIDE DEF v
<1>4. /\ Len(inv) \in Nat /\ inv' \in Seq(Investigation) /\ Len(inv') = Len(inv) + 1
      /\ inv'[Len(inv) + 1] = v /\ \A i \in 1 .. Len(inv) : inv'[i] = inv[i]
  BY <1>1, <1>2 DEF EvidenceInv, InvTypes
<1>5. DraftTypes'
  BY <1>1 DEF EvidenceInv, DraftTypes
<1>6. PlanTypes'
  BY <1>1, <1>4 DEF EvidenceInv, PlanTypes, Built
<1>7. InvTypes'
  <2> SUFFICES ASSUME NEW i \in 1 .. Len(inv')
               PROVE  Honest(inv'[i]) /\ (inv'[i].sims # {} => worker.on = i)
    BY <1>1, <1>4 DEF InvTypes, Honest, NothingPlaces, Offerable
  <2>1. i \in 1 .. Len(inv) \/ i = Len(inv) + 1
    BY <1>4
  <2> QED
    BY <2>1, <1>3, <1>4 DEF EvidenceInv, InvTypes
<1>8. WorkerTypes'
  <2>1. queue \in Seq(1 .. Len(inv')) /\ Len(inv) + 1 \in 1 .. Len(inv')
    BY <1>4 DEF EvidenceInv, WorkerTypes, Built
  <2>2. queue' \in Seq(1 .. Len(inv'))
    BY <1>1, <2>1 DEF Built
  <2> QED
    BY <1>1, <1>4, <2>2 DEF EvidenceInv, WorkerTypes, Built
<1> QED
  BY <1>5, <1>6, <1>7, <1>8 DEF EvidenceInv

\* The investigations stay, or a save of the session has outdated them.
LEMMA InvStays ==
    ASSUME InvTypes, WorkerTypes, inv' \in {inv, Outdated(inv)}, UNCHANGED queue,
           worker'.on = worker.on, worker' \in [on: Nat, step: Stages]
    PROVE  InvTypes' /\ WorkerTypes' /\ Len(inv') = Len(inv)
<1>1. /\ inv' \in Seq(Investigation) /\ Len(inv') = Len(inv)
      /\ \A i \in 1 .. Len(inv) : Honest(inv'[i]) /\ inv'[i].sims = inv[i].sims
  BY OutdatedKeeps DEF InvTypes
<1>2. InvTypes'
  BY <1>1 DEF InvTypes, Honest, NothingPlaces, Offerable
<1>3. WorkerTypes'
  BY <1>1 DEF WorkerTypes, Built
<1> QED
  BY <1>1, <1>2, <1>3

\* The worker and the queue are left alone.
LEMMA OthersKeepWorker ==
    ASSUME EvidenceInv, inv' \in {inv, Outdated(inv)}, UNCHANGED <<queue, worker>>
    PROVE  InvTypes' /\ WorkerTypes' /\ Len(inv') = Len(inv)
BY InvStays DEF EvidenceInv, WorkerTypes

LEMMA EditTypes ==
    ASSUME EvidenceInv, NEW l \in Lessons, NEW place \in Spots \cup {Withdraw}, Edit(l, place)
    PROVE  EvidenceInv'
<1> DEFINE p == [k \in {l} |-> place]
<1>1. IsPackage(p)
  BY DEF IsPackage
<1>2. /\ draft' = After(draft, p) /\ UNCHANGED <<run, plans, runs, queue, worker>>
      /\ inv' = Outdated(inv)
      /\ signed' = signed \cup Retimed(draft, p)
  BY DEF Edit
<1> HIDE DEF p
<1>3. After(draft, p) \in Drafts /\ Retimed(draft, p) \subseteq Lessons
  BY <1>1, AfterIsDraft DEF EvidenceInv, DraftTypes
<1>4. DraftTypes'
  BY <1>2, <1>3 DEF EvidenceInv, DraftTypes
<1>5. InvTypes' /\ WorkerTypes' /\ Len(inv') = Len(inv)
  BY <1>2, OthersKeepWorker
<1>6. PlanTypes'
  BY <1>2, <1>5 DEF EvidenceInv, PlanTypes, Built
<1> QED
  BY <1>4, <1>5, <1>6 DEF EvidenceInv

LEMMA ChangeFilesTypes == ASSUME EvidenceInv, ChangeFiles PROVE EvidenceInv'
<1>1. UNCHANGED <<draft, signed, run, plans, runs, queue, worker>> /\ inv' = Outdated(inv)
  BY DEF ChangeFiles, session
<1>2. InvTypes' /\ WorkerTypes' /\ Len(inv') = Len(inv)
  BY <1>1, OthersKeepWorker
<1> QED
  BY <1>1, <1>2 DEF EvidenceInv, DraftTypes, PlanTypes, Built

LEMMA BlankIsDraft == Blank \in Drafts
BY SandboxAssumption DEF Blank, Drafts, Entries

\* Reset, the next round, and an optimizer run: the plans are dropped.
LEMMA NewDraftTypes ==
    ASSUME EvidenceInv, Clear \/ \E d \in Outcomes : RunOptimizer(d)
    PROVE  EvidenceInv'
<1>1. /\ inv' = Outdated(inv) /\ plans' = <<>> /\ signed' = {}
      /\ UNCHANGED <<queue, worker>>
      /\ \/ draft' = Blank /\ run' = 0 /\ runs' = runs
         \/ draft' \in Outcomes /\ run' = runs + 1 /\ runs' = runs + 1 /\ runs < MaxRuns
  BY DEF Clear, RunOptimizer
<1>2. DraftTypes'
  <2>1. draft' \in Drafts
    BY <1>1, BlankIsDraft, ReconciliationAssumption DEF Drafts
  <2>2. MaxRuns \in Nat
    BY ReconciliationAssumption
  <2> QED
    BY <1>1, <2>1, <2>2 DEF EvidenceInv, DraftTypes
<1>3. InvTypes' /\ WorkerTypes' /\ Len(inv') = Len(inv)
  BY <1>1, OthersKeepWorker
<1>4. PlanTypes'
  <2>1. DOMAIN plans' = {} /\ Cardinality({}) = 0
    BY <1>1, FS_EmptySet
  <2> QED
    BY <2>1, ReconciliationAssumption DEF PlanTypes
<1> QED
  BY <1>2, <1>3, <1>4 DEF EvidenceInv

LEMMA PlansHaveSeconds ==
    ASSUME EvidenceInv
    PROVE  /\ \A k \in DOMAIN plans : plans[k].created \in Nat
           /\ \A record \in Plan : record.created \in Nat
BY DEF EvidenceInv, PlanTypes, Plan

\* A plan is stored: it is well formed, and there is room for it.
LEMMA PersistTypes ==
    ASSUME EvidenceInv, NEW i \in 1 .. Built, NEW record \in Plan, Persist(i, record),
           Len(inv') = Len(inv)
    PROVE  PlanTypes'
<1>1. plans' = Stored(i, record)
  BY DEF Persist
<1>2. Built \in Nat /\ DOMAIN plans \subseteq 1 .. Built
  BY DEF Built, EvidenceInv, PlanTypes, InvTypes
<1>3. /\ DOMAIN plans' \subseteq DOMAIN plans \cup {i}
      /\ Cardinality(DOMAIN plans') <= MaxPlans
      /\ \A k \in DOMAIN plans' : plans'[k] = IF k = i THEN record ELSE plans[k]
  <2>1. /\ DOMAIN Stored(i, record) \subseteq DOMAIN plans \cup {i}
        /\ Cardinality(DOMAIN Stored(i, record)) <= MaxPlans
        /\ \A k \in DOMAIN Stored(i, record) :
              Stored(i, record)[k] = IF k = i THEN record ELSE plans[k]
    BY <1>2, PlansHaveSeconds, StoredKeeps
  <2> QED
    BY <1>1, <2>1
<1> QED
  BY <1>2, <1>3 DEF EvidenceInv, PlanTypes, Built

LEMMA DecideTypes ==
    ASSUME EvidenceInv, NEW i, NEW decision \in {"pursuing", "rejected"}, Decide(i, decision)
    PROVE  EvidenceInv'
<1> DEFINE record == [plans[i] EXCEPT !.brief.status = decision, !.operation = "completed"]
<1>1. /\ i \in DOMAIN plans /\ Persist(i, record) /\ inv' = Outdated(inv)
      /\ UNCHANGED <<draft, signed, run, runs, queue, worker>>
  BY DEF Decide, Persist
<1>2. record \in Plan
  <2>1. plans[i] \in Plan /\ plans[i].brief \in BriefSet
    BY <1>1 DEF EvidenceInv, PlanTypes, Plan
  <2>2. [plans[i].brief EXCEPT !.status = decision] \in BriefSet
    BY <2>1 DEF BriefSet
  <2> QED
    BY <2>1, <2>2 DEF Plan
<1>3. InvTypes' /\ WorkerTypes' /\ Len(inv') = Len(inv)
  BY <1>1, OthersKeepWorker
<1> HIDE DEF record
<1>4. PlanTypes'
  BY <1>1, <1>2, <1>3, PersistTypes DEF EvidenceInv, PlanTypes
<1>5. DraftTypes'
  BY <1>1 DEF EvidenceInv, DraftTypes
<1> QED
  BY <1>3, <1>4, <1>5 DEF EvidenceInv

LEMMA ApplyTypes == ASSUME EvidenceInv, ApplySome PROVE EvidenceInv'
<1>0. PICK i \in DOMAIN plans : \E p \in Options(plans[i]) \cup Shared(plans[i]) :
        \E confirmed \in SUBSET Teachers, authorized \in SUBSET Lessons,
           recorded \in BOOLEAN : Apply(i, p, confirmed, authorized, recorded)
  BY DEF ApplySome
<1>1. PICK p \in Options(plans[i]) \cup Shared(plans[i]),
           confirmed \in SUBSET Teachers, authorized \in SUBSET Lessons,
           recorded \in BOOLEAN : Apply(i, p, confirmed, authorized, recorded)
  BY <1>0
<1>2. /\ draft' = After(draft, p) /\ inv' = Outdated(inv)
      /\ signed' \subseteq signed \cup Retimed(draft, p)
      /\ plans' \in {plans, [plans EXCEPT ![i].operation = "applied"]}
      /\ UNCHANGED <<run, runs, queue, worker>>
  BY <1>1 DEF Apply, Commit
<1>3. plans[i] \in Plan
  BY DEF EvidenceInv, PlanTypes
<1>4. After(draft, p) \in Drafts /\ Retimed(draft, p) \subseteq Lessons
  BY <1>3, OfferedIsPackage, AfterIsDraft DEF EvidenceInv, DraftTypes
<1>5. DraftTypes'
  BY <1>2, <1>4 DEF EvidenceInv, DraftTypes
<1>6. InvTypes' /\ WorkerTypes' /\ Len(inv') = Len(inv)
  BY <1>2, OthersKeepWorker
<1>7. PlanTypes'
  <2>1. [plans[i] EXCEPT !.operation = "applied"] \in Plan
    BY <1>3 DEF Plan
  <2>2. DOMAIN plans' = DOMAIN plans /\ \A k \in DOMAIN plans' : plans'[k] \in Plan
    BY <1>2, <2>1 DEF EvidenceInv, PlanTypes
  <2> QED
    BY <1>6, <2>2 DEF EvidenceInv, PlanTypes, Built
<1> QED
  BY <1>5, <1>6, <1>7 DEF EvidenceInv

\* Pi's calls: the running investigation gains evidence or its brief.
LEMMA ToolTypes == ASSUME EvidenceInv, Tool PROVE EvidenceInv'
<1>1. PICK i \in DOMAIN inv : \/ Inspect(i)
                              \/ \E p \in Packages : Simulate(i, p)
                              \/ Live(i) /\ \E b \in Briefs(inv[i].sims) : Submit(i, b)
  BY DEF Tool
<1>2. /\ Live(i) /\ inv[i].brief = NoBrief
      /\ UNCHANGED <<draft, signed, run, plans, queue, worker, runs>>
  BY <1>1 DEF Inspect, Simulate, Submit, ConsumeToolCall, Submittable, session
<1>3. /\ inv \in Seq(Investigation) /\ Len(inv) \in Nat /\ i \in 1 .. Len(inv)
      /\ inv[i] \in Investigation /\ Honest(inv[i])
  BY ElementOfSeq DEF EvidenceInv, InvTypes
<1>4. PICK v : inv' = [inv EXCEPT ![i] = v] /\ v \in Investigation /\ Honest(v)
  <2>1. CASE Inspect(i)
    <3> DEFINE v == [inv[i] EXCEPT !.calls = @ + 1, !.inspected = TRUE]
    <3>1. inv' = [inv EXCEPT ![i] = v] /\ inv[i].calls < MaxCalls
      BY <2>1 DEF Inspect, ConsumeToolCall
    <3>2. v \in Investigation /\ v.brief = NoBrief /\ v.calls = inv[i].calls + 1
      <4>1. inv[i].calls + 1 \in Nat
        BY <1>3 DEF Investigation
      <4> QED
        BY <1>2, <1>3, <4>1 DEF Investigation
    <3>3. Honest(v)
      <4>1. inv[i].calls \in Nat
        BY <1>3 DEF Investigation
      <4>2. v.calls <= MaxCalls
        BY <3>1, <3>2, <4>1, ReconciliationAssumption
      <4> HIDE DEF v
      <4> QED
        BY <3>2, <4>2, UnbriefedIsHonest
    <3> QED
      BY <3>1, <3>2, <3>3
  <2>2. CASE \E p \in Packages : Simulate(i, p)
    <3>1. PICK p \in Packages : Simulate(i, p)
      BY <2>2
    <3> DEFINE sims == IF Permitted(inv[i].snapshot, p, inv[i].task)
                         THEN inv[i].sims \cup {p} ELSE inv[i].sims
               v == [inv[i] EXCEPT !.calls = @ + 1, !.sims = sims]
    <3>2. inv' = [inv EXCEPT ![i] = v] /\ inv[i].calls < MaxCalls
      BY <3>1 DEF Simulate, ConsumeToolCall
    <3>3. sims \in SUBSET Packages
      BY <1>3 DEF Investigation
    <3> HIDE DEF sims
    <3>4. v \in Investigation /\ v.brief = NoBrief /\ v.calls = inv[i].calls + 1
      <4>1. inv[i].calls + 1 \in Nat
        BY <1>3 DEF Investigation
      <4> QED
        BY <1>2, <1>3, <3>3, <4>1 DEF Investigation
    <3>5. Honest(v)
      <4>1. inv[i].calls \in Nat
        BY <1>3 DEF Investigation
      <4>2. v.calls <= MaxCalls
        BY <3>2, <3>4, <4>1, ReconciliationAssumption
      <4> HIDE DEF v
      <4> QED
        BY <3>4, <4>2, UnbriefedIsHonest
    <3> QED
      BY <3>2, <3>4, <3>5
  <2>3. CASE \E b \in Briefs(inv[i].sims) : Submit(i, b)
    <3>1. PICK b \in Briefs(inv[i].sims) : Submit(i, b)
      BY <2>3
    <3> DEFINE v == [inv[i] EXCEPT !.brief = b]
    <3>2. inv' = [inv EXCEPT ![i] = v] /\ Submittable(inv[i], b)
      BY <3>1 DEF Submit
    <3>3. b \in BriefSet
      BY <1>3 DEF Briefs, BriefSet, Investigation
    <3>4. /\ v \in Investigation /\ v.brief = b /\ v.calls = inv[i].calls
          /\ v.sims = inv[i].sims /\ v.snapshot = inv[i].snapshot
      BY <1>3, <3>3 DEF Investigation
    <3>5. Honest(v)
      BY <1>3, <3>2, <3>4 DEF Honest, Submittable, NothingPlaces, Offerable
    <3> QED
      BY <3>2, <3>4, <3>5
  <2> QED
    BY <1>1, <2>1, <2>2, <2>3
<1>5. /\ inv' \in Seq(Investigation) /\ Len(inv') = Len(inv)
      /\ \A k \in 1 .. Len(inv) : inv'[k] = IF k = i THEN v ELSE inv[k]
  BY <1>3, <1>4, ExceptSeq
<1>6. InvTypes'
  <2> SUFFICES ASSUME NEW k \in 1 .. Len(inv')
               PROVE  Honest(inv'[k]) /\ (inv'[k].sims # {} => worker.on = k)
    BY <1>2, <1>5 DEF InvTypes, Honest, NothingPlaces, Offerable
  <2> QED
    BY <1>2, <1>4, <1>5 DEF EvidenceInv, InvTypes, Live
<1> QED
  BY <1>2, <1>5, <1>6 DEF EvidenceInv, DraftTypes, PlanTypes, WorkerTypes, Built

-----------------------------------------------------------------------------
(* The worker. *)

LEMMA TakeTypes == ASSUME EvidenceInv, Take PROVE EvidenceInv'
<1> DEFINE i == Head(queue)
           v == [inv[i] EXCEPT !.status = "running"]
<1>1. /\ worker.on = 0 /\ worker' = [on |-> i, step |-> "rpc"] /\ queue # <<>>
      /\ inv' = [inv EXCEPT ![i].status = "running"] /\ queue' = Tail(queue)
      /\ UNCHANGED <<draft, signed, run, plans, runs>>
  BY DEF Take, IdleWorker, session
<1>2. i \in 1 .. Len(inv) /\ queue' \in Seq(1 .. Len(inv))
  BY <1>1, EmptySeq, HeadTailProperties DEF EvidenceInv, WorkerTypes, Built
<1> HIDE DEF i
<1>3. /\ inv \in Seq(Investigation) /\ Len(inv) \in Nat
      /\ inv[i] \in Investigation /\ Honest(inv[i])
  BY <1>2, ElementOfSeq DEF EvidenceInv, InvTypes
<1>4. /\ v \in Investigation /\ v.calls = inv[i].calls /\ v.brief = inv[i].brief
      /\ v.sims = inv[i].sims /\ v.snapshot = inv[i].snapshot
  BY <1>3 DEF Investigation
<1>5. Honest(v)
  BY <1>3, <1>4 DEF Honest, NothingPlaces, Offerable
<1>6. inv' = [inv EXCEPT ![i] = v]
  BY <1>1
<1>7. /\ inv' \in Seq(Investigation) /\ Len(inv') = Len(inv)
      /\ \A k \in 1 .. Len(inv) : inv'[k] = IF k = i THEN v ELSE inv[k]
  BY <1>2, <1>3, <1>4, <1>6, ExceptSeq
<1> HIDE DEF v
<1>8. \A k \in 1 .. Len(inv) : inv[k].sims = {}
  BY <1>1 DEF EvidenceInv, InvTypes
<1>9. \A k \in 1 .. Len(inv') : Honest(inv'[k]) /\ inv'[k].sims = {}
  BY <1>2, <1>4, <1>5, <1>7, <1>8 DEF EvidenceInv, InvTypes
<1>10. InvTypes'
  BY <1>7, <1>9 DEF InvTypes, Honest, NothingPlaces, Offerable
<1>11. WorkerTypes'
  BY <1>1, <1>2, <1>3, <1>7 DEF WorkerTypes, Built, Stages
<1> QED
  BY <1>1, <1>7, <1>10, <1>11 DEF EvidenceInv, DraftTypes, PlanTypes, Built

\* The worker goes to its next step and changes nothing.
LEMMA MoveTypes ==
    ASSUME EvidenceInv, NEW step \in Stages, Step(step),
           UNCHANGED <<session, inv, queue, runs>>
    PROVE  EvidenceInv'
<1>1. worker' \in [on: Nat, step: Stages] /\ worker'.on = worker.on
  BY DEF Step, EvidenceInv, WorkerTypes, Built, InvTypes
<1>2. InvTypes' /\ WorkerTypes' /\ Len(inv') = Len(inv)
  BY <1>1, InvStays DEF EvidenceInv
<1> QED
  BY <1>2 DEF EvidenceInv, DraftTypes, PlanTypes, Built, session

\* What the server writes at a bound names what was simulated.
LEMMA BoundBriefIsBrief ==
    ASSUME NEW v, NEW b \in BoundBriefs(v)
    PROVE  b \in Briefs(v.sims) /\ b.termination = "budget_exhausted"
<1> DEFINE placing == {p \in v.sims : Placing(v.snapshot, p)}
<1>1. \A ps : FirstOf(v.snapshot, ps) \subseteq ps \cup {NoPackage}
  BY DEF FirstOf
<1>2. PICK p \in FirstOf(v.snapshot, placing) :
        \E pq \in {<<p, q>> : q \in FirstOf(v.snapshot, placing \ {p})} :
           b = [status |-> "proposed", termination |-> "budget_exhausted",
                primary |-> pq[1], fallback |-> pq[2]]
  BY DEF BoundBriefs
<1>3. placing \subseteq v.sims
  OBVIOUS
<1> HIDE DEF placing
<1>4. PICK pq \in {<<p, q>> : q \in FirstOf(v.snapshot, placing \ {p})} :
        b = [status |-> "proposed", termination |-> "budget_exhausted",
             primary |-> pq[1], fallback |-> pq[2]]
  BY <1>2
<1>5. PICK q \in FirstOf(v.snapshot, placing \ {p}) : pq = <<p, q>>
  BY <1>4
<1>6. p \in v.sims \cup {NoPackage} /\ q \in v.sims \cup {NoPackage}
  BY <1>1, <1>3
<1>7. b = [status |-> "proposed", termination |-> "budget_exhausted",
           primary |-> p, fallback |-> q]
  BY <1>4, <1>5
<1> QED
  BY <1>6, <1>7 DEF Briefs

LEMMA CloseTypes ==
    ASSUME EvidenceInv, NEW i \in DOMAIN inv, Live(i), CloseAtBound(i)
    PROVE  EvidenceInv'
<1>1. /\ inv \in Seq(Investigation) /\ Len(inv) \in Nat /\ i \in 1 .. Len(inv)
      /\ inv[i] \in Investigation /\ Honest(inv[i])
  BY ElementOfSeq DEF EvidenceInv, InvTypes
<1>2. CASE inv' = inv
  BY <1>2, MoveTypes DEF CloseAtBound, Stages
<1>3. CASE inv' # inv
  <2>1. PICK b \in BoundBriefs(inv[i]) :
          Closable(inv[i], b) /\ inv' = [inv EXCEPT ![i].brief = b]
    BY <1>3 DEF CloseAtBound
  <2> DEFINE v == [inv[i] EXCEPT !.brief = b]
  <2>2. b \in Briefs(inv[i].sims) /\ b.termination = "budget_exhausted"
    BY <2>1, BoundBriefIsBrief
  <2>3. b \in BriefSet
    BY <1>1, <2>2 DEF Briefs, BriefSet, Investigation
  <2>4. /\ v \in Investigation /\ v.brief = b /\ v.calls = inv[i].calls
        /\ v.sims = inv[i].sims /\ v.snapshot = inv[i].snapshot
    BY <1>1, <2>3 DEF Investigation
  <2>5. Honest(v)
    BY <1>1, <2>1, <2>2, <2>4 DEF Honest, Closable, NothingPlaces, Offerable
  <2>6. inv' = [inv EXCEPT ![i] = v]
    BY <2>1
  <2>7. /\ inv' \in Seq(Investigation) /\ Len(inv') = Len(inv)
        /\ \A k \in 1 .. Len(inv) : inv'[k] = IF k = i THEN v ELSE inv[k]
    BY <1>1, <2>4, <2>6, ExceptSeq
  <2>8. worker' = [worker EXCEPT !.step = "save"] /\ UNCHANGED <<session, queue, runs>>
    BY DEF CloseAtBound, Step
  <2> HIDE DEF v
  <2>9. worker'.on = worker.on /\ worker' \in [on: 0 .. Built, step: Stages]
    BY <2>8 DEF EvidenceInv, WorkerTypes, Stages
  <2>10. \A k \in 1 .. Len(inv') : Honest(inv'[k]) /\ (inv'[k].sims # {} => worker.on = k)
    BY <1>1, <2>4, <2>5, <2>7 DEF EvidenceInv, InvTypes
  <2>11. InvTypes'
    BY <2>7, <2>9, <2>10 DEF InvTypes, Honest, NothingPlaces, Offerable
  <2> QED
    BY <2>7, <2>8, <2>9, <2>11
    DEF EvidenceInv, DraftTypes, PlanTypes, WorkerTypes, Built, session
<1> QED
  BY <1>2, <1>3

\* The operation ends: its investigation is emptied.
LEMMA EndTypes ==
    ASSUME EvidenceInv, NEW i \in DOMAIN inv, Live(i),
           NEW status \in {"completed", "failed", "running"}, End(i, status)
    PROVE  InvTypes' /\ WorkerTypes' /\ Len(inv') = Len(inv)
<1> DEFINE f == IF plans' = plans THEN inv ELSE Outdated(inv)
           v == [status |-> status, run |-> 0, snapshot |-> Blank,
                 created |-> inv[i].created, task |-> NoTask, fresh |-> FALSE, sims |-> {}, calls |-> 0,
                 inspected |-> FALSE, brief |-> NoBrief]
<1>1. inv' = [f EXCEPT ![i] = v] /\ worker' = [on |-> 0, step |-> "idle"] /\ queue' = queue
  BY DEF End, IdleWorker
<1>2. v \in Investigation
  <2>1. inv[i] \in Investigation
    BY ElementOfSeq DEF EvidenceInv, InvTypes
  <2>2. inv[i].created \in Nat
    BY <2>1 DEF Investigation
  <2> QED
    BY <2>2, BlankIsDraft DEF Investigation, BriefSet, NoBrief, Answered
<1>3. Honest(v) /\ v.sims = {}
  BY ReconciliationAssumption DEF Honest, NoBrief
<1>4. /\ f \in Seq(Investigation) /\ Len(f) = Len(inv) /\ Len(inv) \in Nat
      /\ \A k \in 1 .. Len(inv) : Honest(f[k]) /\ f[k].sims = inv[k].sims
  <2>1. InvTypes /\ f \in {inv, Outdated(inv)}
    BY DEF EvidenceInv
  <2> HIDE DEF f
  <2>2. CASE f = inv
    BY <2>1, <2>2 DEF InvTypes
  <2>3. CASE f = Outdated(inv)
    <3>1. Len(inv) \in Nat
      BY <2>1 DEF InvTypes
    <3> QED
      BY <2>1, <2>3, <3>1, OutdatedKeeps
  <2> QED
    BY <2>1, <2>2, <2>3
<1>5. i \in 1 .. Len(inv) /\ worker.on = i
  BY DEF EvidenceInv, InvTypes, Live
<1> HIDE DEF f, v
<1>6. /\ inv' \in Seq(Investigation) /\ Len(inv') = Len(inv)
      /\ \A k \in 1 .. Len(inv) : inv'[k] = IF k = i THEN v ELSE f[k]
  BY <1>1, <1>2, <1>4, <1>5, ExceptSeq
<1>7. \A k \in 1 .. Len(inv') : Honest(inv'[k]) /\ inv'[k].sims = {}
  BY <1>3, <1>4, <1>5, <1>6 DEF EvidenceInv, InvTypes
<1>8. InvTypes'
  BY <1>6, <1>7 DEF InvTypes, Honest, NothingPlaces, Offerable
<1>9. WorkerTypes'
  BY <1>1, <1>4, <1>6 DEF EvidenceInv, WorkerTypes, Built, Stages
<1> QED
  BY <1>6, <1>8, <1>9

LEMMA RecordIsPlan ==
    ASSUME EvidenceInv, NEW i \in 1 .. Len(inv), NEW status \in {"completed", "failed"}
    PROVE  Record(i, status) \in Plan
<1>1. inv[i] \in Investigation
  BY ElementOfSeq DEF EvidenceInv, InvTypes
<1> QED
  BY <1>1 DEF Record, Plan, Investigation

LEMMA SavedEndTypes ==
    ASSUME EvidenceInv, NEW i \in DOMAIN inv, Live(i), NEW status \in {"completed", "failed"},
           NEW end \in {"completed", "failed", "running"},
           Persist(i, Record(i, status)), End(i, end)
    PROVE  EvidenceInv'
<1>1. InvTypes' /\ WorkerTypes' /\ Len(inv') = Len(inv)
  BY EndTypes
<1>2. i \in 1 .. Len(inv)
  BY DEF EvidenceInv, InvTypes
<1>3. Record(i, status) \in Plan
  BY <1>2, RecordIsPlan
<1>4. PlanTypes'
  BY <1>1, <1>2, <1>3, PersistTypes DEF Built
<1>5. DraftTypes'
  BY DEF Persist, End, EvidenceInv, DraftTypes
<1> QED
  BY <1>1, <1>4, <1>5 DEF EvidenceInv

LEMMA UnsavedEndTypes ==
    ASSUME EvidenceInv, NEW i \in DOMAIN inv, Live(i), NEW status \in {"failed", "running"},
           UNCHANGED session, End(i, status)
    PROVE  EvidenceInv'
<1>1. InvTypes' /\ WorkerTypes' /\ Len(inv') = Len(inv)
  BY EndTypes
<1> QED
  BY <1>1 DEF EvidenceInv, DraftTypes, PlanTypes, Built, session, End

LEMMA LedgerTypes ==
    ASSUME EvidenceInv, NEW i \in DOMAIN inv, LedgerRaises(i)
    PROVE  EvidenceInv'
<1>1. /\ Persist(i, Record(i, "completed")) /\ inv' = Outdated(inv)
      /\ worker' = [worker EXCEPT !.step = "failing"]
      /\ UNCHANGED <<draft, signed, run, runs, queue>>
  BY DEF LedgerRaises, Step, Persist
<1>2. worker' \in [on: Nat, step: Stages] /\ worker'.on = worker.on
  BY <1>1 DEF EvidenceInv, WorkerTypes, Built, InvTypes, Stages
<1>3. InvTypes' /\ WorkerTypes' /\ Len(inv') = Len(inv)
  BY <1>1, <1>2, InvStays DEF EvidenceInv
<1>4. i \in 1 .. Len(inv)
  BY DEF EvidenceInv, InvTypes
<1>5. Record(i, "completed") \in Plan
  BY <1>4, RecordIsPlan
<1>6. PlanTypes'
  BY <1>1, <1>3, <1>4, <1>5, PersistTypes DEF Built
<1> QED
  BY <1>1, <1>3, <1>6 DEF EvidenceInv, DraftTypes

LEMMA WorkTypes == ASSUME EvidenceInv, Work PROVE EvidenceInv'
<1>1. CASE Take
  BY <1>1, TakeTypes
<1>2. CASE RpcEnds \/ RpcFails \/ SaveRaises
  BY <1>2, MoveTypes DEF RpcEnds, RpcFails, SaveRaises, Stages
<1>3. ASSUME NEW i \in DOMAIN inv, Live(i),
             \/ CloseAtBound(i) \/ CloseRaises(i) \/ Save(i) \/ LedgerRaises(i)
             \/ HandlerSaves(i) \/ HandlerFails(i) \/ HandlerRaises(i) \/ FailAttempt(i)
      PROVE  EvidenceInv'
  <2>1. CASE CloseRaises(i) \/ HandlerFails(i)
    BY <2>1, MoveTypes DEF CloseRaises, HandlerFails, Stages
  <2>2. CASE Save(i) \/ HandlerSaves(i)
    BY <2>2, <1>3, SavedEndTypes DEF Save, HandlerSaves
  <2>3. CASE FailAttempt(i)
    BY <2>3, <1>3, SavedEndTypes, UnsavedEndTypes DEF FailAttempt
  <2>4. CASE HandlerRaises(i)
    BY <2>4, <1>3, SavedEndTypes, UnsavedEndTypes DEF HandlerRaises
  <2> QED
    BY <1>3, <2>1, <2>2, <2>3, <2>4, CloseTypes, LedgerTypes
<1> QED
  BY <1>1, <1>2, <1>3 DEF Work

LEMMA EvidenceInit == Init => EvidenceInv
<1> SUFFICES ASSUME Init PROVE EvidenceInv
  OBVIOUS
<1>1. MaxRuns \in Nat /\ MaxRuns >= 1 /\ MaxPlans \in Nat /\ draft \in Drafts
  BY ReconciliationAssumption DEF Init, Drafts
<1>2. DraftTypes
  BY <1>1 DEF Init, DraftTypes
<1>3. PlanTypes
  <2>1. DOMAIN plans = {} /\ Cardinality({}) = 0
    BY FS_EmptySet DEF Init
  <2> QED
    BY <1>1, <2>1 DEF PlanTypes
<1>4. InvTypes /\ WorkerTypes
  BY DEF Init, InvTypes, WorkerTypes, IdleWorker, Built, Stages
<1> QED
  BY <1>2, <1>3, <1>4 DEF EvidenceInv

LEMMA EvidenceNext == ASSUME EvidenceInv, [Next]_vars PROVE EvidenceInv'
<1>1. CASE UNCHANGED vars
  <2>1. UNCHANGED <<draft, signed, run, plans, inv, queue, worker, runs>>
    BY <1>1 DEF vars, session
  <2> QED
    BY <2>1 DEF EvidenceInv, DraftTypes, PlanTypes, InvTypes, WorkerTypes, Built, Honest,
                NothingPlaces, Offerable
<1> QED
  BY <1>1, InvestigateTypes, EditTypes, ChangeFilesTypes, NewDraftTypes, DecideTypes,
     ApplyTypes, ToolTypes, WorkTypes DEF Next

LEMMA EvidenceHolds == Spec => []EvidenceInv
BY EvidenceInit, EvidenceNext, PTL DEF Spec

-----------------------------------------------------------------------------
(* The draft. *)

DraftInv == Sound(draft) /\ Signed(draft, signed)

\* A package that fits where it leaves its lessons, with the confirmations it needs.
LEMMA PackageHolds ==
    ASSUME DraftInv, draft \in Drafts, NEW p,
           \A l \in Targeted(p) : Fits(After(draft, p), l),
           draft' = After(draft, p), signed' = signed \cup Retimed(draft, p)
    PROVE  DraftInv'
<1>1. Sound(After(draft, p))
  BY AfterIsSound DEF DraftInv
<1>2. Signed(After(draft, p), signed \cup Retimed(draft, p))
  BY AfterIsSigned DEF DraftInv, Drafts
<1> QED
  BY <1>1, <1>2 DEF DraftInv, Sound, Signed, Fits, Placed, Unresolved

LEMMA EditHolds ==
    ASSUME DraftInv, draft \in Drafts,
           NEW l \in Lessons, NEW place \in Spots \cup {Withdraw}, Edit(l, place)
    PROVE  DraftInv'
<1> DEFINE p == [k \in {l} |-> place]
<1>1. draft' = After(draft, p) /\ signed' = signed \cup Retimed(draft, p)
  BY DEF Edit
<1>2. \A k \in Targeted(p) : k = l /\ place # Withdraw
  BY DEF Targeted, Withdrawn
<1>3. place # Withdraw => Fits(After(draft, p), l)
  BY DEF Edit
<1> HIDE DEF p
<1>4. \A k \in Targeted(p) : Fits(After(draft, p), k)
  BY <1>2, <1>3
<1> QED
  BY <1>1, <1>4, PackageHolds

LEMMA ApplyHolds ==
    ASSUME DraftInv, draft \in Drafts, NEW p, NEW confirmed, Works(draft, p),
           Required(draft, p) \subseteq confirmed, Commit(p, confirmed)
    PROVE  DraftInv'
<1>1. {l \in Retimed(draft, p) : Teacher[l] \in confirmed} = Retimed(draft, p)
  BY DEF Required
<1>2. draft' = After(draft, p) /\ signed' = signed \cup Retimed(draft, p)
  BY <1>1 DEF Commit
<1> QED
  BY <1>2, PackageHolds DEF Works

\* Everything else leaves the placements and the confirmations alone.
LEMMA DraftStays ==
    ASSUME DraftInv, UNCHANGED <<draft, signed>>
    PROVE  DraftInv'
BY DEF DraftInv, Sound, Signed, Fits, Placed, Unresolved

\* The worker never touches the draft: it only writes plans.
LEMMA WorkKeepsDraft ==
    ASSUME Work
    PROVE  UNCHANGED <<draft, signed, run>>
BY DEF Work, Take, RpcEnds, RpcFails, SaveRaises, CloseAtBound, CloseRaises, Save,
       LedgerRaises, HandlerSaves, HandlerFails, HandlerRaises, FailAttempt, Persist, session

LEMMA DraftInit == Init => DraftInv
BY OutcomesAreSound DEF Init, DraftInv

LEMMA DraftNext ==
    ASSUME DraftInv, EvidenceInv, [Next]_vars
    PROVE  DraftInv'
<1>0. draft \in Drafts
  BY DEF EvidenceInv, DraftTypes
<1>1. CASE \E task \in Tasks : Investigate(task)
  BY <1>1, DraftStays DEF Investigate, session
<1>2. CASE \E l \in Lessons, place \in Spots \cup {Withdraw} : Edit(l, place)
  BY <1>0, <1>2, EditHolds
<1>3. CASE ChangeFiles
  BY <1>3, DraftStays DEF ChangeFiles, session
<1>4. CASE Clear
  <2>1. draft' = Blank
    BY <1>4 DEF Clear
  <2>2. Placed(Blank) = {} /\ \A l \in Lessons : Blank[l].time = Requested[l]
    BY DEF Placed, Unresolved, Blank
  <2> QED
    BY <2>1, <2>2 DEF DraftInv, Sound, Signed, Placed, Unresolved
<1>5. CASE \E i \in Invs, decision \in {"pursuing", "rejected"} : Decide(i, decision)
  BY <1>5, DraftStays DEF Decide, Persist
<1>6. CASE ApplySome
  <2>1. PICK i \in DOMAIN plans : \E p \in Options(plans[i]) \cup Shared(plans[i]) :
          /\ Applicable(plans[i], p)
          /\ \E confirmed \in SUBSET Teachers, authorized \in SUBSET Lessons,
                recorded \in BOOLEAN : Apply(i, p, confirmed, authorized, recorded)
    BY <1>6 DEF ApplySome
  <2>2. PICK p : /\ Applicable(plans[i], p)
                 /\ \E confirmed \in SUBSET Teachers, authorized \in SUBSET Lessons,
                       recorded \in BOOLEAN : Apply(i, p, confirmed, authorized, recorded)
    BY <2>1
  <2>3. PICK confirmed : /\ Required(draft, p) \subseteq confirmed
                         /\ Commit(p, confirmed)
    BY <2>2 DEF Apply
  <2> QED
    BY <1>0, <2>2, <2>3, ApplyHolds DEF Applicable
<1>7. CASE Tool
  BY <1>7, ToolKeepsSession, DraftStays DEF session
<1>8. CASE \E d \in Outcomes : RunOptimizer(d)
  <2>1. draft' \in Outcomes
    BY <1>8 DEF RunOptimizer
  <2>2. Sound(draft') /\ Signed(draft', signed')
    BY <2>1, OutcomesAreSound
  <2> QED
    BY <2>2 DEF DraftInv, Sound, Signed, Fits, Placed, Unresolved
<1>9. CASE Work
  BY <1>9, WorkKeepsDraft, DraftStays
<1>10. CASE UNCHANGED vars
  BY <1>10, DraftStays DEF vars, session
<1> QED
  BY <1>1, <1>2, <1>3, <1>4, <1>5, <1>6, <1>7, <1>8, <1>9, <1>10 DEF Next

\* Whatever is edited or applied, in any order and from however old a plan, the draft
\* has no clash, and every lesson off its requested time was confirmed by its teacher,
\* one that waits for a room at the hour it last held included.
THEOREM DraftStaysSound == Spec => []DraftSound
<1>1. Init => DraftInv
  BY DraftInit
<1>2. DraftInv /\ EvidenceInv /\ [Next]_vars => DraftInv'
  BY DraftNext
<1>3. DraftInv => DraftSound
  BY DEF DraftInv, DraftSound, Signed
<1> QED
  BY <1>1, <1>2, <1>3, EvidenceHolds, PTL DEF Spec

-----------------------------------------------------------------------------
(* Theorems about investigations. *)

\* Everything is well formed: only the running investigation holds evidence, within
\* its budget, and the session never holds more than MaxPlans plans.
THEOREM TypeCorrect == Spec => []TypeOK
<1>1. ASSUME EvidenceInv PROVE TypeOK
  <2>1. draft \in [Lessons -> Entries] /\ signed \subseteq Lessons
    BY <1>1 DEF EvidenceInv, DraftTypes, Drafts
  <2>2. run \in 0 .. MaxRuns
    BY <1>1, ReconciliationAssumption DEF EvidenceInv, DraftTypes
  <2>3. DOMAIN plans \subseteq 1 .. Built /\ Cardinality(DOMAIN plans) <= MaxPlans
    BY <1>1 DEF EvidenceInv, PlanTypes
  <2>4. ASSUME NEW i \in DOMAIN inv
        PROVE  /\ inv[i].status \in {"queued", "running"} \cup Answered
               /\ inv[i].calls <= MaxCalls
               /\ inv[i].sims # {} => Live(i)
               /\ inv[i].brief \in Briefs(inv[i].sims) \cup {NoBrief}
    <3>1. i \in 1 .. Len(inv) /\ inv[i] \in Investigation
      BY <1>1, ElementOfSeq DEF EvidenceInv, InvTypes
    <3> QED
      BY <1>1, <3>1 DEF EvidenceInv, InvTypes, Honest, Live, Investigation
  <2>5. worker.step \in {"idle", "rpc", "close", "save", "handler", "failing"}
    BY <1>1 DEF EvidenceInv, WorkerTypes, Stages
  <2> QED
    BY <2>1, <2>2, <2>3, <2>4, <2>5 DEF TypeOK
<1> QED
  BY <1>1, EvidenceHolds, PTL

\* A brief is true to all that was simulated, and stays so while late calls arrive and
\* the server closes the investigation.
THEOREM BriefsAreHonest == Spec => []HonestBrief
<1>1. ASSUME EvidenceInv PROVE HonestBrief
  <2>1. \A i \in DOMAIN inv : Honest(inv[i])
    BY <1>1 DEF EvidenceInv, InvTypes
  <2> QED
    BY <2>1 DEF HonestBrief, Honest
<1> QED
  BY <1>1, EvidenceHolds, PTL

\* An investigation outdated by a save keeps its brief and its evidence.
LEMMA OutdatedBriefStays ==
    ASSUME EvidenceInv, inv' \in {inv, Outdated(inv)}, NEW i \in DOMAIN inv
    PROVE  inv'[i].brief = inv[i].brief /\ inv'[i].sims = inv[i].sims
<1>1. CASE inv' = inv
  BY <1>1
<1>2. CASE inv' = Outdated(inv)
  <2>1. InvTypes /\ i \in 1 .. Len(inv)
    BY DEF EvidenceInv, InvTypes
  <2> QED
    BY <1>2, <2>1, OutdatedKeeps
<1> QED
  BY <1>1, <1>2

\* Once there is a brief, no call, request or close of the server changes it or its
\* evidence before the operation ends.
THEOREM BriefStays == Spec => BriefIsFinal
<1> DEFINE Final == \A i \in DOMAIN inv :
              inv[i].brief # NoBrief /\ worker'.on = i =>
                 inv'[i].brief = inv[i].brief /\ inv'[i].sims = inv[i].sims
<1>1. ASSUME EvidenceInv, [Next]_vars PROVE Final
  <2> SUFFICES ASSUME NEW i \in DOMAIN inv, inv[i].brief # NoBrief, worker'.on = i
               PROVE  inv'[i].brief = inv[i].brief /\ inv'[i].sims = inv[i].sims
    OBVIOUS
  <2>1. /\ inv \in Seq(Investigation) /\ Len(inv) \in Nat /\ i \in 1 .. Len(inv)
        /\ inv[i] \in Investigation
    BY <1>1, ElementOfSeq DEF EvidenceInv, InvTypes
  <2>2. CASE \E task \in Tasks : Investigate(task)
    BY <2>1, <2>2 DEF Investigate
  <2>3. CASE inv' \in {inv, Outdated(inv)}
    BY <1>1, <2>3, OutdatedBriefStays
  <2>4. CASE Tool
    <3>1. PICK k \in DOMAIN inv : \/ Inspect(k)
                                  \/ \E p \in Packages : Simulate(k, p)
                                  \/ \E b \in Briefs(inv[k].sims) : Submit(k, b)
      BY <2>4 DEF Tool
    <3>2. inv[k].brief = NoBrief /\ \A j \in DOMAIN inv \ {k} : inv'[j] = inv[j]
      BY <2>1, <3>1 DEF Inspect, Simulate, Submit, ConsumeToolCall, Submittable
    <3> QED
      BY <3>2
  <2>5. CASE Take
    <3>1. inv' = [inv EXCEPT ![Head(queue)].status = "running"]
      BY <2>5 DEF Take
    <3> QED
      BY <2>1, <3>1 DEF Investigation
  <2>6. ASSUME NEW k \in DOMAIN inv, NEW status, End(k, status)
        PROVE  FALSE
    BY <2>1, <2>6 DEF End, IdleWorker
  <2>7. ASSUME NEW k \in DOMAIN inv, CloseAtBound(k)
        PROVE  inv'[i].brief = inv[i].brief /\ inv'[i].sims = inv[i].sims
    BY <2>1, <2>7 DEF CloseAtBound
  <2>8. CASE Work
    BY <2>3, <2>5, <2>6, <2>7, <2>8
    DEF Work, RpcEnds, RpcFails, SaveRaises, CloseRaises, Save, LedgerRaises,
        HandlerSaves, HandlerFails, HandlerRaises, FailAttempt
  <2>9. CASE \/ \E l \in Lessons, place \in Spots \cup {Withdraw} : Edit(l, place)
             \/ ChangeFiles
             \/ Clear
             \/ \E k \in Invs, decision \in {"pursuing", "rejected"} : Decide(k, decision)
             \/ ApplySome
             \/ \E d \in Outcomes : RunOptimizer(d)
    BY <2>3, <2>9 DEF Edit, ChangeFiles, Clear, Decide, ApplySome, Apply, RunOptimizer
  <2>10. CASE UNCHANGED vars
    BY <2>3, <2>10 DEF vars
  <2> QED
    BY <1>1, <2>2, <2>4, <2>8, <2>9, <2>10 DEF Next
<1> QED
  BY <1>1, EvidenceHolds, PTL DEF Spec, BriefIsFinal

\* When an investigation was created never changes, and a plan says the same.
CreatedInv == \A i \in DOMAIN plans : plans[i].created = inv[i].created

LEMMA OutdatedStays ==
    ASSUME EvidenceInv, inv' \in {inv, Outdated(inv)}, NEW i \in 1 .. Built
    PROVE  inv'[i].created = inv[i].created /\ inv'[i].status = inv[i].status
BY OutdatedKeeps DEF EvidenceInv, Built

\* The operation ends: only its own investigation gets a new status.
LEMMA EndStays ==
    ASSUME EvidenceInv, NEW k \in 1 .. Built, NEW status, End(k, status), NEW i \in 1 .. Built
    PROVE  /\ inv'[i].created = inv[i].created
           /\ inv'[i].status = IF i = k THEN status ELSE inv[i].status
<1> DEFINE f == IF plans' = plans THEN inv ELSE Outdated(inv)
<1>1. InvTypes /\ inv \in Seq(Investigation) /\ Built = Len(inv) /\ Len(inv) \in Nat
  BY DEF EvidenceInv, InvTypes, Built
<1>2. /\ f \in Seq(Investigation) /\ Len(f) = Len(inv)
      /\ f[i].created = inv[i].created /\ f[i].status = inv[i].status
  BY <1>1, OutdatedKeeps
<1> DEFINE v == [status |-> status, run |-> 0, snapshot |-> Blank,
                 created |-> inv[k].created, task |-> NoTask, fresh |-> FALSE, sims |-> {},
                 calls |-> 0, inspected |-> FALSE, brief |-> NoBrief]
<1>3. /\ inv' = [f EXCEPT ![k] = v]
      /\ v.created = inv[k].created /\ v.status = status
  BY DEF End
<1> HIDE DEF f, v
<1>4. inv'[i] = IF i = k THEN v ELSE f[i]
  BY <1>1, <1>2, <1>3
<1> QED
  BY <1>2, <1>3, <1>4

\* A record is stored that says when its investigation was created.
Saves(k) ==
    \E record \in Plan : record.created = inv[k].created /\ plans' = Stored(k, record)

LEMMA RecordSaves ==
    ASSUME EvidenceInv, NEW k \in 1 .. Built, NEW status \in {"completed", "failed"},
           Persist(k, Record(k, status))
    PROVE  Saves(k)
<1>1. Record(k, status) \in Plan
  BY RecordIsPlan DEF Built
<1>2. Record(k, status).created = inv[k].created
  BY DEF Record
<1> QED
  BY <1>1, <1>2 DEF Saves, Persist

\* The ways a step changes the plans and the status of the investigations.
Untouched == DOMAIN plans' = DOMAIN plans /\ \A i \in DOMAIN plans : plans'[i].created = plans[i].created
Standing == \A i \in 1 .. Built : inv'[i].status = "completed" => inv[i].status = "completed"

PlanStep ==
    \/ Untouched /\ Standing
    \/ plans' = <<>> /\ run' # run
    \/ \E k \in 1 .. Built :
          /\ Saves(k)
          /\ \A i \in 1 .. Built \ {k} :
                inv'[i].status = "completed" => inv[i].status = "completed"

LEMMA ClearStep ==
    ASSUME EvidenceInv, Clear \/ \E d \in Outcomes : RunOptimizer(d)
    PROVE  PlanStep /\ inv' = Outdated(inv)
<1>1. plans' = <<>> /\ inv' = Outdated(inv) /\ ((run' = 0 /\ run # 0) \/ run' = runs + 1)
  BY DEF Clear, RunOptimizer
<1>2. run' # run
  <2>1. run \in 0 .. runs /\ runs \in Nat
    BY DEF EvidenceInv, DraftTypes
  <2> QED
    BY <1>1, <2>1
<1> QED
  BY <1>1, <1>2 DEF PlanStep

LEMMA DecideStep ==
    ASSUME EvidenceInv, CreatedInv, NEW k, NEW decision \in {"pursuing", "rejected"},
           Decide(k, decision)
    PROVE  PlanStep /\ inv' = Outdated(inv)
<1> DEFINE record == [plans[k] EXCEPT !.brief.status = decision, !.operation = "completed"]
<1>1. k \in DOMAIN plans /\ plans' = Stored(k, record) /\ inv' = Outdated(inv)
  BY DEF Decide, Persist
<1>2. plans[k] \in Plan /\ k \in 1 .. Built
  BY <1>1 DEF EvidenceInv, PlanTypes
<1>3. record \in Plan /\ record.created = plans[k].created
  BY <1>2 DEF Plan, BriefSet
<1> HIDE DEF record
<1>4. Saves(k)
  BY <1>1, <1>3 DEF Saves, CreatedInv
<1>5. \A i \in 1 .. Built : inv'[i].status = inv[i].status
  BY <1>1, OutdatedStays
<1> QED
  BY <1>1, <1>2, <1>4, <1>5 DEF PlanStep

LEMMA ApplyStep ==
    ASSUME EvidenceInv, ApplySome
    PROVE  PlanStep /\ inv' = Outdated(inv)
<1>1. PICK k \in DOMAIN plans :
        /\ plans' \in {[plans EXCEPT ![k].operation = "applied"], plans}
        /\ inv' = Outdated(inv)
  BY DEF ApplySome, Apply
<1>2. plans[k] \in Plan
  BY DEF EvidenceInv, PlanTypes
<1>3. Untouched
  BY <1>1, <1>2 DEF Untouched, Plan
<1>4. Standing
  BY <1>1, OutdatedStays DEF Standing
<1> QED
  BY <1>1, <1>3, <1>4 DEF PlanStep

\* A call or a step of the worker that stores nothing.
LEMMA CallStays ==
    ASSUME EvidenceInv, Tool \/ Take \/ \E k \in DOMAIN inv : CloseAtBound(k),
           NEW i \in 1 .. Built
    PROVE  /\ plans' = plans /\ inv'[i].created = inv[i].created
           /\ inv'[i].status \in {inv[i].status, "running"}
<1>1. /\ inv \in Seq(Investigation) /\ Len(inv) \in Nat /\ i \in 1 .. Len(inv)
      /\ inv[i] \in Investigation /\ DOMAIN inv = 1 .. Len(inv)
  BY ElementOfSeq DEF EvidenceInv, InvTypes, Built
<1>2. CASE Tool
  <2>1. PICK k \in DOMAIN inv : \/ Inspect(k)
                                \/ \E p \in Packages : Simulate(k, p)
                                \/ \E b \in Briefs(inv[k].sims) : Submit(k, b)
    BY <1>2 DEF Tool
  <2>2. CASE Inspect(k)
    BY <1>1, <2>2 DEF Inspect, session, Investigation
  <2>3. CASE \E p \in Packages : Simulate(k, p)
    <3>1. PICK sims : inv' = [inv EXCEPT ![k].calls = @ + 1, ![k].sims = sims]
      BY <2>3 DEF Simulate
    <3>2. plans' = plans
      BY <2>3 DEF Simulate, session
    <3> QED
      BY <1>1, <3>1, <3>2 DEF Investigation
  <2>4. CASE \E b \in Briefs(inv[k].sims) : Submit(k, b)
    BY <1>1, <2>4 DEF Submit, session, Investigation
  <2> QED
    BY <2>1, <2>2, <2>3, <2>4
<1>3. CASE Take
  <2>1. inv' = [inv EXCEPT ![Head(queue)].status = "running"] /\ plans' = plans
    BY <1>3 DEF Take, session
  <2> QED
    BY <1>1, <2>1 DEF Investigation
<1>4. CASE \E k \in DOMAIN inv : CloseAtBound(k)
  <2>1. plans' = plans
    BY <1>4 DEF CloseAtBound, session
  <2>2. PICK k \in DOMAIN inv : CloseAtBound(k)
    BY <1>4
  <2>3. CASE inv' = inv
    BY <2>1, <2>3
  <2>4. CASE inv' # inv
    <3>1. PICK b : inv' = [inv EXCEPT ![k].brief = b]
      BY <2>2, <2>4 DEF CloseAtBound
    <3>2. inv'[i] = IF i = k THEN [inv[i] EXCEPT !.brief = b] ELSE inv[i]
      BY <1>1, <3>1
    <3>3. inv'[i].created = inv[i].created /\ inv'[i].status = inv[i].status
      BY <1>1, <3>2 DEF Investigation
    <3> QED
      BY <2>1, <3>3
  <2> QED
    BY <2>3, <2>4
<1> QED
  BY <1>2, <1>3, <1>4

LEMMA CallStep ==
    ASSUME EvidenceInv, Tool \/ Take \/ \E k \in DOMAIN inv : CloseAtBound(k)
    PROVE  PlanStep /\ \A i \in 1 .. Built : inv'[i].created = inv[i].created
<1>1. \A i \in 1 .. Built : /\ inv'[i].created = inv[i].created
                            /\ inv'[i].status \in {inv[i].status, "running"}
  BY CallStays
<1>2. plans' = plans
  BY DEF Tool, Inspect, Simulate, Submit, Take, CloseAtBound, session
<1> QED
  BY <1>1, <1>2 DEF PlanStep, Untouched, Standing

\* The worker answers an investigation, with or without a plan.
LEMMA EndStep ==
    ASSUME EvidenceInv, NEW k \in 1 .. Built, NEW status, End(k, status),
           \/ UNCHANGED session /\ status # "completed"
           \/ Saves(k)
    PROVE  PlanStep /\ \A i \in 1 .. Built : inv'[i].created = inv[i].created
<1>1. \A i \in 1 .. Built : /\ inv'[i].created = inv[i].created
                            /\ inv'[i].status = IF i = k THEN status ELSE inv[i].status
  BY EndStays
<1>2. CASE UNCHANGED session /\ status # "completed"
  BY <1>1, <1>2 DEF PlanStep, Untouched, Standing, session
<1>3. CASE Saves(k)
  BY <1>1, <1>3 DEF PlanStep
<1> QED
  BY <1>1, <1>2, <1>3

LEMMA LedgerStep ==
    ASSUME EvidenceInv, NEW k \in 1 .. Built, LedgerRaises(k)
    PROVE  PlanStep /\ inv' = Outdated(inv)
<1>1. Persist(k, Record(k, "completed")) /\ inv' = Outdated(inv)
  BY DEF LedgerRaises
<1>2. Saves(k)
  BY <1>1, RecordSaves
<1>3. \A i \in 1 .. Built : inv'[i].status = inv[i].status
  BY <1>1, OutdatedStays
<1> QED
  BY <1>1, <1>2, <1>3 DEF PlanStep

LEMMA QuietStep ==
    ASSUME EvidenceInv, UNCHANGED plans, inv' \in {inv, Outdated(inv)}
    PROVE  PlanStep
BY OutdatedStays DEF PlanStep, Untouched, Standing

LEMMA EveryPlanStep ==
    ASSUME EvidenceInv, CreatedInv, [Next]_vars
    PROVE  PlanStep /\ \A i \in 1 .. Built : inv'[i].created = inv[i].created
<1>1. DOMAIN inv = 1 .. Built
  BY DEF EvidenceInv, InvTypes, Built
<1>2. CASE \E task \in Tasks : Investigate(task)
  <2>1. \A i \in 1 .. Built : inv'[i] = inv[i]
    BY <1>2 DEF Investigate, Built, EvidenceInv, InvTypes
  <2>2. plans' = plans
    BY <1>2 DEF Investigate, session
  <2> QED
    BY <2>1, <2>2 DEF PlanStep, Untouched, Standing
<1>3. CASE inv' \in {inv, Outdated(inv)} /\ PlanStep
  BY <1>3, OutdatedStays
<1>4. CASE (\E l \in Lessons, place \in Spots \cup {Withdraw} : Edit(l, place)) \/ ChangeFiles
  <2>1. plans' = plans /\ inv' = Outdated(inv)
    BY <1>4 DEF Edit, ChangeFiles, session
  <2> QED
    BY <1>3, <2>1, QuietStep
<1>5. CASE Clear \/ \E d \in Outcomes : RunOptimizer(d)
  BY <1>3, <1>5, ClearStep
<1>6. CASE \E k \in Invs, decision \in {"pursuing", "rejected"} : Decide(k, decision)
  BY <1>3, <1>6, DecideStep
<1>7. CASE ApplySome
  BY <1>3, <1>7, ApplyStep
<1>8. CASE Tool \/ Take \/ \E k \in DOMAIN inv : CloseAtBound(k)
  BY <1>8, CallStep
<1>9. CASE \/ RpcEnds \/ RpcFails \/ SaveRaises
           \/ \E k \in DOMAIN inv : CloseRaises(k) \/ HandlerFails(k)
           \/ UNCHANGED vars
  <2>1. plans' = plans /\ inv' = inv
    BY <1>9 DEF RpcEnds, RpcFails, SaveRaises, CloseRaises, HandlerFails, vars, session
  <2> QED
    BY <1>3, <2>1, QuietStep
<1>10. CASE \E k \in DOMAIN inv : LedgerRaises(k)
  BY <1>1, <1>3, <1>10, LedgerStep
<1>11. ASSUME NEW k \in DOMAIN inv,
              Save(k) \/ HandlerSaves(k) \/ HandlerRaises(k) \/ FailAttempt(k)
       PROVE  PlanStep /\ \A i \in 1 .. Built : inv'[i].created = inv[i].created
  <2>1. PICK status : /\ End(k, status)
                      /\ \/ UNCHANGED session /\ status # "completed"
                         \/ Persist(k, Record(k, "completed"))
                         \/ Persist(k, Record(k, "failed"))
    BY <1>11 DEF Save, HandlerSaves, HandlerRaises, FailAttempt
  <2>2. (UNCHANGED session /\ status # "completed") \/ Saves(k)
    BY <1>1, <2>1, RecordSaves
  <2> QED
    BY <1>1, <2>1, <2>2, EndStep
<1> QED
  BY <1>2, <1>4, <1>5, <1>6, <1>7, <1>8, <1>9, <1>10, <1>11 DEF Next, Work

\* What storing a plan leaves.
LEMMA SavesKeep ==
    ASSUME EvidenceInv, CreatedInv, NEW k \in 1 .. Built, Saves(k)
    PROVE  /\ DOMAIN plans' \subseteq DOMAIN plans \cup {k} /\ DOMAIN plans' # {}
           /\ \A j \in DOMAIN plans' : plans'[j].created = inv[j].created
           /\ \A i \in (DOMAIN plans \cup {k}) \ DOMAIN plans', j \in DOMAIN plans' :
                 plans'[j].created >= inv[i].created
<1>1. PICK record \in Plan : record.created = inv[k].created /\ plans' = Stored(k, record)
  BY DEF Saves
<1>2. Built \in Nat /\ DOMAIN plans \subseteq 1 .. Built
  BY DEF Built, EvidenceInv, PlanTypes, InvTypes
<1>3. record.created \in Nat /\ \A i \in DOMAIN plans : plans[i].created \in Nat
  BY PlansHaveSeconds
<1>4. /\ DOMAIN Stored(k, record) \subseteq DOMAIN plans \cup {k}
      /\ DOMAIN Stored(k, record) # {}
      /\ \A i \in DOMAIN Stored(k, record) :
            Stored(k, record)[i] = IF i = k THEN record ELSE plans[i]
      /\ \A i \in (DOMAIN plans \cup {k}) \ DOMAIN Stored(k, record),
            j \in DOMAIN Stored(k, record) :
            Stored(k, record)[j].created >= (IF i = k THEN record ELSE plans[i]).created
  BY <1>2, <1>3, StoredKeeps
<1>5. \A i \in DOMAIN plans \cup {k} :
         (IF i = k THEN record ELSE plans[i]).created = inv[i].created
  BY <1>1 DEF CreatedInv
<1> QED
  BY <1>1, <1>4, <1>5

LEMMA CreatedHolds ==
    ASSUME EvidenceInv, CreatedInv, [Next]_vars
    PROVE  CreatedInv'
<1>1. PlanStep /\ \A i \in 1 .. Built : inv'[i].created = inv[i].created
  BY EveryPlanStep
<1>2. DOMAIN plans \subseteq 1 .. Built
  BY DEF EvidenceInv, PlanTypes
<1>3. CASE Untouched
  BY <1>1, <1>2, <1>3 DEF Untouched, CreatedInv
<1>4. CASE plans' = <<>>
  BY <1>4 DEF CreatedInv
<1>5. ASSUME NEW k \in 1 .. Built, Saves(k)
      PROVE  CreatedInv'
  BY <1>1, <1>2, <1>5, SavesKeep DEF CreatedInv
<1> QED
  BY <1>1, <1>3, <1>4, <1>5 DEF PlanStep

LEMMA CreatedKept == Spec => []CreatedInv
<1>1. Init => CreatedInv
  BY DEF Init, CreatedInv
<1>2. EvidenceInv /\ CreatedInv /\ [Next]_vars => CreatedInv'
  BY CreatedHolds
<1> QED
  BY <1>1, <1>2, EvidenceHolds, PTL DEF Spec

\* Completing an investigation stores its plan.  Within a run a plan goes only where
\* others stay, of the same second or of later ones: a later second is never pushed out
\* by an earlier one, in whatever order plans are saved, decided and saved again.
THEOREM NewestStays == Spec => NewestPlanStays
<1> DEFINE Stays == \A i \in DOMAIN inv :
          /\ i \in DOMAIN plans \/ (inv[i].status # "completed" /\ inv'[i].status = "completed")
          /\ run' = run
          /\ i \notin DOMAIN plans'
          => /\ DOMAIN plans' # {}
             /\ \A j \in DOMAIN plans' : plans'[j].created >= inv[i].created
<1>1. ASSUME EvidenceInv, CreatedInv, [Next]_vars PROVE Stays
  <2> SUFFICES ASSUME NEW i \in DOMAIN inv,
                      \/ i \in DOMAIN plans
                      \/ inv[i].status # "completed" /\ inv'[i].status = "completed",
                      run' = run, i \notin DOMAIN plans'
               PROVE  /\ DOMAIN plans' # {}
                      /\ \A j \in DOMAIN plans' : plans'[j].created >= inv[i].created
    OBVIOUS
  <2>1. PlanStep /\ i \in 1 .. Built
    BY <1>1, EveryPlanStep DEF EvidenceInv, InvTypes, Built
  <2>2. PICK k \in 1 .. Built :
          /\ Saves(k)
          /\ \A m \in 1 .. Built \ {k} :
                inv'[m].status = "completed" => inv[m].status = "completed"
    BY <2>1 DEF PlanStep, Untouched, Standing
  <2>3. i \in (DOMAIN plans \cup {k}) \ DOMAIN plans'
    BY <2>1, <2>2
  <2> QED
    BY <1>1, <2>2, <2>3, SavesKeep
<1> QED
  BY <1>1, EvidenceHolds, CreatedKept, PTL DEF Spec, NewestPlanStays

\* An apply leaves exactly what the simulation showed, although the schedule may have
\* changed any number of times since.
THEOREM AppliedIsShown == Spec => AppliesWhatWasShown
<1>1. ASSUME NEW i \in DOMAIN plans, NEW p, NEW recorded, Applicable(plans[i], p),
             Apply(i, p, Teachers, Lessons, recorded)
      PROVE  draft' = After(plans[i].snapshot, p)
  BY <1>1 DEF Applicable, Apply, Commit
<1>2. draft' # draft /\ turns' # turns =>
         \A i \in DOMAIN plans : \A p \in Packages \cup Shared(plans[i]) :
            /\ Applicable(plans[i], p)
            /\ \E recorded \in BOOLEAN : Apply(i, p, Teachers, Lessons, recorded)
            => draft' = After(plans[i].snapshot, p)
  BY <1>1
<1> QED
  BY <1>2, PTL DEF AppliesWhatWasShown
=============================================================================
