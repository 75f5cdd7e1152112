--------------------------- MODULE PackageSandbox ---------------------------
(***************************************************************************)
(* What the reconciliation sandbox says of a package: a set of final       *)
(* placements and withdrawals, tried as a whole on a draft.  The day is    *)
(* one day (packages that leave it are refused), a teacher-day block is    *)
(* the package of its lessons.                                             *)
(***************************************************************************)
EXTENDS Integers, FiniteSetsExt

CONSTANTS
    Lessons, Rooms, Times,
    Teacher,      \* the teacher of a lesson
    Requested,    \* the time its workbook row asks for
    Suits,        \* <<lesson, room>>: the room rules accept the lesson there
    Pool,         \* teachers whose time-change status is ask_allowed
    Fixed,        \* those whose status is original_time_only
    Nowhere,      \* the room of an unresolved lesson
    Withdraw,     \* the target of a withdrawal
    NoPackage

ASSUME SandboxAssumption ==
    /\ Teacher \in [Lessons -> Pool \cup {Teacher[l] : l \in Lessons}]
    /\ Requested \in [Lessons -> Times]
    /\ Suits \subseteq Lessons \X Rooms
    /\ Nowhere \notin Rooms
    /\ Pool \cap Fixed = {}

Spots == [room: Rooms, time: Times]

\* An entry has a room or waits for one; then it keeps the hour it last held, and
\* has the hour of its row until it was placed.
Entries == [room: Rooms \cup {Nowhere}, time: Times]
Teachers == {Teacher[l] : l \in Lessons}

Unresolved(d) == {l \in Lessons : d[l].room = Nowhere}
Placed(d) == Lessons \ Unresolved(d)

\* The room takes the lesson, and nobody else is there, nor the teacher elsewhere.
Fits(d, l) ==
    /\ <<l, d[l].room>> \in Suits
    /\ \A k \in Placed(d) \ {l} :
          d[k].time = d[l].time => d[k].room # d[l].room /\ Teacher[k] # Teacher[l]

Sound(d) == \A l \in Placed(d) : Fits(d, l)

-----------------------------------------------------------------------------
Withdrawn(p) == {l \in DOMAIN p : p[l] = Withdraw}
Targeted(p) == DOMAIN p \ Withdrawn(p)

After(d, p) ==
    [l \in Lessons |-> IF l \notin DOMAIN p THEN d[l]
                       ELSE IF l \in Withdrawn(p) THEN [d[l] EXCEPT !.room = Nowhere]
                       ELSE p[l]]

\* event_time_changed, context_time_changed: against the hour a lesson holds, or the
\* one build_context finds in an unresolved entry, which is the last it held.
Retimed(d, p) == {l \in Targeted(p) : p[l].time # d[l].time}

Required(d, p) == {Teacher[l] : l \in Retimed(d, p)}

\* _enforce_permits and _normalize_public_changes, for the task of the operator.
Permitted(d, p, task) ==
    /\ Withdrawn(p) \subseteq Placed(d)
    /\ \A l \in DOMAIN p : Teacher[l] \notin task.protect
    /\ Required(d, p) \subseteq task.allow

\* Touched lessons leave first, so the order of the others does not matter.
Works(d, p) ==
    /\ Withdrawn(p) \subseteq Placed(d)
    /\ Required(d, p) \subseteq Pool
    /\ \A l \in Targeted(p) : Fits(After(d, p), l)

\* What a simulation reports: nobody has confirmed and nothing is authorized yet.
Status(d, p) ==
    IF ~Works(d, p) THEN "infeasible"
    ELSE IF Required(d, p) # {} \/ Withdrawn(p) # {} THEN "conditional"
    ELSE "feasible"

-----------------------------------------------------------------------------
RoomsOf(d, t) == {d[l].room : l \in {k \in Placed(d) : Teacher[k] = t}}

Resolved(d, p) == Cardinality(Unresolved(d)) - Cardinality(Unresolved(After(d, p)))

Moved(d, p) == Targeted(p) \cap Placed(d)
Switched(d, p) == {l \in Moved(d, p) : p[l].room # d[l].room}

Affected(d, p) ==
    {Teacher[l] : l \in Retimed(d, p) \cup Withdrawn(p) \cup (Targeted(p) \cap Unresolved(d))}

Split(d, p) ==
    {t \in Teachers : LET before == Cardinality(RoomsOf(d, t))
                          after == Cardinality(RoomsOf(After(d, p), t))
                      IN  after > 1 /\ after > before}

Costs(d, p) ==
    [remaining |-> Cardinality(Unresolved(After(d, p))),
     moved |-> Cardinality(Moved(d, p)),
     retimed |-> Cardinality(Retimed(d, p)),
     splits |-> Cardinality(Split(d, p)),
     switches |-> Cardinality(Switched(d, p)),
     affected |-> Cardinality(Affected(d, p)),
     confirmations |-> Cardinality(Required(d, p)),
     sacrificed |-> Cardinality(Withdrawn(p))]

\* Pareto dominance of p over q.
Dominates(d, p, q) ==
    LET kp == Costs(d, p)
        kq == Costs(d, q)
    IN  /\ Resolved(d, p) >= Resolved(d, q)
        /\ \A k \in DOMAIN kp : kp[k] <= kq[k]
        /\ Resolved(d, p) > Resolved(d, q) \/ kp # kq

Usable(d, p) == Status(d, p) # "infeasible"
Preserving(d, p) == Usable(d, p) /\ Withdrawn(p) = {}
Placing(d, p) == Usable(d, p) /\ (Resolved(d, p) > 0 \/ Withdrawn(p) # {})

\* The changes two packages share.
Common(p, q) ==
    LET same == {l \in DOMAIN p \cap DOMAIN q : p[l] = q[l]}
    IN  IF same = {} THEN NoPackage ELSE [l \in same |-> p[l]]
=============================================================================
