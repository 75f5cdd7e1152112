----------------------- MODULE RoomAllocation_proofs -----------------------
(***************************************************************************)
(* Safety of the room allocator for any sheets, rooms, teachers, priorities *)
(* and opening hours.  Rooms are chosen among those that fit every lesson  *)
(* of a group or block; that the lessons of a group or block do not clash  *)
(* with each other is what has to be carried along: they have one teacher, *)
(* whom the source never asks twice at one hour.  The second half follows  *)
(* the books of a run: who is still fresh, who has been answered, which    *)
(* blocks are on the board, and that blocks lie apart because being        *)
(* chained without a long gap is an equivalence.                           *)
(***************************************************************************)
EXTENDS RoomAllocation, FiniteSetTheorems, TLAPS

\* One teacher, never a pinned lesson.
Free(S, g) ==
    /\ g \subseteq S
    /\ \A p, q \in g : Who[p] = Who[q]

Shape ==
    /\ slot \in [Requests -> Slots]
    /\ \A p, q \in Requests : ~SameTeacherClash(p, q)
    /\ pinned \subseteq Requests
    /\ room = [q \in Requests |-> room[q]]
    /\ \A g \in groups : Free(Weekly \ pinned, g)
    /\ \A B \in tracked : Free(Weekly, B)
    /\ waiting \subseteq Studio \ pinned

IInv == Shape /\ NoDoubleUse

-----------------------------------------------------------------------------
(* Slots. *)

\* Hours are integers, so overlap is symmetric.
LEMMA OverlapSymmetric ==
    ASSUME slot \in [Requests -> Slots], NEW p \in Requests, NEW q \in Requests
    PROVE  Overlap(p, q) <=> Overlap(q, p)
BY DEF Overlap

\* The weekly lessons of one teacher never overlap.
LEMMA TeacherIsFree ==
    ASSUME Shape, NEW p \in Weekly, NEW q \in Weekly, p # q, Who[p] = Who[q]
    PROVE  ~Overlap(p, q)
BY AllocationAssumption DEF Shape, SameTeacherClash, Requests

\* The lessons of a block do not overlap, an untracked event is alone in its block.
LEMMA BlockIsFree ==
    ASSUME Shape, NEW e \in Requests, NEW p \in BlockOf(e), NEW q \in BlockOf(e), p # q
    PROVE  ~Overlap(p, q)
<1>1. \A x \in BlockOf(e) : x # e => x \in Weekly /\ e \in Weekly /\ Who[x] = Who[e]
  BY DEF BlockOf, Shape, Free
<1>2. p \in Weekly /\ q \in Weekly /\ Who[p] = Who[q]
  BY <1>1
<1> QED
  BY <1>2, TeacherIsFree

\* What fits while some lessons are about to leave is free of all the others.
LEMMA FitsApart ==
    ASSUME NEW r, NEW q, NEW L, Fits(r, q, L), NEW p \in placed \ L, room[p] = r
    PROVE  ~Overlap(p, q)
BY DEF Fits

-----------------------------------------------------------------------------
(* One lemma for everything that gives a set of requests a room: the room fits   *)
(* each of them once the leaving ones are gone, and they do not overlap.         *)

\* The requests of S that get the room r keep every room free of double use.
LEMMA PlacingKeeps ==
    ASSUME IInv, NEW S \in SUBSET Requests, NEW L \in SUBSET Requests, NEW r,
           \A q \in S : Fits(r, q, L),
           \A p, q \in S : p # q => ~Overlap(p, q),
           \A p \in L : room[p] # NoRoom => p \in S,
           UNCHANGED input,
           room' = [q \in Requests |-> IF q \in S THEN r ELSE room[q]]
    PROVE  NoDoubleUse'
<1> SUFFICES ASSUME NEW q \in placed'
             PROVE  Fits(room[q], q, {q})'
  BY DEF NoDoubleUse
<1> slot' = slot /\ booked' = booked
  BY DEF input
<1> slot \in [Requests -> Slots]
  BY DEF IInv, Shape
<1>1. q \in Requests /\ room'[q] # NoRoom
  BY DEF placed
<1>2. /\ Opens <= At(q) /\ End(q) <= Closes
      /\ \A h \in Opens .. Closes : At(q) <= h /\ h < End(q) => <<room'[q], h>> \notin booked
  <2>1. CASE q \in S
    BY <1>1, <2>1 DEF Fits
  <2>2. CASE q \notin S
    <3>1. q \in placed /\ room'[q] = room[q]
      BY <1>1, <2>2 DEF placed
    <3> QED
      BY <3>1 DEF IInv, NoDoubleUse, Fits
  <2> QED
    BY <2>1, <2>2
<1>3. ASSUME NEW p \in placed', p # q, room'[p] = room'[q]
      PROVE  ~Overlap(p, q)
  <2>0. p \in Requests /\ room'[p] # NoRoom
    BY DEF placed
  <2>1. CASE p \in S /\ q \in S
    BY <1>3, <2>1
  <2>2. CASE p \notin S /\ q \in S
    <3>1. room'[p] = room[p] /\ room[p] = r
      BY <1>1, <1>3, <2>0, <2>2
    <3>2. p \in placed \ L
      BY <2>0, <2>2, <3>1 DEF placed
    <3> QED
      BY <2>2, <3>1, <3>2, FitsApart
  <2>3. CASE p \in S /\ q \notin S
    <3>1. room'[q] = room[q] /\ room[q] = r
      BY <1>1, <1>3, <2>0, <2>3
    <3>2. q \in placed \ L
      BY <1>1, <2>3, <3>1 DEF placed
    <3>3. ~Overlap(q, p)
      BY <2>3, <3>1, <3>2, FitsApart
    <3> QED
      BY <1>1, <2>0, <3>3, OverlapSymmetric
  <2>4. CASE p \notin S /\ q \notin S
    <3>1. /\ p \in placed \ {q} /\ q \in placed
          /\ room[p] = room[q] /\ room'[q] = room[q]
      BY <1>1, <1>3, <2>0, <2>4 DEF placed
    <3>2. Fits(room[q], q, {q})
      BY <3>1 DEF IInv, NoDoubleUse
    <3> QED
      BY <3>1, <3>2, FitsApart
  <2> QED
    BY <2>1, <2>2, <2>3, <2>4
<1>4. \A p \in Requests : At(p)' = At(p) /\ End(p)' = End(p)
  BY DEF At, End
<1>5. \A p \in Requests : Overlap(p, q)' <=> Overlap(p, q)
  BY <1>1, <1>4 DEF Overlap
<1> QED
  BY <1>1, <1>2, <1>3, <1>4, <1>5 DEF Fits, placed

\* The same when nobody leaves.
LEMMA FittingKeeps ==
    ASSUME IInv, NEW S \in SUBSET Requests, NEW r,
           \A q \in S : Fits(r, q, {}),
           \A p, q \in S : p # q => ~Overlap(p, q),
           UNCHANGED input,
           room' = [q \in Requests |-> IF q \in S THEN r ELSE room[q]]
    PROVE  NoDoubleUse' /\ room' = [q \in Requests |-> room'[q]]
<1> DEFINE L == {}
<1>1. L \in SUBSET Requests /\ \A p \in L : room[p] # NoRoom => p \in S
  OBVIOUS
<1>2. \A q \in S : Fits(r, q, L)
  OBVIOUS
<1> HIDE DEF L
<1>3. NoDoubleUse'
  BY <1>1, <1>2, PlacingKeeps
<1> QED
  BY <1>3

\* Taking requests off the board keeps every room free of double use.
LEMMA EvictingKeeps ==
    ASSUME IInv, NEW S \in SUBSET Requests, UNCHANGED input,
           room' = [q \in Requests |-> IF q \in S THEN NoRoom ELSE room[q]]
    PROVE  NoDoubleUse'
<1> SUFFICES ASSUME NEW q \in placed'
             PROVE  Fits(room[q], q, {q})'
  BY DEF NoDoubleUse
<1> slot' = slot /\ booked' = booked
  BY DEF input
<1>1. placed' \subseteq placed /\ \A p \in placed' : room'[p] = room[p]
  BY DEF placed
<1>2. Fits(room[q], q, {q})
  BY <1>1 DEF IInv, NoDoubleUse
<1> QED
  BY <1>1, <1>2 DEF Fits, Overlap, At, End

\* Groups and blocks are made of one teacher's lessons.
LEMMA GroupsAreFree ==
    ASSUME NEW S, NEW g \in Groups(S)
    PROVE  Free(S, g)
BY DEF Groups, OfTeacher, Free

LEMMA LinkedAreFree ==
    ASSUME NEW S, NEW B \in Linked(S)
    PROVE  Free(S, B)
BY DEF Linked, OfTeacher, Free

-----------------------------------------------------------------------------
(* Steps. *)

\* What the shape of a state asks of a step that keeps the input.
LEMMA ShapeKept ==
    ASSUME Shape, UNCHANGED input,
           room' = [q \in Requests |-> room'[q]],
           \A g \in groups' : Free(Weekly \ pinned, g),
           \A B \in tracked' : Free(Weekly, B),
           waiting' \subseteq Studio \ pinned
    PROVE  Shape'
BY DEF Shape, input, Free, SameTeacherClash, Overlap, At, End

LEMMA InitHolds == Init => IInv
<1> SUFFICES ASSUME Init PROVE IInv
  OBVIOUS
<1>1. pinned \subseteq Requests
  BY DEF Init, kSubset
<1>2. Shape
  BY <1>1 DEF Init, Shape
<1>3. NoDoubleUse
  BY DEF Init, NoDoubleUse, placed
<1> QED
  BY <1>2, <1>3 DEF IInv

LEMMA StayHolds ==
    ASSUME IInv, UNCHANGED <<input, room>>
    PROVE  NoDoubleUse' /\ room' = [q \in Requests |-> room'[q]]
BY DEF IInv, Shape, NoDoubleUse, input, placed, Fits, Overlap, At, End

LEMMA ReadHolds == ASSUME IInv, Read PROVE IInv'
<1>1. NoDoubleUse' /\ room' = [q \in Requests |-> room'[q]]
  BY StayHolds DEF Read
<1>2. \A g \in groups' : Free(Weekly \ pinned, g)
  BY GroupsAreFree DEF Read, Free
<1>3. Shape'
  BY <1>1, <1>2, ShapeKept DEF Read, IInv, Shape
<1> QED
  BY <1>1, <1>3 DEF IInv

LEMMA PlaceGroupHolds == ASSUME IInv, NEW g \in groups, PlaceGroup(g) PROVE IInv'
<1>1. Free(Weekly \ pinned, g)
  BY DEF IInv, Shape
<1> DEFINE candidates == {r \in Rooms : \A q \in g : Fits(r, q, {}) /\ Score(r, q) >= 0}
           total == [r \in candidates |-> MapThenSumSet(LAMBDA q : Score(r, q), g)]
<1>2. CASE \E r \in Best(total) : Place(g, r)
  <2>1. PICK r \in candidates : Place(g, r)
    BY <1>2 DEF Best
  <2>2. g \in SUBSET Requests /\ \A p, q \in g : p # q => ~Overlap(p, q)
    BY <1>1, TeacherIsFree DEF IInv, Free, Requests
  <2>3. room' = [q \in Requests |-> IF q \in g THEN r ELSE room[q]]
    BY <2>1 DEF Place
  <2>4. \A q \in g : Fits(r, q, {})
    BY <2>1
  <2>5. UNCHANGED input
    BY DEF PlaceGroup
  <2> HIDE DEF candidates
  <2>6. NoDoubleUse' /\ room' = [q \in Requests |-> room'[q]]
    BY <2>2, <2>3, <2>4, <2>5, FittingKeeps
  <2>7. Shape'
    BY <2>5, <2>6, ShapeKept DEF PlaceGroup, IInv, Shape
  <2> QED
    BY <2>6, <2>7 DEF IInv
<1>3. CASE UNCHANGED room
  <2>1. NoDoubleUse' /\ room' = [q \in Requests |-> room'[q]]
    BY <1>3, StayHolds DEF PlaceGroup
  <2>2. Shape'
    BY <2>1, ShapeKept DEF PlaceGroup, IInv, Shape
  <2> QED
    BY <2>1, <2>2 DEF IInv
<1> QED
  BY <1>2, <1>3 DEF PlaceGroup

LEMMA LinkHolds == ASSUME IInv, Link PROVE IInv'
<1>1. NoDoubleUse' /\ room' = [q \in Requests |-> room'[q]]
  BY StayHolds DEF Link
<1>2. \A B \in tracked' : Free(Weekly, B)
  BY LinkedAreFree DEF Link, Free
<1>3. Shape'
  BY <1>1, <1>2, ShapeKept DEF Link, IInv, Shape
<1> QED
  BY <1>1, <1>3 DEF IInv

\* The request at hand gets a room that fits it.
LEMMA RequestHolds ==
    ASSUME IInv, NEW q \in waiting, NEW r, Fits(r, q, {}), Place({q}, r), UNCHANGED input
    PROVE  NoDoubleUse' /\ room' = [p \in Requests |-> room'[p]]
<1>1. {q} \in SUBSET Requests
  BY DEF IInv, Shape, Requests
<1>2. room' = [p \in Requests |-> IF p \in {q} THEN r ELSE room[p]]
  BY DEF Place
<1>3. /\ \A p \in {q} : Fits(r, p, {})
      /\ \A p, x \in {q} : p # x => ~Overlap(p, x)
  OBVIOUS
<1> QED
  BY <1>1, <1>2, <1>3, FittingKeeps

LEMMA AnywhereHolds ==
    ASSUME IInv, NEW q \in waiting, PlaceAnywhere(q), UNCHANGED input
    PROVE  NoDoubleUse' /\ room' = [p \in Requests |-> room'[p]]
<1> DEFINE candidates == {r \in Rooms : Fits(r, q, {}) /\ Score(r, q) > 0}
<1>1. CASE \E r \in Best([r \in candidates |-> Score(r, q)]) : PlaceRequest(q, r)
  <2>1. PICK r \in candidates : PlaceRequest(q, r)
    BY <1>1 DEF Best
  <2>2. Fits(r, q, {}) /\ Place({q}, r)
    BY <2>1 DEF PlaceRequest
  <2> QED
    BY <2>2, RequestHolds
<1>2. CASE UNCHANGED room
  BY <1>2, StayHolds
<1> QED
  BY <1>1, <1>2 DEF PlaceAnywhere

LEMMA PlaceStudioHolds == ASSUME IInv, NEW q \in waiting, PlaceStudio(q) PROVE IInv'
<1>1. NoDoubleUse' /\ room' = [p \in Requests |-> room'[p]]
  <2>1. CASE PlaceAnywhere(q)
    BY <2>1, AnywhereHolds DEF PlaceStudio
  <2>2. CASE Fits(Preferred(q), q, {}) /\ PlaceRequest(q, Preferred(q))
    BY <2>2, RequestHolds DEF PlaceStudio, PlaceRequest
  <2> QED
    BY <2>1, <2>2 DEF PlaceStudio
<1>2. Shape'
  BY <1>1, ShapeKept DEF PlaceStudio, NextRequest, IInv, Shape
<1> QED
  BY <1>1, <1>2 DEF IInv

LEMMA SettleHolds == ASSUME IInv, NEW q \in waiting, Settle(q) PROVE IInv'
<1>1. NoDoubleUse' /\ room' = [p \in Requests |-> room'[p]]
  <2>1. CASE PlaceAnywhere(q)
    BY <2>1, AnywhereHolds DEF Settle
  <2>2. CASE Fits(Preferred(q), q, {}) /\ PlaceRequest(q, Preferred(q))
    BY <2>2, RequestHolds DEF Settle, PlaceRequest
  <2> QED
    BY <2>1, <2>2 DEF Settle
<1>2. Shape'
  BY <1>1, ShapeKept DEF Settle, NextRequest, IInv, Shape
<1> QED
  BY <1>1, <1>2 DEF IInv

\* A block moves to a room that fits every lesson of it, or leaves the board.
LEMMA ResolveHolds ==
    ASSUME IInv, NEW q \in waiting, NEW e \in conflicts, Resolve(q, e), e \in Requests
    PROVE  IInv'
<1> DEFINE block == BlockOf(e)
<1>1. block \in SUBSET Requests
  BY DEF BlockOf
<1>2. UNCHANGED <<input, groups, waiting>>
  BY DEF Resolve
<1>3. CASE Move(q, e)
  <2>1. PICK haven \in Havens(q, e) :
          room' = [p \in Requests |-> IF p \in block \cap placed THEN haven ELSE room[p]]
    BY <1>3 DEF Move, Best
  <2>2. \A p \in block \cap placed : Fits(haven, p, block)
    BY <2>1 DEF Havens
  <2>3. \A p, x \in block \cap placed : p # x => ~Overlap(p, x)
    BY BlockIsFree DEF IInv
  <2>4. \A p \in block : room[p] # NoRoom => p \in block \cap placed
    BY <1>1 DEF placed
  <2> HIDE DEF block
  <2>5. NoDoubleUse'
    BY <1>1, <1>2, <2>1, <2>2, <2>3, <2>4, PlacingKeeps
  <2>6. room' = [p \in Requests |-> room'[p]]
    BY <2>1
  <2>7. Shape'
    BY <1>2, <1>3, <2>6, ShapeKept DEF Move, IInv, Shape
  <2> QED
    BY <2>5, <2>7 DEF IInv
<1>4. CASE Evict(e)
  <2>1. room' = [p \in Requests |-> IF p \in block THEN NoRoom ELSE room[p]]
    BY <1>4 DEF Evict
  <2> HIDE DEF block
  <2>2. NoDoubleUse'
    BY <1>1, <1>2, <2>1, EvictingKeeps
  <2>3. room' = [p \in Requests |-> room'[p]]
    BY <2>1
  <2>4. Shape'
    BY <1>2, <1>4, <2>3, ShapeKept DEF Evict, IInv, Shape
  <2> QED
    BY <2>2, <2>4 DEF IInv
<1> QED
  BY <1>3, <1>4 DEF Resolve

\* Listing conflicts, giving up and finishing leave the board alone.
LEMMA QuietHolds ==
    ASSUME IInv, UNCHANGED <<input, room, groups, tracked, waiting>>
    PROVE  IInv'
<1>1. NoDoubleUse' /\ room' = [q \in Requests |-> room'[q]]
  BY StayHolds
<1>2. Shape'
  BY <1>1, ShapeKept DEF IInv, Shape
<1> QED
  BY <1>1, <1>2 DEF IInv

\* Whatever is contested is a request: conflicts are taken from the board.
ConflictsAreRequests == conflicts \subseteq Requests

LEMMA ConflictsHold ==
    ASSUME ConflictsAreRequests, [Next]_vars
    PROVE  ConflictsAreRequests'
BY DEF ConflictsAreRequests, Next, vars, Read, PlaceGroup, Link, PlaceStudio, Contest,
       Settle, Deny, Resolve, Move, Evict, Finish, Finished, placed

LEMMA NextHolds ==
    ASSUME IInv, ConflictsAreRequests, [Next]_vars
    PROVE  IInv'
<1>1. CASE Read
  BY <1>1, ReadHolds
<1>2. CASE \E g \in groups : PlaceGroup(g)
  BY <1>2, PlaceGroupHolds
<1>3. CASE Link
  BY <1>3, LinkHolds
<1>4. CASE \E q \in waiting : PlaceStudio(q)
  BY <1>4, PlaceStudioHolds
<1>5. CASE \E q \in waiting : Settle(q)
  BY <1>5, SettleHolds
<1>6. CASE \E q \in waiting, e \in conflicts : Resolve(q, e)
  BY <1>6, ResolveHolds DEF ConflictsAreRequests
<1>7. CASE UNCHANGED <<input, room, groups, tracked, waiting>>
  BY <1>7, QuietHolds
<1>8. CASE \/ \E q \in waiting : Contest(q)
           \/ \E q \in waiting, e \in conflicts : Deny(q, e)
           \/ Finish \/ Finished \/ UNCHANGED vars
  BY <1>7, <1>8 DEF Contest, Deny, Finish, Finished, vars
<1> QED
  BY <1>1, <1>2, <1>3, <1>4, <1>5, <1>6, <1>8 DEF Next

-----------------------------------------------------------------------------
(* Theorems. *)

\* The slots and the board stay as _RoomAllocator leaves them between two steps, and
\* what was handed to Resolve are requests.
THEOREM InvariantHolds == Spec => [](IInv /\ ConflictsAreRequests)
<1>1. Init => IInv /\ ConflictsAreRequests
  BY InitHolds DEF Init, ConflictsAreRequests
<1>2. IInv /\ ConflictsAreRequests /\ [Next]_vars => IInv' /\ ConflictsAreRequests'
  BY NextHolds, ConflictsHold
<1> QED
  BY <1>1, <1>2, PTL DEF Spec

\* No room is ever given to two requests at one hour, nor at a booked hour, whatever
\* blocks were moved or evicted to make room for a studio request.
THEOREM RoomsAreUsedOnce == Spec => []NoDoubleUse
<1>1. IInv => NoDoubleUse
  BY DEF IInv
<1> QED
  BY <1>1, InvariantHolds, PTL

\* No step of the allocator moves or removes a pinned lesson: groups and studio
\* requests are free of pins, and a block with a pin in it is never touched.
THEOREM PinsStay == Spec => ProtectedStay
<1> DEFINE Kept == \A q \in pinned : room'[q] = room[q]
<1>1. ASSUME IInv, Next
      PROVE  Kept
  <2>1. pinned \subseteq Requests /\ waiting \cap pinned = {}
    BY <1>1 DEF IInv, Shape
  <2>2. ASSUME NEW g \in groups, PlaceGroup(g)
        PROVE  Kept
    <3>1. g \cap pinned = {}
      BY <1>1 DEF IInv, Shape, Free
    <3> QED
      BY <2>1, <2>2, <3>1 DEF PlaceGroup, Place
  <2>3. ASSUME NEW q \in waiting, PlaceStudio(q) \/ Settle(q)
        PROVE  Kept
    BY <2>1, <2>3 DEF PlaceStudio, Settle, PlaceAnywhere, PlaceRequest, Place
  <2>4. ASSUME NEW q \in waiting, NEW e \in conflicts, Resolve(q, e)
        PROVE  Kept
    <3>1. BlockOf(e) \cap pinned = {}
      BY <2>4 DEF Resolve, Movable, Protected
    <3> QED
      BY <2>1, <2>4, <3>1 DEF Resolve, Move, Evict
  <2>5. CASE \/ Read \/ Link \/ Finish \/ Finished
             \/ \E q \in waiting : Contest(q)
             \/ \E q \in waiting, e \in conflicts : Deny(q, e)
    BY <2>5 DEF Read, Link, Finish, Finished, Contest, Deny, vars
  <2> QED
    BY <1>1, <2>2, <2>3, <2>4, <2>5 DEF Next
<1>2. IInv /\ [Next]_vars => [Kept]_vars
  BY <1>1
<1> QED
  BY <1>2, InvariantHolds, PTL DEF Spec, ProtectedStay

\* The food chain has no cycles: nobody outranks himself, and who outranks a
\* stronger one outranks the weaker one too.
THEOREM FoodChainIsStrict ==
    ASSUME NEW i, NEW j, NEW k, NEW p \in Int, NEW q \in Int, NEW r \in Int
    PROVE  /\ ~Outranks(i, p, i, p)
           /\ Outranks(i, p, j, q) /\ Outranks(j, q, k, r) => Outranks(i, p, k, r)
<1>1. \A m : \A n \in Int : Tier(m, n) \in {0, 1, 2}
  BY DEF Tier
<1> QED
  BY <1>1 DEF Outranks
-----------------------------------------------------------------------------
(* The book-keeping of a run. *)

\* Not yet dealt with: neither on the board nor handed over.
Fresh(q) == room[q] = NoRoom /\ open[q] = 0

Answered(q) == room[q] # NoRoom \/ open[q] > 0

Started == phase \in {"studio", "resolve", "done"}

\* The stages of a run: who waits in which of them.
Stages ==
    /\ phase \in {"read", "weekly"} \/ Started
    /\ phase # "weekly" => groups = {}
    /\ ~Started => tracked = {} /\ waiting = {}
    /\ phase # "resolve" => conflicts = {}
    /\ phase = "done" => waiting = {}
    /\ conflicts \subseteq Requests \ waiting
    /\ phase = "resolve" => \A q \in waiting : Ahead(q) => Preferred(q) # NoRoom

\* The board and its counters; the turns are bounded, so there is a latest one.
Board ==
    /\ room \in [Requests -> Rooms \cup {NoRoom}]
    /\ open \in [Requests -> Nat]
    /\ turn \in [Requests -> Nat]
    /\ \E latest \in Nat : \A q \in Requests : turn[q] <= latest
    /\ \A q \in pinned : room[q] # NoRoom

\* Blocks are on the board, apart from each other, each in one room.
Blocks ==
    /\ \A B \in tracked : B \subseteq placed
    /\ \A B, C \in tracked : B = C \/ B \cap C = {}
    /\ BlocksStayTogether

\* Whoever still waits is fresh, and everybody else has been answered.
Account ==
    /\ \A q \in Requests : open[q] > 0 => room[q] = NoRoom
    /\ phase = "read" => \A q \in Requests \ pinned : Fresh(q)
    /\ phase = "weekly" => \A q \in Studio \ pinned : Fresh(q)
    /\ phase = "weekly" => \A q \in Weekly : Answered(q) \/ \E g \in groups : q \in g
    /\ Started => \A q \in Requests : Answered(q) \/ q \in waiting
    /\ \A g \in groups : \A q \in g : Fresh(q)
    /\ \A g, h \in groups : g = h \/ g \cap h = {}
    /\ \A q \in waiting : Fresh(q)

Books == Stages /\ Board /\ Blocks /\ Account

-----------------------------------------------------------------------------
(* Least and greatest numbers, earliest lessons, latest turns. *)

LEMMA LeastNatural ==
    ASSUME NEW T \in SUBSET Nat, T # {}
    PROVE  \E x \in T : \A y \in T : x <= y
<1> DEFINE R == OpToRel(<, Nat)
<1>1. IsWellFoundedOn(R, Nat)
  BY NatLessThanWellFounded
<1>2. R = {ss \in Nat \X Nat : ss[1] < ss[2]}
  BY DEF OpToRel
<1> HIDE DEF R
<1>3. PICK x \in T : \A y \in T : ~(<<y, x>> \in R)
  BY <1>1, WFMin
<1>4. ASSUME NEW y \in T
      PROVE  x <= y
  <2>1. x \in Nat /\ y \in Nat /\ <<y, x>> \notin R
    BY <1>3
  <2>2. ~(y < x)
    BY <1>2, <2>1
  <2> QED
    BY <2>1, <2>2
<1> QED
  BY <1>4

\* A bounded set of numbers has a greatest one.
LEMMA GreatestNatural ==
    ASSUME NEW T \in SUBSET Nat, T # {}, NEW b \in Nat, \A x \in T : x <= b
    PROVE  Max(T) \in T
<1> DEFINE U == {b - x : x \in T}
<1>0. \A x \in T : x \in Nat /\ b - x \in Nat
  OBVIOUS
<1>1. U \in SUBSET Nat /\ U # {}
  BY <1>0
<1>2. PICK k \in U : \A u \in U : k <= u
  BY <1>1, LeastNatural
<1>3. PICK m \in T : k = b - m
  BY <1>2
<1>4. \A x \in T : b - m <= b - x
  BY <1>2, <1>3
<1>5. \A x \in T : m >= x
  BY <1>4
<1> QED
  BY <1>5 DEF Max

LEMMA LatestTurn ==
    ASSUME Board, NEW q \in Requests
    PROVE  Max(Range(turn)) \in Nat
<1>1. PICK latest \in Nat : \A p \in Requests : turn[p] <= latest
  BY DEF Board
<1> DEFINE T == Range(turn)
<1>2. T \in SUBSET Nat /\ T # {} /\ \A x \in T : x <= latest
  BY <1>1 DEF Range, Board
<1> HIDE DEF T
<1>3. Max(T) \in T
  BY <1>2, GreatestNatural
<1> QED
  BY <1>2, <1>3 DEF T

\* Some lesson of a block is the first: no hour comes before opening time.
LEMMA FirstIsInBlock ==
    ASSUME Shape, NEW B \in SUBSET Requests, B # {}
    PROVE  First(B) \in B
<1> DEFINE T == {At(q) - Opens : q \in B}
<1>1. \A q \in B : At(q) \in Int /\ At(q) - Opens \in Nat
  BY AllocationAssumption DEF Shape, At, Slots
<1>2. T \in SUBSET Nat /\ T # {}
  BY <1>1
<1>3. PICK k \in T : \A t \in T : k <= t
  BY <1>2, LeastNatural
<1>4. PICK q \in B : k = At(q) - Opens
  BY <1>3
<1>5. \A p \in B : At(q) - Opens <= At(p) - Opens
  BY <1>3, <1>4
<1>6. \A p \in B : At(q) <= At(p)
  BY <1>1, <1>5, AllocationAssumption
<1> QED
  BY <1>6 DEF First

\* The room a request prefers is one of the rooms, if there is one.
LEMMA PreferredIsRoom ==
    ASSUME NEW q \in Requests, Preferred(q) # NoRoom
    PROVE  Preferred(q) \in Rooms
<1> DEFINE good == {i \in DOMAIN Wishes[q] : Score(Wishes[q][i], q) > 0}
<1>1. Wishes[q] \in Seq(Rooms)
  BY AllocationAssumption
<1>2. DOMAIN Wishes[q] \in SUBSET Nat
  BY <1>1
<1>3. good \in SUBSET Nat /\ good # {}
  BY <1>2 DEF Preferred
<1>4. PICK i \in good : \A k \in good : i <= k
  BY <1>3, LeastNatural
<1>5. Min(good) \in good
  BY <1>4 DEF Min
<1>6. Min(good) \in DOMAIN Wishes[q]
  BY <1>5
<1>7. Preferred(q) = Wishes[q][Min(good)]
  BY <1>3 DEF Preferred
<1> HIDE DEF good
<1> QED
  BY <1>1, <1>6, <1>7

-----------------------------------------------------------------------------
(* Chains.  To be linked by lessons without a long gap is an equivalence on the   *)
(* lessons of a teacher, so that groups and blocks lie apart.                     *)

Joined(T, p, q) == Chained(T, p, q) /\ \A c \in Between(T, p, q) : room[c] = room[q]

LEMMA ChainsAreSymmetric ==
    ASSUME slot \in [Requests -> Slots], NEW T \in SUBSET Requests, NEW p \in T, NEW q \in T
    PROVE  /\ Chained(T, p, q) => Chained(T, q, p)
           /\ Joined(T, p, q) => Joined(T, q, p)
<1>1. Between(T, p, q) = Between(T, q, p)
  BY DEF Between
<1>2. p \in Between(T, p, q)
  BY AllocationAssumption DEF Between, At, Slots
<1> QED
  BY <1>1, <1>2 DEF Joined, Chained

LEMMA ChainsAreTransitive ==
    ASSUME slot \in [Requests -> Slots], NEW T \in SUBSET Requests,
           NEW p \in T, NEW q \in T, NEW r \in T
    PROVE  /\ Chained(T, p, q) /\ Chained(T, q, r) => Chained(T, p, r)
           /\ Joined(T, p, q) /\ Joined(T, q, r) => Joined(T, p, r)
<1>0. \A c \in T : At(c) \in Int
  BY AllocationAssumption DEF At, Slots
<1>1. ASSUME NEW c \in Between(T, p, r)
      PROVE  c \in Between(T, p, q) \/ c \in Between(T, q, r)
  BY <1>0 DEF Between
<1>2. ASSUME NEW c \in Between(T, p, r), At(c) < At(p) \/ At(c) < At(r)
      PROVE  \/ c \in Between(T, p, q) /\ (At(c) < At(p) \/ At(c) < At(q))
             \/ c \in Between(T, q, r) /\ (At(c) < At(q) \/ At(c) < At(r))
  BY <1>0, <1>2 DEF Between
<1>3. Chained(T, p, q) /\ Chained(T, q, r) => Chained(T, p, r)
  BY <1>2 DEF Chained
<1>4. q \in Between(T, q, r)
  BY <1>0 DEF Between
<1> QED
  BY <1>1, <1>3, <1>4 DEF Joined

\* Groups of the same lessons are the same or have no lesson in common.
LEMMA GroupsLieApart ==
    ASSUME slot \in [Requests -> Slots], NEW S \in SUBSET Requests,
           NEW g \in Groups(S), NEW h \in Groups(S), g \cap h # {}
    PROVE  g = h
<1>1. PICK a \in S : g = {p \in OfTeacher(S, a) : Chained(OfTeacher(S, a), p, a)}
  BY DEF Groups
<1>2. PICK b \in S : h = {p \in OfTeacher(S, b) : Chained(OfTeacher(S, b), p, b)}
  BY DEF Groups
<1>3. PICK x \in g : x \in h
  OBVIOUS
<1> DEFINE T == OfTeacher(S, a)
<1>4. OfTeacher(S, b) = T /\ T \in SUBSET Requests /\ a \in T /\ b \in T /\ x \in T
  BY <1>1, <1>2, <1>3 DEF OfTeacher
<1>5. g = {p \in T : Chained(T, p, a)} /\ h = {p \in T : Chained(T, p, b)}
  BY <1>1, <1>2, <1>4
<1> HIDE DEF T
<1>6. Chained(T, x, a) /\ Chained(T, x, b)
  BY <1>3, <1>5
<1>7. Chained(T, a, x) /\ Chained(T, b, x)
  BY <1>4, <1>6, ChainsAreSymmetric
<1>8. Chained(T, a, b) /\ Chained(T, b, a)
  BY <1>4, <1>6, <1>7, ChainsAreTransitive
<1>9. \A p \in T : Chained(T, p, a) <=> Chained(T, p, b)
  BY <1>4, <1>8, ChainsAreTransitive
<1> QED
  BY <1>5, <1>9

\* Every lesson is in a group.
LEMMA GroupsCover ==
    ASSUME slot \in [Requests -> Slots], NEW S \in SUBSET Requests, NEW q \in S
    PROVE  \E g \in Groups(S) : q \in g
<1> DEFINE T == OfTeacher(S, q)
<1>1. q \in T
  BY DEF OfTeacher
<1>2. \A c \in Between(T, q, q) : ~(At(c) < At(q))
  BY AllocationAssumption DEF Between, At, Slots, OfTeacher
<1>3. Chained(T, q, q)
  BY <1>2 DEF Chained
<1> DEFINE g == {p \in T : Chained(T, p, q)}
<1>4. g \in Groups(S)
  BY DEF Groups
<1>5. q \in g
  BY <1>1, <1>3
<1> QED
  BY <1>4, <1>5

\* Blocks lie apart too, and a block is in one room.
LEMMA LinkedLieApart ==
    ASSUME slot \in [Requests -> Slots], NEW S \in SUBSET Requests,
           NEW g \in Linked(S), NEW h \in Linked(S), g \cap h # {}
    PROVE  g = h
<1>1. PICK a \in S : g = {p \in OfTeacher(S, a) : Joined(OfTeacher(S, a), p, a)}
  BY DEF Linked, Joined
<1>2. PICK b \in S : h = {p \in OfTeacher(S, b) : Joined(OfTeacher(S, b), p, b)}
  BY DEF Linked, Joined
<1>3. PICK x \in g : x \in h
  OBVIOUS
<1> DEFINE T == OfTeacher(S, a)
<1>4. OfTeacher(S, b) = T /\ T \in SUBSET Requests /\ a \in T /\ b \in T /\ x \in T
  BY <1>1, <1>2, <1>3 DEF OfTeacher
<1>5. g = {p \in T : Joined(T, p, a)} /\ h = {p \in T : Joined(T, p, b)}
  BY <1>1, <1>2, <1>4
<1> HIDE DEF T
<1>6. Joined(T, x, a) /\ Joined(T, x, b)
  BY <1>3, <1>5
<1>7. Joined(T, a, x) /\ Joined(T, b, x)
  BY <1>4, <1>6, ChainsAreSymmetric
<1>8. Joined(T, a, b) /\ Joined(T, b, a)
  BY <1>4, <1>6, <1>7, ChainsAreTransitive
<1>9. \A p \in T : Joined(T, p, a) <=> Joined(T, p, b)
  BY <1>4, <1>8, ChainsAreTransitive
<1> QED
  BY <1>5, <1>9

LEMMA LinkedShareRoom ==
    ASSUME slot \in [Requests -> Slots], NEW S \in SUBSET Requests,
           NEW B \in Linked(S), NEW p \in B, NEW q \in B
    PROVE  room[p] = room[q]
<1>1. PICK a \in S : B = {x \in OfTeacher(S, a) : Joined(OfTeacher(S, a), x, a)}
  BY DEF Linked, Joined
<1>2. ASSUME NEW x \in B
      PROVE  room[x] = room[a]
  <2>1. x \in Requests /\ a \in Requests /\ x \in OfTeacher(S, a)
    BY <1>1 DEF OfTeacher
  <2>2. x \in Between(OfTeacher(S, a), x, a)
    BY <2>1, AllocationAssumption DEF Between, At, Slots
  <2> QED
    BY <1>1, <2>2 DEF Joined
<1> QED
  BY <1>2

\* The block of a lesson is a tracked block, or the lesson alone.
LEMMA BlockIsTracked ==
    ASSUME Blocks, Shape, NEW e \in Requests
    PROVE  \/ BlockOf(e) \in tracked
           \/ BlockOf(e) = {e} /\ \A B \in tracked : e \notin B
<1>1. CASE \E B \in tracked : e \in B
  <2>1. PICK B \in tracked : e \in B
    BY <1>1
  <2>2. \A C \in tracked : e \in C => C = B
    BY <2>1 DEF Blocks
  <2>3. B \subseteq Requests
    BY <2>1 DEF Shape, Free, Requests
  <2>4. BlockOf(e) = B
    BY <2>1, <2>2, <2>3 DEF BlockOf
  <2> QED
    BY <2>1, <2>4
<1>2. CASE \A B \in tracked : e \notin B
  BY <1>2 DEF BlockOf
<1> QED
  BY <1>1, <1>2

\* Another tracked block has no lesson in common with it.
LEMMA OtherBlocksApart ==
    ASSUME Blocks, Shape, NEW e \in Requests, NEW B \in tracked, B # BlockOf(e)
    PROVE  B \cap BlockOf(e) = {}
BY BlockIsTracked DEF Blocks

\* Lessons of one block have the same block.
LEMMA SameBlock ==
    ASSUME Blocks, Shape, NEW e \in Requests, NEW q \in BlockOf(e)
    PROVE  BlockOf(q) = BlockOf(e)
<1>1. q \in Requests
  BY DEF BlockOf
<1>2. CASE BlockOf(e) = {e}
  BY <1>2
<1>3. CASE BlockOf(e) \in tracked
  <2>1. \A B \in tracked : q \in B => B = BlockOf(e)
    BY <1>3 DEF Blocks
  <2>2. BlockOf(e) \subseteq Requests
    BY DEF BlockOf
  <2>3. BlockOf(q) \in tracked \/ \A B \in tracked : q \notin B
    BY <1>1, BlockIsTracked
  <2>4. q \in BlockOf(q)
    BY <1>1 DEF BlockOf
  <2> QED
    BY <1>3, <2>1, <2>3, <2>4
<1> QED
  BY <1>2, <1>3, BlockIsTracked

\* The request whose turn it is is the only one: a teacher has one studio hour at a time.
LEMMA OneIsAhead ==
    ASSUME Shape, NEW p \in waiting, NEW q \in waiting, Ahead(p), Ahead(q)
    PROVE  p = q
<1>1. p \in Studio /\ q \in Studio /\ p \in Requests /\ q \in Requests
  BY DEF Shape, Requests
<1>2. Earlier(p, q) /\ Earlier(q, p)
  BY DEF Ahead
<1>3. /\ Date[p] \in Int /\ Date[q] \in Int
      /\ NameRank[Who[p]] \in Int /\ NameRank[Who[q]] \in Int
  BY <1>1, AllocationAssumption
<1>4. /\ At(p) \in Int /\ At(q) \in Int
      /\ slot[p].hours \in {1, 2} /\ slot[q].hours \in {1, 2}
  BY <1>1, AllocationAssumption DEF Shape, At, Slots
<1>5. Date[p] = Date[q] /\ Who[p] = Who[q] /\ At(p) = At(q)
  BY <1>2, <1>3, <1>4 DEF Earlier
<1>6. Overlap(p, q)
  BY <1>4, <1>5 DEF Overlap, At, End
<1> QED
  BY <1>1, <1>5, <1>6 DEF Shape, SameTeacherClash

-----------------------------------------------------------------------------
(* Steps on the books. *)

\* The requests of S are answered, on the board or by Resolve, and nobody else is.
Served(S) ==
    /\ \A q \in Requests \ S : room'[q] = room[q] /\ open'[q] = open[q]
    /\ \A q \in S : \/ room'[q] # NoRoom /\ open'[q] = 0
                    \/ room'[q] = NoRoom /\ open'[q] > 0

\* Blocks are left alone by whatever happens to lessons that are not on the board.
LEMMA BlocksKept ==
    ASSUME Blocks, tracked' = tracked, NEW S \in SUBSET Requests, \A q \in S : Fresh(q),
           \A q \in Requests \ S : room'[q] = room[q]
    PROVE  Blocks'
<1>1. \A B \in tracked : \A q \in B : q \in Requests \ S
  BY DEF Blocks, placed, Fresh
<1>2. \A B \in tracked : B \subseteq placed'
  BY <1>1 DEF Blocks, placed
<1> QED
  BY <1>1, <1>2 DEF Blocks, BlocksStayTogether

LEMMA PlacingServes ==
    ASSUME Shape, Board, Blocks,
           NEW S \in SUBSET Requests, \A q \in S : Fresh(q), NEW r \in Rooms,
           Place(S, r), UNCHANGED <<input, open>>, tracked' = tracked
    PROVE  Board' /\ Blocks' /\ Served(S)
<1>1. /\ room' = [q \in Requests |-> IF q \in S THEN r ELSE room[q]]
      /\ turn' = [q \in Requests |-> IF q \in S THEN Max(Range(turn)) + 1 ELSE turn[q]]
  BY DEF Place
<1>2. r # NoRoom
  BY AllocationAssumption
<1>3. Served(S)
  BY <1>1, <1>2 DEF Served, Fresh
<1>4. Blocks'
  BY <1>3, BlocksKept DEF Served
<1>5. \A q \in S : Max(Range(turn)) \in Nat
  BY LatestTurn
<1>6. turn' \in [Requests -> Nat]
  BY <1>1, <1>5 DEF Board
<1>7. \E latest \in Nat : \A q \in Requests : turn'[q] <= latest
  <2>1. PICK latest \in Nat : \A q \in Requests : turn[q] <= latest
    BY DEF Board
  <2>2. CASE S = {}
    BY <1>1, <2>1, <2>2
  <2>3. CASE S # {}
    <3> DEFINE m == Max(Range(turn)) + 1
               top == IF latest <= m THEN m ELSE latest
    <3>1. m \in Nat /\ top \in Nat /\ latest <= top /\ m <= top
      BY <1>5, <2>3
    <3>2. \A q \in Requests : turn'[q] = m \/ turn'[q] = turn[q]
      BY <1>1
    <3> HIDE DEF m, top
    <3>3. \A q \in Requests : turn'[q] <= top
      BY <2>1, <3>1, <3>2 DEF Board
    <3> QED
      BY <3>1, <3>3
  <2> QED
    BY <2>2, <2>3
<1>8. room' \in [Requests -> Rooms \cup {NoRoom}] /\ \A q \in pinned' : room'[q] # NoRoom
  BY <1>1, <1>2 DEF Board, Shape, input
<1> QED
  BY <1>3, <1>4, <1>6, <1>7, <1>8 DEF Board, input

LEMMA HandingServes ==
    ASSUME Board, NEW S \in SUBSET Requests, \A q \in S : Fresh(q),
           HandOver(S), UNCHANGED <<input, room, turn>>
    PROVE  Board' /\ Served(S)
<1>1. open' = [q \in Requests |-> IF q \in S THEN open[q] + 1 ELSE open[q]]
  BY DEF HandOver
<1>2. \A q \in Requests : open[q] \in Nat
  BY DEF Board
<1>3. open' \in [Requests -> Nat]
  BY <1>1, <1>2
<1> QED
  BY <1>1, <1>3 DEF Board, Served, Fresh, input

\* The answered stay answered, the others fresh; nobody is both on the board and open.
LEMMA ServedCounts ==
    ASSUME Account, NEW S \in SUBSET Requests, Served(S)
    PROVE  /\ \A q \in Requests : open'[q] > 0 => room'[q] = NoRoom
           /\ \A q \in Requests : Answered(q) \/ q \in S => Answered(q)'
           /\ \A q \in Requests \ S : Fresh(q) => Fresh(q)'
<1>1. ASSUME NEW q \in S
      PROVE  /\ open'[q] > 0 => room'[q] = NoRoom
             /\ Answered(q)'
  BY <1>1 DEF Served, Answered
<1>2. ASSUME NEW q \in Requests \ S
      PROVE  /\ open'[q] > 0 => room'[q] = NoRoom
             /\ Answered(q) => Answered(q)'
             /\ Fresh(q) => Fresh(q)'
  BY <1>2 DEF Served, Answered, Fresh, Account
<1> QED
  BY <1>1, <1>2

\* Who is ahead and what he prefers follow from the source and the waiting list.
LEMMA SameTurn ==
    ASSUME UNCHANGED <<input, waiting>>, NEW q
    PROVE  (Ahead(q) <=> Ahead(q)') /\ Preferred(q)' = Preferred(q)
BY DEF Ahead, Earlier, At, Preferred, Score, input

LEMMA BooksInit == Init => Books
<1> SUFFICES ASSUME Init PROVE Books
  OBVIOUS
<1>1. pinned \subseteq Requests
  BY DEF Init, kSubset
<1>2. Stages
  BY DEF Init, Stages, Started
<1>3. Board
  <2>1. /\ open \in [Requests -> Nat] /\ turn \in [Requests -> Nat]
        /\ \A q \in Requests : turn[q] <= 0
    BY DEF Init
  <2> QED
    BY <1>1, <2>1 DEF Init, Board
<1>4. Blocks
  BY DEF Init, Blocks, BlocksStayTogether
<1>5. Account
  BY DEF Init, Account, Fresh, Started
<1> QED
  BY <1>2, <1>3, <1>4, <1>5 DEF Books

LEMMA ReadBooks == ASSUME IInv, Books, Read PROVE Books'
<1> DEFINE S == (Weekly \ pinned) \cap rejected
           W == Weekly \ (pinned \cup rejected)
<1>1. S \in SUBSET Requests /\ W \in SUBSET Requests /\ \A q \in S : Fresh(q)
  BY DEF Books, Account, Read, Requests
<1>2. Board' /\ Served(S)
  BY <1>1, HandingServes DEF Read, Books
<1>3. Blocks'
  BY <1>1, <1>2, BlocksKept DEF Read, Books, Served
<1>4. Stages'
  BY DEF Read, Books, Stages, Started
<1>5. groups' = Groups(W)
  BY DEF Read
<1>6. \A g \in groups' : g \subseteq W
  BY <1>5, GroupsAreFree DEF Free
<1>7. \A g, h \in groups' : g = h \/ g \cap h = {}
  BY <1>1, <1>5, GroupsLieApart DEF IInv, Shape
<1>8. \A q \in W : \E g \in groups' : q \in g
  BY <1>1, <1>5, GroupsCover DEF IInv, Shape
<1>9. W \cap S = {} /\ Studio \cap S = {} /\ Weekly \subseteq W \cup S \cup pinned
  BY AllocationAssumption
<1>10. W \cap pinned = {} /\ pinned' = pinned /\ phase = "read" /\ phase' = "weekly" /\ waiting' = {}
       /\ \A q \in pinned : Answered(q)
  BY DEF Read, input, Books, Stages, Started, Board, Answered
<1> HIDE DEF S, W
<1>11. /\ \A q \in Requests : open'[q] > 0 => room'[q] = NoRoom
       /\ \A q \in Requests : Answered(q) \/ q \in S => Answered(q)'
       /\ \A q \in Requests \ S : Fresh(q) => Fresh(q)'
  BY <1>1, <1>2, ServedCounts DEF Books
<1>12. \A q \in Requests \ pinned : Fresh(q)
  BY <1>10 DEF Books, Account
<1>13. \A q \in Studio \ pinned' : Fresh(q)'
  BY <1>9, <1>10, <1>11, <1>12 DEF Requests
<1>14. \A g \in groups' : \A q \in g : Fresh(q)'
  BY <1>1, <1>6, <1>9, <1>10, <1>11, <1>12
<1>15. \A q \in Weekly : Answered(q)' \/ \E g \in groups' : q \in g
  BY <1>8, <1>9, <1>10, <1>11 DEF Requests
<1>16. ~Started'
  BY <1>10 DEF Started
<1>17. Account'
  BY <1>7, <1>10, <1>11, <1>13, <1>14, <1>15, <1>16 DEF Account
<1> QED
  BY <1>2, <1>3, <1>4, <1>17 DEF Books

LEMMA PlaceGroupBooks ==
    ASSUME IInv, Books, NEW g \in groups, PlaceGroup(g)
    PROVE  Books'
<1>1. g \in SUBSET Requests /\ g \subseteq Weekly \ pinned /\ \A q \in g : Fresh(q)
  BY DEF IInv, Shape, Free, Requests, Books, Account
<1> DEFINE candidates == {r \in Rooms : \A q \in g : Fits(r, q, {}) /\ Score(r, q) >= 0}
           total == [r \in candidates |-> MapThenSumSet(LAMBDA q : Score(r, q), g)]
<1>2. Board' /\ Blocks' /\ Served(g)
  <2>1. CASE (\E r \in Best(total) : Place(g, r)) /\ UNCHANGED open
    <3>1. PICK r \in Rooms : Place(g, r)
      BY <2>1 DEF Best
    <3> QED
      BY <1>1, <2>1, <3>1, PlacingServes DEF PlaceGroup, Books, IInv
  <2>2. CASE HandOver(g) /\ UNCHANGED <<room, turn>>
    <3>1. Board' /\ Served(g)
      BY <1>1, <2>2, HandingServes DEF PlaceGroup, Books
    <3>2. Blocks'
      BY <1>1, <3>1, BlocksKept DEF PlaceGroup, Books, Served
    <3> QED
      BY <3>1, <3>2
  <2> QED
    BY <2>1, <2>2 DEF PlaceGroup
<1> HIDE DEF candidates, total
<1>3. /\ phase = "weekly" /\ phase' = "weekly" /\ groups' = groups \ {g}
      /\ waiting' = {} /\ pinned' = pinned
  BY DEF PlaceGroup, input, Books, Stages, Started
<1>4. Stages'
  BY <1>3 DEF PlaceGroup, Books, Stages, Started
<1>5. /\ \A q \in Requests : open'[q] > 0 => room'[q] = NoRoom
      /\ \A q \in Requests : Answered(q) \/ q \in g => Answered(q)'
      /\ \A q \in Requests \ g : Fresh(q) => Fresh(q)'
  BY <1>1, <1>2, ServedCounts DEF Books
<1>6. \A h \in groups' : h \subseteq Requests /\ h \cap g = {}
  BY <1>3 DEF Books, Account, IInv, Shape, Free, Requests
<1>7. \A h \in groups' : \A q \in h : Fresh(q)'
  BY <1>3, <1>5, <1>6 DEF Books, Account
<1>8. \A q \in Studio \ pinned' : Fresh(q)'
  <2>1. \A q \in Studio \ pinned : Fresh(q) /\ q \in Requests \ g
    BY <1>1, <1>3, AllocationAssumption DEF Books, Account, Requests
  <2> QED
    BY <1>3, <1>5, <2>1
<1>9. \A q \in Weekly : Answered(q)' \/ \E h \in groups' : q \in h
  <2>1. \A q \in Weekly : q \in Requests /\ (Answered(q) \/ \E h \in groups : q \in h)
    BY <1>3 DEF Books, Account, Requests
  <2> QED
    BY <1>3, <1>5, <2>1
<1>10. \A h, k \in groups' : h = k \/ h \cap k = {}
  BY <1>3 DEF Books, Account
<1>11. ~Started'
  BY <1>3 DEF Started
<1>12. Account'
  BY <1>3, <1>5, <1>7, <1>8, <1>9, <1>10, <1>11 DEF Account
<1> QED
  BY <1>2, <1>4, <1>12 DEF Books

LEMMA LinkBooks == ASSUME IInv, Books, Link PROVE Books'
<1> DEFINE S == (Studio \ pinned) \cap rejected
           W == placed \cap Weekly
<1>1. S \in SUBSET Requests /\ \A q \in S : Fresh(q)
  BY DEF Books, Account, Link, Requests
<1>2. Board' /\ Served(S)
  BY <1>1, HandingServes DEF Link, Books
<1>3. W \in SUBSET Requests /\ tracked' = Linked(W) /\ room' = room /\ slot \in [Requests -> Slots]
  BY DEF Link, IInv, Shape, placed
<1>4. \A B \in tracked' : B \subseteq W
  BY <1>3, LinkedAreFree DEF Free
<1>5. W \subseteq placed'
  BY <1>3 DEF placed
<1> HIDE DEF W
<1>6. \A B, C \in tracked' : B = C \/ B \cap C = {}
  BY <1>3, LinkedLieApart
<1>7. \A B \in tracked' : \A p, q \in B : room'[p] = room'[q]
  BY <1>3, LinkedShareRoom
<1>8. Blocks'
  BY <1>4, <1>5, <1>6, <1>7 DEF Blocks, BlocksStayTogether
<1>9. /\ phase = "weekly" /\ phase' = "studio" /\ groups' = {} /\ groups = {}
      /\ waiting' = Studio \ (pinned \cup rejected)
      /\ conflicts' = {}
  BY DEF Link, Books, Stages
<1>10. Stages'
  BY <1>9 DEF Stages, Started
<1>11. /\ \A q \in Requests : open'[q] > 0 => room'[q] = NoRoom
       /\ \A q \in Requests : Answered(q) \/ q \in S => Answered(q)'
       /\ \A q \in Requests \ S : Fresh(q) => Fresh(q)'
  BY <1>1, <1>2, ServedCounts DEF Books
<1>12. \A q \in waiting' : Fresh(q)'
  BY <1>9, <1>11 DEF Books, Account, Requests
<1>13. \A q \in Requests : Answered(q)' \/ q \in waiting'
  <2>1. \A q \in pinned : Answered(q)
    BY DEF Books, Board, Answered
  <2>2. \A q \in Weekly : Answered(q)
    BY <1>9 DEF Books, Account
  <2> QED
    BY <1>9, <1>11, <2>1, <2>2 DEF Requests
<1>14. Account'
  BY <1>9, <1>11, <1>12, <1>13 DEF Account
<1> QED
  BY <1>2, <1>8, <1>10, <1>14 DEF Books

\* The request at hand gets an answer: what is left is the shorter waiting list.
LEMMA RequestBooks ==
    ASSUME IInv, Books, NEW q \in waiting, Board', Blocks', Served({q}), NextRequest(q),
           UNCHANGED <<input, groups>>, conflicts = {}, conflicts' = {}
    PROVE  Books'
<1>1. /\ q \in Requests /\ {q} \in SUBSET Requests
      /\ waiting' = waiting \ {q} /\ phase' = "studio" /\ waiting \subseteq Requests
  BY DEF NextRequest, IInv, Shape, Requests
<1>2. groups = {} /\ groups' = {} /\ Started
  BY DEF Books, Stages, Started
<1>3. Stages'
  BY <1>1, <1>2 DEF Stages, Started
<1>4. /\ \A p \in Requests : open'[p] > 0 => room'[p] = NoRoom
      /\ \A p \in Requests : Answered(p) \/ p \in {q} => Answered(p)'
      /\ \A p \in Requests \ {q} : Fresh(p) => Fresh(p)'
  BY <1>1, ServedCounts DEF Books
<1>5. \A p \in Requests : Answered(p)' \/ p \in waiting'
  BY <1>1, <1>2, <1>4 DEF Books, Account
<1>6. \A p \in waiting' : Fresh(p)'
  BY <1>1, <1>4 DEF Books, Account
<1>7. Account'
  BY <1>1, <1>2, <1>4, <1>5, <1>6 DEF Account
<1> QED
  BY <1>3, <1>7 DEF Books

\* A room or the unassigned list: either is an answer to the request at hand.
LEMMA AnswerBooks ==
    ASSUME IInv, Books, NEW q \in waiting, UNCHANGED <<input, tracked>>,
           PlaceAnywhere(q) \/ \E r \in Rooms : PlaceRequest(q, r)
    PROVE  Board' /\ Blocks' /\ Served({q})
<1>1. {q} \in SUBSET Requests /\ \A p \in {q} : Fresh(p)
  BY DEF IInv, Shape, Requests, Books, Account
<1>2. CASE \E r \in Rooms : PlaceRequest(q, r)
  BY <1>1, <1>2, PlacingServes DEF PlaceRequest, Books, IInv
<1>3. CASE HandOver({q}) /\ UNCHANGED <<room, turn>>
  <2>1. Board' /\ Served({q})
    BY <1>1, <1>3, HandingServes DEF Books
  <2>2. Blocks'
    BY <1>1, <2>1, BlocksKept DEF Books, Served
  <2> QED
    BY <2>1, <2>2
<1> QED
  BY <1>2, <1>3 DEF PlaceAnywhere, Best

LEMMA PlaceStudioBooks ==
    ASSUME IInv, Books, NEW q \in waiting, PlaceStudio(q)
    PROVE  Books'
<1>1. q \in Requests
  BY DEF IInv, Shape, Requests
<1>2. PlaceAnywhere(q) \/ \E r \in Rooms : PlaceRequest(q, r)
  BY <1>1, PreferredIsRoom DEF PlaceStudio
<1>3. Board' /\ Blocks' /\ Served({q})
  BY <1>2, AnswerBooks DEF PlaceStudio
<1>4. conflicts = {} /\ conflicts' = {}
  BY DEF PlaceStudio, Books, Stages
<1> QED
  BY <1>3, <1>4, RequestBooks DEF PlaceStudio

LEMMA SettleBooks ==
    ASSUME IInv, Books, NEW q \in waiting, Settle(q)
    PROVE  Books'
<1>1. q \in Requests /\ Preferred(q) # NoRoom
  BY DEF IInv, Shape, Requests, Settle, Books, Stages
<1>2. PlaceAnywhere(q) \/ \E r \in Rooms : PlaceRequest(q, r)
  BY <1>1, PreferredIsRoom DEF Settle
<1>3. Board' /\ Blocks' /\ Served({q})
  BY <1>2, AnswerBooks DEF Settle
<1> QED
  BY <1>3, RequestBooks DEF Settle

\* Nothing happens to the board while conflicts are listed or given up.
LEMMA QuietBooks ==
    ASSUME Books, UNCHANGED <<input, room, turn, open, groups, tracked>>
    PROVE  Board' /\ Blocks'
BY DEF Books, Board, Blocks, BlocksStayTogether, placed, input

LEMMA ContestBooks ==
    ASSUME IInv, Books, NEW q \in waiting, Contest(q)
    PROVE  Books'
<1>1. Board' /\ Blocks'
  BY QuietBooks DEF Contest
<1>2. placed \cap waiting = {} /\ groups = {}
  BY DEF Books, Account, Fresh, placed, Stages, Contest
<1>3. ASSUME NEW p \in waiting, Ahead(p)
      PROVE  p = q
  BY <1>3, OneIsAhead DEF IInv, Contest
<1>4. \A p \in waiting' : Ahead(p)' => Preferred(p)' # NoRoom
  BY <1>3, SameTurn DEF Contest
<1>5. Stages'
  BY <1>2, <1>4 DEF Contest, Stages, Started, placed
<1>6. Account'
  BY DEF Books, Account, Contest, Fresh, Answered, Started
<1> QED
  BY <1>1, <1>5, <1>6 DEF Books

LEMMA DenyBooks ==
    ASSUME Books, NEW q \in waiting, NEW e \in conflicts, Deny(q, e)
    PROVE  Books'
<1>1. Board' /\ Blocks'
  BY QuietBooks DEF Deny
<1>2. \A p \in waiting' : Ahead(p)' => Preferred(p)' # NoRoom
  BY SameTurn DEF Deny, Books, Stages
<1>3. Stages'
  BY <1>2 DEF Deny, Books, Stages, Started
<1>4. Account'
  BY DEF Books, Account, Deny, Fresh, Answered, Started
<1> QED
  BY <1>1, <1>3, <1>4 DEF Books

LEMMA FinishBooks == ASSUME IInv, Books, Finish PROVE Books'
<1>1. Board' /\ Blocks'
  BY QuietBooks DEF Finish
<1>2. Stages'
  BY DEF Finish, Books, Stages, Started
<1>3. Account'
  BY DEF Books, Account, Finish, Fresh, Answered, Started
<1> QED
  BY <1>1, <1>2, <1>3 DEF Books

\* A block that moves stays on the board, and stays together.
LEMMA MoveBooks ==
    ASSUME IInv, Books, NEW q \in waiting, NEW e \in conflicts, Move(q, e),
           UNCHANGED <<phase, input, turn, groups, waiting>>
    PROVE  Books'
<1> DEFINE block == BlockOf(e)
<1>1. e \in Requests
  BY DEF Books, Stages
<1>2. PICK haven \in Rooms :
        room' = [p \in Requests |-> IF p \in block \cap placed THEN haven ELSE room[p]]
  BY DEF Move, Best, Havens
<1>3. haven # NoRoom /\ UNCHANGED <<open, tracked>>
  BY AllocationAssumption DEF Move
<1>4. \A p \in Requests : room'[p] = NoRoom <=> room[p] = NoRoom
  BY <1>2, <1>3 DEF placed
<1>5. placed' = placed
  BY <1>4 DEF placed
<1>6. Board'
  BY <1>2, <1>3, <1>4 DEF Books, Board, input, IInv, Shape
<1>7. \A B \in tracked : B = block \/ B \cap block = {}
  BY <1>1, OtherBlocksApart DEF Books, IInv
<1>8. ASSUME NEW B \in tracked, NEW x \in B, NEW y \in B
      PROVE  room'[x] = room'[y]
  <2>1. x \in placed /\ y \in placed /\ x \in Requests /\ y \in Requests /\ room[x] = room[y]
    BY DEF Books, Blocks, BlocksStayTogether, placed
  <2> HIDE DEF block
  <2> QED
    BY <1>2, <1>7, <2>1
<1>9. Blocks'
  BY <1>3, <1>5, <1>8 DEF Books, Blocks, BlocksStayTogether
<1>10. \A p \in waiting' : Ahead(p)' => Preferred(p)' # NoRoom
  BY SameTurn DEF Books, Stages
<1>11. Stages'
  BY <1>3, <1>10 DEF Move, Books, Stages, Started
<1>12. Account'
  <2>1. \A p \in Requests : Fresh(p)' = Fresh(p) /\ Answered(p)' = Answered(p)
    BY <1>3, <1>4 DEF Fresh, Answered
  <2>2. \A g \in groups : g \subseteq Requests
    BY DEF IInv, Shape, Free, Requests
  <2>3. waiting \subseteq Requests /\ Weekly \subseteq Requests /\ Studio \subseteq Requests
    BY DEF IInv, Shape, Requests
  <2> QED
    BY <1>3, <1>4, <2>1, <2>2, <2>3 DEF Books, Account, Started, input
<1> QED
  BY <1>6, <1>9, <1>11, <1>12 DEF Books

\* A block that leaves is handed over as a whole and is no longer tracked.
LEMMA EvictBooks ==
    ASSUME IInv, Books, NEW e \in conflicts, Evict(e), phase = "resolve",
           BlockOf(e) \cap pinned = {},
           UNCHANGED <<phase, input, turn, groups, waiting>>
    PROVE  Books'
<1> DEFINE block == BlockOf(e)
<1>1. e \in Requests /\ e \notin waiting /\ block \in SUBSET Requests
  BY DEF Books, Stages, BlockOf
<1>2. /\ room' = [p \in Requests |-> IF p \in block THEN NoRoom ELSE room[p]]
      /\ open' = [p \in Requests |-> IF p \in block THEN open[p] + 1 ELSE open[p]]
      /\ tracked' = tracked \ {block} /\ conflicts' = conflicts \ {e}
  BY DEF Evict, HandOver
<1>3. \A p \in Requests : open[p] \in Nat
  BY DEF Books, Board
<1>4. block \cap waiting = {}
  <2>1. CASE block \in tracked
    BY <2>1 DEF Books, Blocks, Account, Fresh, placed
  <2>2. CASE block = {e}
    BY <1>1, <2>2
  <2> QED
    BY <1>1, <2>1, <2>2, BlockIsTracked DEF Books, IInv
<1>5. \A B \in tracked : B = block \/ B \cap block = {}
  BY <1>1, OtherBlocksApart DEF Books, IInv
<1>6. block \cap pinned = {}
  OBVIOUS
<1> HIDE DEF block
<1>7. Board'
  <2>1. open' \in [Requests -> Nat]
    BY <1>2, <1>3
  <2>2. pinned' = pinned /\ \A p \in pinned : room'[p] # NoRoom
    BY <1>2, <1>6 DEF Books, Board, input, IInv, Shape
  <2>3. room' \in [Requests -> Rooms \cup {NoRoom}]
    BY <1>2 DEF Books, Board
  <2> QED
    BY <2>1, <2>2, <2>3 DEF Books, Board
<1>8. Blocks'
  <2>1. ASSUME NEW B \in tracked'
        PROVE  B \subseteq placed' /\ \A x, y \in B : room'[x] = room'[y]
    <3>1. B \in tracked /\ B \cap block = {} /\ B \subseteq placed
      BY <1>2, <1>5 DEF Books, Blocks
    <3>2. \A x \in B : x \in Requests /\ room[x] # NoRoom /\ room'[x] = room[x]
      BY <1>2, <3>1 DEF placed
    <3> QED
      BY <3>1, <3>2 DEF placed, Books, Blocks, BlocksStayTogether
  <2> QED
    BY <1>2, <2>1 DEF Books, Blocks, BlocksStayTogether
<1>9. \A p \in waiting' : Ahead(p)' => Preferred(p)' # NoRoom
  BY SameTurn DEF Books, Stages
<1>10. Stages'
  BY <1>2, <1>9 DEF Books, Stages, Started
<1>11. groups' = {} /\ Started /\ Started' /\ phase' = "resolve"
  BY DEF Books, Stages, Started
<1>12. \A p \in Requests : open'[p] > 0 => room'[p] = NoRoom
  BY <1>2 DEF Books, Account
<1>13. \A p \in Requests : Answered(p)' \/ p \in waiting'
  BY <1>2, <1>3, <1>11 DEF Books, Account, Answered
<1>14. \A p \in waiting' : Fresh(p)'
  <2>1. \A p \in waiting : Fresh(p) /\ p \in Requests \ block
    BY <1>4 DEF Books, Account, IInv, Shape, Requests
  <2> QED
    BY <1>2, <2>1 DEF Fresh
<1>15. Account'
  BY <1>11, <1>12, <1>13, <1>14 DEF Account
<1> QED
  BY <1>7, <1>8, <1>10, <1>15 DEF Books

LEMMA BooksHold == ASSUME IInv, Books, [Next]_vars PROVE Books'
<1>1. CASE Read
  BY <1>1, ReadBooks
<1>2. CASE \E g \in groups : PlaceGroup(g)
  BY <1>2, PlaceGroupBooks
<1>3. CASE Link
  BY <1>3, LinkBooks
<1>4. CASE \E q \in waiting : PlaceStudio(q)
  BY <1>4, PlaceStudioBooks
<1>5. CASE \E q \in waiting : Contest(q)
  BY <1>5, ContestBooks
<1>6. CASE \E q \in waiting : Settle(q)
  BY <1>6, SettleBooks
<1>7. CASE \E q \in waiting, e \in conflicts : Deny(q, e)
  BY <1>7, DenyBooks
<1>8. CASE \E q \in waiting, e \in conflicts : Resolve(q, e)
  BY <1>8, MoveBooks, EvictBooks DEF Resolve, Movable, Protected
<1>9. CASE Finish
  BY <1>9, FinishBooks
<1>10. CASE UNCHANGED vars
  <2>1. Board' /\ Blocks'
    BY <1>10, QuietBooks DEF vars
  <2>2. \A p \in waiting' : Ahead(p)' => Preferred(p)' # NoRoom \/ phase' # "resolve"
    BY <1>10, SameTurn DEF vars, Books, Stages
  <2>3. Stages' /\ Account'
    BY <1>10, <2>2 DEF vars, Books, Stages, Account, Fresh, Answered, Started, input
  <2> QED
    BY <2>1, <2>3 DEF Books
<1> QED
  BY <1>1, <1>2, <1>3, <1>4, <1>5, <1>6, <1>7, <1>8, <1>9, <1>10 DEF Next, Finished

\* The stages, the board, the blocks and the account of who has been answered hold
\* in every state of a run.
THEOREM BooksAreKept == Spec => []Books
<1>1. Init => Books
  BY BooksInit
<1>2. IInv /\ Books /\ [Next]_vars => Books'
  BY BooksHold
<1> QED
  BY <1>1, <1>2, InvariantHolds, PTL DEF Spec

\* Slots, rooms, counters and lists stay well formed; a tracked block is on the board
\* and no lesson is in two of them.
THEOREM TypeCorrect == Spec => []TypeOK
<1>1. IInv /\ Books => TypeOK
  BY AllocationAssumption
     DEF IInv, Shape, Free, Books, Stages, Started, Board, Blocks, TypeOK, Requests
<1> QED
  BY <1>1, InvariantHolds, BooksAreKept, PTL

\* Lessons that were linked stay in one room through any number of moves: a block is
\* moved or evicted as a whole, and no other block has a lesson in common with it.
THEOREM BlocksAreOneRoom == Spec => []BlocksStayTogether
<1>1. Books => BlocksStayTogether
  BY DEF Books, Blocks
<1> QED
  BY <1>1, BooksAreKept, PTL

\* At the end every request is on the board or with Resolve, and at no time both.
THEOREM EverybodyIsAnswered == Spec => []NobodyIsLost
<1>1. Books => NobodyIsLost
  BY DEF Books, Stages, Account, NobodyIsLost, Answered, Started
<1> QED
  BY <1>1, BooksAreKept, PTL

\* Only the studio request at hand changes a placement, and only one of its own teacher's
\* or one whose block gives way to a stronger teacher.
THEOREM WeakerYields == Spec => YieldsToStronger
<1> DEFINE Yields ==
      \A q \in placed : room'[q] # room[q] =>
          /\ phase = "resolve"
          /\ \E c \in waiting :
                /\ Ahead(c)
                /\ \/ Who[q] = Who[c]
                   \/ \E p \in BlockOf(q) :
                        Outranks(Instrument[c], Priority[Who[c]],
                                 Instrument[p], Priority[Who[p]])
<1>1. ASSUME IInv, Books, Next
      PROVE  Yields
  <2>1. ASSUME NEW g \in groups, PlaceGroup(g)
        PROVE  \A q \in placed : room'[q] = room[q]
    <3>1. \A q \in placed : q \in Requests \ g
      BY <1>1 DEF Books, Account, Fresh, placed
    <3> QED
      BY <2>1, <3>1 DEF PlaceGroup, Place
  <2>2. ASSUME NEW c \in waiting, PlaceStudio(c) \/ Settle(c)
        PROVE  \A q \in placed : room'[q] = room[q]
    <3>1. \A q \in placed : q \in Requests /\ q # c
      BY <1>1 DEF Books, Account, Fresh, placed
    <3> QED
      BY <2>2, <3>1 DEF PlaceStudio, Settle, PlaceAnywhere, PlaceRequest, Place
  <2>3. ASSUME NEW c \in waiting, NEW e \in conflicts, Resolve(c, e)
        PROVE  Yields
    <3> SUFFICES ASSUME NEW q \in placed, room'[q] # room[q]
                 PROVE  \/ Who[q] = Who[c]
                        \/ \E p \in BlockOf(q) :
                             Outranks(Instrument[c], Priority[Who[c]],
                                      Instrument[p], Priority[Who[p]])
      BY <2>3 DEF Resolve
    <3>1. e \in Requests /\ Blocks /\ Shape
      BY <1>1 DEF Books, Stages, IInv
    <3>2. q \in BlockOf(e)
      BY <2>3 DEF Resolve, Move, Evict, placed
    <3>3. BlockOf(q) = BlockOf(e) /\ BlockOf(e) \in SUBSET Requests
      BY <3>1, <3>2, SameBlock DEF BlockOf
    <3> DEFINE f == First(BlockOf(e))
    <3>4. f \in BlockOf(e)
      BY <3>1, <3>2, <3>3, FirstIsInBlock
    <3>5. Who[q] = Who[f]
      <4>1. CASE BlockOf(e) \in tracked
        BY <3>1, <3>2, <3>4, <4>1 DEF Shape, Free
      <4>2. CASE BlockOf(e) = {e}
        BY <3>2, <3>4, <4>2
      <4> QED
        BY <3>1, <4>1, <4>2, BlockIsTracked
    <3>6. MayKick(c, BlockOf(e))
      BY <2>3 DEF Resolve, Movable
    <3> QED
      BY <3>3, <3>4, <3>5, <3>6 DEF MayKick
  <2>4. CASE \/ Read \/ Link \/ Finish \/ Finished
             \/ \E q \in waiting : Contest(q)
             \/ \E q \in waiting, e \in conflicts : Deny(q, e)
    BY <2>4 DEF Read, Link, Finish, Finished, Contest, Deny, vars
  <2> QED
    BY <1>1, <2>1, <2>2, <2>3, <2>4 DEF Next
<1>2. IInv /\ Books /\ [Next]_vars => [Yields]_vars
  BY <1>1
<1> QED
  BY <1>2, InvariantHolds, BooksAreKept, PTL DEF Spec, YieldsToStronger

=============================================================================
