--------------------------- MODULE RoomAllocation ---------------------------
(***************************************************************************)
(* The room allocator of an optimizer run, on one weekday.  A lesson or a  *)
(* studio hour is requested at a whole-hour slot of one or two hours (a    *)
(* half-past request occupies both hours it touches); bookings with a date *)
(* of that weekday, weekly lessons and bookings of other dates all exclude *)
(* each other, so a room and its hours decide every conflict.  First the   *)
(* weekly lessons are placed in groups, a group in one room or nowhere;    *)
(* then what was placed is linked into blocks; then studio requests are    *)
(* placed one by one and may move or evict weaker blocks from the room     *)
(* they prefer.                                                            *)
(***************************************************************************)
EXTENDS Integers, FiniteSetsExt, SequencesExt

CONSTANTS
    Weekly, Studio,   \* the rows of the two sheets
    Rooms, NoRoom,
    RoomRank,         \* the order of the rooms file
    Who,              \* the teacher of a request
    NameRank,         \* teachers in the order of their names
    Priority,         \* instructor_priority
    Instrument,       \* the type of a request
    Wishes,           \* the rooms a request prefers, best first
    Favourites,       \* instructor_preferred_rooms
    Base,             \* priorities[type of the room][instrument], 0 if unsuited
    Date,             \* the dates of studio requests, in order
    BlockGap,         \* WEEKLY_GROUP_MAX_GAP in hours, -1 without blocks
    Opens, Closes,    \* time_range
    Halves,           \* bound: the requests that may be at half past
    MaxExtras         \* bound: booked hours, pins and unreadable rows

Requests == Weekly \cup Studio

ASSUME AllocationAssumption ==
    /\ Weekly \cap Studio = {}
    /\ NoRoom \notin Rooms
    /\ Who \in [Requests -> DOMAIN Priority]
    /\ NameRank \in [DOMAIN Priority -> Int]
    /\ Date \in [Studio -> Int]
    /\ Wishes \in [Requests -> Seq(Rooms)]
    /\ Opens \in Int /\ Closes \in Int

VARIABLES
    phase,      \* "read", "weekly", "studio", "resolve" or "done"
    slot,       \* the hours of each request
    booked,     \* the rooms' hours taken by locked bookings
    pinned,     \* requests whose placement is kept from the last draft
    rejected,   \* rows that cannot be read
    room,       \* where each request is placed, or NoRoom
    turn,       \* when it was placed: the order of the assignments list
    open,       \* how often it was appended to the unassigned list
    groups,     \* weekly groups still to be placed
    tracked,    \* the linked blocks that can still be moved as one
    waiting,    \* studio requests still to be placed
    conflicts   \* what stands in the preferred room of the current request

input == <<slot, booked, pinned, rejected>>
vars == <<phase, input, room, turn, open, groups, tracked, waiting, conflicts>>

-----------------------------------------------------------------------------
(* Slots, rooms and scores. *)

At(q) == slot[q].at
End(q) == slot[q].at + slot[q].hours
Overlap(p, q) == At(p) < End(q) /\ At(q) < End(p)

placed == {q \in Requests : room[q] # NoRoom}

\* can_assign, not counting the lessons that are about to leave.
Fits(r, q, leaving) ==
    /\ Opens <= At(q) /\ End(q) <= Closes
    /\ \A h \in Opens .. Closes : At(q) <= h /\ h < End(q) => <<r, h>> \notin booked
    /\ \A p \in placed \ leaving : room[p] = r => ~Overlap(p, q)

Bonus(condition, points) == IF condition THEN points ELSE 0

\* score_room_unified, for a request that carries these wishes.
ScoreWith(r, q, wishes) ==
    LET base == Base[r][Instrument[q]]
    IN  IF base <= 0 THEN -1
        ELSE base * 10 + Bonus(r \in wishes, 50) + Bonus(r \in Favourites[Who[q]], 30)

Score(r, q) == ScoreWith(r, q, Range(Wishes[q]))

\* A placed weekly lesson no longer carries its wishes.
MovedScore(r, q) == ScoreWith(r, q, IF q \in Studio THEN Range(Wishes[q]) ELSE {})

\* The room of the highest score; the rooms file decides between equals.
Best(total) ==
    {r \in DOMAIN total : \A s \in DOMAIN total :
        total[s] < total[r] \/ (total[s] = total[r] /\ RoomRank[r] <= RoomRank[s])}

Place(S, r) ==
    /\ room' = [q \in Requests |-> IF q \in S THEN r ELSE room[q]]
    /\ turn' = [q \in Requests |-> IF q \in S THEN Max(Range(turn)) + 1 ELSE turn[q]]

HandOver(S) ==
    open' = [q \in Requests |-> IF q \in S THEN open[q] + 1 ELSE open[q]]

-----------------------------------------------------------------------------
(* Groups and blocks: lessons of one teacher with short gaps between them. *)

Between(S, p, q) == {c \in S : (At(p) <= At(c) /\ At(c) <= At(q))
                                 \/ (At(q) <= At(c) /\ At(c) <= At(p))}

\* From p to q, or back, every lesson but the last has one close behind it.
Chained(S, p, q) ==
    \A c \in Between(S, p, q) :
        At(c) < At(p) \/ At(c) < At(q) =>
            \E d \in S : At(c) < At(d) /\ At(d) - End(c) <= BlockGap

OfTeacher(S, q) == {p \in S : Who[p] = Who[q]}

\* group_lessons_into_blocks
Groups(S) == {{p \in OfTeacher(S, q) : Chained(OfTeacher(S, q), p, q)} : q \in S}

\* build_block_linkage_map: a change of room ends a block.
Linked(S) ==
    {{p \in OfTeacher(S, q) :
        /\ Chained(OfTeacher(S, q), p, q)
        /\ \A c \in Between(OfTeacher(S, q), p, q) : room[c] = room[q]} : q \in S}

First(B) == CHOOSE q \in B : \A p \in B : At(q) <= At(p)

InstrumentScore(g) ==
    CASE Instrument[First(g)] \in {"Piano", "Voice"} -> 3
      [] Instrument[First(g)] = "Percussion" -> 2
      [] OTHER -> 1

Duration(g) == MapThenSumSet(LAMBDA q : slot[q].hours, g)

\* _block_priority, compared as tuples.
Before(g, h) ==
    LET i == InstrumentScore(g) - InstrumentScore(h)
        p == Priority[Who[First(g)]] - Priority[Who[First(h)]]
    IN  i > 0 \/ (i = 0 /\ (p > 0 \/ (p = 0 /\ Duration(g) > Duration(h))))

\* The sort is stable: a teacher's equal groups go by the hour, equal groups of
\* different teachers by the rows of the sheet, that is, in any order.
Foremost(g) ==
    \A h \in groups : /\ ~Before(h, g)
                      /\ Who[First(h)] = Who[First(g)] /\ ~Before(g, h)
                           => At(First(g)) <= At(First(h))

-----------------------------------------------------------------------------
(* Phase 1: the weekly sheet. *)

\* Pinned rows are dropped, unreadable ones refused, the others grouped.
Read ==
    /\ phase = "read"
    /\ phase' = "weekly"
    /\ HandOver((Weekly \ pinned) \cap rejected)
    /\ groups' = Groups(Weekly \ (pinned \cup rejected))
    /\ UNCHANGED <<input, room, turn, tracked, waiting, conflicts>>

\* One room takes the whole group, or Resolve does.
PlaceGroup(g) ==
    /\ phase = "weekly"
    /\ Foremost(g)
    /\ groups' = groups \ {g}
    /\ LET candidates == {r \in Rooms : \A q \in g : Fits(r, q, {}) /\ Score(r, q) >= 0}
           total == [r \in candidates |-> MapThenSumSet(LAMBDA q : Score(r, q), g)]
       IN  IF candidates # {}
             THEN (\E r \in Best(total) : Place(g, r)) /\ UNCHANGED open
             ELSE HandOver(g) /\ UNCHANGED <<room, turn>>
    /\ UNCHANGED <<phase, input, tracked, waiting, conflicts>>

\* Phase 1.5 links blocks, pinned lessons included; phase 2 reads the studio sheet.
Link ==
    /\ phase = "weekly"
    /\ groups = {}
    /\ tracked' = Linked(placed \cap Weekly)
    /\ HandOver((Studio \ pinned) \cap rejected)
    /\ waiting' = Studio \ (pinned \cup rejected)
    /\ phase' = "studio"
    /\ UNCHANGED <<input, room, turn, groups, conflicts>>

-----------------------------------------------------------------------------
(* Phase 2: studio requests, by date, name and hour. *)

Earlier(p, q) ==
    \/ Date[p] < Date[q]
    \/ Date[p] = Date[q] /\ NameRank[Who[p]] < NameRank[Who[q]]
    \/ Date[p] = Date[q] /\ Who[p] = Who[q] /\ At(p) <= At(q)

\* The request whose turn it is.
Ahead(q) == q \in waiting /\ \A p \in waiting : Earlier(q, p)

\* The first wish that suits the request.
Preferred(q) ==
    LET good == {i \in DOMAIN Wishes[q] : Score(Wishes[q][i], q) > 0}
    IN  IF good = {} THEN NoRoom ELSE Wishes[q][Min(good)]

PlaceRequest(q, r) ==
    /\ Place({q}, r)
    /\ UNCHANGED open

\* Any room, the best first, or the unassigned list.
PlaceAnywhere(q) ==
    LET candidates == {r \in Rooms : Fits(r, q, {}) /\ Score(r, q) > 0}
    IN  IF candidates # {}
          THEN \E r \in Best([r \in candidates |-> Score(r, q)]) : PlaceRequest(q, r)
          ELSE HandOver({q}) /\ UNCHANGED <<room, turn>>

NextRequest(q) ==
    /\ waiting' = waiting \ {q}
    /\ phase' = "studio"

\* The preferred room is free, or there is none.
PlaceStudio(q) ==
    /\ phase = "studio"
    /\ Ahead(q)
    /\ LET r == Preferred(q)
       IN  IF r = NoRoom THEN PlaceAnywhere(q) ELSE Fits(r, q, {}) /\ PlaceRequest(q, r)
    /\ NextRequest(q)
    /\ UNCHANGED <<input, groups, tracked, conflicts>>

\* The preferred room is taken: what is in it is listed once.
Contest(q) ==
    /\ phase = "studio"
    /\ Ahead(q)
    /\ Preferred(q) # NoRoom
    /\ ~Fits(Preferred(q), q, {})
    /\ conflicts' = {p \in placed : room[p] = Preferred(q) /\ Overlap(p, q)}
    /\ phase' = "resolve"
    /\ UNCHANGED <<input, room, turn, open, groups, tracked, waiting>>

\* The next conflict in the order of the assignments.
Victim(e) ==
    \A p \in conflicts : turn[e] < turn[p] \/ (turn[e] = turn[p] /\ At(e) <= At(p))

\* resolve_victim_block: the linked block, or the event by itself.
BlockOf(e) == {p \in Requests : p = e \/ \E B \in tracked : {e, p} \subseteq B}
RoomOf(q, e) == IF \E B \in tracked : e \in B THEN room[e] ELSE Preferred(q)

\* Mutant of Protected: only the first lesson of the block is looked at.
ProtectedFirst(B) == First(B) \in pinned

Protected(B) == B \cap pinned # {}

Tier(instrument, priority) ==
    CASE instrument = "Piano" /\ priority >= 8 -> 0
      [] instrument = "Voice" /\ priority >= 9 -> 0
      [] instrument \in {"Instrumental", "Percussion"} -> 2
      [] OTHER -> 1

\* check_food_chain between different teachers.
Outranks(i, p, j, q) ==
    LET t == Tier(i, p)
        u == Tier(j, q)
    IN  \/ t < u
        \/ t = u /\ t \in {0, 2} /\ p > q
        \/ t = u /\ t = 1 /\ i = j /\ p > q

\* Mutant of MayKick: the priorities are compared, the tiers are not.
MayKickPriority(q, B) == Priority[Who[q]] > Priority[Who[First(B)]]

MayKick(q, B) ==
    \/ Who[q] = Who[First(B)]
    \/ Outranks(Instrument[q], Priority[Who[q]],
                Instrument[First(B)], Priority[Who[First(B)]])

Movable(q, B) == ~Protected(B) /\ MayKick(q, B)

\* The first protected or stronger block ends the attempt.
Deny(q, e) ==
    /\ phase = "resolve"
    /\ Ahead(q)
    /\ e \in conflicts /\ Victim(e)
    /\ ~Movable(q, BlockOf(e))
    /\ conflicts' = {}
    /\ UNCHANGED <<phase, input, room, turn, open, groups, tracked, waiting>>

\* Mutant of Havens: one lesson that fits is enough.
HavensForOne(q, e) ==
    {r \in Rooms \ {RoomOf(q, e)} :
        \E p \in BlockOf(e) : Fits(r, p, BlockOf(e)) /\ MovedScore(r, p) > 0}

\* The other rooms that can take the whole block.
Havens(q, e) ==
    {r \in Rooms \ {RoomOf(q, e)} :
        \A p \in BlockOf(e) : Fits(r, p, BlockOf(e)) /\ MovedScore(r, p) > 0}

\* Mutant of Move: only the lesson in the way is moved.
MoveOne(q, e) ==
    LET total == [r \in Havens(q, e) |-> MovedScore(r, e)]
    IN  /\ \E haven \in Best(total) :
              room' = [room EXCEPT ![e] = IF @ = NoRoom THEN @ ELSE haven]
        /\ conflicts' = conflicts \ {e}
        /\ UNCHANGED <<open, tracked>>

\* relocate_whole_block; an event already evicted is no longer on the board.
Move(q, e) ==
    LET total == [r \in Havens(q, e) |->
                    MapThenSumSet(LAMBDA p : MovedScore(r, p), BlockOf(e))]
    IN  /\ \E haven \in Best(total) :
              room' = [p \in Requests |-> IF p \in BlockOf(e) \cap placed THEN haven ELSE room[p]]
        /\ conflicts' = conflicts \ {e}
        /\ UNCHANGED <<open, tracked>>

\* Mutant of Evict: only the lesson in the way is handed over.
EvictOne(e) ==
    /\ room' = [q \in Requests |-> IF q \in BlockOf(e) THEN NoRoom ELSE room[q]]
    /\ HandOver({e})
    /\ tracked' = tracked \ {BlockOf(e)}
    /\ conflicts' = conflicts \ {e}

\* Mutant of Evict: the block stays in the block map.
EvictTracked(e) ==
    /\ room' = [q \in Requests |-> IF q \in BlockOf(e) THEN NoRoom ELSE room[q]]
    /\ HandOver(BlockOf(e))
    /\ conflicts' = conflicts \ {e}
    /\ UNCHANGED tracked

\* evict_whole_block
Evict(e) ==
    /\ room' = [q \in Requests |-> IF q \in BlockOf(e) THEN NoRoom ELSE room[q]]
    /\ HandOver(BlockOf(e))
    /\ tracked' = tracked \ {BlockOf(e)}
    /\ conflicts' = conflicts \ {e}

\* One conflict of the list: the block moves, or is evicted.
Resolve(q, e) ==
    /\ phase = "resolve"
    /\ Ahead(q)
    /\ e \in conflicts /\ Victim(e)
    /\ Movable(q, BlockOf(e))
    /\ IF Havens(q, e) # {} THEN Move(q, e) ELSE Evict(e)
    /\ UNCHANGED <<phase, input, turn, groups, waiting>>

\* Whatever came of it, the preferred room is tried again, then any room.
Settle(q) ==
    /\ phase = "resolve"
    /\ Ahead(q)
    /\ conflicts = {}
    /\ IF Fits(Preferred(q), q, {})
         THEN PlaceRequest(q, Preferred(q))
         ELSE PlaceAnywhere(q)
    /\ NextRequest(q)
    /\ UNCHANGED <<input, groups, tracked, conflicts>>

Finish ==
    /\ phase = "studio"
    /\ waiting = {}
    /\ phase' = "done"
    /\ UNCHANGED <<input, room, turn, open, groups, tracked, waiting, conflicts>>

Finished == phase = "done" /\ UNCHANGED vars

-----------------------------------------------------------------------------
Slots == [at: Opens .. Closes - 1, hours: {1, 2}]

\* Two placements that cannot both be true of one teacher.
SameTeacherClash(p, q) ==
    /\ p # q /\ Who[p] = Who[q] /\ Overlap(p, q)
    /\ ~(p \in Studio /\ q \in Studio /\ Date[p] # Date[q])

\* The preflight refuses a source with such a clash, _validate_pinned_assignments
\* a pin on an unsuited room, on a booking or on another pin.  Left out: a pin that was moved
\* onto the hour of an unpinned row of its teacher.
Init ==
    /\ slot \in [Requests -> Slots]
    /\ \A q \in Requests : slot[q].hours = 2 => q \in Halves
    /\ \A p, q \in Requests : ~SameTeacherClash(p, q)
    /\ \E n \in 0 .. MaxExtras, k \in 0 .. MaxExtras :
         /\ booked \in kSubset(n, Rooms \X (Opens .. Closes - 1))
         /\ pinned \in kSubset(k, Requests)
         /\ rejected \in UNION {kSubset(m, Requests) : m \in 0 .. MaxExtras - n - k}
    /\ room \in [Requests -> Rooms \cup {NoRoom}]
    /\ \A q \in Requests : room[q] # NoRoom <=> q \in pinned
    /\ \A q \in pinned : Fits(room[q], q, {q}) /\ Score(room[q], q) > 0
    /\ turn = [q \in Requests |-> 0]
    /\ open = [q \in Requests |-> 0]
    /\ groups = {} /\ tracked = {} /\ waiting = {} /\ conflicts = {}
    /\ phase = "read"

Next ==
    \/ Read
    \/ \E g \in groups : PlaceGroup(g)
    \/ Link
    \/ \E q \in waiting : PlaceStudio(q) \/ Contest(q) \/ Settle(q)
    \/ \E q \in waiting, e \in conflicts : Deny(q, e) \/ Resolve(q, e)
    \/ Finish
    \/ Finished

Spec == Init /\ [][Next]_vars

-----------------------------------------------------------------------------
(* Properties. *)

\* Everything is well formed; a tracked block is on the board, in one room, and
\* no lesson is in two of them.
TypeOK ==
    /\ phase \in {"read", "weekly", "studio", "resolve", "done"}
    /\ slot \in [Requests -> Slots]
    /\ room \in [Requests -> Rooms \cup {NoRoom}]
    /\ turn \in [Requests -> Nat] /\ open \in [Requests -> Nat]
    /\ groups \subseteq SUBSET Weekly
    /\ waiting \subseteq Studio
    /\ conflicts \subseteq Requests
    /\ \A B \in tracked : B \subseteq placed \cap Weekly
    /\ \A B, C \in tracked : B = C \/ B \cap C = {}

\* No room is given to two requests at the same hour, nor at an hour a locked
\* booking holds, although whole blocks change rooms after they were placed.
NoDoubleUse ==
    \A q \in placed : Fits(room[q], q, {q})

\* Lessons that were placed as a group and linked stay in one room, through any
\* number of moves.
BlocksStayTogether ==
    \A B \in tracked : \A p, q \in B : room[p] = room[q]

\* No request disappears and none is both on the board and handed to Resolve.
NobodyIsLost ==
    \A q \in Requests : /\ open[q] > 0 => room[q] = NoRoom
                        /\ phase = "done" => room[q] # NoRoom \/ open[q] > 0

\* A pinned lesson never moves, whoever asks and whatever block it is part of.
ProtectedStay == [][\A q \in pinned : room'[q] = room[q]]_vars

\* A placement is undone or changed only for the studio request at hand, and only
\* if its teacher gives way to himself or to a stronger one.
YieldsToStronger ==
    [][\A q \in placed : room'[q] # room[q] =>
          /\ phase = "resolve"
          /\ \E c \in waiting :
                /\ Ahead(c)
                /\ \/ Who[q] = Who[c]
                   \/ \E p \in BlockOf(q) :
                        Outranks(Instrument[c], Priority[Who[c]],
                                 Instrument[p], Priority[Who[p]])]_vars

\* README.md:39: a request is assigned XOR unresolved; the verification of the
\* candidate counts a request handed over twice as an error and fails the run.
HandedOverOnce == \A q \in Requests : open[q] <= 1
=============================================================================
