-------------------------- MODULE LessonCard_proofs --------------------------
(***************************************************************************)
(* Confirmation and pin of one lesson for any days, hours and history      *)
(* bound.  Neither property is inductive: an unassigned card must keep     *)
(* them too, because an assignment compares the new interval with one made *)
(* of the card's last hour, and so must every card that an undo or a redo  *)
(* can bring back.                                                         *)
(***************************************************************************)
EXTENDS LessonCard, SequenceTheorems, TLAPS

\* Placed or not, off the requested interval a card is confirmed and has a pin key.
Marked(c) == c.at # Requested => c.confirmed /\ c.pinned # "none"

MarkedCards == {c \in Cards : Marked(c)}
MarkedRecords ==
    [action: {"move", "unassign", "assign", "stage"}, prev: MarkedCards, new: MarkedCards]

IInv ==
    /\ card \in MarkedCards
    /\ history \in Seq(MarkedRecords) /\ redo \in Seq(MarkedRecords)
    /\ Len(history) + Len(redo) <= MaxHistory
    /\ eligibility \in Eligibilities

-----------------------------------------------------------------------------
(* Cards. *)

\* A change of the interval is confirmed; without a change the card was marked.
LEMMA PlacedIsMarked ==
    ASSUME NEW at \in Intervals, NEW changed \in BOOLEAN, card \in MarkedCards,
           at # Requested => changed \/ card.at # Requested
    PROVE  Placed(at, changed) \in MarkedCards
BY DEF Placed, MarkedCards, Marked, Cards

\* The baseline of an assignment is off the request only if the card was.
LEMMA BaselineIsOff ==
    ASSUME card \in MarkedCards, Baseline # Requested
    PROVE  card.at # Requested
BY DEF Baseline, Requested

\* A saved card without the pin key is where the workbook asks.
LEMMA MergedIsMarked ==
    ASSUME NEW saved \in MarkedCards, card \in MarkedCards
    PROVE  Merged(saved) \in MarkedCards
BY DEF Merged, MarkedCards, Marked, Cards

-----------------------------------------------------------------------------
(* The history. *)

\* Trimming keeps the newest records, never more than the bound.
LEMMA TrimBounds ==
    ASSUME NEW S, NEW h \in Seq(S)
    PROVE  /\ Trim(h) \in Seq(S)
           /\ Len(Trim(h)) <= Len(h)
           /\ Len(Trim(h)) <= MaxHistory
<1> MaxHistory \in Nat \ {0}
  BY RequestAssumption
<1>1. CASE Len(h) > MaxHistory
  <2>1. \A i \in Len(h) - MaxHistory + 1 .. Len(h) : h[i] \in S
    BY <1>1, ElementOfSeq
  <2>2. /\ SubSeq(h, Len(h) - MaxHistory + 1, Len(h)) \in Seq(S)
        /\ Len(SubSeq(h, Len(h) - MaxHistory + 1, Len(h))) = MaxHistory
    BY <1>1, <2>1, SubSeqProperties
  <2> QED
    BY <1>1, <2>2 DEF Trim
<1>2. CASE ~(Len(h) > MaxHistory)
  BY <1>2 DEF Trim
<1> QED
  BY <1>1, <1>2

\* The newest record, and what is left without it.
LEMMA NewestOff ==
    ASSUME NEW S, NEW h \in Seq(S), h # <<>>
    PROVE  /\ h[Len(h)] \in S
           /\ SubSeq(h, 1, Len(h) - 1) \in Seq(S)
           /\ Len(SubSeq(h, 1, Len(h) - 1)) = Len(h) - 1
<1>1. Len(h) \in Nat /\ Len(h) > 0
  BY EmptySeq
<1>2. \A i \in 1 .. Len(h) - 1 : h[i] \in S
  BY <1>1, ElementOfSeq
<1> DEFINE n == Len(h) - 1
<1>3. n \in Int /\ 1 \in Int /\ \A i \in 1 .. n : h[i] \in S
  BY <1>1, <1>2
<1>4. /\ SubSeq(h, 1, n) \in Seq(S)
      /\ Len(SubSeq(h, 1, n)) = IF 1 <= n THEN n - 1 + 1 ELSE 0
  <2> HIDE DEF n
  <2> QED
    BY <1>3, SubSeqProperties
<1>5. h[Len(h)] \in S
  BY <1>1, ElementOfSeq
<1>6. (IF 1 <= n THEN n - 1 + 1 ELSE 0) = n
  <2>1. n \in Nat
    BY <1>1
  <2> HIDE DEF n
  <2>2. CASE 1 <= n
    BY <2>1, <2>2
  <2>3. CASE ~(1 <= n)
    BY <2>1, <2>3
  <2> QED
    BY <2>2, <2>3
<1> QED
  BY <1>4, <1>5, <1>6

-----------------------------------------------------------------------------
(* Steps. *)

LEMMA CommitHolds ==
    ASSUME IInv, NEW action \in {"move", "unassign", "assign", "stage"},
           NEW new \in MarkedCards, Commit(action, new)
    PROVE  IInv'
<1> DEFINE r == [action |-> action, prev |-> card, new |-> new]
<1>1. r \in MarkedRecords
  BY DEF IInv, MarkedRecords
<1> HIDE DEF r
<1>2. Append(history, r) \in Seq(MarkedRecords)
  BY <1>1 DEF IInv
<1>3. history' = Trim(Append(history, r)) /\ redo' = <<>>
  BY DEF Commit, r
<1>4. history' \in Seq(MarkedRecords) /\ Len(history') <= MaxHistory
  BY <1>2, <1>3, TrimBounds
<1>5. redo' \in Seq(MarkedRecords) /\ Len(redo') = 0
  BY <1>3
<1> QED
  BY <1>4, <1>5 DEF IInv, Commit

LEMMA UndoHolds == ASSUME IInv, Undo PROVE IInv'
<1> DEFINE r == history[Len(history)]
<1>1. /\ r \in MarkedRecords
      /\ history' \in Seq(MarkedRecords)
      /\ Len(history') = Len(history) - 1
  BY NewestOff DEF Undo, IInv
<1>2. redo' = Append(redo, r) /\ card' \in {Merged(r.prev), r.prev}
  BY DEF Undo
<1> HIDE DEF r
<1>3. redo' \in Seq(MarkedRecords) /\ Len(redo') = Len(redo) + 1
  BY <1>1, <1>2 DEF IInv
<1>4. card' \in MarkedCards
  <2>1. r.prev \in MarkedCards /\ card \in MarkedCards
    BY <1>1 DEF MarkedRecords, IInv
  <2>2. Merged(r.prev) \in MarkedCards
    BY <2>1, MergedIsMarked
  <2> QED
    BY <1>2, <2>1, <2>2
<1>5. Len(history) \in Nat /\ Len(redo) \in Nat
  BY DEF IInv
<1>6. MaxHistory \in Nat /\ Len(history) + Len(redo) <= MaxHistory
  BY RequestAssumption DEF IInv
<1>7. Len(history') + Len(redo') <= MaxHistory
  BY <1>1, <1>3, <1>5, <1>6
<1>8. eligibility' \in Eligibilities
  BY DEF IInv, Undo
<1> QED
  BY <1>1, <1>3, <1>4, <1>7, <1>8 DEF IInv

LEMMA RedoHolds == ASSUME IInv, Redo PROVE IInv'
<1> DEFINE r == redo[Len(redo)]
<1>1. /\ r \in MarkedRecords
      /\ redo' \in Seq(MarkedRecords)
      /\ Len(redo') = Len(redo) - 1
  BY NewestOff DEF Redo, IInv
<1>2. history' = Trim(Append(history, r)) /\ card' \in {Merged(r.new), card}
  BY DEF Redo
<1> HIDE DEF r
<1>3. Append(history, r) \in Seq(MarkedRecords) /\ Len(Append(history, r)) = Len(history) + 1
  BY <1>1 DEF IInv
<1>4. history' \in Seq(MarkedRecords) /\ Len(history') <= Len(history) + 1
  BY <1>2, <1>3, TrimBounds
<1>5. card' \in MarkedCards
  <2>1. r.new \in MarkedCards /\ card \in MarkedCards
    BY <1>1 DEF MarkedRecords, IInv
  <2>2. Merged(r.new) \in MarkedCards
    BY <2>1, MergedIsMarked
  <2> QED
    BY <1>2, <2>1, <2>2
<1>6. /\ Len(history) \in Nat /\ Len(redo) \in Nat
      /\ Len(history') \in Nat /\ Len(redo') \in Nat /\ MaxHistory \in Nat
  BY <1>1, <1>4, RequestAssumption DEF IInv
<1>7. Len(history) + Len(redo) <= MaxHistory
  BY DEF IInv
<1>8. Len(history') + Len(redo') <= MaxHistory
  BY <1>1, <1>4, <1>6, <1>7
<1>9. eligibility' \in Eligibilities
  BY DEF IInv, Redo
<1> QED
  BY <1>1, <1>4, <1>5, <1>8, <1>9 DEF IInv

LEMMA NextHolds == ASSUME IInv, [Next]_vars PROVE IInv'
<1>1. ASSUME NEW at \in Intervals, NEW confirmed \in BOOLEAN, Move(at, confirmed)
      PROVE  IInv'
  <2>1. Placed(at, at # card.at) \in MarkedCards
    BY PlacedIsMarked DEF IInv
  <2> QED
    BY <1>1, <2>1, CommitHolds DEF Move
<1>2. ASSUME NEW at \in Intervals, NEW confirmed \in BOOLEAN, Assign(at, confirmed)
      PROVE  IInv'
  <2>1. Placed(at, at # Baseline) \in MarkedCards
    BY PlacedIsMarked, BaselineIsOff DEF IInv
  <2> QED
    BY <1>2, <2>1, CommitHolds DEF Assign
<1>3. CASE Unassign
  <2>1. [card EXCEPT !.placed = FALSE] \in MarkedCards
    BY DEF IInv, MarkedCards, Marked, Cards
  <2> QED
    BY <1>3, <2>1, CommitHolds DEF Unassign
<1>4. CASE Unlock
  BY <1>4 DEF Unlock, IInv, MarkedCards, Marked, Cards
<1>5. CASE Stage
  <2>1. card \in MarkedCards
    BY DEF IInv
  <2> QED
    BY <1>5, <2>1, CommitHolds DEF Stage
<1>6. ASSUME NEW preserve \in BOOLEAN, NEW downgraded \in BOOLEAN, NEW fits \in BOOLEAN,
             Rerun(preserve, downgraded, fits)
      PROVE  IInv'
  <2>1. [placed |-> fits, at |-> Requested, pinned |-> "none", confirmed |-> FALSE]
          \in MarkedCards
    BY RequestAssumption DEF MarkedCards, Marked, Cards, Requested, Intervals
  <2>2. card' \in MarkedCards
    BY <1>6, <2>1 DEF Rerun, IInv
  <2>3. history' = <<>> /\ redo' = <<>> /\ MaxHistory \in Nat
    BY <1>6, RequestAssumption DEF Rerun
  <2> QED
    BY <1>6, <2>2, <2>3 DEF Rerun, IInv
<1>7. CASE \E status \in Eligibilities : PutRules(status)
  BY <1>7 DEF PutRules, IInv
<1>8. CASE UNCHANGED vars
  BY <1>8 DEF vars, IInv
<1> QED
  BY <1>1, <1>2, <1>3, <1>4, <1>5, <1>6, <1>7, <1>8, UndoHolds, RedoHolds DEF Next

LEMMA InitHolds == Init => IInv
<1> SUFFICES ASSUME Init PROVE IInv
  OBVIOUS
<1>1. card \in MarkedCards
  BY RequestAssumption DEF Init, MarkedCards, Marked, Cards, Requested, Intervals
<1>2. MaxHistory \in Nat \ {0}
  BY RequestAssumption
<1> QED
  BY <1>1, <1>2 DEF Init, IInv

-----------------------------------------------------------------------------
(* Theorems. *)

LEMMA InvariantHolds == Spec => []IInv
BY InitHolds, NextHolds, PTL DEF Spec

\* Cards, history and redo stack are well formed and within the bound.
THEOREM TypeCorrect == Spec => []TypeOK
<1>1. MarkedCards \subseteq Cards /\ MarkedRecords \subseteq Records
  BY DEF MarkedCards, MarkedRecords, Records
<1>2. IInv => TypeOK
  BY <1>1 DEF IInv, TypeOK
<1> QED
  BY <1>2, InvariantHolds, PTL

\* A lesson off its requested interval carries a teacher's confirmation, through any
\* unassign, undo, redo and rerun and whatever the rules said when it came back.
THEOREM OffRequestStaysConfirmed == Spec => []OffRequestIsConfirmed
<1>1. IInv => OffRequestIsConfirmed
  BY DEF IInv, OffRequestIsConfirmed, MarkedCards, Marked
<1> QED
  BY <1>1, InvariantHolds, PTL

\* A lesson off its requested interval is pinned, unless it was unlocked.
THEOREM OffRequestStaysPinned == Spec => []OffRequestIsPinned
<1>1. IInv => OffRequestIsPinned
  BY DEF IInv, OffRequestIsPinned, MarkedCards, Marked
<1> QED
  BY <1>1, InvariantHolds, PTL
=============================================================================
