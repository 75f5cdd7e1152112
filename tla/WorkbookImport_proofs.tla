----------------------- MODULE WorkbookImport_proofs -----------------------
(***************************************************************************)
(* Theorems about WorkbookImport.                                          *)
(***************************************************************************)
EXTENDS WorkbookImport, SequenceTheorems, FiniteSetTheorems, TLAPS

-----------------------------------------------------------------------------
(* Types. *)

Sheets == {NoSheet} \cup {u.book.weekly : u \in Uploads} \cup {u.book.studio : u \in Uploads}
RowsOf == [weekly: Sheets, studio: Sheets, mark: Nat]
Writings == {"sheet", "outside"} \X Nat
TextsOf(f) == IF f = Session THEN RowsOf ELSE Writings
Texts == {Missing} \cup RowsOf \cup Writings

AnyCopies == [text: Texts, time: Nat]
Copies(f, now) == {Absent} \cup [text: TextsOf(f), time: 1 .. now]

-----------------------------------------------------------------------------
(* Which copy a read selects. *)

LEMMA LeastNatural ==
    ASSUME NEW T \in SUBSET Nat, T # {}
    PROVE  \E x \in T : \A y \in T : x <= y
<1> DEFINE R == OpToRel(<, Nat)
<1>1. IsWellFoundedOn(R, Nat)
  BY NatLessThanWellFounded
<1>2. R = {ss \in Nat \X Nat : ss[1] < ss[2]}
  BY DEF OpToRel
<1> HIDE DEF R
<1>3. PICK x \in T : \A y \in T : ~(<<y, x>> \in R)
  BY <1>1, WFMin
<1>4. ASSUME NEW y \in T
      PROVE  x <= y
  <2>1. x \in Nat /\ y \in Nat /\ <<y, x>> \notin R
    BY <1>3
  <2>2. ~(y < x)
    BY <1>2, <2>1
  <2> QED
    BY <2>1, <2>2
<1> QED
  BY <1>4

\* A nonempty set of naturals below a bound has a greatest element.
LEMMA GreatestNatural ==
    ASSUME NEW T \in SUBSET Nat, T # {}, NEW c \in Nat, \A x \in T : x <= c
    PROVE  \E x \in T : \A y \in T : y <= x
<1> DEFINE Bounds == {n \in Nat : \A y \in T : y <= n}
<1>1. Bounds \in SUBSET Nat /\ c \in Bounds
  OBVIOUS
<1>2. PICK b \in Bounds : \A n \in Bounds : b <= n
  BY <1>1, LeastNatural
<1>3. b \in T
  <2> SUFFICES ASSUME b \notin T PROVE FALSE
    OBVIOUS
  <2>1. PICK z \in T : TRUE
    OBVIOUS
  <2>2. \A y \in T : y \in Nat /\ y <= b /\ y # b
    BY <1>2
  <2>3. z \in Nat /\ z < b /\ b \in Nat
    BY <2>1, <2>2, <1>2
  <2>4. b - 1 \in Nat /\ \A y \in T : y <= b - 1
    BY <2>2, <2>3
  <2>5. b - 1 \in Bounds
    BY <2>4
  <2> QED
    BY <1>2, <2>3, <2>5
<1> QED
  BY <1>2, <1>3

\* Every file has copies with times up to a clock; an absent one has time 0.
Disk(d) == /\ d \in [Paths -> AnyCopies]
           /\ \E c \in Nat : \A p \in Paths : d[p].time <= c
           /\ \A p \in Paths : d[p].time = 0 <=> d[p] = Absent

\* A read takes a copy than which none is newer, and the first one of these.
LEMMA SelectedIsNewest ==
    ASSUME NEW d, Disk(d)
    PROVE  /\ Selected(d) \in Paths
           /\ \A q \in Paths : d[q].time <= d[Selected(d)].time
           /\ \A q \in Paths : d[q].time = d[Selected(d)].time /\ d[q] # Absent => Selected(d) <= q
<1>0. \A p \in Paths : p \in Nat /\ d[p].time \in Nat
  BY DataFilesAssumption DEF Disk, AnyCopies, Paths
<1>1. CASE Present(d) = {}
  <2>1. Selected(d) = 0 /\ 0 \in Paths
    BY <1>1, DataFilesAssumption DEF Selected, Paths
  <2>2. \A q \in Paths : d[q] = Absent /\ d[q].time = 0
    BY <1>1 DEF Present, Disk
  <2> QED
    BY <2>1, <2>2
<1>2. CASE Present(d) # {}
  <2> DEFINE Times == {d[q].time : q \in Present(d)}
             Better(p) == \A q \in Present(d) :
                 d[q].time < d[p].time \/ (d[q].time = d[p].time /\ p <= q)
  <2>1. PICK c \in Nat : \A p \in Paths : d[p].time <= c
    BY DEF Disk
  <2>2. Times \in SUBSET Nat /\ Times # {} /\ \A x \in Times : x <= c
    BY <1>0, <1>2, <2>1 DEF Present
  <2>3. PICK m \in Times : \A y \in Times : y <= m
    BY <2>2, GreatestNatural
  <2> DEFINE Newest == {p \in Present(d) : d[p].time = m}
  <2>4. Newest \in SUBSET Nat /\ Newest # {}
    BY <1>0, <2>3 DEF Present
  <2>5. PICK p \in Newest : \A q \in Newest : p <= q
    BY <2>4, LeastNatural
  <2>6. p \in Present(d) /\ Better(p)
    <3>1. p \in Present(d) /\ d[p].time = m /\ m \in Nat
      BY <2>2, <2>5
    <3>2. ASSUME NEW q \in Present(d)
          PROVE  d[q].time < d[p].time \/ (d[q].time = d[p].time /\ p <= q)
      <4>1. d[q].time \in Nat /\ d[q].time <= m
        BY <1>0, <2>3 DEF Present
      <4>2. CASE d[q].time = m
        BY <2>5, <3>1, <4>2
      <4>3. CASE d[q].time # m
        BY <3>1, <4>1, <4>3
      <4> QED
        BY <4>2, <4>3
    <3> QED
      BY <3>1, <3>2
  <2>7. Selected(d) = CHOOSE x \in Present(d) : Better(x)
    BY <1>2 DEF Selected
  <2>8. Selected(d) \in Present(d) /\ Better(Selected(d))
    BY <2>6, <2>7
  <2>9. \A q \in Paths : q \notin Present(d) => d[q] = Absent /\ d[q].time = 0
    BY DEF Present, Disk
  <2> QED
    BY <1>0, <2>8, <2>9 DEF Present
<1> QED
  BY <1>1, <1>2

\* A copy that is newer than all others is the one that is read.
LEMMA NewestIsRead ==
    ASSUME NEW d, Disk(d), NEW p \in Paths, \A q \in Paths \ {p} : d[q].time < d[p].time
    PROVE  Selected(d) = p /\ Read(d) = d[p].text /\ Stamp(d) = <<p, d[p].time>>
<1>1. \A q \in Paths : d[q].time \in Nat
  BY DEF Disk, AnyCopies
<1>2. Selected(d) \in Paths /\ d[p].time <= d[Selected(d)].time
  BY SelectedIsNewest
<1>3. Selected(d) = p
  BY <1>1, <1>2
<1> QED
  BY <1>3 DEF Read, Stamp
-----------------------------------------------------------------------------
(* What an apply has to do. *)

Books == {u.book : u \in Uploads}
Kinds == {"workbook", "weekly", "studio"}

\* SetToSeq lists every element of a finite set once.
LEMMA SetAsSeq ==
    ASSUME NEW S, IsFiniteSet(S)
    PROVE  /\ Cardinality(S) \in Nat
           /\ SetToSeq(S) \in [1 .. Cardinality(S) -> S]
           /\ \A x \in S : \E n \in 1 .. Cardinality(S) : SetToSeq(S)[n] = x
           /\ \A m, n \in 1 .. Cardinality(S) : SetToSeq(S)[m] = SetToSeq(S)[n] => m = n
<1> DEFINE N == Cardinality(S)
<1>1. N \in Nat /\ ExistsBijection(1 .. N, S)
  BY FS_CardinalityType
<1>2. PICK g \in [1 .. N -> S] : \A a, b \in 1 .. N : g[a] = g[b] => a = b
  BY <1>1 DEF ExistsBijection, Bijection, Injection, Surjection, IsInjective
<1> DEFINE Inj(f) == \A a, b \in DOMAIN f : f[a] = f[b] => a = b
<1>3. SetToSeq(S) = CHOOSE f \in [1 .. N -> S] : Inj(f)
  BY DEF SetToSeq, IsInjective
<1>4. SetToSeq(S) \in [1 .. N -> S] /\ Inj(SetToSeq(S))
  BY <1>2, <1>3
<1>5. SetToSeq(S) \in Injection(1 .. N, S)
  BY <1>4 DEF Injection, IsInjective
<1>6. IsFiniteSet(1 .. N) /\ Cardinality(1 .. N) = N
  BY <1>1, FS_Interval
<1>7. SetToSeq(S) \in Surjection(1 .. N, S)
  BY <1>5, <1>6, FS_Injection
<1> QED
  BY <1>1, <1>4, <1>7 DEF Surjection

Pieces == [slot: {"weekly", "studio"}, file: Files]
Sheetwise(b) == b.good \cup b.bad

\* The master sheets of each slot come first, then its session; a workbook has two
\* slots.
LEMMA TodoShape ==
    ASSUME NEW e, e.book \in Books, e.kind \in Kinds
    PROVE  \E L \in Nat :
              /\ Todo(e) \in Seq(Pieces)
              /\ Len(Todo(e)) = IF e.kind = "workbook" THEN 2 * L + 2 ELSE L + 1
              /\ \A n \in 1 .. Len(Todo(e)) : Todo(e)[n].file = Session <=> n \in {L + 1, 2 * L + 2}
              /\ \A n \in 1 .. Len(Todo(e)) :
                    Todo(e)[n].slot = IF e.kind # "workbook" THEN e.kind
                                      ELSE IF n <= L + 1 THEN "weekly" ELSE "studio"
              /\ \A f \in Sheetwise(e.book) : \E n \in 1 .. L : Todo(e)[n].file = f
<1> DEFINE S == Sheetwise(e.book)
           L == Cardinality(S)
           masters == SetToSeq(S)
           Of(slot) == [n \in 1 .. (Len(masters) + 1) |->
                           [slot |-> slot, file |-> IF n <= Len(masters) THEN masters[n] ELSE Session]]
<1>1. S \in SUBSET Masters /\ IsFiniteSet(S)
  BY ImportAssumption, FS_Subset DEF Books, Sheetwise
<1>2. /\ L \in Nat /\ masters \in [1 .. L -> S]
      /\ \A x \in S : \E n \in 1 .. L : masters[n] = x
  BY <1>1, SetAsSeq
<1>3. Todo(e) = IF e.kind = "workbook" THEN Of("weekly") \o Of("studio") ELSE Of(e.kind)
  BY DEF Todo, Sheetwise
<1>4. masters \in Seq(S) /\ Len(masters) = L
  <2> HIDE DEF L, masters, S
  <2> QED
    BY <1>2
<1>5. Session \notin Masters /\ S \subseteq Files /\ Session \in Files
  BY <1>1, ImportAssumption DEF Files
<1>6. ASSUME NEW slot \in {"weekly", "studio"}
      PROVE  /\ Of(slot) \in Seq(Pieces) /\ Len(Of(slot)) = L + 1
             /\ \A n \in 1 .. (L + 1) : /\ Of(slot)[n].slot = slot
                                        /\ Of(slot)[n].file = Session <=> n = L + 1
                                        /\ n <= L => Of(slot)[n].file = masters[n]
  <2> HIDE DEF L, masters, S
  <2>1. Of(slot) = [n \in 1 .. (L + 1) |->
                       [slot |-> slot, file |-> IF n <= L THEN masters[n] ELSE Session]]
    BY <1>4
  <2> HIDE DEF Of
  <2>2. \A n \in 1 .. (L + 1) : Of(slot)[n] = [slot |-> slot, file |-> IF n <= L THEN masters[n] ELSE Session]
    BY <2>1
  <2>3. \A n \in 1 .. (L + 1) : n <= L => n \in 1 .. L /\ masters[n] \in S
    BY <1>2
  <2>4. ASSUME NEW n \in 1 .. (L + 1)
        PROVE  Of(slot)[n] \in Pieces
    <3>1. (IF n <= L THEN masters[n] ELSE Session) \in Files
      BY <1>5, <2>3
    <3>2. PICK x \in Files : Of(slot)[n] = [slot |-> slot, file |-> x]
      BY <2>2, <3>1
    <3>3. slot \in {"weekly", "studio"}
      OBVIOUS
    <3> QED
      BY <3>2, <3>3 DEF Pieces
  <2>5. Of(slot) \in [1 .. (L + 1) -> Pieces]
    BY <2>1, <2>4
  <2>6. \A n \in 1 .. (L + 1) : n <= L => masters[n] # Session
    BY <1>1, <1>5, <2>3
  <2> QED
    BY <1>2, <2>2, <2>5, <2>6
<1> HIDE DEF Of, masters, L, S
<1>7. CASE e.kind # "workbook"
  <2>1. Todo(e) = Of(e.kind) /\ e.kind \in {"weekly", "studio"}
    BY <1>3, <1>7 DEF Kinds
  <2>2. \A f \in S : \E n \in 1 .. L : Of(e.kind)[n].file = f
    <3>1. \A n \in 1 .. L : n \in 1 .. (L + 1) /\ n <= L
      BY <1>2
    <3>2. \A n \in 1 .. L : Of(e.kind)[n].file = masters[n]
      BY <1>6, <2>1, <3>1
    <3> QED
      BY <1>2, <3>2
  <2>3. \A n \in 1 .. (L + 1) : n = L + 1 <=> n \in {L + 1, 2 * L + 2}
    BY <1>2
  <2>4. /\ Todo(e) \in Seq(Pieces) /\ Len(Todo(e)) = L + 1
        /\ \A n \in 1 .. (L + 1) : /\ Todo(e)[n].file = Session <=> n \in {L + 1, 2 * L + 2}
                                   /\ Todo(e)[n].slot = e.kind
        /\ \A f \in S : \E n \in 1 .. L : Todo(e)[n].file = f
    BY <1>6, <2>1, <2>2, <2>3
  <2> QED
    BY <1>2, <1>7, <2>4 DEF S
<1>8. CASE e.kind = "workbook"
  <2> DEFINE W == Of("weekly")
             T == Of("studio")
  <2>1. Todo(e) = W \o T
    BY <1>3, <1>8
  <2>2. /\ Todo(e) \in Seq(Pieces)
        /\ Len(Todo(e)) = 2 * L + 2
        /\ \A n \in 1 .. (2 * L + 2) : Todo(e)[n] = IF n <= L + 1 THEN W[n] ELSE T[n - (L + 1)]
    <3>1. W \in Seq(Pieces) /\ T \in Seq(Pieces) /\ Len(W) = L + 1 /\ Len(T) = L + 1
      BY <1>6
    <3> HIDE DEF W, T
    <3>2. L + 1 + (L + 1) = 2 * L + 2
      BY <1>2
    <3> QED
      BY <2>1, <3>1, <3>2, ConcatProperties
  <2>3. ASSUME NEW n \in 1 .. (2 * L + 2)
        PROVE  /\ Todo(e)[n].file = Session <=> n \in {L + 1, 2 * L + 2}
               /\ Todo(e)[n].slot = IF n <= L + 1 THEN "weekly" ELSE "studio"
    <3>1. CASE n <= L + 1
      <4>1. n \in 1 .. (L + 1) /\ Todo(e)[n] = W[n]
        BY <1>2, <2>2, <3>1
      <4> QED
        BY <1>2, <1>6, <3>1, <4>1
    <3>2. CASE ~(n <= L + 1)
      <4>1. n - (L + 1) \in 1 .. (L + 1) /\ Todo(e)[n] = T[n - (L + 1)]
        BY <1>2, <2>2, <3>2
      <4>2. n - (L + 1) = L + 1 <=> n \in {L + 1, 2 * L + 2}
        BY <1>2, <3>2
      <4> QED
        BY <1>6, <3>2, <4>1, <4>2
    <3> QED
      BY <3>1, <3>2
  <2>4. \A n \in 1 .. L : n \in 1 .. (2 * L + 2) /\ n <= L + 1 /\ n \in 1 .. (L + 1) /\ n <= L
    BY <1>2
  <2>5. \A n \in 1 .. L : Todo(e)[n].file = masters[n]
    BY <1>6, <2>2, <2>4
  <2>6. \A f \in S : \E n \in 1 .. L : Todo(e)[n].file = f
    BY <1>2, <2>5
  <2> QED
    BY <1>2, <1>8, <2>2, <2>3, <2>6 DEF S
<1> QED
  BY <1>7, <1>8

-----------------------------------------------------------------------------
(* The shape of a state. *)

Entries == [id: Nat \ {0}, book: Books, kind: Kinds, version: [Files \ Untracked -> Paths \X Nat],
            conflict: BOOLEAN, seen: [Files -> Texts]]
Notes == [file: Files, path: Paths, before: AnyCopies, after: AnyCopies]
Steps == {"open", "write", "close", "undo", "restore", "done"}
Jobs == [step: Steps, entry: Entries, at: Nat \ {0}, before: [Paths -> AnyCopies],
         rows: RowsOf \cup {Missing}, journal: Seq(Notes), failed: SUBSET Masters,
         error: {"none", "raised", "conflict"}, conflicts: SUBSET (Files \X Paths)]

Answers == [id: Nat, what: {"none", "applied", "failed", "changed", "error", "half done"}]

DiskInv ==
    /\ clock \in Nat \ {0}
    /\ file \in [Files -> [Paths -> AnyCopies]]
    /\ \A f \in Files, p \in Paths : file[f][p] \in Copies(f, clock)
    /\ file[Session][0] # Absent

Ordered(s, last) ==
    /\ s \in Seq(Entries)
    /\ Len(s) <= MaxItems
    /\ \A n \in DOMAIN s : s[n].id <= last
    /\ \A m, n \in DOMAIN s : m < n => s[m].id < s[n].id

StoreInv ==
    /\ previews \in Nat /\ outside \in Nat /\ faults \in Nat
    /\ torn \subseteq {"stop", "rollback", "outside"}
    /\ answer \in Answers
    /\ Ordered(store, previews)

\* The two answers of a comparison: the copy is its own, and is to be restored; or it
\* is somebody else's, and its record is dropped.  A record leaves the journal when it
\* is dropped or restored.
Agree == Compare /\ Mine(Record)
Undo == (Compare /\ ~Mine(Record)) \/ Restore

\* The file at hand was captured: before it is written until its records are taken.
Captured == job.step \in {"write", "close"}

JobInv ==
    /\ job = NoJob \/ job \in Jobs
    /\ job # NoJob =>
          /\ \E n \in DOMAIN store : store[n] = Entry
          /\ job.at \in 1 .. Len(Todo(Entry))
          /\ Captured => /\ \A p \in Paths : job.before[p] \in Copies(Target.file, clock)
                         /\ job.rows \in RowsOf
                         /\ Target.file = Session => job.before[0] # Absent
          /\ \A i \in DOMAIN job.journal :
                LET r == job.journal[i]
                IN  /\ r.before \in Copies(r.file, clock) /\ r.after \in Copies(r.file, clock)
                    /\ r.file = Session /\ r.path = 0 => r.before # Absent
          /\ job.step = "restore" => job.journal # <<>> /\ Place(Record) \notin job.conflicts

Shape == DiskInv /\ StoreInv /\ JobInv

\* Every file can be read, the session's rows are rows.
LEMMA Readable ==
    ASSUME DiskInv
    PROVE  /\ \A f \in Files : Disk(file[f])
           /\ Rows \in RowsOf
           /\ \A f \in Files : Read(file[f]) \in Texts
           /\ Version \in [Files \ Untracked -> Paths \X Nat]
           /\ \A f \in Files \ Untracked : Version[f] = Stamp(file[f])
<1>1. ASSUME NEW f \in Files
      PROVE  Disk(file[f])
  <2>1. file[f] \in [Paths -> AnyCopies] /\ clock \in Nat
    BY DEF DiskInv
  <2>2. ASSUME NEW p \in Paths
        PROVE  file[f][p].time <= clock /\ (file[f][p].time = 0 <=> file[f][p] = Absent)
    <3>1. CASE file[f][p] = Absent
      BY <2>1, <3>1 DEF Absent
    <3>2. CASE file[f][p] # Absent
      <4>1. file[f][p] \in [text: TextsOf(f), time: 1 .. clock]
        BY <3>2 DEF DiskInv, Copies
      <4> QED
        BY <2>1, <3>2, <4>1
    <3> QED
      BY <3>1, <3>2
  <2> QED
    BY <2>1, <2>2 DEF Disk
<1>2. Session \in Files /\ 0 \in Paths
  BY DataFilesAssumption DEF Files, Paths
<1>3. ASSUME NEW f \in Files
      PROVE  Selected(file[f]) \in Paths /\ Stamp(file[f]) \in Paths \X Nat /\ Read(file[f]) \in Texts
  <2>1. Selected(file[f]) \in Paths
    BY <1>1, SelectedIsNewest
  <2>2. file[f][Selected(file[f])] \in AnyCopies
    BY <1>1, <2>1 DEF Disk
  <2> QED
    BY <2>1, <2>2 DEF Stamp, Read, AnyCopies
<1>4. Rows \in RowsOf
  <2> DEFINE d == file[Session]
  <2>1. Disk(d) /\ d[0] # Absent /\ \A p \in Paths : d[p] \in Copies(Session, clock)
    BY <1>1, <1>2 DEF DiskInv
  <2>2. Selected(d) \in Paths /\ d[0].time <= d[Selected(d)].time
    BY <1>2, <2>1, SelectedIsNewest
  <2>3. d[0].time \in Nat /\ d[Selected(d)].time \in Nat /\ d[0].time # 0
    BY <1>2, <2>1, <2>2 DEF Disk, AnyCopies
  <2>4. d[Selected(d)] # Absent
    BY <2>1, <2>2, <2>3 DEF Disk
  <2>5. d[Selected(d)] \in [text: RowsOf, time: 1 .. clock]
    BY <2>1, <2>2, <2>4 DEF Copies, TextsOf
  <2> QED
    BY <2>5 DEF Rows, Read
<1> QED
  BY <1>1, <1>3, <1>4 DEF Version

\* Time passes, the copies of before stay well formed.
LEMMA CopiesGrow ==
    ASSUME NEW f, NEW c \in Nat, NEW x \in Copies(f, c)
    PROVE  x \in Copies(f, c + 1)
BY DEF Copies

\* A new copy of any file.
LEMMA NewCopy ==
    ASSUME DiskInv, NEW f \in Files, NEW p \in Paths, NEW t \in TextsOf(f),
           file' = [file EXCEPT ![f] = [@ EXCEPT ![p] = [text |-> t, time |-> clock + 1]]],
           clock' = clock + 1
    PROVE  DiskInv'
<1>1. [text |-> t, time |-> clock + 1] \in Copies(f, clock + 1)
  BY DEF DiskInv, Copies
<1>2. [text |-> t, time |-> clock + 1] \in AnyCopies
  BY DEF DiskInv, AnyCopies, TextsOf, Texts
<1>3. file' \in [Files -> [Paths -> AnyCopies]]
  BY <1>2 DEF DiskInv
<1>4. \A g \in Files, q \in Paths : file'[g][q] \in Copies(g, clock + 1)
  BY <1>1, CopiesGrow DEF DiskInv
<1>5. [text |-> t, time |-> clock + 1] # Absent
  <2>1. [text |-> t, time |-> clock + 1].time # 0
    BY DEF DiskInv
  <2> QED
    BY <2>1 DEF Absent
<1>6. file'[Session][0] # Absent
  BY <1>5 DEF DiskInv, Files
<1> QED
  BY <1>3, <1>4, <1>6 DEF DiskInv

LEMMA Working ==
    ASSUME JobInv, job.step # "none"
    PROVE  /\ job \in Jobs /\ job # NoJob /\ Entry \in Entries
           /\ Target \in Pieces /\ Target.file \in Files
           /\ AtMaster => Target.file \in Masters
<1>1. job # NoJob
  BY DEF NoJob
<1>2. job \in Jobs /\ Entry \in Entries /\ Entry.book \in Books /\ Entry.kind \in Kinds
  BY <1>1 DEF JobInv, Jobs, Entries, Entry
<1>3. Todo(Entry) \in Seq(Pieces)
  BY <1>2, TodoShape
<1>4. job.at \in 1 .. Len(Todo(Entry))
  BY <1>1 DEF JobInv
<1>5. Target \in Pieces
  BY <1>3, <1>4, ElementOfSeq DEF Target
<1> QED
  BY <1>1, <1>2, <1>5 DEF Pieces, AtMaster, Files

LEMMA JobsWork ==
    ASSUME NEW j \in Jobs
    PROVE  j # NoJob /\ j.step # "none"
BY DEF Jobs, Steps, NoJob

\* The texts of a write are rows for the session and a writing for a master file.
LEMMA ExpectedText ==
    ASSUME Shape, Captured
    PROVE  Expected \in TextsOf(Target.file)
<1>1. /\ job \in Jobs /\ Entry \in Entries /\ Target \in Pieces
      /\ job # NoJob /\ job.rows \in RowsOf
  BY Working DEF Shape, JobInv, Captured
<1>2. CASE AtMaster
  <2>1. Entry.id \in Nat
    BY <1>1 DEF Entries
  <2> QED
    BY <1>2, <2>1 DEF Expected, TextsOf, Writings, AtMaster
<1>3. CASE ~AtMaster
  <2>1. Target.slot \in {"weekly", "studio"} /\ Entry.book \in Books
    BY <1>1 DEF Pieces, Entries
  <2>2. Entry.book[Target.slot] \in Sheets
    BY <2>1 DEF Books, Sheets
  <2>3. Uploaded \in RowsOf
    BY <1>1, <2>1, <2>2 DEF Uploaded, RowsOf
  <2> QED
    BY <1>3, <2>3 DEF Expected, TextsOf, AtMaster
<1> QED
  BY <1>2, <1>3

\* A write replaces one copy by a new one, or nothing.
LEMMA WriteEffect ==
    ASSUME Shape, Write
    PROVE  /\ clock' = clock + 1
           /\ \/ file' = file /\ job'.error = "raised"
              \/ \E p \in Paths : file' = [file EXCEPT ![Target.file] =
                    [@ EXCEPT ![p] = [text |-> Expected, time |-> clock + 1]]]
           /\ \E e \in {"none", "raised"} : job' = [job EXCEPT !.step = "close", !.error = e]
<1>1. Target.file \in Files /\ job \in Jobs
  BY Working DEF Shape, Write
<1>2. PICK copies \in Saves(file[Target.file], Expected, clock + 1), late \in BOOLEAN :
          /\ file' = [file EXCEPT ![Target.file] = copies]
          /\ job' = [job EXCEPT !.step = "close",
                        !.error = IF late \/ copies = file[Target.file] THEN "raised" ELSE "none"]
  BY DEF Write
<1>3. file \in [Files -> [Paths -> AnyCopies]]
  BY DEF Shape, DiskInv
<1>4. CASE copies = file[Target.file]
  <2>1. file' = file
    BY <1>1, <1>2, <1>3, <1>4
  <2>2. job' = [job EXCEPT !.step = "close", !.error = "raised"]
    BY <1>2, <1>4
  <2>3. job'.error = "raised"
    BY <1>1, <2>2 DEF Jobs
  <2> QED
    BY <2>1, <2>2, <2>3 DEF Write
<1>5. CASE copies # file[Target.file]
  <2>1. PICK p \in Paths : copies = [file[Target.file] EXCEPT ![p] = [text |-> Expected, time |-> clock + 1]]
    BY <1>2, <1>5 DEF Saves
  <2>2. \E e \in {"none", "raised"} : job' = [job EXCEPT !.step = "close", !.error = e]
    BY <1>2
  <2> QED
    BY <1>2, <2>1, <2>2 DEF Write
<1> QED
  BY <1>4, <1>5

Changed == {p \in Paths : job.before[p] # file[Target.file][p] /\ Owned(file[Target.file][p])}

\* The journal gets one record of every copy that changed and that holds what was to
\* be written.
LEMMA RecordsShape ==
    ASSUME Shape, Captured
    PROVE  /\ Records \in Seq(Notes)
           /\ \A n \in 1 .. Len(Records) :
                 LET r == Records[n]
                 IN  /\ r \in Notes /\ r.path \in Changed
                     /\ r.file = Target.file
                     /\ r.before = job.before[r.path] /\ r.after = file[Target.file][r.path]
           /\ \A p \in Changed : \E n \in 1 .. Len(Records) : Records[n].path = p
           /\ \A m, n \in 1 .. Len(Records) : Records[m].path = Records[n].path => m = n
<1>1. /\ job \in Jobs /\ Target.file \in Files
      /\ job.before \in [Paths -> AnyCopies] /\ file[Target.file] \in [Paths -> AnyCopies]
  BY Working DEF Shape, Captured, Jobs, DiskInv
<1>2. IsFiniteSet(Paths)
  BY FS_Interval, DataFilesAssumption DEF Paths
<1> DEFINE C == Changed
           N == Cardinality(C)
           s == SetToSeq(C)
<1>3. C \in SUBSET Paths /\ IsFiniteSet(C)
  BY <1>2, FS_Subset DEF Changed
<1>4. /\ N \in Nat /\ s \in [1 .. N -> C]
      /\ \A x \in C : \E n \in 1 .. N : s[n] = x
      /\ \A m, n \in 1 .. N : s[m] = s[n] => m = n
  BY <1>3, SetAsSeq
<1>5. Records = [n \in 1 .. N |->
                    [file |-> Target.file, path |-> s[n], before |-> job.before[s[n]],
                     after |-> file[Target.file][s[n]]]]
  BY DEF Records, Changed
<1> HIDE DEF N, s
<1>6. ASSUME NEW n \in 1 .. N
      PROVE  /\ Records[n] \in Notes /\ Records[n].path = s[n] /\ s[n] \in C
             /\ Records[n].file = Target.file
             /\ Records[n].before = job.before[s[n]] /\ Records[n].after = file[Target.file][s[n]]
  <2>1. s[n] \in C /\ s[n] \in Paths
    BY <1>3, <1>4
  <2>2. Records[n] = [file |-> Target.file, path |-> s[n], before |-> job.before[s[n]],
                      after |-> file[Target.file][s[n]]]
    BY <1>5
  <2>3. job.before[s[n]] \in AnyCopies /\ file[Target.file][s[n]] \in AnyCopies
    BY <1>1, <2>1
  <2> QED
    BY <1>1, <2>1, <2>2, <2>3 DEF Notes
<1>7. Records \in [1 .. N -> Notes]
  BY <1>5, <1>6
<1>8. Records \in Seq(Notes) /\ Len(Records) = N
  BY <1>4, <1>7
<1> QED
  BY <1>4, <1>6, <1>8

\* What a capture of the copies adds, and where the import goes on.
LEMMA CloseEffect ==
    ASSUME Shape, job.step = "close", NEW next \in {"open", "done", "undo"}, Close(next),
           next = "open" => job.at < Len(Todo(Entry))
    PROVE  /\ job' \in Jobs /\ Entry' = Entry /\ job'.step = next
           /\ job'.journal = IF Atomic THEN job.journal \o Records ELSE job.journal
           /\ job'.failed = IF AtMaster THEN Noted ELSE {}
           /\ job'.at = IF next = "open" THEN job.at + 1 ELSE job.at
           /\ job'.at \in 1 .. Len(Todo(Entry))
           /\ job'.conflicts = job.conflicts
<1>1. job \in Jobs /\ Entry \in Entries /\ job # NoJob /\ (AtMaster => Target.file \in Masters)
  BY Working DEF Shape
<1>2. Records \in Seq(Notes)
  BY RecordsShape DEF Captured
<1>3. job.journal \o Records \in Seq(Notes)
  BY <1>1, <1>2, ConcatProperties DEF Jobs
<1>4. Len(Todo(Entry)) \in Nat /\ job.at \in 1 .. Len(Todo(Entry))
  <2>1. Entry.book \in Books /\ Entry.kind \in Kinds
    BY <1>1 DEF Entries
  <2>2. Todo(Entry) \in Seq(Pieces)
    BY <2>1, TodoShape
  <2> QED
    BY <1>1, <2>2, LenProperties DEF Shape, JobInv
<1>5. (IF AtMaster THEN Noted ELSE {}) \in SUBSET Masters
  BY <1>1 DEF Noted, Jobs
<1> DEFINE J == IF Atomic THEN job.journal \o Records ELSE job.journal
           F == IF AtMaster THEN Noted ELSE {}
           A == IF next = "open" THEN job.at + 1 ELSE job.at
<1>6. J \in Seq(Notes) /\ F \in SUBSET Masters /\ A \in 1 .. Len(Todo(Entry)) /\ A \in Nat \ {0}
  BY <1>1, <1>3, <1>4, <1>5 DEF Jobs
<1>7. job' = [job EXCEPT !.step = next, !.error = "none", !.journal = J, !.failed = F, !.at = A]
  BY DEF Close
<1> HIDE DEF J, F, A
<1>8. /\ job' \in Jobs /\ job'.entry = job.entry /\ job'.step = next /\ job'.journal = J
      /\ job'.failed = F /\ job'.at = A /\ job'.conflicts = job.conflicts
  BY <1>1, <1>6, <1>7 DEF Jobs, Steps
<1> QED
  BY <1>6, <1>8 DEF J, F, A, Entry

\* The last record of a journal and what is before it.
LEMMA LastNote ==
    ASSUME NEW j \in Seq(Notes), j # <<>>
    PROVE  /\ Len(j) \in Nat \ {0} /\ Last(j) = j[Len(j)] /\ Last(j) \in Notes
           /\ Front(j) \in Seq(Notes) /\ Len(Front(j)) = Len(j) - 1
           /\ \A i \in 1 .. (Len(j) - 1) : Front(j)[i] = j[i] /\ i \in 1 .. Len(j)
<1>1. Len(j) \in Nat \ {0}
  BY EmptySeq
<1> DEFINE n == Len(j)
           k == n - 1
<1>2. k \in Nat /\ 1 \in Int /\ k \in Int
  BY <1>1
<1>3. \A i \in 1 .. k : j[i] \in Notes /\ i \in 1 .. n
  BY <1>1
<1>4. j[n] \in Notes
  BY <1>1
<1>5. Front(j) = SubSeq(j, 1, k)
  BY DEF Front
<1> HIDE DEF k
<1>6. /\ SubSeq(j, 1, k) \in Seq(Notes)
      /\ Len(SubSeq(j, 1, k)) = IF 1 <= k THEN k - 1 + 1 ELSE 0
      /\ \A i \in 1 .. (k - 1 + 1) : SubSeq(j, 1, k)[i] = j[1 + i - 1]
  BY <1>2, <1>3, SubSeqProperties
<1>7. Len(Front(j)) = k /\ \A i \in 1 .. k : Front(j)[i] = j[i]
  BY <1>2, <1>5, <1>6
<1> QED
  BY <1>1, <1>3, <1>4, <1>5, <1>6, <1>7 DEF Last, k

LEMMA FrontNote ==
    ASSUME NEW j \in Seq(Notes), j # <<>>, NEW i \in DOMAIN Front(j)
    PROVE  i \in DOMAIN j /\ Front(j)[i] = j[i]
<1>1. /\ Len(j) \in Nat \ {0} /\ Front(j) \in Seq(Notes) /\ Len(Front(j)) = Len(j) - 1
      /\ \A k \in 1 .. (Len(j) - 1) : Front(j)[k] = j[k] /\ k \in 1 .. Len(j)
  BY LastNote
<1>2. DOMAIN Front(j) = 1 .. (Len(j) - 1) /\ DOMAIN j = 1 .. Len(j)
  BY <1>1
<1> QED
  BY <1>1, <1>2

\* One record less, and its copy restored or in conflict.
LEMMA UndoEffect ==
    ASSUME Shape, Undo
    PROVE  /\ job \in Jobs /\ Record \in Notes /\ Record = job.journal[Len(job.journal)]
           /\ job.journal \in Seq(Notes) /\ job.journal # <<>>
           /\ job' \in Jobs /\ Entry' = Entry /\ job'.step = "undo"
           /\ job'.journal = Front(job.journal) /\ job'.at = job.at
           /\ \/ /\ Restore /\ Place(Record) \notin job.conflicts /\ job'.conflicts = job.conflicts
                 /\ file' = [file EXCEPT ![Record.file] = [@ EXCEPT ![Record.path] = Record.before]]
              \/ /\ Compare /\ ~Mine(Record) /\ job'.conflicts = job.conflicts \cup {Place(Record)}
                 /\ file' = file
           /\ UNCHANGED <<clock, store, answer, counts, torn>>
<1>0. job.step \in {"undo", "restore"}
  BY DEF Undo, Compare, Restore
<1>1. job \in Jobs /\ job.journal # <<>> /\ job.journal \in Seq(Notes)
  <2>1. job \in Jobs
    BY <1>0, Working DEF Shape
  <2> QED
    BY <2>1, JobsWork DEF Shape, JobInv, Undo, Compare, Restore, Jobs
<1>2. /\ Record \in Notes /\ Record = job.journal[Len(job.journal)]
      /\ Front(job.journal) \in Seq(Notes)
  BY <1>1, LastNote DEF Record
<1>3. Place(Record) \in Files \X Paths
  BY <1>2 DEF Place, Notes
<1>4. CASE Restore
  <2>1. job' = [job EXCEPT !.step = "undo", !.journal = Front(job.journal)]
    BY <1>4 DEF Restore
  <2>2. /\ job' \in Jobs /\ job'.entry = job.entry /\ job'.step = "undo" /\ job'.at = job.at
        /\ job'.journal = Front(job.journal) /\ job'.conflicts = job.conflicts
    BY <1>1, <1>2, <2>1 DEF Jobs, Steps
  <2>3. /\ file' = [file EXCEPT ![Record.file] = [@ EXCEPT ![Record.path] = Record.before]]
        /\ UNCHANGED <<clock, store, answer, counts, torn>>
    BY <1>4 DEF Restore
  <2>4. Place(Record) \notin job.conflicts
    BY <1>1, <1>4, JobsWork DEF Restore, Shape, JobInv
  <2> QED
    BY <1>1, <1>2, <1>4, <2>2, <2>3, <2>4 DEF Entry
<1>5. CASE Compare /\ ~Mine(Record)
  <2>1. job' = [job EXCEPT !.journal = Front(job.journal), !.conflicts = job.conflicts \cup {Place(Record)}]
        /\ job.step = "undo" /\ file' = file /\ UNCHANGED <<clock, store, answer, counts, torn>>
    BY <1>5 DEF Compare, disk
  <2>2. /\ job' \in Jobs /\ job'.entry = job.entry /\ job'.step = job.step /\ job'.at = job.at
        /\ job'.journal = Front(job.journal)
        /\ job'.conflicts = job.conflicts \cup {Place(Record)}
    BY <1>1, <1>2, <1>3, <2>1 DEF Jobs
  <2> QED
    BY <1>1, <1>2, <1>5, <2>1, <2>2 DEF Entry
<1> QED
  BY <1>4, <1>5 DEF Undo

\* A comparison that finds the copy unchanged changes nothing but the step.
LEMMA AgreeEffect ==
    ASSUME Shape, Agree
    PROVE  /\ job \in Jobs /\ job' \in Jobs /\ job.step = "undo" /\ job'.step = "restore"
           /\ Entry' = Entry /\ Target' = Target /\ Record' = Record /\ ~Captured /\ ~Captured'
           /\ job'.journal = job.journal /\ job'.at = job.at /\ job'.conflicts = job.conflicts
           /\ job.journal \in Seq(Notes) /\ job.journal # <<>> /\ Mine(Record)
           /\ Record \in Notes /\ Record = job.journal[Len(job.journal)]
           /\ UNCHANGED <<file, clock, store, answer, counts, torn>>
<1>1. /\ job.step = "undo" /\ job.journal # <<>> /\ Mine(Record)
      /\ job' = [job EXCEPT !.step = "restore"]
      /\ UNCHANGED <<file, clock, store, answer, counts, torn>>
  BY DEF Agree, Compare, disk
<1>2. job \in Jobs /\ job.journal \in Seq(Notes)
  <2>1. job \in Jobs
    BY <1>1, Working DEF Shape
  <2> QED
    BY <2>1 DEF Jobs
<1>3. Record \in Notes /\ Record = job.journal[Len(job.journal)]
  BY <1>1, <1>2, LastNote DEF Record
<1>4. /\ job' \in Jobs /\ job'.entry = job.entry /\ job'.step = "restore" /\ job'.at = job.at
      /\ job'.journal = job.journal /\ job'.conflicts = job.conflicts
  BY <1>1, <1>2 DEF Jobs, Steps
<1> QED
  BY <1>1, <1>2, <1>3, <1>4 DEF Entry, Target, Record, Captured

LEMMA ShapeInit == Init => Shape
<1> SUFFICES ASSUME Init PROVE Shape
  OBVIOUS
<1>1. 0 \in Paths /\ Session \in Files
  BY DataFilesAssumption DEF Paths, Files
<1> DEFINE t(f) == IF f = Session THEN [weekly |-> NoSheet, studio |-> NoSheet, mark |-> 0]
                                  ELSE <<"sheet", 0>>
           c(f, p) == IF p # 0 THEN Absent ELSE [text |-> t(f), time |-> 1]
<1>2. file = [f \in Files |-> [p \in Paths |-> c(f, p)]]
  BY DEF Init
<1>3. ASSUME NEW f \in Files
      PROVE  t(f) \in TextsOf(f)
  BY DEF TextsOf, RowsOf, Sheets, Writings
<1>4. ASSUME NEW f \in Files, NEW p \in Paths
      PROVE  c(f, p) \in Copies(f, 1) /\ c(f, p) \in AnyCopies
  <2>1. CASE p # 0
    BY <2>1 DEF Absent, Copies, AnyCopies, Texts
  <2>2. CASE p = 0
    <3>1. t(f) \in TextsOf(f) /\ t(f) \in Texts
      BY <1>3 DEF TextsOf, Texts
    <3> HIDE DEF t
    <3> QED
      BY <2>2, <3>1 DEF Copies, AnyCopies
  <2> QED
    BY <2>1, <2>2
<1>5. c(Session, 0) # Absent
  <2>1. c(Session, 0).time = 1
    OBVIOUS
  <2> QED
    BY <2>1 DEF Absent
<1> HIDE DEF c
<1>6. DiskInv
  <2>1. \A f \in Files, p \in Paths : file[f][p] = c(f, p)
    BY <1>2
  <2>2. clock = 1
    BY DEF Init
  <2>3. file \in [Files -> [Paths -> AnyCopies]]
    BY <1>2, <1>4
  <2> QED
    BY <1>1, <1>4, <1>5, <2>1, <2>2, <2>3 DEF DiskInv
<1>7. StoreInv
  <2>1. Ordered(<<>>, 0)
    BY EmptySeq, ImportAssumption DEF Ordered
  <2>2. NoAnswer \in Answers
    BY DEF NoAnswer, Answers
  <2> QED
    BY <2>1, <2>2 DEF Init, StoreInv
<1>8. JobInv
  BY DEF Init, JobInv
<1> QED
  BY <1>6, <1>7, <1>8 DEF Shape

\* A new preview is the youngest, and the oldest gives way.
LEMMA PutKeeps ==
    ASSUME StoreInv, NEW e \in Entries, e.id = previews + 1
    PROVE  Ordered(Put(e), previews + 1)
<1> DEFINE all == Append(store, e)
           k == Len(store)
<1>1. store \in Seq(Entries) /\ k \in Nat /\ previews \in Nat /\ MaxItems \in Nat \ {0}
  BY ImportAssumption DEF StoreInv, Ordered
<1>2. /\ all \in Seq(Entries) /\ all # <<>> /\ Len(all) = k + 1
      /\ \A i \in 1 .. k : all[i] = store[i]
      /\ all[k + 1] = e
  BY <1>1, AppendProperties
<1>3. \A i \in 1 .. k : store[i].id \in Nat /\ store[i].id <= previews
  <2>1. \A i \in 1 .. k : store[i] \in Entries
    BY <1>1
  <2>2. DOMAIN store = 1 .. k
    BY <1>1
  <2> QED
    BY <2>1, <2>2 DEF StoreInv, Ordered, Entries
<1>4. \A i \in 1 .. (k + 1) : i \in 1 .. k \/ i = k + 1
  BY <1>1
<1> HIDE DEF all, k
<1>5. \A i \in 1 .. (k + 1) : all[i].id <= previews + 1
  BY <1>1, <1>2, <1>3, <1>4
<1>6. ASSUME NEW m \in 1 .. (k + 1), NEW n \in 1 .. (k + 1), m < n
      PROVE  all[m].id < all[n].id
  <2>1. m \in 1 .. k
    BY <1>1, <1>6
  <2>2. CASE n \in 1 .. k
    BY <1>1, <1>2, <1>6, <2>1, <2>2 DEF StoreInv, Ordered, k
  <2>3. CASE n = k + 1
    BY <1>1, <1>2, <1>3, <2>1, <2>3
  <2> QED
    BY <1>4, <2>2, <2>3
<1>7. CASE Len(all) <= MaxItems
  <2>1. Put(e) = all
    BY <1>1, <1>2, <1>7 DEF Put, all
  <2> QED
    BY <1>1, <1>2, <1>5, <1>6, <1>7, <2>1 DEF Ordered
<1>8. CASE ~(Len(all) <= MaxItems)
  <2>1. Put(e) = Tail(all)
    BY <1>1, <1>2, <1>8 DEF Put, all
  <2>2. /\ Tail(all) \in Seq(Entries) /\ Len(Tail(all)) = k
        /\ \A i \in 1 .. k : Tail(all)[i] = all[i + 1]
    BY <1>1, <1>2, HeadTailProperties
  <2>3. k <= MaxItems
    BY DEF StoreInv, Ordered, k
  <2>4. \A i \in 1 .. k : i + 1 \in 1 .. (k + 1)
    BY <1>1
  <2>5. \A i \in 1 .. k : Tail(all)[i].id <= previews + 1
    BY <1>5, <2>2, <2>4
  <2>6. \A m, n \in 1 .. k : m < n => Tail(all)[m].id < Tail(all)[n].id
    <3>1. \A m, n \in 1 .. k : m < n => m + 1 < n + 1
      BY <1>1
    <3> QED
      BY <1>6, <2>2, <2>4, <3>1
  <2> QED
    BY <2>1, <2>2, <2>3, <2>5, <2>6 DEF Ordered
<1> QED
  BY <1>7, <1>8

LEMMA PreviewShape ==
    ASSUME Shape, NEW u \in Uploads, Preview(u.book, u.kind)
    PROVE  Shape'
<1> DEFINE e == [id |-> previews + 1, book |-> u.book, kind |-> u.kind, version |-> Version,
                 conflict |-> Audited(u.book, u.kind) \in Clashes,
                 seen |-> [f \in Files |-> Read(file[f])]]
<1>1. e \in Entries
  <2>1. u.book \in Books /\ u.kind \in Kinds /\ previews + 1 \in Nat \ {0}
    BY ImportAssumption DEF Books, Kinds, Shape, StoreInv
  <2>2. Version \in [Files \ Untracked -> Paths \X Nat] /\ [f \in Files |-> Read(file[f])] \in [Files -> Texts]
    BY Readable DEF Shape
  <2>3. (Audited(u.book, u.kind) \in Clashes) \in BOOLEAN
    OBVIOUS
  <2> QED
    BY <2>1, <2>2, <2>3 DEF Entries
<1>2. store' = Put(e) /\ e.id = previews + 1
  BY DEF Preview
<1> HIDE DEF e
<1>3. Ordered(store', previews')
  BY <1>1, <1>2, PutKeeps DEF Shape, Preview
<1>4. StoreInv'
  BY <1>3 DEF Shape, StoreInv, Preview
<1>5. DiskInv'
  BY DEF Shape, DiskInv, Preview, disk
<1>6. JobInv'
  BY DEF Preview, JobInv
<1> QED
  BY <1>4, <1>5, <1>6 DEF Shape

\* The first thing to do is at position 1.
LEMMA TodoHasFirst ==
    ASSUME NEW e \in Entries
    PROVE  1 \in 1 .. Len(Todo(e)) /\ Len(Todo(e)) \in Nat /\ Todo(e) \in Seq(Pieces)
           /\ Todo(e)[Len(Todo(e))].file = Session
<1>1. PICK L \in Nat :
              /\ Todo(e) \in Seq(Pieces)
              /\ Len(Todo(e)) = IF e.kind = "workbook" THEN 2 * L + 2 ELSE L + 1
              /\ \A n \in 1 .. Len(Todo(e)) : Todo(e)[n].file = Session <=> n \in {L + 1, 2 * L + 2}
  BY TodoShape DEF Entries
<1>2. Len(Todo(e)) \in Nat /\ 1 \in 1 .. Len(Todo(e)) /\ Len(Todo(e)) \in 1 .. Len(Todo(e))
  BY <1>1
<1>3. Len(Todo(e)) \in {L + 1, 2 * L + 2}
  BY <1>1
<1> QED
  BY <1>1, <1>2, <1>3

LEMMA BeginShape ==
    ASSUME Shape, NEW e \in ToSet(store), Begin(e)
    PROVE  /\ Shape' /\ job' \in Jobs /\ Entry' = e /\ e \in Entries /\ job'.step = "open"
           /\ job'.at = 1 /\ job'.journal = <<>> /\ job'.failed = {} /\ job'.conflicts = {}
<1>1. PICK n \in DOMAIN store : store[n] = e
  BY DEF ToSet
<1>2. e \in Entries
  BY <1>1 DEF Shape, StoreInv, Ordered
<1>3. file[Session] \in [Paths -> AnyCopies]
  BY DEF Shape, DiskInv, Files
<1>4. job' = [step |-> "open", entry |-> e, at |-> 1, before |-> file[Session],
              rows |-> Missing, journal |-> <<>>, failed |-> {}, error |-> "none", conflicts |-> {}]
  BY DEF Begin
<1>5. job' \in Jobs
  BY <1>2, <1>3, <1>4, EmptySeq DEF Jobs, Steps
<1>6. /\ Entry' = e /\ job'.step = "open" /\ job'.at = 1 /\ job'.journal = <<>>
      /\ job'.failed = {} /\ job'.conflicts = {}
  BY <1>4 DEF Entry
<1>7. 1 \in 1 .. Len(Todo(e))
  BY <1>2, TodoHasFirst
<1>8. JobInv'
  BY <1>1, <1>5, <1>6, <1>7, EmptySeq DEF JobInv, Captured, Begin
<1>9. DiskInv' /\ StoreInv'
  <2>1. NoAnswer \in Answers
    BY DEF NoAnswer, Answers
  <2>2. /\ answer' = NoAnswer
        /\ UNCHANGED <<file, clock, store, previews, outside, faults, torn>>
    BY DEF Begin, counts, disk
  <2> QED
    BY <2>1, <2>2 DEF Shape, DiskInv, StoreInv
<1> QED
  BY <1>2, <1>5, <1>6, <1>8, <1>9 DEF Shape

LEMMA OpenEffect ==
    ASSUME Shape, Open
    PROVE  /\ job \in Jobs /\ job' \in Jobs /\ Entry' = Entry /\ Target' = Target /\ job'.step = "write"
           /\ job'.before = file[Target.file] /\ job'.rows = Rows /\ job'.at = job.at
           /\ job'.journal = job.journal /\ job'.failed = job.failed /\ job'.conflicts = job.conflicts
<1>1. job \in Jobs /\ Target.file \in Files
  BY Working DEF Shape, Open
<1>2. file[Target.file] \in [Paths -> AnyCopies] /\ Rows \in RowsOf
  BY <1>1, Readable DEF Shape, DiskInv
<1>3. job' = [job EXCEPT !.step = "write", !.before = file[Target.file], !.rows = Rows]
  BY DEF Open
<1>4. /\ job' \in Jobs /\ job'.entry = job.entry /\ job'.step = "write"
      /\ job'.before = file[Target.file] /\ job'.rows = Rows /\ job'.at = job.at
      /\ job'.journal = job.journal /\ job'.failed = job.failed /\ job'.conflicts = job.conflicts
  BY <1>1, <1>2, <1>3 DEF Jobs, Steps
<1> QED
  BY <1>1, <1>4 DEF Entry, Target

LEMMA OpenShape ==
    ASSUME Shape, Open
    PROVE  Shape'
<1>1. Target.file \in Files /\ Rows \in RowsOf /\ job # NoJob /\ job' # NoJob
  BY Working, Readable, OpenEffect, JobsWork DEF Shape, Open
<1>2. DiskInv' /\ StoreInv'
  BY DEF Shape, DiskInv, StoreInv, Open, counts, disk
<1>3. JobInv'
  BY <1>1, OpenEffect DEF Shape, JobInv, DiskInv, Open, Captured, disk
<1> QED
  BY <1>2, <1>3 DEF Shape

\* A step of the same target keeps the job in shape.
LEMMA SameTarget ==
    ASSUME Shape, DiskInv', job \in Jobs, job' \in Jobs, Entry' = Entry, store' = store,
           job'.at = job.at, clock' \in {clock, clock + 1},
           Captured' => /\ Captured /\ job'.before = job.before /\ job'.rows = job.rows,
           job'.journal = job.journal, job'.step # "restore" \/ job' = job
    PROVE  JobInv'
<1>1. job # NoJob /\ job' # NoJob /\ Target' = Target
  BY JobsWork DEF Target, Entry
<1>2. clock \in Nat
  BY DEF Shape, DiskInv
<1>3. \A f : \A x \in Copies(f, clock) : x \in Copies(f, clock')
  BY <1>2, CopiesGrow
<1>4. Captured' => /\ \A p \in Paths : job'.before[p] \in Copies(Target.file, clock')
                   /\ job'.rows \in RowsOf
                   /\ Target.file = Session => job'.before[0] # Absent
  BY <1>1, <1>3 DEF Shape, JobInv
<1>5. \A i \in DOMAIN job'.journal :
         LET r == job'.journal[i]
         IN  /\ r.before \in Copies(r.file, clock') /\ r.after \in Copies(r.file, clock')
             /\ r.file = Session /\ r.path = 0 => r.before # Absent
  BY <1>1, <1>3 DEF Shape, JobInv
<1>6. job'.step = "restore" => job'.journal # <<>> /\ Place(Record)' \notin job'.conflicts
  BY <1>1 DEF Shape, JobInv, Place, Record
<1> QED
  BY <1>1, <1>4, <1>5, <1>6 DEF Shape, JobInv

LEMMA WriteShape ==
    ASSUME Shape, Write
    PROVE  /\ Shape' /\ job \in Jobs /\ job' \in Jobs /\ Entry' = Entry /\ Target' = Target
           /\ job'.step = "close" /\ job'.error \in {"none", "raised"}
           /\ job' = [job EXCEPT !.step = "close", !.error = job'.error]
<1>1. /\ job \in Jobs /\ job.step = "write" /\ Target.file \in Files
      /\ Expected \in TextsOf(Target.file)
  BY Working, ExpectedText DEF Shape, Write, Captured
<1>2. PICK e \in {"none", "raised"} : job' = [job EXCEPT !.step = "close", !.error = e]
  BY WriteEffect
<1>3. /\ job' \in Jobs /\ Entry' = Entry /\ job'.at = job.at /\ job'.before = job.before
      /\ job'.rows = job.rows /\ job'.journal = job.journal /\ Captured /\ job'.step = "close"
      /\ job'.error = e
  BY <1>1, <1>2 DEF Jobs, Steps, Entry, Captured
<1>4. DiskInv'
  <2>1. CASE file' = file
    <3>1. \A f : \A x \in Copies(f, clock) : x \in Copies(f, clock + 1)
      BY CopiesGrow DEF Shape, DiskInv
    <3> QED
      BY <2>1, <3>1, WriteEffect DEF Shape, DiskInv
  <2>2. ASSUME NEW p \in Paths,
               file' = [file EXCEPT ![Target.file] =
                          [@ EXCEPT ![p] = [text |-> Expected, time |-> clock + 1]]]
        PROVE  DiskInv'
    BY <1>1, <2>2, WriteEffect, NewCopy DEF Shape
  <2> QED
    BY <2>1, <2>2, WriteEffect
<1>5. StoreInv'
  BY DEF Shape, StoreInv, Write, Fault
<1>6. JobInv'
  BY <1>1, <1>3, <1>4, SameTarget, WriteEffect DEF Write
<1> QED
  BY <1>1, <1>2, <1>3, <1>4, <1>5, <1>6 DEF Shape, Target, Entry

LEMMA RefuseShape ==
    ASSUME Shape, Refuse
    PROVE  /\ Shape' /\ job \in Jobs /\ job' \in Jobs /\ Entry' = Entry /\ Target' = Target
           /\ job'.step = "close" /\ job'.error = IF AtMaster THEN "raised" ELSE "conflict"
           /\ job' = [job EXCEPT !.step = "close", !.error = job'.error]
<1>1. job \in Jobs /\ job.step = "write"
  BY Working DEF Shape, Refuse
<1> DEFINE e == IF AtMaster THEN "raised" ELSE "conflict"
<1>2. job' = [job EXCEPT !.step = "close", !.error = e] /\ e \in {"raised", "conflict"}
  BY DEF Refuse
<1> HIDE DEF e
<1>3. /\ job' \in Jobs /\ Entry' = Entry /\ job'.at = job.at /\ job'.before = job.before
      /\ job'.rows = job.rows /\ job'.journal = job.journal /\ Captured /\ job'.step = "close"
      /\ job'.error = e
  BY <1>1, <1>2 DEF Jobs, Steps, Entry, Captured
<1>4. DiskInv' /\ StoreInv'
  BY DEF Shape, DiskInv, StoreInv, Refuse, counts, disk
<1>5. JobInv'
  BY <1>1, <1>3, <1>4, SameTarget DEF Refuse, disk
<1> QED
  BY <1>1, <1>2, <1>3, <1>4, <1>5 DEF Shape, Target, Entry, e

LEMMA CloseShape ==
    ASSUME Shape, job.step = "close", NEW next \in {"open", "done", "undo"}, Close(next),
           next = "open" => job.at < Len(Todo(Entry))
    PROVE  Shape'
<1>1. job \in Jobs /\ job # NoJob /\ job' # NoJob /\ job' \in Jobs /\ ~Captured' /\ Captured
  BY Working, CloseEffect, JobsWork DEF Shape, Captured
<1>2. DiskInv' /\ StoreInv'
  BY DEF Shape, DiskInv, StoreInv, Close, counts, disk
<1>3. ASSUME NEW i \in DOMAIN job'.journal
      PROVE  LET r == job'.journal[i]
             IN  /\ r.before \in Copies(r.file, clock) /\ r.after \in Copies(r.file, clock)
                 /\ r.file = Session /\ r.path = 0 => r.before # Absent
  <2>1. CASE ~Atomic
    BY <1>1, <2>1, CloseEffect DEF Shape, JobInv
  <2>2. CASE Atomic
    <3> DEFINE k == Len(job.journal)
    <3>1. /\ job.journal \in Seq(Notes) /\ Records \in Seq(Notes) /\ k \in Nat
          /\ job'.journal = job.journal \o Records
      BY <1>1, <2>2, CloseEffect, RecordsShape DEF Jobs
    <3>2. i \in 1 .. (k + Len(Records))
          /\ job'.journal[i] = IF i <= k THEN job.journal[i] ELSE Records[i - k]
      BY <3>1, ConcatProperties, LenProperties
    <3>3. CASE i <= k
      <4>1. i \in DOMAIN job.journal /\ job'.journal[i] = job.journal[i]
        BY <3>1, <3>2, <3>3
      <4> QED
        BY <1>1, <4>1 DEF Shape, JobInv
    <3>4. CASE ~(i <= k)
      <4>1. i - k \in 1 .. Len(Records) /\ job'.journal[i] = Records[i - k]
        BY <3>1, <3>2, <3>4
      <4>2. PICK r : r = Records[i - k]
        OBVIOUS
      <4>3. /\ r \in Notes /\ r.path \in Changed /\ r.file = Target.file
            /\ r.before = job.before[r.path] /\ r.after = file[Target.file][r.path]
        BY <1>1, <4>1, <4>2, RecordsShape
      <4>4. r.path \in Paths /\ r.file \in Files
        BY <4>3 DEF Notes
      <4> QED
        BY <1>1, <4>1, <4>2, <4>3, <4>4 DEF Shape, JobInv, DiskInv
    <3> QED
      BY <3>3, <3>4
  <2> QED
    BY <2>1, <2>2
<1>4. JobInv'
  BY <1>1, <1>3, CloseEffect DEF Shape, JobInv, Close, disk
<1> QED
  BY <1>2, <1>4 DEF Shape

\* A sequence without its n-th element.
LEMMA Removed ==
    ASSUME NEW S, NEW s \in Seq(S), NEW n \in 1 .. Len(s)
    PROVE  /\ RemoveAt(s, n) \in Seq(S)
           /\ Len(RemoveAt(s, n)) = Len(s) - 1
           /\ \A i \in 1 .. (Len(s) - 1) :
                 RemoveAt(s, n)[i] = IF i < n THEN s[i] ELSE s[i + 1]
<1> DEFINE k == Len(s)
           a == n - 1
           b == n + 1
           A == SubSeq(s, 1, a)
           B == SubSeq(s, b, k)
<1>1. k \in Nat /\ n \in Nat /\ n <= k /\ 1 <= n /\ \A i \in 1 .. k : s[i] \in S
  OBVIOUS
<1>2. RemoveAt(s, n) = A \o B
  BY DEF RemoveAt
<1> HIDE DEF k
<1>3. a \in Nat /\ a \in Int /\ b \in Int /\ 1 \in Int /\ k \in Int
  BY <1>1
<1>4. /\ \A i \in 1 .. a : i \in 1 .. k /\ i < n
      /\ \A i \in b .. k : i \in 1 .. k
  BY <1>1
<1>5. (\A i \in 1 .. a : s[i] \in S) /\ (\A i \in b .. k : s[i] \in S)
  BY <1>1, <1>4
<1> HIDE DEF a, b, A, B
<1>6. /\ SubSeq(s, 1, a) \in Seq(S)
      /\ Len(SubSeq(s, 1, a)) = IF 1 <= a THEN a - 1 + 1 ELSE 0
      /\ \A i \in 1 .. (a - 1 + 1) : SubSeq(s, 1, a)[i] = s[1 + i - 1]
  BY <1>3, <1>5, SubSeqProperties
<1>7. /\ SubSeq(s, b, k) \in Seq(S)
      /\ Len(SubSeq(s, b, k)) = IF b <= k THEN k - b + 1 ELSE 0
      /\ \A i \in 1 .. (k - b + 1) : SubSeq(s, b, k)[i] = s[b + i - 1]
  BY <1>3, <1>5, SubSeqProperties
<1>8. A \in Seq(S) /\ Len(A) = n - 1 /\ \A i \in 1 .. (n - 1) : A[i] = s[i]
  BY <1>1, <1>3, <1>6 DEF A, a
<1>9. B \in Seq(S) /\ Len(B) = k - n /\ \A i \in 1 .. (k - n) : B[i] = s[n + i]
  BY <1>1, <1>3, <1>7 DEF B, b
<1>10. /\ A \o B \in Seq(S) /\ Len(A \o B) = (n - 1) + (k - n)
       /\ \A i \in 1 .. ((n - 1) + (k - n)) : (A \o B)[i] = IF i <= n - 1 THEN A[i] ELSE B[i - (n - 1)]
  <2>1. /\ A \o B \in Seq(S) /\ Len(A \o B) = Len(A) + Len(B)
        /\ \A i \in 1 .. (Len(A) + Len(B)) : (A \o B)[i] = IF i <= Len(A) THEN A[i] ELSE B[i - Len(A)]
    BY <1>8, <1>9, ConcatProperties
  <2> QED
    BY <1>8, <1>9, <2>1
<1>11. ASSUME NEW i \in 1 .. (k - 1)
       PROVE  (A \o B)[i] = IF i < n THEN s[i] ELSE s[i + 1]
  <2>1. i \in 1 .. ((n - 1) + (k - n))
    BY <1>1
  <2>2. CASE i < n
    <3>1. i <= n - 1 /\ i \in 1 .. (n - 1)
      BY <1>1, <2>2
    <3> QED
      BY <1>8, <1>10, <2>1, <2>2, <3>1
  <2>3. CASE ~(i < n)
    <3>1. ~(i <= n - 1) /\ i - (n - 1) \in 1 .. (k - n) /\ n + (i - (n - 1)) = i + 1
      BY <1>1, <2>3
    <3> QED
      BY <1>9, <1>10, <2>1, <2>3, <3>1
  <2> QED
    BY <2>2, <2>3
<1>12. (n - 1) + (k - n) = k - 1
  BY <1>1
<1>13. A \o B \in Seq(S) /\ Len(A \o B) = k - 1
  BY <1>10, <1>12
<1> QED
  BY <1>2, <1>11, <1>13 DEF k

LEMMA AppliedShape ==
    ASSUME Shape, Applied
    PROVE  Shape'
<1>1. PICK n \in DOMAIN store : store[n].id = Entry.id /\ store' = RemoveAt(store, n)
  BY DEF Applied
<1> DEFINE k == Len(store)
<1>2. store \in Seq(Entries) /\ k \in Nat /\ n \in 1 .. k /\ Len(store) <= MaxItems /\ MaxItems \in Nat
  BY <1>1, ImportAssumption DEF Shape, StoreInv, Ordered
<1>3. /\ store' \in Seq(Entries) /\ Len(store') = k - 1
      /\ \A i \in 1 .. (k - 1) : store'[i] = IF i < n THEN store[i] ELSE store[i + 1]
  BY <1>1, <1>2, Removed
<1> HIDE DEF k
<1>4. \A i \in 1 .. (k - 1) : i \in 1 .. k /\ i + 1 \in 1 .. k
  BY <1>2
<1>5. \A i \in 1 .. k : store[i].id <= previews
  BY <1>2 DEF Shape, StoreInv, Ordered, k
<1>6. \A i, j \in 1 .. k : i < j => store[i].id < store[j].id
  BY <1>2 DEF Shape, StoreInv, Ordered, k
<1>7. \A i \in 1 .. (k - 1) : store'[i].id <= previews
  BY <1>3, <1>4, <1>5
<1>8. ASSUME NEW i \in 1 .. (k - 1), NEW j \in 1 .. (k - 1), i < j
      PROVE  store'[i].id < store'[j].id
  <2>1. CASE j < n
    <3>1. i < n
      BY <1>2, <1>8, <2>1
    <3> QED
      BY <1>3, <1>4, <1>6, <1>8, <2>1, <3>1
  <2>2. CASE ~(j < n) /\ i < n
    <3>1. i < j + 1
      BY <1>2, <1>8
    <3> QED
      BY <1>3, <1>4, <1>6, <2>2, <3>1
  <2>3. CASE ~(j < n) /\ ~(i < n)
    <3>1. i + 1 < j + 1
      BY <1>2, <1>8
    <3> QED
      BY <1>3, <1>4, <1>6, <2>3, <3>1
  <2> QED
    BY <2>1, <2>2, <2>3
<1>9. k - 1 <= MaxItems
  BY <1>2 DEF k
<1>10. Ordered(store', previews')
  BY <1>2, <1>3, <1>7, <1>8, <1>9 DEF Ordered, Applied, counts
<1>11. answer' \in Answers
  <2>1. Entry \in Entries
    BY Working DEF Shape, Applied
  <2> QED
    BY <2>1 DEF Applied, Answers, Entries
<1>12. StoreInv'
  BY <1>10, <1>11 DEF Shape, StoreInv, Applied, counts
<1>13. DiskInv' /\ JobInv'
  BY DEF Shape, DiskInv, JobInv, Applied, disk
<1> QED
  BY <1>12, <1>13 DEF Shape

LEMMA UndoShape ==
    ASSUME Shape, Undo
    PROVE  Shape'
<1>1. /\ job \in Jobs /\ job' \in Jobs /\ job # NoJob /\ job' # NoJob /\ Entry' = Entry
      /\ job'.journal = Front(job.journal) /\ job'.at = job.at /\ job'.step = "undo"
  BY UndoEffect, JobsWork
<1>2. job.journal \in Seq(Notes) /\ job.journal # <<>>
  BY UndoEffect
<1> DEFINE n == Len(job.journal)
<1>3. /\ n \in 1 .. n /\ n \in Nat
      /\ Front(job.journal) \in Seq(Notes) /\ Len(Front(job.journal)) = n - 1
      /\ \A i \in 1 .. (n - 1) : Front(job.journal)[i] = job.journal[i] /\ i \in 1 .. n
      /\ DOMAIN job.journal = 1 .. n /\ DOMAIN Front(job.journal) = 1 .. (n - 1)
  BY <1>2, LastNote
<1>4. /\ Record \in Notes
      /\ Record.before \in Copies(Record.file, clock)
      /\ Record.file = Session /\ Record.path = 0 => Record.before # Absent
  BY <1>1, <1>3, UndoEffect DEF Shape, JobInv
<1>5. clock' = clock
  BY UndoEffect
<1>6. DiskInv'
  <2>1. CASE file' = file
    BY <1>5, <2>1 DEF Shape, DiskInv
  <2>2. CASE file' = [file EXCEPT ![Record.file] = [@ EXCEPT ![Record.path] = Record.before]]
    <3>1. Record.file \in Files /\ Record.path \in Paths /\ Record.before \in AnyCopies
      BY <1>4 DEF Notes
    <3>2. file' \in [Files -> [Paths -> AnyCopies]]
      BY <2>2, <3>1 DEF Shape, DiskInv
    <3>3. \A f \in Files, p \in Paths : file'[f][p] =
             IF f = Record.file /\ p = Record.path THEN Record.before ELSE file[f][p]
      BY <2>2, <3>1 DEF Shape, DiskInv
    <3>4. Session \in Files /\ 0 \in Paths
      BY DataFilesAssumption DEF Files, Paths
    <3> QED
      BY <1>4, <1>5, <3>2, <3>3, <3>4 DEF Shape, DiskInv
  <2> QED
    BY <2>1, <2>2, UndoEffect
<1>7. StoreInv'
  BY UndoEffect DEF Shape, StoreInv, counts
<1>8. JobInv'
  <2>1. store' = store
    BY UndoEffect
  <2> QED
    BY <1>1, <1>3, <1>5, <2>1 DEF Shape, JobInv, Captured
<1> QED
  BY <1>6, <1>7, <1>8 DEF Shape

LEMMA AgreeShape ==
    ASSUME Shape, Agree
    PROVE  Shape'
<1>1. job # NoJob /\ job' # NoJob
  BY AgreeEffect, JobsWork
<1>2. DiskInv' /\ StoreInv'
  BY AgreeEffect DEF Shape, DiskInv, StoreInv, counts
<1>3. Place(Record') \notin job'.conflicts
  BY AgreeEffect DEF Mine
<1>4. JobInv'
  BY <1>1, <1>3, AgreeEffect DEF Shape, JobInv
<1> QED
  BY <1>2, <1>4 DEF Shape

LEMMA FailedShape ==
    ASSUME Shape, Failed
    PROVE  Shape'
<1>1. Entry \in Entries
  BY Working DEF Shape, Failed
<1>2. answer' \in Answers
  BY <1>1 DEF Failed, Verdict, Answers, Entries
<1> QED
  BY <1>2 DEF Shape, DiskInv, StoreInv, JobInv, Failed, disk, counts

LEMMA RestoreFailsShape ==
    ASSUME Shape, RestoreFails
    PROVE  Shape'
<1>1. Entry \in Entries
  BY Working DEF Shape, RestoreFails
<1>2. answer' \in Answers
  BY <1>1 DEF RestoreFails, Answers, Entries
<1>3. StoreInv'
  <2>1. torn' \subseteq {"stop", "rollback", "outside"} /\ faults' \in Nat
    <3>1. torn' = torn \cup {"rollback"} /\ faults' = faults + 1
      BY DEF RestoreFails, Fault
    <3>2. torn \subseteq {"stop", "rollback", "outside"} /\ faults \in Nat
      BY DEF Shape, StoreInv
    <3> QED
      BY <3>1, <3>2
  <2>2. UNCHANGED <<store, previews, outside>>
    BY DEF RestoreFails
  <2> QED
    BY <1>2, <2>1, <2>2 DEF Shape, StoreInv
<1>4. DiskInv' /\ JobInv'
  BY DEF Shape, DiskInv, JobInv, RestoreFails, disk
<1> QED
  BY <1>3, <1>4 DEF Shape

\* What another process writes is newer than everything.
LEMMA OutsideEffect ==
    ASSUME Shape, NEW f \in Files, Outside(f)
    PROVE  \E t \in TextsOf(f) :
              /\ file' = [file EXCEPT ![f] = [@ EXCEPT ![0] = [text |-> t, time |-> clock + 1]]]
              /\ f = Session => t = [Rows EXCEPT !.mark = outside + 1]
              /\ f # Session => t = <<"outside", outside + 1>>
<1> DEFINE t == IF f = Session THEN [Rows EXCEPT !.mark = outside + 1] ELSE <<"outside", outside + 1>>
<1>1. outside + 1 \in Nat /\ Rows \in RowsOf
  BY Readable DEF Shape, StoreInv
<1>2. CASE f = Session
  <2>1. t \in TextsOf(f)
    BY <1>1, <1>2 DEF TextsOf, RowsOf
  <2> QED
    BY <1>2, <2>1 DEF Outside
<1>3. CASE f # Session
  <2>1. t \in TextsOf(f)
    BY <1>1, <1>3 DEF TextsOf, Writings
  <2> QED
    BY <1>3, <2>1 DEF Outside
<1> QED
  BY <1>2, <1>3

LEMMA OutsideShape ==
    ASSUME Shape, NEW f \in Files, Outside(f)
    PROVE  Shape'
<1>1. PICK t \in TextsOf(f) :
         file' = [file EXCEPT ![f] = [@ EXCEPT ![0] = [text |-> t, time |-> clock + 1]]]
  BY OutsideEffect
<1>2. 0 \in Paths /\ clock' = clock + 1
  BY DataFilesAssumption DEF Paths, Outside
<1>3. DiskInv'
  BY <1>1, <1>2, NewCopy DEF Shape
<1>4. StoreInv'
  BY DEF Shape, StoreInv, Outside
<1>5. JobInv'
  <2>1. CASE job = NoJob
    BY <2>1 DEF JobInv, Outside
  <2>2. CASE job # NoJob
    BY <1>2, <1>3, <2>2, SameTarget DEF Shape, JobInv, Outside, Entry, Captured
  <2> QED
    BY <2>1, <2>2
<1> QED
  BY <1>3, <1>4, <1>5 DEF Shape

LEMMA StopShape ==
    ASSUME Shape, Stop
    PROVE  Shape'
<1>1. Ordered(<<>>, previews)
  BY EmptySeq, ImportAssumption DEF Ordered
<1> QED
  BY <1>1 DEF Shape, DiskInv, StoreInv, JobInv, Stop, Fault, disk

LEMMA ShapeHolds == Shape /\ [Next]_vars => Shape'
<1> SUFFICES ASSUME Shape, [Next]_vars PROVE Shape'
  OBVIOUS
<1>1. CASE \E u \in Uploads : Preview(u.book, u.kind)
  BY <1>1, PreviewShape
<1>2. CASE \E e \in ToSet(store) : Begin(e)
  BY <1>2, BeginShape
<1>3. CASE Open \/ Write \/ Refuse
  BY <1>3, OpenShape, WriteShape, RefuseShape
<1>4. CASE Advance \/ Fail
  BY <1>4, CloseShape DEF Advance, Fail
<1>5. CASE Applied \/ Agree \/ Undo \/ Failed \/ RestoreFails
  BY <1>5, AppliedShape, AgreeShape, UndoShape, FailedShape, RestoreFailsShape
<1>6. CASE \E f \in Files : Outside(f)
  BY <1>6, OutsideShape
<1>7. CASE Stop
  BY <1>7, StopShape
<1>8. CASE UNCHANGED vars
  BY <1>8 DEF vars, disk, counts, Shape, DiskInv, StoreInv, JobInv, Captured, Entry, Target, Place, Record
<1> QED
  BY <1>1, <1>2, <1>3, <1>4, <1>5, <1>6, <1>7, <1>8 DEF Next, Agree, Undo

LEMMA ShapeAlways == Spec => []Shape
BY ShapeInit, ShapeHolds, PTL DEF Spec

\* Previews are few, apart and in order; every copy is older than the clock; the
\* import at work is one whose preview is still there.
THEOREM TypeCorrect == Spec => []TypeOK
<1>1. ASSUME Shape
      PROVE  TypeOK
  <2>1. ASSUME NEW f \in Files, NEW p \in Paths
        PROVE  file[f][p].time \in 0 .. clock
    <3>1. file[f][p] \in Copies(f, clock) /\ clock \in Nat
      BY <1>1 DEF Shape, DiskInv
    <3>2. CASE file[f][p] = Absent
      BY <3>1, <3>2 DEF Absent
    <3>3. CASE file[f][p] # Absent
      BY <3>1, <3>3 DEF Copies
    <3> QED
      BY <3>2, <3>3
  <2> QED
    BY <1>1, <2>1 DEF TypeOK, Shape, StoreInv, JobInv, Ordered
<1> QED
  BY <1>1, ShapeAlways, PTL

-----------------------------------------------------------------------------
(* The copies that are or may come back: what is on disk, what was captured, and  *)
(* what the journal would restore.                                                *)

Known(f, p, c) ==
    \/ c = file[f][p]
    \/ Captured /\ Target.file = f /\ c = job.before[p]
    \/ /\ job # NoJob
       /\ \E i \in DOMAIN job.journal :
             job.journal[i].file = f /\ job.journal[i].path = p /\ job.journal[i].before = c

LEMMA KnownIsTyped ==
    ASSUME Shape, NEW f \in Files, NEW p \in Paths, NEW c, Known(f, p, c)
    PROVE  c \in Copies(f, clock) /\ c.time \in Nat /\ c.time <= clock
<1>1. c \in Copies(f, clock)
  <2>1. CASE c = file[f][p]
    BY <2>1 DEF Shape, DiskInv
  <2>2. CASE Captured /\ Target.file = f /\ c = job.before[p]
    <3>1. job # NoJob
      BY <2>2 DEF Captured, NoJob
    <3> QED
      BY <2>2, <3>1 DEF Shape, JobInv
  <2>3. CASE job # NoJob /\ \E i \in DOMAIN job.journal :
             job.journal[i].file = f /\ job.journal[i].path = p /\ job.journal[i].before = c
    BY <2>3 DEF Shape, JobInv
  <2> QED
    BY <2>1, <2>2, <2>3 DEF Known
<1> QED
  BY <1>1 DEF Copies, Absent, Shape, DiskInv

\* A step makes no copy known that was not, except the one that it writes.
LEMMA KnownGrows ==
    ASSUME Shape, Next, NEW f \in Files, NEW p \in Paths, NEW c, Known(f, p, c)'
    PROVE  \/ Known(f, p, c)
           \/ Write /\ f = Target.file /\ c = [text |-> Expected, time |-> clock + 1]
           \/ Outside(f) /\ p = 0 /\ c = file'[f][0] /\ c.time = clock + 1
<1>0. Shape' /\ file \in [Files -> [Paths -> AnyCopies]]
  BY ShapeHolds DEF Shape, DiskInv
<1>1. CASE \E u \in Uploads : Preview(u.book, u.kind)
  <2>1. UNCHANGED <<file, job>>
    BY <1>1 DEF Preview, disk
  <2> QED
    BY <2>1 DEF Known, Captured, Target, Entry
<1>2. CASE \E e \in ToSet(store) : Begin(e)
  <2>1. file' = file /\ job'.step = "open" /\ job'.journal = <<>>
    BY <1>2, BeginShape DEF Begin, disk
  <2>2. DOMAIN job'.journal = {}
    BY <2>1
  <2> QED
    BY <2>1, <2>2 DEF Known, Captured
<1>3. CASE Open
  <2>1. /\ file' = file /\ job # NoJob /\ job'.journal = job.journal
        /\ Target' = Target /\ job'.before = file[Target.file]
    BY <1>3, OpenEffect, JobsWork DEF Open, disk
  <2> QED
    BY <2>1 DEF Known
<1>4. CASE Write
  <2>1. /\ job # NoJob /\ Captured /\ Target' = Target /\ Target.file \in Files
        /\ job'.before = job.before /\ job'.journal = job.journal
    <3>1. job \in Jobs /\ job' = [job EXCEPT !.step = "close", !.error = job'.error]
      BY <1>4, WriteShape
    <3>2. job'.before = job.before /\ job'.journal = job.journal
      BY <3>1 DEF Jobs
    <3> QED
      BY <1>4, <3>2, WriteShape, Working, JobsWork DEF Shape, Write, Captured
  <2>2. CASE file' = file
    BY <2>1, <2>2 DEF Known
  <2>3. ASSUME NEW q \in Paths,
               file' = [file EXCEPT ![Target.file] = [@ EXCEPT ![q] = [text |-> Expected, time |-> clock + 1]]]
        PROVE  Known(f, p, c) \/ (f = Target.file /\ c = [text |-> Expected, time |-> clock + 1])
    <3>1. file'[f][p] = IF f = Target.file /\ p = q THEN [text |-> Expected, time |-> clock + 1]
                                                  ELSE file[f][p]
      BY <1>0, <2>1, <2>3
    <3> QED
      BY <2>1, <3>1 DEF Known
  <2> QED
    BY <1>4, <2>2, <2>3, WriteEffect
<1>5. CASE Refuse
  <2>1. job \in Jobs /\ job' = [job EXCEPT !.step = "close", !.error = job'.error]
    BY <1>5, RefuseShape
  <2>2. /\ job # NoJob /\ Captured /\ Target' = Target /\ file' = file
        /\ job'.before = job.before /\ job'.journal = job.journal
    BY <1>5, <2>1, RefuseShape, JobsWork DEF Refuse, Captured, disk, Jobs
  <2> QED
    BY <2>2 DEF Known
<1>6. CASE Advance \/ Fail
  <2>1. PICK next \in {"open", "done", "undo"} :
           job.step = "close" /\ Close(next) /\ (next = "open" => job.at < Len(Todo(Entry)))
    BY <1>6 DEF Advance, Fail
  <2>2. /\ job \in Jobs /\ job # NoJob /\ ~Captured' /\ file' = file /\ Captured
        /\ job'.journal = IF Atomic THEN job.journal \o Records ELSE job.journal
    BY <2>1, CloseEffect, Working DEF Shape, Close, Captured, disk
  <2>3. CASE c = file[f][p]
    BY <2>3 DEF Known
  <2>4. ASSUME NEW i \in DOMAIN job'.journal, job'.journal[i].file = f, job'.journal[i].path = p,
               job'.journal[i].before = c
        PROVE  Known(f, p, c)
    <3>1. CASE ~Atomic
      BY <2>2, <2>4, <3>1 DEF Known
    <3>2. CASE Atomic
      <4> DEFINE k == Len(job.journal)
      <4>1. /\ job.journal \in Seq(Notes) /\ Records \in Seq(Notes) /\ k \in Nat
            /\ job'.journal = job.journal \o Records
        BY <2>2, <3>2, RecordsShape DEF Jobs
      <4>2. i \in 1 .. (k + Len(Records))
            /\ job'.journal[i] = IF i <= k THEN job.journal[i] ELSE Records[i - k]
        BY <4>1, ConcatProperties, LenProperties
      <4>3. CASE i <= k
        <5>1. i \in DOMAIN job.journal /\ job'.journal[i] = job.journal[i]
          BY <4>1, <4>2, <4>3
        <5> QED
          BY <2>2, <2>4, <5>1 DEF Known
      <4>4. CASE ~(i <= k)
        <5>1. i - k \in 1 .. Len(Records) /\ job'.journal[i] = Records[i - k]
          BY <4>1, <4>2, <4>4
        <5>2. /\ Records[i - k].file = Target.file
              /\ Records[i - k].before = job.before[Records[i - k].path]
          BY <2>2, <5>1, RecordsShape
        <5> QED
          BY <2>2, <2>4, <5>1, <5>2 DEF Known
      <4> QED
        BY <4>3, <4>4
    <3> QED
      BY <3>1, <3>2
  <2> QED
    BY <2>2, <2>3, <2>4 DEF Known
<1>7. CASE Undo
  <2>1. /\ job \in Jobs /\ job # NoJob /\ Record = job.journal[Len(job.journal)] /\ Record \in Notes
        /\ job'.journal = Front(job.journal) /\ job'.step = "undo"
        /\ \/ file' = [file EXCEPT ![Record.file] = [@ EXCEPT ![Record.path] = Record.before]]
           \/ file' = file
    BY <1>7, UndoEffect, JobsWork
  <2>2. job.journal \in Seq(Notes) /\ job.journal # <<>>
    BY <1>7, UndoEffect
  <2> DEFINE n == Len(job.journal)
  <2>3. /\ n \in 1 .. n /\ n \in Nat
        /\ \A i \in 1 .. (n - 1) : Front(job.journal)[i] = job.journal[i] /\ i \in 1 .. n
        /\ DOMAIN job.journal = 1 .. n /\ DOMAIN Front(job.journal) = 1 .. (n - 1)
    BY <2>2, LastNote
  <2>4. c = file'[f][p] => c = file[f][p] \/ (f = Record.file /\ p = Record.path /\ c = Record.before)
    BY <1>0, <2>1 DEF Notes
  <2>5. ASSUME c = file'[f][p] PROVE Known(f, p, c)
    BY <2>1, <2>3, <2>4, <2>5 DEF Known
  <2>6. ASSUME NEW i \in DOMAIN job'.journal, job'.journal[i].file = f, job'.journal[i].path = p,
               job'.journal[i].before = c
        PROVE  Known(f, p, c)
    BY <2>1, <2>3, <2>6 DEF Known
  <2> QED
    BY <2>1, <2>5, <2>6 DEF Known, Captured
<1>8. CASE Applied \/ Failed \/ RestoreFails \/ Stop
  <2>1. job' = NoJob /\ file' = file
    BY <1>8 DEF Applied, Failed, RestoreFails, Stop, disk
  <2>2. ~Captured'
    BY <2>1 DEF Captured, NoJob
  <2> QED
    BY <2>1, <2>2 DEF Known
<1>9. CASE Agree
  <2>1. job # NoJob /\ ~Captured' /\ job'.journal = job.journal /\ file' = file
    BY <1>9, AgreeEffect, JobsWork
  <2> QED
    BY <2>1 DEF Known
<1>10. ASSUME NEW g \in Files, Outside(g)
      PROVE  Known(f, p, c) \/ (Outside(f) /\ p = 0 /\ c = file'[f][0] /\ c.time = clock + 1)
  <2>1. PICK t \in TextsOf(g) :
           file' = [file EXCEPT ![g] = [@ EXCEPT ![0] = [text |-> t, time |-> clock + 1]]]
    BY <1>10, OutsideEffect
  <2>2. 0 \in Paths /\ job' = job
    BY <1>10, DataFilesAssumption DEF Paths, Outside
  <2>3. file'[f][p] = IF f = g /\ p = 0 THEN [text |-> t, time |-> clock + 1] ELSE file[f][p]
    BY <1>0, <2>1, <2>2
  <2> QED
    BY <1>10, <2>2, <2>3 DEF Known, Captured, Target, Entry
<1> QED
  BY <1>1, <1>2, <1>3, <1>4, <1>5, <1>6, <1>7, <1>8, <1>9, <1>10 DEF Next, Agree, Undo

-----------------------------------------------------------------------------
(* What a preview saw of a file: a path and a time name one text for good.       *)

Saw(e, f) == \A p \in Paths : \A c : Known(f, p, c) /\ e.version[f] = <<p, c.time>> => c.text = e.seen[f]
SeenInv ==
    \A n \in DOMAIN store : \A f \in Files \ Untracked :
       /\ store[n].version[f][2] <= clock
       /\ Saw(store[n], f)

\* A preview in the store was there before or is being made.
LEMMA StoreGrows ==
    ASSUME Shape, Next, NEW n \in DOMAIN store'
    PROVE  \/ \E m \in DOMAIN store : store'[n] = store[m]
           \/ /\ job = NoJob /\ UNCHANGED <<file, job, clock, torn, answer>>
              /\ \E u \in Uploads :
                    store'[n] = [id |-> previews + 1, book |-> u.book, kind |-> u.kind, version |-> Version,
                                 conflict |-> Audited(u.book, u.kind) \in Clashes,
                                 seen |-> [f \in Files |-> Read(file[f])]]
<1>1. store \in Seq(Entries) /\ Len(store) \in Nat /\ DOMAIN store = 1 .. Len(store)
  BY DEF Shape, StoreInv, Ordered
<1>2. ASSUME NEW u \in Uploads, Preview(u.book, u.kind)
      PROVE  \/ \E m \in DOMAIN store : store'[n] = store[m]
             \/ store'[n] = [id |-> previews + 1, book |-> u.book, kind |-> u.kind, version |-> Version,
                             conflict |-> Audited(u.book, u.kind) \in Clashes,
                             seen |-> [f \in Files |-> Read(file[f])]]
  <2> DEFINE e == [id |-> previews + 1, book |-> u.book, kind |-> u.kind, version |-> Version,
                   conflict |-> Audited(u.book, u.kind) \in Clashes,
                   seen |-> [f \in Files |-> Read(file[f])]]
             all == Append(store, e)
             S == Entries \cup {e}
             k == Len(store)
  <2>1. store' = Put(e)
    BY <1>2 DEF Preview
  <2> HIDE DEF e
  <2>2. store \in Seq(S)
    BY <1>1, SeqMonotonic
  <2>3. /\ all \in Seq(S) /\ all # <<>> /\ Len(all) = k + 1 /\ k \in Nat
        /\ \A i \in 1 .. k : all[i] = store[i]
        /\ all[k + 1] = e
    BY <1>1, <2>2, AppendProperties
  <2>4. \A i \in 1 .. (k + 1) : i \in 1 .. k \/ i = k + 1
    BY <2>3
  <2> HIDE DEF all, k
  <2>5. \A i \in 1 .. (k + 1) : all[i] = e \/ \E m \in 1 .. k : all[i] = store[m]
    BY <2>3, <2>4
  <2>6. CASE store' = all
    <3>1. n \in 1 .. (k + 1)
      BY <2>3, <2>6
    <3> QED
      BY <1>1, <2>5, <2>6, <3>1 DEF e, k
  <2>7. CASE store' = Tail(all)
    <3>1. /\ Tail(all) \in Seq(S) /\ Len(Tail(all)) = k
          /\ \A i \in 1 .. k : Tail(all)[i] = all[i + 1] /\ i + 1 \in 1 .. (k + 1)
      BY <2>3, HeadTailProperties
    <3>2. n \in 1 .. k
      BY <2>7, <3>1
    <3>3. store'[n] = all[n + 1] /\ n + 1 \in 1 .. (k + 1)
      BY <2>7, <3>1, <3>2
    <3>4. store'[n] = e \/ \E m \in 1 .. k : store'[n] = store[m]
      BY <2>5, <3>3
    <3> QED
      BY <1>1, <3>4 DEF e, k
  <2> QED
    BY <2>1, <2>6, <2>7 DEF Put, all
<1>3. CASE Applied
  <2>1. PICK m \in DOMAIN store : store' = RemoveAt(store, m)
    BY <1>3 DEF Applied
  <2> DEFINE k == Len(store)
  <2>2. /\ store' \in Seq(Entries) /\ Len(store') = k - 1 /\ k \in Nat
        /\ \A i \in 1 .. (k - 1) : store'[i] = IF i < m THEN store[i] ELSE store[i + 1]
        /\ DOMAIN store = 1 .. k
    BY <1>1, <2>1, Removed
  <2> HIDE DEF k
  <2>3. n \in 1 .. (k - 1) /\ n \in 1 .. k /\ n + 1 \in 1 .. k
    BY <2>2
  <2> QED
    BY <2>2, <2>3
<1>4. CASE Stop
  BY <1>4, EmptySeq DEF Stop
<1>5. CASE \/ \E e \in ToSet(store) : Begin(e)
           \/ Open \/ Write \/ Refuse \/ Advance \/ Fail \/ Compare \/ Restore \/ Failed
           \/ RestoreFails \/ \E f \in Files : Outside(f)
  <2>1. store' = store
    BY <1>5 DEF Begin, Open, Write, Refuse, Advance, Fail, Close, Compare, Restore, Failed, RestoreFails, Outside
  <2> QED
    BY <2>1
<1>6. ASSUME NEW u \in Uploads, Preview(u.book, u.kind)
      PROVE  job = NoJob /\ UNCHANGED <<file, job, clock, torn, answer>>
  BY <1>6 DEF Preview, disk
<1> QED
  BY <1>2, <1>3, <1>4, <1>5, <1>6 DEF Next

LEMMA SeenHolds ==
    ASSUME Shape, SeenInv, [Next]_vars
    PROVE  SeenInv'
<1>1. CASE UNCHANGED vars
  BY <1>1 DEF vars, disk, counts, SeenInv, Saw, Known, Captured, Target, Entry
<1>2. CASE Next
  <2>1. clock \in Nat /\ clock' \in Nat /\ clock <= clock'
    <3>1. clock' \in {clock, clock + 1}
      BY <1>2 DEF Next, Preview, Begin, Open, Write, Refuse, Advance, Fail, Close, Applied, Compare,
                  Restore, Failed, RestoreFails, Outside, Stop, disk
    <3> QED
      BY <3>1 DEF Shape, DiskInv
  <2> SUFFICES ASSUME NEW n \in DOMAIN store', NEW f \in Files \ Untracked
               PROVE  store'[n].version[f][2] <= clock' /\ Saw(store[n], f)'
    BY DEF SeenInv
  <2>2. ASSUME NEW m \in DOMAIN store, store'[n] = store[m]
        PROVE  store'[n].version[f][2] <= clock' /\ Saw(store[n], f)'
    <3>1. store[m].version[f] \in Paths \X Nat
      <4>1. store[m] \in Entries
        BY DEF Shape, StoreInv, Ordered
      <4> QED
        BY <4>1 DEF Entries
    <3>2. store[m].version[f][2] \in Nat /\ store[m].version[f][2] <= clock /\ Saw(store[m], f)
      BY <3>1 DEF SeenInv
    <3>3. ASSUME NEW p \in Paths, NEW c, Known(f, p, c)', store[m].version[f] = <<p, c.time>>
          PROVE  c.text = store[m].seen[f]
      <4>1. c.time = store[m].version[f][2]
        BY <3>3
      <4>2. c.time # clock + 1
        BY <2>1, <3>2, <4>1
      <4>3. Known(f, p, c)
        BY <1>2, <3>3, <4>2, KnownGrows
      <4> QED
        BY <3>2, <3>3, <4>3 DEF Saw
    <3> QED
      BY <2>1, <2>2, <3>2, <3>3 DEF Saw
  <2>3. ASSUME job = NoJob, UNCHANGED <<file, job, clock>>,
               store'[n].version = Version, store'[n].seen = [g \in Files |-> Read(file[g])]
        PROVE  store'[n].version[f][2] <= clock' /\ Saw(store[n], f)'
    <3>1. store'[n].version[f] = Stamp(file[f])
      BY <2>3, Readable DEF Shape
    <3>2. Selected(file[f]) \in Paths
      BY Readable, SelectedIsNewest DEF Shape
    <3>3. file[f][Selected(file[f])].time <= clock
      <4>1. Known(f, Selected(file[f]), file[f][Selected(file[f])])
        BY DEF Known
      <4> QED
        BY <3>2, <4>1, KnownIsTyped
    <3>4. ASSUME NEW p \in Paths, NEW c, Known(f, p, c)', Stamp(file[f]) = <<p, c.time>>
          PROVE  c.text = Read(file[f])
      <4>1. p = Selected(file[f])
        BY <3>4 DEF Stamp
      <4>2. c = file[f][p]
        BY <2>3, <3>4 DEF Known, Captured, NoJob
      <4> QED
        BY <4>1, <4>2 DEF Read
    <3> QED
      BY <2>3, <3>1, <3>3, <3>4 DEF Saw, Stamp
  <2> QED
    BY <1>2, <2>2, <2>3, StoreGrows
<1> QED
  BY <1>1, <1>2

LEMMA SeenAlways == Spec => []SeenInv
<1>1. Init => SeenInv
  BY EmptySeq DEF Init, SeenInv
<1> QED
  BY <1>1, SeenHolds, ShapeAlways, PTL DEF Spec

\* While the workspace has the version of a preview, its files read as they did then.
LEMMA ReadsAsSeen ==
    ASSUME Shape, SeenInv, NEW n \in DOMAIN store, store[n].version = Version
    PROVE  \A f \in Files \ Untracked : Read(file[f]) = store[n].seen[f]
<1> SUFFICES ASSUME NEW f \in Files \ Untracked
             PROVE  Read(file[f]) = store[n].seen[f]
  OBVIOUS
<1>1. store[n].version[f] = Stamp(file[f]) /\ Selected(file[f]) \in Paths
  BY Readable, SelectedIsNewest DEF Shape
<1>2. Known(f, Selected(file[f]), file[f][Selected(file[f])])
  BY DEF Known
<1> QED
  BY <1>1, <1>2 DEF SeenInv, Saw, Stamp, Read

\* An import that answers "failed" leaves the tracked files reading as the preview saw
\* them: a copy that has the path and the time of then has the text of then, whatever
\* was written, restored and written by others in between.
THEOREM FailedIsHarmless == Spec => FailedChangedNothing
<1> DEFINE Harmless == answer' # answer /\ answer'.what = "failed" =>
              \A f \in Files \ Untracked : Read(file[f]) = Entry.seen[f]
<1>1. ASSUME Shape, SeenInv, Next
      PROVE  Harmless
  <2>1. SUFFICES ASSUME answer' # answer, answer'.what = "failed"
                 PROVE  \A f \in Files \ Untracked : Read(file[f]) = Entry.seen[f]
    OBVIOUS
  <2>2. Failed /\ Verdict = "failed"
    <3>1. CASE Applied
      BY <2>1, <3>1 DEF Applied
    <3>2. CASE RestoreFails
      BY <2>1, <3>2 DEF RestoreFails
    <3>3. CASE \E e \in ToSet(store) : Begin(e)
      BY <2>1, <3>3 DEF Begin, NoAnswer
    <3>4. CASE Failed
      BY <2>1, <3>4 DEF Failed
    <3>5. ~(\E u \in Uploads : Preview(u.book, u.kind)) /\ ~(Open \/ Write \/ Refuse \/ Advance \/ Fail \/ Compare \/ Restore)
          /\ ~(\E f \in Files : Outside(f)) /\ ~Stop
      BY <2>1 DEF Preview, Open, Write, Refuse, Advance, Fail, Close, Compare, Restore, Outside, Stop
    <3> QED
      BY <1>1, <3>1, <3>2, <3>3, <3>4, <3>5 DEF Next
  <2>3. Entry.version = Version
    BY <2>2 DEF Verdict
  <2>4. job # NoJob
    BY <1>1, <2>2, Working DEF Shape, Failed
  <2>5. PICK n \in DOMAIN store : store[n] = Entry
    BY <1>1, <2>4 DEF Shape, JobInv
  <2> QED
    BY <1>1, <2>3, <2>5, ReadsAsSeen
<1>2. Shape /\ SeenInv /\ [Next]_vars => [Harmless]_vars
  BY <1>1
<1> QED
  BY <1>2, ShapeAlways, SeenAlways, PTL DEF Spec, FailedChangedNothing

-----------------------------------------------------------------------------
(* Marks of the session: who saved it last.                                      *)

Mark0 == file[Session][0].text.mark

\* The copies of the session but for the primary one.
Others(p, c) ==
    \/ p # 0 /\ c = file[Session][p]
    \/ \E i \in DOMAIN job.journal :
          job.journal[i].file = Session /\ job.journal[i].path = p /\ job.journal[i].before = c

\* A rollback rewrites the primary copy.
Slip == Restore /\ Place(Record) = <<Session, 0>>

MarkInv ==
    \* A later copy of the session never has an earlier mark.
    /\ \A p, q \in Paths : \A x, y :
          Known(Session, p, x) /\ Known(Session, q, y) /\ x # Absent /\ y # Absent /\ x.time <= y.time
             => x.text.mark <= y.text.mark
    \* The primary copy has the latest mark, and its records keep it.
    /\ \A p \in Paths : \A x : Known(Session, p, x) /\ x # Absent => x.text.mark <= Mark0
    /\ Mark0 <= outside
    /\ job # NoJob => \A i \in DOMAIN job.journal :
          LET r == job.journal[i]
          IN  r.file = Session /\ r.path = 0 => r.before.text.mark = r.after.text.mark
    \* The rows that were read are those that were captured, unless a save came since.
    /\ Captured /\ ~AtMaster => job.rows.mark = job.before[0].text.mark
    /\ job.step = "write" /\ ~AtMaster =>
          \/ file[Session] = job.before
          \/ \E q \in Paths : \A p \in Paths : job.before[p].time < file[Session][q].time
    \* Once the primary copy was found unchanged, what it is to be again has the latest
    \* mark of the other copies, whatever is saved over it in the meantime.
    /\ job.step = "restore" /\ Place(Record) = <<Session, 0>> =>
          \A p \in Paths : \A x : Others(p, x) /\ x # Absent => x.text.mark <= Record.before.text.mark

LEMMA SessionCopy ==
    ASSUME Shape, NEW p \in Paths, NEW c, Known(Session, p, c), c # Absent
    PROVE  c.text \in RowsOf /\ c.text.mark \in Nat /\ c.time \in Nat /\ c.time <= clock
<1>1. Session \in Files
  BY DEF Files
<1>2. c \in Copies(Session, clock) /\ c.time \in Nat /\ c.time <= clock
  BY <1>1, KnownIsTyped
<1> QED
  BY <1>2 DEF Copies, TextsOf, RowsOf

LEMMA Mark0Type ==
    ASSUME Shape
    PROVE  /\ Session \in Files /\ 0 \in Paths /\ Known(Session, 0, file[Session][0])
           /\ file[Session][0] # Absent /\ Mark0 \in Nat /\ outside \in Nat /\ clock \in Nat
<1>1. 0 \in Paths /\ Session \in Files /\ Known(Session, 0, file[Session][0])
  BY DataFilesAssumption DEF Paths, Files, Known
<1>2. file[Session][0] # Absent /\ outside \in Nat /\ clock \in Nat
  BY DEF Shape, DiskInv, StoreInv
<1> QED
  BY <1>1, <1>2, SessionCopy DEF Mark0

\* A read of the session returns the latest mark, whichever copy it selects.
LEMMA ReadMark ==
    ASSUME Shape, MarkInv
    PROVE  Rows.mark = Mark0
<1> DEFINE d == file[Session]
           s == Selected(d)
<1>1. Disk(d) /\ 0 \in Paths /\ d[0] # Absent /\ Mark0 \in Nat
  BY Mark0Type, Readable DEF Shape
<1>2. s \in Paths /\ d[0].time <= d[s].time
  BY <1>1, SelectedIsNewest
<1>3. d[0].time \in Nat /\ d[s].time \in Nat /\ d[0].time # 0
  BY <1>1, <1>2 DEF Disk, AnyCopies
<1>4. d[s] # Absent
  BY <1>1, <1>2, <1>3 DEF Disk
<1>5. Known(Session, s, d[s]) /\ Known(Session, 0, d[0])
  BY DEF Known
<1>6. d[s].text.mark \in Nat
  BY <1>2, <1>4, <1>5, SessionCopy
<1>7. Mark0 <= d[s].text.mark /\ d[s].text.mark <= Mark0
  <2> HIDE DEF s, d
  <2>1. d[s].text.mark <= Mark0
    BY <1>2, <1>4, <1>5 DEF MarkInv
  <2>2. d[0].text.mark <= d[s].text.mark
    BY <1>1, <1>2, <1>4, <1>5 DEF MarkInv
  <2> QED
    BY <2>1, <2>2 DEF Mark0, d
<1> QED
  BY <1>1, <1>6, <1>7 DEF Rows, Read

\* A save of an import writes the mark that is on disk: otherwise the revision differs.
LEMMA WriteMark ==
    ASSUME Shape, MarkInv, Write, ~AtMaster
    PROVE  Expected.mark = Mark0
<1> DEFINE d == file[Session]
           b == job.before
<1>1. /\ job \in Jobs /\ job # NoJob /\ job.step = "write" /\ Captured /\ Stamp(d) = Stamp(b)
      /\ Target \in Pieces /\ Target.file = Session
  BY Working DEF Shape, Write, Unchanged, Captured, AtMaster
<1>2. Disk(d)
  BY Mark0Type, Readable DEF Shape
<1>3. job.rows \in RowsOf /\ Expected = Uploaded
  BY <1>1 DEF Shape, JobInv, Expected
<1>4. Expected.mark = job.rows.mark
  BY <1>1, <1>3 DEF Uploaded, RowsOf, Pieces
<1>5. job.rows.mark = b[0].text.mark
  BY <1>1 DEF MarkInv
<1>6. CASE d = b
  BY <1>4, <1>5, <1>6 DEF Mark0
<1>7. CASE d # b
  <2>1. PICK q \in Paths : \A p \in Paths : b[p].time < d[q].time
    BY <1>1, <1>7 DEF MarkInv
  <2>2. Selected(d) \in Paths /\ d[q].time <= d[Selected(d)].time
    BY <1>2, SelectedIsNewest
  <2>3. Selected(d) = Selected(b) /\ d[Selected(d)].time = b[Selected(b)].time
    BY <1>1 DEF Stamp
  <2>4. b[Selected(b)].time < d[q].time
    BY <2>1, <2>2, <2>3
  <2>5. d[q].time \in Nat /\ d[Selected(d)].time \in Nat
    BY <1>2, <2>2 DEF Disk, AnyCopies
  <2> QED
    BY <2>2, <2>3, <2>4, <2>5
<1> QED
  BY <1>6, <1>7

\* The latest mark never goes back but by a rollback.
LEMMA MarkGrows ==
    ASSUME Shape, MarkInv, Next, ~Slip
    PROVE  Mark0' \in Nat /\ Mark0 <= Mark0' /\ Mark0' <= outside'
<1>0. /\ Shape' /\ Mark0 \in Nat /\ Mark0 <= outside /\ outside \in Nat /\ Mark0' \in Nat
      /\ file \in [Files -> [Paths -> AnyCopies]] /\ Session \in Files /\ 0 \in Paths
  <2>1. Shape'
    BY ShapeHolds
  <2>2. Mark0 \in Nat /\ outside \in Nat /\ Session \in Files /\ 0 \in Paths
    BY Mark0Type
  <2>3. file'[Session][0] # Absent /\ file'[Session][0] \in Copies(Session, clock')
    BY <2>1, <2>2 DEF Shape, DiskInv
  <2>4. Mark0' \in Nat
    BY <2>3 DEF Copies, TextsOf, RowsOf, Mark0
  <2> QED
    BY <2>1, <2>2, <2>4 DEF Shape, DiskInv, MarkInv
<1>1. CASE UNCHANGED file /\ UNCHANGED outside
  BY <1>0, <1>1 DEF Mark0
<1>2. CASE Write
  <2>1. outside' = outside /\ Target.file \in Files
    BY <1>2, Working DEF Write, Shape
  <2>2. CASE file' = file
    BY <1>1, <2>1, <2>2
  <2>3. ASSUME NEW q \in Paths,
               file' = [file EXCEPT ![Target.file] = [@ EXCEPT ![q] = [text |-> Expected, time |-> clock + 1]]]
        PROVE  Mark0' = Mark0
    <3>1. CASE Target.file = Session /\ q = 0
      <4>1. file'[Session][0] = [text |-> Expected, time |-> clock + 1]
        BY <1>0, <2>3, <3>1
      <4> QED
        BY <1>2, <3>1, <4>1, WriteMark DEF Mark0, AtMaster
    <3>2. CASE ~(Target.file = Session /\ q = 0)
      <4>1. file'[Session][0] = file[Session][0]
        BY <1>0, <2>3, <3>2
      <4> QED
        BY <4>1 DEF Mark0
    <3> QED
      BY <3>1, <3>2
  <2>4. file' = file \/ Mark0' = Mark0
    BY <1>2, <2>3, WriteEffect
  <2> QED
    BY <1>0, <2>1, <2>2, <2>4
<1>3. CASE Undo
  <2>1. outside' = outside /\ Record \in Notes
    BY <1>3, UndoEffect DEF counts
  <2>2. CASE Restore /\ file' = [file EXCEPT ![Record.file] = [@ EXCEPT ![Record.path] = Record.before]]
    <3>1. ~(Record.file = Session /\ Record.path = 0)
      BY <2>2 DEF Slip, Place
    <3>2. file'[Session][0] = file[Session][0]
      BY <1>0, <2>1, <2>2, <3>1
    <3> QED
      BY <1>0, <2>1, <3>2 DEF Mark0
  <2> QED
    BY <1>1, <1>3, <2>1, <2>2, UndoEffect
<1>4. ASSUME NEW g \in Files, Outside(g)
      PROVE  Mark0 <= Mark0' /\ Mark0' <= outside'
  <2>1. PICK t \in TextsOf(g) :
           /\ file' = [file EXCEPT ![g] = [@ EXCEPT ![0] = [text |-> t, time |-> clock + 1]]]
           /\ g = Session => t = [Rows EXCEPT !.mark = outside + 1]
    BY <1>4, OutsideEffect
  <2>2. outside' = outside + 1
    BY <1>4 DEF Outside
  <2>3. CASE g = Session
    <3>1. file'[Session][0] = [text |-> t, time |-> clock + 1]
      BY <1>0, <2>1, <2>3
    <3>2. t.mark = outside + 1
      BY <2>1, <2>3, Readable DEF Shape, RowsOf
    <3> QED
      BY <1>0, <2>2, <3>1, <3>2 DEF Mark0
  <2>4. CASE g # Session
    <3>1. file'[Session][0] = file[Session][0]
      BY <1>0, <2>1, <2>4
    <3> QED
      BY <1>0, <2>2, <3>1 DEF Mark0
  <2> QED
    BY <2>3, <2>4
<1>5. CASE \/ \E u \in Uploads : Preview(u.book, u.kind)
           \/ \E e \in ToSet(store) : Begin(e)
           \/ Open \/ Refuse \/ Advance \/ Fail \/ Applied \/ Agree \/ Failed \/ RestoreFails \/ Stop
  BY <1>1, <1>5 DEF Preview, Begin, Open, Refuse, Advance, Fail, Close, Applied, Agree, Compare, Failed,
                    RestoreFails, Stop, disk, counts
<1> QED
  BY <1>0, <1>2, <1>3, <1>4, <1>5 DEF Next, Agree, Undo

\* Every copy of the session that becomes known has one mark, between the latest ones.
LEMMA NewMark ==
    ASSUME Shape, MarkInv, Next, ~Slip
    PROVE  \E m \in Nat :
              /\ Mark0 <= m /\ m <= Mark0'
              /\ \A p \in Paths : \A c : Known(Session, p, c)' /\ c # Absent =>
                    /\ c.text.mark \in Nat /\ c.time \in Nat
                    /\ \/ Known(Session, p, c) /\ c.time <= clock /\ c.text.mark <= Mark0
                       \/ c.time = clock + 1 /\ c.text.mark = m
<1>0. /\ Mark0 \in Nat /\ Mark0' \in Nat /\ Mark0 <= Mark0' /\ Session \in Files /\ clock \in Nat
  BY Mark0Type, MarkGrows
<1>1. ASSUME NEW p \in Paths, NEW c, Known(Session, p, c)', c # Absent
      PROVE  \/ /\ Known(Session, p, c) /\ c.time <= clock /\ c.text.mark <= Mark0
                /\ c.text.mark \in Nat /\ c.time \in Nat
             \/ Write /\ c.time = clock + 1 /\ c.text.mark = Mark0
             \/ Outside(Session) /\ c.time = clock + 1 /\ c.text.mark = Mark0'
  <2>1. CASE Known(Session, p, c)
    <3>1. c.text.mark \in Nat /\ c.time \in Nat /\ c.time <= clock
      BY <1>1, <2>1, SessionCopy
    <3>2. c.text.mark <= Mark0
      BY <1>1, <2>1 DEF MarkInv
    <3> QED
      BY <2>1, <3>1, <3>2
  <2>2. CASE Write /\ Session = Target.file /\ c = [text |-> Expected, time |-> clock + 1]
    BY <2>2, WriteMark DEF AtMaster
  <2>3. CASE Outside(Session) /\ p = 0 /\ c = file'[Session][0] /\ c.time = clock + 1
    BY <2>3 DEF Mark0
  <2> QED
    BY <1>0, <1>1, <2>1, <2>2, <2>3, KnownGrows
<1>2. CASE Write
  <2>1. ~Outside(Session)
    <3>1. job'.step = "close" /\ job.step = "write"
      BY <1>2, WriteShape DEF Write
    <3> QED
      BY <3>1 DEF Outside
  <2> QED
    BY <1>0, <1>1, <2>1
<1>3. CASE ~Write
  BY <1>0, <1>1, <1>3
<1> QED
  BY <1>2, <1>3

LEMMA MarksHold ==
    ASSUME Shape, MarkInv, Next, ~Slip
    PROVE  MarkInv'
<1>0. /\ Shape' /\ Mark0 \in Nat /\ Mark0' \in Nat /\ outside \in Nat /\ Mark0 <= outside
      /\ Mark0 <= Mark0' /\ Mark0' <= outside' /\ Session \in Files /\ 0 \in Paths /\ clock \in Nat
      /\ file \in [Files -> [Paths -> AnyCopies]]
  BY ShapeHolds, Mark0Type, MarkGrows DEF MarkInv, Shape, DiskInv
<1>1. PICK m \in Nat :
         /\ Mark0 <= m /\ m <= Mark0'
         /\ \A p \in Paths : \A c : Known(Session, p, c)' /\ c # Absent =>
               /\ c.text.mark \in Nat /\ c.time \in Nat
               /\ \/ Known(Session, p, c) /\ c.time <= clock /\ c.text.mark <= Mark0
                  \/ c.time = clock + 1 /\ c.text.mark = m
  BY NewMark
<1>2. ASSUME NEW p \in Paths, NEW q \in Paths, NEW x, NEW y, Known(Session, p, x)', Known(Session, q, y)',
             x # Absent, y # Absent, x.time <= y.time
      PROVE  x.text.mark <= y.text.mark
  <2>1. x.text.mark \in Nat /\ y.text.mark \in Nat /\ x.time \in Nat /\ y.time \in Nat
    BY <1>1, <1>2
  <2>2. CASE y.time = clock + 1 /\ y.text.mark = m
    BY <1>0, <1>1, <1>2, <2>1, <2>2
  <2>3. CASE Known(Session, q, y) /\ y.time <= clock
    <3>1. Known(Session, p, x)
      BY <1>0, <1>1, <1>2, <2>1, <2>3
    <3> QED
      BY <1>2, <2>3, <3>1 DEF MarkInv
  <2> QED
    BY <1>1, <1>2, <2>2, <2>3
<1>3. ASSUME NEW p \in Paths, NEW x, Known(Session, p, x)', x # Absent
      PROVE  x.text.mark <= Mark0'
  <2>1. x.text.mark \in Nat /\ (x.text.mark <= Mark0 \/ x.text.mark = m)
    BY <1>1, <1>3
  <2> QED
    BY <1>0, <1>1, <2>1
<1>4. ASSUME job' # NoJob, NEW i \in DOMAIN job'.journal, job'.journal[i].file = Session,
             job'.journal[i].path = 0
      PROVE  job'.journal[i].before.text.mark = job'.journal[i].after.text.mark
  <2>1. CASE UNCHANGED job
    BY <1>4, <2>1 DEF MarkInv
  <2>2. CASE \E e \in ToSet(store) : Begin(e)
    <3>1. job'.journal = <<>>
      BY <2>2, BeginShape
    <3> QED
      BY <1>4, <3>1
  <2>3. CASE Open \/ Write \/ Refuse
    <3>1. job'.journal = job.journal /\ job # NoJob
      BY <2>3, OpenEffect, WriteShape, RefuseShape, JobsWork DEF Jobs
    <3> QED
      BY <1>4, <3>1 DEF MarkInv
  <2>4. CASE Advance \/ Fail
    <3>1. PICK next \in {"open", "done", "undo"} :
             job.step = "close" /\ Close(next) /\ (next = "open" => job.at < Len(Todo(Entry)))
      BY <2>4 DEF Advance, Fail
    <3>2. /\ job \in Jobs /\ job # NoJob /\ Captured
          /\ job'.journal = IF Atomic THEN job.journal \o Records ELSE job.journal
      BY <3>1, CloseEffect, Working DEF Shape, Captured
    <3>3. CASE ~Atomic
      BY <1>4, <3>2, <3>3 DEF MarkInv
    <3>4. CASE Atomic
      <4> DEFINE k == Len(job.journal)
      <4>1. /\ job.journal \in Seq(Notes) /\ Records \in Seq(Notes) /\ k \in Nat
            /\ job'.journal = job.journal \o Records
        BY <3>2, <3>4, RecordsShape DEF Jobs
      <4>2. i \in 1 .. (k + Len(Records))
            /\ job'.journal[i] = IF i <= k THEN job.journal[i] ELSE Records[i - k]
        BY <1>4, <4>1, ConcatProperties, LenProperties
      <4>3. CASE i <= k
        <5>1. i \in DOMAIN job.journal /\ job'.journal[i] = job.journal[i]
          BY <4>1, <4>2, <4>3
        <5> QED
          BY <1>4, <3>2, <5>1 DEF MarkInv
      <4>4. CASE ~(i <= k)
        <5>1. i - k \in 1 .. Len(Records) /\ job'.journal[i] = Records[i - k]
          BY <4>1, <4>2, <4>4
        <5>2. PICK r : r = Records[i - k]
          OBVIOUS
        <5>3. /\ r.path \in Changed /\ r.file = Target.file
              /\ r.before = job.before[r.path] /\ r.after = file[Target.file][r.path]
          BY <3>2, <5>1, <5>2, RecordsShape
        <5>4. ~AtMaster /\ r.path = 0 /\ Owned(file[Target.file][0]) /\ Target \in Pieces
          BY <1>4, <3>1, <5>1, <5>2, <5>3, Working DEF AtMaster, Changed, Shape
        <5>5. job.rows \in RowsOf /\ Target.slot \in {"weekly", "studio"}
          BY <3>2, <5>4 DEF Shape, JobInv, Pieces
        <5>6. r.after.text.mark = job.rows.mark
          BY <5>3, <5>4, <5>5 DEF Owned, Expected, Uploaded, RowsOf
        <5> QED
          BY <3>2, <5>1, <5>2, <5>3, <5>4, <5>6 DEF MarkInv
      <4> QED
        BY <4>3, <4>4
    <3> QED
      BY <3>3, <3>4
  <2>5. CASE Undo
    <3>1. /\ job # NoJob /\ job'.journal = Front(job.journal)
          /\ job.journal # <<>> /\ job.journal \in Seq(Notes)
      BY <2>5, UndoEffect, JobsWork
    <3>2. i \in DOMAIN job.journal /\ job'.journal[i] = job.journal[i]
      <4>1. PICK j : j = job.journal
        OBVIOUS
      <4>2. j \in Seq(Notes) /\ j # <<>> /\ i \in DOMAIN Front(j) /\ job'.journal = Front(j)
        BY <1>4, <3>1, <4>1
      <4>3. i \in DOMAIN j /\ Front(j)[i] = j[i]
        BY <4>2, FrontNote
      <4> QED
        BY <4>1, <4>2, <4>3
    <3>3. job.journal[i].file = Session /\ job.journal[i].path = 0 =>
             job.journal[i].before.text.mark = job.journal[i].after.text.mark
      BY <3>1, <3>2 DEF MarkInv
    <3> QED
      BY <1>4, <3>2, <3>3
  <2>6. CASE Applied \/ Failed \/ RestoreFails \/ Stop
    BY <1>4, <2>6 DEF Applied, Failed, RestoreFails, Stop
  <2>7. CASE (\E u \in Uploads : Preview(u.book, u.kind)) \/ (\E f \in Files : Outside(f))
    BY <2>1, <2>7 DEF Preview, Outside
  <2>8. CASE Agree
    <3>1. job'.journal = job.journal /\ job # NoJob
      BY <2>8, AgreeEffect, JobsWork
    <3> QED
      BY <1>4, <3>1 DEF MarkInv
  <2> QED
    BY <2>2, <2>3, <2>4, <2>5, <2>6, <2>7, <2>8 DEF Next, Agree, Undo
<1>5. Captured' /\ ~AtMaster' => job'.rows.mark = job'.before[0].text.mark
  <2>1. CASE UNCHANGED job
    BY <2>1 DEF MarkInv, Captured, AtMaster, Target, Entry
  <2>2. CASE Open
    BY <2>2, OpenEffect, ReadMark DEF AtMaster, Mark0
  <2>3. CASE Write \/ Refuse
    <3>1. Captured /\ Target' = Target /\ job'.rows = job.rows /\ job'.before = job.before
      BY <2>3, WriteShape, RefuseShape DEF Jobs, Captured, Write, Refuse
    <3> QED
      BY <3>1 DEF MarkInv, AtMaster
  <2>4. CASE \/ \E e \in ToSet(store) : Begin(e)
             \/ Advance \/ Fail \/ Agree \/ Undo \/ Applied \/ Failed \/ RestoreFails \/ Stop
    <3>1. job'.step \in {"open", "done", "undo", "restore", "none"}
      <4>1. CASE \E e \in ToSet(store) : Begin(e)
        BY <4>1, BeginShape
      <4>2. CASE Advance \/ Fail
        BY <4>2, CloseEffect DEF Advance, Fail
      <4>3. CASE Agree \/ Undo
        BY <4>3, AgreeEffect, UndoEffect
      <4>4. CASE Applied \/ Failed \/ RestoreFails \/ Stop
        <5>1. job' = NoJob
          BY <4>4 DEF Applied, Failed, RestoreFails, Stop
        <5> QED
          BY <5>1 DEF NoJob
      <4> QED
        BY <2>4, <4>1, <4>2, <4>3, <4>4
    <3> QED
      BY <3>1 DEF Captured
  <2>5. CASE (\E u \in Uploads : Preview(u.book, u.kind)) \/ (\E f \in Files : Outside(f))
    BY <2>1, <2>5 DEF Preview, Outside
  <2> QED
    BY <2>2, <2>3, <2>4, <2>5 DEF Next, Agree, Undo
<1>6. job'.step = "write" /\ ~AtMaster' =>
          \/ file'[Session] = job'.before
          \/ \E q \in Paths : \A p \in Paths : job'.before[p].time < file'[Session][q].time
  <2>1. CASE UNCHANGED <<job, file>>
    BY <2>1 DEF MarkInv, AtMaster, Target, Entry
  <2>2. CASE Open
    BY <2>2, OpenEffect DEF AtMaster, Open, disk
  <2>3. ASSUME NEW g \in Files, Outside(g), job.step = "write", ~AtMaster
        PROVE  \/ file'[Session] = job.before
               \/ \E q \in Paths : \A p \in Paths : job.before[p].time < file'[Session][q].time
    <3>1. PICK t \in TextsOf(g) :
             file' = [file EXCEPT ![g] = [@ EXCEPT ![0] = [text |-> t, time |-> clock + 1]]]
      BY <2>3, OutsideEffect
    <3>2. CASE g = Session
      <4>1. file'[Session][0].time = clock + 1
        BY <1>0, <3>1, <3>2
      <4>2. \A p \in Paths : Known(Session, p, job.before[p])
        BY <2>3 DEF Known, Captured, AtMaster
      <4>3. \A p \in Paths : job.before[p].time \in Nat /\ job.before[p].time <= clock
        BY <1>0, <4>2, KnownIsTyped
      <4>4. \A p \in Paths : job.before[p].time < file'[Session][0].time
        BY <1>0, <4>1, <4>3
      <4> QED
        BY <1>0, <4>4
    <3>3. CASE g # Session
      <4>1. file'[Session] = file[Session]
        BY <1>0, <3>1, <3>3
      <4> QED
        BY <2>3, <4>1 DEF MarkInv
    <3> QED
      BY <3>2, <3>3
  <2>4. CASE \E g \in Files : Outside(g)
    <3>1. job' = job
      BY <2>4 DEF Outside
    <3> QED
      BY <2>3, <2>4, <3>1 DEF AtMaster, Target, Entry
  <2>5. CASE \E u \in Uploads : Preview(u.book, u.kind)
    BY <2>1, <2>5 DEF Preview, disk
  <2>6. CASE \/ \E e \in ToSet(store) : Begin(e)
             \/ Write \/ Refuse \/ Advance \/ Fail \/ Agree \/ Undo \/ Applied \/ Failed
             \/ RestoreFails \/ Stop
    <3>1. job'.step # "write"
      <4>1. CASE \E e \in ToSet(store) : Begin(e)
        BY <4>1, BeginShape
      <4>2. CASE Advance \/ Fail
        BY <4>2, CloseEffect DEF Advance, Fail
      <4>3. CASE Agree \/ Undo
        BY <4>3, AgreeEffect, UndoEffect
      <4>4. CASE Applied \/ Failed \/ RestoreFails \/ Stop
        <5>1. job' = NoJob
          BY <4>4 DEF Applied, Failed, RestoreFails, Stop
        <5> QED
          BY <5>1 DEF NoJob
      <4>5. CASE Write \/ Refuse
        BY <4>5, WriteShape, RefuseShape
      <4> QED
        BY <2>6, <4>1, <4>2, <4>3, <4>4, <4>5
    <3> QED
      BY <3>1
  <2> QED
    BY <2>2, <2>4, <2>5, <2>6 DEF Next, Agree, Undo
<1>7. ASSUME job'.step = "restore", Place(Record)' = <<Session, 0>>,
             NEW p \in Paths, NEW x, Others(p, x)', x # Absent
      PROVE  x.text.mark <= Record'.before.text.mark
  <2>1. ASSUME job' = job, p # 0 => file'[Session][p] = file[Session][p]
        PROVE  x.text.mark <= Record'.before.text.mark
    <3>1. Others(p, x) /\ Record' = Record /\ Place(Record) = <<Session, 0>>
      BY <1>7, <2>1 DEF Others, Record, Place
    <3> QED
      BY <1>7, <2>1, <3>1 DEF MarkInv
  <2>2. CASE Agree
    <3>1. /\ job \in Jobs /\ job # NoJob /\ file' = file /\ job'.journal = job.journal /\ Record' = Record
          /\ Mine(Record) /\ Record = job.journal[Len(job.journal)]
          /\ job.journal \in Seq(Notes) /\ job.journal # <<>>
      BY <2>2, AgreeEffect, JobsWork
    <3>2. Known(Session, p, x)
      BY <1>7, <3>1 DEF Others, Known
    <3>3. Record.file = Session /\ Record.path = 0
      BY <1>7, <3>1 DEF Place
    <3>4. Len(job.journal) \in DOMAIN job.journal
      BY <3>1, LastNote
    <3>5. Record.before.text.mark = Record.after.text.mark
      BY <3>1, <3>3, <3>4 DEF MarkInv
    <3>6. Record.after.text.mark = Mark0
      BY <3>1, <3>3 DEF Mine, Mark0
    <3> QED
      BY <1>7, <3>1, <3>2, <3>5, <3>6 DEF MarkInv
  <2>3. ASSUME NEW g \in Files, Outside(g)
        PROVE  job' = job /\ (p # 0 => file'[Session][p] = file[Session][p])
    <3>1. PICK t \in TextsOf(g) :
             file' = [file EXCEPT ![g] = [@ EXCEPT ![0] = [text |-> t, time |-> clock + 1]]]
      BY <2>3, OutsideEffect
    <3> QED
      BY <1>0, <2>3, <3>1 DEF Outside
  <2>4. CASE \E u \in Uploads : Preview(u.book, u.kind)
    BY <2>1, <2>4 DEF Preview, disk
  <2>5. ~(\/ \E e \in ToSet(store) : Begin(e)
          \/ Open \/ Write \/ Refuse \/ Advance \/ Fail \/ Undo \/ Applied \/ Failed
          \/ RestoreFails \/ Stop)
    <3>1. ~(\E e \in ToSet(store) : Begin(e))
      BY <1>7, BeginShape
    <3>2. ~(Advance \/ Fail)
      BY <1>7, CloseEffect DEF Advance, Fail
    <3>3. ~Undo
      BY <1>7, UndoEffect
    <3>4. ~(Applied \/ Failed \/ RestoreFails \/ Stop)
      <4>1. NoJob.step # "restore"
        BY DEF NoJob
      <4> QED
        BY <1>7, <4>1 DEF Applied, Failed, RestoreFails, Stop
    <3>5. ~(Open \/ Write \/ Refuse)
      BY <1>7, OpenEffect, WriteShape, RefuseShape
    <3> QED
      BY <3>1, <3>2, <3>3, <3>4, <3>5
  <2> QED
    BY <2>1, <2>2, <2>3, <2>4, <2>5 DEF Next, Agree, Undo
<1> QED
  BY <1>0, <1>2, <1>3, <1>4, <1>5, <1>6, <1>7 DEF MarkInv

\* A rollback leaves what the primary copy was before the import, whose mark is then the
\* latest one.
LEMMA SlipHolds ==
    ASSUME Shape, MarkInv, Slip
    PROVE  /\ MarkInv' /\ Mark0' \in Nat
           /\ ~Overtaken => Mark0' = Mark0
<1>1. /\ job \in Jobs /\ job # NoJob /\ Record \in Notes /\ Record = job.journal[Len(job.journal)]
      /\ job.journal \in Seq(Notes) /\ job.journal # <<>> /\ job.step = "restore"
      /\ job' \in Jobs /\ job'.step = "undo" /\ job'.journal = Front(job.journal)
      /\ Record.file = Session /\ Record.path = 0 /\ outside' = outside
      /\ file' = [file EXCEPT ![Session] = [@ EXCEPT ![0] = Record.before]]
  <2>1. Restore /\ Undo /\ ~Compare /\ job.step = "restore" /\ Place(Record) = <<Session, 0>>
    BY DEF Slip, Undo, Restore, Compare
  <2> QED
    BY <2>1, UndoEffect, JobsWork DEF counts, Place
<1>2. /\ Shape' /\ Mark0 \in Nat /\ outside \in Nat /\ Mark0 <= outside /\ Session \in Files /\ 0 \in Paths
      /\ file \in [Files -> [Paths -> AnyCopies]]
  <2>1. Next
    BY DEF Slip, Next
  <2> QED
    BY <2>1, ShapeHolds, Mark0Type DEF MarkInv, Shape, DiskInv
<1>3. /\ Len(job.journal) \in DOMAIN job.journal
      /\ \A i \in DOMAIN job'.journal : i \in DOMAIN job.journal /\ job'.journal[i] = job.journal[i]
  <2>1. PICK j : j = job.journal
    OBVIOUS
  <2>2. j \in Seq(Notes) /\ j # <<>> /\ job'.journal = Front(j)
    BY <1>1, <2>1
  <2>3. Len(j) \in DOMAIN j /\ \A i \in DOMAIN Front(j) : i \in DOMAIN j /\ Front(j)[i] = j[i]
    BY <2>2, LastNote, FrontNote
  <2> QED
    BY <2>1, <2>2, <2>3
<1>4. Mark0' = Record.before.text.mark
  BY <1>1, <1>2 DEF Mark0
<1>5. Others(0, Record.before) /\ Known(Session, 0, Record.before)
  BY <1>1, <1>3 DEF Others, Known
<1>6. Record.before # Absent
  BY <1>1, <1>3 DEF Shape, JobInv
<1>7. Mark0' \in Nat /\ Mark0' <= Mark0 /\ Mark0' <= outside
  <2>1. Mark0' \in Nat /\ Mark0' <= Mark0
    BY <1>2, <1>4, <1>5, <1>6, SessionCopy DEF MarkInv
  <2> QED
    BY <1>2, <2>1
<1>8. ASSUME NEW p \in Paths, NEW x, Known(Session, p, x)'
      PROVE  Others(p, x) /\ Known(Session, p, x)
  <2>1. CASE x = file'[Session][p]
    <3>1. CASE p = 0
      <4>1. x = Record.before
        BY <1>1, <1>2, <2>1, <3>1
      <4> QED
        BY <1>5, <3>1, <4>1
    <3>2. CASE p # 0
      <4>1. x = file[Session][p]
        BY <1>1, <1>2, <2>1, <3>2
      <4> QED
        BY <3>2, <4>1 DEF Others, Known
    <3> QED
      BY <3>1, <3>2
  <2>2. CASE \E i \in DOMAIN job'.journal :
                job'.journal[i].file = Session /\ job'.journal[i].path = p /\ job'.journal[i].before = x
    BY <1>1, <1>3, <2>2 DEF Others, Known
  <2> QED
    BY <1>1, <1>8, <2>1, <2>2 DEF Known, Captured
<1>9. ASSUME NEW p \in Paths, NEW x, Known(Session, p, x)', x # Absent
      PROVE  x.text.mark <= Mark0'
  <2>1. Others(p, x)
    BY <1>8, <1>9
  <2> QED
    BY <1>1, <1>4, <1>9, <2>1 DEF MarkInv, Place
<1>10. ASSUME NEW p \in Paths, NEW q \in Paths, NEW x, NEW y, Known(Session, p, x)', Known(Session, q, y)',
              x # Absent, y # Absent, x.time <= y.time
       PROVE  x.text.mark <= y.text.mark
  BY <1>8, <1>10 DEF MarkInv
<1>11. ASSUME job' # NoJob, NEW i \in DOMAIN job'.journal, job'.journal[i].file = Session,
              job'.journal[i].path = 0
       PROVE  job'.journal[i].before.text.mark = job'.journal[i].after.text.mark
  BY <1>1, <1>3, <1>11 DEF MarkInv
<1>12. MarkInv'
  BY <1>1, <1>7, <1>9, <1>10, <1>11 DEF MarkInv, Captured
<1>13. ASSUME ~Overtaken PROVE Mark0' = Mark0
  <2>1. file[Session][0] = Record.after
    BY <1>1, <1>13 DEF Overtaken
  <2>2. Record.before.text.mark = Record.after.text.mark
    BY <1>1, <1>3 DEF MarkInv
  <2> QED
    BY <1>4, <2>1, <2>2 DEF Mark0
<1> QED
  BY <1>7, <1>12, <1>13

LEMMA MarkInit == Init => MarkInv
<1> SUFFICES ASSUME Init PROVE MarkInv
  OBVIOUS
<1>1. Shape /\ Session \in Files /\ 0 \in Paths /\ outside = 0 /\ job = NoJob
  BY ShapeInit, Mark0Type DEF Init
<1>2. \A p \in Paths : file[Session][p] =
         IF p # 0 THEN Absent
         ELSE [text |-> [weekly |-> NoSheet, studio |-> NoSheet, mark |-> 0], time |-> 1]
  BY <1>1 DEF Init
<1>3. ASSUME NEW p \in Paths, NEW c, Known(Session, p, c), c # Absent
      PROVE  c.text.mark = 0
  <2>1. c = file[Session][p]
    BY <1>1, <1>3 DEF Known, Captured, NoJob
  <2> QED
    BY <1>2, <1>3, <2>1
<1>4. Mark0 = 0
  BY <1>1, <1>2 DEF Mark0
<1> QED
  BY <1>1, <1>3, <1>4 DEF MarkInv, Captured, NoJob

LEMMA MarksAlways == Spec => []MarkInv
<1>1. Shape /\ MarkInv /\ UNCHANGED vars => MarkInv'
  BY DEF vars, disk, counts, MarkInv, Mark0, Known, Captured, AtMaster, Target, Entry, Others, Record, Place
<1>2. Shape /\ MarkInv /\ [Next]_vars => MarkInv'
  BY <1>1, MarksHold, SlipHolds
<1> QED
  BY <1>2, MarkInit, ShapeAlways, PTL DEF Spec

\* No save of an import takes the session back behind what another process saved: it
\* compares revisions.  No rollback does but by rewriting the very copy the other process
\* wrote after the comparison: a record is restored only over what the import itself
\* wrote, which had the mark of what it replaced.
THEOREM OthersAreKept == Spec => OutsideSaveStays
<1>1. Shape /\ MarkInv => Rows.mark = Mark0
  BY ReadMark
<1>2. (Shape /\ MarkInv => Rows.mark = Mark0)'
  BY <1>1, PTL
<1>3. ASSUME Shape, MarkInv, Shape', MarkInv', Next
      PROVE  \/ Read(file'[Session]).mark >= Read(file[Session]).mark
             \/ Overtaken /\ Place(Record) = <<Session, 0>>
  <2>1. Rows.mark = Mark0 /\ Rows'.mark = Mark0' /\ Mark0 \in Nat
    BY <1>1, <1>2, <1>3, Mark0Type
  <2>2. CASE ~Slip
    BY <1>3, <2>1, <2>2, MarkGrows DEF Rows
  <2>3. CASE Slip /\ ~Overtaken
    BY <1>3, <2>1, <2>3, SlipHolds DEF Rows
  <2>4. CASE Slip /\ Overtaken
    BY <2>4 DEF Slip
  <2> QED
    BY <2>2, <2>3, <2>4
<1>4. Shape /\ MarkInv /\ Shape' /\ MarkInv' /\ [Next]_vars =>
         [\/ Read(file'[Session]).mark >= Read(file[Session]).mark
          \/ Overtaken /\ Place(Record) = <<Session, 0>>]_vars
  BY <1>3
<1> QED
  BY <1>4, ShapeAlways, MarksAlways, PTL DEF Spec, OutsideSaveStays

-----------------------------------------------------------------------------
(* How far a two-sheet import has come.                                          *)

\* What is written is what the next read returns.
LEMMA NewCopyIsRead ==
    ASSUME Shape, NEW f \in Files, NEW p \in Paths, NEW t \in TextsOf(f),
           file' = [file EXCEPT ![f] = [@ EXCEPT ![p] = [text |-> t, time |-> clock + 1]]]
    PROVE  /\ Read(file'[f]) = t
           /\ \A g \in Files \ {f} : file'[g] = file[g]
<1> DEFINE n == [text |-> t, time |-> clock + 1]
           d == file'[f]
<1>1. /\ clock \in Nat /\ file \in [Files -> [Paths -> AnyCopies]] /\ Disk(file[f])
      /\ \A q \in Paths : file[f][q].time <= clock /\ file[f][q].time \in Nat
  <2>1. clock \in Nat /\ file \in [Files -> [Paths -> AnyCopies]] /\ Disk(file[f])
    BY Readable DEF Shape, DiskInv
  <2>2. \A q \in Paths : Known(f, q, file[f][q])
    BY DEF Known
  <2> QED
    BY <2>1, <2>2, KnownIsTyped
<1>2. n \in AnyCopies /\ n.text = t /\ n.time = clock + 1
  BY <1>1 DEF AnyCopies, TextsOf, Texts
<1> HIDE DEF n
<1>3. d = [file[f] EXCEPT ![p] = n] /\ \A g \in Files \ {f} : file'[g] = file[g]
  BY <1>1 DEF n
<1>4. d \in [Paths -> AnyCopies] /\ d[p] = n /\ \A q \in Paths \ {p} : d[q] = file[f][q]
  BY <1>1, <1>2, <1>3
<1> HIDE DEF d
<1>5. Disk(d)
  <2>1. clock + 1 \in Nat /\ \A q \in Paths : d[q].time <= clock + 1
    BY <1>1, <1>2, <1>4
  <2>2. n.time # 0 /\ n # Absent
    BY <1>1, <1>2 DEF Absent
  <2>3. \A q \in Paths : d[q].time = 0 <=> d[q] = Absent
    BY <1>1, <1>4, <2>2 DEF Disk
  <2> QED
    BY <1>4, <2>1, <2>3 DEF Disk
<1>6. \A q \in Paths \ {p} : d[q].time < d[p].time
  BY <1>1, <1>2, <1>4
<1>7. Read(d) = d[p].text
  BY <1>5, <1>6, NewestIsRead
<1> QED
  BY <1>2, <1>3, <1>4, <1>7 DEF d

Good(f) == Read(file[f]) = <<"sheet", Entry.id>> \/ Read(file[f])[1] = "outside"
Done(slot) == Rows[slot] = Entry.book[slot]

WholeInv ==
    job # NoJob /\ Atomic /\ job.step \notin {"undo", "restore"} =>
       \* What has been done reads as it was written, or its failure is noted.
       /\ \A m \in 1 .. (job.at - 1) :
             LET t == Todo(Entry)[m]
             IN  /\ t.file # Session => t.file \in job.failed \/ Good(t.file)
                 /\ t.file = Session => /\ Done(t.slot)
                                        /\ Captured /\ ~AtMaster =>
                                              job.rows[t.slot] = Entry.book[t.slot]
       \* No failure is noted when the session is reached.
       /\ ~AtMaster => job.failed = {}
       /\ job.step = "close" /\ ~AtMaster /\ job.error = "none" => Done(Target.slot)
       /\ job.step = "done" => job.at = Len(Todo(Entry)) /\ ~AtMaster /\ Done(Target.slot)

LEMMA WholeInit == Init => WholeInv
BY DEF Init, WholeInv

LEMMA OpenWhole ==
    ASSUME Shape, WholeInv, Open
    PROVE  WholeInv'
<1>1. /\ job \in Jobs /\ job # NoJob /\ job' \in Jobs /\ Entry' = Entry /\ Target' = Target
      /\ job'.step = "write" /\ job'.rows = Rows /\ job'.at = job.at /\ job'.failed = job.failed
      /\ job.step = "open" /\ file' = file
  BY OpenEffect, JobsWork DEF Open, disk
<1>2. Rows' = Rows /\ Atomic' = Atomic /\ AtMaster' = AtMaster
  BY <1>1 DEF Rows, Atomic, AtMaster
<1> QED
  BY <1>1, <1>2 DEF WholeInv, Good, Done

LEMMA WriteWhole ==
    ASSUME Shape, WholeInv, Write
    PROVE  WholeInv'
<1>1. /\ job \in Jobs /\ job # NoJob /\ job' \in Jobs /\ Entry' = Entry /\ Target' = Target
      /\ job'.step = "close" /\ job.step = "write" /\ Captured /\ Captured'
      /\ job' = [job EXCEPT !.step = "close", !.error = job'.error]
  BY WriteShape, JobsWork DEF Write, Captured
<1>2. job'.rows = job.rows /\ job'.at = job.at /\ job'.failed = job.failed
  BY <1>1 DEF Jobs
<1>3. Atomic' = Atomic /\ AtMaster' = AtMaster /\ Target.file \in Files /\ Session \in Files
      /\ Target \in Pieces /\ Entry \in Entries
  BY <1>1, Working DEF Atomic, AtMaster, Shape, Files
<1>4. CASE file' = file /\ job'.error = "raised"
  <2>1. Rows' = Rows
    BY <1>4 DEF Rows
  <2> QED
    BY <1>1, <1>2, <1>3, <1>4, <2>1 DEF WholeInv, Good, Done
<1>5. ASSUME NEW p \in Paths,
             file' = [file EXCEPT ![Target.file] = [@ EXCEPT ![p] = [text |-> Expected, time |-> clock + 1]]]
      PROVE  WholeInv'
  <2>1. Expected \in TextsOf(Target.file)
    BY <1>1, ExpectedText
  <2>2. Read(file'[Target.file]) = Expected /\ \A g \in Files \ {Target.file} : file'[g] = file[g]
    BY <1>3, <1>5, <2>1, NewCopyIsRead
  <2> SUFFICES ASSUME Atomic PROVE WholeInv'
    BY <1>3 DEF WholeInv
  <2>3. \A m \in 1 .. (job.at - 1) :
           LET t == Todo(Entry)[m]
           IN  /\ t.file # Session => t.file \in job.failed \/ Good(t.file)
               /\ t.file = Session => Done(t.slot) /\ (~AtMaster => job.rows[t.slot] = Entry.book[t.slot])
    BY <1>1 DEF WholeInv
  <2>4. \A m \in 1 .. (job.at - 1) : Todo(Entry)[m] \in Pieces
    <3>1. job.at \in 1 .. Len(Todo(Entry)) /\ Todo(Entry) \in Seq(Pieces) /\ Len(Todo(Entry)) \in Nat
      BY <1>1, <1>3, TodoHasFirst DEF Shape, JobInv
    <3>2. \A m \in 1 .. (job.at - 1) : m \in 1 .. Len(Todo(Entry))
      BY <3>1
    <3> QED
      BY <3>1, <3>2, ElementOfSeq
  <2>5. CASE AtMaster
    <3>1. Rows' = Rows
      BY <1>3, <2>2, <2>5 DEF Rows, AtMaster
    <3>2. \A f \in Files \ {Session} : Good(f) => Good(f)'
      <4>1. Expected = <<"sheet", Entry.id>>
        BY <2>5 DEF Expected
      <4> QED
        BY <1>1, <2>2, <4>1 DEF Good
    <3>3. \A m \in 1 .. (job.at - 1) :
             LET t == Todo(Entry)[m]
             IN  /\ t.file # Session => t.file \in job.failed \/ Good(t.file)'
                 /\ t.file = Session => Done(t.slot)'
      BY <1>1, <2>3, <2>4, <3>1, <3>2 DEF Pieces, Done
    <3> QED
      BY <1>1, <1>2, <1>3, <2>5, <3>3 DEF WholeInv
  <2>6. CASE ~AtMaster
    <3>1. Target.file = Session /\ Rows' = Expected /\ Expected = Uploaded
      BY <2>2, <2>6 DEF Rows, AtMaster, Expected
    <3>2. job.rows \in RowsOf /\ Target.slot \in {"weekly", "studio"}
      BY <1>1, <1>3 DEF Shape, JobInv, Pieces
    <3>3. Rows'[Target.slot] = Entry.book[Target.slot]
      BY <3>1, <3>2 DEF Uploaded, RowsOf
    <3>4. \A t \in {"weekly", "studio"} : job.rows[t] = Entry.book[t] => Rows'[t] = Entry.book[t]
      BY <3>1, <3>2 DEF Uploaded, RowsOf
    <3>5. \A f \in Files \ {Session} : Good(f) => Good(f)'
      BY <1>1, <2>2, <3>1 DEF Good
    <3>6. \A m \in 1 .. (job.at - 1) :
             LET t == Todo(Entry)[m]
             IN  /\ t.file # Session => t.file \in job.failed \/ Good(t.file)'
                 /\ t.file = Session => Done(t.slot)' /\ job.rows[t.slot] = Entry.book[t.slot]
      BY <1>1, <2>3, <2>4, <2>6, <3>4, <3>5 DEF Pieces, Done
    <3>7. Done(Target.slot)' /\ job.failed = {}
      BY <1>1, <2>6, <3>3 DEF Done, WholeInv
    <3> QED
      BY <1>1, <1>2, <1>3, <2>6, <3>6, <3>7 DEF WholeInv
  <2> QED
    BY <2>5, <2>6
<1> QED
  BY <1>4, <1>5, WriteEffect

LEMMA RefuseWhole ==
    ASSUME Shape, WholeInv, Refuse
    PROVE  WholeInv'
<1>1. /\ job \in Jobs /\ job # NoJob /\ job' \in Jobs /\ Entry' = Entry /\ Target' = Target
      /\ job'.step = "close" /\ job.step = "write" /\ Captured /\ file' = file
      /\ job' = [job EXCEPT !.step = "close", !.error = job'.error] /\ job'.error # "none"
  BY RefuseShape, JobsWork DEF Refuse, Captured, disk
<1>2. job'.rows = job.rows /\ job'.at = job.at /\ job'.failed = job.failed
  BY <1>1 DEF Jobs
<1>3. Rows' = Rows /\ Atomic' = Atomic /\ AtMaster' = AtMaster
  BY <1>1 DEF Rows, Atomic, AtMaster
<1> QED
  BY <1>1, <1>2, <1>3 DEF WholeInv, Good, Done

LEMMA AdvanceWhole ==
    ASSUME Shape, WholeInv, Advance
    PROVE  WholeInv'
<1> DEFINE next == IF job.at < Len(Todo(Entry)) THEN "open" ELSE "done"
<1>1. /\ job.step = "close" /\ ~Failing /\ Close(next) /\ next \in {"open", "done", "undo"}
      /\ next = "open" <=> job.at < Len(Todo(Entry))
      /\ next = "open" => job.at < Len(Todo(Entry))
  BY DEF Advance
<1> HIDE DEF next
<1>2. /\ job \in Jobs /\ job # NoJob /\ Entry \in Entries /\ Target \in Pieces /\ Captured
      /\ job.at \in 1 .. Len(Todo(Entry)) /\ Len(Todo(Entry)) \in Nat
      /\ Todo(Entry)[Len(Todo(Entry))].file = Session
  BY <1>1, Working, TodoHasFirst DEF Shape, JobInv, Captured
<1>3. /\ job' \in Jobs /\ Entry' = Entry /\ job'.step = next
      /\ job'.failed = IF AtMaster THEN Noted ELSE {}
      /\ job'.at = IF next = "open" THEN job.at + 1 ELSE job.at
      /\ file' = file /\ Rows' = Rows /\ Atomic' = Atomic
  BY <1>1, CloseEffect DEF Close, disk, Rows, Atomic
<1> SUFFICES ASSUME Atomic PROVE WholeInv'
  BY <1>3 DEF WholeInv
<1>4. /\ \A m \in 1 .. (job.at - 1) :
            LET t == Todo(Entry)[m]
            IN  /\ t.file # Session => t.file \in job.failed \/ Good(t.file)
                /\ t.file = Session => Done(t.slot)
      /\ ~AtMaster => job.failed = {}
      /\ ~AtMaster /\ job.error = "none" => Done(Target.slot)
  BY <1>1, <1>2 DEF WholeInv
<1>5. \A slot : Done(slot)' <=> Done(slot)
  BY <1>3 DEF Done
<1>6. \A f : Good(f)' <=> Good(f)
  BY <1>3 DEF Good
<1>7. ~Captured'
  BY <1>1, <1>3 DEF Captured, Advance, next
<1>8. CASE AtMaster
  <2>1. next = "open" /\ job'.at = job.at + 1
    BY <1>1, <1>2, <1>3, <1>8 DEF AtMaster, Target
  <2>2. job.failed \subseteq job'.failed
    BY <1>3, <1>8 DEF Noted
  <2>3. Target.file \in job'.failed \/ Good(Target.file)
    BY <1>3, <1>8 DEF Noted, Good, Expected
  <2>4. Todo(Entry)[job.at + 1].file = Session => job'.failed = {}
    BY <1>1, <1>3, <1>8 DEF Failing
  <2>5. ASSUME NEW m \in 1 .. (job'.at - 1)
        PROVE  LET t == Todo(Entry)[m]
               IN  /\ t.file # Session => t.file \in job'.failed \/ Good(t.file)
                   /\ t.file = Session => Done(t.slot)
    <3>1. m \in 1 .. (job.at - 1) \/ m = job.at
      BY <1>2, <2>1
    <3>2. CASE m = job.at
      BY <1>8, <2>3, <3>2 DEF Target, AtMaster
    <3> QED
      BY <1>4, <2>2, <3>1, <3>2
  <2>6. ~AtMaster' => job'.failed = {}
    BY <1>3, <2>1, <2>4 DEF AtMaster, Target
  <2> QED
    BY <1>3, <1>5, <1>6, <1>7, <2>1, <2>5, <2>6 DEF WholeInv
<1>9. CASE ~AtMaster
  <2>1. job.error = "none" /\ Done(Target.slot) /\ job.failed = {} /\ job'.failed = {}
    <3>1. job.error \notin {"raised", "conflict"}
      BY <1>1, <1>9 DEF Failing
    <3> QED
      BY <1>2, <1>3, <1>4, <1>9, <3>1 DEF Jobs
  <2>2. ASSUME NEW m \in 1 .. (job'.at - 1)
        PROVE  LET t == Todo(Entry)[m]
               IN  /\ t.file # Session => t.file \in job'.failed \/ Good(t.file)
                   /\ t.file = Session => Done(t.slot)
    <3>1. m \in 1 .. (job.at - 1) \/ m = job.at
      BY <1>2, <1>3
    <3>2. CASE m = job.at
      BY <1>9, <2>1, <3>2 DEF Target, AtMaster
    <3> QED
      BY <1>4, <2>1, <3>1, <3>2
  <2>3. job'.step = "done" => job'.at = Len(Todo(Entry)) /\ Target' = Target
    BY <1>1, <1>2, <1>3 DEF Target
  <2> QED
    BY <1>1, <1>3, <1>5, <1>6, <1>7, <1>9, <2>1, <2>2, <2>3 DEF WholeInv, AtMaster
<1> QED
  BY <1>8, <1>9

LEMMA OutsideWhole ==
    ASSUME Shape, WholeInv, NEW g \in Files, Outside(g)
    PROVE  WholeInv'
<1>1. job' = job /\ Entry' = Entry /\ Target' = Target /\ Atomic' = Atomic /\ AtMaster' = AtMaster
      /\ (Captured' <=> Captured)
  BY DEF Outside, Entry, Target, Atomic, AtMaster, Captured
<1>2. PICK t \in TextsOf(g) :
         /\ file' = [file EXCEPT ![g] = [@ EXCEPT ![0] = [text |-> t, time |-> clock + 1]]]
         /\ g = Session => t = [Rows EXCEPT !.mark = outside + 1]
         /\ g # Session => t = <<"outside", outside + 1>>
  BY OutsideEffect
<1>3. 0 \in Paths /\ Session \in Files /\ Rows \in RowsOf
  BY Mark0Type, Readable DEF Shape
<1>4. Read(file'[g]) = t /\ \A f \in Files \ {g} : file'[f] = file[f]
  BY <1>2, <1>3, NewCopyIsRead
<1>5. \A f \in Files \ {Session} : Good(f) => Good(f)'
  <2>1. g # Session => t[1] = "outside"
    BY <1>2
  <2> QED
    BY <1>1, <1>4, <2>1 DEF Good
<1>6. \A slot \in {"weekly", "studio"} : Rows'[slot] = Rows[slot]
  <2>1. CASE g = Session
    <3>1. Rows' = [Rows EXCEPT !.mark = outside + 1]
      BY <1>2, <1>4, <2>1 DEF Rows
    <3> QED
      BY <1>3, <3>1 DEF RowsOf
  <2>2. CASE g # Session
    BY <1>3, <1>4, <2>2 DEF Rows
  <2> QED
    BY <2>1, <2>2
<1>7. CASE job = NoJob
  BY <1>1, <1>7 DEF WholeInv
<1>8. CASE job # NoJob
  <2>1. Target \in Pieces /\ Entry \in Entries /\ job \in Jobs
    BY <1>8, Working DEF Shape, JobInv, Jobs, Steps
  <2>2. \A m \in 1 .. (job.at - 1) : Todo(Entry)[m] \in Pieces
    <3>1. job.at \in 1 .. Len(Todo(Entry)) /\ Todo(Entry) \in Seq(Pieces) /\ Len(Todo(Entry)) \in Nat
      BY <1>8, <2>1, TodoHasFirst DEF Shape, JobInv
    <3>2. \A m \in 1 .. (job.at - 1) : m \in 1 .. Len(Todo(Entry))
      BY <3>1
    <3> QED
      BY <3>1, <3>2, ElementOfSeq
  <2>3. \A slot \in {"weekly", "studio"} : Done(slot) => Done(slot)'
    BY <1>1, <1>6 DEF Done
  <2>4. Target.slot \in {"weekly", "studio"}
    BY <2>1 DEF Pieces
  <2>5. \A m \in 1 .. (job.at - 1) : /\ Todo(Entry)[m].slot \in {"weekly", "studio"}
                                     /\ Todo(Entry)[m].file \in Files
    BY <2>2 DEF Pieces
  <2> QED
    BY <1>1, <1>5, <1>8, <2>3, <2>4, <2>5 DEF WholeInv
<1> QED
  BY <1>7, <1>8

LEMMA WholeHolds ==
    ASSUME Shape, WholeInv, [Next]_vars
    PROVE  WholeInv'
<1>1. CASE \E u \in Uploads : Preview(u.book, u.kind)
  BY <1>1 DEF Preview, WholeInv
<1>2. CASE \E e \in ToSet(store) : Begin(e)
  BY <1>2, BeginShape DEF WholeInv, Captured
<1>3. CASE Open \/ Write \/ Refuse \/ Advance
  BY <1>3, OpenWhole, WriteWhole, RefuseWhole, AdvanceWhole
<1>4. CASE Fail
  BY <1>4, CloseEffect DEF Fail, WholeInv
<1>5. CASE Agree \/ Undo
  BY <1>5, AgreeEffect, UndoEffect DEF WholeInv
<1>6. CASE Applied \/ Failed \/ RestoreFails \/ Stop
  BY <1>6 DEF Applied, Failed, RestoreFails, Stop, WholeInv
<1>7. CASE \E f \in Files : Outside(f)
  BY <1>7, OutsideWhole
<1>8. CASE UNCHANGED vars
  BY <1>8 DEF vars, disk, counts, WholeInv, Good, Done, Rows, Captured, AtMaster, Atomic, Target, Entry
<1> QED
  BY <1>1, <1>2, <1>3, <1>4, <1>5, <1>6, <1>7, <1>8 DEF Next, Agree, Undo

LEMMA WholeAlways == Spec => []WholeInv
BY WholeInit, WholeHolds, ShapeAlways, PTL DEF Spec

\* When the last session is written, everything is.
LEMMA WholeWhenDone ==
    ASSUME Shape, WholeInv, job.step = "done", Atomic
    PROVE  /\ \A f \in Sheetwise(Entry.book) : Good(f)
           /\ Rows.weekly = Entry.book.weekly /\ Rows.studio = Entry.book.studio
<1>1. job \in Jobs /\ job # NoJob /\ Entry \in Entries /\ job.step = "done"
  BY Working DEF Shape, Atomic
<1>2. PICK L \in Nat :
            /\ Len(Todo(Entry)) = 2 * L + 2
            /\ \A n \in 1 .. Len(Todo(Entry)) : Todo(Entry)[n].file = Session <=> n \in {L + 1, 2 * L + 2}
            /\ \A n \in 1 .. Len(Todo(Entry)) : Todo(Entry)[n].slot = IF n <= L + 1 THEN "weekly" ELSE "studio"
            /\ \A f \in Sheetwise(Entry.book) : \E n \in 1 .. L : Todo(Entry)[n].file = f
  <2>1. Entry.kind = "workbook" /\ Entry.book \in Books /\ Entry.kind \in Kinds
    BY <1>1 DEF Entries, Atomic
  <2>2. PICK L \in Nat :
            /\ Len(Todo(Entry)) = IF Entry.kind = "workbook" THEN 2 * L + 2 ELSE L + 1
            /\ \A n \in 1 .. Len(Todo(Entry)) : Todo(Entry)[n].file = Session <=> n \in {L + 1, 2 * L + 2}
            /\ \A n \in 1 .. Len(Todo(Entry)) :
                  Todo(Entry)[n].slot = IF Entry.kind # "workbook" THEN Entry.kind
                                        ELSE IF n <= L + 1 THEN "weekly" ELSE "studio"
            /\ \A f \in Sheetwise(Entry.book) : \E n \in 1 .. L : Todo(Entry)[n].file = f
    BY <2>1, TodoShape
  <2>3. \A n \in 1 .. Len(Todo(Entry)) : Todo(Entry)[n].slot = IF n <= L + 1 THEN "weekly" ELSE "studio"
    BY <2>1, <2>2
  <2>4. Len(Todo(Entry)) = 2 * L + 2
    BY <2>1, <2>2
  <2> QED
    BY <2>2, <2>3, <2>4
<1>3. job.at = 2 * L + 2 /\ job.failed = {} /\ Done(Target.slot)
  BY <1>1, <1>2 DEF WholeInv
<1>4. \A m \in 1 .. (2 * L + 1) :
           LET t == Todo(Entry)[m]
           IN  /\ t.file # Session => Good(t.file)
               /\ t.file = Session => Done(t.slot)
  <2>1. \A m \in 1 .. (2 * L + 1) : m \in 1 .. (job.at - 1)
    BY <1>2, <1>3
  <2> QED
    BY <1>1, <1>3, <2>1 DEF WholeInv
<1>5. /\ \A n \in 1 .. L : n \in 1 .. (2 * L + 1) /\ n \in 1 .. (2 * L + 2) /\ n \notin {L + 1, 2 * L + 2}
      /\ L + 1 \in 1 .. (2 * L + 1) /\ L + 1 \in 1 .. (2 * L + 2) /\ 2 * L + 2 \in 1 .. (2 * L + 2)
      /\ L + 1 <= L + 1 /\ ~(2 * L + 2 <= L + 1)
  BY <1>2
<1>6. \A f \in Sheetwise(Entry.book) : Good(f)
  BY <1>2, <1>4, <1>5
<1>7. Done("weekly")
  BY <1>2, <1>4, <1>5
<1>8. Done("studio")
  BY <1>2, <1>3, <1>5 DEF Target
<1> QED
  BY <1>6, <1>7, <1>8 DEF Done

\* A two-sheet import is answered as applied only when every master sheet was written
\* and read back in both of its slots, or another process wrote the file since, and
\* both sets of rows are in the session.
THEOREM AppliedIsComplete == Spec => AppliedIsWhole
<1> DEFINE Whole == answer' # answer /\ answer'.what = "applied" /\ Atomic =>
          /\ \A f \in Entry.book.good \cup Entry.book.bad :
                Read(file[f]) = <<"sheet", Entry.id>> \/ Read(file[f])[1] = "outside"
          /\ Rows.weekly = Entry.book.weekly /\ Rows.studio = Entry.book.studio
<1>1. ASSUME Shape, WholeInv, Next, answer' # answer, answer'.what = "applied", Atomic
      PROVE  /\ \A f \in Sheetwise(Entry.book) : Good(f)
             /\ Rows.weekly = Entry.book.weekly /\ Rows.studio = Entry.book.studio
  <2>1. Applied
    <3>1. CASE RestoreFails
      BY <1>1, <3>1 DEF RestoreFails
    <3>2. CASE Failed
      BY <1>1, <3>2 DEF Failed, Verdict
    <3>3. CASE \E e \in ToSet(store) : Begin(e)
      BY <1>1, <3>3 DEF Begin, NoAnswer
    <3>4. ~(\E u \in Uploads : Preview(u.book, u.kind)) /\ ~(Open \/ Write \/ Refuse \/ Advance \/ Fail \/ Compare \/ Restore)
          /\ ~(\E f \in Files : Outside(f)) /\ ~Stop
      BY <1>1 DEF Preview, Open, Write, Refuse, Advance, Fail, Close, Compare, Restore, Outside, Stop
    <3> QED
      BY <1>1, <3>1, <3>2, <3>3, <3>4 DEF Next
  <2> QED
    BY <1>1, <2>1, WholeWhenDone DEF Applied
<1>2. Shape /\ WholeInv /\ [Next]_vars => [Whole]_vars
  BY <1>1 DEF Good, Sheetwise
<1> QED
  BY <1>2, ShapeAlways, WholeAlways, PTL DEF Spec, AppliedIsWhole

-----------------------------------------------------------------------------
(* What an import leaves behind.                                                 *)

NoTrace(i) == \A f \in Masters, p \in Paths : \A c : Known(f, p, c) => c.text # <<"sheet", i>>

\* No sheet is of a preview that is still to come.
FreshInv ==
    \A f \in Masters, p \in Paths : \A c : Known(f, p, c) =>
       \A i \in Nat : c.text = <<"sheet", i>> => i <= previews

\* A preview of a whole workbook has left nothing while its import is not at work, nor
\* has one whose import failed.
TraceInv ==
    /\ answer.what \in {"failed", "changed"} => job = NoJob
    /\ "rollback" \notin torn =>
          /\ \A n \in DOMAIN store :
                store[n].kind = "workbook" /\ (job = NoJob \/ store[n].id # Entry.id) => NoTrace(store[n].id)
          /\ answer.what \in {"failed", "changed"} => NoTrace(answer.id)

\* The latest of the first k records of a copy says that the copy became c.
CoveredIn(j, f, p, c, k) ==
    \E i \in 1 .. k : /\ j[i].file = f /\ j[i].path = p /\ j[i].after = c
                      /\ \A l \in (i + 1) .. k : ~(j[l].file = f /\ j[l].path = p)

\* The journal knows of every copy that the import wrote, so it can take it back.
CoverInv ==
    "rollback" \notin torn /\ job # NoJob /\ Atomic =>
       /\ job.step \notin {"undo", "restore"} => job.conflicts = {}
       /\ \A f \in Masters, p \in Paths : file[f][p].text = <<"sheet", Entry.id>> =>
             /\ <<f, p>> \notin job.conflicts
             /\ \/ CoveredIn(job.journal, f, p, file[f][p], Len(job.journal))
                \/ job.step = "close" /\ f = Target.file /\ job.before[p] # file[f][p]
       /\ Captured /\ AtMaster => \A p \in Paths : job.before[p].text = <<"sheet", Entry.id>> =>
             CoveredIn(job.journal, Target.file, p, job.before[p], Len(job.journal))
       /\ \A k \in DOMAIN job.journal :
             LET r == job.journal[k]
             IN  r.file \in Masters /\ r.before.text = <<"sheet", Entry.id>> =>
                    CoveredIn(job.journal, r.file, r.path, r.before, k - 1)

LEMMA SameSheet == ASSUME NEW i, NEW k PROVE <<"sheet", i>> = <<"sheet", k>> => i = k
<1> SUFFICES ASSUME <<"sheet", i>> = <<"sheet", k>> PROVE i = k
  OBVIOUS
<1>1. <<"sheet", i>>[2] = <<"sheet", k>>[2]
  OBVIOUS
<1> QED
  BY <1>1

LEMMA FilesSplit == Masters \subseteq Files /\ Session \in Files /\ Session \notin Masters
BY ImportAssumption DEF Files

LEMMA FreshHolds ==
    ASSUME Shape, FreshInv, [Next]_vars
    PROVE  FreshInv'
<1>1. CASE UNCHANGED vars
  BY <1>1 DEF vars, disk, counts, FreshInv, Known, Captured, Target, Entry
<1>2. CASE Next
  <2>1. previews \in Nat /\ previews' \in Nat /\ previews <= previews'
    <3>1. previews' \in {previews, previews + 1}
      BY <1>2 DEF Next, Preview, Begin, Open, Write, Refuse, Advance, Fail, Close, Applied, Compare,
                  Restore, Failed, RestoreFails, Outside, Stop, counts
    <3> QED
      BY <3>1 DEF Shape, StoreInv
  <2> SUFFICES ASSUME NEW f \in Masters, NEW p \in Paths, NEW c, Known(f, p, c)',
                      NEW i \in Nat, c.text = <<"sheet", i>>
               PROVE  i <= previews'
    BY DEF FreshInv
  <2>2. f \in Files /\ f # Session
    BY FilesSplit
  <2>3. CASE Known(f, p, c)
    <3>1. i <= previews
      BY <2>3 DEF FreshInv
    <3> QED
      BY <2>1, <3>1
  <2>4. CASE Write /\ f = Target.file /\ c = [text |-> Expected, time |-> clock + 1]
    <3>1. job \in Jobs /\ job # NoJob /\ Expected = <<"sheet", Entry.id>>
      BY <2>2, <2>4, Working DEF Shape, Write, Expected, AtMaster
    <3>2. i = Entry.id
      BY <2>4, <3>1, SameSheet
    <3>3. PICK n \in DOMAIN store : store[n] = Entry
      BY <3>1 DEF Shape, JobInv
    <3>4. Entry.id <= previews
      BY <3>3 DEF Shape, StoreInv, Ordered
    <3> QED
      BY <2>1, <3>2, <3>4
  <2>5. CASE Outside(f) /\ p = 0 /\ c = file'[f][0] /\ c.time = clock + 1
    <3>1. PICK t \in TextsOf(f) :
             /\ file' = [file EXCEPT ![f] = [@ EXCEPT ![0] = [text |-> t, time |-> clock + 1]]]
             /\ t = <<"outside", outside + 1>>
      BY <2>2, <2>5, OutsideEffect
    <3>2. c.text = t
      BY <2>2, <2>5, <3>1 DEF Shape, DiskInv
    <3>3. <<"sheet", i>>[1] = <<"outside", outside + 1>>[1]
      BY <3>1, <3>2
    <3> QED
      BY <3>3
  <2> QED
    BY <1>2, <2>2, <2>3, <2>4, <2>5, KnownGrows
<1> QED
  BY <1>1, <1>2

LEMMA FreshInit == Init => FreshInv
<1> SUFFICES ASSUME Init, NEW f \in Masters, NEW p \in Paths, NEW c, Known(f, p, c),
                    NEW i \in Nat, c.text = <<"sheet", i>>
             PROVE  i <= previews
  BY DEF FreshInv
<1>1. c = file[f][p] /\ f \in Files /\ f # Session
  BY FilesSplit DEF Init, Known, Captured, NoJob
<1>2. c = IF p # 0 THEN Absent ELSE [text |-> <<"sheet", 0>>, time |-> 1]
  BY <1>1 DEF Init
<1>3. c.text = Missing \/ c.text = <<"sheet", 0>>
  BY <1>2 DEF Absent
<1>4. c.text # Missing
  BY ImportAssumption
<1>5. i = 0
  BY <1>3, <1>4, SameSheet
<1> QED
  BY <1>5 DEF Init

LEMMA FreshAlways == Spec => []FreshInv
BY FreshInit, FreshHolds, ShapeAlways, PTL DEF Spec

\* A cover outlasts records of other copies, at the end of the journal or taken off it.
LEMMA CoverKept ==
    ASSUME NEW f, NEW p, NEW c, NEW j, NEW s, NEW k \in Nat, NEW m \in Nat, k <= m,
           CoveredIn(j, f, p, c, k), \A i \in 1 .. k : s[i] = j[i],
           \A i \in (k + 1) .. m : ~(s[i].file = f /\ s[i].path = p)
    PROVE  CoveredIn(s, f, p, c, m)
<1>1. PICK i \in 1 .. k : /\ j[i].file = f /\ j[i].path = p /\ j[i].after = c
                          /\ \A l \in (i + 1) .. k : ~(j[l].file = f /\ j[l].path = p)
  BY DEF CoveredIn
<1>2. i \in 1 .. m /\ i \in Nat
  OBVIOUS
<1>3. ASSUME NEW l \in (i + 1) .. m
      PROVE  ~(s[l].file = f /\ s[l].path = p)
  <2>1. CASE l <= k
    <3>1. l \in (i + 1) .. k /\ l \in 1 .. k
      BY <1>2, <2>1
    <3> QED
      BY <1>1, <3>1
  <2>2. CASE ~(l <= k)
    <3>1. l \in (k + 1) .. m
      BY <1>2, <2>2
    <3> QED
      BY <3>1
  <2> QED
    BY <2>1, <2>2
<1> QED
  BY <1>1, <1>2, <1>3 DEF CoveredIn

LEMMA CoverCut ==
    ASSUME NEW f, NEW p, NEW c, NEW j, NEW n \in Nat \ {0},
           CoveredIn(j, f, p, c, n), ~(j[n].file = f /\ j[n].path = p)
    PROVE  CoveredIn(j, f, p, c, n - 1)
<1>1. PICK i \in 1 .. n : /\ j[i].file = f /\ j[i].path = p /\ j[i].after = c
                          /\ \A l \in (i + 1) .. n : ~(j[l].file = f /\ j[l].path = p)
  BY DEF CoveredIn
<1>2. i # n
  BY <1>1
<1>3. i \in 1 .. (n - 1) /\ \A l \in (i + 1) .. (n - 1) : l \in (i + 1) .. n
  BY <1>2
<1> QED
  BY <1>1, <1>3 DEF CoveredIn

\* The conjuncts of CoverInv, for a step that keeps the import at work.
Own(c) == c.text = <<"sheet", Entry.id>>
NoConflictYet == job.step \notin {"undo", "restore"} => job.conflicts = {}
CoverDisk ==
    \A f \in Masters, p \in Paths : Own(file[f][p]) =>
       /\ <<f, p>> \notin job.conflicts
       /\ \/ CoveredIn(job.journal, f, p, file[f][p], Len(job.journal))
          \/ job.step = "close" /\ f = Target.file /\ job.before[p] # file[f][p]
CoverCaptured ==
    Captured /\ AtMaster => \A p \in Paths : Own(job.before[p]) =>
       CoveredIn(job.journal, Target.file, p, job.before[p], Len(job.journal))
CoverRecords ==
    \A k \in DOMAIN job.journal :
       LET r == job.journal[k]
       IN  r.file \in Masters /\ Own(r.before) => CoveredIn(job.journal, r.file, r.path, r.before, k - 1)

LEMMA CoverParts ==
    CoverInv <=> ("rollback" \notin torn /\ job # NoJob /\ Atomic =>
                     NoConflictYet /\ CoverDisk /\ CoverCaptured /\ CoverRecords)
BY DEF CoverInv, NoConflictYet, CoverDisk, CoverCaptured, CoverRecords, Own

LEMMA BeginCover ==
    ASSUME Shape, TraceInv, NEW e \in ToSet(store), Begin(e), "rollback" \notin torn, Atomic'
    PROVE  (NoConflictYet /\ CoverDisk /\ CoverCaptured /\ CoverRecords)'
<1>1. /\ Entry' = e /\ job'.step = "open" /\ job'.journal = <<>> /\ job'.conflicts = {}
      /\ job = NoJob /\ file' = file
  BY BeginShape DEF Begin, disk
<1>2. PICK n \in DOMAIN store : store[n] = e
  BY DEF ToSet
<1>3. NoTrace(e.id)
  BY <1>1, <1>2 DEF TraceInv, Atomic
<1>4. \A f \in Masters, p \in Paths : file[f][p].text # <<"sheet", e.id>>
  BY <1>3 DEF NoTrace, Known
<1>5. DOMAIN job'.journal = {}
  BY <1>1
<1> QED
  BY <1>1, <1>4, <1>5 DEF NoConflictYet, CoverDisk, CoverCaptured, CoverRecords, Captured, Own

LEMMA OpenCover ==
    ASSUME Shape, Open, NoConflictYet, CoverDisk, CoverRecords
    PROVE  (NoConflictYet /\ CoverDisk /\ CoverCaptured /\ CoverRecords)'
<1>1. /\ job.step = "open" /\ job'.step = "write" /\ Entry' = Entry /\ Target' = Target
      /\ job'.journal = job.journal /\ job'.conflicts = job.conflicts
      /\ job'.before = file[Target.file] /\ file' = file
  BY OpenEffect DEF Open, disk
<1>2. AtMaster => Target.file \in Masters
  BY <1>1, Working DEF Shape
<1>3. \A f \in Masters, p \in Paths : Own(file[f][p]) =>
         <<f, p>> \notin job.conflicts /\ CoveredIn(job.journal, f, p, file[f][p], Len(job.journal))
  BY <1>1 DEF CoverDisk
<1> QED
  BY <1>1, <1>2, <1>3 DEF NoConflictYet, CoverDisk, CoverCaptured, CoverRecords, AtMaster, Own

LEMMA WriteCover ==
    ASSUME Shape, Write, NoConflictYet, CoverDisk, CoverCaptured, CoverRecords
    PROVE  (NoConflictYet /\ CoverDisk /\ CoverCaptured /\ CoverRecords)'
<1>1. /\ job.step = "write" /\ job'.step = "close" /\ Entry' = Entry /\ Target' = Target
      /\ job'.journal = job.journal /\ job'.conflicts = job.conflicts
      /\ job'.before = job.before
  <2>1. job' = [job EXCEPT !.step = "close", !.error = job'.error] /\ job \in Jobs
    BY WriteShape
  <2>2. /\ job'.journal = job.journal /\ job'.conflicts = job.conflicts /\ job'.before = job.before
    BY <2>1 DEF Jobs
  <2> QED
    BY <2>2, WriteShape DEF Write
<1>2. job # NoJob /\ Target.file \in Files /\ Captured /\ Captured'
  BY <1>1, Working DEF Shape, Captured
<1>3. job.conflicts = {}
  BY <1>1 DEF NoConflictYet
<1>4. NoConflictYet' /\ CoverRecords' /\ CoverCaptured'
  BY <1>1, <1>2, <1>3 DEF NoConflictYet, CoverRecords, CoverCaptured, AtMaster, Own
<1>5. ASSUME NEW f \in Masters, NEW p \in Paths, file'[f][p] = file[f][p], Own(file[f][p])
      PROVE  CoveredIn(job.journal, f, p, file[f][p], Len(job.journal))
  BY <1>1, <1>5 DEF CoverDisk
<1>6. ASSUME \A f \in Masters, p \in Paths : Own(file'[f][p]) =>
                \/ CoveredIn(job.journal, f, p, file'[f][p], Len(job.journal))
                \/ f = Target.file /\ job.before[p] # file'[f][p]
      PROVE  CoverDisk'
  BY <1>1, <1>3, <1>6 DEF CoverDisk, Own
<1>7. ASSUME file' = file
      PROVE  CoverDisk'
  <2>1. ASSUME NEW f \in Masters, NEW p \in Paths, Own(file'[f][p])
        PROVE  \/ CoveredIn(job.journal, f, p, file'[f][p], Len(job.journal))
               \/ f = Target.file /\ job.before[p] # file'[f][p]
    <3>1. file'[f][p] = file[f][p] /\ Own(file[f][p])
      BY <1>7, <2>1
    <3> QED
      BY <1>5, <3>1
  <2> QED
    BY <1>6, <2>1
<1>8. ASSUME NEW q \in Paths,
             file' = [file EXCEPT ![Target.file] = [@ EXCEPT ![q] = [text |-> Expected, time |-> clock + 1]]]
      PROVE  CoverDisk'
  <2>1. ASSUME NEW f \in Masters, NEW p \in Paths, f = Target.file, p = q
        PROVE  job.before[p] # file'[f][p]
    <3>1. file'[f][p].time = clock + 1
      BY <1>2, <1>8, <2>1 DEF Shape, DiskInv
    <3>2. job.before[p] \in Copies(f, clock) /\ clock \in Nat
      BY <1>2, <2>1 DEF Shape, JobInv, DiskInv
    <3>3. job.before[p].time <= clock
      BY <3>2 DEF Copies, Absent
    <3> QED
      BY <3>1, <3>2, <3>3
  <2>2. \A f \in Masters, p \in Paths : ~(f = Target.file /\ p = q) => file'[f][p] = file[f][p]
    BY <1>2, <1>8, FilesSplit DEF Shape, DiskInv
  <2>3. ASSUME NEW f \in Masters, NEW p \in Paths, Own(file'[f][p])
        PROVE  \/ CoveredIn(job.journal, f, p, file'[f][p], Len(job.journal))
               \/ f = Target.file /\ job.before[p] # file'[f][p]
    <3>1. CASE f = Target.file /\ p = q
      BY <2>1, <3>1
    <3>2. CASE ~(f = Target.file /\ p = q)
      BY <1>5, <2>2, <2>3, <3>2
    <3> QED
      BY <3>1, <3>2
  <2> QED
    BY <1>6, <2>3
<1> QED
  BY <1>4, <1>7, <1>8, WriteEffect

LEMMA RefuseCover ==
    ASSUME Shape, Refuse, NoConflictYet, CoverDisk, CoverCaptured, CoverRecords
    PROVE  (NoConflictYet /\ CoverDisk /\ CoverCaptured /\ CoverRecords)'
<1>1. /\ job.step = "write" /\ job'.step = "close" /\ Entry' = Entry /\ Target' = Target
      /\ job'.journal = job.journal /\ job'.conflicts = job.conflicts
      /\ job'.before = job.before /\ file' = file
  <2>1. job' = [job EXCEPT !.step = "close", !.error = job'.error] /\ job \in Jobs
    BY RefuseShape
  <2>2. /\ job'.journal = job.journal /\ job'.conflicts = job.conflicts /\ job'.before = job.before
    BY <2>1 DEF Jobs
  <2> QED
    BY <2>2, RefuseShape DEF Refuse, disk
<1> QED
  BY <1>1 DEF NoConflictYet, CoverDisk, CoverRecords, CoverCaptured, Captured, AtMaster, Own

\* The journal with the records of the file at hand: what they say and what was there.
LEMMA JournalGrows ==
    ASSUME Shape, job.step = "close", job'.journal = job.journal \o Records
    PROVE  LET L == Len(job.journal)
               N == Len(Records)
           IN  /\ L \in Nat /\ N \in Nat /\ Len(job'.journal) = L + N
               /\ DOMAIN job.journal = 1 .. L /\ DOMAIN job'.journal = 1 .. (L + N)
               /\ \A i \in 1 .. L : job'.journal[i] = job.journal[i]
               /\ \A i \in (L + 1) .. (L + N) :
                     /\ job'.journal[i] = Records[i - L] /\ i - L \in 1 .. N
                     /\ job'.journal[i].file = Target.file
                     /\ job'.journal[i].path \in Changed
                     /\ job'.journal[i].before = job.before[job'.journal[i].path]
                     /\ job'.journal[i].after = file[Target.file][job'.journal[i].path]
               /\ \A i, k \in (L + 1) .. (L + N) :
                     job'.journal[i].path = job'.journal[k].path => i = k
               /\ \A p \in Changed : \E i \in (L + 1) .. (L + N) : job'.journal[i].path = p
<1> DEFINE L == Len(job.journal)
           N == Len(Records)
<1>1. Captured /\ job.journal \in Seq(Notes) /\ Records \in Seq(Notes) /\ L \in Nat /\ N \in Nat
  <2>1. Captured /\ job \in Jobs
    BY Working DEF Shape, Captured
  <2>2. job.journal \in Seq(Notes) /\ Records \in Seq(Notes)
    BY <2>1, RecordsShape DEF Jobs
  <2> QED
    BY <2>1, <2>2
<1>2. /\ job'.journal \in Seq(Notes) /\ Len(job'.journal) = L + N
      /\ \A i \in 1 .. (L + N) : job'.journal[i] = IF i <= L THEN job.journal[i] ELSE Records[i - L]
  BY <1>1, ConcatProperties
<1>3. DOMAIN job.journal = 1 .. L /\ DOMAIN job'.journal = 1 .. (L + N)
  BY <1>1, <1>2
<1> HIDE DEF L, N
<1>4. ASSUME NEW i \in 1 .. L
      PROVE  job'.journal[i] = job.journal[i]
  <2>1. i \in 1 .. (L + N) /\ i <= L
    BY <1>1
  <2> QED
    BY <1>2, <2>1
<1>5. ASSUME NEW i \in (L + 1) .. (L + N)
      PROVE  job'.journal[i] = Records[i - L] /\ i - L \in 1 .. N
  <2>1. i \in 1 .. (L + N) /\ ~(i <= L) /\ i - L \in 1 .. N
    BY <1>1
  <2> QED
    BY <1>2, <2>1
<1>6. /\ \A n \in 1 .. N :
            LET r == Records[n]
            IN  /\ r \in Notes /\ r.path \in Changed
                /\ r.file = Target.file
                /\ r.before = job.before[r.path] /\ r.after = file[Target.file][r.path]
      /\ \A p \in Changed : \E n \in 1 .. N : Records[n].path = p
      /\ \A m, n \in 1 .. N : Records[m].path = Records[n].path => m = n
  BY <1>1, RecordsShape DEF N
<1>7. ASSUME NEW i \in (L + 1) .. (L + N)
      PROVE  /\ job'.journal[i].file = Target.file
             /\ job'.journal[i].path \in Changed
             /\ job'.journal[i].before = job.before[job'.journal[i].path]
             /\ job'.journal[i].after = file[Target.file][job'.journal[i].path]
  <2>1. PICK n \in 1 .. N : n = i - L
    BY <1>5
  <2>2. PICK r : r = Records[n]
    OBVIOUS
  <2>3. /\ r.path \in Changed /\ r.file = Target.file
        /\ r.before = job.before[r.path] /\ r.after = file[Target.file][r.path]
    BY <1>6, <2>2
  <2>4. job'.journal[i] = r
    BY <1>5, <2>1, <2>2
  <2> QED
    BY <2>3, <2>4
<1>8. ASSUME NEW i \in (L + 1) .. (L + N), NEW k \in (L + 1) .. (L + N),
             job'.journal[i].path = job'.journal[k].path
      PROVE  i = k
  <2>1. i - L \in 1 .. N /\ k - L \in 1 .. N /\ Records[i - L].path = Records[k - L].path
    BY <1>5, <1>8
  <2>2. \A m, n \in 1 .. N : Records[m].path = Records[n].path => m = n
    BY <1>6
  <2>3. i - L = k - L
    BY <2>1, <2>2
  <2> QED
    BY <1>1, <2>3
<1>9. ASSUME NEW p \in Changed
      PROVE  \E i \in (L + 1) .. (L + N) : job'.journal[i].path = p
  <2>1. PICK n \in 1 .. N : Records[n].path = p
    BY <1>6
  <2>2. n + L \in (L + 1) .. (L + N) /\ (n + L) - L = n
    BY <1>1
  <2>3. job'.journal[n + L] = Records[(n + L) - L]
    BY <1>5, <2>2
  <2> QED
    BY <2>1, <2>2, <2>3
<1> QED
  BY <1>1, <1>2, <1>3, <1>4, <1>5, <1>7, <1>8, <1>9 DEF L, N

LEMMA CloseCover ==
    ASSUME Shape, job.step = "close", NEW next \in {"open", "done", "undo"}, Close(next), Atomic,
           next = "open" => job.at < Len(Todo(Entry)),
           NoConflictYet, CoverDisk, CoverCaptured, CoverRecords
    PROVE  (NoConflictYet /\ CoverDisk /\ CoverCaptured /\ CoverRecords)'
<1> DEFINE L == Len(job.journal)
           N == Len(Records)
           j == job.journal
           s == job'.journal
<1>1. /\ job'.step = next /\ Entry' = Entry /\ s = j \o Records
      /\ job'.conflicts = job.conflicts /\ job.conflicts = {} /\ file' = file
      /\ Captured /\ ~Captured' /\ job # NoJob
  BY CloseEffect, Working DEF Shape, NoConflictYet, Captured, Close, disk
<1>2. /\ L \in Nat /\ N \in Nat /\ Len(s) = L + N
      /\ DOMAIN j = 1 .. L /\ DOMAIN s = 1 .. (L + N)
      /\ \A i \in 1 .. L : s[i] = j[i]
      /\ \A i \in (L + 1) .. (L + N) :
            /\ s[i].file = Target.file /\ s[i].path \in Changed
            /\ s[i].before = job.before[s[i].path] /\ s[i].after = file[Target.file][s[i].path]
      /\ \A i, k \in (L + 1) .. (L + N) : s[i].path = s[k].path => i = k
      /\ \A p \in Changed : \E i \in (L + 1) .. (L + N) : s[i].path = p
  BY <1>1, JournalGrows
<1> HIDE DEF L, N, s, j
\* The cover of a copy that no new record names before position m.
<1>3. ASSUME NEW f, NEW p, NEW c, CoveredIn(j, f, p, c, L), NEW m \in L .. (L + N),
             \A i \in (L + 1) .. m : ~(s[i].file = f /\ s[i].path = p)
      PROVE  CoveredIn(s, f, p, c, m)
  <2>1. m \in Nat /\ L <= m
    BY <1>2
  <2> QED
    BY <1>2, <1>3, <2>1, CoverKept
<1>4. NoConflictYet' /\ CoverCaptured'
  BY <1>1 DEF NoConflictYet, CoverCaptured
<1>5. ASSUME NEW f \in Masters, NEW p \in Paths, Own(file[f][p])
      PROVE  CoveredIn(s, f, p, file[f][p], L + N)
  <2>1. L + N \in L .. (L + N)
    BY <1>2
  <2>2. \/ CoveredIn(j, f, p, file[f][p], L)
        \/ f = Target.file /\ job.before[p] # file[f][p]
    BY <1>1, <1>5 DEF CoverDisk, j, L
  <2>3. CASE f # Target.file
    BY <1>2, <1>3, <2>1, <2>2, <2>3
  <2>4. CASE f = Target.file /\ p \in Changed
    <3>1. PICK i \in (L + 1) .. (L + N) : s[i].path = p
      BY <1>2, <2>4
    <3>2. i \in 1 .. (L + N) /\ \A l \in (i + 1) .. (L + N) : l \in (L + 1) .. (L + N) /\ l # i
      BY <1>2
    <3>3. s[i].file = f /\ s[i].after = file[f][p]
      BY <1>2, <2>4, <3>1
    <3>4. \A l \in (i + 1) .. (L + N) : s[l].path # p
      BY <1>2, <3>1, <3>2
    <3> QED
      BY <3>1, <3>2, <3>3, <3>4 DEF CoveredIn
  <2>5. CASE f = Target.file /\ p \notin Changed
    <3>1. AtMaster /\ Owned(file[f][p])
      BY <1>5, <2>5, FilesSplit DEF AtMaster, Owned, Expected, Own
    <3>2. job.before[p] = file[f][p]
      BY <2>5, <3>1 DEF Changed
    <3>3. CoveredIn(j, f, p, file[f][p], L)
      BY <2>2, <3>2
    <3>4. \A i \in (L + 1) .. (L + N) : s[i].path # p
      BY <1>2, <2>5
    <3> QED
      BY <1>3, <2>1, <3>3, <3>4
  <2> QED
    BY <2>3, <2>4, <2>5
<1>6. CoverDisk'
  BY <1>1, <1>2, <1>5 DEF CoverDisk, Own, s
<1>7. ASSUME NEW k \in 1 .. (L + N), s[k].file \in Masters, Own(s[k].before)
      PROVE  CoveredIn(s, s[k].file, s[k].path, s[k].before, k - 1)
  <2>1. CASE k <= L
    <3>1. k \in 1 .. L /\ k - 1 \in Nat /\ \A i \in 1 .. (k - 1) : i \in 1 .. L
      BY <1>2, <2>1
    <3>2. s[k] = j[k]
      BY <1>2, <3>1
    <3>3. CoveredIn(j, s[k].file, s[k].path, s[k].before, k - 1)
      BY <1>2, <1>7, <3>1, <3>2 DEF CoverRecords, j, Own
    <3>4. \A i \in 1 .. (k - 1) : s[i] = j[i]
      BY <1>2, <3>1
    <3>5. \A i \in ((k - 1) + 1) .. (k - 1) : FALSE
      BY <3>1
    <3> QED
      BY <3>1, <3>3, <3>4, <3>5, CoverKept
  <2>2. CASE ~(k <= L)
    <3>1. k \in (L + 1) .. (L + N) /\ k - 1 \in L .. (L + N)
          /\ \A i \in (L + 1) .. (k - 1) : i \in (L + 1) .. (L + N) /\ i # k
      BY <1>2, <2>2
    <3>2. /\ s[k].file = Target.file /\ s[k].path \in Changed
          /\ s[k].before = job.before[s[k].path]
      BY <1>2, <3>1
    <3>3. AtMaster /\ s[k].path \in Paths
      BY <1>7, <3>2, FilesSplit DEF AtMaster, Changed
    <3>4. CoveredIn(j, s[k].file, s[k].path, s[k].before, L)
      BY <1>1, <1>7, <3>2, <3>3 DEF CoverCaptured, j, L, Own
    <3>5. \A i \in (L + 1) .. (k - 1) : s[i].path # s[k].path
      BY <1>2, <3>1
    <3> QED
      BY <1>3, <3>1, <3>4, <3>5
  <2> QED
    BY <2>1, <2>2
<1>8. CoverRecords'
  BY <1>1, <1>2, <1>7 DEF CoverRecords, Own, s
<1> QED
  BY <1>4, <1>6, <1>8

LEMMA UndoCover ==
    ASSUME Shape, Undo, CoverDisk, CoverRecords
    PROVE  (NoConflictYet /\ CoverDisk /\ CoverCaptured /\ CoverRecords)'
<1> DEFINE j == job.journal
           s == job'.journal
           n == Len(job.journal)
<1>1. /\ job \in Jobs /\ Record \in Notes /\ Record = j[n] /\ Entry' = Entry
      /\ job.step \in {"undo", "restore"} /\ job'.step = "undo" /\ s = Front(j)
      /\ \/ /\ Place(Record) \notin job.conflicts /\ job'.conflicts = job.conflicts
            /\ file' = [file EXCEPT ![Record.file] = [@ EXCEPT ![Record.path] = Record.before]]
         \/ /\ ~Mine(Record) /\ job'.conflicts = job.conflicts \cup {Place(Record)} /\ file' = file
  BY UndoEffect DEF Undo, Compare, Restore
<1>2. /\ n \in Nat \ {0} /\ n \in 1 .. n /\ Len(s) = n - 1 /\ DOMAIN j = 1 .. n /\ DOMAIN s = 1 .. (n - 1)
      /\ n - 1 \in Nat
      /\ \A i \in 1 .. (n - 1) : s[i] = j[i] /\ i \in 1 .. n
  <2>1. j \in Seq(Notes) /\ j # <<>>
    BY UndoEffect
  <2>2. /\ n \in Nat \ {0} /\ s \in Seq(Notes) /\ Len(s) = n - 1
        /\ \A i \in 1 .. (n - 1) : s[i] = j[i] /\ i \in 1 .. n
    BY <1>1, <2>1, LastNote
  <2> QED
    BY <2>1, <2>2
<1>3. ASSUME NEW f \in Masters, NEW p \in Paths, Own(file[f][p]), Place(Record) = <<f, p>>
      PROVE  Mine(Record)
  <2>1. <<f, p>> \notin job.conflicts /\ CoveredIn(j, f, p, file[f][p], n)
    BY <1>1, <1>3 DEF CoverDisk
  <2>2. PICK i \in 1 .. n : /\ j[i].file = f /\ j[i].path = p /\ j[i].after = file[f][p]
                            /\ \A l \in (i + 1) .. n : ~(j[l].file = f /\ j[l].path = p)
    BY <2>1 DEF CoveredIn
  <2>3. Record.file = f /\ Record.path = p
    BY <1>3 DEF Place
  <2>4. ~(n \in (i + 1) .. n)
    BY <1>1, <2>2, <2>3
  <2>5. i = n
    BY <1>2, <2>4
  <2> QED
    BY <1>1, <1>3, <2>1, <2>2, <2>3, <2>5 DEF Mine
<1> HIDE DEF j, s, n
<1>4. ASSUME NEW f, NEW p, NEW c, NEW k \in Nat, k <= n - 1, CoveredIn(j, f, p, c, k)
      PROVE  CoveredIn(s, f, p, c, k)
  <2>1. \A i \in 1 .. k : i \in 1 .. (n - 1)
    BY <1>2, <1>4
  <2>2. \A i \in (k + 1) .. k : FALSE
    OBVIOUS
  <2> QED
    BY <1>2, <1>4, <2>1, <2>2, CoverKept
<1>5. ASSUME NEW f \in Masters, NEW p \in Paths, Place(Record) # <<f, p>>, Own(file[f][p])
      PROVE  CoveredIn(s, f, p, file[f][p], n - 1)
  <2>1. CoveredIn(j, f, p, file[f][p], n)
    BY <1>1, <1>5 DEF CoverDisk, j, n
  <2>2. ~(j[n].file = f /\ j[n].path = p)
    BY <1>1, <1>5 DEF Place
  <2>3. CoveredIn(j, f, p, file[f][p], n - 1)
    BY <1>2, <2>1, <2>2, CoverCut
  <2> QED
    BY <1>2, <1>4, <2>3
<1>6. ASSUME NEW f \in Masters, NEW p \in Paths, Own(file'[f][p])
      PROVE  <<f, p>> \notin job'.conflicts /\ CoveredIn(s, f, p, file'[f][p], n - 1)
  <2> DEFINE Restored == /\ Place(Record) \notin job.conflicts /\ job'.conflicts = job.conflicts
                         /\ file' = [file EXCEPT ![Record.file] = [@ EXCEPT ![Record.path] = Record.before]]
  <2>1. CASE ~Restored
    <3>1. file' = file /\ Place(Record) # <<f, p>>
      BY <1>1, <1>3, <1>6, <2>1
    <3>2. <<f, p>> \notin job'.conflicts
      BY <1>1, <1>6, <3>1 DEF CoverDisk
    <3> QED
      BY <1>5, <1>6, <3>1, <3>2
  <2>2. CASE Restored /\ Place(Record) # <<f, p>>
    <3>1. ~(Record.file = f /\ Record.path = p) /\ f \in Files
      BY <2>2, FilesSplit DEF Place
    <3>2. file'[f][p] = file[f][p]
      BY <1>1, <2>2, <3>1 DEF Notes, Shape, DiskInv
    <3>3. <<f, p>> \notin job'.conflicts
      BY <1>1, <1>6, <2>2, <3>2 DEF CoverDisk
    <3> QED
      BY <1>5, <1>6, <2>2, <3>2, <3>3
  <2>3. CASE Restored /\ Place(Record) = <<f, p>>
    <3>1. Record.file = f /\ Record.path = p /\ f \in Files
      BY <2>3, FilesSplit DEF Place
    <3>2. file'[f][p] = Record.before
      BY <1>1, <2>3, <3>1 DEF Notes, Shape, DiskInv
    <3>3. CoveredIn(j, f, p, Record.before, n - 1)
      BY <1>1, <1>2, <1>6, <3>1, <3>2 DEF CoverRecords, j
    <3>4. <<f, p>> \notin job'.conflicts
      BY <2>3
    <3> QED
      BY <1>2, <1>4, <3>2, <3>3, <3>4
  <2> QED
    BY <2>1, <2>2, <2>3
<1>7. CoverDisk'
  BY <1>1, <1>2, <1>6 DEF CoverDisk, Own, s
<1>8. ASSUME NEW k \in 1 .. (n - 1), s[k].file \in Masters, Own(s[k].before)
      PROVE  CoveredIn(s, s[k].file, s[k].path, s[k].before, k - 1)
  <2>1. s[k] = j[k] /\ k \in 1 .. n
    BY <1>2
  <2>2. CoveredIn(j, s[k].file, s[k].path, s[k].before, k - 1)
    BY <1>2, <1>8, <2>1 DEF CoverRecords, j
  <2>3. k - 1 \in Nat /\ k - 1 <= n - 1
    BY <1>2
  <2> QED
    BY <1>4, <2>2, <2>3
<1>9. CoverRecords'
  BY <1>1, <1>2, <1>8 DEF CoverRecords, Own, s
<1> QED
  BY <1>1, <1>7, <1>9 DEF NoConflictYet, CoverCaptured, Captured

LEMMA CoverHolds ==
    ASSUME Shape, TraceInv, CoverInv, [Next]_vars
    PROVE  CoverInv'
<1> SUFFICES ASSUME "rollback" \notin torn', job' # NoJob, Atomic'
             PROVE  (NoConflictYet /\ CoverDisk /\ CoverCaptured /\ CoverRecords)'
  <2>1. CoverInv' <=> ("rollback" \notin torn /\ job # NoJob /\ Atomic =>
                          NoConflictYet /\ CoverDisk /\ CoverCaptured /\ CoverRecords)'
    BY DEF CoverInv, NoConflictYet, CoverDisk, CoverCaptured, CoverRecords, Own
  <2> QED
    BY <2>1
<1> DEFINE Before == NoConflictYet /\ CoverDisk /\ CoverCaptured /\ CoverRecords
<1>1. ASSUME torn' = torn, job # NoJob, Entry' = Entry
      PROVE  Before /\ Atomic
  <2>1. Atomic
    BY <1>1 DEF Atomic
  <2> QED
    BY <1>1, <2>1, CoverParts
<1>2. CASE UNCHANGED vars
  <2>1. /\ UNCHANGED <<file, job, torn>> /\ Entry' = Entry /\ Target' = Target
    BY <1>2 DEF vars, disk, Entry, Target
  <2>2. Before
    BY <1>1, <2>1
  <2> QED
    BY <2>1, <2>2 DEF NoConflictYet, CoverDisk, CoverCaptured, CoverRecords, Captured, AtMaster, Own
<1>3. CASE \E u \in Uploads : Preview(u.book, u.kind)
  <2>1. /\ UNCHANGED <<file, job, torn>> /\ job = NoJob
    BY <1>3 DEF Preview, disk
  <2> QED
    BY <2>1
<1>4. ASSUME NEW e \in ToSet(store), Begin(e) PROVE Before'
  <2>1. torn' = torn
    BY <1>4 DEF Begin
  <2> QED
    BY <1>4, <2>1, BeginCover
<1>5. CASE Open
  <2>1. torn' = torn /\ job # NoJob /\ Entry' = Entry
    BY <1>5, OpenEffect, JobsWork DEF Open
  <2> QED
    BY <1>1, <1>5, <2>1, OpenCover
<1>6. CASE Write
  <2>1. torn' = torn /\ job # NoJob /\ Entry' = Entry
    BY <1>6, WriteShape, JobsWork DEF Write
  <2> QED
    BY <1>1, <1>6, <2>1, WriteCover
<1>7. CASE Refuse
  <2>1. torn' = torn /\ job # NoJob /\ Entry' = Entry
    BY <1>7, RefuseShape, JobsWork DEF Refuse
  <2> QED
    BY <1>1, <1>7, <2>1, RefuseCover
<1>8. CASE Advance \/ Fail
  <2>1. PICK next \in {"open", "done", "undo"} :
           job.step = "close" /\ Close(next) /\ (next = "open" => job.at < Len(Todo(Entry)))
    BY <1>8 DEF Advance, Fail
  <2>2. torn' = torn /\ job # NoJob /\ Entry' = Entry
    BY <2>1, CloseEffect, Working DEF Shape, Close
  <2>3. Before /\ Atomic
    BY <1>1, <2>2
  <2> QED
    BY <2>1, <2>3, CloseCover
<1>9. CASE Undo
  <2>1. torn' = torn /\ job # NoJob /\ Entry' = Entry
    BY <1>9, UndoEffect, JobsWork
  <2> QED
    BY <1>1, <1>9, <2>1, UndoCover
<1>10. CASE Applied \/ Failed \/ RestoreFails \/ Stop
  BY <1>10 DEF Applied, Failed, RestoreFails, Stop
<1>11. ASSUME NEW g \in Files, Outside(g) PROVE Before'
  <2>1. job' = job /\ Entry' = Entry /\ Target' = Target /\ job # NoJob
        /\ "rollback" \notin torn /\ Atomic
    <3>1. torn' = torn \/ torn' = torn \cup {"outside"}
      BY <1>11 DEF Outside
    <3>2. job' = job
      BY <1>11 DEF Outside
    <3> QED
      BY <3>1, <3>2 DEF Entry, Target, Atomic
  <2>2. Before
    BY <2>1, CoverParts
  <2>3. PICK t \in TextsOf(g) :
          /\ file' = [file EXCEPT ![g] = [@ EXCEPT ![0] = [text |-> t, time |-> clock + 1]]]
          /\ g # Session => t = <<"outside", outside + 1>>
    BY <1>11, OutsideEffect
  <2>4. ASSUME NEW f \in Masters, NEW p \in Paths, Own(file'[f][p])
        PROVE  file'[f][p] = file[f][p]
    <3>1. CASE f = g /\ p = 0
      <4>1. file'[f][p].text = <<"outside", outside + 1>>
        BY <2>3, <3>1, FilesSplit DEF Shape, DiskInv
      <4>2. <<"outside", outside + 1>>[1] = <<"sheet", Entry.id>>[1]
        BY <2>4, <4>1 DEF Own
      <4> QED
        BY <4>2
    <3>2. CASE ~(f = g /\ p = 0)
      BY <2>3, <3>2, FilesSplit DEF Shape, DiskInv
    <3> QED
      BY <3>1, <3>2
  <2>5. ASSUME NEW f \in Masters, NEW p \in Paths, Own(file'[f][p])
        PROVE  /\ <<f, p>> \notin job.conflicts
               /\ \/ CoveredIn(job.journal, f, p, file'[f][p], Len(job.journal))
                  \/ job.step = "close" /\ f = Target.file /\ job.before[p] # file'[f][p]
    <3>1. file'[f][p] = file[f][p] /\ Own(file[f][p])
      BY <2>4, <2>5
    <3> QED
      BY <2>2, <3>1 DEF CoverDisk
  <2>6. CoverDisk'
    BY <2>1, <2>5 DEF CoverDisk, Own
  <2> QED
    BY <2>1, <2>2, <2>6 DEF NoConflictYet, CoverCaptured, CoverRecords, Captured, AtMaster, Own
<1>12. CASE Agree
  <2>1. torn' = torn /\ job # NoJob /\ Entry' = Entry /\ Target' = Target /\ file' = file
        /\ job.step # "close" /\ ~Captured' /\ job'.step = "restore"
        /\ job'.journal = job.journal /\ job'.conflicts = job.conflicts
    BY <1>12, AgreeEffect, JobsWork
  <2>2. Before
    BY <1>1, <2>1
  <2> QED
    BY <2>1, <2>2 DEF NoConflictYet, CoverDisk, CoverCaptured, CoverRecords, Own
<1> QED
  BY <1>2, <1>3, <1>4, <1>5, <1>6, <1>7, <1>8, <1>9, <1>10, <1>11, <1>12 DEF Next, Agree, Undo

\* A step that gives out no time writes no copy that is not known.
LEMMA Silent ==
    ASSUME Shape, Next, clock' = clock, NEW i, NoTrace(i)
    PROVE  NoTrace(i)'
<1>1. clock # clock + 1
  BY DEF Shape, DiskInv
<1>2. ~Write /\ \A f \in Files : ~Outside(f)
  BY <1>1 DEF Write, Outside
<1> QED
  BY <1>2, KnownGrows, FilesSplit DEF NoTrace

\* A copy another process writes is no sheet of an import.
LEMMA OutsideLeavesNoTrace ==
    ASSUME Shape, NEW g \in Files, Outside(g), NEW i, NoTrace(i)
    PROVE  NoTrace(i)'
<1> SUFFICES ASSUME NEW f \in Masters, NEW p \in Paths, NEW c, Known(f, p, c)'
             PROVE  c.text # <<"sheet", i>>
  BY DEF NoTrace
<1>1. PICK t \in TextsOf(g) :
        /\ file' = [file EXCEPT ![g] = [@ EXCEPT ![0] = [text |-> t, time |-> clock + 1]]]
        /\ g # Session => t = <<"outside", outside + 1>>
  BY OutsideEffect
<1>2. job' = job /\ f \in Files /\ f # Session /\ 0 \in Paths
  BY FilesSplit, DataFilesAssumption DEF Outside, Paths
<1>3. CASE Known(f, p, c)
  BY <1>3 DEF NoTrace
<1>4. CASE ~Known(f, p, c)
  <2>1. c = file'[f][p] /\ file'[f][p] # file[f][p]
    BY <1>2, <1>4 DEF Known, Captured, Target, Entry
  <2>2. f = g /\ p = 0
    BY <1>1, <1>2, <2>1 DEF Shape, DiskInv
  <2>3. c.text = <<"outside", outside + 1>>
    BY <1>1, <1>2, <2>1, <2>2 DEF Shape, DiskInv
  <2>4. <<"outside", outside + 1>>[1] # <<"sheet", i>>[1]
    OBVIOUS
  <2> QED
    BY <2>3, <2>4
<1> QED
  BY <1>3, <1>4

\* What an import writes is of its own preview.
LEMMA WriteLeavesOwnTrace ==
    ASSUME Shape, Write, NEW i, NoTrace(i), i # Entry.id
    PROVE  NoTrace(i)'
<1> SUFFICES ASSUME NEW f \in Masters, NEW p \in Paths, NEW c, Known(f, p, c)'
             PROVE  c.text # <<"sheet", i>>
  BY DEF NoTrace
<1>1. CASE Known(f, p, c)
  BY <1>1 DEF NoTrace
<1>2. CASE f = Target.file /\ c = [text |-> Expected, time |-> clock + 1]
  <2>1. c.text = <<"sheet", Entry.id>>
    BY <1>2, FilesSplit DEF Expected, AtMaster
  <2> QED
    BY <2>1, SameSheet
<1>3. ~Outside(f)
  BY JobsWork, WriteShape, WriteEffect DEF Write, Outside, Shape, StoreInv
<1> QED
  BY <1>1, <1>2, <1>3, KnownGrows, FilesSplit DEF Next

\* An import that is taken back to the last record has left nothing.
LEMMA UndoneLeavesNoTrace ==
    ASSUME Shape, CoverInv, Failed, Atomic, "rollback" \notin torn, NEW i, i = Entry.id
    PROVE  NoTrace(i)'
<1>1. job # NoJob /\ job.step = "undo" /\ job.journal = <<>> /\ job' = NoJob /\ file' = file
  BY Working DEF Shape, Failed, disk
<1>2. CoverDisk
  BY <1>1, CoverParts
<1>3. Len(job.journal) = 0
  BY <1>1
<1>4. ASSUME NEW f \in Masters, NEW p \in Paths
      PROVE  file[f][p].text # <<"sheet", Entry.id>>
  <2>1. \A c : ~CoveredIn(job.journal, f, p, c, Len(job.journal))
    BY <1>3 DEF CoveredIn
  <2> QED
    BY <1>1, <1>2, <2>1 DEF CoverDisk, Own
<1>5. ASSUME NEW f \in Masters, NEW p \in Paths, NEW c, Known(f, p, c)'
      PROVE  c = file[f][p]
  <2>1. ~Captured'
    BY <1>1 DEF Captured, NoJob
  <2> QED
    BY <1>1, <1>5, <2>1 DEF Known
<1>6. \A f \in Masters, p \in Paths : \A c : Known(f, p, c)' => c.text # <<"sheet", i>>
  BY <1>4, <1>5
<1> QED
  BY <1>6 DEF NoTrace

LEMMA TraceHolds ==
    ASSUME Shape, FreshInv, CoverInv, TraceInv, [Next]_vars
    PROVE  TraceInv'
<1>0. /\ store \in Seq(Entries) /\ DOMAIN store = 1 .. Len(store) /\ previews \in Nat
      /\ \A n \in DOMAIN store : store[n] \in Entries /\ store[n].id <= previews
      /\ \A m, n \in DOMAIN store : m < n => store[m].id < store[n].id
      /\ answer \in Answers
  BY DEF Shape, StoreInv, Ordered
<1>1. CASE UNCHANGED vars
  <2>1. \A i : NoTrace(i)' <=> NoTrace(i)
    BY <1>1 DEF vars, disk, NoTrace, Known, Captured, Target, Entry
  <2> QED
    BY <1>1, <2>1 DEF vars, counts, TraceInv, Entry
<1>2. CASE \E u \in Uploads : Preview(u.book, u.kind)
  <2>1. /\ UNCHANGED <<file, job, torn, answer>> /\ job = NoJob
    BY <1>2 DEF Preview, disk
  <2>2. ASSUME NEW i, NoTrace(i) PROVE NoTrace(i)'
    BY <2>1, <2>2 DEF NoTrace, Known, Captured, Target, Entry
  <2>3. ASSUME NEW n \in DOMAIN store', store'[n].kind = "workbook", "rollback" \notin torn
        PROVE  NoTrace(store'[n].id)
    <3>1. CASE \E m \in DOMAIN store : store'[n] = store[m]
      BY <2>1, <2>3, <3>1 DEF TraceInv
    <3>2. CASE store'[n].id = previews + 1
      <4>1. previews + 1 \in Nat /\ ~(previews + 1 <= previews)
        BY <1>0
      <4>2. \A f \in Masters, p \in Paths : \A c : Known(f, p, c) => c.text # <<"sheet", previews + 1>>
        BY <4>1 DEF FreshInv
      <4> QED
        BY <3>2, <4>2 DEF NoTrace
    <3>3. Next
      BY <1>2 DEF Next
    <3> QED
      BY <3>1, <3>2, <3>3, StoreGrows
  <2>4. answer.what \in {"failed", "changed"} /\ "rollback" \notin torn => NoTrace(answer.id)
    BY DEF TraceInv
  <2> QED
    BY <2>1, <2>2, <2>3, <2>4 DEF TraceInv
<1>3. ASSUME NEW e \in ToSet(store), Begin(e) PROVE TraceInv'
  <2>1. /\ answer' = NoAnswer /\ store' = store /\ torn' = torn /\ job = NoJob /\ Next
    BY <1>3 DEF Begin, Next
  <2>2. \A i : NoTrace(i) => NoTrace(i)'
    <3>1. /\ file' = file /\ job'.step = "open" /\ job'.journal = <<>>
      BY <1>3, BeginShape DEF Begin, disk
    <3>2. DOMAIN job'.journal = {}
      BY <3>1
    <3> QED
      BY <3>1, <3>2 DEF NoTrace, Known, Captured
  <2>3. answer'.what = "none"
    BY <2>1 DEF NoAnswer
  <2>4. \A n \in DOMAIN store : "rollback" \notin torn /\ store[n].kind = "workbook" => NoTrace(store[n].id)
    BY <2>1 DEF TraceInv
  <2> QED
    BY <2>1, <2>2, <2>3, <2>4 DEF TraceInv
<1>4. ASSUME job # NoJob, job' # NoJob, Entry' = Entry, torn' = torn, store' = store, answer' = answer,
             \A i : NoTrace(i) /\ i # Entry.id => NoTrace(i)'
      PROVE  TraceInv'
  <2>1. answer.what \notin {"failed", "changed"}
    BY <1>4 DEF TraceInv
  <2>2. ASSUME NEW n \in DOMAIN store, "rollback" \notin torn, store[n].kind = "workbook", store[n].id # Entry.id
        PROVE  NoTrace(store[n].id)
    BY <1>4, <2>2 DEF TraceInv
  <2> QED
    BY <1>4, <2>1, <2>2 DEF TraceInv
<1>5. CASE Open \/ Refuse
  <2>1. job # NoJob /\ job' # NoJob /\ Entry' = Entry /\ torn' = torn /\ store' = store /\ answer' = answer
    BY <1>5, OpenEffect, RefuseShape, JobsWork DEF Open, Refuse
  <2>2. Next /\ job'.step # job.step /\ job'.step # "open" /\ clock' = clock
    BY <1>5, OpenEffect, RefuseShape DEF Open, Refuse, Next, disk
  <2>3. \A i : NoTrace(i) => NoTrace(i)'
    BY <2>2, Silent
  <2> QED
    BY <1>4, <2>1, <2>3
<1>6. CASE Write
  <2>1. job # NoJob /\ job' # NoJob /\ Entry' = Entry /\ torn' = torn /\ store' = store /\ answer' = answer
    BY <1>6, WriteShape, JobsWork DEF Write
  <2> QED
    BY <1>4, <1>6, <2>1, WriteLeavesOwnTrace
<1>7. CASE Advance \/ Fail
  <2>1. PICK next \in {"open", "done", "undo"} :
           job.step = "close" /\ Close(next) /\ (next = "open" => job.at < Len(Todo(Entry)))
    BY <1>7 DEF Advance, Fail
  <2>2. /\ job # NoJob /\ job' # NoJob /\ Entry' = Entry /\ torn' = torn /\ store' = store
        /\ answer' = answer /\ clock' = clock
    BY <2>1, CloseEffect, Working, JobsWork DEF Shape, Close, disk
  <2>3. Next
    BY <1>7 DEF Next
  <2>4. \A i : NoTrace(i) => NoTrace(i)'
    BY <2>2, <2>3, Silent
  <2> QED
    BY <1>4, <2>2, <2>4
<1>8. CASE Agree \/ Undo
  <2>1. /\ job # NoJob /\ job' # NoJob /\ Entry' = Entry /\ torn' = torn /\ store' = store
        /\ answer' = answer /\ clock' = clock /\ Next
    BY <1>8, AgreeEffect, UndoEffect, JobsWork DEF Agree, Undo, Next
  <2>2. \A i : NoTrace(i) => NoTrace(i)'
    BY <2>1, Silent
  <2> QED
    BY <1>4, <2>1, <2>2
<1>9. CASE Applied \/ Failed \/ RestoreFails \/ Stop
  <2>1. /\ Next /\ clock' = clock /\ job' = NoJob
    BY <1>9 DEF Next, Applied, Failed, RestoreFails, Stop, disk
  <2>2. \A i : NoTrace(i) => NoTrace(i)'
    BY <2>1, Silent
  <2>3. CASE Applied
    <3>1. /\ torn' = torn /\ answer'.what = "applied" /\ job # NoJob
      BY <2>3, Working DEF Shape, Applied, counts
    <3>2. PICK n \in DOMAIN store : store[n].id = Entry.id /\ store' = RemoveAt(store, n)
      BY <2>3 DEF Applied
    <3> DEFINE k == Len(store)
    <3>3. n \in 1 .. k /\ k \in Nat /\ DOMAIN store = 1 .. k /\ store \in Seq(Entries)
      BY <1>0, <3>2
    <3>4. /\ store' \in Seq(Entries) /\ Len(store') = k - 1
          /\ \A i \in 1 .. (k - 1) : store'[i] = IF i < n THEN store[i] ELSE store[i + 1]
      BY <3>2, <3>3, Removed
    <3> HIDE DEF k
    <3>5. DOMAIN store' = 1 .. (k - 1)
      BY <3>3, <3>4
    <3>6. ASSUME NEW i \in 1 .. (k - 1)
          PROVE  \E m \in DOMAIN store : store'[i] = store[m] /\ m # n
      <4>1. CASE i < n
        <5>1. i \in 1 .. k /\ i # n
          BY <3>3, <4>1
        <5> QED
          BY <3>3, <3>4, <4>1, <5>1
      <4>2. CASE ~(i < n)
        <5>1. i + 1 \in 1 .. k /\ i + 1 # n
          BY <3>3, <4>2
        <5> QED
          BY <3>3, <3>4, <4>2, <5>1
      <4> QED
        BY <4>1, <4>2
    <3>7. ASSUME NEW i \in 1 .. (k - 1), "rollback" \notin torn, store'[i].kind = "workbook"
          PROVE  NoTrace(store'[i].id)
      <4>1. PICK m \in DOMAIN store : store'[i] = store[m] /\ m # n
        BY <3>6
      <4>2. m < n \/ n < m
        BY <3>3, <4>1
      <4>3. store[m].id \in Nat /\ store[n].id \in Nat /\ (store[m].id < store[n].id \/ store[n].id < store[m].id)
        BY <1>0, <3>2, <4>2 DEF Entries
      <4>4. store[m].id # Entry.id
        BY <3>2, <4>3
      <4> QED
        BY <3>7, <4>1, <4>4 DEF TraceInv
    <3> QED
      BY <2>1, <2>2, <3>1, <3>5, <3>7 DEF TraceInv
  <2>4. CASE Failed
    <3>1. /\ torn' = torn /\ answer' = [id |-> Entry.id, what |-> Verdict] /\ job # NoJob /\ store' = store
      BY <2>4, Working DEF Shape, Failed, counts
    <3>2. answer'.what \in {"failed", "changed"} => Atomic
      BY <3>1 DEF Verdict
    <3>3. ASSUME NEW i, i = Entry.id, "rollback" \notin torn, Atomic PROVE NoTrace(i)'
      BY <2>4, <3>3, UndoneLeavesNoTrace
    <3>4. ASSUME NEW n \in DOMAIN store, "rollback" \notin torn, store[n].kind = "workbook"
          PROVE  NoTrace(store[n].id)'
      <4>1. CASE store[n].id # Entry.id
        <5>1. NoTrace(store[n].id)
          BY <3>4, <4>1 DEF TraceInv
        <5> QED
          BY <2>2, <3>1, <5>1
      <4>2. CASE store[n].id = Entry.id
        <5>1. PICK m \in DOMAIN store : store[m] = Entry
          BY <3>1 DEF Shape, JobInv
        <5>2. m = n
          <6>1. store[m].id = store[n].id /\ store[m].id \in Nat
            BY <1>0, <4>2, <5>1 DEF Entries
          <6>2. ~(m < n) /\ ~(n < m)
            BY <1>0, <6>1
          <6> QED
            BY <1>0, <6>2
        <5>3. Atomic
          BY <3>4, <5>1, <5>2 DEF Atomic
        <5> QED
          BY <3>1, <3>3, <3>4, <4>2, <5>3
      <4> QED
        BY <4>1, <4>2
    <3>5. ASSUME "rollback" \notin torn, answer'.what \in {"failed", "changed"}
          PROVE  NoTrace(answer.id)'
      <4>1. answer'.id = Entry.id
        BY <3>1
      <4> QED
        BY <3>2, <3>3, <3>5, <4>1
    <3> QED
      BY <2>1, <3>1, <3>4, <3>5 DEF TraceInv
  <2>5. CASE RestoreFails
    <3>1. "rollback" \in torn' /\ answer'.what = "half done"
      BY <2>5 DEF RestoreFails
    <3> QED
      BY <3>1 DEF TraceInv
  <2>6. CASE Stop
    <3>1. answer' = answer /\ DOMAIN store' = {} /\ ("rollback" \in torn => "rollback" \in torn')
      BY <2>6 DEF Stop
    <3>2. answer.what \in {"failed", "changed"} /\ "rollback" \notin torn => NoTrace(answer.id)
      BY DEF TraceInv
    <3> QED
      BY <2>1, <2>2, <3>1, <3>2 DEF TraceInv
  <2> QED
    BY <1>9, <2>3, <2>4, <2>5, <2>6
<1>10. ASSUME NEW g \in Files, Outside(g) PROVE TraceInv'
  <2>1. /\ job' = job /\ Entry' = Entry /\ store' = store /\ answer' = answer
        /\ ("rollback" \in torn => "rollback" \in torn')
    BY <1>10 DEF Outside, Entry
  <2>2. \A i : NoTrace(i) => NoTrace(i)'
    BY <1>10, OutsideLeavesNoTrace
  <2>3. ASSUME "rollback" \notin torn
        PROVE  /\ \A n \in DOMAIN store :
                     store[n].kind = "workbook" /\ (job = NoJob \/ store[n].id # Entry.id) => NoTrace(store[n].id)
               /\ answer.what \in {"failed", "changed"} => NoTrace(answer.id)
    BY <2>3 DEF TraceInv
  <2>4. answer.what \in {"failed", "changed"} => job = NoJob
    BY DEF TraceInv
  <2> QED
    BY <2>1, <2>2, <2>3, <2>4 DEF TraceInv
<1> QED
  BY <1>1, <1>2, <1>3, <1>5, <1>6, <1>7, <1>8, <1>9, <1>10 DEF Next, Agree, Undo

LEMMA TraceInit == Init => TraceInv /\ CoverInv
BY EmptySeq DEF Init, TraceInv, CoverInv, NoAnswer, NoJob

LEMMA TraceAlways == Spec => [](TraceInv /\ CoverInv)
BY TraceInit, TraceHolds, CoverHolds, ShapeAlways, FreshAlways, PTL DEF Spec

\* A two-sheet import whose rollback went through has left no master sheet of its own in
\* any copy, of any file, at any place of the write or the rollback where it failed:
\* the journal has a record of every copy it wrote, and each record is the last word on
\* its copy or is followed by one that is.
THEOREM FailedImportLeavesNothing == Spec => []FailedLeavesNothing
<1>1. Shape /\ TraceInv => FailedLeavesNothing
  <2> SUFFICES ASSUME TraceInv, NEW f \in Masters, NEW p \in Paths,
                      answer.what \in {"failed", "changed"}, "rollback" \notin torn
               PROVE  file[f][p].text # <<"sheet", answer.id>>
    BY DEF FailedLeavesNothing
  <2>1. NoTrace(answer.id)
    BY DEF TraceInv
  <2> QED
    BY <2>1 DEF NoTrace, Known
<1> QED
  BY <1>1, ShapeAlways, TraceAlways, PTL

-----------------------------------------------------------------------------
(* The two sheets of the session.                                                *)

\* What was audited together when the preview was made.
AuditOf(e) == CASE e.kind = "workbook" -> <<e.book.weekly, e.book.studio>>
                [] e.kind = "weekly"   -> <<e.book.weekly, e.seen[Session].studio>>
                [] e.kind = "studio"   -> <<e.seen[Session].weekly, e.book.studio>>
Clear(rows) == <<rows.weekly, rows.studio>> \notin Clashes
Found == Entry.seen[Session]
Swapped == [Found EXCEPT ![Entry.kind] = Entry.book[Entry.kind]]

\* Among the first k records, those of a session copy lead from base to c.
From(j, p, c, k, base) ==
    \/ CoveredIn(j, Session, p, c, k)
    \/ c = base[p] /\ \A l \in 1 .. k : ~(j[l].file = Session /\ j[l].path = p)

ChainDisk(base) ==
    \A p \in Paths :
       \/ From(job.journal, p, file[Session][p], Len(job.journal), base)
       \/ job.step = "close" /\ ~AtMaster /\ p \in Changed
ChainCaptured(base) ==
    Captured /\ ~AtMaster => \A p \in Paths :
       From(job.journal, p, job.before[p], Len(job.journal), base)
ChainRecords(base) ==
    \A k \in DOMAIN job.journal : job.journal[k].file = Session =>
       From(job.journal, job.journal[k].path, job.journal[k].before, k - 1, base)
ChainClear == /\ job.step \notin {"undo", "restore"} => job.conflicts = {}
              /\ \A p \in Paths : <<Session, p>> \notin job.conflicts
\* Taking the records back leads to base.
Chain(base) == ChainDisk(base) /\ ChainCaptured(base) /\ ChainRecords(base) /\ ChainClear

\* A one-sheet import has the rows that were found or those with its sheet swapped in; a
\* two-sheet import can go back to what was found.
OneSheet ==
    /\ job.journal = <<>>
    /\ Rows \in {Found, Swapped}
    /\ Captured /\ ~AtMaster => job.rows \in {Found, Swapped}
TwoSheets == \E base \in [Paths -> AnyCopies] : Read(base) = Found /\ Chain(base)

AuditInv ==
    /\ \A n \in DOMAIN store : store[n].conflict <=> AuditOf(store[n]) \in Clashes
    /\ torn = {} /\ job = NoJob => Clear(Rows)
    /\ torn = {} /\ job # NoJob =>
          /\ Found \in RowsOf /\ Clear(Found) /\ AuditOf(Entry) \notin Clashes
          /\ ~Atomic => OneSheet
          /\ Atomic => TwoSheets

LEMMA FromKept ==
    ASSUME NEW p, NEW c, NEW j, NEW s, NEW k \in Nat, NEW m \in Nat, NEW base, k <= m,
           From(j, p, c, k, base), \A i \in 1 .. k : s[i] = j[i],
           \A i \in (k + 1) .. m : ~(s[i].file = Session /\ s[i].path = p)
    PROVE  From(s, p, c, m, base)
<1>1. CASE CoveredIn(j, Session, p, c, k)
  <2>1. CoveredIn(s, Session, p, c, m)
    BY <1>1, CoverKept
  <2> QED
    BY <2>1 DEF From
<1>2. CASE c = base[p] /\ \A l \in 1 .. k : ~(j[l].file = Session /\ j[l].path = p)
  <2>1. ASSUME NEW l \in 1 .. m
        PROVE  ~(s[l].file = Session /\ s[l].path = p)
    <3>1. l \in 1 .. k \/ l \in (k + 1) .. m
      OBVIOUS
    <3> QED
      BY <1>2, <3>1
  <2> QED
    BY <1>2, <2>1 DEF From
<1> QED
  BY <1>1, <1>2 DEF From

LEMMA FromCut ==
    ASSUME NEW p, NEW c, NEW j, NEW n \in Nat \ {0}, NEW base,
           From(j, p, c, n, base), ~(j[n].file = Session /\ j[n].path = p)
    PROVE  From(j, p, c, n - 1, base)
<1>1. CASE CoveredIn(j, Session, p, c, n)
  <2>1. CoveredIn(j, Session, p, c, n - 1)
    BY <1>1, CoverCut
  <2> QED
    BY <2>1 DEF From
<1>2. CASE c = base[p] /\ \A l \in 1 .. n : ~(j[l].file = Session /\ j[l].path = p)
  <2>1. \A l \in 1 .. (n - 1) : l \in 1 .. n
    OBVIOUS
  <2> QED
    BY <1>2, <2>1 DEF From
<1> QED
  BY <1>1, <1>2 DEF From

LEMMA OpenChain ==
    ASSUME Shape, Open, NEW base, Chain(base)
    PROVE  Chain(base)'
<1>1. /\ job.step = "open" /\ job'.step = "write" /\ Entry' = Entry /\ Target' = Target
      /\ job'.journal = job.journal /\ job'.conflicts = job.conflicts
      /\ job'.before = file[Target.file] /\ file' = file
  BY OpenEffect DEF Open, disk
<1>2. \A p \in Paths : From(job.journal, p, file[Session][p], Len(job.journal), base)
  BY <1>1 DEF Chain, ChainDisk
<1>3. ChainDisk(base)'
  BY <1>1, <1>2 DEF ChainDisk
<1>4. ChainCaptured(base)'
  BY <1>1, <1>2 DEF ChainCaptured, AtMaster
<1>5. ChainRecords(base)' /\ ChainClear'
  BY <1>1 DEF Chain, ChainRecords, ChainClear
<1> QED
  BY <1>3, <1>4, <1>5 DEF Chain

LEMMA WriteChain ==
    ASSUME Shape, Write, NEW base, Chain(base)
    PROVE  Chain(base)'
<1>1. /\ job.step = "write" /\ job'.step = "close" /\ Entry' = Entry /\ Target' = Target
      /\ job'.journal = job.journal /\ job'.conflicts = job.conflicts
      /\ job'.before = job.before /\ job'.rows = job.rows
  <2>1. job' = [job EXCEPT !.step = "close", !.error = job'.error] /\ job \in Jobs
    BY WriteShape
  <2>2. /\ job'.journal = job.journal /\ job'.conflicts = job.conflicts /\ job'.before = job.before
        /\ job'.rows = job.rows
    BY <2>1 DEF Jobs
  <2> QED
    BY <2>2, WriteShape DEF Write
<1>2. job # NoJob /\ Target.file \in Files /\ Captured /\ Captured'
  BY <1>1, Working DEF Shape, Captured
<1>3. ChainRecords(base)' /\ ChainClear' /\ ChainCaptured(base)'
  BY <1>1, <1>2 DEF Chain, ChainRecords, ChainClear, ChainCaptured, AtMaster
<1>4. \A p \in Paths : From(job.journal, p, file[Session][p], Len(job.journal), base)
  BY <1>1 DEF Chain, ChainDisk
<1>5. ASSUME file'[Session] = file[Session]
      PROVE  ChainDisk(base)'
  BY <1>1, <1>4, <1>5 DEF ChainDisk
<1>6. ASSUME NEW q \in Paths, Target.file = Session,
             file' = [file EXCEPT ![Session] = [@ EXCEPT ![q] = [text |-> Expected, time |-> clock + 1]]]
      PROVE  ChainDisk(base)'
  <2>1. file'[Session][q] = [text |-> Expected, time |-> clock + 1]
    BY <1>2, <1>6 DEF Shape, DiskInv
  <2>2. job.before[q] # file'[Session][q]
    <3>1. job.before[q] \in Copies(Session, clock) /\ clock \in Nat
      BY <1>2, <1>6 DEF Shape, JobInv, DiskInv
    <3>2. job.before[q].time <= clock
      BY <3>1 DEF Copies, Absent
    <3> QED
      BY <2>1, <3>1, <3>2
  <2>3. Expected' = Expected
    BY <1>1 DEF Expected, Uploaded, AtMaster
  <2>4. (job.step = "close" /\ ~AtMaster /\ q \in Changed)'
    BY <1>1, <1>6, <2>1, <2>2, <2>3 DEF AtMaster, Changed, Owned
  <2>5. \A p \in Paths \ {q} : file'[Session][p] = file[Session][p]
    BY <1>2, <1>6 DEF Shape, DiskInv
  <2> QED
    BY <1>1, <1>4, <2>4, <2>5 DEF ChainDisk
<1>7. ChainDisk(base)'
  <2>1. CASE file' = file
    BY <1>5, <2>1
  <2>2. ASSUME NEW q \in Paths,
               file' = [file EXCEPT ![Target.file] = [@ EXCEPT ![q] = [text |-> Expected, time |-> clock + 1]]]
        PROVE  ChainDisk(base)'
    <3>1. CASE Target.file = Session
      BY <1>6, <2>2, <3>1
    <3>2. CASE Target.file # Session
      <4>1. file'[Session] = file[Session]
        BY <1>2, <2>2, <3>2, FilesSplit DEF Shape, DiskInv
      <4> QED
        BY <1>5, <4>1
    <3> QED
      BY <3>1, <3>2
  <2> QED
    BY <2>1, <2>2, WriteEffect
<1> QED
  BY <1>3, <1>7 DEF Chain

LEMMA RefuseChain ==
    ASSUME Shape, Refuse, NEW base, Chain(base)
    PROVE  Chain(base)'
<1>1. /\ job.step = "write" /\ job'.step = "close" /\ Entry' = Entry /\ Target' = Target
      /\ job'.journal = job.journal /\ job'.conflicts = job.conflicts
      /\ job'.before = job.before /\ file' = file
  <2>1. job' = [job EXCEPT !.step = "close", !.error = job'.error] /\ job \in Jobs
    BY RefuseShape
  <2>2. /\ job'.journal = job.journal /\ job'.conflicts = job.conflicts /\ job'.before = job.before
    BY <2>1 DEF Jobs
  <2> QED
    BY <2>2, RefuseShape DEF Refuse, disk
<1>2. \A p \in Paths : From(job.journal, p, file[Session][p], Len(job.journal), base)
  BY <1>1 DEF Chain, ChainDisk
<1>3. ChainDisk(base)'
  BY <1>1, <1>2 DEF ChainDisk
<1>4. ChainRecords(base)' /\ ChainClear' /\ ChainCaptured(base)'
  BY <1>1 DEF Chain, ChainRecords, ChainClear, ChainCaptured, AtMaster, Captured
<1> QED
  BY <1>3, <1>4 DEF Chain

LEMMA CloseChain ==
    ASSUME Shape, job.step = "close", NEW next \in {"open", "done", "undo"}, Close(next), Atomic,
           next = "open" => job.at < Len(Todo(Entry)), NEW base, Chain(base)
    PROVE  Chain(base)'
<1> DEFINE L == Len(job.journal)
           N == Len(Records)
           j == job.journal
           s == job'.journal
<1>1. /\ job'.step = next /\ Entry' = Entry /\ s = j \o Records
      /\ job'.conflicts = job.conflicts /\ job.conflicts = {} /\ file' = file
      /\ Captured /\ ~Captured' /\ job # NoJob
  BY CloseEffect, Working DEF Shape, Chain, ChainClear, Captured, Close, disk
<1>2. /\ L \in Nat /\ N \in Nat /\ Len(s) = L + N
      /\ DOMAIN j = 1 .. L /\ DOMAIN s = 1 .. (L + N)
      /\ \A i \in 1 .. L : s[i] = j[i]
      /\ \A i \in (L + 1) .. (L + N) :
            /\ s[i].file = Target.file /\ s[i].path \in Changed
            /\ s[i].before = job.before[s[i].path] /\ s[i].after = file[Target.file][s[i].path]
      /\ \A i, k \in (L + 1) .. (L + N) : s[i].path = s[k].path => i = k
      /\ \A p \in Changed : \E i \in (L + 1) .. (L + N) : s[i].path = p
  BY <1>1, JournalGrows
<1> HIDE DEF L, N, s, j
<1>3. ASSUME NEW p, NEW c, From(j, p, c, L, base), NEW m \in L .. (L + N),
             \A i \in (L + 1) .. m : ~(s[i].file = Session /\ s[i].path = p)
      PROVE  From(s, p, c, m, base)
  <2>1. m \in Nat /\ L <= m
    BY <1>2
  <2> QED
    BY <1>2, <1>3, <2>1, FromKept
<1>4. ChainClear' /\ ChainCaptured(base)'
  BY <1>1 DEF Chain, ChainClear, ChainCaptured
<1>5. ASSUME NEW p \in Paths
      PROVE  From(s, p, file[Session][p], L + N, base)
  <2>1. L + N \in L .. (L + N)
    BY <1>2
  <2>2. From(j, p, file[Session][p], L, base) \/ (~AtMaster /\ p \in Changed)
    BY <1>1 DEF Chain, ChainDisk, j, L
  <2>3. CASE AtMaster
    <3>1. Target.file # Session
      BY <2>3 DEF AtMaster
    <3> QED
      BY <1>2, <1>3, <2>1, <2>2, <2>3, <3>1
  <2>4. CASE ~AtMaster /\ p \in Changed
    <3>1. PICK i \in (L + 1) .. (L + N) : s[i].path = p
      BY <1>2, <2>4
    <3>2. i \in 1 .. (L + N) /\ \A l \in (i + 1) .. (L + N) : l \in (L + 1) .. (L + N) /\ l # i
      BY <1>2
    <3>3. s[i].file = Session /\ s[i].after = file[Session][p]
      BY <1>2, <2>4, <3>1 DEF AtMaster
    <3>4. \A l \in (i + 1) .. (L + N) : s[l].path # p
      BY <1>2, <3>1, <3>2
    <3>5. CoveredIn(s, Session, p, file[Session][p], L + N)
      BY <3>1, <3>2, <3>3, <3>4 DEF CoveredIn
    <3> QED
      BY <3>5 DEF From
  <2>5. CASE ~AtMaster /\ p \notin Changed
    <3>1. \A i \in (L + 1) .. (L + N) : s[i].path # p
      BY <1>2, <2>5
    <3> QED
      BY <1>3, <2>1, <2>2, <2>5, <3>1
  <2> QED
    BY <2>3, <2>4, <2>5
<1>6. ChainDisk(base)'
  BY <1>1, <1>2, <1>5 DEF ChainDisk, s
<1>7. ASSUME NEW k \in 1 .. (L + N), s[k].file = Session
      PROVE  From(s, s[k].path, s[k].before, k - 1, base)
  <2>1. CASE k <= L
    <3>1. k \in 1 .. L /\ k - 1 \in Nat /\ \A i \in 1 .. (k - 1) : i \in 1 .. L
      BY <1>2, <2>1
    <3>2. s[k] = j[k]
      BY <1>2, <3>1
    <3>3. From(j, s[k].path, s[k].before, k - 1, base)
      BY <1>2, <1>7, <3>1, <3>2 DEF Chain, ChainRecords, j
    <3>4. \A i \in 1 .. (k - 1) : s[i] = j[i]
      BY <1>2, <3>1
    <3>5. \A i \in ((k - 1) + 1) .. (k - 1) : FALSE
      BY <3>1
    <3> QED
      BY <3>1, <3>3, <3>4, <3>5, FromKept
  <2>2. CASE ~(k <= L)
    <3>1. k \in (L + 1) .. (L + N) /\ k - 1 \in L .. (L + N)
          /\ \A i \in (L + 1) .. (k - 1) : i \in (L + 1) .. (L + N) /\ i # k
      BY <1>2, <2>2
    <3>2. /\ s[k].file = Target.file /\ s[k].path \in Changed
          /\ s[k].before = job.before[s[k].path]
      BY <1>2, <3>1
    <3>3. ~AtMaster /\ s[k].path \in Paths
      BY <1>7, <3>2 DEF AtMaster, Changed
    <3>4. From(j, s[k].path, s[k].before, L, base)
      BY <1>1, <3>2, <3>3 DEF Chain, ChainCaptured, j, L
    <3>5. \A i \in (L + 1) .. (k - 1) : s[i].path # s[k].path
      BY <1>2, <3>1
    <3> QED
      BY <1>3, <3>1, <3>4, <3>5
  <2> QED
    BY <2>1, <2>2
<1>8. ChainRecords(base)'
  BY <1>1, <1>2, <1>7 DEF ChainRecords, s
<1> QED
  BY <1>4, <1>6, <1>8 DEF Chain

LEMMA UndoChain ==
    ASSUME Shape, Undo, NEW base, Chain(base)
    PROVE  Chain(base)'
<1> DEFINE j == job.journal
           s == job'.journal
           n == Len(job.journal)
<1>1. /\ job \in Jobs /\ Record \in Notes /\ Record = j[n] /\ Entry' = Entry
      /\ job.step \in {"undo", "restore"} /\ job'.step = "undo" /\ s = Front(j)
      /\ \/ /\ job'.conflicts = job.conflicts
            /\ file' = [file EXCEPT ![Record.file] = [@ EXCEPT ![Record.path] = Record.before]]
         \/ /\ ~Mine(Record) /\ file' = file
            /\ job'.conflicts = job.conflicts \cup {Place(Record)}
  BY UndoEffect DEF Undo, Compare, Restore
<1>2. /\ n \in Nat \ {0} /\ n \in 1 .. n /\ Len(s) = n - 1 /\ DOMAIN j = 1 .. n /\ DOMAIN s = 1 .. (n - 1)
      /\ n - 1 \in Nat
      /\ \A i \in 1 .. (n - 1) : s[i] = j[i] /\ i \in 1 .. n
  <2>1. j \in Seq(Notes) /\ j # <<>>
    BY UndoEffect
  <2>2. /\ n \in Nat \ {0} /\ s \in Seq(Notes) /\ Len(s) = n - 1
        /\ \A i \in 1 .. (n - 1) : s[i] = j[i] /\ i \in 1 .. n
    BY <1>1, <2>1, LastNote
  <2> QED
    BY <2>1, <2>2
\* The last record of a session copy is its own: nobody wrote the session in between.
<1>3. ASSUME Record.file = Session
      PROVE  Mine(Record)
  <2>1. Record.path \in Paths /\ <<Session, Record.path>> \notin job.conflicts
    BY <1>1 DEF Notes, Chain, ChainClear
  <2>2. From(j, Record.path, file[Session][Record.path], n, base)
    BY <1>1, <2>1 DEF Chain, ChainDisk
  <2>3. CoveredIn(j, Session, Record.path, file[Session][Record.path], n)
    BY <1>1, <1>2, <1>3, <2>2 DEF From
  <2>4. PICK i \in 1 .. n : /\ j[i].after = file[Session][Record.path]
                            /\ \A l \in (i + 1) .. n : ~(j[l].file = Session /\ j[l].path = Record.path)
    BY <2>3 DEF CoveredIn
  <2>5. ~(n \in (i + 1) .. n)
    BY <1>1, <1>3, <2>4
  <2>6. i = n
    BY <1>2, <2>5
  <2> QED
    BY <1>1, <1>3, <2>1, <2>4, <2>6 DEF Mine, Place
<1> HIDE DEF j, s, n
<1>4. ASSUME NEW p, NEW c, NEW k \in Nat, k <= n - 1, From(j, p, c, k, base)
      PROVE  From(s, p, c, k, base)
  <2>1. \A i \in 1 .. k : i \in 1 .. (n - 1)
    BY <1>2, <1>4
  <2>2. \A i \in (k + 1) .. k : FALSE
    OBVIOUS
  <2> QED
    BY <1>2, <1>4, <2>1, <2>2, FromKept
<1>5. ASSUME NEW p \in Paths
      PROVE  From(s, p, file'[Session][p], n - 1, base)
  <2>1. CASE Record.file = Session /\ Record.path = p
    <3>1. file'[Session][p] = Record.before
      BY <1>1, <1>3, <2>1, FilesSplit DEF Shape, DiskInv
    <3>2. From(j, p, Record.before, n - 1, base)
      BY <1>1, <1>2, <2>1 DEF Chain, ChainRecords, j
    <3> QED
      BY <1>2, <1>4, <3>1, <3>2
  <2>2. CASE ~(Record.file = Session /\ Record.path = p)
    <3>1. file'[Session][p] = file[Session][p]
      BY <1>1, <2>2, FilesSplit DEF Notes, Shape, DiskInv
    <3>2. From(j, p, file[Session][p], n, base)
      BY <1>1 DEF Chain, ChainDisk, j, n
    <3>3. From(j, p, file[Session][p], n - 1, base)
      BY <1>1, <1>2, <2>2, <3>2, FromCut
    <3> QED
      BY <1>2, <1>4, <3>1, <3>3
  <2> QED
    BY <2>1, <2>2
<1>6. ChainDisk(base)'
  BY <1>1, <1>2, <1>5 DEF ChainDisk, s
<1>7. ASSUME NEW k \in 1 .. (n - 1), s[k].file = Session
      PROVE  From(s, s[k].path, s[k].before, k - 1, base)
  <2>1. s[k] = j[k] /\ k \in 1 .. n
    BY <1>2
  <2>2. From(j, s[k].path, s[k].before, k - 1, base)
    BY <1>2, <1>7, <2>1 DEF Chain, ChainRecords, j
  <2>3. k - 1 \in Nat /\ k - 1 <= n - 1
    BY <1>2
  <2> QED
    BY <1>4, <2>2, <2>3
<1>8. ChainRecords(base)'
  BY <1>1, <1>2, <1>7 DEF ChainRecords, s
<1>9. ChainClear' /\ ChainCaptured(base)'
  <2>1. \A p \in Paths : <<Session, p>> \notin job'.conflicts
    <3>1. CASE job'.conflicts = job.conflicts
      BY <3>1 DEF Chain, ChainClear
    <3>2. CASE ~Mine(Record) /\ job'.conflicts = job.conflicts \cup {Place(Record)}
      <4>1. Record.file # Session
        BY <1>3, <3>2
      <4>2. \A p \in Paths : <<Session, p>> # Place(Record)
        BY <4>1 DEF Place
      <4> QED
        BY <1>1, <3>2, <4>2 DEF Chain, ChainClear
    <3> QED
      BY <1>1, <3>1, <3>2
  <2> QED
    BY <1>1, <2>1 DEF ChainClear, ChainCaptured, Captured
<1> QED
  BY <1>6, <1>8, <1>9 DEF Chain

\* When the last record is taken back, the session is what was found.
LEMMA UndoneIsFound ==
    ASSUME Shape, job.step = "undo", job.journal = <<>>, TwoSheets
    PROVE  Rows = Found
<1>1. PICK base \in [Paths -> AnyCopies] : Read(base) = Found /\ Chain(base)
  BY DEF TwoSheets
<1>2. Len(job.journal) = 0 /\ 1 .. 0 = {}
  OBVIOUS
<1>3. ASSUME NEW p \in Paths
      PROVE  file[Session][p] = base[p]
  <2>1. From(job.journal, p, file[Session][p], 0, base)
    BY <1>1, <1>2 DEF Chain, ChainDisk
  <2>2. ~CoveredIn(job.journal, Session, p, file[Session][p], 0)
    BY <1>2 DEF CoveredIn
  <2> QED
    BY <2>1, <2>2 DEF From
<1>4. file[Session] \in [Paths -> AnyCopies]
  BY FilesSplit DEF Shape, DiskInv
<1>5. file[Session] = base
  BY <1>1, <1>3, <1>4
<1> QED
  BY <1>1, <1>5 DEF Rows

\* A one-sheet import writes the sheet of its kind.
LEMMA OneSlot ==
    ASSUME Shape, job # NoJob, ~Atomic
    PROVE  Target.slot = Entry.kind /\ Entry.kind \in {"weekly", "studio"} /\ Entry.book \in Books
           /\ Entry.book[Entry.kind] \in Sheets
<1>1. job \in Jobs /\ job.at \in 1 .. Len(Todo(Entry))
  BY DEF Shape, JobInv
<1>2. Entry \in Entries
  BY <1>1 DEF Jobs, Entry
<1>3. Entry.kind \in {"weekly", "studio"} /\ Entry.book \in Books
  BY <1>2 DEF Entries, Kinds, Atomic
<1>4. \A n \in 1 .. Len(Todo(Entry)) :
         Todo(Entry)[n].slot = IF Entry.kind # "workbook" THEN Entry.kind ELSE Todo(Entry)[n].slot
  BY <1>3, TodoShape DEF Kinds
<1>5. Target.slot = Entry.kind
  BY <1>1, <1>3, <1>4 DEF Target
<1> QED
  BY <1>3, <1>5 DEF Books, Sheets

LEMMA SwappedIsClear ==
    ASSUME Shape, job # NoJob, ~Atomic, Found \in RowsOf, AuditOf(Entry) \notin Clashes
    PROVE  Clear(Swapped) /\ Swapped \in RowsOf
<1>1. Entry.kind \in {"weekly", "studio"} /\ Entry.book[Entry.kind] \in Sheets
  BY OneSlot
<1>2. CASE Entry.kind = "weekly"
  <2>1. Swapped.weekly = Entry.book.weekly /\ Swapped.studio = Found.studio /\ Swapped \in RowsOf
    BY <1>1, <1>2 DEF Swapped, RowsOf
  <2>2. AuditOf(Entry) = <<Entry.book.weekly, Found.studio>>
    BY <1>2 DEF AuditOf, Found
  <2> QED
    BY <2>1, <2>2 DEF Clear
<1>3. CASE Entry.kind = "studio"
  <2>1. Swapped.weekly = Found.weekly /\ Swapped.studio = Entry.book.studio /\ Swapped \in RowsOf
    BY <1>1, <1>3 DEF Swapped, RowsOf
  <2>2. AuditOf(Entry) = <<Found.weekly, Entry.book.studio>>
    BY <1>3 DEF AuditOf, Found
  <2> QED
    BY <2>1, <2>2 DEF Clear
<1> QED
  BY <1>1, <1>2, <1>3

LEMMA WriteOne ==
    ASSUME Shape, Write, ~Atomic, Found \in RowsOf, OneSheet
    PROVE  OneSheet'
<1>1. /\ Entry' = Entry /\ Target' = Target /\ job'.journal = job.journal /\ job'.rows = job.rows
      /\ job # NoJob /\ job \in Jobs /\ Captured /\ Captured' /\ Target.file \in Files
  <2>1. job' = [job EXCEPT !.step = "close", !.error = job'.error] /\ job \in Jobs
    BY WriteShape
  <2>2. /\ job'.journal = job.journal /\ job'.rows = job.rows
    BY <2>1 DEF Jobs
  <2> QED
    BY <2>1, <2>2, WriteShape, JobsWork, Working DEF Shape, Write, Captured
<1>2. Found' = Found /\ Swapped' = Swapped
  BY <1>1 DEF Found, Swapped
<1>3. Rows' \in {Found, Swapped}
  <2>1. CASE file' = file
    BY <2>1 DEF OneSheet, Rows
  <2>2. ASSUME NEW p \in Paths,
               file' = [file EXCEPT ![Target.file] = [@ EXCEPT ![p] = [text |-> Expected, time |-> clock + 1]]]
        PROVE  Rows' \in {Found, Swapped}
    <3>1. Read(file'[Target.file]) = Expected /\ \A g \in Files \ {Target.file} : file'[g] = file[g]
      BY <1>1, <2>2, ExpectedText, NewCopyIsRead
    <3>2. CASE AtMaster
      <4>1. file'[Session] = file[Session]
        BY <3>1, <3>2, FilesSplit DEF AtMaster
      <4> QED
        BY <4>1 DEF OneSheet, Rows
    <3>3. CASE ~AtMaster
      <4>1. Rows' = [job.rows EXCEPT ![Entry.kind] = Entry.book[Entry.kind]]
        BY <1>1, <3>1, <3>3, OneSlot DEF AtMaster, Rows, Expected, Uploaded
      <4>2. job.rows \in {Found, Swapped} /\ Entry.kind \in {"weekly", "studio"}
        BY <1>1, <3>3, OneSlot DEF OneSheet
      <4>3. [Swapped EXCEPT ![Entry.kind] = Entry.book[Entry.kind]] = Swapped
        <5>1. CASE Entry.kind = "weekly"
          BY <5>1 DEF Swapped, RowsOf
        <5>2. CASE Entry.kind = "studio"
          BY <5>2 DEF Swapped, RowsOf
        <5> QED
          BY <4>2, <5>1, <5>2
      <4> QED
        BY <4>1, <4>2, <4>3 DEF Swapped
    <3> QED
      BY <3>2, <3>3
  <2> QED
    BY <2>1, <2>2, WriteEffect
<1>4. job'.journal = <<>>
  BY <1>1 DEF OneSheet
<1>5. Captured' /\ ~AtMaster' => job'.rows \in {Found, Swapped}
  BY <1>1 DEF OneSheet, AtMaster
<1> QED
  BY <1>2, <1>3, <1>4, <1>5 DEF OneSheet

\* A step of an import at work that leaves the session alone and takes no new rows.
LEMMA QuietOne ==
    ASSUME Shape, job # NoJob, Entry' = Entry, file'[Session] = file[Session], OneSheet,
           job'.journal = job.journal,
           Captured' => Captured /\ Target' = Target /\ job'.rows = job.rows
    PROVE  OneSheet'
<1>1. Found' = Found /\ Swapped' = Swapped /\ Rows' = Rows
  BY DEF Found, Swapped, Rows
<1> QED
  BY <1>1 DEF OneSheet, AtMaster

LEMMA ConflictsAreKept ==
    ASSUME Shape, Next, \A n \in DOMAIN store : store[n].conflict <=> AuditOf(store[n]) \in Clashes,
           NEW n \in DOMAIN store'
    PROVE  store'[n].conflict <=> AuditOf(store'[n]) \in Clashes
<1>1. CASE \E m \in DOMAIN store : store'[n] = store[m]
  BY <1>1
<1>2. ASSUME NEW u \in Uploads,
             store'[n] = [id |-> previews + 1, book |-> u.book, kind |-> u.kind, version |-> Version,
                          conflict |-> Audited(u.book, u.kind) \in Clashes,
                          seen |-> [f \in Files |-> Read(file[f])]]
      PROVE  store'[n].conflict <=> AuditOf(store'[n]) \in Clashes
  <2>1. PICK e : e = store'[n]
    OBVIOUS
  <2>2. /\ e.book = u.book /\ e.kind = u.kind /\ e.seen = [f \in Files |-> Read(file[f])]
    BY <1>2, <2>1
  <2>3. e.conflict = (Audited(u.book, u.kind) \in Clashes)
    BY <1>2, <2>1
  <2>4. u.kind \in Kinds /\ e.seen[Session] = Rows
    BY <2>2, ImportAssumption, FilesSplit DEF Kinds, Rows
  <2>5. AuditOf(e) = Audited(u.book, u.kind)
    BY <2>2, <2>4 DEF AuditOf, Audited, Kinds
  <2> QED
    BY <2>1, <2>3, <2>5
<1> QED
  BY <1>1, <1>2, StoreGrows

LEMMA BeginAudit ==
    ASSUME Shape, SeenInv, AuditInv, NEW e \in ToSet(store), Begin(e), torn = {}
    PROVE  (/\ Found \in RowsOf /\ Clear(Found) /\ AuditOf(Entry) \notin Clashes
            /\ ~Atomic => OneSheet
            /\ Atomic => TwoSheets)'
<1>1. /\ job = NoJob /\ Entry' = e /\ e \in Entries /\ job'.step = "open" /\ job'.journal = <<>>
      /\ job'.conflicts = {} /\ file' = file /\ e.version = Version /\ ~e.conflict
  BY BeginShape DEF Begin, Current, disk
<1>2. PICK n \in DOMAIN store : store[n] = e
  BY DEF ToSet
<1>3. e.seen[Session] = Rows
  <2>1. Session \in Files \ Untracked
    BY ImportAssumption DEF Files
  <2> QED
    BY <1>1, <1>2, <2>1, ReadsAsSeen DEF Rows
<1>4. AuditOf(e) \notin Clashes /\ Clear(Rows) /\ Rows \in RowsOf
  BY <1>1, <1>2, Readable DEF AuditInv, Shape
<1>5. Found' = Rows /\ Rows' = Rows /\ ~Captured'
  BY <1>1, <1>3 DEF Found, Rows, Captured
<1>6. OneSheet'
  BY <1>1, <1>5 DEF OneSheet
<1>7. TwoSheets'
  <2>1. PICK base : base = file[Session]
    OBVIOUS
  <2>2. base \in [Paths -> AnyCopies] /\ Read(base) = Found'
    BY <1>5, <2>1, FilesSplit DEF Shape, DiskInv, Rows
  <2>3. DOMAIN job'.journal = {} /\ Len(job'.journal) = 0 /\ 1 .. 0 = {}
    BY <1>1
  <2>4. \A p \in Paths : From(job'.journal, p, file'[Session][p], 0, base)
    BY <1>1, <2>1, <2>3 DEF From
  <2>5. ChainDisk(base)' /\ ChainRecords(base)' /\ ChainCaptured(base)' /\ ChainClear'
    BY <1>1, <1>5, <2>3, <2>4 DEF ChainDisk, ChainRecords, ChainCaptured, ChainClear
  <2>6. Chain(base)'
    BY <2>5 DEF Chain
  <2> QED
    BY <2>2, <2>6 DEF TwoSheets
<1> QED
  BY <1>1, <1>4, <1>5, <1>6, <1>7

\* The rows keep their sheets when another process marks the session.
LEMMA OutsideRows ==
    ASSUME Shape, NEW f \in Files, Outside(f)
    PROVE  /\ Rows'.weekly = Rows.weekly /\ Rows'.studio = Rows.studio
           /\ f # Session => file'[Session] = file[Session]
<1>1. PICK t \in TextsOf(f) :
         /\ file' = [file EXCEPT ![f] = [@ EXCEPT ![0] = [text |-> t, time |-> clock + 1]]]
         /\ f = Session => t = [Rows EXCEPT !.mark = outside + 1]
  BY OutsideEffect
<1>2. 0 \in Paths
  BY DataFilesAssumption DEF Paths
<1>3. Read(file'[f]) = t /\ \A g \in Files \ {f} : file'[g] = file[g]
  BY <1>1, <1>2, NewCopyIsRead
<1>4. CASE f = Session
  <2>1. Rows' = [Rows EXCEPT !.mark = outside + 1] /\ Rows \in RowsOf
    BY <1>1, <1>3, <1>4, Readable DEF Rows, Shape
  <2> QED
    BY <1>4, <2>1 DEF RowsOf
<1>5. CASE f # Session
  <2>1. file'[Session] = file[Session]
    BY <1>3, <1>5, FilesSplit
  <2> QED
    BY <2>1 DEF Rows
<1> QED
  BY <1>4, <1>5

LEMMA QuietTwo ==
    ASSUME Shape, job # NoJob, Entry' = Entry,
           \A base : Chain(base) => Chain(base)', TwoSheets
    PROVE  TwoSheets'
<1>1. Found' = Found
  BY DEF Found
<1>2. PICK base \in [Paths -> AnyCopies] : Read(base) = Found /\ Chain(base)
  BY DEF TwoSheets
<1>3. Chain(base)'
  BY <1>2
<1> QED
  BY <1>1, <1>2, <1>3 DEF TwoSheets

LEMMA AuditHolds ==
    ASSUME Shape, SeenInv, WholeInv, AuditInv, [Next]_vars
    PROVE  AuditInv'
<1> DEFINE Settled == torn = {} /\ job = NoJob => Clear(Rows)
           Going == torn = {} /\ job # NoJob =>
                       /\ Found \in RowsOf /\ Clear(Found) /\ AuditOf(Entry) \notin Clashes
                       /\ ~Atomic => OneSheet
                       /\ Atomic => TwoSheets
<1>1. Settled /\ Going
  BY DEF AuditInv
<1>2. ASSUME Settled', Going'
      PROVE  AuditInv'
  <2>1. \A n \in DOMAIN store' : store'[n].conflict <=> AuditOf(store'[n]) \in Clashes
    <3>1. CASE Next
      BY <3>1, ConflictsAreKept DEF AuditInv
    <3>2. CASE UNCHANGED vars
      BY <3>2 DEF AuditInv, vars
    <3> QED
      BY <3>1, <3>2
  <2> QED
    BY <1>2, <2>1 DEF AuditInv
<1> HIDE DEF Settled, Going
<1>3. ASSUME job # NoJob, job' # NoJob, Entry' = Entry, torn' = {} => torn = {},
             torn = {} /\ ~Atomic /\ Found \in RowsOf /\ OneSheet => OneSheet',
             torn = {} /\ Atomic /\ TwoSheets => TwoSheets'
      PROVE  Settled' /\ Going'
  <2>1. Found' = Found /\ Atomic' = Atomic /\ Clear(Found)' = Clear(Found)
        /\ (AuditOf(Entry)' \notin Clashes <=> AuditOf(Entry) \notin Clashes)
    BY <1>3 DEF Found, Atomic, Clear, AuditOf
  <2>2. Settled'
    BY <1>3 DEF Settled
  <2>3. Going'
    BY <1>1, <1>3, <2>1 DEF Going
  <2> QED
    BY <2>2, <2>3
<1>4. ASSUME job' = NoJob, torn' = {} => torn = {} /\ (Clear(Rows) => Clear(Rows'))
                                          /\ (job # NoJob => Clear(Rows))
      PROVE  Settled' /\ Going'
  BY <1>1, <1>4 DEF Settled, Going
<1>5. CASE UNCHANGED vars
  <2>1. UNCHANGED <<file, job, torn, store>> /\ UNCHANGED <<Entry, Target, Rows, Found, Swapped, Atomic, AtMaster, Changed>>
    BY <1>5 DEF vars, disk, Entry, Target, Rows, Found, Swapped, Atomic, AtMaster, Changed, Owned, Expected, Uploaded
  <2>2. CASE job = NoJob
    BY <1>2, <1>4, <2>1, <2>2
  <2>3. CASE job # NoJob
    <3>1. OneSheet => OneSheet'
      BY <2>1, <2>3, QuietOne DEF Captured
    <3>2. \A base : Chain(base) => Chain(base)'
      BY <2>1 DEF Chain, ChainDisk, ChainCaptured, ChainRecords, ChainClear, Captured
    <3> QED
      BY <1>2, <1>3, <2>1, <2>3, <3>1, <3>2, QuietTwo
  <2> QED
    BY <1>2, <2>2, <2>3
<1>6. CASE \E u \in Uploads : Preview(u.book, u.kind)
  <2>1. UNCHANGED <<file, job, torn>> /\ job = NoJob /\ Rows' = Rows
    BY <1>6 DEF Preview, disk, Rows
  <2> QED
    BY <1>2, <1>4, <2>1
<1>7. ASSUME NEW e \in ToSet(store), Begin(e) PROVE AuditInv'
  <2>1. torn' = torn /\ job' # NoJob
    BY <1>7, BeginShape, JobsWork DEF Begin
  <2>2. Going' /\ Settled'
    BY <1>7, <2>1, BeginAudit DEF Going, Settled
  <2> QED
    BY <1>2, <2>2
<1>8. CASE Open
  <2>1. /\ job # NoJob /\ job' # NoJob /\ Entry' = Entry /\ torn' = torn /\ file' = file
        /\ job'.journal = job.journal /\ job'.rows = Rows
    BY <1>8, OpenEffect, JobsWork DEF Open, disk
  <2>2. OneSheet => OneSheet'
    BY <2>1 DEF OneSheet, Found, Swapped, Rows
  <2>3. \A base : Chain(base) => Chain(base)'
    BY <1>8, OpenChain
  <2> QED
    BY <1>2, <1>3, <2>1, <2>2, <2>3, QuietTwo
<1>9. CASE Write
  <2>1. /\ job # NoJob /\ job' # NoJob /\ Entry' = Entry /\ torn' = torn
    BY <1>9, WriteShape, JobsWork DEF Write
  <2>2. ~Atomic /\ Found \in RowsOf /\ OneSheet => OneSheet'
    BY <1>9, WriteOne
  <2>3. \A base : Chain(base) => Chain(base)'
    BY <1>9, WriteChain
  <2> QED
    BY <1>2, <1>3, <2>1, <2>2, <2>3, QuietTwo
<1>10. CASE Refuse
  <2>1. /\ job # NoJob /\ job' # NoJob /\ Entry' = Entry /\ torn' = torn /\ file' = file /\ Captured
        /\ Target' = Target /\ job \in Jobs /\ job' = [job EXCEPT !.step = "close", !.error = job'.error]
    BY <1>10, RefuseShape, JobsWork DEF Refuse, disk, Captured
  <2>2. job'.journal = job.journal /\ job'.rows = job.rows
    BY <2>1 DEF Jobs
  <2>3. OneSheet => OneSheet'
    BY <2>1, <2>2, QuietOne
  <2>4. \A base : Chain(base) => Chain(base)'
    BY <1>10, RefuseChain
  <2> QED
    BY <1>2, <1>3, <2>1, <2>3, <2>4, QuietTwo
<1>11. CASE Advance \/ Fail
  <2>1. PICK next \in {"open", "done", "undo"} :
           job.step = "close" /\ Close(next) /\ (next = "open" => job.at < Len(Todo(Entry)))
    BY <1>11 DEF Advance, Fail
  <2>2. /\ job # NoJob /\ job' # NoJob /\ Entry' = Entry /\ torn' = torn /\ file' = file
        /\ ~Captured' /\ (~Atomic => job'.journal = job.journal)
    BY <2>1, CloseEffect, Working, JobsWork DEF Shape, Close, disk, Captured
  <2>3. ~Atomic /\ OneSheet => OneSheet'
    BY <2>2, QuietOne
  <2>4. Atomic => \A base : Chain(base) => Chain(base)'
    BY <2>1, CloseChain
  <2> QED
    BY <1>2, <1>3, <2>2, <2>3, <2>4, QuietTwo
<1>12. CASE Applied
  <2>1. job' = NoJob /\ job # NoJob /\ torn' = torn /\ file' = file /\ job.step = "done" /\ Rows' = Rows
    BY <1>12, Working DEF Shape, Applied, disk, counts, Rows
  <2>2. CASE Atomic
    <3>1. Rows.weekly = Entry.book.weekly /\ Rows.studio = Entry.book.studio
      BY <2>1, <2>2, WholeWhenDone
    <3>2. torn = {} => Clear(Rows)
      BY <1>1, <2>1, <2>2, <3>1 DEF Going, AuditOf, Atomic, Clear
    <3> QED
      BY <1>2, <1>4, <2>1, <3>2
  <2>3. CASE ~Atomic
    <3>1. torn = {} => Clear(Rows)
      BY <1>1, <2>1, <2>3, SwappedIsClear DEF Going, OneSheet
    <3> QED
      BY <1>2, <1>4, <2>1, <3>1
  <2> QED
    BY <2>2, <2>3
<1>13. CASE Undo
  <2>1. /\ job # NoJob /\ job' # NoJob /\ Entry' = Entry /\ torn' = torn /\ job.journal # <<>>
    BY <1>13, UndoEffect, JobsWork
  <2>2. \A base : Chain(base) => Chain(base)'
    BY <1>13, UndoChain
  <2>3. ~OneSheet
    BY <2>1 DEF OneSheet
  <2> QED
    BY <1>2, <1>3, <2>1, <2>2, <2>3, QuietTwo
<1>14. CASE Failed
  <2>1. /\ job' = NoJob /\ job # NoJob /\ torn' = torn /\ file' = file /\ job.step = "undo"
        /\ job.journal = <<>> /\ Rows' = Rows
    BY <1>14, Working DEF Shape, Failed, disk, counts, Rows
  <2>2. torn = {} => Clear(Rows)
    <3>1. CASE Atomic
      BY <1>1, <2>1, <3>1, UndoneIsFound DEF Going
    <3>2. CASE ~Atomic
      BY <1>1, <2>1, <3>2, SwappedIsClear DEF Going, OneSheet
    <3> QED
      BY <3>1, <3>2
  <2> QED
    BY <1>2, <1>4, <2>1, <2>2
<1>15. CASE RestoreFails
  <2>1. torn' # {}
    BY <1>15 DEF RestoreFails
  <2> QED
    BY <1>2, <2>1 DEF Settled, Going
<1>16. CASE Stop
  <2>1. job' = NoJob /\ Rows' = Rows /\ torn' = IF job # NoJob THEN torn \cup {"stop"} ELSE torn
    BY <1>16 DEF Stop, disk, Rows
  <2>2. CASE job = NoJob
    BY <1>2, <1>4, <2>1, <2>2
  <2>3. CASE job # NoJob
    <3>1. torn' # {}
      BY <2>1, <2>3
    <3> QED
      BY <1>2, <3>1 DEF Settled, Going
  <2> QED
    BY <2>2, <2>3
<1>17. ASSUME NEW g \in Files, Outside(g) PROVE AuditInv'
  <2>1. job' = job /\ Entry' = Entry /\ Target' = Target
        /\ torn' = IF g = Session /\ job # NoJob THEN torn \cup {"outside"} ELSE torn
    BY <1>17 DEF Outside, Entry, Target
  <2>2. CASE job = NoJob
    <3>1. Clear(Rows) => Clear(Rows')
      BY <1>17, OutsideRows DEF Clear
    <3> QED
      BY <1>2, <1>4, <2>1, <2>2, <3>1
  <2>3. CASE job # NoJob /\ g = Session
    <3>1. torn' # {}
      BY <2>1, <2>3
    <3> QED
      BY <1>2, <3>1 DEF Settled, Going
  <2>4. CASE job # NoJob /\ g # Session
    <3>1. file'[Session] = file[Session]
      BY <1>17, <2>4, OutsideRows
    <3>2. Captured' = Captured /\ AtMaster' = AtMaster /\ (~AtMaster => Changed' = Changed)
      BY <2>1, <3>1 DEF Captured, AtMaster, Changed, Owned, Expected, Uploaded
    <3>3. OneSheet => OneSheet'
      BY <2>1, <2>4, <3>1, <3>2, QuietOne
    <3>4. ASSUME NEW base, Chain(base) PROVE Chain(base)'
      <4>1. ChainDisk(base)'
        BY <2>1, <3>1, <3>2, <3>4 DEF Chain, ChainDisk
      <4>2. ChainCaptured(base)' /\ ChainRecords(base)' /\ ChainClear'
        BY <2>1, <3>2, <3>4 DEF Chain, ChainCaptured, ChainRecords, ChainClear
      <4> QED
        BY <4>1, <4>2 DEF Chain
    <3> QED
      BY <1>2, <1>3, <2>1, <2>4, <3>3, <3>4, QuietTwo
  <2> QED
    BY <2>2, <2>3, <2>4
<1>18. CASE Agree
  <2>1. /\ job # NoJob /\ job' # NoJob /\ Entry' = Entry /\ Target' = Target /\ torn' = torn
        /\ file' = file /\ job.journal # <<>> /\ job'.journal = job.journal
        /\ job'.conflicts = job.conflicts /\ job.step # "close" /\ ~Captured' /\ job'.step = "restore"
    BY <1>18, AgreeEffect, JobsWork
  <2>2. \A base : Chain(base) => Chain(base)'
    BY <2>1 DEF Chain, ChainDisk, ChainCaptured, ChainRecords, ChainClear
  <2>3. ~OneSheet
    BY <2>1 DEF OneSheet
  <2> QED
    BY <1>2, <1>3, <2>1, <2>2, <2>3, QuietTwo
<1> QED
  BY <1>5, <1>6, <1>7, <1>8, <1>9, <1>10, <1>11, <1>12, <1>13, <1>14, <1>15, <1>16, <1>17, <1>18
     DEF Next, Agree, Undo

LEMMA AuditInit == Init => AuditInv
<1> SUFFICES ASSUME Init PROVE AuditInv
  OBVIOUS
<1>1. Rows = [weekly |-> NoSheet, studio |-> NoSheet, mark |-> 0]
  <2>1. Shape /\ 0 \in Paths
    BY ShapeInit, DataFilesAssumption DEF Paths
  <2>2. \A q \in Paths \ {0} : file[Session][q].time < file[Session][0].time
    BY <2>1, FilesSplit DEF Init, Absent
  <2>3. Disk(file[Session])
    BY <2>1, Readable, FilesSplit DEF Shape
  <2>4. Read(file[Session]) = file[Session][0].text
    BY <2>1, <2>2, <2>3, NewestIsRead
  <2> QED
    BY <2>1, <2>4, FilesSplit DEF Init, Rows
<1>2. Clear(Rows)
  BY <1>1, ImportAssumption DEF Clear
<1> QED
  BY <1>2, EmptySeq DEF Init, AuditInv

LEMMA AuditAlways == Spec => []AuditInv
BY AuditInit, AuditHolds, ShapeAlways, SeenAlways, WholeAlways, PTL DEF Spec

\* The session never holds a weekly and a studio sheet that were not audited together,
\* unless the application stopped, a rollback failed or another process saved the session
\* in the middle of an import: an import begins only when the session reads as its preview
\* saw it, writes what was audited, and goes back to what it found when it fails, which
\* its records lead to from any point.
THEOREM SheetsAreAudited == Spec => []SheetsWereAudited
<1>1. AuditInv => SheetsWereAudited
  BY DEF AuditInv, SheetsWereAudited, Clear
<1> QED
  BY <1>1, AuditAlways, PTL
=============================================================================
