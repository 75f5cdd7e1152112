------------------------- MODULE SessionStore_proofs -------------------------
(***************************************************************************)
(* The session file for any clients, payloads, shadow copies and faults:   *)
(* the files stay apart by their times, and a save that succeeds is what   *)
(* the next load returns.  The argument is the clock: whatever was written *)
(* before is older than what is written now, torn and half-cleared files   *)
(* included.  Without torn files and half-cleared ones the files behave    *)
(* like one register: a path and a time tell the text to whoever loaded    *)
(* it, so who holds the present revision has seen the present session.     *)
(***************************************************************************)
EXTENDS SessionStore, TLAPS

\* No file is from the future, and a file that exists has a time.
TimesInv ==
    /\ \A p \in Paths : file[p].time <= clock
    /\ \A p \in Paths : file[p] # NoFile => file[p].time > 0

\* A command at work is somebody's, and a save has something to write.
LockInv ==
    /\ lock.op # "none" => lock.by \in Clients
    /\ lock.op = "save" => lock.text \in Drafts

IInv == TypeOK /\ TimesInv /\ LockInv

-----------------------------------------------------------------------------
(* What a reader finds. *)

\* The preferred file is one of the copies.
LEMMA PreferredIsNewest ==
    ASSUME \E p \in Paths : Newest(p)
    PROVE  Preferred \in Paths /\ Newest(Preferred)
BY DEF Preferred

\* A reader finds a payload or nothing.
LEMMA ContentIsTyped == Content \in Drafts \cup {Nothing}
<1>1. CASE \E p \in Paths : Newest(p)
  BY <1>1, PreferredIsNewest DEF Content, Newest, Readable
<1>2. CASE ~ \E p \in Paths : Newest(p)
  BY <1>2 DEF Content
<1> QED
  BY <1>1, <1>2

\* A revision names a copy and its time, or no copy.
LEMMA RevisionIsTyped ==
    ASSUME TypeOK
    PROVE  Revision \in [path: Paths \cup {-1}, time: 0..MaxClock]
<1>1. CASE \E p \in Paths : Newest(p)
  BY <1>1, PreferredIsNewest DEF Revision, TypeOK
<1>2. CASE ~ \E p \in Paths : Newest(p)
  BY <1>2, StoreAssumption DEF Revision, NoRevision
<1> QED
  BY <1>1, <1>2

-----------------------------------------------------------------------------
LEMMA InitHolds == Init => IInv
BY StoreAssumption
DEF Init, IInv, TypeOK, TimesInv, LockInv, Free, NoFile, NoCopy, NoRevision, Paths

\* A client's copy changes; the files, the clock and the lock stay.
LEMMA CopyHolds ==
    ASSUME IInv, NEW c \in Clients,
           NEW new \in [text: Drafts \cup {Nothing, Unloaded},
                        revision: [path: Paths \cup {-1}, time: 0..MaxClock]],
           copy' = [copy EXCEPT ![c] = new], UNCHANGED <<file, clock, lock>>
    PROVE  IInv'
BY DEF IInv, TypeOK, TimesInv, LockInv

\* The lock is taken, passed on to the next path, or given back; nothing else changes,
\* but for the copy of a client that gives up.
LEMMA LockHolds ==
    ASSUME IInv,
           lock' \in [op: {"none", "save", "clear"}, by: Clients \cup {Nothing},
                      text: Drafts \cup {Nothing}, at: Paths],
           LockInv',
           UNCHANGED <<file, clock>>,
           copy' = copy \/ \E c \in Clients : copy' = [copy EXCEPT ![c] = NoCopy]
    PROVE  IInv'
<1>1. NoCopy \in [text: Drafts \cup {Nothing, Unloaded},
                  revision: [path: Paths \cup {-1}, time: 0..MaxClock]]
  BY StoreAssumption DEF NoCopy, NoRevision
<1>2. copy' \in [Clients -> [text: Drafts \cup {Nothing, Unloaded},
                             revision: [path: Paths \cup {-1}, time: 0..MaxClock]]]
  BY <1>1 DEF IInv, TypeOK
<1> QED
  BY <1>2 DEF IInv, TypeOK, TimesInv

\* One path gets a text and the next time.
LEMMA FileHolds ==
    ASSUME IInv, NEW at \in Paths, NEW text \in Drafts \cup {Torn}, clock < MaxClock,
           clock' = clock + 1,
           file' = [file EXCEPT ![at] = [text |-> text, time |-> clock + 1]]
    PROVE  /\ file' \in [Paths -> [text: Drafts \cup {Nothing, Torn}, time: 0..MaxClock]]
           /\ clock' \in 0..MaxClock
           /\ \A p, q \in Paths : p # q /\ file'[p] # NoFile => file'[p].time # file'[q].time
           /\ TimesInv'
<1> USE StoreAssumption
<1>1. clock \in Int /\ clock + 1 \in 0..MaxClock /\ MaxClock \in Nat
  BY DEF IInv, TypeOK
<1>2. \A p \in Paths : file'[p] = IF p = at THEN [text |-> text, time |-> clock + 1] ELSE file[p]
  BY DEF IInv, TypeOK
<1>3. \A p \in Paths : file[p].time \in Int /\ file[p].time <= clock
  BY <1>1 DEF IInv, TypeOK, TimesInv
<1>4. file' \in [Paths -> [text: Drafts \cup {Nothing, Torn}, time: 0..MaxClock]]
  BY <1>1 DEF IInv, TypeOK
<1>5. \A p, q \in Paths : p # q /\ file'[p] # NoFile => file'[p].time # file'[q].time
  <2> SUFFICES ASSUME NEW p \in Paths, NEW q \in Paths, p # q, file'[p] # NoFile
               PROVE  file'[p].time # file'[q].time
    OBVIOUS
  <2>1. CASE p = at \/ q = at
    BY <1>1, <1>2, <1>3, <2>1
  <2>2. CASE p # at /\ q # at
    BY <1>2, <2>2 DEF IInv, TypeOK
  <2> QED
    BY <2>1, <2>2
<1>6. TimesInv'
  BY <1>1, <1>2, <1>3 DEF IInv, TimesInv, NoFile
<1> QED
  BY <1>1, <1>4, <1>5, <1>6

LEMMA WriteHolds == ASSUME IInv, Write PROVE IInv'
<1>1. lock.at \in Paths /\ lock.text \in Drafts /\ lock.by \in Clients
  BY DEF Write, IInv, TypeOK, LockInv
<1>2. clock + 1 \in 0..MaxClock
  BY StoreAssumption DEF Write, IInv, TypeOK
<1>3. copy' \in [Clients -> [text: Drafts \cup {Nothing, Unloaded},
                             revision: [path: Paths \cup {-1}, time: 0..MaxClock]]]
  BY <1>1, <1>2 DEF Write, IInv, TypeOK
<1>4. Free \in [op: {"none", "save", "clear"}, by: Clients \cup {Nothing},
                text: Drafts \cup {Nothing}, at: Paths]
  BY StoreAssumption DEF Free, Paths
<1> QED
  BY <1>1, <1>3, <1>4, FileHolds DEF Write, IInv, TypeOK, LockInv, Free

LEMMA TearHolds == ASSUME IInv, Tear PROVE IInv'
<1>1. lock.at \in Paths
  BY DEF IInv, TypeOK
<1> QED
  BY <1>1, FileHolds DEF Tear, IInv, TypeOK, LockInv

\* A removed file has no time and is nobody's newest.
LEMMA RemoveHolds == ASSUME IInv, Remove PROVE IInv'
<1> USE StoreAssumption
<1>1. lock.at \in Paths /\ lock.by \in Clients /\ lock.op = "clear"
  BY DEF Remove, IInv, TypeOK, LockInv
<1>2. \A p \in Paths : file'[p] = IF p = lock.at THEN NoFile ELSE file[p]
  BY <1>1 DEF Remove, IInv, TypeOK
<1>3. file' \in [Paths -> [text: Drafts \cup {Nothing, Torn}, time: 0..MaxClock]]
  BY <1>1 DEF Remove, IInv, TypeOK, NoFile
<1>4. \A p, q \in Paths : p # q /\ file'[p] # NoFile => file'[p].time # file'[q].time
  <2> SUFFICES ASSUME NEW p \in Paths, NEW q \in Paths, p # q, file'[p] # NoFile
               PROVE  file'[p].time # file'[q].time
    OBVIOUS
  <2>1. file'[p] = file[p] /\ file[p].time > 0 /\ file[p].time # file[q].time
    BY <1>2 DEF IInv, TypeOK, TimesInv
  <2> QED
    BY <1>2, <2>1 DEF NoFile
<1>5. TimesInv'
  BY <1>2 DEF Remove, IInv, TypeOK, TimesInv, NoFile
<1>6. NoCopy \in [text: Drafts \cup {Nothing, Unloaded},
                  revision: [path: Paths \cup {-1}, time: 0..MaxClock]]
  BY DEF NoCopy, NoRevision
<1>7. copy' \in [Clients -> [text: Drafts \cup {Nothing, Unloaded},
                             revision: [path: Paths \cup {-1}, time: 0..MaxClock]]]
  BY <1>1, <1>6 DEF Remove, Forget, IInv, TypeOK
<1>8. /\ lock' \in [op: {"none", "save", "clear"}, by: Clients \cup {Nothing},
                    text: Drafts \cup {Nothing}, at: Paths]
      /\ LockInv'
  <2>1. CASE lock.at < Shadows
    <3>1. lock' = [lock EXCEPT !.at = lock.at + 1] /\ lock.at + 1 \in Paths
      BY <1>1, <2>1 DEF Remove, Paths
    <3> QED
      BY <1>1, <3>1 DEF IInv, TypeOK, LockInv
  <2>2. CASE ~(lock.at < Shadows)
    BY <2>2 DEF Remove, Free, LockInv, Paths
  <2> QED
    BY <2>1, <2>2
<1> QED
  BY <1>3, <1>4, <1>5, <1>7, <1>8 DEF Remove, IInv, TypeOK

LEMMA LoadHolds == ASSUME IInv, NEW c \in Clients, Load(c) PROVE IInv'
BY ContentIsTyped, RevisionIsTyped, CopyHolds DEF Load, IInv

LEMMA ConflictHolds == ASSUME IInv, NEW c \in Clients, Conflict(c) PROVE IInv'
<1>1. NoCopy \in [text: Drafts \cup {Nothing, Unloaded},
                  revision: [path: Paths \cup {-1}, time: 0..MaxClock]]
  BY StoreAssumption DEF NoCopy, NoRevision
<1> QED
  BY <1>1, CopyHolds DEF Conflict, Forget

LEMMA BeginHolds ==
    ASSUME IInv, NEW c \in Clients, BeginClear(c) \/ \E d \in Drafts : BeginSave(c, d)
    PROVE  IInv'
<1>1. 0 \in Paths
  BY StoreAssumption DEF Paths
<1>2. /\ lock' \in [op: {"none", "save", "clear"}, by: Clients \cup {Nothing},
                    text: Drafts \cup {Nothing}, at: Paths]
      /\ LockInv'
  BY <1>1, ContentIsTyped DEF BeginSave, BeginClear, LockInv
<1> QED
  BY <1>2, LockHolds DEF BeginSave, BeginClear

LEMMA GivingUpHolds == ASSUME IInv, WriteFails \/ Interrupt PROVE IInv'
<1>1. lock.at \in Paths /\ lock.by \in Clients
  BY DEF WriteFails, Interrupt, IInv, TypeOK, LockInv
<1>2. Free \in [op: {"none", "save", "clear"}, by: Clients \cup {Nothing},
                text: Drafts \cup {Nothing}, at: Paths]
  BY StoreAssumption DEF Free, Paths
<1>3. CASE lock' = Free /\ Forget(lock.by)
  BY <1>1, <1>2, <1>3, LockHolds DEF WriteFails, Interrupt, Forget, LockInv, Free
<1>4. CASE lock' = [lock EXCEPT !.at = lock.at + 1] /\ lock.at < Shadows /\ WriteFails
  <2>1. lock.at + 1 \in Paths
    BY <1>1, <1>4, StoreAssumption DEF Paths
  <2>2. /\ lock' \in [op: {"none", "save", "clear"}, by: Clients \cup {Nothing},
                      text: Drafts \cup {Nothing}, at: Paths]
        /\ LockInv'
    BY <1>4, <2>1 DEF IInv, TypeOK, LockInv
  <2> QED
    BY <1>4, <2>2, LockHolds DEF WriteFails
<1> QED
  BY <1>3, <1>4 DEF WriteFails, Interrupt

LEMMA NextHolds == ASSUME IInv, [Next /\ UNCHANGED faults]_vars PROVE IInv'
<1>1. CASE UNCHANGED vars
  BY <1>1 DEF vars, IInv, TypeOK, TimesInv, LockInv
<1>2. CASE Next
  BY <1>2, LoadHolds, ConflictHolds, BeginHolds, WriteHolds, GivingUpHolds, TearHolds,
     RemoveHolds DEF Next
<1> QED
  BY <1>1, <1>2

LEMMA InvariantHolds == Spec => []IInv
BY InitHolds, NextHolds, PTL DEF Spec

-----------------------------------------------------------------------------
(* Theorems. *)

\* The files, copies and the lock are well formed, and no two files share a time.
THEOREM TypeCorrect == Spec => []TypeOK
<1>1. IInv => TypeOK
  BY DEF IInv
<1> QED
  BY <1>1, InvariantHolds, PTL

\* The file a save wrote is the only newest one, so it is what the next load returns,
\* whatever fell back, was torn or was half cleared before.
LEMMA WriteIsServed == ASSUME IInv, Write PROVE Content' = lock.text
<1>1. lock.at \in Paths /\ lock.text \in Drafts /\ clock \in Int
  BY StoreAssumption DEF Write, IInv, TypeOK, LockInv
<1>2. PICK at \in Paths : at = lock.at
  BY <1>1
<1>3. \A p \in Paths :
         file'[p] = IF p = at THEN [text |-> lock.text, time |-> clock + 1] ELSE file[p]
  BY <1>2 DEF Write, IInv, TypeOK
<1>4. \A p \in Paths : file[p].time \in Int /\ file[p].time <= clock
  BY StoreAssumption DEF IInv, TypeOK, TimesInv
<1>5. file'[at].text = lock.text /\ file'[at].time = clock + 1
  BY <1>3
<1>6. \A p \in Paths : p # at => file'[p].time < clock + 1
  BY <1>1, <1>3, <1>4
<1>7. Newest(at)'
  <2>1. \A q \in Paths : file'[q].time <= file'[at].time
    BY <1>1, <1>3, <1>4, <1>5
  <2>2. Readable(at)'
    BY <1>1, <1>5 DEF Readable
  <2> QED
    BY <2>1, <2>2 DEF Newest
<1>8. \A p \in Paths : Newest(p)' => p = at
  BY <1>1, <1>4, <1>5, <1>6, <1>7, <1>3 DEF Newest
<1>9. Preferred' = at
  BY <1>7, <1>8 DEF Preferred
<1> QED
  BY <1>5, <1>7, <1>9 DEF Content

\* A save that succeeds is what the next load returns.
THEOREM SavesAreServed == Spec => SavedIsServed
<1>1. ASSUME IInv, Next, lock.op = "save", lock' = Free, file' # file
      PROVE  Content' = lock.text
  <2>1. lock # Free
    BY <1>1 DEF Free
  <2>2. lock' # lock /\ lock.op # "clear"
    BY <1>1, <2>1
  <2>3. Write
    BY <1>1, <2>1, <2>2
    DEF Next, Load, BeginSave, Conflict, WriteFails, Tear, BeginClear, Remove, Interrupt
  <2> QED
    BY <1>1, <2>3, WriteIsServed
<1>2. IInv /\ [Next /\ UNCHANGED faults]_vars =>
         [lock.op = "save" /\ lock' = Free /\ file' # file => Content' = lock.text]_vars
  BY <1>1
<1> QED
  BY <1>2, InvariantHolds, PTL DEF Spec, SavedIsServed

-----------------------------------------------------------------------------
(* The files behave like one register.                                           *)

\* A path and a time tell the text, for whoever loaded it; a copy without a revision
\* was loaded when there was no session.
TextInv ==
    \A c \in Clients : copy[c] # NoCopy =>
        /\ copy[c].revision.time <= clock
        /\ copy[c].revision = NoRevision => copy[c].text = Nothing
        /\ copy[c].revision # NoRevision => copy[c].revision.time > 0
        /\ \A p \in Paths :
              copy[c].revision.path = p /\ copy[c].revision.time = file[p].time =>
                  copy[c].text = file[p].text

\* Nobody else writes while a save compares and tries its paths; a clear has removed
\* what it has passed.
HolderInv ==
    /\ lock.op = "save" => copy[lock.by] # NoCopy
    /\ Orderly /\ lock.op = "save" => copy[lock.by].revision = Revision
    /\ lock.op = "clear" => \A p \in Paths : p < lock.at => file[p] = NoFile

RegisterInv == TextInv /\ HolderInv

\* A file that can be read has a time.
LEMMA ReadableHasTime ==
    ASSUME IInv, NEW p \in Paths, Readable(p)
    PROVE  file[p].time > 0
BY StoreAssumption DEF IInv, TimesInv, Readable, NoFile

\* What a reader finds is the text of the revision it gets.
LEMMA RevisionTellsContent ==
    ASSUME IInv
    PROVE  \/ Revision = NoRevision /\ Content = Nothing
           \/ /\ Preferred \in Paths
              /\ Revision = [path |-> Preferred, time |-> file[Preferred].time]
              /\ Content = file[Preferred].text
              /\ file[Preferred].time > 0
<1>1. CASE \E p \in Paths : Newest(p)
  <2>1. Preferred \in Paths /\ Readable(Preferred)
    BY <1>1, PreferredIsNewest DEF Newest
  <2> QED
    BY <1>1, <2>1, ReadableHasTime DEF Revision, Content
<1>2. CASE ~ \E p \in Paths : Newest(p)
  BY <1>2 DEF Revision, Content
<1> QED
  BY <1>1, <1>2

\* Who holds the present revision has the present session.
LEMMA HolderIsCurrent ==
    ASSUME IInv, TextInv, NEW c \in Clients, copy[c] # NoCopy, copy[c].revision = Revision
    PROVE  copy[c].text = Content
BY RevisionTellsContent DEF TextInv

\* What is read depends on the files only.
LEMMA SameFiles ==
    ASSUME UNCHANGED file
    PROVE  UNCHANGED <<Content, Revision>>
BY DEF Content, Revision, Preferred, Newest, Readable

LEMMA LoadKnows ==
    ASSUME IInv, RegisterInv, NEW c \in Clients, Load(c)
    PROVE  RegisterInv'
<1>1. /\ file' = file /\ clock' = clock /\ lock' = lock /\ lock.op = "none"
      /\ \A k \in Clients : copy'[k] = IF k = c THEN [text |-> Content, revision |-> Revision]
                                                ELSE copy[k]
  BY DEF Load, Free, IInv, TypeOK
<1>2. \A p \in Paths : file[p].time <= clock
  BY DEF IInv, TimesInv
<1>3. /\ Revision.time <= clock
      /\ Revision = NoRevision => Content = Nothing
      /\ Revision # NoRevision => Revision.time > 0
      /\ \A p \in Paths : Revision.path = p /\ Revision.time = file[p].time =>
            Content = file[p].text
  <2>1. CASE Revision = NoRevision /\ Content = Nothing
    <3>1. Revision.time = 0 /\ Revision.path = -1
      BY <2>1 DEF NoRevision
    <3>2. 0 <= clock /\ -1 \notin Paths
      BY StoreAssumption DEF IInv, TypeOK, Paths
    <3> QED
      BY <2>1, <3>1, <3>2
  <2>2. CASE /\ Preferred \in Paths
             /\ Revision = [path |-> Preferred, time |-> file[Preferred].time]
             /\ Content = file[Preferred].text
             /\ file[Preferred].time > 0
    <3>1. Revision.time > 0 /\ NoRevision.time = 0
      BY <2>2 DEF NoRevision
    <3> QED
      BY <1>2, <2>2, <3>1
  <2> QED
    BY <2>1, <2>2, RevisionTellsContent
<1>4. TextInv'
  BY <1>1, <1>3 DEF RegisterInv, TextInv
<1>5. HolderInv'
  BY <1>1 DEF HolderInv
<1> QED
  BY <1>4, <1>5 DEF RegisterInv

\* A client's copy is forgotten, or none is; the files stay.
LEMMA ForgettingKnows ==
    ASSUME IInv, TextInv, UNCHANGED <<file, clock>>,
           copy' = copy \/ \E c \in Clients : Forget(c)
    PROVE  TextInv'
<1>1. \A k \in Clients : copy'[k] = copy[k] \/ copy'[k] = NoCopy
  BY DEF Forget, IInv, TypeOK
<1> QED
  BY <1>1 DEF TextInv

LEMMA BeginKnows ==
    ASSUME IInv, RegisterInv, NEW c \in Clients, UNCHANGED faults,
           BeginClear(c) \/ Conflict(c) \/ \E d \in Drafts : BeginSave(c, d)
    PROVE  RegisterInv'
<1>1. UNCHANGED <<file, clock, Content, Revision>>
  BY SameFiles DEF BeginClear, Conflict, BeginSave
<1>2. TextInv'
  BY <1>1, ForgettingKnows DEF RegisterInv, BeginClear, Conflict, BeginSave
<1>3. CASE \E d \in Drafts : BeginSave(c, d)
  <2>1. /\ lock'.op = "save" /\ lock'.by = c /\ copy' = copy
        /\ copy[c] # NoCopy /\ copy[c].revision = Revision
    BY <1>3 DEF BeginSave
  <2>2. HolderInv'
    BY <1>1, <2>1 DEF HolderInv
  <2> QED
    BY <1>2, <2>2 DEF RegisterInv
<1>4. CASE BeginClear(c)
  <2>1. lock'.op = "clear" /\ lock'.at = 0
    BY <1>4 DEF BeginClear
  <2>2. \A p \in Paths : ~(p < 0)
    BY DEF Paths
  <2>3. HolderInv'
    BY <2>1, <2>2 DEF HolderInv
  <2> QED
    BY <1>2, <2>3 DEF RegisterInv
<1>5. CASE Conflict(c)
  <2>1. lock'.op = "none"
    BY <1>5 DEF Conflict, Free
  <2>2. HolderInv'
    BY <2>1 DEF HolderInv
  <2> QED
    BY <1>2, <2>2 DEF RegisterInv
<1> QED
  BY <1>3, <1>4, <1>5

\* A path gets a text with a time that nobody has loaded.
LEMMA FileKnows ==
    ASSUME IInv, TextInv, NEW at \in Paths, NEW text,
           clock' = clock + 1,
           file' = [file EXCEPT ![at] = [text |-> text, time |-> clock + 1]],
           NEW c \in Clients, copy[c] # NoCopy
    PROVE  /\ copy[c].revision.time <= clock + 1
           /\ \A p \in Paths :
                 copy[c].revision.path = p /\ copy[c].revision.time = file'[p].time =>
                     copy[c].text = file'[p].text
<1>1. clock \in Int /\ copy[c].revision.time \in Int /\ copy[c].revision.time <= clock
  BY StoreAssumption DEF IInv, TypeOK, TextInv
<1>2. \A p \in Paths : file'[p] = IF p = at THEN [text |-> text, time |-> clock + 1] ELSE file[p]
  BY DEF IInv, TypeOK
<1>3. ASSUME NEW p \in Paths,
             copy[c].revision.path = p, copy[c].revision.time = file'[p].time
      PROVE  copy[c].text = file'[p].text
  <2>1. p # at
    BY <1>1, <1>2, <1>3
  <2> QED
    BY <1>2, <1>3, <2>1 DEF TextInv
<1> QED
  BY <1>1, <1>3

LEMMA WriteKnows == ASSUME IInv, RegisterInv, Write PROVE RegisterInv'
<1>1. lock.at \in Paths /\ lock.text \in Drafts /\ lock.by \in Clients /\ clock \in Nat
  BY StoreAssumption DEF Write, IInv, TypeOK, LockInv
<1>2. PICK at \in Paths, by \in Clients : at = lock.at /\ by = lock.by
  BY <1>1
<1>3. PICK new : new = [text |-> lock.text, revision |-> [path |-> at, time |-> clock + 1]]
  OBVIOUS
<1>4. /\ clock' = clock + 1
      /\ file' = [file EXCEPT ![at] = [text |-> lock.text, time |-> clock + 1]]
      /\ copy' = [copy EXCEPT ![by] = new]
      /\ lock'.op = "none"
  BY <1>2, <1>3 DEF Write, Free
<1>5. \A c \in Clients : copy'[c] = IF c = by THEN new ELSE copy[c]
  BY <1>4 DEF IInv, TypeOK
<1>6. file'[at].text = lock.text /\ file'[at].time = clock + 1
  BY <1>4 DEF IInv, TypeOK
<1>7. ASSUME NEW c \in Clients, copy'[c] # NoCopy
      PROVE  /\ copy'[c].revision.time <= clock + 1
             /\ copy'[c].revision = NoRevision => copy'[c].text = Nothing
             /\ copy'[c].revision # NoRevision => copy'[c].revision.time > 0
             /\ \A p \in Paths :
                   copy'[c].revision.path = p /\ copy'[c].revision.time = file'[p].time =>
                       copy'[c].text = file'[p].text
  <2>1. CASE c = by
    <3>1. copy'[c] = new /\ new.revision.path = at /\ new.revision.time = clock + 1
          /\ new.text = lock.text
      BY <1>3, <1>5, <2>1
    <3>2. new.revision # NoRevision
      BY <1>1, <3>1 DEF NoRevision
    <3> QED
      BY <1>1, <1>6, <3>1, <3>2
  <2>2. CASE c # by
    <3>1. copy'[c] = copy[c] /\ copy[c] # NoCopy
      BY <1>5, <1>7, <2>2
    <3>2. /\ copy[c].revision.time <= clock + 1
          /\ \A p \in Paths :
                copy[c].revision.path = p /\ copy[c].revision.time = file'[p].time =>
                    copy[c].text = file'[p].text
      BY <1>4, <3>1, FileKnows DEF RegisterInv
    <3> QED
      BY <3>1, <3>2 DEF RegisterInv, TextInv
  <2> QED
    BY <2>1, <2>2
<1>8. TextInv'
  BY <1>4, <1>7 DEF TextInv
<1>9. HolderInv'
  BY <1>4 DEF HolderInv
<1> QED
  BY <1>8, <1>9 DEF RegisterInv

LEMMA TearKnows == ASSUME IInv, RegisterInv, Tear, UNCHANGED faults PROVE RegisterInv'
<1>1. lock.at \in Paths
  BY DEF IInv, TypeOK
<1>2. PICK at \in Paths : at = lock.at
  BY <1>1
<1>3. /\ clock' = clock + 1
      /\ file' = [file EXCEPT ![at] = [text |-> Torn, time |-> clock + 1]]
      /\ copy' = copy /\ lock' = lock /\ lock.op = "save"
  BY <1>2 DEF Tear
<1>4. TextInv'
  <2>1. ASSUME NEW c \in Clients, copy[c] # NoCopy
        PROVE  /\ copy[c].revision.time <= clock + 1
               /\ \A p \in Paths :
                     copy[c].revision.path = p /\ copy[c].revision.time = file'[p].time =>
                         copy[c].text = file'[p].text
    BY <1>3, <2>1, FileKnows DEF RegisterInv
  <2> QED
    BY <1>3, <2>1 DEF RegisterInv, TextInv
<1>5. ~Orderly'
  BY DEF Tear, Orderly
<1> QED
  BY <1>3, <1>4, <1>5 DEF RegisterInv, HolderInv

LEMMA GivingUpKnows ==
    ASSUME IInv, RegisterInv, WriteFails \/ Interrupt, UNCHANGED faults
    PROVE  RegisterInv'
<1>1. UNCHANGED <<file, clock, Content, Revision>>
  BY SameFiles DEF WriteFails, Interrupt
<1>2. lock.by \in Clients
  BY DEF WriteFails, Interrupt, IInv, LockInv
<1>3. TextInv'
  BY <1>1, <1>2, ForgettingKnows DEF RegisterInv, WriteFails, Interrupt
<1>4. CASE lock' = Free
  <2>1. lock'.op = "none"
    BY <1>4 DEF Free
  <2> QED
    BY <1>3, <2>1 DEF RegisterInv, HolderInv
<1>5. CASE lock' = [lock EXCEPT !.at = @ + 1] /\ copy' = copy /\ lock.op = "save"
  <2>1. lock'.op = "save" /\ lock'.by = lock.by
    BY <1>5 DEF IInv, TypeOK
  <2>2. HolderInv'
    BY <1>1, <1>5, <2>1 DEF RegisterInv, HolderInv, Orderly
  <2> QED
    BY <1>3, <2>2 DEF RegisterInv
<1> QED
  BY <1>4, <1>5 DEF WriteFails, Interrupt

LEMMA RemoveKnows == ASSUME IInv, RegisterInv, Remove PROVE RegisterInv'
<1>1. lock.at \in Paths /\ lock.by \in Clients /\ lock.op = "clear" /\ lock.at \in Int
  BY DEF Remove, IInv, TypeOK, LockInv, Paths
<1>2. PICK at \in Paths : at = lock.at
  BY <1>1
<1>3. \A p \in Paths : file'[p] = IF p = at THEN NoFile ELSE file[p]
  BY <1>2 DEF Remove, IInv, TypeOK
<1>4. clock' = clock
  BY DEF Remove
<1>5. \A c \in Clients : copy'[c] = copy[c] \/ copy'[c] = NoCopy
  BY DEF Remove, Forget, IInv, TypeOK
<1>6. TextInv'
  <2>1. ASSUME NEW c \in Clients, copy'[c] # NoCopy, NEW p \in Paths,
               copy[c].revision.path = p, copy[c].revision.time = file'[p].time
        PROVE  copy[c].text = file'[p].text
    <3>1. copy[c] # NoCopy
      BY <1>5, <2>1
    <3>2. copy[c].revision # NoRevision
      BY <2>1 DEF NoRevision, Paths
    <3>3. copy[c].revision.time > 0 /\ NoFile.time = 0
      BY <3>1, <3>2 DEF RegisterInv, TextInv, NoFile
    <3>4. p # at
      BY <1>3, <2>1, <3>3
    <3> QED
      BY <1>3, <2>1, <3>1, <3>4 DEF RegisterInv, TextInv
  <2> QED
    BY <1>4, <1>5, <2>1 DEF RegisterInv, TextInv
<1>7. HolderInv'
  <2>1. CASE lock.at < Shadows
    <3>1. lock'.op = "clear" /\ lock'.at = at + 1
      BY <1>1, <1>2, <2>1 DEF Remove, IInv, TypeOK
    <3>2. ASSUME NEW p \in Paths, p < at + 1
          PROVE  file'[p] = NoFile
      <4>1. p = at \/ p < at
        BY <1>1, <1>2, <3>2 DEF Paths
      <4> QED
        BY <1>1, <1>2, <1>3, <4>1 DEF RegisterInv, HolderInv
    <3> QED
      BY <3>1, <3>2 DEF HolderInv
  <2>2. CASE ~(lock.at < Shadows)
    <3>1. lock'.op = "none"
      BY <2>2 DEF Remove, Free
    <3> QED
      BY <3>1 DEF HolderInv
  <2> QED
    BY <2>1, <2>2
<1> QED
  BY <1>6, <1>7 DEF RegisterInv

\* Clients know what they loaded, in every reachable state.
LEMMA RegisterInvHolds == Spec => []RegisterInv
<1>1. Init => RegisterInv
  BY DEF Init, RegisterInv, TextInv, HolderInv, Free
<1>2. IInv /\ RegisterInv /\ [Next /\ UNCHANGED faults]_vars => RegisterInv'
  <2> SUFFICES ASSUME IInv, RegisterInv, [Next /\ UNCHANGED faults]_vars
               PROVE  RegisterInv'
    OBVIOUS
  <2>1. CASE UNCHANGED vars
    <3>1. UNCHANGED <<file, clock, copy, lock, faults, Content, Revision>>
      BY <2>1, SameFiles DEF vars
    <3> QED
      BY <3>1 DEF RegisterInv, TextInv, HolderInv, Orderly
  <2>2. CASE Next /\ UNCHANGED faults
    BY <2>2, LoadKnows, BeginKnows, WriteKnows, TearKnows, GivingUpKnows, RemoveKnows DEF Next
  <2> QED
    BY <2>1, <2>2
<1> QED
  BY <1>1, <1>2, InvariantHolds, PTL DEF Spec

-----------------------------------------------------------------------------
(* The steps of the register.                                                    *)

Session == CASE ~Orderly -> Nothing
             [] Orderly /\ lock.op = "clear" -> lock.text
             [] OTHER -> Content
Seen == [c \in Clients |-> IF Orderly THEN copy[c].text ELSE Unloaded]

\* What the register shows in an orderly state, and what a forgetful step does to it.
LEMMA OrderlyShows ==
    ASSUME Orderly
    PROVE  /\ lock.op = "clear" => Session = lock.text
           /\ lock.op # "clear" => Session = Content
           /\ Seen = [c \in Clients |-> copy[c].text]
BY DEF Session, Seen

LEMMA RegisterStep ==
    ASSUME IInv, IInv', RegisterInv, Next, UNCHANGED faults, Orderly
    PROVE  Register!Next \/ UNCHANGED <<Session, Seen>>
<1>0. Orderly'
  BY DEF Orderly
<1>1. /\ lock.op = "clear" => Session = lock.text
      /\ lock.op # "clear" => Session = Content
      /\ Seen = [c \in Clients |-> copy[c].text]
  BY OrderlyShows
<1>2. /\ lock'.op = "clear" => Session' = lock'.text
      /\ lock'.op # "clear" => Session' = Content'
      /\ Seen' = [c \in Clients |-> copy'[c].text]
  BY <1>0 DEF Session, Seen
<1>3. Free.op = "none" /\ NoCopy.text = Unloaded
  BY DEF Free, NoCopy
<1>4. ASSUME NEW c \in Clients, Forget(c)
      PROVE  Seen' = [Seen EXCEPT ![c] = Unloaded]
  BY <1>1, <1>2, <1>3, <1>4 DEF Forget, IInv, TypeOK
<1>5. copy' = copy => Seen' = Seen
  BY <1>1, <1>2
<1>6. ASSUME NEW c \in Clients, Forget(c), Session' = Session
      PROVE  Register!Next
  <2>1. Register!Forget(c)
    BY <1>4, <1>6 DEF Register!Forget, Session, Seen
  <2> QED
    BY <2>1 DEF Register!Next
<1>7. ASSUME NEW c \in Clients, Load(c)
      PROVE  Register!Next
  <2>1. lock.op = "none" /\ lock'.op = "none" /\ Content' = Content
    BY <1>3, <1>7, SameFiles DEF Load
  <2>2. copy' = [copy EXCEPT ![c] = [text |-> Content, revision |-> Revision]]
    BY <1>7 DEF Load
  <2>3. Session = Content /\ Session' = Session
    BY <1>1, <1>2, <2>1
  <2>4. Seen' = [Seen EXCEPT ![c] = Session]
    BY <1>1, <1>2, <2>2, <2>3 DEF IInv, TypeOK
  <2>5. Register!Load(c)
    BY <2>3, <2>4 DEF Register!Load, Session, Seen
  <2> QED
    BY <2>5 DEF Register!Next
<1>8. ASSUME NEW c \in Clients, NEW d \in Drafts, BeginSave(c, d)
      PROVE  UNCHANGED <<Session, Seen>>
  <2>1. lock.op = "none" /\ lock'.op = "save" /\ Content' = Content /\ copy' = copy
    BY <1>3, <1>8, SameFiles DEF BeginSave
  <2> QED
    BY <1>1, <1>2, <1>5, <2>1
<1>9. ASSUME NEW c \in Clients, Conflict(c)
      PROVE  Register!Next
  <2>1. lock.op = "none" /\ lock'.op = "none" /\ Content' = Content /\ Forget(c)
    BY <1>3, <1>9, SameFiles DEF Conflict
  <2> QED
    BY <1>1, <1>2, <1>6, <2>1
<1>10. CASE Write
  <2>1. /\ lock.by \in Clients /\ lock.text \in Drafts
        /\ lock.op = "save" /\ lock'.op = "none"
        /\ copy[lock.by] # NoCopy /\ copy[lock.by].revision = Revision
    BY <1>3, <1>10 DEF Write, IInv, LockInv, RegisterInv, HolderInv
  <2>2. PICK c \in Clients, d \in Drafts : c = lock.by /\ d = lock.text
    BY <2>1
  <2>3. copy[c].text = Content
    BY <2>1, <2>2, HolderIsCurrent DEF RegisterInv
  <2>4. Session = Content /\ Session' = d
    BY <1>1, <1>2, <1>10, <2>1, <2>2, WriteIsServed
  <2>5. PICK new : new.text = d /\ copy' = [copy EXCEPT ![c] = new]
    BY <1>10, <2>2 DEF Write
  <2>6. Seen[c] = Session /\ Seen' = [Seen EXCEPT ![c] = d]
    BY <1>1, <1>2, <2>3, <2>4, <2>5 DEF IInv, TypeOK
  <2>7. Register!Save(c, d)
    BY <2>4, <2>6 DEF Register!Save, Session, Seen
  <2> QED
    BY <2>7 DEF Register!Next
<1>11. CASE WriteFails \/ Interrupt
  <2>1. lock.op = "save" /\ lock'.op # "clear" /\ Content' = Content
    BY <1>3, <1>11, SameFiles DEF WriteFails, Interrupt, Orderly, IInv, TypeOK
  <2>2. Session' = Session /\ lock.by \in Clients
    BY <1>1, <1>2, <2>1 DEF IInv, LockInv
  <2> QED
    BY <1>5, <1>6, <1>11, <2>2 DEF WriteFails, Interrupt
<1>12. ~Tear
  BY DEF Tear, Orderly
<1>13. ASSUME NEW c \in Clients, BeginClear(c)
       PROVE  UNCHANGED <<Session, Seen>>
  <2>1. lock.op = "none" /\ lock'.op = "clear" /\ lock'.text = Content /\ copy' = copy
    BY <1>3, <1>13 DEF BeginClear
  <2> QED
    BY <1>1, <1>2, <1>5, <2>1
<1>14. CASE Remove
  <2>1. lock.op = "clear" /\ lock.by \in Clients /\ lock.at \in Paths
    BY <1>14 DEF Remove, IInv, TypeOK, LockInv
  <2>2. CASE lock.at < Shadows
    <3>1. lock'.op = "clear" /\ lock'.text = lock.text /\ copy' = copy
      BY <1>14, <2>1, <2>2 DEF Remove, IInv, TypeOK
    <3> QED
      BY <1>1, <1>2, <1>5, <2>1, <3>1
  <2>3. CASE ~(lock.at < Shadows)
    <3>1. lock'.op = "none" /\ Forget(lock.by)
      BY <1>3, <1>14, <2>3 DEF Remove
    <3>2. ASSUME NEW p \in Paths
          PROVE  file'[p] = NoFile
      <4>1. p = lock.at \/ p < lock.at
        BY <2>1, <2>3, StoreAssumption DEF Paths
      <4> QED
        BY <1>14, <2>1, <4>1 DEF Remove, RegisterInv, HolderInv, IInv, TypeOK
    <3>3. \A p \in Paths : ~Readable(p)'
      BY <3>2, StoreAssumption DEF Readable, NoFile
    <3>4. Content' = Nothing
      BY <3>3 DEF Content, Newest
    <3>5. PICK c \in Clients : c = lock.by
      BY <2>1
    <3>6. Session' = Nothing /\ Seen' = [Seen EXCEPT ![c] = Unloaded]
      BY <1>2, <1>4, <3>1, <3>4, <3>5
    <3>7. Register!Clear(c)
      BY <3>6 DEF Register!Clear, Session, Seen
    <3> QED
      BY <3>7 DEF Register!Next
  <2> QED
    BY <2>2, <2>3
<1> QED
  BY <1>7, <1>8, <1>9, <1>10, <1>11, <1>12, <1>13, <1>14 DEF Next

\* For any number of clients and shadow copies, and whichever writes fail or stop half
\* way: as long as no file is torn and no clear interrupted, the files behave like one
\* session that a save replaces only over what its writer has seen.
THEOREM StoreIsRegister == Spec => ImplementsRegister
<1>1. Init => Register!Init
  <2> SUFFICES ASSUME Init PROVE Register!Init
    OBVIOUS
  <2>1. \A p \in Paths : ~Readable(p)
    BY StoreAssumption DEF Init, Readable, NoFile
  <2>2. Content = Nothing
    BY <2>1 DEF Content, Newest
  <2>3. Session = Nothing
    BY <2>2 DEF Init, Session, Free
  <2>4. Seen = [c \in Clients |-> Unloaded]
    BY DEF Init, Seen, NoCopy
  <2> QED
    BY <2>3, <2>4 DEF Register!Init, Session, Seen
<1>2. IInv /\ IInv' /\ RegisterInv /\ [Next /\ UNCHANGED faults]_vars =>
         [Register!Next]_(Register!register)
  <2> SUFFICES ASSUME IInv, IInv', RegisterInv, [Next /\ UNCHANGED faults]_vars
               PROVE  Register!Next \/ UNCHANGED <<Session, Seen>>
    BY DEF Register!register, Session, Seen
  <2>1. CASE UNCHANGED vars
    <3>1. UNCHANGED <<copy, lock, faults, Content>>
      BY <2>1, SameFiles DEF vars
    <3> QED
      BY <3>1 DEF Session, Seen, Orderly
  <2>2. CASE Next /\ UNCHANGED faults /\ Orderly
    BY <2>2, RegisterStep
  <2>3. CASE Next /\ UNCHANGED faults /\ ~Orderly
    <3>1. ~Orderly /\ ~Orderly'
      BY <2>3 DEF Orderly
    <3> QED
      BY <3>1 DEF Session, Seen
  <2> QED
    BY <2>1, <2>2, <2>3
<1> QED
  BY <1>1, <1>2, InvariantHolds, RegisterInvHolds, PTL
     DEF Spec, ImplementsRegister, Register!Spec
=============================================================================
