---------------------------- MODULE SessionStore ----------------------------
(***************************************************************************)
(* session_cache.json and its shadow copies.  A save takes the file lock,  *)
(* compares the revision its writer loaded with the newest readable file,  *)
(* and tries the primary path, then each shadow, until one write succeeds. *)
(* A load reads the newest readable file.  A clear removes the files one   *)
(* by one.                                                                 *)
(***************************************************************************)
EXTENDS Integers, FiniteSetsExt

CONSTANTS
    Clients,      \* requests, of one or of several application processes
    Drafts,       \* session payloads
    Shadows,      \* how many shadow directories there are
    Nothing,      \* no session
    Unloaded,     \* a client that holds no session
    Torn,         \* a file that is no JSON
    Regimes,      \* sets of "write", "tear", "crash", "clear": what may happen
    MaxClock      \* bound: file modification times

ASSUME StoreAssumption ==
    /\ Shadows \in Nat /\ MaxClock \in Nat
    /\ {Nothing, Unloaded, Torn} \cap Drafts = {}
    /\ Regimes \subseteq SUBSET {"write", "tear", "crash", "clear"}

VARIABLES
    faults,       \* the regime of this behaviour
    file,         \* the candidate paths, the primary one is number 0
    clock,        \* the last modification time given out
    copy,         \* what each client loaded, with its revision
    lock          \* the exclusive file lock and what its holder is doing

vars == <<faults, file, clock, copy, lock>>

Paths == 0..Shadows
NoFile == [text |-> Nothing, time |-> 0]
NoRevision == [path |-> -1, time |-> 0]
NoCopy == [text |-> Unloaded, revision |-> NoRevision]
Free == [op |-> "none", by |-> Nothing, text |-> Nothing, at |-> 0]

-----------------------------------------------------------------------------
Readable(p) == file[p].text \in Drafts

\* Mutant of Newest: the primary file wins whenever it can be read.
NewestPrimary(p) ==
    /\ Readable(p)
    /\ Readable(0) => p = 0
    /\ ~Readable(0) => \A q \in Paths : Readable(q) => file[q].time <= file[p].time

\* _load_preferred_session skips what cannot be read.
Newest(p) ==
    /\ Readable(p)
    /\ \A q \in Paths : Readable(q) => file[q].time <= file[p].time

Preferred == CHOOSE p \in Paths : Newest(p)
Content == IF \E p \in Paths : Newest(p) THEN file[Preferred].text ELSE Nothing
Revision == IF \E p \in Paths : Newest(p)
              THEN [path |-> Preferred, time |-> file[Preferred].time]
              ELSE NoRevision

Forget(c) == copy' = [copy EXCEPT ![c] = NoCopy]

-----------------------------------------------------------------------------
Load(c) ==
    /\ lock = Free
    /\ copy' = [copy EXCEPT ![c] = [text |-> Content, revision |-> Revision]]
    /\ UNCHANGED <<file, clock, lock>>

\* Mutant of BeginSave: the revision is not compared.
BeginSaveBlind(c, d) ==
    /\ lock = Free
    /\ copy[c] # NoCopy
    /\ lock' = [op |-> "save", by |-> c, text |-> d, at |-> 0]
    /\ UNCHANGED <<file, clock, copy>>

BeginSave(c, d) ==
    /\ lock = Free
    /\ copy[c] # NoCopy
    /\ copy[c].revision = Revision
    /\ lock' = [op |-> "save", by |-> c, text |-> d, at |-> 0]
    /\ UNCHANGED <<file, clock, copy>>

\* The save outcome is "conflict": the request fails and its state is dropped.
Conflict(c) ==
    /\ lock = Free
    /\ copy[c] # NoCopy
    /\ copy[c].revision # Revision
    /\ Forget(c)
    /\ UNCHANGED <<file, clock, lock>>

\* Status "primary" or "shadow"; the writer goes on with the new revision.
Write ==
    /\ lock.op = "save"
    /\ clock < MaxClock
    /\ clock' = clock + 1
    /\ file' = [file EXCEPT ![lock.at] = [text |-> lock.text, time |-> clock + 1]]
    /\ copy' = [copy EXCEPT ![lock.by] =
                   [text |-> lock.text,
                    revision |-> [path |-> lock.at, time |-> clock + 1]]]
    /\ lock' = Free

\* os.replace raised: the next shadow is tried, the last failure is raised.
WriteFails ==
    /\ "write" \in faults
    /\ lock.op = "save"
    /\ IF lock.at < Shadows
         THEN lock' = [lock EXCEPT !.at = @ + 1] /\ UNCHANGED copy
         ELSE lock' = Free /\ Forget(lock.by)
    /\ UNCHANGED <<file, clock>>

\* A shadow that cannot be replaced is opened and written in place: what it held
\* is gone before the new text is complete.
Tear ==
    /\ "tear" \in faults
    /\ lock.op = "save" /\ lock.at > 0
    /\ clock < MaxClock
    /\ clock' = clock + 1
    /\ file' = [file EXCEPT ![lock.at] = [text |-> Torn, time |-> clock + 1]]
    /\ UNCHANGED <<copy, lock>>

BeginClear(c) ==
    /\ lock = Free
    /\ lock' = [op |-> "clear", by |-> c, text |-> Content, at |-> 0]
    /\ UNCHANGED <<file, clock, copy>>

Remove ==
    /\ lock.op = "clear"
    /\ file' = [file EXCEPT ![lock.at] = NoFile]
    /\ IF lock.at < Shadows
         THEN lock' = [lock EXCEPT !.at = @ + 1] /\ UNCHANGED copy
         ELSE lock' = Free /\ Forget(lock.by)
    /\ UNCHANGED clock

\* The process stops, or a file cannot be removed.  The lock goes with it.
Interrupt ==
    /\ \/ lock.op = "save" /\ "crash" \in faults
       \/ lock.op = "clear" /\ "clear" \in faults
    /\ lock' = Free
    /\ Forget(lock.by)
    /\ UNCHANGED <<file, clock>>

-----------------------------------------------------------------------------
Init ==
    /\ faults \in Regimes
    /\ file = [p \in Paths |-> NoFile]
    /\ clock = 0
    /\ copy = [c \in Clients |-> NoCopy]
    /\ lock = Free

Next ==
    \/ \E c \in Clients : Load(c)
    \/ \E c \in Clients, d \in Drafts : BeginSave(c, d)
    \/ \E c \in Clients : Conflict(c)
    \/ Write
    \/ WriteFails
    \/ Tear
    \/ \E c \in Clients : BeginClear(c)
    \/ Remove
    \/ Interrupt

Spec == Init /\ [][Next /\ UNCHANGED faults]_vars

-----------------------------------------------------------------------------
(* Properties. *)

\* Files, copies and the lock are well formed; no two files share a time.
TypeOK ==
    /\ file \in [Paths -> [text: Drafts \cup {Nothing, Torn}, time: 0..MaxClock]]
    /\ clock \in 0..MaxClock
    /\ copy \in [Clients -> [text: Drafts \cup {Nothing, Unloaded},
                             revision: [path: Paths \cup {-1}, time: 0..MaxClock]]]
    /\ lock \in [op: {"none", "save", "clear"}, by: Clients \cup {Nothing},
                 text: Drafts \cup {Nothing}, at: Paths]
    /\ \A p, q \in Paths : p # q /\ file[p] # NoFile => file[p].time # file[q].time

\* Whatever was torn, stopped or half cleared before, and whichever path took the
\* write: a save that succeeds is what the next load returns.
SavedIsServed ==
    [][lock.op = "save" /\ lock' = Free /\ file' # file => Content' = lock.text]_vars

\* A torn shadow or an interrupted clear can uncover an older copy.
Orderly == faults \subseteq {"write", "crash"}

\* A clear in progress holds the lock: nobody sees it half done.
Register == INSTANCE SessionRegister WITH
    content <- CASE ~Orderly -> Nothing
                 [] Orderly /\ lock.op = "clear" -> lock.text
                 [] OTHER -> Content,
    seen <- [c \in Clients |-> IF Orderly THEN copy[c].text ELSE Unloaded]

\* Whatever paths failed and wherever earlier saves ended up, three files with
\* their times behave like one session, as long as no file is torn and no clear is
\* interrupted: no save overwrites a session that its writer has not seen, and
\* no older copy comes back.
ImplementsRegister == Register!Spec
=============================================================================
