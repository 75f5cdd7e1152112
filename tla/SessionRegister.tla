--------------------------- MODULE SessionRegister ---------------------------
(***************************************************************************)
(* What the session store promises its clients: one session, which a save  *)
(* replaces only when its writer has seen the session it replaces, and     *)
(* which nothing but a save or a clear changes.                            *)
(***************************************************************************)
CONSTANTS Clients, Drafts, Nothing, Unloaded

VARIABLES content, seen

register == <<content, seen>>

Init == content = Nothing /\ seen = [c \in Clients |-> Unloaded]

Load(c) == seen' = [seen EXCEPT ![c] = content] /\ UNCHANGED content

Forget(c) == seen' = [seen EXCEPT ![c] = Unloaded] /\ UNCHANGED content

Save(c, d) ==
    /\ seen[c] = content
    /\ content' = d
    /\ seen' = [seen EXCEPT ![c] = d]

Clear(c) == content' = Nothing /\ seen' = [seen EXCEPT ![c] = Unloaded]

Next == \E c \in Clients :
            Load(c) \/ Forget(c) \/ Clear(c) \/ \E d \in Drafts : Save(c, d)

Spec == Init /\ [][Next]_register
=============================================================================
