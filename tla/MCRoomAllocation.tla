-------------------------- MODULE MCRoomAllocation --------------------------
(* A strong, a weak and an instrumental teacher; two rooms, one for pianos. *)
EXTENDS RoomAllocation, TLC

CONSTANTS b1, b2, c1, s1, s2, r1, r2, ann, bob, cy

MCRoomRank == r1 :> 1 @@ r2 :> 2
MCWho == b1 :> bob @@ b2 :> bob @@ c1 :> cy @@ s1 :> cy @@ s2 :> ann
MCNameRank == ann :> 1 @@ bob :> 2 @@ cy :> 3
MCPriority == ann :> 9 @@ bob :> 4 @@ cy :> 5
MCInstrument == [q \in Requests |-> IF q \in {c1, s1} THEN "Instrumental" ELSE "Piano"]
MCWishes == b1 :> <<>> @@ b2 :> <<>> @@ c1 :> <<r2>> @@ s1 :> <<r1>> @@ s2 :> <<r1>>
MCFavourites == [t \in DOMAIN Priority |-> IF t = cy THEN {r1} ELSE {}]
MCBase == r1 :> [Piano |-> 5, Instrumental |-> 1] @@ r2 :> [Piano |-> 3, Instrumental |-> 3]
MCDate == s1 :> 1 @@ s2 :> 2
=============================================================================
