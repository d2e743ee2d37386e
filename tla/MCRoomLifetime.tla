--------------------------- MODULE MCRoomLifetime ---------------------------
(* RoomLifetime for TLC: a name that is used again, another one, and a     *)
(* thread that may outlast the 10 s a destroy waits.                       *)
EXTENDS RoomLifetime, TLC
CONSTANTS r1, r2, r3, a, b, c1, c2
MCNameOf == [r \in Rooms |-> IF r = r3 THEN b ELSE a]
SameName == Permutations({r1, r2})
=============================================================================
