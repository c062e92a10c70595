----------------------------- MODULE MCRoomQueues -----------------------------
(* RoomQueues for TLC: messages are pairs of a sender and a number, and only  *)
(* messages of the same sender belong to one burst.                          *)
EXTENDS RoomQueues

CONSTANTS r1, r2, i1, i2, i3, i4, i5

MCRooms == {r1, r2}
MCItems == {<<"ann", 1>>, <<"ann", 2>>, <<"bob", 3>>, <<"ann", 4>>, <<"bob", 5>>}
MCRoomOf == [m \in MCItems |-> IF m[2] = 5 THEN r2 ELSE r1]
MCInboxes == {i1, i2, i3, i4, i5}
MCBelongs == {p \in MCItems \X MCItems : p[1][1] = p[2][1]}
=============================================================================
