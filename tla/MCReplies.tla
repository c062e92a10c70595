------------------------------- MODULE MCReplies -------------------------------
(* Replies for TLC: two rooms, each with up to two links in a message.        *)
EXTENDS Replies, TLC

TwoRooms == {"den", "lobby"}
TwoLinksEach == TwoRooms \X (1..2)
================================================================================
