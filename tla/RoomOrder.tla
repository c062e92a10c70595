------------------------------ MODULE RoomOrder ------------------------------
(****************************************************************************)
(* What the room queues promise, without saying how: every room has one      *)
(* line of messages, the one at its head is handled alone or together with   *)
(* the messages right behind it, and messages leave the line unhandled only  *)
(* when the whole line is dropped with its worker (src/room_queue.rs:7-9).   *)
(* RoomQueues implements this module; Conversation is built on it.           *)
(****************************************************************************)
EXTENDS Naturals, Sequences

CONSTANTS Rooms,  \* the rooms the bot has joined
          Items   \* the messages that may be queued, each at most once

VARIABLES arrived,  \* [Rooms -> Seq(Items)], every message queued, in order
          pending,  \* [Rooms -> Seq(Items)], the messages nobody handles yet
          current,  \* [Rooms -> Seq(Items)], the message being handled and
                    \* the follow-ups answered with it
          settled,  \* [Rooms -> Nat], how many of arrived are over
          lostAt    \* [Rooms -> SUBSET Nat], the positions in arrived that
                    \* were dropped rather than handled

vars == <<arrived, pending, current, settled, lostAt>>

Init ==
  /\ arrived = [r \in Rooms |-> <<>>]
  /\ pending = [r \in Rooms |-> <<>>]
  /\ current = [r \in Rooms |-> <<>>]
  /\ settled = [r \in Rooms |-> 0]
  /\ lostAt = [r \in Rooms |-> {}]

(* A message of room r is queued behind everything queued before it. *)
Arrive(r, m) ==
  /\ arrived' = [arrived EXCEPT ![r] = Append(@, m)]
  /\ pending' = [pending EXCEPT ![r] = Append(@, m)]
  /\ UNCHANGED <<current, settled, lostAt>>

(* The room's only worker takes the next message. *)
Begin(r) ==
  /\ current[r] = <<>>
  /\ pending[r] # <<>>
  /\ current' = [current EXCEPT ![r] = <<Head(pending[r])>>]
  /\ pending' = [pending EXCEPT ![r] = Tail(@)]
  /\ UNCHANGED <<arrived, settled, lostAt>>

(* The n messages waiting first join the one being handled. *)
Join(r, n) ==
  /\ current[r] # <<>>
  /\ n \in 1..Len(pending[r])
  /\ current' = [current EXCEPT ![r] = @ \o SubSeq(pending[r], 1, n)]
  /\ pending' = [pending EXCEPT ![r] = SubSeq(@, n + 1, Len(@))]
  /\ UNCHANGED <<arrived, settled, lostAt>>

(* Everything being handled in room r is done with. *)
Finish(r) ==
  /\ current[r] # <<>>
  /\ settled' = [settled EXCEPT ![r] = @ + Len(current[r])]
  /\ current' = [current EXCEPT ![r] = <<>>]
  /\ UNCHANGED <<arrived, pending, lostAt>>

(* Everything of room r that is not over, in order. *)
Line(r) == current[r] \o pending[r]

(* The lines of the rooms R are dropped: one room's when its worker dies,   *)
(* every room's when the process stops.                                     *)
Drop(R) ==
  /\ \E r \in R : Line(r) # <<>>
  /\ lostAt' = [r \in Rooms |-> IF r \in R
                                THEN lostAt[r] \union (settled[r] + 1 .. settled[r] + Len(Line(r)))
                                ELSE lostAt[r]]
  /\ settled' = [r \in Rooms |-> IF r \in R THEN settled[r] + Len(Line(r)) ELSE settled[r]]
  /\ current' = [r \in Rooms |-> IF r \in R THEN <<>> ELSE current[r]]
  /\ pending' = [r \in Rooms |-> IF r \in R THEN <<>> ELSE pending[r]]
  /\ UNCHANGED arrived

Next ==
  \/ \E r \in Rooms, m \in Items : Arrive(r, m)
  \/ \E r \in Rooms : Begin(r)
  \/ \E r \in Rooms : \E n \in 1..Len(pending[r]) : Join(r, n)
  \/ \E r \in Rooms : Finish(r)
  \/ \E R \in SUBSET Rooms : Drop(R)

Spec == Init /\ [][Next]_vars

TypeOK ==
  /\ arrived \in [Rooms -> Seq(Items)]
  /\ pending \in [Rooms -> Seq(Items)]
  /\ current \in [Rooms -> Seq(Items)]
  /\ settled \in [Rooms -> Nat]
  /\ lostAt \in [Rooms -> SUBSET Nat]

(* What is not over yet in room r: the tail of what arrived. *)
Unsettled(r) == SubSeq(arrived[r], settled[r] + 1, Len(arrived[r]))

(* Messages are handled in the order they arrived, none skipped and none    *)
(* twice: what is being handled, followed by what waits, is always exactly  *)
(* the part of the room's messages that is not over                         *)
(* (src/room_queue.rs:7-9).                                                 *)
InOrder == \A r \in Rooms : Line(r) = Unsettled(r)

(* Only messages that are over count as lost, and a message still waiting   *)
(* has not been dropped by anyone.                                          *)
LostIsOver == \A r \in Rooms : lostAt[r] \subseteq 1..settled[r]
=============================================================================
