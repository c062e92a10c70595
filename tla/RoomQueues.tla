------------------------------ MODULE RoomQueues ------------------------------
(****************************************************************************)
(* src/room_queue.rs and the worker loop over it (run_room in                *)
(* src/handler.rs): the map from a room to the sending half of its channel,  *)
(* the inboxes that hold the receiving halves, and the task that owns each.  *)
(* matrix-sdk calls enqueue from concurrent event handlers; the map's mutex  *)
(* makes one call one step. Workers take no lock, so their steps interleave  *)
(* with enqueue, and a panic while a message is handled drops the inbox with *)
(* everything in it.                                                         *)
(****************************************************************************)
EXTENDS Naturals, Sequences

CONSTANTS Rooms,    \* the keys of the map
          Items,    \* the messages that may be queued, each at most once
          RoomOf,   \* [Items -> Rooms], the room a message was sent in
          Inboxes,  \* identities for the inboxes ever created
          Belongs,  \* <<m, n>> \in Belongs: n may join the burst m starts
          None      \* no inbox, and the room of an inbox not created yet

ASSUME RoomQueuesAssumption ==
  /\ None \notin Inboxes
  /\ None \notin Rooms
  /\ RoomOf \in [Items -> Rooms]
  /\ Belongs \subseteq Items \X Items

VARIABLES sender,   \* RoomQueues.rooms: each room's inbox, as its sender knows it
          status,   \* where the task that owns the inbox is
          serves,   \* the room the inbox was created for
          channel,  \* sent and not received yet, in the inbox's channel
          held,     \* Inbox.held: received and not handled yet
          active,   \* the message being handled, and the burst that joined it
          (* history, for the properties: *)
          arrived,  \* every message enqueued for the room
          settled,  \* how many of those are over, handled or not
          lostAt    \* the positions in arrived that died with a worker

inboxVars == <<status, serves, channel, held, active>>
history == <<arrived, settled, lostAt>>
vars == <<sender, inboxVars, history>>

(* "waiting" for a message, "handling" one that may still collect a burst,   *)
(* "answering" one whose burst is closed, "dead" once the receiver is gone.  *)
Statuses == {"unused", "waiting", "handling", "answering", "dead"}

Live(i) == status[i] \in {"waiting", "handling", "answering"}

(* Sending to room r succeeds: it has an inbox, and its receiver is not dropped. *)
HasWorker(r) == sender[r] # None /\ Live(sender[r])

(* Everything inside inbox i, in the order it will be handled. *)
Contents(i) == active[i] \o (held[i] \o channel[i])

(* The messages of room r that its worker has, or will receive. *)
Line(r) == IF HasWorker(r) THEN Contents(sender[r]) ELSE <<>>

Init ==
  /\ sender = [r \in Rooms |-> None]
  /\ status = [i \in Inboxes |-> "unused"]
  /\ serves = [i \in Inboxes |-> None]
  /\ channel = [i \in Inboxes |-> <<>>]
  /\ held = [i \in Inboxes |-> <<>>]
  /\ active = [i \in Inboxes |-> <<>>]
  /\ arrived = [r \in Rooms |-> <<>>]
  /\ settled = [r \in Rooms |-> 0]
  /\ lostAt = [r \in Rooms |-> {}]

-----------------------------------------------------------------------------
(* enqueue *)

(* The room has a worker that still receives: send puts m in its channel. *)
Send(r, m) ==
  /\ HasWorker(r)
  /\ channel' = [channel EXCEPT ![sender[r]] = Append(@, m)]
  /\ UNCHANGED <<sender, status, serves, held, active>>

(* Mutant: the new inbox gets its task, and the map is not told.             *)
SpawnUnmapped(r, m, i) ==
  /\ ~HasWorker(r)
  /\ status[i] = "unused"
  /\ i = CHOOSE j \in Inboxes : status[j] = "unused"
  /\ status' = [status EXCEPT ![i] = "waiting"]
  /\ serves' = [serves EXCEPT ![i] = r]
  /\ channel' = [channel EXCEPT ![i] = <<m>>]
  /\ UNCHANGED <<sender, held, active>>

(* Mutant: a failed send is taken for a success. *)
SpawnIgnoresFailedSend(r, m, i) ==
  /\ ~HasWorker(r)
  /\ i = CHOOSE j \in Inboxes : status[j] = "unused"
  /\ sender' = [sender EXCEPT ![r] = IF @ = None THEN i ELSE @]
  /\ status' = [status EXCEPT ![i] = IF sender[r] = None THEN "waiting" ELSE @]
  /\ serves' = [serves EXCEPT ![i] = IF sender[r] = None THEN r ELSE @]
  /\ channel' = [channel EXCEPT ![i] = IF sender[r] = None THEN <<m>> ELSE @]
  /\ UNCHANGED <<held, active>>

(* Identities of inboxes mean nothing: any unused one will do. *)
NewInbox == CHOOSE i \in Inboxes : status[i] = "unused"

(* The room has no worker, or send failed because its receiver is dropped:   *)
(* inbox i is created with m in it, mapped, and given a task of its own.     *)
Spawn(r, m, i) ==
  /\ ~HasWorker(r)
  /\ i = NewInbox
  /\ status[i] = "unused"
  /\ sender' = [sender EXCEPT ![r] = i]
  /\ status' = [status EXCEPT ![i] = "waiting"]
  /\ serves' = [serves EXCEPT ![i] = r]
  /\ channel' = [channel EXCEPT ![i] = <<m>>]
  /\ UNCHANGED <<held, active>>

(* An event is delivered to the handler once, so m has not been seen before. *)
Enqueue(r, m) ==
  /\ RoomOf[m] = r
  /\ \A k \in 1..Len(arrived[r]) : arrived[r][k] # m
  /\ Send(r, m) \/ \E i \in Inboxes : Spawn(r, m, i)
  /\ arrived' = [arrived EXCEPT ![r] = Append(@, m)]
  /\ UNCHANGED <<settled, lostAt>>

-----------------------------------------------------------------------------
(* The task that owns inbox i *)

(* Mutant: the channel is read before what was held back. *)
TakeNextFromChannel(i) ==
  /\ status[i] = "waiting"
  /\ \/ /\ channel[i] # <<>>
        /\ active' = [active EXCEPT ![i] = <<Head(channel[i])>>]
        /\ channel' = [channel EXCEPT ![i] = Tail(@)]
        /\ UNCHANGED held
     \/ /\ channel[i] = <<>>
        /\ held[i] # <<>>
        /\ active' = [active EXCEPT ![i] = <<Head(held[i])>>]
        /\ held' = [held EXCEPT ![i] = Tail(@)]
        /\ UNCHANGED channel
  /\ status' = [status EXCEPT ![i] = "handling"]
  /\ UNCHANGED <<sender, serves, history>>

(* Inbox.next: what is held comes before what is still in the channel. *)
TakeNext(i) ==
  /\ status[i] = "waiting"
  /\ \/ /\ held[i] # <<>>
        /\ active' = [active EXCEPT ![i] = <<Head(held[i])>>]
        /\ held' = [held EXCEPT ![i] = Tail(@)]
        /\ UNCHANGED channel
     \/ /\ held[i] = <<>>
        /\ channel[i] # <<>>
        /\ active' = [active EXCEPT ![i] = <<Head(channel[i])>>]
        /\ channel' = [channel EXCEPT ![i] = Tail(@)]
        /\ UNCHANGED held
  /\ status' = [status EXCEPT ![i] = "handling"]
  /\ UNCHANGED <<sender, serves, history>>

(* n is the length of the unbroken run of messages at the front of queue     *)
(* that belong with m: it ends at the first that does not.                   *)
IsRun(m, queue, n) ==
  /\ n \in 0..Len(queue)
  /\ \A k \in 1..n : <<m, queue[k]>> \in Belongs
  /\ n < Len(queue) => <<m, queue[n + 1]>> \notin Belongs

(* Mutant: the burst takes every waiting message that belongs, past those    *)
(* that do not.                                                              *)
TakeBurstBroken(i) ==
  /\ status[i] = "handling"
  /\ LET queue == held[i] \o channel[i]
         joins(m) == <<active[i][1], m>> \in Belongs
         stays(m) == ~joins(m)
     IN /\ active' = [active EXCEPT ![i] = @ \o SelectSeq(queue, joins)]
        /\ held' = [held EXCEPT ![i] = SelectSeq(queue, stays)]
  /\ channel' = [channel EXCEPT ![i] = <<>>]
  /\ status' = [status EXCEPT ![i] = "answering"]
  /\ UNCHANGED <<sender, serves, history>>

(* Inbox.take_burst, at the end of its window: the channel is drained into   *)
(* held, then the run that belongs is popped off held's front. Nothing else  *)
(* reads the inbox meanwhile, so the drain counts as one step, the one in    *)
(* which try_recv finds the channel empty.                                   *)
TakeBurst(i) ==
  /\ status[i] = "handling"
  /\ LET queue == held[i] \o channel[i]
     IN \E n \in 0..Len(queue) :
          /\ IsRun(active[i][1], queue, n)
          /\ active' = [active EXCEPT ![i] = @ \o SubSeq(queue, 1, n)]
          /\ held' = [held EXCEPT ![i] = SubSeq(queue, n + 1, Len(queue))]
  /\ channel' = [channel EXCEPT ![i] = <<>>]
  /\ status' = [status EXCEPT ![i] = "answering"]
  /\ UNCHANGED <<sender, serves, history>>

(* Mutant: the answered messages stay around for the next one. *)
FinishKeepsActive(i) ==
  /\ status[i] \in {"handling", "answering"}
  /\ status' = [status EXCEPT ![i] = "waiting"]
  /\ settled' = [settled EXCEPT ![serves[i]] = @ + Len(active[i])]
  /\ UNCHANGED <<sender, serves, channel, held, active, arrived, lostAt>>

(* Mutant: what is held is given up when a message is done. *)
FinishDropsHeld(i) ==
  /\ status[i] \in {"handling", "answering"}
  /\ status' = [status EXCEPT ![i] = "waiting"]
  /\ active' = [active EXCEPT ![i] = <<>>]
  /\ held' = [held EXCEPT ![i] = <<>>]
  /\ LET done == settled[serves[i]] + Len(active[i])
     IN /\ settled' = [settled EXCEPT ![serves[i]] = done + Len(held[i])]
        /\ lostAt' = [lostAt EXCEPT ![serves[i]] = @ \union (done + 1 .. done + Len(held[i]))]
  /\ UNCHANGED <<sender, serves, channel, arrived>>

(* process_message returns, with or without having taken a burst. *)
Finish(i) ==
  /\ status[i] \in {"handling", "answering"}
  /\ status' = [status EXCEPT ![i] = "waiting"]
  /\ active' = [active EXCEPT ![i] = <<>>]
  /\ settled' = [settled EXCEPT ![serves[i]] = @ + Len(active[i])]
  /\ UNCHANGED <<sender, serves, channel, held, arrived, lostAt>>

(* The history of dropping k messages of room r, the next ones in line. *)
LosePositions(r, k) == lostAt[r] \union (settled[r] + 1 .. settled[r] + k)

(* process_message panics: the task unwinds and drops its inbox. The map     *)
(* keeps the sender, which finds the receiver gone at the next send.         *)
Die(i) ==
  /\ status[i] \in {"handling", "answering"}
  /\ status' = [status EXCEPT ![i] = "dead"]
  /\ active' = [active EXCEPT ![i] = <<>>]
  /\ held' = [held EXCEPT ![i] = <<>>]
  /\ channel' = [channel EXCEPT ![i] = <<>>]
  /\ LET r == serves[i]
         k == Len(Contents(i))
     IN /\ lostAt' = [lostAt EXCEPT ![r] = LosePositions(r, k)]
        /\ settled' = [settled EXCEPT ![r] = @ + k]
  /\ UNCHANGED <<sender, serves, arrived>>

-----------------------------------------------------------------------------
Backlog(r) == Len(Line(r))

(* The process stops and starts again. Queues live in memory: the new one    *)
(* starts from an empty map (RoomQueues::default).                           *)
Restart ==
  /\ \E i \in Inboxes : Live(i)
  /\ sender' = [r \in Rooms |-> None]
  /\ status' = [i \in Inboxes |-> IF Live(i) THEN "dead" ELSE status[i]]
  /\ active' = [i \in Inboxes |-> <<>>]
  /\ held' = [i \in Inboxes |-> <<>>]
  /\ channel' = [i \in Inboxes |-> <<>>]
  /\ lostAt' = [r \in Rooms |-> LosePositions(r, Backlog(r))]
  /\ settled' = [r \in Rooms |-> settled[r] + Backlog(r)]
  /\ UNCHANGED <<serves, arrived>>

Next ==
  \/ \E r \in Rooms, m \in Items : Enqueue(r, m)
  \/ \E i \in Inboxes : TakeNext(i) \/ TakeBurst(i) \/ Finish(i) \/ Die(i)
  \/ Restart

Spec == Init /\ [][Next]_vars

(* The runtime polls every task that can run, and every await inside         *)
(* process_message ends: requests time out, and nothing in it waits for      *)
(* another message.                                                          *)
Fairness == \A i \in Inboxes : WF_vars(TakeNext(i)) /\ WF_vars(Finish(i))

FairSpec == Spec /\ Fairness

-----------------------------------------------------------------------------
(* The types of the variables; an inbox has something active exactly while   *)
(* its task handles it, and one nobody owns holds nothing.                   *)
TypeOK ==
  /\ sender \in [Rooms -> Inboxes \union {None}]
  /\ status \in [Inboxes -> Statuses]
  /\ serves \in [Inboxes -> Rooms \union {None}]
  /\ channel \in [Inboxes -> Seq(Items)]
  /\ held \in [Inboxes -> Seq(Items)]
  /\ active \in [Inboxes -> Seq(Items)]
  /\ arrived \in [Rooms -> Seq(Items)]
  /\ settled \in [Rooms -> Nat]
  /\ lostAt \in [Rooms -> SUBSET Nat]
  /\ \A i \in Inboxes :
       /\ Live(i) => serves[i] \in Rooms
       /\ status[i] \in {"handling", "answering"} <=> active[i] # <<>>
       /\ ~Live(i) => held[i] = <<>> /\ channel[i] = <<>>

(* No two tasks ever handle messages of the same room, and the one that      *)
(* lives is the one the map sends to: the old one is gone before enqueue     *)
(* makes another, so a follow-up cannot overtake the message before it       *)
(* (src/room_queue.rs:7-9).                                                  *)
OneWorker == \A i \in Inboxes : Live(i) => sender[serves[i]] = i

(* The messages of a room that are not over are exactly what its live inbox  *)
(* holds, in the order they arrived, whichever of the three places each is   *)
(* in: none is skipped, repeated or overtaken, and what a dead worker held   *)
(* is not handled by its successor.                                          *)
InOrder ==
  \A r \in Rooms : Line(r) = SubSeq(arrived[r], settled[r] + 1, Len(arrived[r]))

(* A message is lost only in a step that ends its room's worker. In          *)
(* particular the message that finds the worker dead is not                  *)
(* (src/room_queue.rs:112, a_dead_worker_is_replaced_without_losing_the_     *)
(* message).                                                                 *)
LostOnlyWithWorker ==
  [][\A r \in Rooms : lostAt'[r] # lostAt[r] =>
       HasWorker(r) /\ ~HasWorker(r)']_vars

(* Every message that arrives is over at some point: handled, or lost with   *)
(* its worker. None waits forever behind a worker that is gone. As each      *)
(* message is sent once, that is to say that a room with something to do     *)
(* comes to have nothing to do.                                              *)
EverySettled ==
  \A r \in Rooms : settled[r] # Len(arrived[r]) ~> settled[r] = Len(arrived[r])

-----------------------------------------------------------------------------
(* The promise RoomQueues keeps: what its live worker holds is the room's    *)
(* line of messages.                                                         *)
Pending(r) == IF HasWorker(r) THEN held[sender[r]] \o channel[sender[r]] ELSE <<>>
Current(r) == IF HasWorker(r) THEN active[sender[r]] ELSE <<>>

Order == INSTANCE RoomOrder
           WITH pending <- [r \in Rooms |-> Pending(r)],
                current <- [r \in Rooms |-> Current(r)]

(* The queues implement one ordered line per room. *)
ImplementsOrder == Order!Spec
=============================================================================
