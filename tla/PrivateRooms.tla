----------------------------- MODULE PrivateRooms -----------------------------
(****************************************************************************)
(* The rooms the bot is in, and which of them are private conversations:     *)
(* those it was invited into (answer_invite of src/handler.rs) and those it  *)
(* made for someone to notify (private_room of src/notify.rs). The table     *)
(* direct_rooms says so, to process_message and to the status page, which    *)
(* anyone may read (src/direct_rooms.rs, src/status_server.rs, src/stats.rs).*)
(****************************************************************************)
EXTENDS Process, Sequences, SequencesExt

CONSTANTS
  Rooms,       \* the rooms others may invite the bot into
  Configured,  \* Config::rooms, some of them
  Inviters,    \* the people who may invite it
  ServerOf,    \* their servers
  OwnServer,   \* the bot's
  Allowed,     \* Config::dm_allowed_users: people and servers
  Ignored,     \* Config::ignored_users
  Notified     \* Config::notify_users, in that order

ASSUME PrivateRoomsAssumption ==
  /\ Configured \subseteq Rooms
  /\ DOMAIN ServerOf = Inviters /\ Ignored \subseteq Inviters
  /\ \A r \in Rooms : r \notin ToSet(Notified) \X Nat  \* the rooms the bot makes are new

VARIABLES
  membership,  \* of the bot in each of Rooms: "out", "invited" or "joined"
  invites,     \* the invites sent: records [room, by]
  answering,   \* for each invite, how far answer_invite is with it
  direct,      \* the direct_rooms table
  made,        \* for each of the notified, the rooms the bot made with them
  cameBy       \* history: the rooms the bot is in because of an invite

roomsVars == <<membership, invites, answering, direct, made, cameBy>>

Attempts == 3  \* JOIN_ATTEMPT_DELAYS

RoomsInit ==
  /\ membership = [r \in Rooms |-> "out"]
  /\ invites = <<>> /\ answering = <<>>
  /\ direct = {} /\ cameBy = {}
  /\ made = [u \in ToSet(Notified) |-> {}]

(* allows: nothing configured means the bot's own server. *)
Allows(u) ==
  IF Allowed = {} THEN ServerOf[u] = OwnServer ELSE u \in Allowed \/ ServerOf[u] \in Allowed

Welcome(u) == u \notin Ignored /\ Allows(u)

(* The invite a room waits for an answer to: the last one, since invite      *)
(* details are the room's.                                                   *)
Pending(i) ==
  /\ membership[invites[i].room] = "invited"
  /\ \A j \in DOMAIN invites : invites[j].room = invites[i].room => j <= i

(* What answer_invite spawns a task for. *)
Opening(i) == IF Welcome(invites[i].by) THEN "recording" ELSE "declining"

Invite(r, u) ==
  /\ membership[r] = "out"
  /\ membership' = [membership EXCEPT ![r] = "invited"]
  /\ invites' = Append(invites, [room |-> r, by |-> u])
  /\ answering' = Append(answering, "none")
  /\ Event /\ UNCHANGED <<direct, made, cameBy>>

(* on_invite, once the handlers are registered. *)
ReceiveInvite(i) ==
  /\ At("running")
  /\ Pending(i) /\ answering[i] = "none"
  /\ answering' = [answering EXCEPT ![i] = Opening(i)]
  /\ Stay /\ UNCHANGED <<membership, invites, direct, made, cameBy>>

(* answer_pending_invites, as part of the start: those whose details can be  *)
(* read. The others wait for another start, since no event comes for them.   *)
AnswerPendingInvites ==
  \E unreadable \in SUBSET DOMAIN invites :
    answering' = [i \in DOMAIN answering |->
                    IF ~Pending(i) THEN answering[i]
                    ELSE IF i \in unreadable THEN "unread" ELSE Opening(i)]

(* Declining works, or fails and is left at that. *)
Decline(i) ==
  /\ Up /\ answering[i] = "declining"
  /\ answering' = [answering EXCEPT ![i] = "over"]
  /\ \/ membership' = [membership EXCEPT ![invites[i].room] = "out"] /\ Stay
     \/ Fault /\ UNCHANGED <<membership, stage, build>>
  /\ UNCHANGED <<invites, direct, made, cameBy>>

(* Mutant: it is joined also if it could not be recorded. *)
RecordOrNot(i) ==
  /\ Up /\ answering[i] = "recording"
  /\ \/ direct' = direct \union {invites[i].room} /\ Stay
     \/ Fault /\ UNCHANGED <<direct, stage, build>>
  /\ answering' = [answering EXCEPT ![i] = "joining1"]
  /\ UNCHANGED <<membership, invites, made, cameBy>>

(* Recorded before it is joined; without the record it is not joined. *)
Record(i) ==
  /\ Up /\ answering[i] = "recording"
  /\ \/ /\ direct' = direct \union {invites[i].room}
        /\ answering' = [answering EXCEPT ![i] = "joining1"]
        /\ Stay
     \/ /\ answering' = [answering EXCEPT ![i] = "over"]
        /\ Fault /\ UNCHANGED <<direct, stage, build>>
  /\ UNCHANGED <<membership, invites, made, cameBy>>

(* Mutant: an attempt to join that fails is the last. *)
TryJoinOnce(i) ==
  /\ Up /\ answering[i] = "joining1"
  /\ \/ /\ membership' = [membership EXCEPT ![invites[i].room] = "joined"]
        /\ cameBy' = cameBy \union {invites[i].room}
        /\ Stay
     \/ Fault /\ UNCHANGED <<membership, cameBy, stage, build>>
  /\ answering' = [answering EXCEPT ![i] = "over"]
  /\ UNCHANGED <<invites, direct, made>>

Next3(at) == CASE at = "joining1" -> "joining2" [] at = "joining2" -> "joining3" [] OTHER -> "over"

(* An attempt to join; after the last that fails the invite stays pending.   *)
TryJoin(i) ==
  /\ Up /\ answering[i] \in {"joining1", "joining2", "joining3"}
  /\ \/ /\ membership' = [membership EXCEPT ![invites[i].room] = "joined"]
        /\ cameBy' = IF membership[invites[i].room] = "invited"
                     THEN cameBy \union {invites[i].room} ELSE cameBy
        /\ answering' = [answering EXCEPT ![i] = "over"]
        /\ Stay
     \/ /\ answering' = [answering EXCEPT ![i] = Next3(@)]
        /\ Fault /\ UNCHANGED <<membership, cameBy, stage, build>>
  /\ UNCHANGED <<invites, direct, made>>

(* join_configured_rooms: a room that cannot be joined is left at that. *)
JoinConfigured ==
  /\ At("rooms") /\ Enter("sync")
  /\ \E joined \in SUBSET {r \in Configured : membership[r] # "joined"} :
       membership' = [r \in Rooms |-> IF r \in joined THEN "joined" ELSE membership[r]]
  /\ UNCHANGED <<invites, answering, direct, made, cameBy>>

(* client.joined_rooms *)
JoinedRooms == {r \in Rooms : membership[r] = "joined"} \union UNION {made[u] : u \in DOMAIN made}

(* Tasks die with the process. *)
DropInvites == answering' = [i \in DOMAIN answering |-> "none"]

-----------------------------------------------------------------------------
(* The status page *)

IsPrivate(r) == r \in direct

(* The rooms of api_status; and, of the rooms messages may be said in, those *)
(* whose messages api_room_messages gives out and stats::collect counts.     *)
ShownRooms == {r \in JoinedRooms : ~IsPrivate(r)}
ShownMessages == {r \in JoinedRooms : ~IsPrivate(r)}
CountedRooms == JoinedRooms \ direct

RoomsOK ==
  /\ membership \in [Rooms -> {"out", "invited", "joined"}]
  /\ invites \in Seq([room : Rooms, by : Inviters]) /\ Len(answering) = Len(invites)
  /\ \A i \in DOMAIN answering :
       answering[i] \in {"none", "unread", "declining", "recording",
                         "joining1", "joining2", "joining3", "over"}
  /\ cameBy \subseteq Rooms
=============================================================================
