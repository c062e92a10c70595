---------------------------- MODULE LifecycleProofs ----------------------------
(* However often the bot is started, killed and started again, by whichever    *)
(* builds: it stays the device its crypto store belongs to, its private rooms  *)
(* stay off the status page, its former files are imported once and as a       *)
(* whole, the number of a fact does not come back, an invite is not given up   *)
(* after one failure, and alerts and notices reach whom they are for.          *)
EXTENDS Lifecycle, DataFacts, TLAPS

-----------------------------------------------------------------------------
(* The device *)

(* The stages of a process that is logged in. *)
LoggedIn == {"logged", "save", "database", "rooms", "sync", "running", "stopping"}

(* What the files say of the device whose the crypto store is, and what the    *)
(* process has of it on its way there. A device that is not in its file yet    *)
(* has not logged in, so the store is nobody's, or that of one whose ID could  *)
(* not be read.                                                                *)
DeviceInv ==
  /\ SessionOK
  /\ bound # "none" => sessionFile \in {"none", "empty", bound} /\ (deviceFile = bound \/ unread)
  /\ bound = "none" => sessionFile = "none"
  /\ stage = "newDevice" => deviceFile = "empty" /\ device \in Devices /\ (bound = "none" \/ unread)
  /\ stage = "login" => device = deviceFile /\ device \in Devices
  /\ stage \in LoggedIn => bound = device /\ device \in Devices

LEMMA DeviceKept ==
  ASSUME DeviceInv, UNCHANGED <<deviceFile, sessionFile, bound, unread>>,
         \/ device' = device /\ stage' = stage
         \/ device' = device /\ stage \in LoggedIn /\ stage' \in LoggedIn
         \/ device' \in {device, "none"} /\ stage' \in {"down", "session"}
  PROVE  DeviceInv'
  BY DEF DeviceInv, SessionOK, LoggedIn

LEMMA SessionKeepsDevice ==
  ASSUME DeviceInv, SessionStep
  PROVE  DeviceInv'
<1>1. CASE LoadSession
  <2>1. CASE Read = "none"
    BY <1>1, <2>1 DEF LoadSession, Enter, sessionVars, DeviceInv, SessionOK, LoggedIn
  <2>2. CASE Read = "error"
    BY <1>1, <2>2, DeviceKept DEF LoadSession, Enter, sessionVars
  <2>3. CASE Read \notin {"none", "error"}
    <3>1. sessionFile \in Devices /\ device' = sessionFile /\ stage' = "database"
          /\ UNCHANGED <<deviceFile, sessionFile, bound, unread>>
      BY <1>1, <2>3 DEF LoadSession, Enter, Read
    <3>2. sessionFile = bound
      BY <3>1, SessionAssumption DEF DeviceInv
    <3>3. QED
      BY <3>1, <3>2, SessionAssumption DEF DeviceInv, SessionOK, LoggedIn
  <2>4. QED
    BY <2>1, <2>2, <2>3
<1>2. CASE LoadDevice
  BY <1>2, SessionAssumption DEF LoadDevice, At, Enter, DeviceInv, SessionOK, LoggedIn
<1>3. CASE SaveDevice
  BY <1>3, SessionAssumption DEF SaveDevice, At, Enter, DeviceInv, SessionOK, LoggedIn
<1>4. CASE Login
  BY <1>4, SessionAssumption DEF Login, At, Enter, DeviceInv, SessionOK, LoggedIn
<1>5. CASE TruncateSession
  BY <1>5, SessionAssumption DEF TruncateSession, At, Enter, DeviceInv, SessionOK, LoggedIn
<1>6. CASE SaveSession
  BY <1>6, SessionAssumption DEF SaveSession, At, Enter, DeviceInv, SessionOK, LoggedIn
<1>7. QED
  BY <1>1, <1>2, <1>3, <1>4, <1>5, <1>6 DEF SessionStep

(* What the rest of the system does to the stage. *)
LEMMA DatabaseStages ==
  ASSUME OpenDatabase
  PROVE  stage = "database" /\ stage' \in {"database", "rooms", "down"} /\ faults' = faults
<1>1. CASE Migrate
  BY <1>1 DEF Migrate, At, Enter, Stay, processVars
<1>2. CASE Skip
  BY <1>2 DEF Skip, At, Stay, processVars
<1>3. CASE ImportMessages \/ ImportReactions \/ ImportMemory \/ ImportUsage
  BY <1>3 DEF ImportMessages, ImportReactions, ImportMemory, ImportUsage, Importing, At, Stay, processVars
<1>4. CASE Opened
  BY <1>4 DEF Opened, At, Enter
<1>5. QED
  BY <1>1, <1>2, <1>3, <1>4 DEF OpenDatabase

LEMMA StageKept ==
  /\ Inviting => stage' = stage
  /\ Rooming => stage' = stage
  /\ Notifying => stage' = stage
  /\ Serving => stage' = stage
<1>1. Inviting => stage' = stage
  BY DEF Inviting, Invite, Event
<1>2. Rooming => stage' = stage
  BY DEF Rooming, ReceiveInvite, Decline, Record, TryJoin, Stay, processVars
<1>3. ASSUME NEW t \in Tasks, FindRoom(t)
      PROVE  stage' = stage
  BY <1>3 DEF FindRoom, Use, Stay, processVars
<1>4. ASSUME NEW t \in Tasks, CreateRoom(t)
      PROVE  stage' = stage
  BY <1>4 DEF CreateRoom, Use, Stay, processVars
<1>5. ASSUME NEW t \in Tasks, SendAlert(t) \/ RecordRoom(t)
      PROVE  stage' = stage
  BY <1>5 DEF SendAlert, RecordRoom, Use, Stay, processVars
<1>6. Announce \/ RememberNotice \/ TakeAlert \/ Raise => stage' = stage
  BY DEF Announce, RememberNotice, TakeAlert, Raise, Event, Stay, processVars
<1>7. Notifying => stage' = stage
  BY <1>3, <1>4, <1>5, <1>6 DEF Notifying, Notify
<1>8. Serving => stage' = stage
  BY DEF Serving, Serve, Event
<1>9. QED
  BY <1>1, <1>2, <1>7, <1>8

LEMMA StepKeepsDevice == DeviceInv /\ [Next]_vars => DeviceInv'
<1> SUFFICES ASSUME DeviceInv, [Next]_vars
             PROVE  DeviceInv'
  OBVIOUS
<1>1. CASE Restart
  BY <1>1, DeviceKept DEF Restart, Start, Deploy, Enter, sessionVars
<1>2. CASE GetReady
  <2>1. CASE SessionStep
    BY <2>1, SessionKeepsDevice
  <2>2. CASE OpenDatabase /\ UNCHANGED sessionVars
    BY <2>2, DatabaseStages, DeviceKept DEF sessionVars, LoggedIn
  <2>3. CASE JoinConfigured /\ UNCHANGED sessionVars
    BY <2>3, DeviceKept DEF JoinConfigured, At, Enter, sessionVars, LoggedIn
  <2>4. QED
    BY <1>2, <2>1, <2>2, <2>3 DEF GetReady
<1>3. CASE Sync
  BY <1>3, DeviceKept DEF Sync, At, Enter, sessionVars, LoggedIn
<1>4. CASE StopSyncing
  BY <1>4, DeviceKept DEF StopSyncing, At, sessionVars, LoggedIn
<1>5. CASE Exit \/ Crash
  <2>1. stage' = "down"
    BY <1>5 DEF Exit, Crash, Enter, Die
  <2>2. device' = "none" /\ UNCHANGED <<deviceFile, sessionFile, bound, unread>>
    BY <1>5 DEF Exit, Crash, DropAll
  <2>3. QED
    BY <2>1, <2>2, DeviceKept
<1>6. CASE Operator
  BY <1>6 DEF Operator, RemoveSession, At, Stay, processVars, DeviceInv, SessionOK, LoggedIn
<1>7. CASE Inviting \/ Rooming \/ Notifying \/ Serving
  <2>1. UNCHANGED sessionVars
    BY <1>7 DEF Inviting, Rooming, Notifying, Serving
  <2>2. QED
    BY <1>7, <2>1, StageKept, DeviceKept DEF sessionVars
<1>8. CASE UNCHANGED vars
  BY <1>8, DeviceKept DEF vars, processVars, sessionVars
<1>9. QED
  BY <1>1, <1>2, <1>3, <1>4, <1>5, <1>6, <1>7, <1>8 DEF Next

(* Whichever start is interrupted where, whoever logs in is the device that    *)
(* the crypto store belongs to, for any number of starts and devices.          *)
THEOREM DeviceIsKept == Spec => []SameDevice
<1>1. Init => DeviceInv
  BY SessionAssumption DEF Init, ProcessInit, SessionInit, DeviceInv, SessionOK, LoggedIn
<1>2. DeviceInv => SameDevice
  BY DEF DeviceInv, SameDevice, LoggedIn
<1>3. QED
  BY <1>1, <1>2, StepKeepsDevice, PTL DEF Spec

-----------------------------------------------------------------------------
(* The private rooms *)

JoinAttempts == {"joining1", "joining2", "joining3"}
Progress == JoinAttempts \union {"none", "unread", "declining", "recording", "over"}

(* An answer for every invite. *)
Answering ==
  /\ invites \in Seq([room : Rooms, by : Inviters])
  /\ DOMAIN answering = DOMAIN invites /\ answering \in Seq(Progress)

(* Who tries to join has recorded, and so has whoever came by an invite. *)
RecordedFirst ==
  /\ \A i \in DOMAIN invites : answering[i] \in JoinAttempts => invites[i].room \in direct
  /\ cameBy \subseteq direct

PrivateInv == Answering /\ RecordedFirst

LEMMA OpeningIsNoAttempt == \A i : Opening(i) \in Progress /\ Opening(i) \notin JoinAttempts
  BY DEF Opening, JoinAttempts, Progress

(* A sequence with one element replaced, or each of them. *)
LEMMA ElementReplaced ==
  ASSUME NEW s \in Seq(Progress), NEW i \in DOMAIN s, NEW e \in Progress
  PROVE  [s EXCEPT ![i] = e] \in Seq(Progress)
<1>1. i \in 1..Len(s)
  OBVIOUS
<1>2. QED
  BY <1>1, ExceptSeq

LEMMA EachReplaced ==
  ASSUME NEW s \in Seq(Progress), NEW f \in [DOMAIN s -> Progress]
  PROVE  f \in Seq(Progress)
<1>1. Len(s) \in Nat /\ DOMAIN s = 1..Len(s)
  OBVIOUS
<1>2. f \in [1..Len(s) -> Progress]
  BY <1>1
<1>3. QED
  BY <1>1, <1>2, SeqDef

(* Steps that answer no invite. *)
LEMMA PrivateKept ==
  ASSUME PrivateInv, UNCHANGED <<invites, answering, cameBy>>, direct \subseteq direct'
  PROVE  PrivateInv'
  BY DEF PrivateInv, Answering, RecordedFirst

(* Steps that answer invites. *)
LEMMA AnsweredRight ==
  ASSUME PrivateInv, UNCHANGED invites,
         answering' \in Seq(Progress), DOMAIN answering' = DOMAIN answering,
         direct \subseteq direct', cameBy' \subseteq direct',
         \A i \in DOMAIN invites : answering'[i] \in JoinAttempts =>
           answering[i] \in JoinAttempts \/ invites[i].room \in direct'
  PROVE  PrivateInv'
  BY DEF PrivateInv, Answering, RecordedFirst

LEMMA InvitePrivate ==
  ASSUME PrivateInv, NEW r \in Rooms, NEW u \in Inviters, Invite(r, u)
  PROVE  PrivateInv'
<1> DEFINE invite == [room |-> r, by |-> u]
<1>1. /\ invites \in Seq([room : Rooms, by : Inviters]) /\ answering \in Seq(Progress)
      /\ Len(answering) = Len(invites) /\ Len(invites) \in Nat /\ invite \in [room : Rooms, by : Inviters]
  BY DEF PrivateInv, Answering
<1>2. /\ invites' = Append(invites, invite) /\ answering' = Append(answering, "none")
      /\ UNCHANGED <<direct, cameBy>>
  BY DEF Invite
<1> HIDE DEF invite
<1>3. Answering'
  <2>1. invites' \in Seq([room : Rooms, by : Inviters]) /\ DOMAIN invites' = 1..(Len(invites) + 1)
    <3>1. Append(invites, invite) \in Seq([room : Rooms, by : Inviters])
          /\ DOMAIN Append(invites, invite) = 1..(Len(invites) + 1)
      BY <1>1, AppendProperties
    <3>2. QED
      BY <1>2, <3>1
  <2>2. answering' \in Seq(Progress) /\ DOMAIN answering' = 1..(Len(invites) + 1)
    <3>1. "none" \in Progress
      BY DEF Progress
    <3>2. QED
      BY <1>1, <1>2, <3>1, AppendProperties
  <2>3. QED
    BY <2>1, <2>2 DEF Answering
<1>4. ASSUME NEW i \in DOMAIN invites', answering'[i] \in JoinAttempts
      PROVE  invites'[i].room \in direct
  <2>1. i # Len(invites) + 1
    BY <1>1, <1>2, <1>4 DEF JoinAttempts
  <2>2. i \in DOMAIN invites
    BY <1>1, <1>2, <2>1
  <2>3. invites'[i] = invites[i] /\ answering'[i] = answering[i]
    BY <1>1, <1>2, <2>2
  <2>4. QED
    BY <1>4, <2>2, <2>3 DEF PrivateInv, RecordedFirst
<1>5. RecordedFirst'
  BY <1>2, <1>4 DEF PrivateInv, RecordedFirst
<1>6. QED
  BY <1>3, <1>5 DEF PrivateInv

LEMMA RoomingPrivate ==
  ASSUME PrivateInv, NEW i \in DOMAIN invites,
         ReceiveInvite(i) \/ Decline(i) \/ Record(i) \/ TryJoin(i)
  PROVE  PrivateInv'
<1>1. /\ answering \in Seq(Progress) /\ DOMAIN answering = DOMAIN invites
      /\ cameBy \subseteq direct /\ i \in DOMAIN answering
      /\ "over" \in Progress /\ "joining1" \in Progress
  BY DEF PrivateInv, Answering, RecordedFirst, Progress, JoinAttempts
<1>2. CASE ReceiveInvite(i)
  <2>1. answering' = [answering EXCEPT ![i] = Opening(i)]
        /\ UNCHANGED <<invites, direct, cameBy>>
    BY <1>2 DEF ReceiveInvite
  <2>2. answering' \in Seq(Progress)
    BY <1>1, <2>1, OpeningIsNoAttempt, ElementReplaced
  <2>3. QED
    BY <1>1, <2>1, <2>2, OpeningIsNoAttempt, AnsweredRight
<1>3. CASE Decline(i)
  <2>1. /\ answering' = [answering EXCEPT ![i] = "over"]
        /\ UNCHANGED <<invites, direct, cameBy>>
    BY <1>3 DEF Decline
  <2>2. answering' \in Seq(Progress)
    BY <1>1, <2>1, ElementReplaced
  <2>3. QED
    BY <1>1, <2>1, <2>2, AnsweredRight DEF JoinAttempts
<1>4. CASE Record(i)
  <2>1. \/ /\ direct' = direct \union {invites[i].room}
           /\ answering' = [answering EXCEPT ![i] = "joining1"]
        \/ direct' = direct /\ answering' = [answering EXCEPT ![i] = "over"]
    BY <1>4 DEF Record
  <2>2. UNCHANGED <<invites, cameBy>>
    BY <1>4 DEF Record
  <2>3. answering' \in Seq(Progress)
    BY <1>1, <2>1, ElementReplaced
  <2>4. QED
    BY <1>1, <2>1, <2>2, <2>3, AnsweredRight DEF JoinAttempts
<1>5. CASE TryJoin(i)
  <2>1. answering[i] \in JoinAttempts
    BY <1>5 DEF TryJoin, JoinAttempts
  <2>2. invites[i].room \in direct
    BY <2>1 DEF PrivateInv, RecordedFirst
  <2>3. UNCHANGED <<invites, direct>> /\ cameBy' \subseteq cameBy \union {invites[i].room}
    BY <1>5 DEF TryJoin
  <2>4. PICK e \in Progress : answering' = [answering EXCEPT ![i] = e]
    <3>1. Next3(answering[i]) \in Progress /\ "over" \in Progress
      BY DEF Next3, Progress, JoinAttempts
    <3>2. \/ answering' = [answering EXCEPT ![i] = "over"]
          \/ answering' = [answering EXCEPT ![i] = Next3(answering[i])]
      BY <1>5 DEF TryJoin
    <3>3. QED
      BY <3>1, <3>2
  <2>5. answering' \in Seq(Progress)
    BY <1>1, <2>4, ElementReplaced
  <2>6. QED
    BY <1>1, <2>2, <2>3, <2>4, <2>5, <2>1, AnsweredRight
<1>6. QED
  BY <1>2, <1>3, <1>4, <1>5

(* Recording a room takes none back, and no other step of a notice is about    *)
(* which rooms are recorded.                                                   *)
LEMMA NotifyingRecords ==
  ASSUME Notifying
  PROVE  direct \subseteq direct'
<1>1. ASSUME NEW t \in Tasks, FindRoom(t) \/ CreateRoom(t) \/ RecordRoom(t) \/ SendAlert(t)
      PROVE  direct \subseteq direct'
  BY <1>1 DEF FindRoom, CreateRoom, RecordRoom, SendAlert, Use
<1>2. Announce \/ RememberNotice \/ TakeAlert \/ Raise => direct' = direct
  BY DEF Announce, RememberNotice, TakeAlert, Raise
<1>3. QED
  BY <1>1, <1>2 DEF Notifying, Notify

LEMMA StepKeepsPrivate == PrivateInv /\ [Next]_vars => PrivateInv'
<1> SUFFICES ASSUME PrivateInv, [Next]_vars
             PROVE  PrivateInv'
  OBVIOUS
<1>1. /\ answering \in Seq(Progress) /\ DOMAIN answering = DOMAIN invites /\ cameBy \subseteq direct
  BY DEF PrivateInv, Answering, RecordedFirst
<1>2. CASE Restart
  BY <1>2, PrivateKept DEF Restart, roomsVars
<1>3. CASE GetReady
  <2>1. UNCHANGED <<invites, answering, direct, cameBy>>
    BY <1>3 DEF GetReady, JoinConfigured, roomsVars
  <2>2. QED
    BY <2>1, PrivateKept
<1>4. CASE Sync
  <2>1. PICK unreadable \in SUBSET DOMAIN invites :
          answering' = [i \in DOMAIN answering |->
                          IF ~Pending(i) THEN answering[i]
                          ELSE IF i \in unreadable THEN "unread" ELSE Opening(i)]
    BY <1>4 DEF Sync, AnswerPendingInvites
  <2>2. answering' \in [DOMAIN answering -> Progress] /\ UNCHANGED <<invites, direct, cameBy>>
    <3>1. "unread" \in Progress /\ \A i \in DOMAIN answering : answering[i] \in Progress
      BY <1>1 DEF Progress
    <3>2. QED
      BY <1>4, <2>1, <3>1, OpeningIsNoAttempt DEF Sync
  <2>3. answering' \in Seq(Progress)
    BY <1>1, <2>2, EachReplaced
  <2>4. \A i \in DOMAIN invites : answering'[i] \in JoinAttempts => answering[i] \in JoinAttempts
    BY <1>1, <2>1, OpeningIsNoAttempt DEF JoinAttempts
  <2>5. QED
    BY <1>1, <2>2, <2>3, <2>4, AnsweredRight
<1>5. CASE StopSyncing
  BY <1>5, PrivateKept DEF StopSyncing, roomsVars
<1>6. CASE Exit \/ Crash
  <2>1. /\ answering' = [i \in DOMAIN answering |-> "none"]
        /\ UNCHANGED <<invites, direct, cameBy>>
    BY <1>6 DEF Exit, Crash, DropAll, DropInvites
  <2>2. answering' \in [DOMAIN answering -> Progress]
    BY <2>1 DEF Progress
  <2>3. answering' \in Seq(Progress)
    BY <1>1, <2>2, EachReplaced
  <2>4. \A i \in DOMAIN invites : answering'[i] \notin JoinAttempts
    BY <1>1, <2>1 DEF JoinAttempts
  <2>5. QED
    BY <1>1, <2>1, <2>2, <2>3, <2>4, AnsweredRight
<1>7. CASE Operator
  BY <1>7, PrivateKept DEF Operator, roomsVars
<1>8. CASE Inviting
  BY <1>8, InvitePrivate DEF Inviting
<1>9. CASE Rooming
  BY <1>9, RoomingPrivate DEF Rooming
<1>10. CASE Notifying
  BY <1>10, NotifyingRecords, PrivateKept DEF Notifying
<1>11. CASE Serving
  BY <1>11, PrivateKept DEF Serving, roomsVars
<1>12. CASE UNCHANGED vars
  BY <1>12, PrivateKept DEF vars, roomsVars
<1>13. QED
  BY <1>2, <1>3, <1>4, <1>5, <1>6, <1>7, <1>8, <1>9, <1>10, <1>11, <1>12 DEF Next

-----------------------------------------------------------------------------
(* The import *)

Ready == {"rooms", "sync", "running", "stopping"}

(* Opening has come past its j-th source, or is over. *)
Passed(j) == (stage = "database" /\ j < step) \/ stage \in Ready

Migrated == schema \in Nat /\ ran = [n \in 1..schema |-> n]

(* Whatever opening came past is done, but for a reaction log. *)
InOrder ==
  /\ step \in Nat /\ (stage # "database" => step = 0)
  /\ \A j \in 1..Len(Sources) : Passed(j) => Sources[j] \in imports \/ Sources[j][1] = "reactions"

(* What came of the logs is there exactly if they are done, and the total is   *)
(* what was spent, which is nothing yet if the former one is not there.        *)
RowsOfLogs ==
  /\ messages = UNION {Logs[n].messages : n \in {m \in DOMAIN Logs : Done("messages", m)}}
  /\ reactions = UNION {{Logs[n].room} \X Logs[n].reactions :
                          n \in {m \in DOMAIN Logs : Done("reactions", m)}}

TotalKept ==
  /\ spent \in Nat /\ (~Done("usage", 1) => spent = 0)
  /\ usage = spent + (IF Done("usage", 1) THEN LegacyUsage ELSE 0)

LegacyForgotten == 1..(NextFact - 1) \ {f.id : f \in LegacyFacts}

(* The facts have a number each, up to the last one that was given, and the    *)
(* numbers that are gone are below it too; before the import there are none.   *)
FactsKept ==
  /\ facts \subseteq [id : Nat, room : FactRooms] /\ lastNumber \in Nat /\ forgotten \subseteq Nat
  /\ \A f, g \in facts : f.id = g.id => f = g
  /\ \A f \in facts : f.id <= lastNumber /\ f.id \notin forgotten
  /\ IF Done("memory", 1)
     THEN /\ \A n \in forgotten : n <= lastNumber
          /\ \A f \in LegacyFacts : f \in facts \/ f.id \in forgotten
     ELSE facts = {} /\ lastNumber = 0 /\ forgotten = LegacyForgotten

ImportInv == Migrated /\ InOrder /\ RowsOfLogs /\ TotalKept /\ FactsKept

LEMMA SourcesAre ==
  /\ Len(Logs) \in Nat /\ DOMAIN Logs = 1..Len(Logs)
  /\ Len(Sources) = 2 * Len(Logs) + 2 /\ DOMAIN Sources = 1..Len(Sources)
  /\ Sources[2 * Len(Logs) + 1] = <<"memory", 1>> /\ Sources[2 * Len(Logs) + 2] = <<"usage", 1>>
  /\ \A j \in DOMAIN Sources :
       \/ Sources[j] \in {<<"memory", 1>>, <<"usage", 1>>}
       \/ \E n \in DOMAIN Logs : Sources[j] \in {<<"messages", n>>, <<"reactions", n>>}
<1> DEFINE L == Len(Logs)
           M == [n \in 1..L |-> <<"messages", n>>]
           R == [n \in 1..L |-> <<"reactions", n>>]
           Others == <<<<"memory", 1>>, <<"usage", 1>>>>
           Kinds == {"messages", "reactions", "memory", "usage"} \X Nat
<1>1. L \in Nat /\ DOMAIN Logs = 1..L
  BY ImportAssumption
<1> HIDE DEF L
<1>2. M \in Seq(Kinds) /\ Len(M) = L /\ R \in Seq(Kinds) /\ Len(R) = L
  <2>1. M \in [1..L -> Kinds] /\ R \in [1..L -> Kinds]
    OBVIOUS
  <2>2. M \in Seq(Kinds) /\ R \in Seq(Kinds) /\ DOMAIN M = 1..L /\ DOMAIN R = 1..L
    BY <1>1, <2>1, SeqDef
  <2>3. QED
    BY <1>1, <2>2, LenProperties
<1>3. Others \in Seq(Kinds) /\ Len(Others) = 2 /\ Others[1] = <<"memory", 1>> /\ Others[2] = <<"usage", 1>>
  OBVIOUS
<1>4. Sources = (M \o R) \o Others
  BY DEF Sources, L
<1>5. \A n \in 1..L : M[n] = <<"messages", n>> /\ R[n] = <<"reactions", n>>
  OBVIOUS
<1> HIDE DEF M, R, Others, Kinds
<1>6. /\ M \o R \in Seq(Kinds) /\ Len(M \o R) = L + L
      /\ \A i \in 1..(L + L) : (M \o R)[i] = IF i <= L THEN M[i] ELSE R[i - L]
  <2>1. /\ M \o R \in Seq(Kinds) /\ Len(M \o R) = Len(M) + Len(R)
        /\ \A i \in 1 .. Len(M) + Len(R) :
             (M \o R)[i] = IF i <= Len(M) THEN M[i] ELSE R[i - Len(M)]
    BY <1>2, ConcatProperties
  <2>2. QED
    BY <1>2, <2>1
<1> DEFINE P == M \o R
<1> HIDE DEF P
<1>7. /\ Sources \in Seq(Kinds) /\ Len(Sources) = L + L + 2
      /\ \A i \in 1..(L + L + 2) : Sources[i] = IF i <= L + L THEN P[i] ELSE Others[i - (L + L)]
  <2>1. P \in Seq(Kinds) /\ Len(P) = L + L /\ Sources = P \o Others
    BY <1>4, <1>6 DEF P
  <2>2. /\ P \o Others \in Seq(Kinds) /\ Len(P \o Others) = Len(P) + Len(Others)
        /\ \A i \in 1..(Len(P) + Len(Others)) : (P \o Others)[i] = IF i <= Len(P) THEN P[i] ELSE Others[i - Len(P)]
    BY <1>3, <2>1, ConcatProperties
  <2>3. QED
    BY <1>3, <2>1, <2>2
<1>8. DOMAIN Sources = 1..Len(Sources) /\ Len(Sources) = 2 * L + 2
  BY <1>1, <1>7
<1>9. Sources[2 * L + 1] = <<"memory", 1>> /\ Sources[2 * L + 2] = <<"usage", 1>>
  BY <1>1, <1>3, <1>7
<1>10. ASSUME NEW j \in DOMAIN Sources
       PROVE  \/ Sources[j] \in {<<"memory", 1>>, <<"usage", 1>>}
              \/ \E n \in 1..L : Sources[j] \in {<<"messages", n>>, <<"reactions", n>>}
  <2> j \in 1..(L + L + 2)
    BY <1>7, <1>8
  <2>1. CASE j <= L
    <3>1. j \in 1..L /\ j \in 1..(L + L) /\ j <= L + L
      BY <1>1, <2>1
    <3>2. Sources[j] = P[j] /\ P[j] = M[j]
      BY <1>6, <1>7, <2>1, <3>1 DEF P
    <3>3. QED
      BY <1>5, <3>1, <3>2
  <2>2. CASE j > L /\ j <= L + L
    <3>1. j - L \in 1..L /\ j \in 1..(L + L) /\ ~(j <= L)
      BY <1>1, <2>2
    <3>2. Sources[j] = P[j] /\ P[j] = R[j - L]
      BY <1>6, <1>7, <2>2, <3>1 DEF P
    <3>3. QED
      BY <1>5, <3>1, <3>2
  <2>3. CASE j > L + L
    <3>1. (j = 2 * L + 1 \/ j = 2 * L + 2)
      BY <1>1, <1>8, <2>3
    <3>2. QED
      BY <1>9, <3>1
  <2>4. QED
    BY <1>1, <1>8, <2>1, <2>2, <2>3
<1>11. QED
  BY <1>1, <1>8, <1>9, <1>10 DEF L

(* A database that is open has all of it. *)
LEMMA ReadyIsDone ==
  ASSUME InOrder, stage \in Ready
  PROVE  Done("memory", 1) /\ Done("usage", 1)
<1> DEFINE m == 2 * Len(Logs) + 1
<1>1. m \in 1..Len(Sources) /\ m + 1 \in 1..Len(Sources)
      /\ Sources[m] = <<"memory", 1>> /\ Sources[m + 1] = <<"usage", 1>>
  BY SourcesAre
<1> HIDE DEF m
<1>2. \A j \in 1..Len(Sources) : Sources[j] \in imports \/ Sources[j][1] = "reactions"
  BY DEF InOrder, Passed
<1>3. QED
  BY <1>1, <1>2 DEF Done

(* Steps outside of the database. *)
LEMMA ImportKept ==
  ASSUME ImportInv, UNCHANGED <<tables, factsVars>>, step' = step \/ step' = 0,
         \/ stage' = stage /\ step' = step
         \/ stage' = "database" /\ step' = 0
         \/ stage' \in Ready /\ stage \in Ready
         \/ stage' \notin Ready /\ stage' # "database" /\ step' = 0
  PROVE  ImportInv'
<1>1. UNCHANGED <<schema, ran, imports, messages, reactions, usage, spent, facts, lastNumber, forgotten>>
  BY DEF tables, factsVars
<1>2. Migrated' /\ RowsOfLogs' /\ TotalKept' /\ FactsKept'
  BY <1>1 DEF ImportInv, Migrated, RowsOfLogs, TotalKept, FactsKept, Done
<1>3. InOrder'
  <2>1. step' \in Nat /\ (stage' # "database" => step' = 0)
    BY DEF ImportInv, InOrder, Ready
  <2>2. \A j \in 1..Len(Sources) : ~(j < 0)
    BY SourcesAre
  <2>3. ASSUME NEW j \in 1..Len(Sources), Passed(j)'
        PROVE  Passed(j)
    BY <2>2, <2>3 DEF Passed, Ready
  <2>4. QED
    BY <1>1, <2>1, <2>3 DEF ImportInv, InOrder
<1>4. QED
  BY <1>2, <1>3 DEF ImportInv

(* Once the step-th source is done or passed over, opening has come past it.   *)
LEMMA GoesOn ==
  ASSUME InOrder, stage = "database", step \in DOMAIN Sources, stage' = stage, step' = step + 1,
         imports \subseteq imports', Sources[step] \in imports' \/ Sources[step][1] = "reactions"
  PROVE  InOrder'
<1>1. step \in Nat /\ step' \in Nat
  BY DEF InOrder
<1>2. ASSUME NEW j \in 1..Len(Sources), Passed(j)'
      PROVE  Sources[j] \in imports' \/ Sources[j][1] = "reactions"
  <2>1. j < step + 1
    BY <1>2 DEF Passed, Ready
  <2>2. j = step \/ j < step
    BY <1>1, <2>1
  <2>3. QED
    BY <2>2 DEF InOrder, Passed
<1>3. QED
  BY <1>1, <1>2 DEF InOrder

LEMMA MigratePreserves ==
  ASSUME ImportInv, Migrate
  PROVE  ImportInv'
<1>1. stage = "database" /\ step = 0 /\ UNCHANGED <<imports, messages, reactions, usage, spent, factsVars>>
  BY DEF Migrate, At
<1>2. RowsOfLogs' /\ TotalKept' /\ FactsKept'
  BY <1>1 DEF ImportInv, RowsOfLogs, TotalKept, FactsKept, Done, factsVars
<1>3. \A j \in 1..Len(Sources) : ~(j < 0) /\ ~(j < 1)
  BY SourcesAre
<1>4. CASE UNCHANGED <<schema, ran, step>> /\ stage' = "down"
  BY <1>1, <1>2, <1>4 DEF ImportInv, Migrated, InOrder, Passed, Ready
<1>5. CASE /\ schema' = schema + 1 /\ ran' = Append(ran, schema + 1)
           /\ UNCHANGED <<step, stage>>
  <2>1. Migrated'
    <3>1. schema \in Nat /\ ran = [n \in 1..schema |-> n]
      BY DEF ImportInv, Migrated
    <3>2. Len(ran) = schema /\ ran \in Seq(Nat)
      <4>1. ran \in [1..schema -> Nat]
        BY <3>1
      <4>2. ran \in Seq(Nat) /\ DOMAIN ran = 1..schema
        BY <3>1, <4>1, SeqDef
      <4>3. QED
        BY <3>1, <4>2, LenProperties
    <3>3. Append(ran, schema + 1) = [n \in 1..(schema + 1) |-> IF n <= schema THEN ran[n] ELSE schema + 1]
      BY <3>1, <3>2
    <3>4. ran' = [n \in 1..(schema + 1) |-> n]
      <4>1. \A n \in 1..(schema + 1) : (IF n <= schema THEN ran[n] ELSE schema + 1) = n
        BY <3>1
      <4>2. QED
        BY <1>5, <3>3, <4>1
    <3>5. QED
      BY <1>5, <3>1, <3>4 DEF Migrated
  <2>2. InOrder'
    BY <1>1, <1>3, <1>5 DEF ImportInv, InOrder, Passed, Ready
  <2>3. QED
    BY <1>2, <2>1, <2>2 DEF ImportInv
<1>6. CASE UNCHANGED <<schema, ran, stage>> /\ step' = 1
  <2>1. InOrder'
    BY <1>1, <1>3, <1>6 DEF ImportInv, InOrder, Passed, Ready
  <2>2. QED
    BY <1>2, <1>6, <2>1 DEF ImportInv, Migrated
<1>7. QED
  BY <1>4, <1>5, <1>6 DEF Migrate, Enter, Stay, processVars

(* What each source adds to what is done. *)
LEMMA OneMoreDone ==
  ASSUME NEW source, imports' = imports \union {source}
  PROVE  /\ \A what : \A n : Done(what, n)' <=> Done(what, n) \/ source = <<what, n>>
         /\ imports \subseteq imports'
  BY DEF Done

LEMMA LogsPreserve ==
  ASSUME ImportInv, ImportMessages \/ ImportReactions
  PROVE  ImportInv'
<1>1. /\ stage = "database" /\ step \in DOMAIN Sources /\ stage' = stage /\ step' = step + 1
      /\ imports' = imports \union {Sources[step]}
      /\ Sources[step][1] \in {"messages", "reactions"}
      /\ UNCHANGED <<schema, ran, usage, spent, facts, lastNumber, forgotten>>
  BY DEF ImportMessages, ImportReactions, Importing, Once, Source, At, Stay, processVars, factsVars
<1>2. PICK k \in DOMAIN Logs : Sources[step] \in {<<"messages", k>>, <<"reactions", k>>}
  BY <1>1, SourcesAre
<1>3. \A what, n : Done(what, n)' <=> Done(what, n) \/ Sources[step] = <<what, n>>
  BY <1>1, OneMoreDone
<1>4. InOrder'
  BY <1>1, GoesOn DEF ImportInv
<1>5. Migrated' /\ TotalKept' /\ FactsKept'
  <2>1. (Done("memory", 1)' <=> Done("memory", 1)) /\ (Done("usage", 1)' <=> Done("usage", 1))
    BY <1>2, <1>3
  <2>2. QED
    BY <1>1, <2>1 DEF ImportInv, Migrated, TotalKept, FactsKept
<1>6. RowsOfLogs'
  <2>1. CASE ImportMessages
    <3>1. Sources[step] = <<"messages", k>>
      BY <1>2, <2>1 DEF ImportMessages, Importing, Source
    <3>2. messages' = messages \union Logs[k].messages /\ reactions' = reactions
      BY <2>1, <3>1 DEF ImportMessages, Log, Source
    <3>3. \A n \in DOMAIN Logs : /\ Done("reactions", n)' <=> Done("reactions", n)
                                 /\ Done("messages", n)' <=> Done("messages", n) \/ n = k
      BY <1>3, <3>1
    <3>4. messages' = UNION {Logs[n].messages : n \in {m \in DOMAIN Logs : Done("messages", m)'}}
      BY <3>2, <3>3 DEF ImportInv, RowsOfLogs
    <3>5. reactions' = UNION {{Logs[n].room} \X Logs[n].reactions :
                                n \in {m \in DOMAIN Logs : Done("reactions", m)'}}
      BY <3>2, <3>3 DEF ImportInv, RowsOfLogs
    <3>6. QED
      BY <3>4, <3>5 DEF RowsOfLogs
  <2>2. CASE ImportReactions
    <3>1. Sources[step] = <<"reactions", k>>
      BY <1>2, <2>2 DEF ImportReactions, Importing, Source
    <3>2. reactions' = reactions \union ({Logs[k].room} \X Logs[k].reactions) /\ messages' = messages
      BY <2>2, <3>1 DEF ImportReactions, Log, Source
    <3>3. \A n \in DOMAIN Logs : /\ Done("messages", n)' <=> Done("messages", n)
                                 /\ Done("reactions", n)' <=> Done("reactions", n) \/ n = k
      BY <1>3, <3>1
    <3>4. messages' = UNION {Logs[n].messages : n \in {m \in DOMAIN Logs : Done("messages", m)'}}
      BY <3>2, <3>3 DEF ImportInv, RowsOfLogs
    <3>5. reactions' = UNION {{Logs[n].room} \X Logs[n].reactions :
                                n \in {m \in DOMAIN Logs : Done("reactions", m)'}}
      BY <3>2, <3>3 DEF ImportInv, RowsOfLogs
    <3>6. QED
      BY <3>4, <3>5 DEF RowsOfLogs
  <2>3. QED
    BY <2>1, <2>2
<1>7. QED
  BY <1>4, <1>5, <1>6 DEF ImportInv

LEMMA UsagePreserves ==
  ASSUME ImportInv, ImportUsage
  PROVE  ImportInv'
<1>1. /\ stage = "database" /\ step \in DOMAIN Sources /\ stage' = stage /\ step' = step + 1
      /\ Sources[step] \notin imports /\ imports' = imports \union {Sources[step]}
      /\ Sources[step][1] = "usage" /\ usage' = IF LegacyUsage = 0 THEN usage ELSE LegacyUsage
      /\ UNCHANGED <<schema, ran, messages, reactions, spent, facts, lastNumber, forgotten>>
  BY DEF ImportUsage, Importing, Once, Source, At, Stay, processVars, factsVars
<1>2. Sources[step] = <<"usage", 1>>
  BY <1>1, SourcesAre
<1>3. \A what, n : Done(what, n)' <=> Done(what, n) \/ Sources[step] = <<what, n>>
  BY <1>1, OneMoreDone
<1>4. InOrder'
  BY <1>1, GoesOn DEF ImportInv
<1>5. TotalKept'
  <2>1. spent = 0 /\ usage = 0
    BY <1>1, <1>2 DEF ImportInv, TotalKept, Done
  <2>2. Done("usage", 1)' /\ usage' = spent' + LegacyUsage
    BY <1>1, <1>2, <1>3, <2>1, ImportAssumption
  <2>3. QED
    BY <1>1, <2>1, <2>2 DEF TotalKept
<1>6. Migrated' /\ FactsKept' /\ RowsOfLogs'
  <2>1. \A n : /\ Done("memory", n)' <=> Done("memory", n)
               /\ Done("messages", n)' <=> Done("messages", n)
               /\ Done("reactions", n)' <=> Done("reactions", n)
    BY <1>2, <1>3
  <2>2. QED
    BY <1>1, <2>1 DEF ImportInv, Migrated, FactsKept, RowsOfLogs
<1>7. QED
  BY <1>4, <1>5, <1>6 DEF ImportInv

(* Into an empty table the facts are taken as they are, and the sequence       *)
(* moves past them and past the numbers that are gone.                         *)
LEMMA FactsImported ==
  ASSUME facts = {}, lastNumber = 0, forgotten = LegacyForgotten, ImportFacts(LegacyFacts, NextFact),
         Done("memory", 1)'
  PROVE  FactsKept'
<1>1. facts' = LegacyFacts /\ forgotten' = LegacyForgotten
  BY DEF ImportFacts
<1>2. /\ LegacyFacts \subseteq [id : Nat \ {0}, room : FactRooms] /\ NextFact \in Nat
      /\ \A f, g \in LegacyFacts : f.id = g.id => f = g
  BY ImportAssumption
<1> DEFINE N == {f.id : f \in LegacyFacts}
           S == N \union {0, NextFact}
<1>3. lastNumber' = Max(S)
  BY <1>1 DEF ImportFacts
<1>4. S \in SUBSET Nat /\ S # {}
  BY <1>2
<1>5. IsFiniteSet(S)
  <2> DEFINE number == [f \in LegacyFacts |-> f.id]
  <2>1. number \in Surjection(LegacyFacts, N)
    BY DEF Surjection
  <2>2. IsFiniteSet(N)
    <3> HIDE DEF number, N
    <3>1. QED
      BY <2>1, FS_Surjection, ImportAssumption
  <2>3. S = (N \union {0}) \union {NextFact}
    OBVIOUS
  <2> HIDE DEF N
  <2>4. QED
    BY <2>2, <2>3, FS_AddElement
<1>6. Max(S) \in S /\ \A n \in S : Max(S) >= n
  <2> HIDE DEF S
  <2>1. \E x \in S : \A y \in S : x >= y
    BY <1>4, <1>5, GreatestOfFinite
  <2>2. QED
    BY <2>1 DEF Max
<1>7. lastNumber' \in Nat /\ lastNumber' >= NextFact /\ \A f \in LegacyFacts : lastNumber' >= f.id
  BY <1>3, <1>4, <1>6
<1>8. LegacyForgotten \subseteq Nat /\ \A n \in LegacyForgotten : n <= lastNumber'
  BY <1>2, <1>7 DEF LegacyForgotten
<1>9. \A f \in LegacyFacts : f.id \notin LegacyForgotten
  BY DEF LegacyForgotten
<1>10. facts' \subseteq [id : Nat, room : FactRooms] /\ \A f \in facts' : f.id \in Nat
  BY <1>1, <1>2
<1>11. \A f \in facts' : f.id <= lastNumber' /\ f.id \notin forgotten'
  BY <1>1, <1>7, <1>9, <1>10
<1>12. QED
  BY <1>1, <1>2, <1>7, <1>8, <1>10, <1>11 DEF FactsKept

LEMMA MemoryPreserves ==
  ASSUME ImportInv, ImportMemory
  PROVE  ImportInv'
<1>1. /\ stage = "database" /\ step \in DOMAIN Sources /\ stage' = stage /\ step' = step + 1
      /\ Sources[step] \notin imports /\ imports' = imports \union {Sources[step]}
      /\ Sources[step][1] = "memory" /\ ImportFacts(LegacyFacts, NextFact)
      /\ UNCHANGED <<schema, ran, messages, reactions, usage, spent>>
  BY DEF ImportMemory, Importing, Once, Source, At, Stay, processVars
<1>2. Sources[step] = <<"memory", 1>>
  BY <1>1, SourcesAre
<1>3. \A what, n : Done(what, n)' <=> Done(what, n) \/ Sources[step] = <<what, n>>
  BY <1>1, OneMoreDone
<1>4. InOrder'
  BY <1>1, GoesOn DEF ImportInv
<1>5. FactsKept'
  <2>1. facts = {} /\ lastNumber = 0 /\ forgotten = LegacyForgotten
    BY <1>1, <1>2 DEF ImportInv, FactsKept, Done
  <2>2. QED
    BY <1>1, <1>2, <1>3, <2>1, FactsImported
<1>6. Migrated' /\ TotalKept' /\ RowsOfLogs'
  <2>1. \A n : /\ Done("usage", n)' <=> Done("usage", n)
               /\ Done("messages", n)' <=> Done("messages", n)
               /\ Done("reactions", n)' <=> Done("reactions", n)
    BY <1>2, <1>3
  <2>2. QED
    BY <1>1, <2>1 DEF ImportInv, Migrated, TotalKept, RowsOfLogs
<1>7. QED
  BY <1>4, <1>5, <1>6 DEF ImportInv

(* What people have the bot remember and forget gets new numbers, and takes    *)
(* away old ones for good.                                                     *)
LEMMA ServePreserves ==
  ASSUME ImportInv, Serve
  PROVE  ImportInv'
<1>1. /\ stage \in Ready /\ stage' = stage /\ usage' = usage + 1 /\ spent' = spent + 1
      /\ UNCHANGED <<schema, ran, imports, step, messages, reactions>>
  BY DEF Serve, Up, Event, Ready
<1>2. Done("memory", 1) /\ Done("usage", 1)
  BY <1>1, ReadyIsDone DEF ImportInv
<1>3. Migrated' /\ InOrder' /\ RowsOfLogs'
  BY <1>1 DEF ImportInv, Migrated, InOrder, RowsOfLogs, Passed, Done
<1>4. TotalKept'
  <2>1. Done("usage", 1)'
    BY <1>1, <1>2 DEF Done
  <2>2. spent \in Nat /\ usage = spent + LegacyUsage /\ LegacyUsage \in Nat
    BY <1>2, ImportAssumption DEF ImportInv, TotalKept
  <2>3. QED
    BY <1>1, <2>1, <2>2 DEF TotalKept
<1>5. /\ facts \subseteq [id : Nat, room : FactRooms] /\ lastNumber \in Nat /\ forgotten \subseteq Nat
      /\ \A f, g \in facts : f.id = g.id => f = g
      /\ \A f \in facts : f.id \in Nat /\ f.id <= lastNumber /\ f.id \notin forgotten
      /\ \A n \in forgotten : n <= lastNumber
      /\ \A f \in LegacyFacts : f \in facts \/ f.id \in forgotten
  <2>1. FactsKept
    BY DEF ImportInv
  <2>2. QED
    BY <1>2, <2>1 DEF FactsKept
<1>6. ASSUME NEW room \in FactRooms, Remember(room)
      PROVE  FactsKept'
  <2> DEFINE new == [id |-> lastNumber + 1, room |-> room]
  <2>1. facts' = facts \union {new} /\ lastNumber' = lastNumber + 1 /\ forgotten' = forgotten
    BY <1>6 DEF Remember
  <2>2. new \in [id : Nat, room : FactRooms] /\ new.id = lastNumber + 1
    BY <1>5
  <2> HIDE DEF new
  <2>3. \A f \in facts : f.id # new.id
    BY <1>5, <2>2
  <2>4. new.id \notin forgotten
    BY <1>5, <2>2
  <2>5. \A f \in facts' : f.id <= lastNumber' /\ f.id \notin forgotten'
    BY <1>5, <2>1, <2>2, <2>4
  <2>6. \A f, g \in facts' : f.id = g.id => f = g
    BY <1>5, <2>1, <2>3
  <2>7. facts' \subseteq [id : Nat, room : FactRooms] /\ lastNumber' \in Nat
    BY <1>5, <2>1, <2>2
  <2>8. /\ \A n \in forgotten' : n <= lastNumber'
        /\ \A f \in LegacyFacts : f \in facts' \/ f.id \in forgotten'
    BY <1>5, <2>1
  <2>9. QED
    BY <1>1, <1>2, <1>5, <2>1, <2>5, <2>6, <2>7, <2>8 DEF FactsKept, Done
<1>7. ASSUME NEW f \in facts, Forget(f.room, f.id)
      PROVE  FactsKept'
  <2>1. f = [id |-> f.id, room |-> f.room] /\ f.id \in Nat
    BY <1>5
  <2>2. facts' = facts \ {f} /\ forgotten' = forgotten \union {f.id} /\ lastNumber' = lastNumber
    BY <1>7, <2>1 DEF Forget
  <2>3. \A g \in facts' : g.id <= lastNumber' /\ g.id \notin forgotten'
    BY <1>5, <2>2
  <2>4. \A n \in forgotten' : n <= lastNumber'
    BY <1>5, <2>2
  <2>5. \A g \in LegacyFacts : g \in facts' \/ g.id \in forgotten'
    BY <1>5, <2>2
  <2>6. QED
    BY <1>1, <1>2, <1>5, <2>1, <2>2, <2>3, <2>4, <2>5 DEF FactsKept, Done
<1>8. FactsKept'
  BY <1>6, <1>7 DEF Serve
<1>9. QED
  BY <1>3, <1>4, <1>8 DEF ImportInv

LEMMA OpenPreserves ==
  ASSUME ImportInv, OpenDatabase
  PROVE  ImportInv'
<1>1. CASE Skip
  <2>1. /\ stage = "database" /\ step \in DOMAIN Sources /\ stage' = stage /\ step' = step + 1
        /\ Sources[step] \in imports \/ Sources[step][1] = "reactions"
        /\ UNCHANGED <<schema, ran, imports, messages, reactions, usage, spent, facts, lastNumber, forgotten>>
    BY <1>1 DEF Skip, Source, At, Stay, processVars, tables, factsVars
  <2>2. InOrder'
    BY <2>1, GoesOn DEF ImportInv
  <2>3. QED
    BY <2>1, <2>2 DEF ImportInv, Migrated, RowsOfLogs, TotalKept, FactsKept, Done
<1>2. CASE Opened
  <2>1. /\ stage = "database" /\ step = Len(Sources) + 1 /\ stage' = "rooms" /\ step' = 0
        /\ UNCHANGED <<schema, ran, imports, messages, reactions, usage, spent, facts, lastNumber, forgotten>>
    BY <1>2 DEF Opened, At, Enter, tables, factsVars
  <2>2. Len(Sources) \in Nat
    BY SourcesAre
  <2>3. \A j \in 1..Len(Sources) : Passed(j)
    BY <2>1, <2>2 DEF Passed
  <2>4. InOrder'
    BY <2>1, <2>3 DEF ImportInv, InOrder
  <2>5. QED
    BY <2>1, <2>4 DEF ImportInv, Migrated, RowsOfLogs, TotalKept, FactsKept, Done
<1>3. QED
  BY <1>1, <1>2, MigratePreserves, LogsPreserve, MemoryPreserves, UsagePreserves DEF OpenDatabase

LEMMA StepKeepsImport == ImportInv /\ [Next]_vars => ImportInv'
<1> SUFFICES ASSUME ImportInv, [Next]_vars
             PROVE  ImportInv'
  OBVIOUS
<1>1. stage # "database" => step = 0
  BY DEF ImportInv, InOrder
<1>2. CASE Restart
  BY <1>1, <1>2, ImportKept DEF Restart, Start, Deploy, At, Enter, importVars, Ready
<1>3. CASE GetReady
  <2>1. CASE SessionStep /\ UNCHANGED importVars
    <3>1. stage # "database" /\ stage' \notin Ready
      BY <2>1 DEF SessionStep, LoadSession, LoadDevice, SaveDevice, Login, TruncateSession, SaveSession,
                  At, Enter, Ready
    <3>2. QED
      BY <1>1, <2>1, <3>1, ImportKept DEF importVars
  <2>2. CASE OpenDatabase
    BY <2>2, OpenPreserves
  <2>3. CASE JoinConfigured /\ UNCHANGED importVars
    BY <2>3, ImportKept DEF JoinConfigured, At, Enter, importVars, Ready
  <2>4. QED
    BY <1>3, <2>1, <2>2, <2>3 DEF GetReady
<1>4. CASE Sync \/ StopSyncing
  BY <1>4, ImportKept DEF Sync, StopSyncing, At, Enter, importVars, Ready
<1>5. CASE Exit \/ Crash
  <2>1. stage' = "down" /\ step' = 0 /\ UNCHANGED <<tables, factsVars>>
    BY <1>5 DEF Exit, Crash, Die, Enter, DropAll, CloseDatabase
  <2>2. QED
    BY <2>1, ImportKept DEF Ready
<1>6. CASE Operator
  BY <1>6, ImportKept DEF Operator, RemoveSession, Stay, processVars, importVars
<1>7. CASE Inviting \/ Rooming \/ Notifying
  <2>1. stage' = stage
    BY <1>7, StageKept
  <2>2. UNCHANGED importVars
    BY <1>7 DEF Inviting, Rooming, Notifying
  <2>3. QED
    BY <2>1, <2>2, ImportKept DEF importVars
<1>8. CASE Serving
  BY <1>8, ServePreserves DEF Serving
<1>9. CASE UNCHANGED vars
  BY <1>9, ImportKept DEF vars, processVars, importVars
<1>10. QED
  BY <1>2, <1>3, <1>4, <1>5, <1>6, <1>7, <1>8, <1>9 DEF Next

LEMMA ImportStarts == Init => ImportInv
<1> SUFFICES ASSUME Init
             PROVE  ImportInv
  OBVIOUS
<1>1. /\ stage = "down" /\ step = 0 /\ imports = {} /\ messages = {} /\ reactions = {}
      /\ usage = 0 /\ spent = 0 /\ facts = {} /\ lastNumber = 0 /\ forgotten = LegacyForgotten
      /\ ran = [n \in 1..schema |-> n] /\ schema \in {0, Schemas[1]}
  BY DEF Init, ProcessInit, ImportInit, LegacyForgotten
<1>2. \A what, n : ~Done(what, n)
  BY <1>1 DEF Done
<1>3. Migrated
  <2>1. 1 \in Builds
    BY ProcessAssumption, FS_CardinalityType, FS_EmptySet
  <2>2. QED
    BY <1>1, <2>1, ImportAssumption DEF Migrated
<1>4. InOrder
  BY <1>1 DEF InOrder, Passed, Ready
<1>5. RowsOfLogs /\ TotalKept
  BY <1>1, <1>2 DEF RowsOfLogs, TotalKept
<1>6. FactsKept
  <2>1. LegacyForgotten \subseteq Nat
    BY ImportAssumption DEF LegacyForgotten
  <2>2. QED
    BY <1>1, <1>2, <2>1 DEF FactsKept
<1>7. QED
  BY <1>3, <1>4, <1>5, <1>6 DEF ImportInv

(* For any logs, facts, builds and interruptions: each migration runs once and *)
(* in order, what came of a file is in the database exactly if the file is     *)
(* done, and what was spent or forgotten since is not taken back.              *)
THEOREM ImportIsWhole == Spec => []ImportedOnceAndWhole
<1>1. ImportInv => ImportedOnceAndWhole
  <2> SUFFICES ASSUME ImportInv
               PROVE  ImportedOnceAndWhole
    OBVIOUS
  <2>1. CASE Done("memory", 1)
    BY <2>1 DEF ImportInv, Migrated, RowsOfLogs, TotalKept, FactsKept, ImportedOnceAndWhole
  <2>2. CASE ~Done("memory", 1)
    BY <2>2 DEF ImportInv, Migrated, RowsOfLogs, TotalKept, FactsKept, ImportedOnceAndWhole
  <2>3. QED
    BY <2>1, <2>2
<1>2. QED
  BY <1>1, ImportStarts, StepKeepsImport, PTL DEF Spec

(* A number that once named a fact never names another, whether it was given   *)
(* by the bot or stood in the file that was imported.                          *)
THEOREM NumbersAreForGood == Spec => []NumbersNeverReturn
<1>1. ImportInv => NumbersNeverReturn
  BY DEF ImportInv, FactsKept, NumbersNeverReturn
<1>2. QED
  BY <1>1, ImportStarts, StepKeepsImport, PTL DEF Spec

-----------------------------------------------------------------------------
(* Invites                                                                     *)

(* What has become of the i-th invite. Only the one its room waits for is being *)
(* answered. Whose room is recorded is welcome, and has an attempt to join       *)
(* under way unless something failed.                                            *)
Handled(i) ==
  /\ answering[i] # "none" => Up
  /\ answering[i] \in JoinAttempts \union {"recording"} => Pending(i) /\ Welcome(invites[i].by)
  /\ answering[i] = "declining" => Pending(i) /\ ~Welcome(invites[i].by)
  /\ answering[i] = "joining2" => faults >= 1
  /\ answering[i] = "joining3" => faults >= 2
  /\ Pending(i) /\ invites[i].room \in direct =>
       /\ Welcome(invites[i].by)
       /\ answering[i] \in JoinAttempts \/ faults >= 1
       /\ answering[i] = "over" => faults >= 2
       /\ Up => answering[i] # "none"

(* The rooms the bot made are no one else's. *)
MadeElsewhere ==
  /\ DOMAIN made = People
  /\ \A u \in People : made[u] \subseteq {u} \X Nat /\ IsFiniteSet(made[u])

MembersRight ==
  /\ membership \in [Rooms -> {"out", "invited", "joined"}]
  /\ \A r \in Rooms : membership[r] = "out" => r \notin direct
  /\ faults \in Nat /\ (stage = "stopping" => faults >= 1)

InviteInv ==
  /\ Answering /\ MadeElsewhere /\ MembersRight
  /\ \A i \in DOMAIN invites : Handled(i)

LEMMA InviteIs ==
  ASSUME Answering, NEW i \in DOMAIN invites
  PROVE  invites[i].room \in Rooms /\ invites[i].by \in Inviters
<1>1. invites \in Seq([room : Rooms, by : Inviters])
  BY DEF Answering
<1>2. invites[i] \in [room : Rooms, by : Inviters]
  <2>1. i \in 1..Len(invites)
    BY <1>1
  <2>2. QED
    BY <1>1, <2>1, ElementOfSeq
<1>3. QED
  BY <1>2

(* Steps that answer no invite. *)
LEMMA InvitesKept ==
  ASSUME InviteInv, UNCHANGED <<membership, invites, answering>>, MadeElsewhere',
         faults' \in {faults, faults + 1}, stage' = "stopping" => faults' >= 1,
         \A r \in Rooms : r \in direct' <=> r \in direct,
         Up' <=> Up
  PROVE  InviteInv'
<1>1. /\ Answering' /\ MembersRight' /\ faults \in Nat /\ faults' >= faults /\ faults' \in Nat
      /\ \A i \in DOMAIN invites : invites[i].room \in Rooms
  <2>1. Answering'
    BY DEF InviteInv, Answering
  <2>2. MembersRight' /\ faults \in Nat /\ faults' >= faults /\ faults' \in Nat
    BY DEF InviteInv, MembersRight
  <2>3. QED
    BY <2>1, <2>2, InviteIs DEF InviteInv
<1>2. ASSUME NEW i \in DOMAIN invites
      PROVE  Handled(i)'
  <2>1. Handled(i) /\ Pending(i)' = Pending(i) /\ (invites[i].room \in direct' <=> invites[i].room \in direct)
    BY <1>1, <1>2 DEF InviteInv, Pending
  <2>2. QED
    BY <1>1, <2>1 DEF Handled
<1>3. QED
  BY <1>1, <1>2 DEF InviteInv

(* Another invite, for a room the bot is out of and that is not recorded.      *)
LEMMA InviteHandled ==
  ASSUME InviteInv, Answering', NEW r \in Rooms, NEW u \in Inviters, Invite(r, u)
  PROVE  InviteInv'
<1> DEFINE n == Len(invites) + 1
           invite == [room |-> r, by |-> u]
<1>1. /\ invites \in Seq([room : Rooms, by : Inviters]) /\ answering \in Seq(Progress)
      /\ Len(answering) = Len(invites) /\ Len(invites) \in Nat
      /\ DOMAIN invites = 1..Len(invites) /\ DOMAIN answering = 1..Len(invites)
  BY DEF InviteInv, Answering
<1>2. /\ invites' = Append(invites, invite) /\ answering' = Append(answering, "none")
      /\ membership[r] = "out" /\ membership' = [membership EXCEPT ![r] = "invited"]
      /\ UNCHANGED <<direct, made, faults, stage>>
  BY DEF Invite, Event
<1> HIDE DEF invite
<1>3. /\ DOMAIN invites' = 1..n /\ invites'[n] = invite /\ answering'[n] = "none"
      /\ \A i \in DOMAIN invites : i < n /\ invites'[i] = invites[i] /\ answering'[i] = answering[i]
  BY <1>1, <1>2
<1>4. /\ membership'[r] = "invited" /\ \A q \in Rooms : q # r => membership'[q] = membership[q]
      /\ membership' \in [Rooms -> {"out", "invited", "joined"}] /\ r \notin direct
  BY <1>2 DEF InviteInv, MembersRight
<1>5. MadeElsewhere' /\ MembersRight'
  BY <1>2, <1>4 DEF InviteInv, MadeElsewhere, MembersRight
<1>6. invite.room = r /\ invite.by = u
  BY DEF invite
<1>7. ASSUME NEW i \in DOMAIN invites
      PROVE  Handled(i)'
  <2>1. Handled(i) /\ invites[i].room \in Rooms
    BY InviteIs DEF InviteInv
  <2>2. CASE invites[i].room = r
    <3>1. ~Pending(i)
      BY <1>2, <2>2 DEF Pending
    <3>2. ~Pending(i)'
      <4>1. n \in DOMAIN invites' /\ invites'[n].room = invites'[i].room /\ ~(n <= i)
        BY <1>1, <1>3, <1>6, <2>2
      <4>2. QED
        BY <4>1 DEF Pending
    <3>3. QED
      BY <1>2, <1>3, <2>1, <3>1, <3>2 DEF Handled, Up
  <2>3. CASE invites[i].room # r
    <3>1. Pending(i)' = Pending(i)
      <4>1. membership'[invites'[i].room] = membership[invites[i].room]
        BY <1>3, <1>4, <2>1, <2>3
      <4>2. \A j \in DOMAIN invites' : invites'[j].room = invites'[i].room =>
              j \in DOMAIN invites /\ invites[j].room = invites[i].room
        BY <1>1, <1>3, <1>6, <2>3
      <4>3. \A j \in DOMAIN invites : j \in DOMAIN invites' /\ invites'[j] = invites[j]
        BY <1>1, <1>3
      <4>4. QED
        BY <1>3, <4>1, <4>2, <4>3 DEF Pending
    <3>2. QED
      BY <1>2, <1>3, <2>1, <3>1 DEF Handled, Up
  <2>4. QED
    BY <2>2, <2>3
<1>8. ASSUME NEW i \in DOMAIN invites', i \notin DOMAIN invites
      PROVE  Handled(i)'
  <2>1. i = n
    BY <1>1, <1>3, <1>8
  <2>2. invites'[i].room \notin direct' /\ answering'[i] = "none"
    BY <1>2, <1>3, <1>4, <1>6, <2>1
  <2>3. QED
    BY <2>2 DEF Handled, JoinAttempts
<1>9. \A i \in DOMAIN invites' : Handled(i)'
  BY <1>7, <1>8
<1>10. QED
  BY <1>5, <1>9 DEF InviteInv

(* A step that answers the invite its room waits for touches no other.         *)
LEMMA OthersUnanswered ==
  ASSUME InviteInv, NEW i \in DOMAIN invites, Pending(i), Up,
         UNCHANGED <<invites, stage>>, faults' \in {faults, faults + 1},
         Answering', MembersRight', MadeElsewhere', Handled(i)',
         \A j \in DOMAIN invites : j # i => answering'[j] = answering[j],
         \A r \in Rooms : r # invites[i].room =>
           membership'[r] = membership[r] /\ (r \in direct' <=> r \in direct)
  PROVE  InviteInv'
<1>1. faults \in Nat /\ faults' \in Nat /\ faults' >= faults /\ invites[i].room \in Rooms
  BY InviteIs DEF InviteInv, MembersRight
<1>2. ASSUME NEW j \in DOMAIN invites, j # i
      PROVE  Handled(j)'
  <2>1. Handled(j) /\ invites[j].room \in Rooms /\ answering'[j] = answering[j] /\ invites'[j] = invites[j]
    BY <1>2, InviteIs DEF InviteInv
  <2>2. CASE invites[j].room = invites[i].room
    <3>1. i \in Nat /\ j \in Nat
      BY DEF InviteInv, Answering
    <3>2. ~(i <= j)
      BY <1>2, <2>2, <3>1 DEF Pending
    <3>3. ~Pending(j) /\ ~Pending(j)'
      BY <2>2, <3>2 DEF Pending
    <3>4. answering[j] \notin JoinAttempts \union {"recording", "declining"}
      BY <2>1, <3>3 DEF Handled
    <3>5. QED
      BY <2>1, <3>3, <3>4 DEF Handled, Up, JoinAttempts
  <2>3. CASE invites[j].room # invites[i].room
    <3>1. membership'[invites[j].room] = membership[invites[j].room]
          /\ (invites[j].room \in direct' <=> invites[j].room \in direct)
      BY <2>1, <2>3
    <3>2. Pending(j)' = Pending(j)
      BY <3>1 DEF Pending
    <3>3. QED
      BY <1>1, <2>1, <3>1, <3>2 DEF Handled, Up
  <2>4. QED
    BY <2>2, <2>3
<1>3. QED
  BY <1>2 DEF InviteInv

(* The four steps of an answer. *)
LEMMA ReceiveHandled ==
  ASSUME InviteInv, Answering', NEW i \in DOMAIN invites, ReceiveInvite(i)
  PROVE  InviteInv'
<1>1. /\ Up /\ Pending(i) /\ answering[i] = "none"
      /\ answering' = [answering EXCEPT ![i] = Opening(i)]
      /\ UNCHANGED <<membership, invites, direct, made, stage, faults>>
  BY DEF ReceiveInvite, At, Up, Stay, processVars
<1>2. DOMAIN answering = DOMAIN invites
  BY DEF InviteInv, Answering
<1>3. MembersRight' /\ MadeElsewhere'
  BY <1>1 DEF InviteInv, MembersRight, MadeElsewhere
<1>4. Handled(i)'
  <2>1. Handled(i) /\ answering'[i] = Opening(i)
    BY <1>1, <1>2 DEF InviteInv
  <2>2. Pending(i)' /\ Up' /\ invites' = invites
    BY <1>1 DEF Pending, Up
  <2>3. \/ Opening(i) = "recording" /\ Welcome(invites[i].by)
        \/ Opening(i) = "declining" /\ ~Welcome(invites[i].by)
    BY DEF Opening
  <2>4. QED
    BY <1>1, <2>1, <2>2, <2>3 DEF Handled, JoinAttempts
<1>5. QED
  BY <1>1, <1>2, <1>3, <1>4, OthersUnanswered

LEMMA DeclineHandled ==
  ASSUME InviteInv, Answering', NEW i \in DOMAIN invites, Decline(i)
  PROVE  InviteInv'
<1>1. /\ Up /\ answering[i] = "declining" /\ answering' = [answering EXCEPT ![i] = "over"]
      /\ UNCHANGED <<invites, direct, made, stage>> /\ faults' \in {faults, faults + 1}
      /\ membership' = [membership EXCEPT ![invites[i].room] = "out"] \/ membership' = membership
  BY DEF Decline, Stay, Fault, processVars
<1>2. /\ DOMAIN answering = DOMAIN invites /\ invites[i].room \in Rooms
      /\ membership \in [Rooms -> {"out", "invited", "joined"}]
  BY InviteIs DEF InviteInv, Answering, MembersRight
<1>3. Pending(i) /\ invites[i].room \notin direct
  BY <1>1 DEF InviteInv, Handled
<1>4. /\ membership' \in [Rooms -> {"out", "invited", "joined"}]
      /\ \A r \in Rooms : r # invites[i].room => membership'[r] = membership[r]
  BY <1>1, <1>2
<1>5. MembersRight' /\ MadeElsewhere'
  BY <1>1, <1>3, <1>4 DEF InviteInv, MembersRight, MadeElsewhere
<1>6. Handled(i)'
  <2>1. answering'[i] = "over" /\ invites'[i].room \notin direct' /\ Up'
    BY <1>1, <1>2, <1>3 DEF Up
  <2>2. QED
    BY <2>1 DEF Handled, JoinAttempts
<1>7. QED
  BY <1>1, <1>2, <1>3, <1>4, <1>5, <1>6, OthersUnanswered

LEMMA RecordHandled ==
  ASSUME InviteInv, Answering', NEW i \in DOMAIN invites, Record(i)
  PROVE  InviteInv'
<1>1. /\ Up /\ answering[i] = "recording"
      /\ UNCHANGED <<membership, invites, made, stage>> /\ faults' \in {faults, faults + 1}
      /\ \/ /\ direct' = direct \union {invites[i].room}
            /\ answering' = [answering EXCEPT ![i] = "joining1"]
         \/ /\ direct' = direct /\ faults' = faults + 1
            /\ answering' = [answering EXCEPT ![i] = "over"]
  BY DEF Record, Stay, Fault, processVars
<1>2. /\ DOMAIN answering = DOMAIN invites /\ invites[i].room \in Rooms /\ faults \in Nat
      /\ Handled(i)
  BY InviteIs DEF InviteInv, Answering, MembersRight
<1>3. Pending(i) /\ Welcome(invites[i].by) /\ Pending(i)' /\ Up'
  BY <1>1, <1>2 DEF Handled, Pending, Up
<1>4. MembersRight' /\ MadeElsewhere'
  <2>1. membership[invites[i].room] # "out"
    BY <1>3 DEF Pending
  <2>2. QED
    BY <1>1, <1>2, <2>1 DEF InviteInv, MembersRight, MadeElsewhere
<1>5. Handled(i)'
  <2>1. CASE answering' = [answering EXCEPT ![i] = "joining1"]
    <3>1. answering'[i] = "joining1" /\ invites' = invites
      BY <1>1, <1>2, <2>1
    <3>2. QED
      BY <1>3, <3>1 DEF Handled, JoinAttempts
  <2>2. CASE /\ direct' = direct /\ faults' = faults + 1
             /\ answering' = [answering EXCEPT ![i] = "over"]
    <3>1. answering'[i] = "over" /\ invites' = invites
      BY <1>1, <1>2, <2>2
    <3>2. invites[i].room \in direct => faults >= 1
      BY <1>1, <1>2, <1>3 DEF Handled, JoinAttempts
    <3>3. faults' >= 1 /\ (invites[i].room \in direct' => faults' >= 2)
      BY <1>2, <2>2, <3>2
    <3>4. QED
      BY <1>3, <3>1, <3>3 DEF Handled, JoinAttempts
  <2>3. QED
    BY <1>1, <2>1, <2>2
<1>6. QED
  BY <1>1, <1>2, <1>3, <1>4, <1>5, OthersUnanswered

LEMMA JoinHandled ==
  ASSUME InviteInv, Answering', NEW i \in DOMAIN invites, TryJoin(i)
  PROVE  InviteInv'
<1>1. /\ Up /\ answering[i] \in JoinAttempts
      /\ UNCHANGED <<invites, direct, made, stage>> /\ faults' \in {faults, faults + 1}
      /\ \/ /\ membership' = [membership EXCEPT ![invites[i].room] = "joined"]
            /\ answering' = [answering EXCEPT ![i] = "over"]
         \/ /\ membership' = membership /\ faults' = faults + 1
            /\ answering' = [answering EXCEPT ![i] = Next3(@)]
  BY DEF TryJoin, Stay, Fault, processVars, JoinAttempts
<1>2. /\ DOMAIN answering = DOMAIN invites /\ invites[i].room \in Rooms /\ faults \in Nat
      /\ membership \in [Rooms -> {"out", "invited", "joined"}] /\ Handled(i)
  BY InviteIs DEF InviteInv, Answering, MembersRight
<1>3. Pending(i) /\ Welcome(invites[i].by) /\ Up'
  BY <1>1, <1>2 DEF Handled, Up
<1>4. /\ membership' \in [Rooms -> {"out", "invited", "joined"}]
      /\ \A r \in Rooms : r # invites[i].room => membership'[r] = membership[r]
      /\ membership'[invites[i].room] # "out"
  BY <1>1, <1>2, <1>3 DEF Pending
<1>5. MembersRight' /\ MadeElsewhere'
  BY <1>1, <1>4 DEF InviteInv, MembersRight, MadeElsewhere
<1>6. Handled(i)'
  <2>1. CASE /\ membership' = [membership EXCEPT ![invites[i].room] = "joined"]
             /\ answering' = [answering EXCEPT ![i] = "over"]
    <3>1. answering'[i] = "over" /\ invites' = invites /\ ~Pending(i)'
      BY <1>1, <1>2, <2>1 DEF Pending
    <3>2. QED
      BY <1>3, <3>1 DEF Handled, JoinAttempts
  <2>2. CASE /\ membership' = membership /\ faults' = faults + 1
             /\ answering' = [answering EXCEPT ![i] = Next3(@)]
    <3>1. answering'[i] = Next3(answering[i]) /\ invites' = invites /\ Pending(i)'
      BY <1>1, <1>2, <1>3, <2>2 DEF Pending
    <3>2. \/ Next3(answering[i]) = "joining2"
          \/ answering[i] = "joining2" /\ Next3(answering[i]) = "joining3"
          \/ answering[i] = "joining3" /\ Next3(answering[i]) = "over"
      BY <1>1 DEF JoinAttempts, Next3
    <3>3. CASE Next3(answering[i]) = "joining2"
      BY <1>2, <1>3, <2>2, <3>1, <3>3 DEF Handled, JoinAttempts
    <3>4. CASE answering[i] = "joining2" /\ Next3(answering[i]) = "joining3"
      BY <1>2, <1>3, <2>2, <3>1, <3>4 DEF Handled, JoinAttempts
    <3>5. CASE answering[i] = "joining3" /\ Next3(answering[i]) = "over"
      BY <1>2, <1>3, <2>2, <3>1, <3>5 DEF Handled, JoinAttempts
    <3>6. QED
      BY <3>2, <3>3, <3>4, <3>5
  <2>3. QED
    BY <1>1, <2>1, <2>2
<1>7. QED
  BY <1>1, <1>2, <1>3, <1>4, <1>5, <1>6, OthersUnanswered

-----------------------------------------------------------------------------
(* The tasks that notify *)

(* What a step does to the process: it counts what fails, and only ends by     *)
(* Exit and Crash.                                                             *)
LEMMA ProcessSteps ==
  ASSUME [Next]_vars
  PROVE  /\ faults' \in {faults, faults + 1}
         /\ stage' = "stopping" => stage = "stopping" \/ faults' = faults + 1
         /\ (Up => Up') \/ Exit \/ Crash
         /\ (Up' => Up) \/ Sync
         /\ stage = "stopping" => stage' = "stopping" \/ Exit \/ Crash
<1>1. CASE Restart
  BY <1>1 DEF Restart, Start, Deploy, At, Enter, Up
<1>2. CASE GetReady
  <2>1. CASE SessionStep
    BY <2>1 DEF SessionStep, LoadSession, LoadDevice, SaveDevice, Login, TruncateSession, SaveSession, At, Enter, Up
  <2>2. CASE OpenDatabase
    BY <2>2, DatabaseStages DEF Up
  <2>3. CASE JoinConfigured
    BY <2>3 DEF JoinConfigured, At, Enter, Up
  <2>4. QED
    BY <1>2, <2>1, <2>2, <2>3 DEF GetReady
<1>3. CASE Sync
  BY <1>3 DEF Sync, At, Enter, Up
<1>4. CASE StopSyncing
  BY <1>4 DEF StopSyncing, At, Fault, Up
<1>5. CASE Exit \/ Crash
  BY <1>5 DEF Exit, Crash, Die, Fault, Enter, Up
<1>6. CASE Operator
  BY <1>6 DEF Operator, RemoveSession, At, Stay, processVars, Up
<1>7. CASE Inviting \/ Rooming \/ Notifying \/ Serving
  <2>1. stage' = stage
    BY <1>7, StageKept
  <2>2. faults' \in {faults, faults + 1}
    <3>1. CASE Inviting
      BY <3>1 DEF Inviting, Invite, Event
    <3>2. CASE Rooming
      BY <3>2 DEF Rooming, ReceiveInvite, Decline, Record, TryJoin, Stay, Fault, processVars
    <3>3. CASE Notifying
      <4>1. ASSUME NEW t \in Tasks, FindRoom(t) \/ CreateRoom(t) \/ RecordRoom(t) \/ SendAlert(t)
            PROVE  faults' \in {faults, faults + 1}
        BY <4>1 DEF FindRoom, CreateRoom, RecordRoom, SendAlert, Use, Stay, Fault, processVars
      <4>2. Announce \/ RememberNotice \/ TakeAlert \/ Raise => faults' \in {faults, faults + 1}
        BY DEF Announce, RememberNotice, TakeAlert, Raise, Event, Stay, Fault, processVars
      <4>3. QED
        BY <3>3, <4>1, <4>2 DEF Notifying, Notify
    <3>4. CASE Serving
      BY <3>4 DEF Serving, Serve, Event
    <3>5. QED
      BY <1>7, <3>1, <3>2, <3>3, <3>4
  <2>3. QED
    BY <2>1, <2>2 DEF Up
<1>8. CASE UNCHANGED vars
  BY <1>8 DEF vars, processVars, Up
<1>9. QED
  BY <1>1, <1>2, <1>3, <1>4, <1>5, <1>6, <1>7, <1>8 DEF Next

(* The three tasks. None is under way in a process that is not up, and the last *)
(* alert only once syncing has stopped.                                        *)
Fields == {"at", "person", "room", "alert"}

Placed(record) ==
  /\ DOMAIN record = Fields /\ record.person \in DOMAIN Notified
  /\ record.at \in {"off", "find", "create", "record", "send", "remember", "over"}

TasksInv ==
  /\ DOMAIN task = Tasks
  /\ \A t \in Tasks : Placed(task[t]) /\ (task[t].at # "off" => Up)
  /\ task["last"].at # "off" => stage = "stopping"

LEMMA SomeoneNotified ==
  /\ Notified \in Seq(People) /\ Len(Notified) \in Nat /\ Len(Notified) >= 1
  /\ DOMAIN Notified = 1..Len(Notified) /\ 1 \in DOMAIN Notified
  /\ \A n \in DOMAIN Notified : Notified[n] \in People
<1>1. Notified \in Seq(People) /\ Notified # <<>>
  BY NoticesAssumption DEF People
<1>2. Len(Notified) \in Nat /\ Len(Notified) # 0 /\ DOMAIN Notified = 1..Len(Notified)
  BY <1>1
<1>3. QED
  BY <1>1, <1>2

(* The record that NextPerson puts in a task's place.                          *)
NextTurn(t) ==
  IF task[t].person < Len(Notified)
  THEN [task[t] EXCEPT !.at = "find", !.person = task[t].person + 1, !.room = <<>>]
  ELSE [Off EXCEPT !.at = IF t = "deliver" THEN "off" ELSE "over"]

LEMMA NextPersonIs == \A t \in Tasks : NextPerson(t) = [task EXCEPT ![t] = NextTurn(t)]
<1> TAKE t \in Tasks
<1>1. CASE task[t].person < Len(Notified)
  BY <1>1 DEF NextPerson, NextTurn
<1>2. CASE ~(task[t].person < Len(Notified))
  BY <1>2 DEF NextPerson, NextTurn
<1>3. QED
  BY <1>1, <1>2

LEMMA OffIsPlaced == Placed(Off) /\ \A at \in {"off", "find", "over"} : Placed([Off EXCEPT !.at = at])
  BY SomeoneNotified DEF Placed, Off, Fields

LEMMA NextTurnIs ==
  ASSUME NEW t \in Tasks, Placed(task[t])
  PROVE  /\ Placed(NextTurn(t)) /\ NextTurn(t).at \in {"off", "find", "over"}
         /\ task[t].person < Len(Notified) =>
              /\ NextTurn(t).at = "find" /\ NextTurn(t).person = task[t].person + 1
              /\ NextTurn(t).alert = task[t].alert
         /\ ~(task[t].person < Len(Notified)) =>
              /\ task[t].person = Len(Notified)
              /\ NextTurn(t).at = IF t = "deliver" THEN "off" ELSE "over"
<1>1. CASE task[t].person < Len(Notified)
  <2> DEFINE turn == [task[t] EXCEPT !.at = "find", !.person = task[t].person + 1, !.room = <<>>]
  <2>1. NextTurn(t) = turn
    BY <1>1 DEF NextTurn
  <2>2. /\ DOMAIN turn = Fields /\ turn.at = "find" /\ turn.person = task[t].person + 1
        /\ turn.alert = task[t].alert
    BY DEF Placed, Fields
  <2>3. task[t].person + 1 \in DOMAIN Notified
    BY <1>1, SomeoneNotified DEF Placed
  <2>4. QED
    BY <1>1, <2>1, <2>2, <2>3 DEF Placed
<1>2. CASE ~(task[t].person < Len(Notified))
  <2>1. task[t].person = Len(Notified)
    BY <1>2, SomeoneNotified DEF Placed
  <2>2. NextTurn(t) = [Off EXCEPT !.at = IF t = "deliver" THEN "off" ELSE "over"]
    BY <1>2 DEF NextTurn
  <2>3. NextTurn(t).at = IF t = "deliver" THEN "off" ELSE "over"
    BY <2>2 DEF Off
  <2>4. Placed(NextTurn(t))
    BY <2>2, OffIsPlaced
  <2>5. QED
    BY <1>2, <2>1, <2>3, <2>4
<1>3. QED
  BY <1>1, <1>2

LEMMA TaskMoves ==
  ASSUME TasksInv, Up => Up', NEW t \in Tasks, NEW record, task' = [task EXCEPT ![t] = record],
         Placed(record), record.at # "off" => Up', stage' = stage \/ stage' = "stopping",
         t = "last" => stage' = "stopping" \/ task["last"].at # "off"
  PROVE  TasksInv'
<1>1. DOMAIN task' = Tasks /\ \A x \in Tasks : task'[x] = IF x = t THEN record ELSE task[x]
  BY DEF TasksInv
<1>2. \A x \in Tasks : Placed(task'[x]) /\ (task'[x].at # "off" => Up')
  BY <1>1 DEF TasksInv
<1>3. task'["last"].at # "off" => stage' = "stopping"
  BY <1>1 DEF TasksInv, Tasks
<1>4. QED
  BY <1>1, <1>2, <1>3 DEF TasksInv, Placed

(* The places a step moves a task to.                                          *)
LEMMA MovedIsPlaced ==
  ASSUME NEW record, Placed(record), NEW at \in {"find", "create", "record", "send", "remember"}, NEW r
  PROVE  /\ Placed([record EXCEPT !.at = at]) /\ [record EXCEPT !.at = at].at = at
         /\ Placed([record EXCEPT !.at = at, !.room = r])
         /\ [record EXCEPT !.at = at, !.room = r].at = at
         /\ [record EXCEPT !.at = at, !.room = r].room = r
         /\ [record EXCEPT !.at = at, !.room = r].person = record.person
         /\ [record EXCEPT !.at = at].room = record.room
  BY DEF Placed, Fields

LEMMA NotifyKeepsTasks ==
  ASSUME TasksInv, Notify \/ Raise
  PROVE  TasksInv'
<1>1. ASSUME NEW t \in Tasks, task' = NextPerson(t), stage' = stage, Up, task[t].at # "off"
      PROVE  TasksInv'
  <2>1. Placed(NextTurn(t)) /\ task' = [task EXCEPT ![t] = NextTurn(t)]
    BY <1>1, NextTurnIs, NextPersonIs DEF TasksInv
  <2>2. QED
    BY <1>1, <2>1, TaskMoves DEF Up
<1>2. ASSUME NEW t \in Tasks, NEW at \in {"create", "remember"}, AtNext(t, at), stage' = stage, Up,
             task[t].at # "off"
      PROVE  TasksInv'
  <2>1. task' = [task EXCEPT ![t] = [task[t] EXCEPT !.at = at]]
    BY <1>2 DEF AtNext
  <2>2. Placed([task[t] EXCEPT !.at = at])
    BY MovedIsPlaced DEF TasksInv
  <2>3. QED
    BY <1>2, <2>1, <2>2, TaskMoves DEF Up
<1>3. ASSUME NEW t \in Tasks, NEW at \in {"record", "send"}, NEW r, stage' = stage, Up, task[t].at # "off",
             task' = [task EXCEPT ![t].at = at, ![t].room = r]
      PROVE  TasksInv'
  <2>1. task' = [task EXCEPT ![t] = [task[t] EXCEPT !.at = at, !.room = r]]
    BY <1>3 DEF TasksInv
  <2>2. Placed([task[t] EXCEPT !.at = at, !.room = r])
    BY MovedIsPlaced DEF TasksInv
  <2>3. QED
    BY <1>3, <2>1, <2>2, TaskMoves DEF Up
<1>4. ASSUME NEW t \in Tasks, FindRoom(t) \/ CreateRoom(t) \/ RecordRoom(t) \/ SendAlert(t)
      PROVE  TasksInv'
  <2>1. CASE FindRoom(t)
    BY <1>2, <1>3, <2>1 DEF FindRoom, Use, On, Stay, processVars
  <2>2. CASE CreateRoom(t)
    BY <1>1, <1>3, <2>2 DEF CreateRoom, On, Stay, processVars
  <2>3. CASE RecordRoom(t)
    BY <1>3, <2>3 DEF RecordRoom, Use, On, Stay, processVars
  <2>4. CASE SendAlert(t)
    BY <1>1, <2>4 DEF SendAlert, On, Stay, processVars
  <2>5. QED
    BY <1>4, <2>1, <2>2, <2>3, <2>4
<1>5. CASE Announce
  BY <1>1, <1>2, <1>5 DEF Announce, On, Stay, processVars, Tasks
<1>6. CASE RememberNotice
  BY <1>1, <1>6 DEF RememberNotice, On, Stay, processVars, Tasks
<1>7. CASE TakeAlert
  <2>1. /\ task' = [task EXCEPT !["deliver"] = [Off EXCEPT !.at = "find", !.alert = Head(queue)]]
        /\ Up /\ stage' = stage /\ "deliver" \in Tasks
    BY <1>7 DEF TakeAlert, On, Stay, processVars, Tasks
  <2>2. Placed([Off EXCEPT !.at = "find", !.alert = Head(queue)])
    BY OffIsPlaced DEF Placed, Off, Fields
  <2>3. QED
    BY <2>1, <2>2, TaskMoves DEF Up
<1>8. CASE Raise
  BY <1>8 DEF Raise, Event, TasksInv, Up
<1>9. QED
  BY <1>4, <1>5, <1>6, <1>7, <1>8 DEF Notify

LEMMA StepKeepsTasks == TasksInv /\ [Next]_vars => TasksInv'
<1> SUFFICES ASSUME TasksInv, [Next]_vars
             PROVE  TasksInv'
  OBVIOUS
<1>1. CASE Notifying
  BY <1>1, NotifyKeepsTasks DEF Notifying
<1>2. CASE Sync
  <2>1. /\ task' = [task EXCEPT !["announce"] = [Off EXCEPT !.at = "find"]]
        /\ Up' /\ ~Up /\ "announce" \in Tasks
    BY <1>2 DEF Sync, StartNotices, At, Enter, Up, Tasks
  <2>2. /\ DOMAIN task' = Tasks /\ Placed([Off EXCEPT !.at = "find"])
        /\ \A t \in Tasks : task'[t] = IF t = "announce" THEN [Off EXCEPT !.at = "find"] ELSE task[t]
    BY <2>1, OffIsPlaced DEF TasksInv
  <2>3. task'["last"].at = "off"
    BY <2>1, <2>2 DEF TasksInv, Tasks
  <2>4. QED
    BY <2>1, <2>2, <2>3 DEF TasksInv, Placed
<1>3. CASE StopSyncing
  <2>1. /\ task' = [task EXCEPT !["last"] = [Off EXCEPT !.at = "find"]]
        /\ Up' /\ stage' = "stopping" /\ "last" \in Tasks
    BY <1>3 DEF StopSyncing, Up, Tasks
  <2>2. QED
    BY <2>1, OffIsPlaced, TaskMoves
<1>4. CASE Exit \/ Crash
  <2>1. task' = [t \in Tasks |-> Off]
    BY <1>4 DEF Exit, Crash, DropAll, DropNotices
  <2>2. QED
    BY <2>1, OffIsPlaced DEF TasksInv, Off, Tasks
<1>5. CASE task' = task /\ (Up => Up') /\ (stage = "stopping" => stage' = "stopping")
  BY <1>5 DEF TasksInv
<1>6. CASE Restart \/ GetReady \/ Operator \/ Inviting \/ Rooming \/ Serving \/ UNCHANGED vars
  <2>1. task' = task
    BY <1>6 DEF Restart, GetReady, Operator, Inviting, Rooming, Serving, vars, noticesVars
  <2>2. QED
    BY <1>4, <1>5, <2>1, ProcessSteps
<1>7. QED
  BY <1>1, <1>2, <1>3, <1>4, <1>6 DEF Next

-----------------------------------------------------------------------------
(* The rooms made for those who are notified                                   *)

(* Recorded as private, or that failed. *)
Written(r) == r \in direct \/ <<r, "write">> \in lapses

(* A task that has a room to write in has written down that it is private, if  *)
(* that was possible.                                                          *)
InHand(t) ==
  /\ task[t].at = "record" => task[t].room \in made[Person(t)]
  /\ task[t].at \in {"send", "remember"} => Written(task[t].room)

(* A room that was made is being recorded, or was, or why not is known.        *)
RoomsMadeInv ==
  /\ DOMAIN made = People
  /\ \A u \in People : \A r \in made[u] : Written(r) \/ r \in ToRecord \/ <<r, "end">> \in lapses
  /\ \A t \in Tasks : InHand(t)

(* What a step must see to. *)
LEMMA RoomsMadeKept ==
  ASSUME RoomsMadeInv, DOMAIN made' = People,
         \A r : Written(r) => Written(r)',
         \A r : <<r, "end">> \in lapses => <<r, "end">> \in lapses' \/ Written(r)',
         \A r \in ToRecord : r \in ToRecord' \/ Written(r)' \/ <<r, "end">> \in lapses',
         \A u \in People : \A r \in made'[u] : r \in made[u] \/ r \in ToRecord',
         \A t \in Tasks : InHand(t)'
  PROVE  RoomsMadeInv'
<1>1. ASSUME NEW u \in People, NEW r \in made'[u]
      PROVE  Written(r)' \/ r \in ToRecord' \/ <<r, "end">> \in lapses'
  <2>1. CASE r \in made[u]
    BY <2>1 DEF RoomsMadeInv
  <2>2. QED
    BY <1>1, <2>1
<1>2. QED
  BY <1>1 DEF RoomsMadeInv

(* Steps of no task, and those of a task that has no room in hand any more.    *)
LEMMA RoomsMadeStay ==
  ASSUME RoomsMadeInv, TasksInv, UNCHANGED <<made, direct, lapses>>, DOMAIN task' = Tasks,
         NEW t \in Tasks, task[t].at # "record",
         \A x \in Tasks \ {t} : task'[x] = task[x],
         \/ task'[t] = task[t]
         \/ task'[t].at \in {"off", "find", "create", "over"}
         \/ task[t].at = "send" /\ task'[t].at = "remember" /\ task'[t].room = task[t].room
  PROVE  RoomsMadeInv'
<1>1. \A r : Written(r)' <=> Written(r)
  BY DEF Written
<1>2. \A r \in ToRecord : r \in ToRecord'
  BY DEF ToRecord
<1>3. ASSUME NEW x \in Tasks
      PROVE  InHand(x)'
  <2>1. InHand(x) /\ InHand(t)
    BY DEF RoomsMadeInv
  <2>2. CASE task'[x] = task[x]
    BY <2>1, <2>2 DEF InHand, Written, Person
  <2>3. CASE x = t /\ task'[t].at \in {"off", "find", "create", "over"}
    BY <2>3 DEF InHand
  <2>4. CASE x = t /\ task[t].at = "send" /\ task'[t].at = "remember" /\ task'[t].room = task[t].room
    BY <2>1, <2>4 DEF InHand, Written
  <2>5. QED
    BY <2>2, <2>3, <2>4
<1>4. DOMAIN made' = People /\ \A u \in People : made'[u] = made[u]
  BY DEF RoomsMadeInv
<1>5. QED
  BY <1>1, <1>2, <1>3, <1>4, RoomsMadeKept

(* A room is recorded, or that fails. *)
LEMMA UseRecords ==
  ASSUME RoomsMadeInv, TasksInv, NEW t \in Tasks, NEW r, Use(t, r), UNCHANGED made,
         task[t].at = "record" => task[t].room = r
  PROVE  RoomsMadeInv'
<1>1. /\ Written(r)' /\ \A q : Written(q) => Written(q)'
      /\ \A q : <<q, "end">> \in lapses => <<q, "end">> \in lapses' \/ Written(q)'
  <2>1. CASE direct' = direct \union {r} /\ lapses' = lapses \ ({r} \X {"write", "end"})
    BY <2>1 DEF Written
  <2>2. CASE lapses' = lapses \union {<<r, "write">>} /\ direct' = direct
    BY <2>2 DEF Written
  <2>3. QED
    BY <2>1, <2>2 DEF Use
<1>2. \A x \in Tasks : x # t => task'[x] = task[x]
  BY DEF Use, TasksInv
<1>3. task'[t].at = "send" /\ task'[t].room = r
  <2>1. task' = [task EXCEPT ![t] = [task[t] EXCEPT !.at = "send", !.room = r]]
    BY DEF Use, TasksInv
  <2>2. Placed(task[t]) /\ DOMAIN task = Tasks
    BY DEF TasksInv
  <2>3. QED
    BY <2>1, <2>2 DEF Placed, Fields
<1>4. ASSUME NEW q \in ToRecord
      PROVE  q \in ToRecord' \/ Written(q)'
  <2>1. PICK x \in Tasks : task[x].at = "record" /\ task[x].room = q
    BY DEF ToRecord
  <2>2. CASE x = t
    BY <1>1, <2>1, <2>2
  <2>3. CASE x # t
    BY <1>2, <2>1, <2>3 DEF ToRecord
  <2>4. QED
    BY <2>2, <2>3
<1>5. ASSUME NEW x \in Tasks
      PROVE  InHand(x)'
  <2>1. CASE x = t
    BY <1>1, <1>3, <2>1 DEF InHand, Written
  <2>2. CASE x # t
    <3>1. InHand(x) /\ task'[x] = task[x]
      BY <1>2, <2>2 DEF RoomsMadeInv
    <3>2. Written(task[x].room) => Written(task[x].room)'
      <4>1. PICK q : q = task[x].room
        OBVIOUS
      <4>2. task'[x].room = q
        BY <3>1, <4>1
      <4>3. Written(q) => Written(q)'
        BY <1>1
      <4>4. QED
        BY <4>1, <4>2, <4>3 DEF Written
    <3>3. QED
      BY <3>1, <3>2 DEF InHand, Person
  <2>3. QED
    BY <2>1, <2>2
<1>6. DOMAIN made' = People /\ \A u \in People : made'[u] = made[u]
  BY DEF RoomsMadeInv
<1>7. QED
  BY <1>1, <1>4, <1>5, <1>6, RoomsMadeKept

(* A room is made, and is the next to be recorded. *)
LEMMA CreationIsRecorded ==
  ASSUME RoomsMadeInv, TasksInv, NEW t \in Tasks, task[t].at = "create", NEW r,
         made' = [made EXCEPT ![Person(t)] = @ \union {r}],
         task' = [task EXCEPT ![t].at = "record", ![t].room = r], UNCHANGED <<direct, lapses>>
  PROVE  RoomsMadeInv'
<1>1. Person(t) \in People
  BY SomeoneNotified DEF Person, TasksInv, Placed
<1>2. /\ DOMAIN made' = People /\ r \in made'[Person(t)]
      /\ \A u \in People : made[u] \subseteq made'[u] /\ made'[u] \subseteq made[u] \union {r}
  BY <1>1 DEF RoomsMadeInv
<1>3. \A x \in Tasks : x # t => task'[x] = task[x]
  BY DEF TasksInv
<1>4. task'[t].at = "record" /\ task'[t].room = r /\ task'[t].person = task[t].person
  <2>1. task' = [task EXCEPT ![t] = [task[t] EXCEPT !.at = "record", !.room = r]]
    BY DEF TasksInv
  <2>2. Placed(task[t]) /\ DOMAIN task = Tasks
    BY DEF TasksInv
  <2>3. QED
    BY <2>1, <2>2 DEF Placed, Fields
<1>5. \A q : Written(q)' <=> Written(q)
  BY DEF Written
<1>6. r \in ToRecord' /\ \A q \in ToRecord : q \in ToRecord'
  <2>1. r \in ToRecord'
    BY <1>4 DEF ToRecord
  <2>2. ASSUME NEW q \in ToRecord
        PROVE  q \in ToRecord'
    <3>1. PICK x \in Tasks : task[x].at = "record" /\ task[x].room = q
      BY DEF ToRecord
    <3>2. task'[x] = task[x]
      BY <1>3, <3>1
    <3>3. QED
      BY <3>1, <3>2 DEF ToRecord
  <2>3. QED
    BY <2>1, <2>2
<1>7. ASSUME NEW x \in Tasks
      PROVE  InHand(x)'
  <2>1. CASE x = t
    BY <1>2, <1>4, <2>1 DEF InHand, Person
  <2>2. CASE x # t
    <3>1. Person(x) \in People
      BY SomeoneNotified DEF Person, TasksInv, Placed
    <3>2. InHand(x) /\ task'[x] = task[x]
      BY <1>3, <2>2 DEF RoomsMadeInv
    <3>3. QED
      BY <1>2, <3>1, <3>2 DEF InHand, Person, Written
  <2>3. QED
    BY <2>1, <2>2
<1>8. QED
  BY <1>2, <1>5, <1>6, <1>7, RoomsMadeKept

LEMMA NotifyKeepsRooms ==
  ASSUME RoomsMadeInv, TasksInv, Notify
  PROVE  RoomsMadeInv'
<1>1. ASSUME NEW t \in Tasks, task' = NextPerson(t), task[t].at # "record", UNCHANGED <<made, direct, lapses>>
      PROVE  RoomsMadeInv'
  <2>1. Placed(task[t]) /\ DOMAIN task = Tasks /\ task' = [task EXCEPT ![t] = NextTurn(t)]
    BY <1>1, NextPersonIs DEF TasksInv
  <2>2. task'[t].at \in {"off", "find", "over"}
    BY <2>1, NextTurnIs
  <2>3. QED
    BY <1>1, <2>1, <2>2, RoomsMadeStay
<1>2. ASSUME NEW t \in Tasks, FindRoom(t)
      PROVE  RoomsMadeInv'
  <2>1. CASE made[Person(t)] = {}
    <3>1. /\ task' = [task EXCEPT ![t] = [task[t] EXCEPT !.at = "create"]] /\ task[t].at = "find"
          /\ UNCHANGED <<made, direct, lapses>> /\ Placed(task[t]) /\ DOMAIN task = Tasks
      BY <1>2, <2>1 DEF FindRoom, AtNext, On, TasksInv
    <3>2. task'[t].at = "create"
      BY <3>1 DEF Placed, Fields
    <3>3. QED
      BY <3>1, <3>2, RoomsMadeStay
  <2>2. CASE made[Person(t)] # {}
    <3>1. PICK r : Use(t, r)
      BY <1>2, <2>2 DEF FindRoom
    <3>2. task[t].at = "find" /\ made' = made
      BY <1>2 DEF FindRoom, On
    <3>3. QED
      BY <3>1, <3>2, UseRecords
  <2>3. QED
    BY <2>1, <2>2
<1>3. ASSUME NEW t \in Tasks, CreateRoom(t)
      PROVE  RoomsMadeInv'
  <2> DEFINE new == <<Person(t), Cardinality(made[Person(t)]) + 1>>
  <2>1. /\ task[t].at = "create" /\ UNCHANGED <<direct, lapses>>
        /\ \/ /\ made' = [made EXCEPT ![Person(t)] = @ \union {new}]
              /\ task' = [task EXCEPT ![t].at = "record", ![t].room = new]
           \/ task' = NextPerson(t) /\ made' = made
    BY <1>3 DEF CreateRoom, On
  <2> HIDE DEF new
  <2>2. QED
    BY <1>1, <2>1, CreationIsRecorded
<1>4. ASSUME NEW t \in Tasks, RecordRoom(t)
      PROVE  RoomsMadeInv'
  <2>1. PICK r : r = task[t].room
    OBVIOUS
  <2>2. Use(t, r) /\ made' = made
    BY <1>4, <2>1 DEF RecordRoom
  <2>3. QED
    BY <2>1, <2>2, UseRecords
<1>5. ASSUME NEW t \in Tasks, SendAlert(t)
      PROVE  RoomsMadeInv'
  BY <1>1, <1>5 DEF SendAlert, On
<1>6. CASE Announce
  <2>1. /\ task["announce"].at = "send" /\ "announce" \in Tasks /\ UNCHANGED <<made, direct, lapses>>
        /\ \/ task' = NextPerson("announce")
           \/ task' = [task EXCEPT !["announce"] = [task["announce"] EXCEPT !.at = "remember"]]
    BY <1>6 DEF Announce, AtNext, On, Tasks, TasksInv
  <2>2. CASE task' = NextPerson("announce")
    BY <1>1, <2>1, <2>2
  <2>3. CASE task' = [task EXCEPT !["announce"] = [task["announce"] EXCEPT !.at = "remember"]]
    <3>1. Placed(task["announce"]) /\ DOMAIN task = Tasks
      BY <2>1 DEF TasksInv
    <3>2. task'["announce"].at = "remember" /\ task'["announce"].room = task["announce"].room
      BY <2>1, <2>3, <3>1 DEF Placed, Fields
    <3>3. QED
      BY <2>1, <2>3, <3>1, <3>2, RoomsMadeStay
  <2>4. QED
    BY <2>1, <2>2, <2>3
<1>7. CASE RememberNotice
  BY <1>1, <1>7 DEF RememberNotice, On, Tasks
<1>8. CASE TakeAlert
  <2>1. /\ task["deliver"].at = "off" /\ "deliver" \in Tasks /\ UNCHANGED <<made, direct, lapses>>
        /\ task' = [task EXCEPT !["deliver"] = [Off EXCEPT !.at = "find", !.alert = Head(queue)]]
        /\ DOMAIN task = Tasks
    BY <1>8 DEF TakeAlert, On, Tasks, TasksInv
  <2>2. task'["deliver"].at = "find"
    BY <2>1 DEF Off
  <2>3. QED
    BY <2>1, <2>2, RoomsMadeStay
<1>9. QED
  BY <1>2, <1>3, <1>4, <1>5, <1>6, <1>7, <1>8 DEF Notify

LEMMA StepKeepsRooms == RoomsMadeInv /\ TasksInv /\ [Next]_vars => RoomsMadeInv'
<1> SUFFICES ASSUME RoomsMadeInv, TasksInv, [Next]_vars
             PROVE  RoomsMadeInv'
  OBVIOUS
<1>1. "announce" \in Tasks /\ "last" \in Tasks /\ DOMAIN task = Tasks
  BY DEF Tasks, TasksInv
<1>2. ASSUME UNCHANGED <<task, made, direct, lapses>>
      PROVE  RoomsMadeInv'
  <2>1. \A r : (Written(r)' <=> Written(r)) /\ (r \in ToRecord' <=> r \in ToRecord)
    BY <1>2 DEF Written, ToRecord
  <2>2. QED
    BY <1>2, <2>1 DEF RoomsMadeInv, InHand, Person
<1>3. CASE Notifying
  <2>1. Raise => UNCHANGED <<task, made, direct, lapses>>
    BY DEF Raise
  <2>2. QED
    BY <1>2, <1>3, <2>1, NotifyKeepsRooms DEF Notifying
<1>4. CASE Sync
  <2>1. /\ task' = [task EXCEPT !["announce"] = [Off EXCEPT !.at = "find"]]
        /\ UNCHANGED <<made, direct, lapses>> /\ ~Up
    BY <1>4 DEF Sync, StartNotices, At, Up
  <2>2. task'["announce"].at = "find" /\ task["announce"].at # "record"
    BY <1>1, <2>1 DEF Off, TasksInv
  <2>3. QED
    BY <1>1, <2>1, <2>2, RoomsMadeStay
<1>5. CASE StopSyncing
  <2>1. /\ task' = [task EXCEPT !["last"] = [Off EXCEPT !.at = "find"]]
        /\ UNCHANGED <<made, direct, lapses>> /\ stage # "stopping"
    BY <1>5 DEF StopSyncing, At, roomsVars
  <2>2. task'["last"].at = "find" /\ task["last"].at # "record"
    BY <1>1, <2>1 DEF Off, TasksInv
  <2>3. QED
    BY <1>1, <2>1, <2>2, RoomsMadeStay
<1>6. CASE Exit \/ Crash
  <2>1. /\ task' = [t \in Tasks |-> Off] /\ UNCHANGED <<made, direct>>
        /\ lapses' = lapses \union (ToRecord \X {"end"})
    BY <1>6 DEF Exit, Crash, DropAll, DropNotices
  <2>2. /\ \A t \in Tasks : task'[t].at = "off"
        /\ \A r : Written(r) => Written(r)'
        /\ \A r \in ToRecord : <<r, "end">> \in lapses'
        /\ \A r : <<r, "end">> \in lapses => <<r, "end">> \in lapses'
    BY <2>1 DEF Off, Written
  <2>3. DOMAIN made' = People /\ \A u \in People : made'[u] = made[u]
    BY <2>1 DEF RoomsMadeInv
  <2>4. \A t \in Tasks : InHand(t)'
    BY <2>2 DEF InHand
  <2>5. QED
    BY <2>2, <2>3, <2>4, RoomsMadeKept
<1>7. CASE Restart \/ GetReady \/ Operator \/ Inviting \/ Rooming \/ Serving \/ UNCHANGED vars
  <2>1. UNCHANGED noticesVars
    BY <1>7 DEF Restart, GetReady, Operator, Inviting, Rooming, Serving, vars
  <2>2. made' = made
    BY <1>7 DEF Restart, GetReady, JoinConfigured, Operator, Inviting, Invite, Rooming, ReceiveInvite,
                Decline, Record, TryJoin, Serving, vars, roomsVars
  <2>3. direct \subseteq direct'
    BY <1>7 DEF Restart, GetReady, JoinConfigured, Operator, Inviting, Invite, Rooming, ReceiveInvite,
                Decline, Record, TryJoin, Serving, vars, roomsVars
  <2>4. UNCHANGED <<task, lapses>>
    BY <2>1 DEF noticesVars
  <2>5. /\ \A r : Written(r) => Written(r)'
        /\ \A r : r \in ToRecord' <=> r \in ToRecord
    BY <2>3, <2>4 DEF Written, ToRecord
  <2>6. QED
    BY <2>2, <2>4, <2>5 DEF RoomsMadeInv, InHand, Person
<1>8. QED
  BY <1>3, <1>4, <1>5, <1>6, <1>7 DEF Next

(* For any number of rooms, invites, people and restarts: a room the bot is    *)
(* in because of an invite is private, and so is one it made for someone,      *)
(* except before that is recorded, which the bot does before it writes there,  *)
(* or if the write failed or the process ended first.                          *)
THEOREM PrivateIsPrivate == Spec => []PrivateStaysOff
<1>1. Init => PrivateInv /\ TasksInv /\ RoomsMadeInv
  <2> SUFFICES ASSUME Init
               PROVE  PrivateInv /\ TasksInv /\ RoomsMadeInv
    OBVIOUS
  <2>1. /\ invites = <<>> /\ answering = <<>> /\ cameBy = {}
        /\ made = [u \in People |-> {}] /\ task = [t \in Tasks |-> Off]
    BY DEF Init, RoomsInit, NoticesInit, People
  <2>2. PrivateInv
    BY <2>1 DEF PrivateInv, Answering, RecordedFirst
  <2>3. TasksInv /\ RoomsMadeInv
    BY <2>1, OffIsPlaced DEF TasksInv, RoomsMadeInv, InHand, Off, Tasks
  <2>4. QED
    BY <2>2, <2>3
<1>2. PrivateInv /\ RoomsMadeInv => PrivateStaysOff
  <2> SUFFICES ASSUME PrivateInv, RoomsMadeInv
               PROVE  PrivateStaysOff
    OBVIOUS
  <2>1. cameBy \intersect (ShownRooms \union ShownMessages \union CountedRooms) = {}
    BY DEF PrivateInv, RecordedFirst, ShownRooms, ShownMessages, CountedRooms, IsPrivate
  <2>2. QED
    BY <2>1 DEF RoomsMadeInv, InHand, Written, PrivateStaysOff
<1>3. PrivateInv /\ TasksInv /\ RoomsMadeInv /\ [Next]_vars => PrivateInv' /\ TasksInv' /\ RoomsMadeInv'
  BY StepKeepsPrivate, StepKeepsTasks, StepKeepsRooms
<1>4. QED
  BY <1>1, <1>2, <1>3, PTL DEF Spec

-----------------------------------------------------------------------------
(* The rooms of invites                                                        *)

(* The bot's rooms with the notified: none that others invite it into.         *)
LEMMA MadeKept ==
  ASSUME MadeElsewhere, TasksInv, RoomsMadeInv, Notify
  PROVE  MadeElsewhere' /\ (\A r \in Rooms : r \in direct' <=> r \in direct)
<1>1. \A t \in Tasks : Person(t) \in People
  BY SomeoneNotified DEF Person, TasksInv, Placed
<1>2. \A u \in People, m \in Nat, r \in Rooms : r # <<u, m>>
  BY PrivateRoomsAssumption DEF People
<1>3. ASSUME NEW t \in Tasks, NEW r \in {Person(t)} \X Nat, Use(t, r)
      PROVE  \A q \in Rooms : q \in direct' <=> q \in direct
  <2>1. direct' \in {direct, direct \union {r}}
    BY <1>3 DEF Use
  <2>2. r \notin Rooms
    BY <1>1, <1>2
  <2>3. QED
    BY <2>1, <2>2
<1>4. ASSUME NEW t \in Tasks, FindRoom(t)
      PROVE  MadeElsewhere' /\ (\A r \in Rooms : r \in direct' <=> r \in direct)
  <2>1. made' = made
    BY <1>4 DEF FindRoom
  <2>2. direct' = direct \/ \E r \in made[Person(t)] : Use(t, r)
    BY <1>4 DEF FindRoom
  <2>3. made[Person(t)] \subseteq {Person(t)} \X Nat
    BY <1>1 DEF MadeElsewhere
  <2>4. QED
    BY <1>3, <2>1, <2>2, <2>3 DEF MadeElsewhere
<1>5. ASSUME NEW t \in Tasks, RecordRoom(t)
      PROVE  MadeElsewhere' /\ (\A r \in Rooms : r \in direct' <=> r \in direct)
  <2>1. made' = made
    BY <1>5 DEF RecordRoom
  <2>2. PICK r : r = task[t].room
    OBVIOUS
  <2>3. Use(t, r) /\ r \in made[Person(t)]
    BY <1>5, <2>2 DEF RecordRoom, On, RoomsMadeInv, InHand
  <2>4. r \in {Person(t)} \X Nat
    BY <1>1, <2>3 DEF MadeElsewhere
  <2>5. QED
    BY <1>3, <2>1, <2>3, <2>4 DEF MadeElsewhere
<1>6. ASSUME NEW t \in Tasks, CreateRoom(t)
      PROVE  MadeElsewhere' /\ (\A r \in Rooms : r \in direct' <=> r \in direct)
  <2> DEFINE count == Cardinality(made[Person(t)])
             new == <<Person(t), count + 1>>
  <2>1. /\ IsFiniteSet(made[Person(t)]) /\ Person(t) \in People
        /\ made[Person(t)] \subseteq {Person(t)} \X Nat
    BY <1>1 DEF MadeElsewhere
  <2>2. count \in Nat
    BY <2>1, FS_CardinalityType
  <2>3. new \in {Person(t)} \X Nat
    BY <2>2
  <2>4. /\ made' = [made EXCEPT ![Person(t)] = @ \union {new}] \/ made' = made
        /\ direct' = direct
    BY <1>6 DEF CreateRoom
  <2> HIDE DEF new
  <2>5. CASE made' = [made EXCEPT ![Person(t)] = @ \union {new}]
    <3>1. IsFiniteSet(made[Person(t)] \union {new})
      BY <2>1, FS_AddElement
    <3>2. made[Person(t)] \union {new} \subseteq {Person(t)} \X Nat
      BY <2>1, <2>3
    <3>3. MadeElsewhere'
      BY <2>1, <2>5, <3>1, <3>2 DEF MadeElsewhere
    <3>4. QED
      BY <2>4, <3>3
  <2>6. CASE made' = made
    BY <2>4, <2>6 DEF MadeElsewhere
  <2>7. QED
    BY <2>4, <2>5, <2>6
<1>7. ASSUME UNCHANGED <<made, direct>>
      PROVE  MadeElsewhere' /\ (\A r \in Rooms : r \in direct' <=> r \in direct)
  BY <1>7 DEF MadeElsewhere
<1>8. ASSUME NEW t \in Tasks, SendAlert(t)
      PROVE  UNCHANGED <<made, direct>>
  BY <1>8 DEF SendAlert
<1>9. Announce \/ RememberNotice \/ TakeAlert => UNCHANGED <<made, direct>>
  BY DEF Announce, RememberNotice, TakeAlert
<1>10. QED
  BY <1>4, <1>5, <1>6, <1>7, <1>8, <1>9 DEF Notify

(* The process ends: nothing is being answered, and the rooms are what they were. *)
LEMMA InvitesDropped ==
  ASSUME InviteInv, Answering', UNCHANGED <<membership, invites, direct, made>>,
         \A i \in DOMAIN invites : answering'[i] = "none",
         faults' \in {faults, faults + 1}, stage' = "down",
         faults' = faults => stage = "stopping"
  PROVE  InviteInv'
<1>1. faults \in Nat /\ faults' \in Nat /\ faults' >= 1
  BY DEF InviteInv, MembersRight
<1>2. MadeElsewhere' /\ MembersRight'
  BY <1>1 DEF InviteInv, MadeElsewhere, MembersRight
<1>3. ASSUME NEW i \in DOMAIN invites
      PROVE  Handled(i)'
  <2>1. Handled(i) /\ Pending(i)' = Pending(i) /\ answering'[i] = "none"
    BY DEF InviteInv, Pending
  <2>2. QED
    BY <1>1, <2>1 DEF Handled, JoinAttempts, Up
<1>4. QED
  BY <1>2, <1>3 DEF InviteInv

(* The invites that wait when the bot starts. *)
LEMMA SyncHandled ==
  ASSUME InviteInv, Answering', Sync
  PROVE  InviteInv'
<1>1. /\ UNCHANGED <<membership, invites, direct, made, faults>>
      /\ ~Up /\ Up' /\ stage' = "running"
      /\ \A i \in DOMAIN answering :
           answering'[i] = (IF ~Pending(i) THEN answering[i] ELSE Opening(i))
             \/ (Pending(i) /\ answering'[i] = "unread")
  BY DEF Sync, At, Enter, Up, AnswerPendingInvites
<1>2. MadeElsewhere' /\ MembersRight' /\ DOMAIN answering = DOMAIN invites
  BY <1>1 DEF InviteInv, MadeElsewhere, MembersRight, Answering
<1>3. ASSUME NEW i \in DOMAIN invites
      PROVE  Handled(i)'
  <2>1. Handled(i) /\ Pending(i)' = Pending(i) /\ answering[i] = "none"
    BY <1>1 DEF InviteInv, Pending, Handled
  <2>2. \/ Opening(i) = "recording" /\ Welcome(invites[i].by)
        \/ Opening(i) = "declining" /\ ~Welcome(invites[i].by)
    BY DEF Opening
  <2>3. CASE Pending(i)
    <3>1. Pending(i)' /\ answering'[i] \in {Opening(i), "unread"}
      BY <1>1, <1>2, <2>1, <2>3
    <3>2. invites[i].room \in direct => Welcome(invites[i].by) /\ faults >= 1
      BY <2>1, <2>3 DEF Handled, JoinAttempts
    <3>3. QED
      BY <1>1, <2>2, <3>1, <3>2 DEF Handled, JoinAttempts
  <2>4. CASE ~Pending(i)
    <3>1. ~Pending(i)' /\ answering'[i] = "none"
      BY <1>1, <1>2, <2>1, <2>4
    <3>2. QED
      BY <3>1 DEF Handled, JoinAttempts
  <2>5. QED
    BY <2>3, <2>4
<1>4. QED
  BY <1>1, <1>2, <1>3 DEF InviteInv

(* Rooms are joined, that nothing was answering for.                           *)
LEMMA ConfiguredHandled ==
  ASSUME InviteInv, JoinConfigured
  PROVE  InviteInv'
<1>1. /\ UNCHANGED <<invites, answering, direct, made, faults>> /\ ~Up /\ ~Up' /\ stage' = "sync"
      /\ \E joined \in SUBSET {r \in Configured : membership[r] # "joined"} :
           membership' = [r \in Rooms |-> IF r \in joined THEN "joined" ELSE membership[r]]
  BY DEF JoinConfigured, At, Enter, Up
<1>2. /\ membership' \in [Rooms -> {"out", "invited", "joined"}]
      /\ \A r \in Rooms : membership'[r] \in {membership[r], "joined"}
  BY <1>1 DEF InviteInv, MembersRight
<1>3. Answering' /\ MadeElsewhere' /\ MembersRight'
  BY <1>1, <1>2 DEF InviteInv, Answering, MadeElsewhere, MembersRight
<1>4. ASSUME NEW i \in DOMAIN invites
      PROVE  Handled(i)'
  <2>1. Handled(i) /\ invites[i].room \in Rooms /\ answering[i] = "none"
    BY <1>1, InviteIs DEF InviteInv, Handled
  <2>2. Pending(i)' => Pending(i)
    BY <1>1, <1>2, <2>1 DEF Pending
  <2>3. QED
    BY <1>1, <2>1, <2>2 DEF Handled, JoinAttempts
<1>5. QED
  BY <1>1, <1>3, <1>4 DEF InviteInv

LEMMA StepKeepsInvites ==
  PrivateInv /\ TasksInv /\ RoomsMadeInv /\ InviteInv /\ [Next]_vars => InviteInv'
<1> SUFFICES ASSUME PrivateInv, TasksInv, RoomsMadeInv, InviteInv, [Next]_vars
             PROVE  InviteInv'
  OBVIOUS
<1>1. Answering'
  BY StepKeepsPrivate DEF PrivateInv
<1>2. /\ faults' \in {faults, faults + 1} /\ faults \in Nat
      /\ stage' = "stopping" => faults' >= 1
  BY ProcessSteps DEF InviteInv, MembersRight
<1>3. ASSUME UNCHANGED <<membership, invites, answering>>, Up' <=> Up,
             MadeElsewhere', \A r \in Rooms : r \in direct' <=> r \in direct
      PROVE  InviteInv'
  BY <1>2, <1>3, InvitesKept
<1>4. ASSUME UNCHANGED roomsVars, Up' <=> Up
      PROVE  InviteInv'
  <2>1. UNCHANGED <<membership, invites, answering, direct, made>>
    BY <1>4 DEF roomsVars
  <2>2. MadeElsewhere'
    BY <2>1 DEF InviteInv, MadeElsewhere
  <2>3. QED
    BY <1>3, <1>4, <2>1, <2>2
<1>5. CASE Inviting
  BY <1>1, <1>5, InviteHandled DEF Inviting
<1>6. CASE Rooming
  BY <1>1, <1>6, ReceiveHandled, DeclineHandled, RecordHandled, JoinHandled DEF Rooming
<1>7. CASE Notifying
  <2>1. UNCHANGED <<membership, invites, answering>> /\ (Up' <=> Up)
    BY <1>7, StageKept DEF Notifying, Up
  <2>2. CASE Notify
    BY <1>3, <2>1, <2>2, MadeKept DEF InviteInv
  <2>3. CASE Raise
    <3>1. UNCHANGED roomsVars
      BY <2>1, <2>3, <1>7 DEF Raise, Notifying, roomsVars, rooms
    <3>2. QED
      BY <1>4, <2>1, <3>1
  <2>4. QED
    BY <1>7, <2>2, <2>3 DEF Notifying
<1>8. CASE Sync
  BY <1>1, <1>8, SyncHandled
<1>9. CASE JoinConfigured
  BY <1>9, ConfiguredHandled
<1>10. CASE Exit \/ Crash
  <2>1. /\ UNCHANGED <<membership, invites, direct, made>> /\ stage' = "down"
        /\ answering' = [i \in DOMAIN answering |-> "none"]
        /\ faults' = faults => stage = "stopping"
    BY <1>2, <1>10 DEF Exit, Crash, At, Die, Fault, DropAll, DropInvites, Enter
  <2>2. \A i \in DOMAIN invites : answering'[i] = "none"
    BY <2>1 DEF InviteInv, Answering
  <2>3. QED
    BY <1>1, <1>2, <2>1, <2>2, InvitesDropped
<1>11. CASE UNCHANGED roomsVars /\ ~Exit /\ ~Crash /\ ~Sync
  BY <1>4, <1>11, ProcessSteps
<1>12. CASE Restart \/ GetReady \/ StopSyncing \/ Operator \/ Serving \/ UNCHANGED vars
  <2>1. UNCHANGED roomsVars \/ JoinConfigured
    BY <1>12 DEF Restart, GetReady, StopSyncing, Operator, Serving, vars
  <2>2. QED
    BY <1>8, <1>9, <1>10, <1>11, <2>1
<1>13. QED
  BY <1>5, <1>6, <1>7, <1>8, <1>10, <1>12 DEF Next

LEMMA InvitesStart == Init => PrivateInv /\ TasksInv /\ RoomsMadeInv /\ InviteInv
<1> SUFFICES ASSUME Init
             PROVE  PrivateInv /\ TasksInv /\ RoomsMadeInv /\ InviteInv
  OBVIOUS
<1>1. /\ invites = <<>> /\ answering = <<>> /\ direct = {} /\ cameBy = {} /\ faults = 0 /\ stage = "down"
      /\ made = [u \in People |-> {}] /\ membership = [r \in Rooms |-> "out"]
      /\ task = [t \in Tasks |-> Off]
  BY DEF Init, ProcessInit, RoomsInit, NoticesInit, People
<1>2. Answering
  BY <1>1 DEF Answering
<1>3. PrivateInv
  BY <1>1, <1>2 DEF PrivateInv, RecordedFirst
<1>4. TasksInv /\ RoomsMadeInv
  BY <1>1, OffIsPlaced DEF TasksInv, RoomsMadeInv, InHand, Off, Tasks
<1>5. MadeElsewhere
  BY <1>1, FS_EmptySet DEF MadeElsewhere
<1>6. MembersRight
  BY <1>1 DEF MembersRight
<1>7. QED
  BY <1>1, <1>2, <1>3, <1>4, <1>5, <1>6 DEF InviteInv

(* For any number of rooms, invites and restarts: an invite of someone who is  *)
(* welcome, whose room was recorded, is being answered whenever a process runs *)
(* that could read it, and is not given up after one failure.                  *)
THEOREM InvitesAreRetried == Spec => []OneFailureForgiven
<1> DEFINE I == PrivateInv /\ TasksInv /\ RoomsMadeInv /\ InviteInv
<1>1. I /\ [Next]_vars => I'
  BY StepKeepsPrivate, StepKeepsTasks, StepKeepsRooms, StepKeepsInvites
<1>2. I => OneFailureForgiven
  <2> SUFFICES ASSUME InviteInv, NEW i \in DOMAIN invites, Up, Pending(i), Welcome(invites[i].by),
                      invites[i].room \in direct
               PROVE  \/ answering[i] \in {"recording", "joining1", "joining2", "joining3", "unread"}
                      \/ answering[i] = "over" /\ faults > 1
    BY DEF OneFailureForgiven
  <2>1. Handled(i) /\ faults \in Nat /\ answering[i] \in Progress
    BY DEF InviteInv, MembersRight, Answering
  <2>2. QED
    BY <2>1 DEF Handled, Progress, JoinAttempts
<1>3. QED
  BY <1>1, <1>2, InvitesStart, PTL DEF Spec

-----------------------------------------------------------------------------
(* The alerts                                                                  *)

Deliver == task["deliver"]
Held == Deliver.at # "off"

(* Who had the turn already. *)
HadTurn(u) == \E m \in DOMAIN Notified : m < Deliver.person /\ Notified[m] = u
Twice(u) == \E m, n \in DOMAIN Notified : m # n /\ Notified[m] = u /\ Notified[n] = u

(* The alerts that wait come after the one that is held. *)
QueueInv ==
  /\ raised \in Nat /\ queue \in Seq(Nat)
  /\ \A a \in ToSet(queue) : a \in 1..raised
  /\ \A i, j \in DOMAIN queue : i < j => queue[i] < queue[j]
  /\ Held => Deliver.alert \in 1..raised /\ \A a \in ToSet(queue) : Deliver.alert < a

(* What someone got comes before those, or is the one that is held. *)
GotInv(u) ==
  /\ got[u] \in Seq(Nat)
  /\ \A a \in ToSet(got[u]) :
       /\ a \in 1..raised /\ \A b \in ToSet(queue) : a < b
       /\ Held => a < Deliver.alert \/ (a = Deliver.alert /\ HadTurn(u))
  /\ \A i, j \in DOMAIN got[u] : i < j => got[u][i] < got[u][j] \/ (got[u][i] = got[u][j] /\ Twice(u))

(* An alert got to the n-th, or did not, or is about to. *)
Reached(n, a) ==
  \/ a \in ToSet(got[Notified[n]]) \/ <<a, Notified[n]>> \in missed
  \/ a \in ToSet(queue) \/ (Held /\ Deliver.person <= n /\ Deliver.alert = a)

AlertInv ==
  /\ QueueInv
  /\ DOMAIN got = People /\ \A u \in People : GotInv(u)
  /\ \A n \in DOMAIN Notified : \A a \in 1..raised : Reached(n, a)

LEMMA SetAppended ==
  ASSUME NEW s \in Seq(Nat), NEW e \in Nat
  PROVE  /\ Append(s, e) \in Seq(Nat) /\ ToSet(Append(s, e)) = ToSet(s) \union {e}
         /\ DOMAIN Append(s, e) = DOMAIN s \union {Len(s) + 1} /\ Append(s, e)[Len(s) + 1] = e
         /\ \A i \in DOMAIN s : i \in Nat /\ i < Len(s) + 1 /\ Append(s, e)[i] = s[i]
<1>1. /\ Len(s) \in Nat /\ DOMAIN s = 1..Len(s)
      /\ Append(s, e) \in Seq(Nat) /\ DOMAIN Append(s, e) = 1..(Len(s) + 1)
      /\ Append(s, e)[Len(s) + 1] = e /\ \A i \in 1..Len(s) : Append(s, e)[i] = s[i]
  OBVIOUS
<1>2. DOMAIN Append(s, e) = DOMAIN s \union {Len(s) + 1}
  BY <1>1
<1>3. ToSet(Append(s, e)) = ToSet(s) \union {e}
  BY <1>1, <1>2 DEF ToSet
<1>4. QED
  BY <1>1, <1>2, <1>3

LEMMA SetTailed ==
  ASSUME NEW s \in Seq(Nat), s # <<>>
  PROVE  /\ Tail(s) \in Seq(Nat) /\ Head(s) \in Nat /\ Head(s) = s[1] /\ 1 \in DOMAIN s
         /\ \A i \in DOMAIN Tail(s) : i \in Nat /\ i >= 1 /\ i + 1 \in DOMAIN s /\ Tail(s)[i] = s[i + 1]
         /\ ToSet(s) = {Head(s)} \union ToSet(Tail(s))
<1>1. /\ Len(s) \in Nat /\ Len(s) >= 1 /\ DOMAIN s = 1..Len(s)
      /\ Tail(s) \in Seq(Nat) /\ DOMAIN Tail(s) = 1..(Len(s) - 1)
      /\ Head(s) = s[1] /\ \A i \in 1..(Len(s) - 1) : Tail(s)[i] = s[i + 1]
  OBVIOUS
<1>2. \A i \in DOMAIN Tail(s) : i \in Nat /\ i >= 1 /\ i + 1 \in DOMAIN s /\ Tail(s)[i] = s[i + 1]
  BY <1>1
<1>3. \A i \in DOMAIN s : i = 1 \/ (i - 1 \in DOMAIN Tail(s) /\ Tail(s)[i - 1] = s[i])
  BY <1>1
<1>4. 1 \in DOMAIN s /\ Head(s) \in Nat
  BY <1>1
<1>5. ToSet(s) = {Head(s)} \union ToSet(Tail(s))
  <2>1. ASSUME NEW i \in DOMAIN s
        PROVE  s[i] \in {Head(s)} \union ToSet(Tail(s))
    BY <1>1, <1>3, <2>1 DEF ToSet
  <2>2. ASSUME NEW i \in DOMAIN Tail(s)
        PROVE  Tail(s)[i] \in ToSet(s)
    BY <1>2, <2>2 DEF ToSet
  <2>3. Head(s) \in ToSet(s)
    BY <1>1, <1>4 DEF ToSet
  <2>4. QED
    BY <2>1, <2>2, <2>3 DEF ToSet
<1>6. QED
  BY <1>1, <1>2, <1>4, <1>5

(* Steps that leave the alert with the one it is for. *)
LEMMA AlertsKept ==
  ASSUME AlertInv, UNCHANGED <<queue, raised, got>>, missed \subseteq missed',
         Held' = Held, Deliver'.alert = Deliver.alert, Deliver'.person = Deliver.person
  PROVE  AlertInv'
<1>1. QueueInv'
  BY DEF AlertInv, QueueInv
<1>2. \A u \in People : GotInv(u)'
  BY DEF AlertInv, GotInv, HadTurn
<1>3. \A n \in DOMAIN Notified : \A a \in 1..raised' : Reached(n, a)'
  BY DEF AlertInv, Reached
<1>4. QED
  BY <1>1, <1>2, <1>3 DEF AlertInv

LEMMA AlertsElsewhere ==
  ASSUME AlertInv, UNCHANGED <<queue, raised, got>>, missed \subseteq missed', task'["deliver"] = task["deliver"]
  PROVE  AlertInv'
  BY AlertsKept DEF Held, Deliver

(* One more is raised. *)
LEMMA AlertRaised ==
  ASSUME AlertInv, Raise
  PROVE  AlertInv'
<1>1. /\ raised' = raised + 1 /\ queue' = Append(queue, raised + 1)
      /\ UNCHANGED <<task, got, missed>>
      /\ raised \in Nat /\ queue \in Seq(Nat)
  BY DEF Raise, AlertInv, QueueInv
<1>2. /\ queue' \in Seq(Nat) /\ ToSet(queue') = ToSet(queue) \union {raised + 1}
      /\ DOMAIN queue' = DOMAIN queue \union {Len(queue) + 1} /\ queue'[Len(queue) + 1] = raised + 1
      /\ \A i \in DOMAIN queue : i \in Nat /\ i < Len(queue) + 1 /\ queue'[i] = queue[i]
  BY <1>1, SetAppended
<1>3. QueueInv'
  <2>1. \A i \in DOMAIN queue : queue[i] \in ToSet(queue)
    BY DEF ToSet
  <2>2. \A i \in DOMAIN queue : queue[i] \in 1..raised
    BY <2>1 DEF AlertInv, QueueInv
  <2>3. Len(queue) \in Nat
    BY <1>1
  <2>4. \A i, j \in DOMAIN queue' : i < j => queue'[i] < queue'[j]
    BY <1>1, <1>2, <2>2, <2>3 DEF AlertInv, QueueInv
  <2>5. \A a \in ToSet(queue') : a \in 1..raised'
    BY <1>1, <1>2 DEF AlertInv, QueueInv
  <2>6. Held' => Deliver'.alert \in 1..raised' /\ \A a \in ToSet(queue') : Deliver'.alert < a
    BY <1>1, <1>2 DEF AlertInv, QueueInv, Held, Deliver
  <2>7. QED
    BY <1>1, <1>2, <2>4, <2>5, <2>6 DEF QueueInv
<1>4. \A u \in People : GotInv(u)'
  <2> SUFFICES ASSUME NEW u \in People
               PROVE  GotInv(u)'
    OBVIOUS
  <2>1. GotInv(u)
    BY DEF AlertInv
  <2>2. HadTurn(u)' = HadTurn(u) /\ Held' = Held /\ Deliver' = Deliver
    BY <1>1 DEF HadTurn, Held, Deliver
  <2>3. \A a \in ToSet(got[u]) : a \in 1..raised' /\ \A b \in ToSet(queue') : a < b
    BY <1>1, <1>2, <2>1 DEF GotInv
  <2>4. QED
    BY <1>1, <2>1, <2>2, <2>3 DEF GotInv
<1>5. \A n \in DOMAIN Notified : \A a \in 1..raised' : Reached(n, a)'
  <2> SUFFICES ASSUME NEW n \in DOMAIN Notified, NEW a \in 1..raised'
               PROVE  Reached(n, a)'
    OBVIOUS
  <2>1. CASE a = raised + 1
    BY <1>2, <2>1 DEF Reached
  <2>2. CASE a # raised + 1
    <3>1. Reached(n, a)
      BY <1>1, <2>2 DEF AlertInv
    <3>2. QED
      BY <1>1, <1>2, <3>1 DEF Reached, Held, Deliver
  <2>3. QED
    BY <2>1, <2>2
<1>6. QED
  BY <1>1, <1>3, <1>4, <1>5 DEF AlertInv

(* The next is taken. *)
LEMMA AlertTaken ==
  ASSUME AlertInv, TasksInv, TakeAlert
  PROVE  AlertInv'
<1>1. /\ ~Held /\ queue # <<>> /\ queue' = Tail(queue)
      /\ task' = [task EXCEPT !["deliver"] = [Off EXCEPT !.at = "find", !.alert = Head(queue)]]
      /\ UNCHANGED <<raised, got, missed>> /\ raised \in Nat /\ queue \in Seq(Nat)
  BY DEF TakeAlert, On, Held, Deliver, notices, alerts, AlertInv, QueueInv
<1>2. /\ Tail(queue) \in Seq(Nat) /\ Head(queue) \in Nat /\ Head(queue) = queue[1] /\ 1 \in DOMAIN queue
      /\ \A i \in DOMAIN queue' : i \in Nat /\ i >= 1 /\ i + 1 \in DOMAIN queue /\ queue'[i] = queue[i + 1]
      /\ ToSet(queue) = {Head(queue)} \union ToSet(queue')
  BY <1>1, SetTailed
<1>3. /\ Deliver'.at = "find" /\ Deliver'.alert = Head(queue) /\ Deliver'.person = 1 /\ Held'
  <2>1. Deliver' = [Off EXCEPT !.at = "find", !.alert = Head(queue)]
    BY <1>1 DEF Deliver, TasksInv, Tasks
  <2>2. QED
    BY <2>1 DEF Off, Held
<1>4. QueueInv'
  <2>1. \A i, j \in DOMAIN queue' : i < j => queue'[i] < queue'[j]
    BY <1>1, <1>2 DEF AlertInv, QueueInv
  <2>2. \A i \in DOMAIN queue' : queue[1] < queue'[i]
    BY <1>1, <1>2 DEF AlertInv, QueueInv
  <2>3. \A a \in ToSet(queue') : Head(queue) < a
    BY <1>2, <2>2 DEF ToSet
  <2>4. QED
    BY <1>1, <1>2, <1>3, <2>1, <2>3 DEF AlertInv, QueueInv
<1>5. \A u \in People : GotInv(u)'
  <2> SUFFICES ASSUME NEW u \in People
               PROVE  GotInv(u)'
    OBVIOUS
  <2>1. GotInv(u)
    BY DEF AlertInv
  <2>2. \A a \in ToSet(got[u]) : a < Head(queue) /\ \A b \in ToSet(queue') : a < b
    BY <1>2, <2>1 DEF GotInv
  <2>3. QED
    BY <1>1, <1>3, <2>1, <2>2 DEF GotInv
<1>6. ASSUME NEW n \in DOMAIN Notified, NEW a \in 1..raised'
      PROVE  Reached(n, a)'
  <2>1. Reached(n, a) /\ n \in Nat /\ n >= 1
    BY <1>1, SomeoneNotified DEF AlertInv
  <2>2. QED
    BY <1>1, <1>2, <1>3, <2>1 DEF Reached
<1>7. QED
  BY <1>1, <1>4, <1>5, <1>6 DEF AlertInv

(* The one whose turn it is got the alert or not, and the next has the turn.   *)
LEMMA AlertHandedOn ==
  ASSUME AlertInv, TasksInv, Held, task' = NextPerson("deliver"), UNCHANGED <<queue, raised>>,
         NEW who, who = Person("deliver"),
         \/ got' = got /\ missed' = missed \union {<<Deliver.alert, who>>}
         \/ got' = [got EXCEPT ![who] = Append(@, Deliver.alert)] /\ missed' = missed
  PROVE  AlertInv'
<1> DEFINE p == Deliver.person
           alert == Deliver.alert
<1>1. /\ p \in DOMAIN Notified /\ p \in Nat /\ who = Notified[p] /\ who \in People
      /\ alert \in 1..raised /\ raised \in Nat /\ alert \in Nat
      /\ \A b \in ToSet(queue) : alert < b
  <2>1. Placed(Deliver)
    BY DEF TasksInv, Deliver, Tasks
  <2>2. p \in DOMAIN Notified /\ who = Notified[p]
    BY <2>1 DEF Placed, Person, Deliver
  <2>3. p \in Nat /\ Notified[p] \in People
    BY <2>2, SomeoneNotified
  <2>4. QueueInv
    BY DEF AlertInv
  <2>5. alert \in 1..raised /\ raised \in Nat /\ \A b \in ToSet(queue) : alert < b
    BY <2>4 DEF QueueInv
  <2>6. QED
    BY <2>2, <2>3, <2>5
<1>2. /\ Held' => Deliver'.alert = alert /\ Deliver'.person = p + 1
      /\ ~Held' => p = Len(Notified)
  <2>1. Placed(task["deliver"]) /\ "deliver" \in Tasks /\ DOMAIN task = Tasks
    BY DEF TasksInv, Tasks
  <2>2. Deliver' = NextTurn("deliver")
    BY <2>1, NextPersonIs DEF Deliver
  <2>3. QED
    BY <2>1, <2>2, NextTurnIs DEF Deliver, Held
<1>3. /\ DOMAIN got' = People /\ DOMAIN got = People /\ missed \subseteq missed'
      /\ \A v \in People : got[v] \in Seq(Nat)
      /\ \A v \in People : v # who => got'[v] = got[v]
      /\ \/ got'[who] = got[who] /\ <<alert, who>> \in missed'
         \/ got'[who] = Append(got[who], alert)
  BY <1>1 DEF AlertInv, GotInv
<1> HIDE DEF p, alert
<1>4. /\ got'[who] \in Seq(Nat) /\ ToSet(got[who]) \subseteq ToSet(got'[who])
      /\ ToSet(got'[who]) \subseteq ToSet(got[who]) \union {alert}
      /\ alert \in ToSet(got'[who]) \/ <<alert, who>> \in missed'
  <2>1. CASE got'[who] = got[who] /\ <<alert, who>> \in missed'
    BY <1>1, <1>3, <2>1
  <2>2. CASE got'[who] = Append(got[who], alert)
    <3>1. got[who] \in Seq(Nat) /\ alert \in Nat
      BY <1>1, <1>3
    <3>2. /\ Append(got[who], alert) \in Seq(Nat)
          /\ ToSet(Append(got[who], alert)) = ToSet(got[who]) \union {alert}
      BY <3>1, SetAppended
    <3>3. QED
      BY <2>2, <3>2
  <2>3. QED
    BY <1>3, <2>1, <2>2
<1>5. QueueInv'
  <2>1. QueueInv /\ (Held' => Deliver'.alert = Deliver.alert)
    BY <1>2 DEF AlertInv, alert
  <2>2. Held' => Deliver'.alert \in 1..raised' /\ \A a \in ToSet(queue') : Deliver'.alert < a
    BY <2>1 DEF QueueInv
  <2>3. QED
    BY <2>1, <2>2 DEF QueueInv
<1>6. \A v \in People : Held' => (HadTurn(v) => HadTurn(v)') /\ HadTurn(who)'
  <2>1. \A v : HadTurn(v) <=> \E m \in DOMAIN Notified : m < p /\ Notified[m] = v
    BY DEF HadTurn, p
  <2>2. Held' => \A v : HadTurn(v)' <=> \E m \in DOMAIN Notified : m < p + 1 /\ Notified[m] = v
    BY <1>2 DEF HadTurn
  <2>3. \A m \in DOMAIN Notified : m \in Nat
    BY SomeoneNotified
  <2>4. ASSUME NEW v \in People, Held'
        PROVE  HadTurn(v) => HadTurn(v)'
    <3>1. \A m \in DOMAIN Notified : m < p => m < p + 1
      BY <1>1, <2>3
    <3>2. QED
      BY <2>1, <2>2, <2>4, <3>1
  <2>5. Held' => HadTurn(who)'
    <3>1. p < p + 1
      BY <1>1
    <3>2. QED
      BY <1>1, <2>2, <3>1
  <2>6. QED
    BY <2>4, <2>5
<1>7. ASSUME NEW v \in People
      PROVE  GotInv(v)'
  <2>1. GotInv(v)
    BY DEF AlertInv
  <2>2. got'[v] \in Seq(Nat)
    BY <1>3, <1>4
  <2>3. ASSUME NEW a \in ToSet(got'[v])
        PROVE  /\ a \in 1..raised' /\ \A b \in ToSet(queue') : a < b
               /\ Held' => a < Deliver'.alert \/ (a = Deliver'.alert /\ HadTurn(v)')
    <3>1. CASE a \in ToSet(got[v])
      <4>1. /\ a \in 1..raised /\ \A b \in ToSet(queue) : a < b
            /\ a < alert \/ (a = alert /\ HadTurn(v))
        BY <2>1, <3>1 DEF GotInv, alert
      <4>2. QED
        BY <1>2, <1>6, <4>1
    <3>2. CASE v = who /\ a = alert
      <4>1. a \in 1..raised' /\ \A b \in ToSet(queue') : a < b
        BY <1>1, <3>2
      <4>2. Held' => a = Deliver'.alert /\ HadTurn(v)'
        BY <1>2, <1>6, <3>2
      <4>3. QED
        BY <4>1, <4>2
    <3>3. QED
      BY <1>3, <1>4, <2>3, <3>1, <3>2
  <2>4. ASSUME NEW i \in DOMAIN got'[v], NEW j \in DOMAIN got'[v], i < j
        PROVE  got'[v][i] < got'[v][j] \/ (got'[v][i] = got'[v][j] /\ Twice(v))
    <3>1. CASE got'[v] = got[v]
      BY <2>1, <2>4, <3>1 DEF GotInv
    <3>2. CASE v = who /\ got'[v] = Append(got[v], alert)
      <4>1. got[v] \in Seq(Nat) /\ Len(got[v]) \in Nat
        BY <2>1 DEF GotInv
      <4>2. /\ DOMAIN got'[v] = DOMAIN got[v] \union {Len(got[v]) + 1} /\ got'[v][Len(got[v]) + 1] = alert
            /\ \A k \in DOMAIN got[v] : k \in Nat /\ k < Len(got[v]) + 1 /\ got'[v][k] = got[v][k]
        BY <1>1, <3>2, <4>1, SetAppended
      <4>3. i \in DOMAIN got[v] /\ got'[v][i] = got[v][i]
        BY <2>4, <4>1, <4>2
      <4>4. CASE j \in DOMAIN got[v]
        <5>1. got'[v][j] = got[v][j]
          BY <4>2, <4>4
        <5>2. QED
          BY <2>1, <2>4, <4>3, <4>4, <5>1 DEF GotInv
      <4>5. CASE j = Len(got[v]) + 1
        <5>1. got[v][i] \in ToSet(got[v]) /\ got'[v][j] = alert
          BY <4>2, <4>3, <4>5 DEF ToSet
        <5>2. got[v][i] < alert \/ (got[v][i] = alert /\ HadTurn(v))
          BY <2>1, <5>1 DEF GotInv, alert
        <5>3. HadTurn(v) => Twice(v)
          <6>1. \A m \in DOMAIN Notified : m \in Nat
            BY SomeoneNotified
          <6>2. HadTurn(v) => \E m \in DOMAIN Notified : m < p /\ Notified[m] = v
            BY DEF HadTurn, p
          <6>3. \A m \in DOMAIN Notified : m < p => m # p
            BY <1>1, <6>1
          <6>4. QED
            BY <1>1, <3>2, <6>2, <6>3 DEF Twice
        <5>4. QED
          BY <4>3, <5>1, <5>2, <5>3
      <4>6. QED
        BY <4>2, <4>4, <4>5
    <3>3. QED
      BY <1>3, <3>1, <3>2
  <2>5. QED
    BY <2>2, <2>3, <2>4 DEF GotInv, Twice
<1>8. ASSUME NEW n \in DOMAIN Notified, NEW a \in 1..raised'
      PROVE  Reached(n, a)'
  <2>1. Reached(n, a) /\ n \in Nat /\ n <= Len(Notified) /\ Notified[n] \in People
    BY SomeoneNotified DEF AlertInv
  <2>2. CASE a \in ToSet(got[Notified[n]]) \/ <<a, Notified[n]>> \in missed \/ a \in ToSet(queue)
    BY <1>3, <1>4, <2>1, <2>2 DEF Reached
  <2>3. CASE p = n /\ alert = a
    BY <1>1, <1>4, <2>3 DEF Reached
  <2>4. CASE p < n /\ alert = a
    <3>1. Held' /\ Deliver'.alert = a /\ Deliver'.person = p + 1
      BY <1>1, <1>2, <2>1, <2>4
    <3>2. p + 1 <= n
      BY <1>1, <2>1, <2>4
    <3>3. QED
      BY <3>1, <3>2 DEF Reached
  <2>5. p <= n /\ alert = a => p = n \/ p < n
    BY <1>1, <2>1
  <2>6. QED
    BY <2>1, <2>2, <2>3, <2>4, <2>5 DEF Reached, p, alert
<1>9. QED
  BY <1>3, <1>5, <1>7, <1>8 DEF AlertInv

(* What is told, and to whom, ends with the process.                           *)
LEMMA AlertsDropped ==
  ASSUME DropNotices
  PROVE  AlertInv'
<1>1. /\ task' = [t \in Tasks |-> Off] /\ queue' = <<>> /\ raised' = 0
      /\ got' = [u \in People |-> <<>>]
  BY DEF DropNotices
<1>2. ~Held'
  BY <1>1 DEF Held, Deliver, Tasks, Off
<1>3. ToSet(queue') = {} /\ queue' \in Seq(Nat) /\ DOMAIN queue' = {}
  BY <1>1 DEF ToSet
<1>4. QueueInv'
  BY <1>1, <1>2, <1>3 DEF QueueInv
<1>5. \A u \in People : GotInv(u)'
  BY <1>1, <1>3 DEF GotInv, ToSet
<1>6. \A a : a \notin 1..raised'
  BY <1>1
<1>7. QED
  BY <1>1, <1>4, <1>5, <1>6 DEF AlertInv

(* A task other than deliver, or deliver with the same person. *)
LEMMA AlertStays ==
  ASSUME AlertInv, TasksInv, NEW t \in Tasks, NEW at \in {"create", "record", "send", "remember"}, NEW r,
         \/ task' = [task EXCEPT ![t] = [task[t] EXCEPT !.at = at]]
         \/ task' = [task EXCEPT ![t] = [task[t] EXCEPT !.at = at, !.room = r]],
         task[t].at # "off", UNCHANGED <<queue, raised, got>>, missed \subseteq missed'
  PROVE  AlertInv'
<1>1. Placed(task[t]) /\ DOMAIN task = Tasks
  BY DEF TasksInv
<1>2. CASE t = "deliver"
  <2>1. \/ Deliver' = [task[t] EXCEPT !.at = at]
        \/ Deliver' = [task[t] EXCEPT !.at = at, !.room = r]
    BY <1>1, <1>2 DEF Deliver
  <2>2. Deliver'.at = at /\ Deliver'.person = task[t].person /\ Deliver'.alert = task[t].alert
    BY <1>1, <2>1 DEF Placed, Fields
  <2>3. QED
    BY <1>2, <2>2, AlertsKept DEF Held, Deliver
<1>3. CASE t # "deliver"
  <2>1. task'["deliver"] = task["deliver"]
    BY <1>1, <1>3 DEF Tasks
  <2>2. QED
    BY <2>1, AlertsElsewhere
<1>4. QED
  BY <1>2, <1>3

(* The turn of a task other than deliver. *)
LEMMA OtherTurn ==
  ASSUME AlertInv, TasksInv, NEW t \in Tasks, t # "deliver", task' = NextPerson(t),
         UNCHANGED <<queue, raised, got>>, missed \subseteq missed'
  PROVE  AlertInv'
<1>1. task'["deliver"] = task["deliver"]
  BY NextPersonIs DEF TasksInv, Tasks
<1>2. QED
  BY <1>1, AlertsElsewhere

LEMMA NotifyKeepsAlerts ==
  ASSUME AlertInv, TasksInv, Notify \/ Raise
  PROVE  AlertInv'
<1>1. ASSUME NEW t \in Tasks, FindRoom(t)
      PROVE  AlertInv'
  <2>1. task[t].at # "off" /\ UNCHANGED <<queue, raised, got, missed>>
    BY <1>1 DEF FindRoom, On, notices, alerts
  <2>2. \/ task' = [task EXCEPT ![t] = [task[t] EXCEPT !.at = "create"]]
        \/ \E r : task' = [task EXCEPT ![t] = [task[t] EXCEPT !.at = "send", !.room = r]]
    BY <1>1 DEF FindRoom, AtNext, Use
  <2>3. QED
    BY <2>1, <2>2, AlertStays
<1>2. ASSUME NEW t \in Tasks, CreateRoom(t)
      PROVE  AlertInv'
  <2>1. task[t].at # "off" /\ UNCHANGED <<queue, raised, got>>
    BY <1>2 DEF CreateRoom, On, alerts
  <2>2. CASE /\ \E r : task' = [task EXCEPT ![t] = [task[t] EXCEPT !.at = "record", !.room = r]]
             /\ UNCHANGED missed
    BY <2>1, <2>2, AlertStays
  <2>3. CASE /\ task' = NextPerson(t)
             /\ missed' = IF t = "deliver" THEN missed \union {<<task[t].alert, Person(t)>>} ELSE missed
    <3>1. CASE t = "deliver"
      BY <2>1, <2>3, <3>1, AlertHandedOn DEF Held, Deliver
    <3>2. CASE t # "deliver"
      BY <2>1, <2>3, <3>2, OtherTurn
    <3>3. QED
      BY <3>1, <3>2
  <2>4. QED
    <3> DEFINE new == <<Person(t), Cardinality(made[Person(t)]) + 1>>
    <3>1. \/ /\ task' = [task EXCEPT ![t] = [task[t] EXCEPT !.at = "record", !.room = new]]
             /\ UNCHANGED missed
          \/ /\ task' = NextPerson(t)
             /\ missed' = IF t = "deliver" THEN missed \union {<<task[t].alert, Person(t)>>} ELSE missed
      BY <1>2 DEF CreateRoom
    <3> HIDE DEF new
    <3>2. QED
      BY <2>2, <2>3, <3>1
<1>3. ASSUME NEW t \in Tasks, SendAlert(t)
      PROVE  AlertInv'
  <2>1. /\ task[t].at # "off" /\ UNCHANGED <<queue, raised>> /\ task' = NextPerson(t)
        /\ \/ /\ got' = IF t = "deliver" THEN [got EXCEPT ![Person(t)] = Append(@, task[t].alert)] ELSE got
              /\ missed' = missed
           \/ got' = got /\ missed' = missed \union {<<task[t].alert, Person(t)>>}
    BY <1>3 DEF SendAlert, On
  <2>2. CASE t = "deliver"
    BY <2>1, <2>2, AlertHandedOn DEF Held, Deliver
  <2>3. CASE t # "deliver"
    BY <2>1, <2>3, OtherTurn
  <2>4. QED
    BY <2>2, <2>3
<1>4. ASSUME NEW t \in Tasks, RecordRoom(t)
      PROVE  AlertInv'
  <2>1. task[t].at # "off" /\ UNCHANGED <<queue, raised, got, missed>>
    BY <1>4 DEF RecordRoom, On, alerts
  <2>2. PICK r : r = task[t].room
    OBVIOUS
  <2>3. task' = [task EXCEPT ![t] = [task[t] EXCEPT !.at = "send", !.room = r]]
    BY <1>4, <2>2 DEF RecordRoom, Use
  <2>4. QED
    BY <2>1, <2>3, AlertStays
<1>5. CASE Announce
  <2>1. task["announce"].at # "off" /\ UNCHANGED <<queue, raised, got, missed>> /\ "announce" \in Tasks
    BY <1>5 DEF Announce, On, Tasks, alerts
  <2>2. \/ task' = [task EXCEPT !["announce"] = [task["announce"] EXCEPT !.at = "remember"]]
        \/ task' = NextPerson("announce")
    BY <1>5 DEF Announce, AtNext
  <2>3. QED
    BY <2>1, <2>2, AlertStays, OtherTurn
<1>6. CASE RememberNotice
  <2>1. UNCHANGED <<queue, raised, got, missed>> /\ task' = NextPerson("announce") /\ "announce" \in Tasks
    BY <1>6 DEF RememberNotice, Tasks, alerts
  <2>2. QED
    BY <2>1, OtherTurn
<1>7. CASE TakeAlert \/ Raise
  BY <1>7, AlertTaken, AlertRaised
<1>8. QED
  BY <1>1, <1>2, <1>3, <1>4, <1>5, <1>6, <1>7 DEF Notify

LEMMA StepKeepsAlerts == TasksInv /\ AlertInv /\ [Next]_vars => AlertInv'
<1> SUFFICES ASSUME TasksInv, AlertInv, [Next]_vars
             PROVE  AlertInv'
  OBVIOUS
<1>1. CASE Notifying
  BY <1>1, NotifyKeepsAlerts DEF Notifying
<1>2. CASE Sync
  <2>1. /\ task'["deliver"] = task["deliver"] /\ UNCHANGED <<queue, raised, got, missed>>
    BY <1>2 DEF Sync, StartNotices, notices, alerts, TasksInv, Tasks
  <2>2. QED
    BY <2>1, AlertsElsewhere
<1>3. CASE StopSyncing
  <2>1. /\ task'["deliver"] = task["deliver"] /\ UNCHANGED <<queue, raised, got, missed>>
    BY <1>3 DEF StopSyncing, notices, alerts, TasksInv, Tasks
  <2>2. QED
    BY <2>1, AlertsElsewhere
<1>4. CASE Exit \/ Crash
  BY <1>4, AlertsDropped DEF Exit, Crash, DropAll
<1>5. CASE Restart \/ GetReady \/ Operator \/ Inviting \/ Rooming \/ Serving \/ UNCHANGED vars
  <2>1. UNCHANGED noticesVars
    BY <1>5 DEF Restart, GetReady, Operator, Inviting, Rooming, Serving, vars
  <2>2. UNCHANGED <<task, queue, raised, got, missed>>
    BY <2>1 DEF noticesVars
  <2>3. QED
    BY <2>2, AlertsElsewhere
<1>6. QED
  BY <1>1, <1>2, <1>3, <1>4, <1>5 DEF Next

LEMMA AlertsStart == Init => AlertInv
<1> SUFFICES ASSUME Init
             PROVE  AlertInv
  OBVIOUS
<1>1. /\ task = [t \in Tasks |-> Off] /\ queue = <<>> /\ raised = 0
      /\ got = [u \in People |-> <<>>]
  BY DEF Init, NoticesInit
<1>2. ~Held
  BY <1>1 DEF Held, Deliver, Tasks, Off
<1>3. ToSet(queue) = {} /\ queue \in Seq(Nat) /\ DOMAIN queue = {}
  BY <1>1 DEF ToSet
<1>4. QueueInv
  BY <1>1, <1>2, <1>3 DEF QueueInv
<1>5. \A u \in People : GotInv(u)
  BY <1>1, <1>3 DEF GotInv, ToSet
<1>6. \A a : a \notin 1..raised
  BY <1>1
<1>7. QED
  BY <1>1, <1>4, <1>5, <1>6 DEF AlertInv

(* For any number of people, in any order and listed however often, and any    *)
(* number of alerts: each gets to each of them once and in order, or its       *)
(* sending to that one failed, or it waits for those before it.                *)
THEOREM AlertsAreDelivered == Spec => []AlertsReach
<1> DEFINE I == TasksInv /\ AlertInv
<1>1. Init => I
  BY InvitesStart, AlertsStart
<1>2. I /\ [Next]_vars => I'
  BY StepKeepsTasks, StepKeepsAlerts
<1>3. I => AlertsReach
  <2> SUFFICES ASSUME AlertInv
               PROVE  AlertsReach
    OBVIOUS
  <2>1. ASSUME NEW n \in DOMAIN Notified, NEW i \in DOMAIN got[Notified[n]], NEW j \in DOMAIN got[Notified[n]], i < j
        PROVE  \/ got[Notified[n]][i] < got[Notified[n]][j]
               \/ /\ got[Notified[n]][i] = got[Notified[n]][j]
                  /\ \E m \in DOMAIN Notified : m # n /\ Notified[m] = Notified[n]
    <3>1. Notified[n] \in People
      BY SomeoneNotified
    <3>2. GotInv(Notified[n])
      BY <3>1 DEF AlertInv
    <3>3. Twice(Notified[n]) => \E m \in DOMAIN Notified : m # n /\ Notified[m] = Notified[n]
      BY DEF Twice
    <3>4. QED
      BY <2>1, <3>2, <3>3 DEF GotInv
  <2>2. ASSUME NEW n \in DOMAIN Notified, NEW a \in 1..raised
        PROVE  Reached(n, a)
    BY DEF AlertInv
  <2>3. QED
    BY <2>1, <2>2 DEF AlertsReach, Reached, Held, Deliver
<1>4. QED
  BY <1>1, <1>2, <1>3, PTL DEF Spec

-----------------------------------------------------------------------------
(* The notices                                                                 *)

(* The lines of a build that someone should have been told by now, or that     *)
(* there are more.                                                             *)
Missing(b, u) == LinesOf(Changelogs[b]) \ (LinesOf(Changelogs[first[u]]) \union told[u] \union left[u])

(* Nobody is told that there is more before they were told all that fits.      *)
Full(u) ==
  /\ IsFiniteSet(told[u])
  /\ left[u] # {} => Cardinality(told[u]) >= MaxNewLines

(* Nothing is seen or noticed before the first notice that is remembered, and  *)
(* then what is seen is the newest version of a build that was noticed.        *)
SeenInv(u) ==
  /\ first[u] \in Builds \union {0} /\ noticed[u] \subseteq Builds
  /\ first[u] = 0 => seen[u] = Never /\ noticed[u] = {}
  /\ first[u] # 0 => \E b \in noticed[u] \union {first[u]} : seen[u] = Changelogs[b][1]

Announcing == task["announce"]

NoticeInv ==
  /\ build \in Builds
  /\ DOMAIN seen = People /\ DOMAIN told = People /\ DOMAIN left = People
  /\ DOMAIN first = People /\ DOMAIN noticed = People
  /\ \A u \in People : SeenInv(u) /\ Full(u)
  /\ \A u \in People \ misread : \A b \in noticed[u] : Missing(b, u) = {}
  /\ Announcing.at = "remember" =>
       LET u == Person("announce") IN first[u] # 0 => build \in noticed[u]

(* A changelog has a newest version, and no version twice.                     *)
LEMMA ChangelogIs ==
  ASSUME NEW b \in Builds
  PROVE  /\ 1 \in DOMAIN Changelogs[b] /\ \A k \in DOMAIN Changelogs[b] : k \in Nat /\ k >= 1
         /\ Changelogs[b][1] # Never
         /\ \A j, k \in DOMAIN Changelogs[b] : Changelogs[b][j].version = Changelogs[b][k].version => j = k
<1> DEFINE R == [version : Nat \ {0}, lines : SUBSET STRING]
<1>1. /\ Changelogs[b] \in Seq(R) /\ Changelogs[b] # <<>>
      /\ \A j, k \in DOMAIN Changelogs[b] : Changelogs[b][j].version = Changelogs[b][k].version => j = k
  BY NoticesAssumption
<1>2. /\ Len(Changelogs[b]) \in Nat /\ Len(Changelogs[b]) # 0
      /\ DOMAIN Changelogs[b] = 1..Len(Changelogs[b])
  <2> HIDE DEF R
  <2>1. QED
    BY <1>1
<1>3. Changelogs[b][1] \in R
  <2> HIDE DEF R
  <2>1. 1 \in 1..Len(Changelogs[b])
    BY <1>2
  <2>2. QED
    BY <1>1, <2>1, ElementOfSeq
<1>4. Changelogs[b][1].version # 0
  BY <1>3
<1>5. Changelogs[b][1] # Never
  BY <1>4 DEF Never
<1>6. QED
  BY <1>1, <1>2, <1>5

(* new_since of a notice whose version the changelog has.                      *)
LEMMA NewSinceIs ==
  ASSUME NEW notice, notice # Never, NEW at \in DOMAIN Changelogs[build],
         Changelogs[build][at].version = notice.version,
         at = CHOOSE k \in DOMAIN Changelogs[build] : Changelogs[build][k].version = notice.version
  PROVE  /\ \A k \in 1..(at - 1) : Changelogs[build][k].lines \subseteq NewSince(notice)
         /\ Changelogs[build][at].lines \ notice.lines \subseteq NewSince(notice)
<1> DEFINE chosen == CHOOSE k \in DOMAIN Changelogs[build] : Changelogs[build][k].version = notice.version
           above == UNION {Changelogs[build][k].lines : k \in 1..(chosen - 1)}
           added == Changelogs[build][chosen].lines \ notice.lines
<1>1. notice.version \in VersionsOf(Changelogs[build])
  BY DEF VersionsOf
<1>2. NewSince(notice) = above \union added
  BY <1>1 DEF NewSince
<1>3. chosen = at
  OBVIOUS
<1>4. \A k \in 1..(chosen - 1) : Changelogs[build][k].lines \subseteq above
  OBVIOUS
<1> HIDE DEF chosen, above
<1>5. \A k \in 1..(at - 1) : Changelogs[build][k].lines \subseteq NewSince(notice)
  BY <1>2, <1>3, <1>4
<1>6. QED
  BY <1>2, <1>3, <1>5

(* Of what was noticed, new_since leaves nothing out.                          *)
LEMMA NothingNewLeftOut ==
  ASSUME NEW b \in Builds, build \in Builds
  PROVE  LinesOf(Changelogs[build]) \subseteq LinesOf(Changelogs[b]) \union NewSince(Changelogs[b][1])
<1>1. /\ b \in Nat /\ build \in Nat
      /\ b <= build => GrowsTo(Changelogs[b], Changelogs[build])
      /\ build <= b => GrowsTo(Changelogs[build], Changelogs[b])
  <2>1. \A a \in Builds : a \in Nat
    <3>1. IsFiniteSet(Builds) /\ Builds = 1..Cardinality(Builds)
      BY ProcessAssumption
    <3>2. Cardinality(Builds) \in Nat
      BY <3>1, FS_CardinalityType
    <3>3. QED
      BY <3>1, <3>2
  <2>2. QED
    BY <2>1, NoticesAssumption
<1>2. CASE build <= b
  BY <1>1, <1>2 DEF GrowsTo
<1>3. CASE b <= build
  <2> DEFINE log == Changelogs[build]
             notice == Changelogs[b][1]
  <2>1. PICK at \in DOMAIN log : /\ log[at].version = notice.version
                                 /\ \A k \in DOMAIN log : k > at => log[k].lines \subseteq LinesOf(Changelogs[b])
    BY <1>1, <1>3 DEF GrowsTo
  <2>2. notice # Never /\ notice.lines \subseteq LinesOf(Changelogs[b])
    BY ChangelogIs DEF LinesOf
  <2>3. /\ \A k \in DOMAIN log : k \in Nat /\ k >= 1
        /\ \A j, k \in DOMAIN log : log[j].version = log[k].version => j = k
    BY ChangelogIs
  <2> HIDE DEF log, notice
  <2>4. at = CHOOSE k \in DOMAIN log : log[k].version = notice.version
    BY <2>1, <2>3
  <2>5. /\ \A k \in 1..(at - 1) : log[k].lines \subseteq NewSince(notice)
        /\ log[at].lines \ notice.lines \subseteq NewSince(notice)
    BY <2>1, <2>2, <2>4, NewSinceIs DEF log
  <2>7. ASSUME NEW k \in DOMAIN log
        PROVE  log[k].lines \subseteq LinesOf(Changelogs[b]) \union NewSince(notice)
    <3>1. k \in Nat /\ at \in Nat /\ k >= 1
      BY <2>1, <2>3
    <3>2. CASE k > at
      BY <2>1, <3>2
    <3>3. CASE k = at
      <4>1. log[at].lines \subseteq LinesOf(Changelogs[b]) \union NewSince(notice)
        BY <2>2, <2>5
      <4>2. QED
        BY <3>3, <4>1
    <3>4. CASE k < at
      <4>1. k \in 1..(at - 1)
        BY <3>1, <3>4
      <4>2. QED
        BY <2>5, <4>1
    <3>5. QED
      BY <3>1, <3>2, <3>3, <3>4
  <2>8. LinesOf(log) \subseteq LinesOf(Changelogs[b]) \union NewSince(notice)
    BY <2>7 DEF LinesOf
  <2>9. QED
    BY <2>8 DEF log, notice
<1>4. QED
  BY <1>1, <1>2, <1>3

(* What new_since returns is lines of the changelog; and of these a notice     *)
(* lists all, or as many as it may.                                            *)
LEMMA NewAreLines ==
  ASSUME NEW notice, build \in Builds
  PROVE  NewSince(notice) \subseteq LinesOf(Changelogs[build])
<1> DEFINE log == Changelogs[build]
           at == CHOOSE k \in DOMAIN log : log[k].version = notice.version
<1>1. 1 \in DOMAIN log /\ \A k \in DOMAIN log : k \in Nat /\ k >= 1
  BY ChangelogIs
<1>2. Current.lines \subseteq LinesOf(log)
  BY <1>1 DEF Current, LinesOf
<1>3. CASE notice = Never \/ notice.version \notin VersionsOf(log)
  BY <1>2, <1>3 DEF NewSince
<1>4. CASE notice # Never /\ notice.version \in VersionsOf(log)
  <2>1. at \in DOMAIN log
    <3>1. \E k \in DOMAIN log : log[k].version = notice.version
      BY <1>4 DEF VersionsOf
    <3>2. QED
      BY <3>1
  <2>2. NewSince(notice) = (UNION {log[k].lines : k \in 1..(at - 1)}) \union (log[at].lines \ notice.lines)
    BY <1>4 DEF NewSince
  <2>3. log \in Seq([version : Nat \ {0}, lines : SUBSET STRING])
    BY NoticesAssumption
  <2> DEFINE R == [version : Nat \ {0}, lines : SUBSET STRING]
  <2>4. DOMAIN log = 1..Len(log) /\ Len(log) \in Nat
    <3> HIDE DEF R, log
    <3>1. log \in Seq(R)
      BY <2>3 DEF R
    <3>2. QED
      BY <3>1
  <2> HIDE DEF at, log, R
  <2>5. \A k \in 1..(at - 1) : k \in DOMAIN log
    BY <2>1, <2>4
  <2>6. \A k \in DOMAIN log : log[k].lines \subseteq LinesOf(log)
    BY DEF LinesOf
  <2>7. UNION {log[k].lines : k \in 1..(at - 1)} \subseteq LinesOf(log)
    BY <2>5, <2>6
  <2>8. log[at].lines \subseteq LinesOf(log)
    BY <2>1, <2>6
  <2>9. QED
    BY <2>2, <2>7, <2>8 DEF log
<1>5. QED
  BY <1>3, <1>4

LEMMA ListedIs ==
  ASSUME NEW new, IsFiniteSet(new), NEW listed \in Listed(new)
  PROVE  /\ listed \subseteq new /\ IsFiniteSet(listed)
         /\ new \ listed # {} => Cardinality(listed) = MaxNewLines
<1>1. listed \subseteq new /\ (new \ listed # {} => Cardinality(listed) = MaxNewLines)
  BY DEF Listed
<1>2. QED
  BY <1>1, FS_Subset

(* Whoever is told some lines more, and maybe that there are others. *)
LEMMA StaysFull ==
  ASSUME NEW u, Full(u), NEW listed, IsFiniteSet(listed), NEW rest,
         rest # {} => Cardinality(listed) = MaxNewLines,
         told'[u] = told[u] \union listed, left'[u] = left[u] \union rest
  PROVE  Full(u)'
<1>1. IsFiniteSet(told[u]) /\ IsFiniteSet(told'[u]) /\ MaxNewLines \in Nat
  <2>1. IsFiniteSet(told[u])
    BY DEF Full
  <2>2. IsFiniteSet(told[u] \union listed)
    BY <2>1, FS_Union
  <2>3. MaxNewLines \in Nat
    BY NoticesAssumption
  <2>4. QED
    BY <2>1, <2>2, <2>3
<1>2. /\ Cardinality(told[u]) \in Nat /\ Cardinality(listed) \in Nat /\ Cardinality(told'[u]) \in Nat
      /\ Cardinality(told[u]) <= Cardinality(told'[u]) /\ Cardinality(listed) <= Cardinality(told'[u])
  BY <1>1, FS_CardinalityType, FS_Subset
<1>3. ASSUME left'[u] # {}
      PROVE  Cardinality(told'[u]) >= MaxNewLines
  <2>1. CASE left[u] # {}
    BY <1>1, <1>2, <2>1 DEF Full
  <2>2. CASE rest # {}
    BY <1>1, <1>2, <2>2
  <2>3. QED
    BY <1>3, <2>1, <2>2
<1>4. QED
  BY <1>1, <1>3 DEF Full

(* Steps that tell nobody what is new. *)
LEMMA NoticesKept ==
  ASSUME NoticeInv, UNCHANGED <<seen, told, left, first, noticed, misread>>, build' \in Builds,
         Announcing'.at = "remember" => Announcing' = Announcing /\ build' = build
  PROVE  NoticeInv'
<1>1. \A u \in People : SeenInv(u)' /\ Full(u)'
  BY DEF NoticeInv, SeenInv, Full
<1>2. \A u \in People \ misread' : \A b \in noticed'[u] : Missing(b, u)' = {}
  BY DEF NoticeInv, Missing
<1>3. Announcing'.at = "remember" =>
        /\ Announcing.at = "remember" /\ build' = build
        /\ Person("announce")' = Person("announce")
  BY DEF Announcing, Person
<1>4. QED
  BY <1>1, <1>2, <1>3 DEF NoticeInv

(* Someone is told what is new. *)
LEMMA AnnounceNotices ==
  ASSUME NoticeInv, TasksInv, Announce
  PROVE  NoticeInv'
<1>1. PICK u \in People : u = Person("announce")
  BY SomeoneNotified DEF TasksInv, Placed, Person, Tasks
<1>2. CASE task' = NextPerson("announce") /\ UNCHANGED <<told, left, noticed, misread, build>>
  <2>1. Announcing'.at # "remember"
    BY <1>2, NextPersonIs, NextTurnIs DEF TasksInv, Tasks, Announcing
  <2>2. UNCHANGED <<seen, first>> /\ build \in Builds
    BY DEF Announce, NoticeInv
  <2>3. QED
    BY <1>2, <2>1, <2>2, NoticesKept
<1>3. ASSUME NEW notice \in {seen[u], Never}, NEW listed \in Listed(NewSince(notice)),
             /\ told' = [told EXCEPT ![u] = @ \union listed]
             /\ left' = [left EXCEPT ![u] = @ \union (NewSince(notice) \ listed)]
             /\ noticed' = [noticed EXCEPT ![u] = IF first[u] = 0 THEN @ ELSE @ \union {build}]
             /\ AtNext("announce", "remember")
             /\ IF notice = seen[u] THEN UNCHANGED misread ELSE misread' = misread \union {u}
             /\ build' = build
      PROVE  NoticeInv'
  <2>1. /\ UNCHANGED <<seen, first>> /\ build \in Builds /\ misread \subseteq misread'
        /\ notice # seen[u] => u \in misread'
    BY <1>3 DEF Announce, NoticeInv
  <2> DEFINE new == NewSince(notice)
             rest == new \ listed
  <2>0. /\ listed \subseteq new /\ IsFiniteSet(listed)
        /\ rest # {} => Cardinality(listed) = MaxNewLines
    <3>1. new \subseteq LinesOf(Changelogs[build])
      BY <2>1, NewAreLines
    <3>2. IsFiniteSet(LinesOf(Changelogs[build]))
      BY <2>1, NoticesAssumption
    <3>3. IsFiniteSet(new)
      BY <3>1, <3>2, FS_Subset
    <3>4. PICK n : n = new
      OBVIOUS
    <3>5. IsFiniteSet(n) /\ listed \in Listed(n)
      BY <1>3, <3>3, <3>4
    <3>6. QED
      BY <3>4, <3>5, ListedIs
  <2>2. /\ DOMAIN told' = People /\ DOMAIN left' = People /\ DOMAIN noticed' = People
        /\ told'[u] = told[u] \union listed /\ left'[u] = left[u] \union rest
        /\ noticed'[u] = IF first[u] = 0 THEN noticed[u] ELSE noticed[u] \union {build}
        /\ \A v \in People : v # u => told'[v] = told[v] /\ left'[v] = left[v] /\ noticed'[v] = noticed[v]
    BY <1>3 DEF NoticeInv
  <2> HIDE DEF new, rest
  <2>3. SeenInv(u) /\ (\A v \in People : SeenInv(v) /\ Full(v))
    BY DEF NoticeInv
  <2>4. ASSUME NEW v \in People
        PROVE  SeenInv(v)' /\ Full(v)'
    <3>1. SeenInv(v) /\ noticed[v] \subseteq noticed'[v] /\ noticed'[v] \subseteq Builds /\ (first[v] = 0 => noticed'[v] = noticed[v])
      BY <2>1, <2>2, <2>3 DEF SeenInv
    <3>2. SeenInv(v)'
      BY <2>1, <3>1 DEF SeenInv
    <3>3. CASE v = u
      BY <2>0, <2>2, <2>3, <3>2, <3>3, StaysFull
    <3>4. CASE v # u
      BY <2>2, <2>3, <3>2, <3>4 DEF Full
    <3>5. QED
      BY <3>3, <3>4
  <2>5. ASSUME NEW v \in People \ misread', NEW b \in noticed'[v]
        PROVE  Missing(b, v)' = {}
    <3>1. v \in People \ misread /\ told[v] \subseteq told'[v] /\ left[v] \subseteq left'[v]
      BY <2>1, <2>2, <2>5
    <3>2. CASE b \in noticed[v]
      <4>1. Missing(b, v) = {}
        BY <3>1, <3>2 DEF NoticeInv
      <4>2. QED
        BY <2>1, <3>1, <4>1 DEF Missing
    <3>3. CASE b \notin noticed[v]
      <4>1. v = u /\ b = build /\ first[u] # 0 /\ notice = seen[u]
        BY <2>1, <2>2, <2>5, <3>3
      <4>2. PICK c \in noticed[u] \union {first[u]} : seen[u] = Changelogs[c][1]
        BY <2>3, <4>1 DEF SeenInv
      <4>3. c \in Builds
        BY <2>3, <4>1, <4>2 DEF SeenInv
      <4>4. LinesOf(Changelogs[build]) \subseteq LinesOf(Changelogs[c]) \union new
        BY <2>1, <4>1, <4>2, <4>3, NothingNewLeftOut DEF new
      <4>5. LinesOf(Changelogs[c]) \subseteq LinesOf(Changelogs[first[u]]) \union told[u] \union left[u]
        <5>1. CASE c = first[u]
          BY <5>1
        <5>2. CASE c \in noticed[u]
          <6>1. Missing(c, u) = {}
            BY <3>1, <4>1, <5>2 DEF NoticeInv
          <6>2. QED
            BY <6>1 DEF Missing
        <5>3. QED
          BY <4>2, <5>1, <5>2
      <4>6. LinesOf(Changelogs[build])
              \subseteq LinesOf(Changelogs[first'[u]]) \union told'[u] \union left'[u]
        BY <2>1, <2>2, <4>4, <4>5 DEF rest
      <4>7. QED
        BY <4>1, <4>6 DEF Missing
    <3>4. QED
      BY <3>2, <3>3
  <2>6. Person("announce")' = u
    <3>1. Announcing'.person = Announcing.person
      BY <1>3 DEF AtNext, TasksInv, Placed, Tasks, Fields, Announcing
    <3>2. QED
      BY <1>1, <3>1 DEF Person, Announcing
  <2>7. LET w == Person("announce")' IN first'[w] # 0 => build' \in noticed'[w]
    BY <1>3, <2>1, <2>2, <2>6
  <2>8. QED
    BY <1>3, <2>1, <2>2, <2>4, <2>5, <2>7 DEF NoticeInv
<1>4. QED
  BY <1>1, <1>2, <1>3 DEF Announce, Stay, Fault, processVars

(* It is remembered, or not. *)
LEMMA RememberNotices ==
  ASSUME NoticeInv, TasksInv, RememberNotice
  PROVE  NoticeInv'
<1>1. PICK u \in People : u = Person("announce")
  BY SomeoneNotified DEF TasksInv, Placed, Person, Tasks
<1>2. /\ Announcing'.at # "remember" /\ Announcing.at = "remember"
      /\ UNCHANGED <<told, left, noticed, misread, build>> /\ build \in Builds
  BY NextPersonIs, NextTurnIs
     DEF RememberNotice, On, Stay, Fault, processVars, TasksInv, Tasks, Announcing, NoticeInv
<1>3. CASE UNCHANGED <<seen, first>>
  BY <1>2, <1>3, NoticesKept
<1>4. CASE /\ seen' = [seen EXCEPT ![u] = Current]
           /\ first' = [first EXCEPT ![u] = IF @ = 0 THEN build ELSE @]
  <2>1. /\ DOMAIN seen' = People /\ DOMAIN first' = People
        /\ seen'[u] = Changelogs[build][1] /\ first'[u] = IF first[u] = 0 THEN build ELSE first[u]
        /\ \A v \in People : v # u => seen'[v] = seen[v] /\ first'[v] = first[v]
    BY <1>4 DEF NoticeInv, Current
  <2>2. /\ \A v \in People : SeenInv(v) /\ Full(v)
        /\ first[u] # 0 => build \in noticed[u]
    BY <1>1, <1>2 DEF NoticeInv
  <2>3. build \in Nat /\ build # 0
    <3>1. IsFiniteSet(Builds) /\ Builds = 1..Cardinality(Builds)
      BY ProcessAssumption
    <3>2. Cardinality(Builds) \in Nat
      BY <3>1, FS_CardinalityType
    <3>3. QED
      BY <1>2, <3>1, <3>2
  <2>4. ASSUME NEW v \in People
        PROVE  SeenInv(v)' /\ Full(v)'
    <3>0. Full(v)'
      BY <1>2, <2>2 DEF Full
    <3>1. CASE v # u
      BY <1>2, <2>1, <2>2, <3>0, <3>1 DEF SeenInv
    <3>2. CASE v = u
      <4>1. /\ first'[u] \in Builds /\ first'[u] # 0 /\ noticed'[u] \subseteq Builds
            /\ build \in noticed'[u] \union {first'[u]}
        BY <1>2, <2>1, <2>2, <2>3 DEF SeenInv
      <4>2. QED
        BY <2>1, <3>0, <3>2, <4>1 DEF SeenInv
    <3>3. QED
      BY <3>1, <3>2
  <2>5. ASSUME NEW v \in People \ misread', NEW b \in noticed'[v]
        PROVE  Missing(b, v)' = {}
    <3>1. first'[v] = first[v]
      BY <1>2, <2>1, <2>2, <2>5 DEF SeenInv
    <3>2. Missing(b, v) = {}
      BY <1>2, <2>5 DEF NoticeInv
    <3>3. QED
      BY <1>2, <3>1, <3>2 DEF Missing
  <2>6. QED
    BY <1>2, <2>1, <2>4, <2>5 DEF NoticeInv
<1>5. QED
  BY <1>1, <1>3, <1>4 DEF RememberNotice

(* The steps of the tasks that are about neither.                              *)
LEMMA NotifyKeepsNotices ==
  ASSUME NoticeInv, TasksInv, Notify \/ Raise
  PROVE  NoticeInv'
<1>1. "announce" \in Tasks /\ DOMAIN task = Tasks /\ build \in Builds
  BY DEF TasksInv, Tasks, NoticeInv
<1>2. ASSUME NEW t \in Tasks, NEW record, record.at # "remember", task' = [task EXCEPT ![t] = record],
             UNCHANGED <<seen, told, left, first, noticed, misread, build>>
      PROVE  NoticeInv'
  <2>1. Announcing' = IF t = "announce" THEN record ELSE Announcing
    BY <1>1, <1>2 DEF Announcing
  <2>2. QED
    BY <1>1, <1>2, <2>1, NoticesKept
<1>3. ASSUME NEW t \in Tasks, FindRoom(t) \/ CreateRoom(t) \/ RecordRoom(t) \/ SendAlert(t)
      PROVE  NoticeInv'
  <2>1. UNCHANGED <<seen, told, left, first, noticed, misread, build>>
    BY <1>3 DEF FindRoom, CreateRoom, RecordRoom, SendAlert, Use, notices, Stay, Fault, processVars
  <2>2. Placed(task[t]) /\ NextTurn(t).at # "remember"
    BY NextTurnIs DEF TasksInv
  <2>3. \/ task' = NextPerson(t)
        \/ AtNext(t, "create")
        \/ \E at \in {"record", "send"} : \E r :
             task' = [task EXCEPT ![t] = [task[t] EXCEPT !.at = at, !.room = r]]
    BY <1>3 DEF FindRoom, CreateRoom, RecordRoom, SendAlert, Use
  <2>4. CASE task' = NextPerson(t)
    BY <1>2, <2>1, <2>2, <2>4, NextPersonIs
  <2>5. CASE AtNext(t, "create")
    <3>1. /\ task' = [task EXCEPT ![t] = [task[t] EXCEPT !.at = "create"]]
          /\ [task[t] EXCEPT !.at = "create"].at = "create"
      BY <2>2, <2>5 DEF AtNext, Placed, Fields
    <3>2. QED
      BY <1>2, <2>1, <3>1
  <2>6. ASSUME NEW at \in {"record", "send"}, NEW r,
               task' = [task EXCEPT ![t] = [task[t] EXCEPT !.at = at, !.room = r]]
        PROVE  NoticeInv'
    <3>1. [task[t] EXCEPT !.at = at, !.room = r].at = at
      BY <2>2 DEF Placed, Fields
    <3>2. QED
      BY <1>2, <2>1, <2>6, <3>1
  <2>7. QED
    BY <2>3, <2>4, <2>5, <2>6
<1>4. CASE Announce
  BY <1>4, AnnounceNotices
<1>5. CASE RememberNotice
  BY <1>5, RememberNotices
<1>6. CASE TakeAlert
  <2>1. UNCHANGED <<seen, told, left, first, noticed, misread, build>> /\ "deliver" \in Tasks
    BY <1>6 DEF TakeAlert, notices, alerts, Stay, processVars, Tasks
  <2>2. /\ task' = [task EXCEPT !["deliver"] = [Off EXCEPT !.at = "find", !.alert = Head(queue)]]
        /\ [Off EXCEPT !.at = "find", !.alert = Head(queue)].at = "find"
    BY <1>6 DEF TakeAlert, Off
  <2>3. QED
    BY <1>2, <2>1, <2>2
<1>7. CASE Raise
  BY <1>1, <1>7, NoticesKept DEF Raise, Event, Announcing, notices
<1>8. QED
  BY <1>3, <1>4, <1>5, <1>6, <1>7 DEF Notify

LEMMA BuildKept ==
  ASSUME GetReady \/ Operator \/ Inviting \/ Rooming \/ Serving \/ UNCHANGED vars
  PROVE  build' = build
<1>1. CASE GetReady
  <2>1. SessionStep => build' = build
    BY DEF SessionStep, LoadSession, LoadDevice, SaveDevice, Login, TruncateSession, SaveSession, Enter
  <2>2. OpenDatabase => build' = build
    BY DEF OpenDatabase, Migrate, Skip, ImportMessages, ImportReactions, ImportMemory, ImportUsage,
           Importing, Opened, Enter, Stay, processVars
  <2>3. JoinConfigured => build' = build
    BY DEF JoinConfigured, Enter
  <2>4. QED
    BY <1>1, <2>1, <2>2, <2>3 DEF GetReady
<1>2. Operator \/ Serving => build' = build
  BY DEF Operator, RemoveSession, Serving, Serve, Stay, Event, processVars
<1>3. Inviting \/ Rooming => build' = build
  BY DEF Inviting, Invite, Rooming, ReceiveInvite, Decline, Record, TryJoin, Stay, Event, processVars
<1>4. UNCHANGED vars => build' = build
  BY DEF vars, processVars
<1>5. QED
  BY <1>1, <1>2, <1>3, <1>4

LEMMA StepKeepsNotices == TasksInv /\ NoticeInv /\ [Next]_vars => NoticeInv'
<1> SUFFICES ASSUME TasksInv, NoticeInv, [Next]_vars
             PROVE  NoticeInv'
  OBVIOUS
<1>1. build \in Builds /\ "announce" \in Tasks /\ DOMAIN task = Tasks
  BY DEF NoticeInv, TasksInv, Tasks
<1>2. CASE Notifying
  BY <1>2, NotifyKeepsNotices DEF Notifying
<1>3. CASE Sync
  <2>1. UNCHANGED <<seen, told, left, first, noticed, misread, build>> /\ Announcing'.at = "find"
    BY <1>1, <1>3 DEF Sync, StartNotices, notices, alerts, Enter, Announcing, Off
  <2>2. QED
    BY <1>1, <2>1, NoticesKept
<1>4. CASE StopSyncing
  <2>1. UNCHANGED <<seen, told, left, first, noticed, misread>>
    BY <1>4 DEF StopSyncing, notices
  <2>2. task'["announce"] = task["announce"] /\ build' = build
    BY <1>1, <1>4 DEF StopSyncing
  <2>3. QED
    BY <1>1, <2>1, <2>2, NoticesKept DEF Announcing
<1>5. CASE Exit \/ Crash
  <2>1. UNCHANGED <<seen, told, left, first, noticed, misread, build>> /\ Announcing'.at = "off"
    BY <1>5 DEF Exit, Crash, Enter, Die, DropAll, DropNotices, Announcing, Off, Tasks, notices
  <2>2. QED
    BY <1>1, <2>1, NoticesKept
<1>6. CASE Restart
  <2>1. UNCHANGED <<seen, told, left, first, noticed, misread>> /\ Announcing' = Announcing /\ ~Up /\ build' \in Builds
    BY <1>1, <1>6 DEF Restart, Start, Deploy, Enter, At, Up, noticesVars, Announcing
  <2>2. Announcing.at = "off"
    BY <1>1, <2>1 DEF TasksInv, Announcing
  <2>3. QED
    BY <2>1, <2>2, NoticesKept
<1>7. CASE GetReady \/ Operator \/ Inviting \/ Rooming \/ Serving \/ UNCHANGED vars
  <2>1. UNCHANGED noticesVars
    BY <1>7 DEF GetReady, Operator, Inviting, Rooming, Serving, vars
  <2>2. UNCHANGED <<seen, told, left, first, noticed, misread>> /\ Announcing' = Announcing
    BY <2>1 DEF noticesVars, Announcing
  <2>3. build' = build
    BY <1>7, BuildKept
  <2>4. QED
    BY <1>1, <2>2, <2>3, NoticesKept
<1>8. QED
  BY <1>2, <1>3, <1>4, <1>5, <1>6, <1>7 DEF Next

LEMMA NoticesStart == Init => NoticeInv
<1> SUFFICES ASSUME Init
             PROVE  NoticeInv
  OBVIOUS
<1>1. /\ task = [t \in Tasks |-> Off] /\ build = 1
      /\ seen = [u \in People |-> Never] /\ told = [u \in People |-> {}] /\ left = [u \in People |-> {}]
      /\ first = [u \in People |-> 0] /\ noticed = [u \in People |-> {}]
  BY DEF Init, ProcessInit, NoticesInit
<1>2. build \in Builds
  <2>1. IsFiniteSet(Builds) /\ Builds # {} /\ Builds = 1..Cardinality(Builds)
    BY ProcessAssumption
  <2>2. Cardinality(Builds) \in Nat
    BY <2>1, FS_CardinalityType
  <2>3. QED
    BY <1>1, <2>1, <2>2
<1>3. \A u \in People : SeenInv(u) /\ Full(u)
  BY <1>1, FS_EmptySet DEF SeenInv, Full
<1>4. Announcing.at # "remember"
  BY <1>1 DEF Announcing, Tasks, Off
<1>5. QED
  BY <1>1, <1>2, <1>3, <1>4 DEF NoticeInv

(* For any builds, however they are deployed, and any changelogs that only     *)
(* grow: whoever's notices were remembered was told every line that builds     *)
(* noticed since have added, or in a full notice that there are more, unless   *)
(* what they had seen could not be read.                                       *)
THEOREM NothingIsMissed == Spec => []NothingMissed
<1> DEFINE I == TasksInv /\ NoticeInv
<1>1. Init => I
  BY InvitesStart, NoticesStart
<1>2. I /\ [Next]_vars => I'
  BY StepKeepsTasks, StepKeepsNotices
<1>3. I => NothingMissed
  <2> SUFFICES ASSUME NoticeInv, NEW u \in People
               PROVE  /\ u \notin misread =>
                           \A b \in noticed[u] :
                             LinesOf(Changelogs[b]) \ LinesOf(Changelogs[first[u]])
                               \subseteq told[u] \union left[u]
                      /\ left[u] # {} => Cardinality(told[u]) >= MaxNewLines
    BY DEF NothingMissed
  <2>1. ASSUME u \notin misread, NEW b \in noticed[u]
        PROVE  LinesOf(Changelogs[b]) \ LinesOf(Changelogs[first[u]]) \subseteq told[u] \union left[u]
    <3>1. Missing(b, u) = {}
      BY <2>1 DEF NoticeInv
    <3>2. QED
      BY <3>1 DEF Missing
  <2>2. left[u] # {} => Cardinality(told[u]) >= MaxNewLines
    BY DEF NoticeInv, Full
  <2>3. QED
    BY <2>1, <2>2
<1>4. QED
  BY <1>1, <1>2, <1>3, PTL DEF Spec

-----------------------------------------------------------------------------
(* The types                                                                   *)

(* What is counted of whatever happens. *)
CountsInv ==
  /\ stage \in Stages /\ faults \in 0..MaxFaults /\ events \in 0..MaxEvents
  /\ spent \in 0..events /\ raised \in 0..events

LEMMA CountsKept ==
  ASSUME CountsInv, stage' \in Stages,
         \/ UNCHANGED <<faults, events>>
         \/ faults < MaxFaults /\ faults' = faults + 1 /\ events' = events
         \/ events < MaxEvents /\ events' = events + 1 /\ faults' = faults,
         spent' = spent \/ (spent' = spent + 1 /\ events' = events + 1),
         raised' = raised \/ (raised' = raised + 1 /\ events' = events + 1) \/ raised' = 0
  PROVE  CountsInv'
<1>1. /\ faults \in Nat /\ events \in Nat /\ spent \in Nat /\ raised \in Nat /\ MaxFaults \in Nat /\ MaxEvents \in Nat
      /\ faults <= MaxFaults /\ events <= MaxEvents /\ spent <= events /\ raised <= events
  BY ProcessAssumption DEF CountsInv
<1>2. /\ faults' \in Nat /\ faults' <= MaxFaults /\ events' \in Nat /\ events' <= MaxEvents
  BY <1>1
<1>3. spent' \in Nat /\ spent' <= events' /\ raised' \in Nat /\ raised' <= events'
  BY <1>1
<1>4. QED
  BY <1>1, <1>2, <1>3 DEF CountsInv

(* Steps that raise no alert and spend nothing. *)
LEMMA CountsStay ==
  ASSUME CountsInv, UNCHANGED <<spent, raised>>, stage' \in Stages,
         \/ UNCHANGED <<faults, events>>
         \/ faults < MaxFaults /\ faults' = faults + 1 /\ events' = events
         \/ events < MaxEvents /\ events' = events + 1 /\ faults' = faults
  PROVE  CountsInv'
  BY CountsKept

LEMMA OpenKeepsCounts ==
  ASSUME CountsInv, OpenDatabase, raised' = raised
  PROVE  CountsInv'
<1>1. stage' \in Stages
  BY DatabaseStages DEF Stages
<1>2. UNCHANGED <<faults, events, spent>>
  <2>1. CASE Migrate
    BY <2>1 DEF Migrate, Enter, Stay, processVars
  <2>2. CASE Skip
    BY <2>2 DEF Skip, Stay, processVars, tables
  <2>3. CASE ImportMessages \/ ImportReactions \/ ImportMemory \/ ImportUsage
    BY <2>3 DEF ImportMessages, ImportReactions, ImportMemory, ImportUsage, Importing, Stay, processVars
  <2>4. CASE Opened
    BY <2>4 DEF Opened, Enter, tables
  <2>5. QED
    BY <2>1, <2>2, <2>3, <2>4 DEF OpenDatabase
<1>3. QED
  BY <1>1, <1>2, CountsStay

LEMMA NotifyKeepsCounts ==
  ASSUME CountsInv, Notifying
  PROVE  CountsInv'
<1>1. stage' \in Stages /\ spent' = spent
  BY StageKept DEF Notifying, CountsInv, importVars, tables
<1>2. ASSUME NEW t \in Tasks, FindRoom(t) \/ CreateRoom(t) \/ RecordRoom(t) \/ SendAlert(t)
      PROVE  CountsInv'
  <2>1. raised' = raised
    BY <1>2 DEF FindRoom, CreateRoom, RecordRoom, SendAlert, alerts
  <2>2. UNCHANGED <<faults, events>> \/ Fault
    BY <1>2 DEF FindRoom, CreateRoom, RecordRoom, SendAlert, Use, Stay, processVars
  <2>3. QED
    BY <1>1, <2>1, <2>2, CountsStay DEF Fault
<1>3. CASE Announce \/ RememberNotice \/ TakeAlert
  <2>1. raised' = raised
    BY <1>3 DEF Announce, RememberNotice, TakeAlert, notices, alerts
  <2>2. UNCHANGED <<faults, events>> \/ Fault
    BY <1>3 DEF Announce, RememberNotice, TakeAlert, Stay, processVars
  <2>3. QED
    BY <1>1, <2>1, <2>2, CountsStay DEF Fault
<1>4. CASE Raise
  BY <1>1, <1>4, CountsKept DEF Raise, Event
<1>5. QED
  BY <1>2, <1>3, <1>4 DEF Notifying, Notify

LEMMA StepKeepsCounts == CountsInv /\ [Next]_vars => CountsInv'
<1> SUFFICES ASSUME CountsInv, [Next]_vars
             PROVE  CountsInv'
  OBVIOUS
<1>1. CASE Restart
  BY <1>1, CountsStay DEF Restart, Start, Deploy, Enter, CountsInv, Stages, importVars, tables, noticesVars
<1>2. CASE GetReady
  <2>1. CASE SessionStep /\ UNCHANGED <<spent, raised>>
    <3>1. UNCHANGED <<faults, events>> /\ stage' \in Stages
      BY <2>1 DEF SessionStep, LoadSession, LoadDevice, SaveDevice, Login, TruncateSession, SaveSession,
                  Enter, Stages
    <3>2. QED
      BY <2>1, <3>1, CountsStay
  <2>2. CASE JoinConfigured /\ UNCHANGED <<spent, raised>>
    BY <2>2, CountsStay DEF JoinConfigured, Enter, Stages
  <2>3. QED
    BY <1>2, <2>1, <2>2, OpenKeepsCounts DEF GetReady, importVars, tables, noticesVars
<1>3. CASE Sync
  BY <1>3, CountsStay DEF Sync, Enter, Stages, importVars, tables, notices, alerts
<1>4. CASE StopSyncing
  BY <1>4, CountsStay DEF StopSyncing, Fault, Stages, importVars, tables, notices, alerts
<1>5. CASE Exit \/ Crash
  <2>1. stage' = "down" /\ raised' = 0 /\ spent' = spent
    BY <1>5 DEF Exit, Crash, Enter, Die, DropAll, DropNotices, CloseDatabase, tables
  <2>2. \/ UNCHANGED <<faults, events>>
        \/ faults < MaxFaults /\ faults' = faults + 1 /\ events' = events
    BY <1>5 DEF Exit, Crash, Enter, Die, Fault
  <2>3. QED
    BY <2>1, <2>2, CountsKept DEF Stages
<1>6. CASE Operator \/ Inviting \/ Rooming
  <2>1. UNCHANGED <<stage, spent, raised>>
    BY <1>6, StageKept DEF Operator, RemoveSession, Stay, processVars, Inviting, Rooming, importVars, tables, noticesVars
  <2>2. UNCHANGED <<faults, events>> \/ Fault \/ Event
    BY <1>6 DEF Operator, RemoveSession, Inviting, Invite, Rooming, ReceiveInvite, Decline, Record, TryJoin,
                Stay, processVars
  <2>3. QED
    BY <2>1, <2>2, CountsStay DEF Fault, Event, CountsInv
<1>7. CASE Notifying
  BY <1>7, NotifyKeepsCounts
<1>8. CASE Serving
  BY <1>8, CountsKept DEF Serving, Serve, Event, noticesVars, CountsInv
<1>9. CASE UNCHANGED vars
  BY <1>9, CountsStay DEF vars, processVars, importVars, tables, noticesVars, CountsInv
<1>10. QED
  BY <1>1, <1>2, <1>3, <1>4, <1>5, <1>6, <1>7, <1>8, <1>9 DEF Next

(* What is in the database. *)
RoomFor(room) == FactsIn(room) \subseteq LegacyFacts \/ Cardinality(FactsIn(room)) <= MaxFacts

StoreInv ==
  /\ step \in 0..(Len(Sources) + 1) /\ imports \subseteq {Sources[n] : n \in DOMAIN Sources}
  /\ IsFiniteSet(facts) /\ \A f \in facts : f.id \in Nat \ {0}
  /\ \A room \in FactRooms : RoomFor(room)

LEMMA StoreKept ==
  ASSUME StoreInv, UNCHANGED <<imports, facts>>, step' = step \/ step' = 0
  PROVE  StoreInv'
<1>1. Len(Sources) \in Nat
  BY SourcesAre
<1>2. QED
  BY <1>1 DEF StoreInv, RoomFor, FactsIn

(* One more source is passed over, or imported. *)
LEMMA SourcePassed ==
  ASSUME StoreInv, step \in DOMAIN Sources, step' = step + 1,
         imports' \in {imports, imports \union {Source}}
  PROVE  /\ step' \in 0..(Len(Sources) + 1) /\ imports' \subseteq {Sources[n] : n \in DOMAIN Sources}
<1>1. Len(Sources) \in Nat /\ step \in 1..Len(Sources)
  BY SourcesAre
<1>2. Source \in {Sources[n] : n \in DOMAIN Sources}
  BY DEF Source
<1>3. QED
  BY <1>1, <1>2 DEF StoreInv

LEMMA OpenKeepsStore ==
  ASSUME ImportInv, StoreInv, OpenDatabase
  PROVE  StoreInv'
<1>0. Len(Sources) \in Nat
  BY SourcesAre
<1>1. CASE Migrate
  <2>1. UNCHANGED <<imports, facts>> /\ (step' = step \/ step' = 1)
    BY <1>1 DEF Migrate, factsVars
  <2>2. QED
    BY <1>0, <2>1 DEF StoreInv, RoomFor, FactsIn
<1>2. CASE Skip \/ ImportMessages \/ ImportReactions \/ ImportUsage
  <2>1. /\ step \in DOMAIN Sources /\ step' = step + 1 /\ imports' \in {imports, imports \union {Source}}
        /\ facts' = facts
    BY <1>2 DEF Skip, ImportMessages, ImportReactions, ImportUsage, Importing, Once, tables, factsVars
  <2>2. QED
    BY <2>1, SourcePassed DEF StoreInv, RoomFor, FactsIn
<1>3. CASE ImportMemory
  <2>1. /\ step \in DOMAIN Sources /\ step' = step + 1 /\ imports' = imports \union {Source}
        /\ Source \notin imports /\ Source[1] = "memory" /\ ImportFacts(LegacyFacts, NextFact)
    BY <1>3 DEF ImportMemory, Importing, Once
  <2>2. Source = <<"memory", 1>>
    BY <2>1, SourcesAre DEF Source
  <2>3. facts = {}
    BY <2>1, <2>2 DEF ImportInv, FactsKept, Done
  <2>4. facts' = LegacyFacts
    BY <2>1, <2>3 DEF ImportFacts
  <2>5. IsFiniteSet(facts') /\ \A f \in facts' : f.id \in Nat \ {0}
    BY <2>4, ImportAssumption
  <2>6. \A room \in FactRooms : RoomFor(room)'
    BY <2>4 DEF RoomFor, FactsIn
  <2>7. QED
    BY <2>1, <2>5, <2>6, SourcePassed DEF StoreInv
<1>4. CASE Opened
  BY <1>4, StoreKept DEF Opened, tables, factsVars
<1>5. QED
  BY <1>1, <1>2, <1>3, <1>4 DEF OpenDatabase

(* A room that has fewer facts than it may have gets one more at most. *)
LEMMA ServeKeepsStore ==
  ASSUME ImportInv, StoreInv, Serve
  PROVE  StoreInv'
<1>1. UNCHANGED <<step, imports>> /\ IsFiniteSet(facts) /\ lastNumber \in Nat
  BY DEF Serve, StoreInv, ImportInv, FactsKept
<1>2. ASSUME NEW room \in FactRooms, Remember(room)
      PROVE  StoreInv'
  <2> DEFINE new == [id |-> lastNumber + 1, room |-> room]
  <2>1. facts' = facts \union {new} /\ Cardinality(FactsIn(room)) < MaxFacts
    BY <1>2 DEF Remember
  <2>2. new.id \in Nat \ {0} /\ new.room = room
    BY <1>1
  <2> HIDE DEF new
  <2>3. IsFiniteSet(facts') /\ \A f \in facts' : f.id \in Nat \ {0}
    BY <1>1, <2>1, <2>2, FS_AddElement DEF StoreInv
  <2>4. ASSUME NEW other \in FactRooms
        PROVE  RoomFor(other)'
    <3>1. CASE other # room
      <4>1. FactsIn(other)' = FactsIn(other)
        BY <2>1, <2>2, <3>1 DEF FactsIn
      <4>2. QED
        BY <4>1 DEF StoreInv, RoomFor
    <3>2. CASE other = room
      <4>1. FactsIn(room)' = FactsIn(room) \union {new}
        BY <2>1, <2>2 DEF FactsIn
      <4>2. IsFiniteSet(FactsIn(room)) /\ Cardinality(FactsIn(room)) \in Nat
        BY <1>1, FS_Subset, FS_CardinalityType DEF FactsIn
      <4>3. Cardinality(FactsIn(room) \union {new}) \in {Cardinality(FactsIn(room)), Cardinality(FactsIn(room)) + 1}
        BY <4>2, FS_AddElement
      <4>4. Cardinality(FactsIn(room)') <= MaxFacts
        BY <2>1, <4>1, <4>2, <4>3, FactsAssumption
      <4>5. QED
        BY <3>2, <4>4 DEF RoomFor
    <3>3. QED
      BY <3>1, <3>2
  <2>5. QED
    BY <1>1, <2>3, <2>4 DEF StoreInv
<1>3. ASSUME NEW f \in facts, Forget(f.room, f.id)
      PROVE  StoreInv'
  <2>1. facts' \subseteq facts
    BY <1>3 DEF Forget
  <2>2. IsFiniteSet(facts')
    BY <1>1, <2>1, FS_Subset
  <2>3. ASSUME NEW room \in FactRooms
        PROVE  RoomFor(room)'
    <3>1. FactsIn(room)' \subseteq FactsIn(room) /\ IsFiniteSet(FactsIn(room)) /\ RoomFor(room)
      BY <1>1, <2>1, FS_Subset DEF FactsIn, StoreInv
    <3>2. /\ Cardinality(FactsIn(room)') <= Cardinality(FactsIn(room))
          /\ Cardinality(FactsIn(room)') \in Nat /\ Cardinality(FactsIn(room)) \in Nat
      BY <3>1, FS_Subset, FS_CardinalityType
    <3>3. QED
      BY <3>1, <3>2, FactsAssumption DEF RoomFor
  <2>4. QED
    BY <1>1, <2>1, <2>2, <2>3 DEF StoreInv
<1>4. QED
  BY <1>2, <1>3 DEF Serve

LEMMA StepKeepsStore == ImportInv /\ StoreInv /\ [Next]_vars => StoreInv'
<1> SUFFICES ASSUME ImportInv, StoreInv, [Next]_vars
             PROVE  StoreInv'
  OBVIOUS
<1>1. CASE UNCHANGED importVars
  BY <1>1, StoreKept DEF importVars, tables, factsVars
<1>2. CASE Exit \/ Crash
  BY <1>2, StoreKept DEF Exit, Crash, DropAll, CloseDatabase, tables, factsVars
<1>3. CASE GetReady
  BY <1>1, <1>3, OpenKeepsStore DEF GetReady
<1>4. CASE Serving
  BY <1>4, ServeKeepsStore DEF Serving
<1>5. CASE Restart \/ Sync \/ StopSyncing \/ Operator \/ Inviting \/ Rooming \/ Notifying \/ UNCHANGED vars
  <2>1. UNCHANGED importVars
    BY <1>5 DEF Restart, Sync, StopSyncing, Operator, Inviting, Rooming, Notifying, vars
  <2>2. QED
    BY <1>1, <2>1
<1>6. QED
  BY <1>2, <1>3, <1>4, <1>5 DEF Next

LEMMA StepKeepsCame == Answering /\ cameBy \subseteq Rooms /\ [Next]_vars => (cameBy \subseteq Rooms)'
<1> SUFFICES ASSUME Answering, cameBy \subseteq Rooms, [Next]_vars
             PROVE  cameBy' \subseteq Rooms
  OBVIOUS
<1>1. CASE Rooming
  <2>1. PICK i \in DOMAIN invites : ReceiveInvite(i) \/ Decline(i) \/ Record(i) \/ TryJoin(i)
    BY <1>1 DEF Rooming
  <2>2. cameBy' \subseteq cameBy \union {invites[i].room}
    BY <2>1 DEF ReceiveInvite, Decline, Record, TryJoin
  <2>3. QED
    BY <2>2, InviteIs
<1>2. CASE Inviting
  BY <1>2 DEF Inviting, Invite
<1>3. CASE JoinConfigured
  BY <1>3 DEF JoinConfigured
<1>4. CASE Restart \/ GetReady \/ Sync \/ StopSyncing \/ Exit \/ Crash \/ Operator \/ Notifying \/ Serving
           \/ UNCHANGED vars
  <2>1. cameBy' = cameBy
    BY <1>3, <1>4 DEF Restart, GetReady, Sync, StopSyncing, Exit, Crash, DropAll, Operator, Notifying, Serving,
                      JoinConfigured, vars, roomsVars
  <2>2. QED
    BY <2>1
<1>5. QED
  BY <1>1, <1>2, <1>4 DEF Next

(* All of it together. *)
IInv ==
  /\ DeviceInv /\ ImportInv /\ PrivateInv /\ TasksInv /\ RoomsMadeInv /\ InviteInv /\ NoticeInv
  /\ CountsInv /\ StoreInv /\ cameBy \subseteq Rooms

LEMMA Starts == Init => IInv
<1> SUFFICES ASSUME Init
             PROVE  IInv
  OBVIOUS
<1>1. DeviceInv
  BY SessionAssumption DEF Init, ProcessInit, SessionInit, DeviceInv, SessionOK, LoggedIn
<1>2. CountsInv
  BY ProcessAssumption DEF Init, ProcessInit, ImportInit, NoticesInit, CountsInv, Stages
<1>3. StoreInv
  <2>1. step = 0 /\ imports = {} /\ facts = {} /\ Len(Sources) \in Nat
    BY SourcesAre DEF Init, ImportInit
  <2>2. \A room \in FactRooms : FactsIn(room) = {}
    BY <2>1 DEF FactsIn
  <2>3. QED
    BY <2>1, <2>2, FS_EmptySet DEF StoreInv, RoomFor
<1>4. cameBy \subseteq Rooms
  BY DEF Init, RoomsInit
<1>5. QED
  BY <1>1, <1>2, <1>3, <1>4, ImportStarts, InvitesStart, NoticesStart DEF IInv

LEMMA StepKeepsAll == IInv /\ [Next]_vars => IInv'
<1> SUFFICES ASSUME IInv, [Next]_vars
             PROVE  IInv'
  OBVIOUS
<1>1. DeviceInv' /\ ImportInv' /\ PrivateInv' /\ TasksInv' /\ RoomsMadeInv'
  BY StepKeepsDevice, StepKeepsImport, StepKeepsPrivate, StepKeepsTasks, StepKeepsRooms DEF IInv
<1>2. InviteInv' /\ NoticeInv' /\ CountsInv' /\ StoreInv'
  BY StepKeepsInvites, StepKeepsNotices, StepKeepsCounts, StepKeepsStore DEF IInv
<1>3. cameBy' \subseteq Rooms
  BY StepKeepsCame DEF IInv, InviteInv
<1>4. QED
  BY <1>1, <1>2, <1>3 DEF IInv

(* For any constants: every part of the bot's state is of its type, the        *)
(* counts are within their bounds, and no room has more facts than it may      *)
(* have, unless the file it had them in did.                                   *)
THEOREM LifecycleIsTyped == Spec => []TypeOK
<1>1. IInv => TypeOK
  <2> SUFFICES ASSUME IInv
               PROVE  TypeOK
    OBVIOUS
  <2>1. ProcessOK
    BY DEF IInv, CountsInv, NoticeInv, ProcessOK
  <2>2. SessionOK
    BY DEF IInv, DeviceInv
  <2>3. ImportOK
    <3>1. schema \in Nat /\ usage \in Nat
      BY ImportAssumption DEF IInv, ImportInv, Migrated, TotalKept
    <3>2. spent \in 0..MaxEvents
      BY ProcessAssumption DEF IInv, CountsInv
    <3>3. step # 0 => At("database")
      BY DEF IInv, ImportInv, InOrder, At
    <3>4. QED
      BY <3>1, <3>2, <3>3 DEF IInv, StoreInv, RoomFor, ImportOK
  <2>4. FactsOK
    <3>1. /\ facts \subseteq [id : Nat, room : FactRooms] /\ lastNumber \in Nat
          /\ \A f \in facts : f.id <= lastNumber /\ f.id \in Nat \ {0}
      BY DEF IInv, ImportInv, FactsKept, StoreInv
    <3>2. QED
      BY <3>1 DEF FactsOK
  <2>5. RoomsOK
    <3>1. membership \in [Rooms -> {"out", "invited", "joined"}] /\ cameBy \subseteq Rooms
      BY DEF IInv, InviteInv, MembersRight
    <3>2. /\ invites \in Seq([room : Rooms, by : Inviters])
          /\ answering \in Seq(Progress) /\ DOMAIN answering = DOMAIN invites
      BY DEF IInv, InviteInv, Answering
    <3>3. Len(answering) = Len(invites)
      BY <3>2
    <3>4. \A i \in DOMAIN answering : answering[i] \in Progress
      BY <3>2
    <3>5. QED
      BY <3>1, <3>2, <3>3, <3>4 DEF RoomsOK, Progress, JoinAttempts
  <2>6. NoticesOK
    <3>1. raised \in 0..MaxEvents
      BY ProcessAssumption DEF IInv, CountsInv
    <3>2. \A u \in People : noticed[u] \subseteq Builds
      BY DEF IInv, NoticeInv, SeenInv
    <3>3. QED
      BY <3>1, <3>2 DEF IInv, TasksInv, Placed, NoticesOK
  <2>7. QED
    BY <2>1, <2>2, <2>3, <2>4, <2>5, <2>6 DEF TypeOK
<1>2. QED
  BY <1>1, Starts, StepKeepsAll, PTL DEF Spec
=============================================================================
