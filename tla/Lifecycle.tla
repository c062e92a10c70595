------------------------------- MODULE Lifecycle -------------------------------
(****************************************************************************)
(* The bot from one start to the next: Bot::new and Bot::run of src/bot.rs,  *)
(* and what they set going. Composes the session, the database and its       *)
(* import, the private rooms, and the notices and alerts, all of one process *)
(* that may end at any point and is started again.                           *)
(****************************************************************************)
EXTENDS Session, LegacyImport, Notices

vars == <<processVars, sessionVars, importVars, roomsVars, noticesVars>>

Init == ProcessInit /\ SessionInit /\ ImportInit /\ RoomsInit /\ NoticesInit

(* A start of a new session, or of one that was restored, up to the rooms.   *)
GetReady ==
  \/ SessionStep /\ UNCHANGED <<importVars, roomsVars, noticesVars>>
  \/ OpenDatabase /\ UNCHANGED <<sessionVars, roomsVars, noticesVars>>
  \/ JoinConfigured /\ UNCHANGED <<sessionVars, importVars, noticesVars>>

(* run: the first sync, without handlers; then the handlers, the invites     *)
(* that wait, the start notice and the alerts.                               *)
Sync ==
  /\ At("sync") /\ Enter("running")
  /\ AnswerPendingInvites /\ StartNotices
  /\ UNCHANGED <<sessionVars, importVars, membership, invites, direct, made, cameBy>>
  /\ UNCHANGED <<alerts, notices, missed, lapses>>

(* The sync loop ends, which is told before the process ends.                *)
StopSyncing ==
  /\ At("running") /\ stage' = "stopping" /\ Fault /\ UNCHANGED build
  /\ task' = [task EXCEPT !["last"] = [Off EXCEPT !.at = "find"]]
  /\ UNCHANGED <<sessionVars, importVars, roomsVars, alerts, notices, missed, lapses>>

DropAll ==
  /\ CloseDatabase /\ DropInvites /\ DropNotices
  /\ device' = "none"
  /\ UNCHANGED <<deviceFile, sessionFile, bound, unread, membership, invites, direct, made, cameBy>>

(* The last alert is sent, or given up after LAST_ALERT_TIMEOUT. *)
Exit == At("stopping") /\ Enter("down") /\ DropAll

Crash == Die /\ DropAll

Restart ==
  (Start \/ Deploy) /\ UNCHANGED <<sessionVars, importVars, roomsVars, noticesVars>>

Operator == RemoveSession /\ UNCHANGED <<importVars, roomsVars, noticesVars>>

Rooming ==
  /\ \E i \in DOMAIN invites : ReceiveInvite(i) \/ Decline(i) \/ Record(i) \/ TryJoin(i)
  /\ UNCHANGED <<sessionVars, importVars, noticesVars>>

Inviting ==
  /\ \E r \in Rooms, u \in Inviters : Invite(r, u)
  /\ UNCHANGED <<sessionVars, importVars, noticesVars>>

Notifying == (Notify \/ Raise) /\ UNCHANGED <<sessionVars, importVars, invites, membership, answering, cameBy>>

Serving == Serve /\ UNCHANGED <<sessionVars, roomsVars, noticesVars>>

Next ==
  \/ Restart \/ GetReady \/ Sync \/ StopSyncing \/ Exit \/ Crash
  \/ Operator \/ Inviting \/ Rooming \/ Notifying \/ Serving

Spec == Init /\ [][Next]_vars

-----------------------------------------------------------------------------
(* The types of every part. *)
TypeOK == ProcessOK /\ SessionOK /\ ImportOK /\ FactsOK /\ RoomsOK /\ NoticesOK

(* The bot is the same device for good: whoever is logged in, by a saved     *)
(* session or by password, is the device the crypto store belongs to, and so *)
(* is whose session is saved and, as long as its ID could be read, who the   *)
(* next login is for, wherever an earlier start was interrupted and whichever*)
(* file it left empty (src/src/bot.rs:56-63). Once the ID cannot be read,    *)
(* another takes its place in the file, and matrix-sdk lets no start in that *)
(* has no session (src/src/bot.rs:335-345).                                  *)
SameDevice ==
  /\ stage \in {"logged", "save", "database", "rooms", "sync", "running", "stopping"} =>
       bound = device
  /\ bound # "none" =>
       /\ sessionFile \in {"none", "empty", bound}
       /\ deviceFile = bound \/ unread

(* Whoever lets the bot in, and whomever it writes to in private, is not on  *)
(* the status page. A room it was invited into is recorded before it is      *)
(* joined, whenever the process ends in between. A room it made to notify    *)
(* someone is on the page until it is recorded, which is the next thing done *)
(* with it, and stays there if that write fails, or if the process ends in   *)
(* between, until the bot next has something to say in it                    *)
(* (src/src/handler.rs:610-614, notify.rs:64-85, status_server.rs:102-106).  *)
PrivateStaysOff ==
  /\ cameBy \intersect (ShownRooms \union ShownMessages \union CountedRooms) = {}
  /\ \A u \in People : \A r \in made[u] \ direct :
       r \in ToRecord \/ <<r, "write">> \in lapses \/ <<r, "end">> \in lapses
  /\ \A t \in Tasks :
       task[t].at \in {"send", "remember"} =>
         task[t].room \in direct \/ <<task[t].room, "write">> \in lapses

(* Whoever once got a notice that was remembered has been told every line    *)
(* that builds noticed since added to the changelog, whether to the newest   *)
(* version or to one that was there, also when a build was left out, taken   *)
(* back, or its notice lost; or was told that there is more, in a notice     *)
(* that was full. Not so if what they had seen could not be read             *)
(* (src/src/changelog.rs:46-50, src/src/startup_notice.rs:28, 46-51).        *)
NothingMissed ==
  \A u \in People :
    /\ u \notin misread =>
         \A b \in noticed[u] :
           LinesOf(Changelogs[b]) \ LinesOf(Changelogs[first[u]]) \subseteq told[u] \union left[u]
    /\ left[u] # {} => Cardinality(told[u]) >= MaxNewLines

(* Each alert that was raised reaches each person once and in order, or its  *)
(* sending failed, for that person alone; or it still waits for those before *)
(* it. Only who is listed twice gets it twice (src/src/notify.rs:38-43,      *)
(* 54-63).                                                                   *)
AlertsReach ==
  \A n \in DOMAIN Notified :
    LET u == Notified[n]
        held == task["deliver"].at # "off" /\ task["deliver"].person <= n
        twice == \E m \in DOMAIN Notified : m # n /\ Notified[m] = u
    IN /\ \A i, j \in DOMAIN got[u] :
            i < j => got[u][i] < got[u][j] \/ (got[u][i] = got[u][j] /\ twice)
       /\ \A a \in 1..raised :
            \/ a \in ToSet(got[u]) \/ <<a, u>> \in missed
            \/ a \in ToSet(queue) \/ (held /\ task["deliver"].alert = a)

(* Who is welcome is let in although joining fails once. While a process     *)
(* runs, an invite whose room was recorded, by it or by one before, is being *)
(* answered, or more failed than one attempt to join; or this process could  *)
(* not read it when it started, and leaves it to the next                    *)
(* (src/src/handler.rs:584-592, 615-628).                                    *)
OneFailureForgiven ==
  \A i \in DOMAIN invites :
    Up /\ Pending(i) /\ Welcome(invites[i].by) /\ invites[i].room \in direct =>
      \/ answering[i] \in {"recording", "joining1", "joining2", "joining3", "unread"}
      \/ answering[i] = "over" /\ faults > 1

=============================================================================
