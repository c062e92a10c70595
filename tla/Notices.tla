-------------------------------- MODULE Notices --------------------------------
(****************************************************************************)
(* What the bot tells the people in Config::notify_users in private: at each *)
(* start what is new (src/startup_notice.rs, src/changelog.rs), and alerts   *)
(* (src/notify.rs). Three tasks do so side by side: announce, deliver for    *)
(* the queue of alerts, and the last alert when the sync loop has stopped.   *)
(* Each takes the people one after the other and goes on with the next when  *)
(* something fails.                                                          *)
(****************************************************************************)
EXTENDS PrivateRooms

CONSTANTS
  Changelogs,  \* for each build, the versions its changelog has, newest first:
               \*   records [version, lines]
  MaxNewLines  \* MAX_NEW_LINES, the lines a notice lists at most

(* All lines of a build's changelog are in those of later builds. What these  *)
(* add is in the version that was the newest, or above it.                    *)
LinesOf(log) == UNION {log[k].lines : k \in DOMAIN log}
GrowsTo(old, new) ==
  /\ LinesOf(old) \subseteq LinesOf(new)
  /\ \E at \in DOMAIN new :
       /\ new[at].version = old[1].version
       /\ \A k \in DOMAIN new : k > at => new[k].lines \subseteq LinesOf(old)

ASSUME NoticesAssumption ==
  /\ Notified \in Seq(ToSet(Notified)) /\ Notified # <<>>
  /\ DOMAIN Changelogs = Builds
  /\ \A b \in Builds :
       /\ Changelogs[b] \in Seq([version : Nat \ {0}, lines : SUBSET STRING]) /\ Changelogs[b] # <<>>
       /\ \A j, k \in DOMAIN Changelogs[b] :
            Changelogs[b][j].version = Changelogs[b][k].version => j = k
       /\ IsFiniteSet(LinesOf(Changelogs[b]))
  /\ \A a, b \in Builds : a <= b => GrowsTo(Changelogs[a], Changelogs[b])
  /\ MaxNewLines \in Nat

Tasks == {"announce", "deliver", "last"}
People == ToSet(Notified)

VARIABLES
  task,    \* where each task is: at, the person it is with, and their room
  queue,   \* the alerts raised and not yet taken by deliver
  raised,  \* how many the process raised
  seen,    \* the start_notices table: version and notes, or Never
  got,     \* history: the alerts of this process each person got
  missed,  \* history: <<alert, person>> whose sending failed
  told,    \* history: the changelog lines each person was told
  left,    \* history: those a notice said the changelog has the rest of
  first,   \* history: the build of the first notice that was remembered, or 0
  noticed, \* history: the builds each got a notice of since
  misread, \* history: the people whose last notice could not be read
  lapses   \* history: <<room, "write" | "end">>: it is not recorded as private
           \*   since that failed, or since the process ended before

noticesVars == <<task, queue, raised, seen, got, missed, told, left, first, noticed, misread, lapses>>

Never == [version |-> 0, lines |-> {}]
Off == [at |-> "off", person |-> 1, room |-> <<>>, alert |-> 0]

NoticesInit ==
  /\ task = [t \in Tasks |-> Off]
  /\ queue = <<>> /\ raised = 0
  /\ seen = [u \in People |-> Never]
  /\ got = [u \in People |-> <<>>] /\ missed = {}
  /\ told = [u \in People |-> {}] /\ left = [u \in People |-> {}]
  /\ first = [u \in People |-> 0] /\ noticed = [u \in People |-> {}]
  /\ misread = {} /\ lapses = {}

On(t, at) == Up /\ task[t].at = at
Person(t) == Notified[task[t].person]

(* The next person's turn, or the end of the round: announce and the last    *)
(* alert are over, deliver waits for another alert.                          *)
NextPerson(t) ==
  LET now == task[t]
  IN [task EXCEPT ![t] =
        IF now.person < Len(Notified)
        THEN [now EXCEPT !.at = "find", !.person = now.person + 1, !.room = <<>>]
        ELSE [Off EXCEPT !.at = IF t = "deliver" THEN "off" ELSE "over"]]

AtNext(t, at) == task' = [task EXCEPT ![t].at = at]

notices == <<seen, told, left, first, noticed, misread>>
alerts == <<queue, raised, got>>
rooms == <<membership, invites, answering, cameBy>>

-----------------------------------------------------------------------------
(* private_room *)

(* The room is recorded as private, and used also if that fails. *)
Use(t, r) ==
  /\ task' = [task EXCEPT ![t].at = "send", ![t].room = r]
  /\ \/ direct' = direct \union {r} /\ lapses' = lapses \ ({r} \X {"write", "end"}) /\ Stay
     \/ lapses' = lapses \union {<<r, "write">>} /\ Fault /\ UNCHANGED <<direct, stage, build>>

(* get_dm_room: any of the rooms made with that person, if there is one. *)
FindRoom(t) ==
  /\ On(t, "find")
  /\ IF made[Person(t)] = {}
     THEN AtNext(t, "create") /\ Stay /\ UNCHANGED <<direct, lapses>>
     ELSE \E r \in made[Person(t)] : Use(t, r)
  /\ UNCHANGED <<alerts, notices, missed, rooms, made>>

(* create_dm: nobody looks for a room again while this one is made, and the  *)
(* bot is in it before it is recorded.                                       *)
CreateRoom(t) ==
  /\ On(t, "create")
  /\ \/ LET r == <<Person(t), Cardinality(made[Person(t)]) + 1>>
        IN /\ made' = [made EXCEPT ![Person(t)] = @ \union {r}]
           /\ task' = [task EXCEPT ![t].at = "record", ![t].room = r]
           /\ Stay /\ UNCHANGED missed
     \/ /\ task' = NextPerson(t)
        /\ missed' = IF t = "deliver" THEN missed \union {<<task[t].alert, Person(t)>>} ELSE missed
        /\ Fault /\ UNCHANGED <<made, stage, build>>
  /\ UNCHANGED <<alerts, notices, rooms, direct, lapses>>

RecordRoom(t) ==
  /\ On(t, "record")
  /\ Use(t, task[t].room)
  /\ UNCHANGED <<alerts, notices, missed, rooms, made>>

-----------------------------------------------------------------------------
(* announce *)

Current == Changelogs[build][1]
VersionsOf(log) == {log[k].version : k \in DOMAIN log}

(* Mutant: a version that was seen has nothing new. *)
NewSinceVersion(notice) ==
  LET log == Changelogs[build]
  IN IF notice = Never \/ notice.version \notin VersionsOf(log) THEN Current.lines
     ELSE LET at == CHOOSE k \in DOMAIN log : log[k].version = notice.version
          IN UNION {log[k].lines : k \in 1..(at - 1)}

(* new_since: the lines of the versions above the one that was seen, and the *)
(* lines that version has got since; of an unknown version or of none, the   *)
(* newest version's.                                                         *)
NewSince(notice) ==
  LET log == Changelogs[build]
  IN IF notice = Never \/ notice.version \notin VersionsOf(log) THEN Current.lines
     ELSE LET at == CHOOSE k \in DOMAIN log : log[k].version = notice.version
          IN (UNION {log[k].lines : k \in 1..(at - 1)}) \union (log[at].lines \ notice.lines)

(* The lines of the notice: all of them, or as many as it lists, the first,  *)
(* whichever these are in the changelog.                                     *)
Listed(new) ==
  IF Cardinality(new) <= MaxNewLines THEN {new}
  ELSE {listed \in SUBSET new : Cardinality(listed) = MaxNewLines}

(* The notice, of what is new since the last one as far as that can be read. *)
Announce ==
  /\ On("announce", "send")
  /\ LET u == Person("announce")
     IN \/ \E notice \in {seen[u], Never} :
             /\ \E listed \in Listed(NewSince(notice)) :
                  /\ told' = [told EXCEPT ![u] = @ \union listed]
                  /\ left' = [left EXCEPT ![u] = @ \union (NewSince(notice) \ listed)]
             /\ noticed' = [noticed EXCEPT ![u] = IF first[u] = 0 THEN @ ELSE @ \union {build}]
             /\ AtNext("announce", "remember")
             /\ IF notice = seen[u] THEN Stay /\ UNCHANGED misread
                ELSE Fault /\ misread' = misread \union {u} /\ UNCHANGED <<stage, build>>
        \/ /\ task' = NextPerson("announce")
           /\ Fault /\ UNCHANGED <<told, left, noticed, misread, stage, build>>
  /\ UNCHANGED <<alerts, seen, missed, first, rooms, direct, made, lapses>>

RememberNotice ==
  /\ On("announce", "remember")
  /\ task' = NextPerson("announce")
  /\ LET u == Person("announce")
     IN \/ /\ seen' = [seen EXCEPT ![u] = Current]
           /\ first' = [first EXCEPT ![u] = IF @ = 0 THEN build ELSE @]
           /\ Stay
        \/ Fault /\ UNCHANGED <<seen, first, stage, build>>
  /\ UNCHANGED <<alerts, missed, told, left, noticed, misread, rooms, direct, made, lapses>>

-----------------------------------------------------------------------------
(* Alerts *)

(* Alerts.raise, from wherever Claude is called: it never waits. *)
Raise ==
  /\ Up
  /\ raised' = raised + 1 /\ queue' = Append(queue, raised + 1)
  /\ Event /\ UNCHANGED <<task, notices, got, missed, rooms, direct, made, lapses>>

(* deliver takes the next alert when it is done with the one before. *)
TakeAlert ==
  /\ On("deliver", "off") /\ queue # <<>>
  /\ task' = [task EXCEPT !["deliver"] = [Off EXCEPT !.at = "find", !.alert = Head(queue)]]
  /\ queue' = Tail(queue)
  /\ Stay /\ UNCHANGED <<raised, got, notices, missed, rooms, direct, made, lapses>>

(* Mutant: the others do not get an alert that one could not be sent. *)
SendAlertOrStop(t) ==
  /\ t \in {"deliver", "last"} /\ On(t, "send")
  /\ \/ /\ got' = IF t = "deliver" THEN [got EXCEPT ![Person(t)] = Append(@, task[t].alert)] ELSE got
        /\ task' = NextPerson(t)
        /\ Stay /\ UNCHANGED missed
     \/ /\ missed' = missed \union {<<task[t].alert, Person(t)>>}
        /\ task' = [task EXCEPT ![t] = [Off EXCEPT !.at = IF t = "deliver" THEN "off" ELSE "over"]]
        /\ Fault /\ UNCHANGED <<got, stage, build>>
  /\ UNCHANGED <<queue, raised, notices, rooms, direct, made, lapses>>

(* send_to_all, one person: sent or not, the next one is next. *)
SendAlert(t) ==
  /\ t \in {"deliver", "last"} /\ On(t, "send")
  /\ task' = NextPerson(t)
  /\ \/ /\ got' = IF t = "deliver" THEN [got EXCEPT ![Person(t)] = Append(@, task[t].alert)] ELSE got
        /\ Stay /\ UNCHANGED missed
     \/ /\ missed' = missed \union {<<task[t].alert, Person(t)>>}
        /\ Fault /\ UNCHANGED <<got, stage, build>>
  /\ UNCHANGED <<queue, raised, notices, rooms, direct, made, lapses>>

Notify ==
  \/ \E t \in Tasks : FindRoom(t) \/ CreateRoom(t) \/ RecordRoom(t) \/ SendAlert(t)
  \/ Announce \/ RememberNotice \/ TakeAlert

(* run spawns announce, and deliver, which waits for alerts at first.        *)
StartNotices == task' = [task EXCEPT !["announce"] = [Off EXCEPT !.at = "find"]]

(* The rooms that were made and are about to be recorded. *)
ToRecord == {task[t].room : t \in {x \in Tasks : task[x].at = "record"}}

(* The alerts that wait, and who is being told, die with the process.        *)
DropNotices ==
  /\ lapses' = lapses \union (ToRecord \X {"end"})
  /\ task' = [t \in Tasks |-> Off] /\ queue' = <<>> /\ raised' = 0
  /\ got' = [u \in People |-> <<>>] /\ missed' = {}
  /\ UNCHANGED notices

NoticesOK ==
  /\ \A t \in Tasks :
       /\ task[t].at \in {"off", "find", "create", "record", "send", "remember", "over"}
       /\ task[t].person \in DOMAIN Notified
  /\ raised \in 0..MaxEvents /\ \A u \in People : noticed[u] \subseteq Builds
=============================================================================
