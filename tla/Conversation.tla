----------------------------- MODULE Conversation -----------------------------
(****************************************************************************)
(* What the bot does with the messages of one room: process_message of       *)
(* src/handler.rs, from the room's queue (RoomOrder) to what it posts and    *)
(* what it writes to the message log (src/message_log.rs). People talk in    *)
(* the room at any moment, in threads or not, reply, and edit what they      *)
(* said; sends, fetches and writes fail; the worker panics and the process   *)
(* stops. What a model decides, and the two cooldowns, are nondeterministic. *)
(****************************************************************************)
EXTENDS Naturals, FiniteSets, Sequences

CONSTANTS
  Users,       \* the people in the room
  Ignored,     \* ctx.ignored_users, some of them
  Bot,         \* the bot's own user
  Here,        \* the room
  Places,      \* what conversation_kind may say of it, as its members change
  Contents,    \* what people say: records [kind, body, named, mentions]
  Forms,       \* the ways they say it: which of the relations they use
  Shapes,      \* how an answer may look: "text", "emoji" or "pictures"
  ThreadLimit, \* CHAT_HISTORY_LIMIT, the rows read of a thread
  MaxSaid,     \* bound: how many messages people send
  MaxMishaps   \* bound: no fault once this many happened

ASSUME ConversationAssumption ==
  /\ Bot \notin Users
  /\ Ignored \subseteq Users
  /\ Places \subseteq {"Room", "OneOnOne", "SmallGroup"}
  /\ Contents \subseteq [kind : {"text", "command", "question", "image"}, body : STRING,
                         named : BOOLEAN, mentions : {"absent", "nobody", "bot", "other"}]
  /\ Forms \subseteq {"plain", "thread", "threadReply", "reply", "edit"}
  /\ Shapes \subseteq {"text", "emoji", "pictures"}
  /\ ThreadLimit \in Nat \ {0}
  /\ MaxSaid \in Nat /\ MaxMishaps \in Nat

VARIABLES
  timeline,  \* the room's events, an event's ID its position; 0 is no event
  reactions, \* the bot's, as records [on, answers]
  log,       \* the room's rows of the messages table, by id
  job,       \* the locals of process_message that outlive a step
  up,        \* the process runs
  mishaps,   \* history: <<event, "fetch" | "send" | "write" | "lost">>
  (* the room's queue: *)
  arrived, pending, current, settled, lostAt

queue == <<arrived, pending, current, settled, lostAt>>
vars == <<timeline, reactions, log, job, up, mishaps, queue>>

Order == INSTANCE RoomOrder WITH Rooms <- {Here}, Items <- Nat

Ids == 1..Len(timeline)
ByBot == {p \in Ids : timeline[p].by = Bot}
FromPeople == Ids \ ByBot
Edits == {e \in FromPeople : timeline[e].edits # 0}

Idle == [phase |-> "idle", kind |-> "None", place |-> "Room", found |-> TRUE,
         responded |-> FALSE, post |-> 0, line |-> 0]

Init ==
  /\ timeline = <<>> /\ reactions = {} /\ log = <<>>
  /\ job = Idle /\ up = TRUE /\ mishaps = {}
  /\ Order!Init

(* A fault that the messages S, and what is said of them, may suffer from. *)
Suffer(S, what) ==
  /\ Cardinality(mishaps) < MaxMishaps
  /\ mishaps' = mishaps \union (S \X {what})

-----------------------------------------------------------------------------
(* The room *)

(* The relations a message may have: a thread starts on a message outside    *)
(* any, and people reply within the place they write in.                     *)
Relations ==
  LET none == [thread |-> 0, replyTo |-> 0, edits |-> 0]
      sayings == Ids \ Edits
      roots == {t \in sayings : timeline[t].thread = 0}
      within(t) == {r \in sayings : r = t \/ timeline[r].thread = t}
      of(form) ==
        CASE form = "plain"       -> {none}
          [] form = "thread"      -> {[none EXCEPT !.thread = t] : t \in roots}
          [] form = "threadReply" -> UNION {{[none EXCEPT !.thread = t, !.replyTo = r] :
                                               r \in within(t)} : t \in roots}
          [] form = "reply"       -> {[none EXCEPT !.replyTo = r] : r \in sayings}
          [] form = "edit"        -> {[none EXCEPT !.edits = o] : o \in sayings \ ByBot}
  IN UNION {of(form) : form \in Forms}

(* Someone sends a message. on_room_message queues it, if there is a process *)
(* to receive it and its sender is not ignored.                              *)
Say(u, c, relation) ==
  /\ timeline' = Append(timeline,
       [by |-> u, content |-> c, thread |-> relation.thread, replyTo |-> relation.replyTo,
        edits |-> relation.edits, shows |-> 0, answers |-> {}])
  /\ IF up /\ u \notin Ignored THEN Order!Arrive(Here, Len(timeline) + 1) ELSE UNCHANGED queue
  /\ UNCHANGED <<reactions, log, job, up, mishaps>>

-----------------------------------------------------------------------------
(* What a message is, once resolve_edit and replied_to have run. found: the  *)
(* message it replies to could be fetched.                                   *)

IsEdit(e) == timeline[e].edits # 0

(* The message an event is about: an edit becomes the message it edits.      *)
Subject(e) == IF IsEdit(e) THEN timeline[e].edits ELSE e

(* apply_edit: the new text, and the new mentions when there are any. *)
Version(e) ==
  LET c == timeline[e].content
      original == timeline[Subject(e)].content
  IN IF IsEdit(e) /\ c.mentions = "absent" THEN [c EXCEPT !.mentions = original.mentions] ELSE c

Stated(e) == timeline[Subject(e)].thread
Target(e, found) == IF found THEN timeline[Subject(e)].replyTo ELSE 0

(* existing_thread: the thread it says, or the one of what it replies to. *)
Joined(e, found) ==
  IF Stated(e) # 0 THEN Stated(e)
  ELSE IF Target(e, found) # 0 THEN timeline[Target(e, found)].thread ELSE 0

RowsOf(m) == {i \in DOMAIN log : log[i].event = m}
Row(m) == log[CHOOSE i \in RowsOf(m) : TRUE]

(* The rows in a thread: with its root's, and the one whose answer is its    *)
(* root.                                                                     *)
InThread(root) == {i \in DOMAIN log : root \in {log[i].thread, log[i].event, log[i].reply}}

(* MessageLogger.thread reads the last of them. *)
ThreadRows(root) ==
  {i \in InThread(root) : Cardinality({j \in InThread(root) : j > i}) < ThreadLimit}

(* Mutant: only threads on the bot's own messages count. *)
BotInThreadIfRoot(root) == \E i \in ThreadRows(root) : log[i].reply = root

BotInThread(root) ==
  \E i \in ThreadRows(root) : log[i].reply # 0 /\ (log[i].thread # 0 \/ log[i].reply = root)

IsCommand(e) == Version(e).kind = "command"
ToBot(e, found) == Target(e, found) # 0 /\ timeline[Target(e, found)].by = Bot

Addressed(e, found, place) ==
  LET v == Version(e)
  IN v.kind = "question" \/ place = "OneOnOne" \/ v.mentions = "bot" \/ v.named \/ ToBot(e, found)

FollowUp(e, found, place) ==
  /\ place = "SmallGroup" \/ (Joined(e, found) # 0 /\ BotInThread(Joined(e, found)))
  /\ Version(e).mentions \in {"absent", "nobody"}
  /\ Target(e, found) = 0 \/ ToBot(e, found)

Directed(e, found, place) == Addressed(e, found, place) \/ FollowUp(e, found, place)

-----------------------------------------------------------------------------
(* process_message, up to what kind of answer the message gets *)

Incoming == current[Here][1]
Working(phase) == up /\ job.phase = phase

Begin ==
  /\ Working("idle")
  /\ Order!Begin(Here)
  /\ job' = [Idle EXCEPT !.phase = "taken"]
  /\ UNCHANGED <<timeline, reactions, log, up, mishaps>>

Done == job' = Idle /\ Order!Finish(Here)

(* Fetching what e replies to may fail, if it is a reply. *)
Fetches(e, found) ==
  IF found THEN UNCHANGED mishaps
  ELSE timeline[Subject(e)].replyTo # 0 /\ Suffer({Subject(e)}, "fetch")

(* Mutant: anyone may edit anything. *)
EditableByAnyone(e) == RowsOf(Subject(e)) # {}

Editable(e) == RowsOf(Subject(e)) # {} /\ timeline[Subject(e)].by = timeline[e].by

LogBody(v) == <<v.kind = "image", v.body>>

Unchanged(e) == Row(Subject(e)).body = LogBody(Version(e))

(* An edit that needs nothing: of a message that is not in the log or not    *)
(* the sender's, one that could not be looked up, one that changes no text.  *)
DropEdit ==
  /\ Working("taken")
  /\ IsEdit(Incoming)
  /\ IF Editable(Incoming) /\ ~Unchanged(Incoming) THEN Suffer({Subject(Incoming)}, "fetch")
                                                  ELSE UNCHANGED mishaps
  /\ Done
  /\ UNCHANGED <<timeline, reactions, log, up>>

Handled(e) == IsEdit(e) => Editable(e) /\ ~Unchanged(e)

Quiet(e, found, place) == IsEdit(e) /\ ~IsCommand(e) /\ ~Directed(e, found, place)

(* Mutant: an answered edit whose answer has no ID clears the row's. *)
RewrittenClears(w, v, response, reply, thread) ==
  [w EXCEPT !.body = LogBody(v),
            !.response = IF response # 0 THEN response ELSE @,
            !.reply = reply,
            !.thread = IF @ # 0 THEN @ ELSE thread]

(* Mutant: the first answer stays. *)
RewrittenKeepsFirst(w, v, response, reply, thread) ==
  [w EXCEPT !.body = LogBody(v),
            !.response = IF @ # 0 THEN @ ELSE response,
            !.reply = IF reply # 0 THEN reply ELSE @,
            !.thread = IF @ # 0 THEN @ ELSE thread]

(* Mutant: an edit the bot has no answer to changes nothing. *)
RewrittenIfAnswered(w, v, response, reply, thread) ==
  IF response = 0 THEN w
  ELSE [w EXCEPT !.body = LogBody(v), !.response = response,
                 !.reply = IF reply # 0 THEN reply ELSE @,
                 !.thread = IF @ # 0 THEN @ ELSE thread]

(* record_edit: what the edit did not produce keeps its earlier value, and   *)
(* a thread once logged stays. Response and reply are 0 for none.            *)
Rewritten(w, v, response, reply, thread) ==
  [w EXCEPT !.body = LogBody(v),
            !.response = IF response # 0 THEN response ELSE @,
            !.reply = IF reply # 0 THEN reply ELSE @,
            !.thread = IF @ # 0 THEN @ ELSE thread]

RecordEdit(e, response, reply, thread) ==
  log' = [i \in DOMAIN log |->
            IF log[i].event = Subject(e)
            THEN Rewritten(log[i], Version(e), response, reply, thread) ELSE log[i]]

(* An edit the bot would not answer only updates the log, if that works. *)
SaveQuietEdit(found, place) ==
  /\ Working("taken")
  /\ Handled(Incoming) /\ Quiet(Incoming, found, place)
  /\ Fetches(Incoming, found)
  /\ RecordEdit(Incoming, 0, 0, 0)
  /\ Done
  /\ UNCHANGED <<timeline, reactions, up>>

LoseQuietEdit(place) ==
  /\ Working("taken")
  /\ Handled(Incoming) /\ Quiet(Incoming, TRUE, place)
  /\ Suffer({Subject(Incoming)}, "write")
  /\ Done
  /\ UNCHANGED <<timeline, reactions, log, up>>

(* Mutant: an acknowledgement gets nothing, whoever it is for. *)
KindsWithoutNod(e, found, place) ==
  LET image == Version(e).kind = "image"
  IN IF IsCommand(e) THEN {"Command"}
     ELSE IF Directed(e, found, place) THEN IF image THEN {"Chat"} ELSE {"Chat", "None"}
     ELSE IF image THEN {"None"} ELSE {"Greeting", "Interjection", "None"}

(* reply_kind, greetings, and should_interject: their cooldowns and the dice *)
(* decide, too.                                                              *)
Unasked == {"Greeting", "Interjection", "None"}

(* The classifier decides between an acknowledgement and the rest, and       *)
(* whether a message for nobody is a greeting or worth a comment. Commands   *)
(* and images do not reach it. A Nod is the reaction to an acknowledgement.  *)
Kinds(e, found, place) ==
  LET image == Version(e).kind = "image"
      acknowledged == IF image THEN {} ELSE IF Addressed(e, found, place) THEN {"Nod"} ELSE {"None"}
  IN IF IsCommand(e) THEN {"Command"}
     ELSE IF Directed(e, found, place) THEN {"Chat"} \union acknowledged
     ELSE IF image THEN {"None"} ELSE Unasked

Decide(found, place) ==
  /\ Working("taken")
  /\ Handled(Incoming) /\ ~Quiet(Incoming, found, place)
  /\ Fetches(Incoming, found)
  /\ \E kind \in Kinds(Incoming, found, place) :
       job' = [job EXCEPT !.phase = "decided", !.kind = kind, !.place = place, !.found = found]
  /\ UNCHANGED <<timeline, reactions, log, up, queue>>

-----------------------------------------------------------------------------
(* process_message, the answer *)

(* The filter given to take_burst: more text from the same person, in the    *)
(* same place, by what the events themselves say.                            *)
Follows(next, e) ==
  LET said == timeline[next]
  IN /\ said.by = timeline[e].by
     /\ said.content.kind = "text"
     /\ said.edits = 0 /\ (said.replyTo # 0 => said.thread # 0)
     /\ said.thread = Stated(e)

(* How many messages take_burst takes: the run at the front of the queue.    *)
BurstLength ==
  IF job.kind # "Chat" \/ IsEdit(Incoming) \/ Version(Incoming).kind = "image" THEN 0
  ELSE CHOOSE n \in 0..Len(pending[Here]) :
         /\ \A k \in 1..n : Follows(pending[Here][k], Incoming)
         /\ n < Len(pending[Here]) => ~Follows(pending[Here][n + 1], Incoming)

TakeBurst == IF BurstLength = 0 THEN UNCHANGED queue ELSE Order!Join(Here, BurstLength)

(* The last message being answered, once the burst is in. *)
Last == LET taken == SubSeq(pending[Here], 1, BurstLength)
        IN IF taken = <<>> THEN Subject(Incoming) ELSE taken[Len(taken)]

Answers == {Subject(Incoming)} \union {pending[Here][k] : k \in 1..BurstLength}

(* Mutant: a thread is started even from inside one. *)
RootAlwaysStarted ==
  IF job.place = "Room" /\ job.kind \in {"Command", "Chat"} THEN Subject(Incoming)
  ELSE Joined(Incoming, job.found)

(* The thread the answer goes to, 0 for none: the one the message is in, or  *)
(* for commands and conversation in a normal room one on the message itself. *)
Root ==
  IF Joined(Incoming, job.found) # 0 THEN Joined(Incoming, job.found)
  ELSE IF job.place = "Room" /\ job.kind \in {"Command", "Chat"} THEN Subject(Incoming)
  ELSE 0

(* reply_to: what an answer, or a reaction that is the answer, is attached to. *)
ReplyTo == IF Root # 0 /\ Stated(Incoming) = 0 THEN Root ELSE Last

Placed ==
  [thread |-> Root,
   replyTo |-> IF Root = 0 /\ job.place = "OneOnOne" THEN 0 ELSE ReplyTo]

(* The reply an answer to an edit replaces, 0 for none. *)
Previous == IF IsEdit(Incoming) THEN Row(Subject(Incoming)).reply ELSE 0

Responds(responded, post) ==
  job' = [job EXCEPT !.phase = "answered", !.responded = responded, !.post = post, !.line = 1]

(* Mutant: nothing to say is never done with. *)
StaySilentOnlyIfPassing ==
  /\ job.kind = "Interjection"
  /\ Responds(FALSE, 0)
  /\ UNCHANGED <<timeline, reactions, mishaps>>

StaySilent ==
  /\ job.kind \in {"None", "Interjection"}
  /\ Responds(FALSE, 0)
  /\ UNCHANGED <<timeline, reactions, mishaps>>

React(on) == reactions' = reactions \union {[on |-> on, answers |-> Answers]}

Nod ==
  /\ job.kind = "Nod"
  /\ Responds(FALSE, 0)
  /\ \/ React(Last) /\ UNCHANGED mishaps
     \/ Suffer(Answers, "send") /\ UNCHANGED reactions
  /\ UNCHANGED timeline

(* Only a command's answer can carry pictures. *)
Looks == IF job.kind = "Command" THEN Shapes ELSE Shapes \ {"pictures"}

Amends(shape) == Previous # 0 /\ shape # "pictures"

(* replace_reply: the earlier answer is edited, whatever the new one is. *)
Amend(shape) ==
  /\ Amends(shape)
  /\ \/ /\ timeline' = [timeline EXCEPT ![Previous].shows = Incoming,
                                        ![Previous].answers = @ \union Answers]
        /\ Responds(TRUE, Previous)
        /\ UNCHANGED mishaps
     \/ /\ Suffer(Answers, "send")
        /\ Responds(TRUE, 0)
        /\ UNCHANGED timeline
  /\ UNCHANGED reactions

(* deliver, a lone emoji: a reaction, whether it could be sent or not. *)
DeliverEmoji(shape) ==
  /\ shape = "emoji" /\ ~Amends(shape)
  /\ Responds(TRUE, 0)
  /\ \/ React(ReplyTo) /\ UNCHANGED mishaps
     \/ Suffer(Answers, "send") /\ UNCHANGED reactions
  /\ UNCHANGED timeline

(* reply_content and send_message: the answer where it is placed.            *)
Posted(shape) ==
  [by |-> Bot, content |-> shape, thread |-> Placed.thread, replyTo |-> Placed.replyTo,
   edits |-> 0, shows |-> Incoming, answers |-> Answers]

DeliverPost(shape) ==
  /\ shape # "emoji" /\ ~Amends(shape)
  /\ \/ /\ timeline' = Append(timeline, Posted(shape))
        /\ Responds(TRUE, Len(timeline) + 1)
        /\ UNCHANGED mishaps
     \/ /\ Suffer(Answers, "send")
        /\ Responds(TRUE, 0)
        /\ UNCHANGED timeline
  /\ UNCHANGED reactions

(* The burst is taken, the answer generated and delivered. *)
Answer ==
  /\ Working("decided")
  /\ TakeBurst
  /\ \/ StaySilent
     \/ Nod
     \/ /\ job.kind \notin {"None", "Nod"}
        /\ \E shape \in Looks : Amend(shape) \/ DeliverEmoji(shape) \/ DeliverPost(shape)
  /\ UNCHANGED <<log, up>>

-----------------------------------------------------------------------------
(* process_message, the log *)

(* Mutant: the thread an answer started is not written down. *)
LoggedThreadJoined == Joined(Incoming, job.found)

(* logged_thread: a thread only the answer would have started counts if the  *)
(* answer is there.                                                          *)
LoggedThread ==
  IF Joined(Incoming, job.found) # 0 THEN Joined(Incoming, job.found)
  ELSE IF job.post # 0 THEN Root ELSE 0

Response == IF job.responded THEN Incoming ELSE 0

(* The answered edit's row; it is the last thing done, if it works or not.   *)
SaveEdit ==
  /\ Working("answered") /\ IsEdit(Incoming)
  /\ \/ /\ RecordEdit(Incoming, Response, job.post, LoggedThread)
        /\ UNCHANGED mishaps
     \/ /\ Suffer({Subject(Incoming)}, "write")
        /\ UNCHANGED log
  /\ Done
  /\ UNCHANGED <<timeline, reactions, up>>

(* MessageLogger.log: a row, unless the event has one. *)
Insert(row) == log' = IF RowsOf(row.event) = {} THEN Append(log, row) ELSE log

(* Mutant: every line of a burst carries the answer. *)
LineAnswersAll(m) ==
  [event |-> m, body |-> LogBody(Version(m)), thread |-> LoggedThread,
   response |-> Response, reply |-> job.post]

(* Mutant: the answer is on the first line. *)
LineAnswersFirst(m) ==
  LET first == m = Incoming
  IN [event |-> m, body |-> LogBody(Version(m)), thread |-> LoggedThread,
      response |-> IF first THEN Response ELSE 0, reply |-> IF first THEN job.post ELSE 0]

(* The row of one message: the answer is on the last line of a burst. *)
Line(m) ==
  LET last == m = current[Here][Len(current[Here])]
  IN [event |-> m, body |-> LogBody(Version(m)), thread |-> LoggedThread,
      response |-> IF last THEN Response ELSE 0, reply |-> IF last THEN job.post ELSE 0]

(* Mutant: the first line that is written ends the job. *)
LogLineOnce ==
  /\ Working("answered") /\ ~IsEdit(Incoming)
  /\ LET m == current[Here][job.line]
     IN \/ Insert(Line(m)) /\ UNCHANGED mishaps
        \/ Suffer({m}, "write") /\ UNCHANGED log
  /\ Done
  /\ UNCHANGED <<timeline, reactions, up>>

(* Mutant: one line more than there are messages. *)
LogLinePastLast ==
  /\ Working("answered") /\ ~IsEdit(Incoming)
  /\ LET m == current[Here][job.line]
     IN \/ Insert(Line(m)) /\ UNCHANGED mishaps
        \/ Suffer({m}, "write") /\ UNCHANGED log
  /\ IF job.line > Len(current[Here]) THEN Done
     ELSE job' = [job EXCEPT !.line = @ + 1] /\ UNCHANGED queue
  /\ UNCHANGED <<timeline, reactions, up>>

(* One line of the log; after the last, the next message's turn has come.    *)
LogLine ==
  /\ Working("answered") /\ ~IsEdit(Incoming)
  /\ LET m == current[Here][job.line]
     IN \/ Insert(Line(m)) /\ UNCHANGED mishaps
        \/ Suffer({m}, "write") /\ UNCHANGED log
  /\ IF job.line = Len(current[Here]) THEN Done
     ELSE job' = [job EXCEPT !.line = @ + 1] /\ UNCHANGED queue
  /\ UNCHANGED <<timeline, reactions, up>>

-----------------------------------------------------------------------------
Unfinished == Order!Line(Here)

Lose ==
  /\ Order!Drop({Here})
  /\ Suffer({Subject(Unfinished[k]) : k \in DOMAIN Unfinished}, "lost")
  /\ job' = Idle

(* The worker panics, with all it had and all that waited for it. *)
Die ==
  /\ up /\ job.phase # "idle"
  /\ Lose
  /\ UNCHANGED <<timeline, reactions, log, up>>

(* The process ends, and what is said until it starts again is never         *)
(* received by a handler.                                                    *)
Stop ==
  /\ up /\ up' = FALSE
  /\ IF Unfinished # <<>> THEN Lose ELSE UNCHANGED <<job, mishaps, queue>>
  /\ UNCHANGED <<timeline, reactions, log>>

Start ==
  /\ ~up /\ up' = TRUE
  /\ UNCHANGED <<timeline, reactions, log, job, mishaps, queue>>

Work ==
  \/ Begin \/ DropEdit \/ Answer \/ SaveEdit \/ LogLine
  \/ \E place \in Places, found \in BOOLEAN :
       SaveQuietEdit(found, place) \/ Decide(found, place)
  \/ \E place \in Places : LoseQuietEdit(place)

PeopleTalk ==
  /\ Cardinality(FromPeople) < MaxSaid
  /\ \E u \in Users, c \in Contents, relation \in Relations : Say(u, c, relation)

Next ==
  \/ PeopleTalk
  \/ Work
  \/ Die \/ Stop \/ Start

Spec == Init /\ [][Next]_vars

(* Every await in process_message ends, by an answer, an error or a timeout, *)
(* and a stopped bot is started again (by whoever runs it).                  *)
FairSpec == Spec /\ WF_vars(Work) /\ WF_vars(Start)

-----------------------------------------------------------------------------
Troubled(m, faults) == \E what \in faults : <<m, what>> \in mishaps
Settled == {arrived[Here][k] : k \in 1..settled[Here]}
PostsFor(m) == {p \in ByBot : m \in timeline[p].answers}

(* The types; a job is under way exactly while its message is taken, and the *)
(* line it writes is one of the messages it answers.                         *)
TypeOK ==
  /\ \A e \in FromPeople :
       /\ timeline[e].content \in Contents
       /\ {timeline[e].thread, timeline[e].replyTo, timeline[e].edits} \subseteq 0..(e - 1)
  /\ \A p \in ByBot : timeline[p].shows \in FromPeople /\ timeline[p].answers \subseteq FromPeople
  /\ \A r \in reactions : r.on \in Ids /\ r.answers \subseteq FromPeople
  /\ \A i \in DOMAIN log : {log[i].event, log[i].response} \subseteq FromPeople \union {0}
  /\ (job.phase = "idle") = (current[Here] = <<>>)
  /\ job.phase = "answered" => job.line \in 1..Len(current[Here])
  /\ up \in BOOLEAN /\ (~up => Unfinished = <<>>)
  /\ Order!TypeOK

(* While an event is being decided, the log holds the messages whose turn    *)
(* came before and nothing else: one row for each, in the order they were    *)
(* said, so the classifier and the reply see no gap, nothing out of turn and *)
(* not the message itself, unless it is an edit: then the row of what it     *)
(* edits, the earlier version with its answer, is there (see                 *)
(* NotInItsOwnContext). Only rows that could not be written, or whose        *)
(* message died with a worker, may be missing (src/src/handler.rs:1119,      *)
(* message_log.rs:452-478).                                                  *)
HistoryIsPast ==
  job.phase \in {"taken", "decided"} =>
    /\ \A i \in DOMAIN log : log[i].event \in Settled \ Edits
    /\ \A i, j \in DOMAIN log : i < j => log[i].event < log[j].event
    /\ \A m \in Settled \ Edits : RowsOf(m) # {} \/ Troubled(m, {"write", "lost"})

(* Every message the bot posted is the answer of exactly one row, on which   *)
(* threads, edits and reactions find it again; or its row is about to be     *)
(* written; or an answer with pictures took its place, on a row of a message *)
(* it answers; or writing it down failed (src/src/handler.rs:876-942).       *)
PostsAccountedFor ==
  \A p \in ByBot :
    LET rows == {i \in DOMAIN log : log[i].reply = p}
        superseded == \E i \in DOMAIN log :
                        /\ log[i].event \in timeline[p].answers
                        /\ log[i].reply > p /\ timeline[log[i].reply].content = "pictures"
    IN /\ Cardinality(rows) <= 1
       /\ \/ rows # {}
          \/ job.post = p
          \/ superseded
          \/ \E m \in timeline[p].answers : Troubled(m, {"write", "lost"})

(* However often a message is edited, its answer is edited with it rather    *)
(* than posted again. A second answer appears only where pictures cannot be  *)
(* edited in, or beside the answer to a burst, when a message that is not    *)
(* its last is edited (README.md:394-402, 527-528, src/src/handler.rs:       *)
(* 874-888, 920-936). The burst's answer is found under its last message     *)
(* alone.                                                                    *)
OneAnswer ==
  \A p, q \in ByBot :
    \A m \in timeline[p].answers \intersect timeline[q].answers :
      \/ p >= q
      \/ timeline[q].content = "pictures"
      \/ \E n \in timeline[p].answers : n > m
      \/ \E n \in timeline[p].answers : Troubled(n, {"write", "lost"})

(* What the log says the bot answered is what its post shows, however often  *)
(* message and answer were edited. Not so after a failed send: the answer is *)
(* in the log and the room never saw it (src/src/handler.rs:880-885).        *)
LogMatchesRoom ==
  \A i \in DOMAIN log :
    /\ log[i].reply # 0
    /\ ~Troubled(log[i].event, {"send", "write", "lost"})
    /\ job.post # log[i].reply
    => timeline[log[i].reply].shows = log[i].response

(* A row's thread is where its answer is, as long as the answer is the one   *)
(* that was posted for what was first said: the row of one message, or of    *)
(* the last one of a burst, whose answer may show that it is about another   *)
(* of them. Not so if what the message replies to could not be fetched at    *)
(* first and an edit finds it: then the thread is in the row, and the answer *)
(* is not in the thread (src/src/handler.rs:857-896).                        *)
FreshThread ==
  \A i \in DOMAIN log :
    LET reply == log[i].reply
    IN /\ reply # 0 /\ timeline[reply].shows \notin Edits
       /\ ~Troubled(log[i].event, {"fetch"})
       => timeline[reply].thread = log[i].thread

(* A message in a thread is answered in that thread, also one that only      *)
(* replies to a message there, when that message can be found, and no edit   *)
(* of message or answer changes that (README.md:276-283).                    *)
AnswersWhereAsked ==
  \A p \in ByBot :
    LET e == timeline[p].shows
    IN Joined(e, TRUE) # 0 /\ ~Troubled(Subject(e), {"fetch"}) =>
         timeline[p].thread = Joined(e, TRUE)

(* Whoever speaks to the bot, or gives it a command, gets an answer or at    *)
(* least a reaction by the time the message is over, by itself or as part of *)
(* a burst, unless something went wrong on the way (README.md:251-267).      *)
NoSilence ==
  \A m \in Settled \ Edits :
    /\ IsCommand(m) \/ (\A place \in Places : Addressed(m, TRUE, place))
    /\ ~Troubled(m, {"fetch", "send", "lost"})
    => PostsFor(m) # {} \/ \E r \in reactions : m \in r.answers

(* The last version its sender gave a message is the one in the log, once    *)
(* that edit was handled, also when it came while the message was waiting to *)
(* be answered (README.md:394-402).                                          *)
LogHasLatest ==
  \A i \in DOMAIN log :
    LET m == log[i].event
        versions == {e \in Settled : Subject(e) = m /\ timeline[e].by = timeline[m].by}
    IN \/ Troubled(m, {"fetch", "write", "lost"})
       \/ m \notin Settled
       \/ \E e \in versions : /\ \A d \in versions : d <= e
                              /\ log[i].body = LogBody(timeline[e].content)

(* Once the bot has posted in a thread, a message said there afterwards is   *)
(* for the bot, unless it mentions someone or replies to someone else. The   *)
(* post is found through the log, among the last rows of the thread, and the *)
(* log is written after the post, but always before the next message is      *)
(* looked at (README.md:279-280, src/src/handler.rs:229-234, 701-704).       *)
FollowUpHeard ==
  job.phase = "decided" =>
    LET e == Incoming
        thread == Stated(e)
        posted == {p \in ByBot : p < Subject(e) /\ timeline[p].thread = thread}
    IN /\ thread # 0 /\ posted # {} /\ mishaps = {}
       /\ Cardinality(InThread(thread)) <= ThreadLimit
       /\ Version(e).mentions \in {"absent", "nobody"}
       /\ Target(e, TRUE) = 0 \/ ToBot(e, TRUE)
       => IsCommand(e) \/ Directed(e, job.found, job.place)

(* Every message that is queued is over at some point: whatever it is and    *)
(* whatever fails, process_message comes to its end and the next one's turn  *)
(* comes, until nothing waits any more; people only say so much              *)
(* (src/src/handler.rs:643-647).                                             *)
EverySettled ==
  settled[Here] # Len(arrived[Here]) ~> settled[Here] = Len(arrived[Here])

-----------------------------------------------------------------------------
(* What the documentation says and the code does not do. *)

(* "Whether the bot has posted in this thread, or the thread hangs off its   *)
(* own message." (src/src/handler.rs:229) Two ways the log says so of a      *)
(* thread nobody posted in: the last message of a burst has the answer on    *)
(* its row, and the thread, which is on the burst's first message; and an    *)
(* answer that replaces one in the main timeline, as to a greeting edited    *)
(* into a question, is logged in a thread on the message. If people start a  *)
(* thread on either message, the bot takes part uninvited.                   *)
FollowUpOnlyWhereBotIs ==
  job.phase = "decided" =>
    LET root == Joined(Incoming, job.found)
    IN root # 0 /\ BotInThread(root) => \E p \in ByBot : root \in {p, timeline[p].thread}

(* "Fetched before this message is logged, so it's never in its own          *)
(* context." (src/src/handler.rs:1119, and again at 1344) Of an edit it is:  *)
(* the row its first version left, with the answer it got, is among the last *)
(* rows that are read for the classifier and for the reply, which reads as   *)
(* if the message had been said and answered before it was said              *)
(* (src/src/handler.rs:1120, 1345).                                          *)
NotInItsOwnContext ==
  job.phase = "decided" => \A i \in DOMAIN log : log[i].event # Subject(Incoming)

(* "Sits on the last message it answers in the log, [...] and a reaction     *)
(* goes there too." (src/src/handler.rs:855) Not a lone emoji: answering a   *)
(* plain reply to a threaded message, it lands on the thread's root, which   *)
(* may be anyone's.                                                          *)
ReactionOnWhatItAnswers == \A r \in reactions : r.on \in r.answers
=============================================================================
