-------------------------- MODULE ConversationProofs --------------------------
(* For any people, messages, forms, rooms and faults, and however often the    *)
(* worker dies: where an answer goes, and what the log says of it.             *)
EXTENDS Conversation, DataFacts

Events ==
  [by : Users \union {Bot}, content : Contents \union Shapes, thread : Nat, replyTo : Nat,
   edits : Nat, shows : Nat, answers : SUBSET Nat]

Bodies == {LogBody(c) : c \in Contents}

Rows == [event : Nat, body : Bodies, thread : Nat, response : Nat, reply : Nat]

Jobs ==
  [phase : {"idle", "taken", "decided", "answered"},
   kind : {"None", "Command", "Chat", "Nod", "Greeting", "Interjection"},
   place : {"Room", "OneOnOne", "SmallGroup"}, found : BOOLEAN, responded : BOOLEAN,
   post : Nat, line : Nat]

(* What people said points back, and an edit is of what a person said. What a  *)
(* post shows is what a person said.                                           *)
RoomInv ==
  /\ timeline \in Seq(Events)
  /\ \A e \in FromPeople :
       /\ timeline[e].content \in Contents
       /\ {timeline[e].thread, timeline[e].replyTo, timeline[e].edits} \subseteq 0..(e - 1)
       /\ IsEdit(e) => timeline[e].edits \in FromPeople /\ ~IsEdit(timeline[e].edits)
  /\ \A p \in ByBot : timeline[p].shows \in FromPeople

(* Post p is where an answer to message m belongs, unless what m replies to    *)
(* could not be fetched.                                                       *)
Asked(m, p) ==
  Joined(m, TRUE) # 0 /\ ~Troubled(m, {"fetch"}) => timeline[p].thread = Joined(m, TRUE)

(* Each row is of a message, and its answer where that message was asked; and  *)
(* it says so, as long as no edit was answered.                                *)
RowRight(w) ==
  /\ w.event \in FromPeople /\ ~IsEdit(w.event)
  /\ w.reply \in ByBot \union {0}
  /\ w.reply # 0 =>
       /\ Asked(w.event, w.reply)
       /\ \/ IsEdit(timeline[w.reply].shows)
          \/ Troubled(w.event, {"fetch"})
          \/ timeline[w.reply].thread = w.thread

BookInv ==
  /\ log \in Seq(Rows)
  /\ \A i \in DOMAIN log : RowRight(log[i])
  /\ \A p \in ByBot : Asked(Subject(timeline[p].shows), p)

(* Who waits and who is being answered was said by people, and the rest of a   *)
(* burst was said in the same place as its first message.                      *)
QueueInv ==
  /\ pending \in [{Here} -> Seq(Nat)] /\ current \in [{Here} -> Seq(Nat)]
  /\ \A k \in DOMAIN pending[Here] : pending[Here][k] \in FromPeople
  /\ \A k \in DOMAIN current[Here] : current[Here][k] \in FromPeople
  /\ (job.phase = "idle") = (current[Here] = <<>>)
  /\ \A k \in DOMAIN current[Here] : k = 1 \/ Follows(current[Here][k], Incoming)

(* What was decided stands until the row is written, and the answer is where   *)
(* each message of the burst was asked.                                        *)
JobInv ==
  /\ job \in Jobs
  /\ job.phase \in {"decided", "answered"} =>
       /\ IsEdit(Incoming) => RowsOf(Subject(Incoming)) # {}
       /\ job.found \/ timeline[Subject(Incoming)].replyTo = 0 \/ Troubled(Subject(Incoming), {"fetch"})
  /\ job.phase = "answered" =>
       /\ job.line \in 1..Len(current[Here])
       /\ job.post \in ByBot \union {0}
       /\ job.post # 0 /\ IsEdit(Incoming) =>
            Asked(Subject(Incoming), job.post) /\ IsEdit(timeline[job.post].shows)
       /\ job.post # 0 /\ ~IsEdit(Incoming) =>
            /\ timeline[job.post].thread = Root
            /\ \A k \in DOMAIN current[Here] : Asked(current[Here][k], job.post)

Inv == RoomInv /\ BookInv /\ QueueInv /\ JobInv

-----------------------------------------------------------------------------
(* The room                                                                    *)

LEMMA IdsAre ==
  ASSUME RoomInv
  PROVE  /\ Ids = DOMAIN timeline /\ Len(timeline) \in Nat /\ Ids \subseteq Nat \ {0}
         /\ \A e \in Ids : timeline[e] \in Events
         /\ FromPeople \subseteq Ids /\ ByBot \subseteq Ids
         /\ \A e \in Ids : e \in ByBot <=> timeline[e].by = Bot
         /\ \A e \in Ids : e \in FromPeople <=> timeline[e].by # Bot
<1>1. timeline \in Seq(Events)
  BY DEF RoomInv
<1>2. Len(timeline) \in Nat /\ DOMAIN timeline = 1..Len(timeline) /\ \A e \in 1..Len(timeline) : timeline[e] \in Events
  BY <1>1
<1>3. QED
  BY <1>2 DEF Ids, FromPeople, ByBot

(* What an event is about was said by a person and is no edit.                 *)
LEMMA SubjectIs ==
  ASSUME RoomInv, NEW e \in FromPeople
  PROVE  /\ Subject(e) \in FromPeople /\ ~IsEdit(Subject(e)) /\ Subject(Subject(e)) = Subject(e)
         /\ timeline[Subject(e)].replyTo \in {0} \union Ids
         /\ \A found \in BOOLEAN :
              /\ Joined(e, found) = Joined(Subject(e), found)
              /\ Stated(e) = Stated(Subject(e))
              /\ Joined(e, found) \in Nat
              /\ Joined(e, found) # 0 => Joined(e, found) = Joined(e, TRUE)
<1> DEFINE s == Subject(e)
<1>1. s \in FromPeople /\ ~IsEdit(s)
  BY DEF Subject, RoomInv
<1> HIDE DEF s
<1>2. Subject(s) = s
  BY <1>1 DEF Subject
<1>3. s \in Ids /\ timeline[s] \in Events /\ s \in Nat /\ Len(timeline) \in Nat
  BY <1>1, IdsAre
<1>4. timeline[s].replyTo \in 0..(s - 1) /\ timeline[s].thread \in Nat
  BY <1>1, <1>3 DEF RoomInv, Events
<1>5. timeline[s].replyTo \in {0} \union Ids
  BY <1>3, <1>4 DEF Ids
<1>6. timeline[s].replyTo # 0 => timeline[timeline[s].replyTo].thread \in Nat
  <2>1. timeline[s].replyTo # 0 => timeline[timeline[s].replyTo] \in Events
    BY <1>5, IdsAre
  <2>2. QED
    BY <2>1 DEF Events
<1>7. ASSUME NEW found \in BOOLEAN
      PROVE  /\ Joined(e, found) = Joined(s, found) /\ Joined(e, found) \in Nat
             /\ Stated(e) = Stated(s)
             /\ Joined(e, found) # 0 => Joined(e, found) = Joined(e, TRUE)
  BY <1>2, <1>4, <1>6 DEF Joined, Stated, Target, s
<1>8. QED
  BY <1>1, <1>2, <1>5, <1>7 DEF s

(* What was said is not unsaid, and stays where it was.                        *)
Kept ==
  /\ \A e \in Ids :
       /\ e \in Ids'
       /\ timeline'[e].by = timeline[e].by /\ timeline'[e].content = timeline[e].content
       /\ timeline'[e].thread = timeline[e].thread /\ timeline'[e].replyTo = timeline[e].replyTo
       /\ timeline'[e].edits = timeline[e].edits
  /\ mishaps \subseteq mishaps'

LEMMA KeptAre ==
  ASSUME RoomInv, RoomInv', Kept
  PROVE  /\ Ids \subseteq Ids' /\ FromPeople \subseteq FromPeople' /\ ByBot \subseteq ByBot'
         /\ \A e \in FromPeople :
              /\ IsEdit(e)' = IsEdit(e) /\ Subject(e)' = Subject(e) /\ Stated(e)' = Stated(e)
              /\ \A found \in BOOLEAN : Joined(e, found)' = Joined(e, found)
              /\ Troubled(e, {"fetch"}) => Troubled(e, {"fetch"})'
         /\ \A e, m \in FromPeople : Follows(m, e)' = Follows(m, e)
         /\ \A e \in FromPeople : \A p \in ByBot : Asked(e, p) => Asked(e, p)'
<1>1. Ids \subseteq Ids' /\ FromPeople \subseteq FromPeople' /\ ByBot \subseteq ByBot'
  BY DEF Kept, FromPeople, ByBot
<1>2. ASSUME NEW e \in FromPeople
      PROVE  /\ IsEdit(e)' = IsEdit(e) /\ Subject(e)' = Subject(e) /\ Stated(e)' = Stated(e)
             /\ \A found \in BOOLEAN : Joined(e, found)' = Joined(e, found)
             /\ Troubled(e, {"fetch"}) => Troubled(e, {"fetch"})'
  <2>1. e \in Ids /\ Subject(e) \in Ids /\ timeline[Subject(e)].replyTo \in {0} \union Ids
    BY IdsAre, SubjectIs
  <2>2. IsEdit(e)' = IsEdit(e) /\ Subject(e)' = Subject(e)
    BY <2>1 DEF Kept, IsEdit, Subject
  <2>3. timeline'[Subject(e)].thread = timeline[Subject(e)].thread
        /\ timeline'[Subject(e)].replyTo = timeline[Subject(e)].replyTo
    BY <2>1 DEF Kept
  <2>4. Stated(e)' = Stated(e) /\ \A found \in BOOLEAN : Target(e, found)' = Target(e, found)
    BY <2>2, <2>3 DEF Stated, Target
  <2>5. \A found \in BOOLEAN : Target(e, found) \in {0} \union Ids
    BY <2>1 DEF Target
  <2>6. \A found \in BOOLEAN : Joined(e, found)' = Joined(e, found)
    BY <2>4, <2>5 DEF Joined, Kept
  <2>7. QED
    BY <2>2, <2>4, <2>6 DEF Kept, Troubled
<1>3. ASSUME NEW e \in FromPeople, NEW m \in FromPeople
      PROVE  Follows(m, e)' = Follows(m, e)
  <2>1. e \in Ids /\ m \in Ids
    BY IdsAre
  <2>2. Stated(e)' = Stated(e)
    BY <1>2
  <2>3. QED
    BY <2>1, <2>2 DEF Follows, Kept
<1>4. ASSUME NEW e \in FromPeople, NEW p \in ByBot, Asked(e, p)
      PROVE  Asked(e, p)'
  <2>1. timeline'[p].thread = timeline[p].thread
    BY IdsAre DEF Kept
  <2>2. QED
    BY <1>2, <1>4, <2>1 DEF Asked
<1>5. QED
  BY <1>1, <1>2, <1>3, <1>4

(* A row stays right, as far as its answer shows what it did, or an edit.      *)
LEMMA RowStays ==
  ASSUME RoomInv, RoomInv', Kept, NEW w \in Rows, RowRight(w),
         w.reply # 0 =>
           \/ timeline'[w.reply].shows = timeline[w.reply].shows
           \/ timeline'[w.reply].shows \in FromPeople /\ IsEdit(timeline'[w.reply].shows)
  PROVE  RowRight(w)'
<1>1. w.event \in FromPeople' /\ ~IsEdit(w.event)' /\ w.reply \in ByBot' \union {0}
  BY KeptAre DEF RowRight
<1>2. ASSUME w.reply # 0
      PROVE  /\ Asked(w.event, w.reply)'
             /\ \/ IsEdit(timeline[w.reply].shows)'
                \/ Troubled(w.event, {"fetch"})'
                \/ timeline'[w.reply].thread = w.thread
  <2>1. w.reply \in ByBot /\ w.event \in FromPeople /\ Asked(w.event, w.reply)
    BY <1>2 DEF RowRight
  <2>2. Asked(w.event, w.reply)' /\ timeline[w.reply].shows \in FromPeople
        /\ timeline'[w.reply].thread = timeline[w.reply].thread
    BY <2>1, KeptAre, IdsAre DEF RoomInv, Kept
  <2>3. PICK s \in FromPeople : s = timeline'[w.reply].shows
                                /\ (s = timeline[w.reply].shows \/ IsEdit(s))
    BY <1>2, <2>2
  <2>4. IsEdit(s) => IsEdit(s)'
    BY KeptAre
  <2>5. IsEdit(s)' => IsEdit(timeline[w.reply].shows)'
    BY <2>3 DEF IsEdit
  <2>6. \/ IsEdit(s)
        \/ Troubled(w.event, {"fetch"})
        \/ timeline[w.reply].thread = w.thread
    BY <1>2, <2>3 DEF RowRight
  <2>7. QED
    BY <2>1, <2>2, <2>4, <2>5, <2>6, KeptAre
<1>3. QED
  BY <1>1, <1>2 DEF RowRight

(* A post stays where its answer belongs, when it shows another one's too. *)
LEMMA ShownStays ==
  ASSUME RoomInv, RoomInv', BookInv, Kept, NEW p \in ByBot,
         \/ timeline'[p].shows = timeline[p].shows
         \/ timeline'[p].shows \in Edits /\ Asked(Subject(timeline'[p].shows), p)
  PROVE  Asked(Subject(timeline[p].shows), p)'
<1>1. PICK s \in FromPeople : s = timeline'[p].shows /\ Asked(Subject(s), p)
  BY DEF BookInv, RoomInv, Edits
<1>2. PICK m \in FromPeople : m = Subject(s)
  BY SubjectIs
<1>3. Asked(m, p)' /\ Subject(s)' = m
  BY <1>1, <1>2, KeptAre
<1>4. Subject(timeline[p].shows)' = m
  BY <1>1, <1>3 DEF Subject, IsEdit
<1>5. QED
  BY <1>3, <1>4 DEF Asked, Joined, Stated, Target, Subject, IsEdit, Troubled

LEMMA BookStays ==
  ASSUME RoomInv, RoomInv', BookInv, Kept, log' = log,
         \A p \in ByBot :
           \/ timeline'[p].shows = timeline[p].shows
           \/ timeline'[p].shows \in Edits /\ Asked(Subject(timeline'[p].shows), p),
         \A p \in ByBot' \ ByBot : Asked(Subject(timeline[p].shows), p)'
  PROVE  BookInv'
<1>1. \A w \in Rows : RowRight(w) => RowRight(w)'
  <2> SUFFICES ASSUME NEW w \in Rows, RowRight(w)
               PROVE  RowRight(w)'
    OBVIOUS
  <2>1. w.reply # 0 => w.reply \in ByBot
    BY DEF RowRight
  <2>2. w.reply # 0 =>
          \/ timeline'[w.reply].shows = timeline[w.reply].shows
          \/ timeline'[w.reply].shows \in FromPeople /\ IsEdit(timeline'[w.reply].shows)
    BY <2>1 DEF Edits, IsEdit
  <2>3. QED
    BY <2>2, RowStays
<1>2. \A i \in DOMAIN log : log[i] \in Rows /\ RowRight(log[i])
  BY DEF BookInv
<1>3. ASSUME NEW i \in DOMAIN log'
      PROVE  RowRight(log[i])'
  <2>1. PICK w \in Rows : w = log[i] /\ w = log'[i] /\ RowRight(w)
    BY <1>2, <1>3
  <2>2. RowRight(w)'
    BY <1>1, <2>1
  <2>3. QED
    BY <2>1, <2>2 DEF RowRight, Troubled, Asked
<1>4. ASSUME NEW p \in ByBot
      PROVE  Asked(Subject(timeline[p].shows), p)'
  BY ShownStays
<1>5. QED
  BY <1>3, <1>4 DEF BookInv

(* Steps that say nothing. *)
LEMMA NothingSaid ==
  ASSUME RoomInv, timeline' = timeline, mishaps \subseteq mishaps'
  PROVE  RoomInv' /\ Kept /\ (\A p \in ByBot : timeline'[p].shows = timeline[p].shows) /\ ByBot' = ByBot
<1>1. RoomInv' /\ ByBot' = ByBot /\ Ids' = Ids
  BY DEF RoomInv, FromPeople, ByBot, Ids, IsEdit
<1>2. QED
  BY <1>1 DEF Kept

LEMMA BookUntouched ==
  ASSUME RoomInv, BookInv, timeline' = timeline, log' = log, mishaps \subseteq mishaps'
  PROVE  RoomInv' /\ BookInv'
  BY NothingSaid, BookStays

(* When a message is over nobody has one. *)
LEMMA DoneIsIdle ==
  ASSUME RoomInv, RoomInv', Kept, QueueInv, pending' = pending, job' = Idle,
         current' = [current EXCEPT ![Here] = <<>>]
  PROVE  QueueInv' /\ JobInv'
<1>1. current' \in [{Here} -> Seq(Nat)] /\ current'[Here] = <<>>
  BY DEF QueueInv
<1>2. QueueInv'
  BY <1>1, KeptAre DEF QueueInv, Idle
<1>3. JobInv'
  BY DEF JobInv, Jobs, Idle
<1>4. QED
  BY <1>2, <1>3

LEMMA DroppedIsIdle ==
  ASSUME Order!Drop({Here}), job' = Idle
  PROVE  QueueInv' /\ JobInv'
<1>1. pending' = [r \in {Here} |-> <<>>] /\ current' = [r \in {Here} |-> <<>>]
  BY DEF Order!Drop
<1>2. QueueInv'
  BY <1>1 DEF QueueInv, Idle
<1>3. JobInv'
  BY DEF JobInv, Jobs, Idle
<1>4. QED
  BY <1>2, <1>3

LEMMA IncomingIs ==
  ASSUME QueueInv, job.phase # "idle"
  PROVE  Incoming \in FromPeople /\ 1 \in DOMAIN current[Here] /\ Len(current[Here]) \in Nat \ {0}
<1>1. current[Here] \in Seq(Nat) /\ current[Here] # <<>>
  BY DEF QueueInv
<1>2. Len(current[Here]) \in Nat \ {0} /\ DOMAIN current[Here] = 1..Len(current[Here])
  BY <1>1
<1>3. QED
  BY <1>2 DEF QueueInv, Incoming

(* A message that is decided and answered while others speak. *)
LEMMA DeskStays ==
  ASSUME RoomInv, RoomInv', Kept, QueueInv, JobInv, job' = job, current' = current, log' = log,
         \A p \in ByBot : timeline'[p].shows = timeline[p].shows,
         pending' \in [{Here} -> Seq(Nat)],
         \A k \in DOMAIN pending'[Here] : pending'[Here][k] \in FromPeople'
  PROVE  QueueInv' /\ JobInv'
<1>1. Incoming' = Incoming /\ current'[Here] = current[Here]
  BY DEF Incoming
<1>2. current[Here] # <<>> => Incoming \in FromPeople
  BY IncomingIs DEF QueueInv
<1>3. QueueInv'
  <2>1. ASSUME NEW k \in DOMAIN current[Here]
        PROVE  (k = 1 \/ Follows(current[Here][k], Incoming))'
    <3>1. current[Here] # <<>>
      BY <2>1
    <3>2. PICK m \in FromPeople, e \in FromPeople : m = current[Here][k] /\ e = Incoming
      BY <1>2, <2>1, <3>1 DEF QueueInv
    <3>3. Follows(m, e)' = Follows(m, e)
      BY KeptAre
    <3>4. k = 1 \/ Follows(m, e)
      BY <2>1, <3>2 DEF QueueInv
    <3>5. current'[Here][k] = m /\ Incoming' = e
      BY <1>1, <3>2
    <3>6. QED
      BY <3>3, <3>4, <3>5 DEF Follows, Stated, Subject, IsEdit
  <2>2. QED
    BY <1>1, <2>1, KeptAre DEF QueueInv
<1>4. CASE job.phase \in {"decided", "answered"}
  <2>1. PICK e \in FromPeople : e = Incoming /\ e = Incoming'
    BY <1>1, <1>4, IncomingIs
  <2>2. PICK s \in FromPeople : s = Subject(e) /\ Subject(e)' = s /\ IsEdit(e)' = IsEdit(e) /\ s \in Ids
    BY SubjectIs, KeptAre, IdsAre
  <2>3. /\ Subject(Incoming) = s /\ (IsEdit(Incoming) <=> IsEdit(e))
        /\ Subject(Incoming)' = s /\ (IsEdit(Incoming)' <=> IsEdit(e))
    BY <2>1, <2>2 DEF Subject, IsEdit
  <2>4. RowsOf(s)' = RowsOf(s) /\ timeline'[s].replyTo = timeline[s].replyTo
        /\ (Troubled(s, {"fetch"}) => Troubled(s, {"fetch"})')
    BY <2>2, KeptAre DEF RowsOf, Kept
  <2>5. /\ IsEdit(Incoming)' => RowsOf(Subject(Incoming))' # {}
        /\ job.found \/ timeline'[Subject(Incoming)'].replyTo = 0 \/ Troubled(Subject(Incoming), {"fetch"})'
    BY <1>4, <2>3, <2>4 DEF JobInv, RowsOf, Troubled
  <2>6. ASSUME job.phase = "answered", job.post # 0
        PROVE  /\ IsEdit(Incoming)' => Asked(Subject(Incoming), job.post)' /\ IsEdit(timeline[job.post].shows)'
               /\ ~IsEdit(Incoming)' =>
                    /\ timeline'[job.post].thread = Root'
                    /\ \A k \in DOMAIN current[Here] : Asked(current[Here][k], job.post)'
    <3>1. PICK p \in ByBot : p = job.post /\ p \in Ids
      BY <2>6, IdsAre DEF JobInv
    <3>2. timeline'[p].thread = timeline[p].thread /\ timeline'[p].shows = timeline[p].shows
          /\ timeline[p].shows \in FromPeople
      BY <3>1 DEF Kept, RoomInv
    <3>3. CASE IsEdit(e)
      <4>1. Asked(s, p)'
        BY <2>3, <2>6, <3>1, <3>3, KeptAre DEF JobInv
      <4>2. IsEdit(timeline[p].shows)'
        BY <2>3, <2>6, <3>1, <3>2, <3>3 DEF JobInv, IsEdit, Kept, FromPeople
      <4>3. QED
        BY <2>3, <3>1, <3>3, <4>1, <4>2 DEF Asked, Joined, Stated, Target, Subject, IsEdit, Troubled
    <3>4. CASE ~IsEdit(e)
      <4>1. timeline[p].thread = Root /\ \A k \in DOMAIN current[Here] : Asked(current[Here][k], p)
        BY <2>3, <2>6, <3>1, <3>4 DEF JobInv
      <4>2. \A found \in BOOLEAN : Joined(Incoming, found)' = Joined(Incoming, found)
        <5>1. \A found \in BOOLEAN : Joined(e, found)' = Joined(e, found)
          BY KeptAre
        <5>2. QED
          BY <2>1, <5>1 DEF Joined, Stated, Target, Subject, IsEdit
      <4>3. Root' = Root
        BY <2>3, <4>2 DEF Root, JobInv, Jobs
      <4>4. ASSUME NEW k \in DOMAIN current[Here]
            PROVE  Asked(current[Here][k], job.post)'
        <5>1. PICK m \in FromPeople : m = current[Here][k] /\ m = current'[Here][k]
          BY <1>1 DEF QueueInv
        <5>2. Asked(m, p)'
          BY <4>1, <5>1, KeptAre
        <5>3. QED
          BY <3>1, <5>1, <5>2 DEF Asked, Joined, Stated, Target, Subject, IsEdit, Troubled
      <4>5. QED
        BY <2>3, <3>1, <3>2, <3>4, <4>1, <4>3, <4>4
    <3>5. QED
      BY <3>3, <3>4
  <2>7. job.phase = "answered" => job.line \in 1..Len(current[Here]) /\ job.post \in ByBot' \union {0}
    BY KeptAre DEF JobInv
  <2>8. QED
    BY <1>1, <1>3, <2>5, <2>6, <2>7 DEF JobInv
<1>5. CASE job.phase \notin {"decided", "answered"}
  BY <1>3, <1>5 DEF JobInv
<1>6. QED
  BY <1>4, <1>5

-----------------------------------------------------------------------------
(* People talk *)

LEMMA RelationsPointBack ==
  ASSUME RoomInv, NEW rel \in Relations
  PROVE  /\ {rel.thread, rel.replyTo, rel.edits} \subseteq 0..Len(timeline)
         /\ rel.edits # 0 => rel.edits \in FromPeople /\ ~IsEdit(rel.edits)
<1> DEFINE none == [thread |-> 0, replyTo |-> 0, edits |-> 0]
           sayings == Ids \ Edits
<1>1. Ids = 1..Len(timeline) /\ Len(timeline) \in Nat
  BY IdsAre DEF Ids
<1> DEFINE roots == {t \in sayings : timeline[t].thread = 0}
           within(t) == {r \in sayings : r = t \/ timeline[r].thread = t}
           of(form) ==
             CASE form = "plain"       -> {none}
               [] form = "thread"      -> {[none EXCEPT !.thread = t] : t \in roots}
               [] form = "threadReply" -> UNION {{[none EXCEPT !.thread = t, !.replyTo = r] :
                                                    r \in within(t)} : t \in roots}
               [] form = "reply"       -> {[none EXCEPT !.replyTo = r] : r \in sayings}
               [] form = "edit"        -> {[none EXCEPT !.edits = o] : o \in sayings \ ByBot}
<1>2. PICK form \in Forms : rel \in of(form)
  <2>1. Relations = UNION {of(form) : form \in Forms}
    BY DEF Relations
  <2> HIDE DEF of
  <2>2. QED
    BY <2>1
<1>3. sayings \subseteq 1..Len(timeline) /\ roots \subseteq sayings /\ \A t : within(t) \subseteq sayings
  BY <1>1
<1>4. \A o \in sayings \ ByBot : o \in FromPeople /\ ~IsEdit(o)
  BY DEF FromPeople, Edits, IsEdit
<1> HIDE DEF sayings, roots, within
<1>5. CASE form = "plain"
  BY <1>1, <1>2, <1>5
<1>6. CASE form = "thread"
  BY <1>1, <1>2, <1>3, <1>6
<1>7. CASE form = "threadReply"
  <2>1. PICK t \in roots : rel \in {[none EXCEPT !.thread = t, !.replyTo = r] : r \in within(t)}
    BY <1>2, <1>7
  <2>2. PICK r \in within(t) : rel = [none EXCEPT !.thread = t, !.replyTo = r]
    BY <2>1
  <2>3. QED
    BY <1>1, <1>3, <2>2
<1>8. CASE form = "reply"
  BY <1>1, <1>2, <1>3, <1>8
<1>9. CASE form = "edit"
  BY <1>1, <1>2, <1>3, <1>4, <1>9
<1>10. QED
  BY <1>5, <1>6, <1>7, <1>8, <1>9, ConversationAssumption

LEMMA SayKeeps ==
  ASSUME Inv, NEW u \in Users, NEW c \in Contents, NEW rel \in Relations, Say(u, c, rel)
  PROVE  Inv'
<1> DEFINE n == Len(timeline) + 1
           new == [by |-> u, content |-> c, thread |-> rel.thread, replyTo |-> rel.replyTo,
                   edits |-> rel.edits, shows |-> 0, answers |-> {}]
<1>1. RoomInv /\ BookInv /\ QueueInv /\ JobInv
  BY DEF Inv
<1>2. timeline' = Append(timeline, new) /\ UNCHANGED <<log, job, mishaps>>
  BY DEF Say
<1>3. /\ {rel.thread, rel.replyTo, rel.edits} \subseteq 0..Len(timeline)
      /\ rel.edits # 0 => rel.edits \in FromPeople /\ ~IsEdit(rel.edits)
  BY <1>1, RelationsPointBack
<1>4. new \in Events /\ new.by = u /\ u # Bot /\ new.edits = rel.edits /\ new.content = c
      /\ new.thread = rel.thread /\ new.replyTo = rel.replyTo
  BY <1>3, ConversationAssumption DEF Events
<1> HIDE DEF new
<1>5. /\ timeline' \in Seq(Events) /\ Len(timeline') = n /\ Len(timeline) \in Nat
      /\ timeline'[n] = new /\ \A e \in 1..Len(timeline) : timeline'[e] = timeline[e]
  BY <1>1, <1>2, <1>4 DEF RoomInv
<1>6. Ids' = Ids \union {n} /\ n \notin Ids /\ Ids = 1..Len(timeline)
  BY <1>5 DEF Ids
<1>7. ByBot' = ByBot /\ FromPeople' = FromPeople \union {n}
  BY <1>4, <1>5, <1>6 DEF ByBot, FromPeople
<1>8. Kept /\ \A p \in ByBot : timeline'[p].shows = timeline[p].shows
  BY <1>2, <1>5, <1>6 DEF Kept, ByBot
<1>9. RoomInv'
  <2>1. ASSUME NEW e \in FromPeople'
        PROVE  /\ timeline'[e].content \in Contents
               /\ {timeline'[e].thread, timeline'[e].replyTo, timeline'[e].edits} \subseteq 0..(e - 1)
               /\ IsEdit(e)' => timeline'[e].edits \in FromPeople' /\ ~IsEdit(timeline[e].edits)'
    <3>1. CASE e = n
      <4>1. \A o \in FromPeople : IsEdit(o)' = IsEdit(o)
        BY <1>8 DEF Kept, FromPeople, IsEdit
      <4>2. IsEdit(e)' => timeline'[e].edits = rel.edits /\ rel.edits # 0
        BY <1>4, <1>5, <3>1 DEF IsEdit
      <4>3. rel.edits # 0 => ~IsEdit(rel.edits)'
        BY <1>3, <4>1
      <4>4. IsEdit(e)' => ~IsEdit(timeline[e].edits)'
        BY <4>2, <4>3 DEF IsEdit
      <4>5. {timeline'[e].thread, timeline'[e].replyTo, timeline'[e].edits} \subseteq 0..(e - 1)
        BY <1>3, <1>4, <1>5, <3>1
      <4>6. timeline'[e].content \in Contents
        BY <1>4, <1>5, <3>1
      <4>7. QED
        BY <1>3, <1>7, <4>2, <4>4, <4>5, <4>6
    <3>2. CASE e \in FromPeople
      <4>1. timeline'[e] = timeline[e]
        BY <1>5, <1>6, <3>2 DEF FromPeople
      <4>2. IsEdit(e) => timeline[e].edits \in FromPeople /\ ~IsEdit(timeline[e].edits)
        BY <1>1, <3>2 DEF RoomInv
      <4>3. \A o \in FromPeople : IsEdit(o)' = IsEdit(o)
        BY <1>8 DEF Kept, FromPeople, IsEdit
      <4>4. IsEdit(e)' => timeline'[e].edits \in FromPeople /\ ~IsEdit(timeline[e].edits)'
        BY <4>1, <4>2, <4>3 DEF IsEdit
      <4>5. timeline[e].content \in Contents
            /\ {timeline[e].thread, timeline[e].replyTo, timeline[e].edits} \subseteq 0..(e - 1)
        BY <1>1, <3>2 DEF RoomInv
      <4>6. QED
        BY <1>7, <4>1, <4>4, <4>5
    <3>3. QED
      BY <1>7, <3>1, <3>2
  <2>2. \A p \in ByBot' : timeline'[p].shows \in FromPeople'
    BY <1>1, <1>7, <1>8 DEF RoomInv
  <2>3. QED
    BY <1>5, <2>1, <2>2 DEF RoomInv
<1>10. BookInv'
  BY <1>1, <1>2, <1>7, <1>8, <1>9, BookStays
<1>11. pending' \in [{Here} -> Seq(Nat)] /\ current' = current
       /\ \A k \in DOMAIN pending'[Here] : pending'[Here][k] \in FromPeople'
  <2>1. pending \in [{Here} -> Seq(Nat)] /\ \A k \in DOMAIN pending[Here] : pending[Here][k] \in FromPeople
    BY <1>1 DEF QueueInv
  <2>2. CASE Order!Arrive(Here, n)
    <3>1. pending' = [pending EXCEPT ![Here] = Append(@, n)] /\ current' = current
      BY <2>2 DEF Order!Arrive
    <3>2. pending[Here] \in Seq(Nat) /\ n \in Nat
      BY <1>5, <2>1
    <3>3. pending'[Here] = Append(pending[Here], n)
      BY <2>1, <3>1
    <3>4. Append(pending[Here], n) \in Seq(Nat)
      BY <3>2
    <3>5. \A k \in DOMAIN Append(pending[Here], n) : Append(pending[Here], n)[k] \in FromPeople \union {n}
      BY <2>1, <3>2
    <3>6. QED
      BY <1>7, <2>1, <3>1, <3>3, <3>4, <3>5
  <2>3. CASE UNCHANGED queue
    BY <1>7, <2>1, <2>3 DEF queue
  <2>4. QED
    BY <2>2, <2>3 DEF Say
<1>12. QED
  BY <1>1, <1>2, <1>8, <1>9, <1>10, <1>11, DeskStays DEF Inv

-----------------------------------------------------------------------------
(* The log *)

LEMMA BodiesAre ==
  ASSUME RoomInv, NEW e \in FromPeople
  PROVE  LogBody(Version(e)) \in Bodies
<1> DEFINE c == timeline[e].content
<1>1. c \in Contents
  BY DEF RoomInv
<1>2. LogBody(c) \in Bodies
  BY <1>1 DEF Bodies
<1>3. Version(e).kind = c.kind /\ Version(e).body = c.body
  BY <1>1, ConversationAssumption DEF Version
<1>4. QED
  BY <1>2, <1>3 DEF LogBody

LEMMA RewrittenIs ==
  ASSUME NEW w \in Rows, RowRight(w), RoomInv, NEW e \in FromPeople, NEW response \in Nat,
         NEW reply \in ByBot \union {0}, NEW thread \in Nat,
         reply # 0 => Asked(w.event, reply) /\ IsEdit(timeline[reply].shows),
         reply = 0 /\ thread # 0 /\ ~Troubled(w.event, {"fetch"}) => thread = Joined(w.event, TRUE)
  PROVE  Rewritten(w, Version(e), response, reply, thread) \in Rows
         /\ RowRight(Rewritten(w, Version(e), response, reply, thread))
<1> DEFINE r == Rewritten(w, Version(e), response, reply, thread)
<1>1. LogBody(Version(e)) \in Bodies
  BY BodiesAre
<1>2. ByBot \union {0} \subseteq Nat
  BY IdsAre
<1>3. r \in Rows /\ r.event = w.event
      /\ r.reply = (IF reply # 0 THEN reply ELSE w.reply)
      /\ r.thread = (IF w.thread # 0 THEN w.thread ELSE thread)
  BY <1>1, <1>2 DEF Rewritten, Rows
<1> HIDE DEF r
<1>4. RowRight(r)
  <2>1. r.event \in FromPeople /\ ~IsEdit(r.event) /\ r.reply \in ByBot \union {0}
    BY <1>3 DEF RowRight
  <2>2. CASE reply # 0
    BY <1>3, <2>1, <2>2 DEF RowRight
  <2>3. CASE reply = 0 /\ w.reply # 0
    <3>1. r.reply = w.reply /\ Asked(w.event, w.reply)
      BY <1>3, <2>3 DEF RowRight
    <3>2. \/ IsEdit(timeline[w.reply].shows) \/ Troubled(w.event, {"fetch"})
          \/ timeline[w.reply].thread = w.thread
      BY <2>3 DEF RowRight
    <3>3. CASE w.thread # 0 \/ thread = 0
      <4>1. r.thread = w.thread
        BY <1>3, <3>3
      <4>2. QED
        BY <1>3, <2>1, <3>1, <3>2, <4>1 DEF RowRight
    <3>4. CASE w.thread = 0 /\ thread # 0
      <4>1. r.thread = thread
        BY <1>3, <3>4
      <4>2. ~Troubled(w.event, {"fetch"}) => timeline[w.reply].thread = thread
        BY <2>3, <3>1, <3>4 DEF Asked
      <4>3. QED
        BY <1>3, <2>1, <3>1, <4>1, <4>2 DEF RowRight
    <3>5. QED
      BY <3>3, <3>4
  <2>4. CASE reply = 0 /\ w.reply = 0
    BY <1>3, <2>1, <2>4 DEF RowRight
  <2>5. QED
    BY <2>2, <2>3, <2>4
<1>5. QED
  BY <1>3, <1>4 DEF r

(* The log may be written while the room stays as it is, if each row is right. *)
LEMMA LogKeeps ==
  ASSUME RoomInv, BookInv, timeline' = timeline, mishaps \subseteq mishaps', log' \in Seq(Rows),
         \A i \in DOMAIN log' : RowRight(log'[i])
  PROVE  BookInv'
<1>1. RoomInv' /\ Kept /\ (\A p \in ByBot : timeline'[p].shows = timeline[p].shows) /\ ByBot' = ByBot
  BY NothingSaid
<1>2. ASSUME NEW i \in DOMAIN log'
      PROVE  RowRight(log[i])'
  <2>1. PICK w \in Rows : w = log'[i] /\ RowRight(w)
    BY <1>2
  <2>2. w.reply # 0 => w.reply \in ByBot
    BY <2>1 DEF RowRight
  <2>3. RowRight(w)'
    BY <1>1, <2>1, <2>2, RowStays
  <2>4. QED
    BY <2>1, <2>3 DEF RowRight, Asked, Troubled
<1>3. ASSUME NEW p \in ByBot'
      PROVE  Asked(Subject(timeline[p].shows), p)'
  BY <1>1, <1>3, ShownStays
<1>4. QED
  BY <1>2, <1>3 DEF BookInv

(* What is recorded of an edit, on the rows of its message. *)
LEMMA RecordKeeps ==
  ASSUME RoomInv, BookInv, timeline' = timeline, mishaps \subseteq mishaps', NEW e \in FromPeople,
         NEW response \in Nat, NEW reply \in ByBot \union {0}, NEW thread \in Nat,
         reply # 0 => Asked(Subject(e), reply) /\ IsEdit(timeline[reply].shows),
         reply = 0 /\ thread # 0 /\ ~Troubled(Subject(e), {"fetch"}) => thread = Joined(Subject(e), TRUE),
         RecordEdit(e, response, reply, thread)
  PROVE  BookInv'
<1>1. DOMAIN log = 1..Len(log) /\ Len(log) \in Nat
  BY DEF BookInv
<1>2. ASSUME NEW i \in DOMAIN log
      PROVE  log'[i] \in Rows /\ RowRight(log'[i])
  <2>1. log[i] \in Rows /\ RowRight(log[i])
    BY <1>2 DEF BookInv
  <2>2. CASE log[i].event = Subject(e)
    <3>1. log'[i] = Rewritten(log[i], Version(e), response, reply, thread)
      BY <1>2, <2>2 DEF RecordEdit
    <3>2. QED
      BY <2>1, <2>2, <3>1, RewrittenIs
  <2>3. CASE log[i].event # Subject(e)
    <3>1. log'[i] = log[i]
      BY <1>2, <2>3 DEF RecordEdit
    <3>2. QED
      BY <2>1, <3>1
  <2>4. QED
    BY <2>2, <2>3
<1>3. DOMAIN log' = DOMAIN log
  BY DEF RecordEdit
<1>4. log' \in Seq(Rows)
  <2>1. log' = [i \in 1..Len(log) |-> log'[i]]
    BY <1>1 DEF RecordEdit
  <2>2. log' \in [1..Len(log) -> Rows]
    BY <1>1, <1>2, <2>1
  <2>3. QED
    BY <1>1, <2>2, SeqDef
<1>5. QED
  BY <1>2, <1>3, <1>4, LogKeeps

-----------------------------------------------------------------------------
(* One message is answered *)

LEMMA SufferGrows ==
  ASSUME NEW S, NEW what, Suffer(S, what)
  PROVE  mishaps \subseteq mishaps'
  BY DEF Suffer

LEMMA BeginKeeps ==
  ASSUME Inv, Begin
  PROVE  Inv'
<1>1. RoomInv /\ BookInv /\ QueueInv /\ JobInv
  BY DEF Inv
<1>2. UNCHANGED <<timeline, log, mishaps>> /\ job' = [Idle EXCEPT !.phase = "taken"] /\ job.phase = "idle"
  BY DEF Begin, Working
<1>3. RoomInv' /\ BookInv'
  BY <1>1, <1>2, BookUntouched
<1>4. Kept
  BY <1>1, <1>2, NothingSaid
<1>5. /\ pending[Here] # <<>>
      /\ current' = [current EXCEPT ![Here] = <<Head(pending[Here])>>]
      /\ pending' = [pending EXCEPT ![Here] = Tail(@)]
  BY DEF Begin, Order!Begin
<1>6. pending[Here] \in Seq(Nat) /\ \A k \in DOMAIN pending[Here] : pending[Here][k] \in FromPeople
  BY <1>1 DEF QueueInv
<1>7. Head(pending[Here]) = pending[Here][1] /\ 1 \in DOMAIN pending[Here] /\ pending[Here][1] \in Nat
      /\ Tail(pending[Here]) \in Seq(Nat)
      /\ \A k \in DOMAIN Tail(pending[Here]) :
           k + 1 \in DOMAIN pending[Here] /\ Tail(pending[Here])[k] = pending[Here][k + 1]
  BY <1>5, <1>6
<1>8. pending'[Here] = Tail(pending[Here]) /\ pending' \in [{Here} -> Seq(Nat)]
      /\ current'[Here] = <<pending[Here][1]>> /\ current' \in [{Here} -> Seq(Nat)]
  BY <1>1, <1>5, <1>7 DEF QueueInv
<1>9. QueueInv'
  <2>1. \A k \in DOMAIN pending'[Here] : pending'[Here][k] \in FromPeople'
    BY <1>1, <1>3, <1>4, <1>6, <1>7, <1>8, KeptAre
  <2>2. \A k \in DOMAIN current'[Here] : k = 1 /\ current'[Here][k] = pending[Here][1]
    BY <1>8
  <2>3. \A k \in DOMAIN current'[Here] : current'[Here][k] \in FromPeople'
    BY <1>1, <1>3, <1>4, <1>6, <1>7, <2>2, KeptAre
  <2>4. job'.phase # "idle" /\ current'[Here] # <<>>
    BY <1>2, <1>8 DEF Idle
  <2>5. QED
    BY <1>8, <2>1, <2>2, <2>3, <2>4 DEF QueueInv
<1>10. JobInv'
  BY <1>2 DEF JobInv, Jobs, Idle
<1>11. QED
  BY <1>3, <1>9, <1>10 DEF Inv

(* An edit that is over, with the log written or not. *)
LEMMA OverKeeps ==
  ASSUME Inv, timeline' = timeline, mishaps \subseteq mishaps', BookInv', Done
  PROVE  Inv'
<1>1. RoomInv /\ BookInv /\ QueueInv /\ JobInv
  BY DEF Inv
<1>2. RoomInv' /\ Kept
  BY <1>1, NothingSaid
<1>3. job' = Idle /\ pending' = pending /\ current' = [current EXCEPT ![Here] = <<>>]
  BY DEF Done, Order!Finish
<1>4. QED
  BY <1>1, <1>2, <1>3, DoneIsIdle DEF Inv

LEMMA DropEditKeeps ==
  ASSUME Inv, DropEdit
  PROVE  Inv'
<1>1. mishaps \subseteq mishaps'
  BY SufferGrows DEF DropEdit
<1>2. BookInv'
  BY <1>1, BookUntouched DEF Inv, DropEdit
<1>3. QED
  BY <1>1, <1>2, OverKeeps DEF DropEdit

LEMMA LoseQuietEditKeeps ==
  ASSUME Inv, NEW place \in Places, LoseQuietEdit(place)
  PROVE  Inv'
<1>1. mishaps \subseteq mishaps'
  BY SufferGrows DEF LoseQuietEdit
<1>2. BookInv'
  BY <1>1, BookUntouched DEF Inv, LoseQuietEdit
<1>3. QED
  BY <1>1, <1>2, OverKeeps DEF LoseQuietEdit

LEMMA FetchesGrows ==
  ASSUME NEW e, NEW found \in BOOLEAN, Fetches(e, found)
  PROVE  /\ mishaps \subseteq mishaps'
         /\ found \/ <<Subject(e), "fetch">> \in mishaps'
  BY DEF Fetches, Suffer

LEMMA SaveQuietEditKeeps ==
  ASSUME Inv, NEW place \in Places, NEW found \in BOOLEAN, SaveQuietEdit(found, place)
  PROVE  Inv'
<1>1. mishaps \subseteq mishaps'
  BY FetchesGrows DEF SaveQuietEdit
<1>2. Incoming \in FromPeople
  BY IncomingIs DEF Inv, SaveQuietEdit, Working
<1>3. BookInv'
  <2>1. RoomInv /\ BookInv /\ timeline' = timeline /\ RecordEdit(Incoming, 0, 0, 0)
    BY DEF Inv, SaveQuietEdit
  <2>2. PICK e \in FromPeople : RecordEdit(e, 0, 0, 0)
    BY <1>2, <2>1
  <2>3. 0 \in Nat /\ 0 \in ByBot \union {0}
    OBVIOUS
  <2>4. QED
    BY <1>1, <2>1, <2>2, <2>3, RecordKeeps
<1>4. QED
  BY <1>1, <1>3, OverKeeps DEF SaveQuietEdit

LEMMA DecideKeeps ==
  ASSUME Inv, NEW place \in Places, NEW found \in BOOLEAN, Decide(found, place)
  PROVE  Inv'
<1>1. RoomInv /\ BookInv /\ QueueInv /\ JobInv
  BY DEF Inv
<1>2. /\ mishaps \subseteq mishaps'
      /\ found \/ <<Subject(Incoming), "fetch">> \in mishaps'
  BY FetchesGrows DEF Decide
<1>3. timeline' = timeline /\ log' = log /\ pending' = pending /\ current' = current
      /\ job.phase = "taken"
  BY DEF Decide, queue, Working
<1>4. RoomInv' /\ BookInv'
  BY <1>1, <1>2, <1>3, BookUntouched
<1>5. PICK kind \in {"None", "Command", "Chat", "Nod", "Greeting", "Interjection"} :
        job' = [job EXCEPT !.phase = "decided", !.kind = kind, !.place = place, !.found = found]
  BY DEF Decide, Kinds, Unasked
<1>6. job' \in Jobs /\ job'.phase = "decided" /\ job'.found = found
  BY <1>1, <1>5, ConversationAssumption DEF JobInv, Jobs
<1>7. QueueInv'
  <2>1. ByBot' = ByBot /\ FromPeople' = FromPeople
    BY <1>3 DEF ByBot, FromPeople, Ids
  <2>2. Incoming' = Incoming
    BY <1>3 DEF Incoming
  <2>3. QED
    BY <1>1, <1>3, <1>6, <2>1, <2>2 DEF QueueInv, Follows, Stated, Subject, IsEdit
<1>8. JobInv'
  <2>1. IsEdit(Incoming)' => RowsOf(Subject(Incoming))' # {}
    BY <1>3 DEF Decide, Handled, Editable, IsEdit, Subject, RowsOf, Incoming
  <2>2. found \/ Troubled(Subject(Incoming), {"fetch"})'
    BY <1>2, <1>3 DEF Troubled, Subject, IsEdit, Incoming
  <2>3. QED
    BY <1>6, <2>1, <2>2 DEF JobInv
<1>9. QED
  BY <1>4, <1>7, <1>8 DEF Inv

-----------------------------------------------------------------------------
(* The answer *)

(* The messages that take_burst takes follow the one being answered.           *)
LEMMA BurstIs ==
  ASSUME QueueInv
  PROVE  /\ BurstLength \in 0..Len(pending[Here])
         /\ \A k \in 1..BurstLength : Follows(pending[Here][k], Incoming)
<1> DEFINE q == pending[Here]
           Run(n) == /\ \A k \in 1..n : Follows(q[k], Incoming)
                     /\ n < Len(q) => ~Follows(q[n + 1], Incoming)
           ends == {n \in 0..Len(q) : n = Len(q) \/ ~Follows(q[n + 1], Incoming)}
<1>1. Len(q) \in Nat
  BY DEF QueueInv
<1>2. \E n \in 0..Len(q) : Run(n)
  <2>1. ends \in SUBSET Nat /\ Len(q) \in ends
    BY <1>1
  <2>2. PICK n \in ends : \A m \in ends : n <= m
    BY <2>1, LeastOfNat
  <2>3. \A k \in 1..n : Follows(q[k], Incoming)
    <3>1. SUFFICES ASSUME NEW k \in 1..n, ~Follows(q[k], Incoming)
                   PROVE  FALSE
      OBVIOUS
    <3>2. k - 1 \in 0..Len(q) /\ (k - 1) + 1 = k
      BY <1>1, <2>2
    <3>3. k - 1 \in ends
      BY <3>1, <3>2
    <3> HIDE DEF ends
    <3>4. n <= k - 1
      BY <2>2, <3>3
    <3>5. n \in Nat
      BY <2>1
    <3>6. QED
      BY <3>1, <3>4, <3>5
  <2>4. QED
    BY <2>2, <2>3
<1>3. CASE job.kind # "Chat" \/ IsEdit(Incoming) \/ Version(Incoming).kind = "image"
  BY <1>1, <1>3 DEF BurstLength
<1>4. CASE ~(job.kind # "Chat" \/ IsEdit(Incoming) \/ Version(Incoming).kind = "image")
  <2>1. BurstLength = CHOOSE n \in 0..Len(q) : Run(n)
    BY <1>4 DEF BurstLength
  <2>2. QED
    BY <1>2, <2>1
<1>5. QED
  BY <1>3, <1>4

(* What is being answered, once the burst is in. *)
Taken ==
  /\ pending' \in [{Here} -> Seq(Nat)] /\ current' \in [{Here} -> Seq(Nat)]
  /\ \A k \in DOMAIN pending'[Here] : pending'[Here][k] \in FromPeople
  /\ current'[Here] # <<>> /\ Incoming' = Incoming
  /\ \A k \in DOMAIN current'[Here] :
       current'[Here][k] \in FromPeople /\ (k = 1 \/ Follows(current'[Here][k], Incoming))

LEMMA TakenIs ==
  ASSUME QueueInv, job.phase # "idle", TakeBurst
  PROVE  Taken
<1> DEFINE q == pending[Here]
           c == current[Here]
           n == BurstLength
           front == SubSeq(q, 1, n)
           back == SubSeq(q, n + 1, Len(q))
<1>1. /\ n \in 0..Len(q) /\ \A k \in 1..n : Follows(q[k], Incoming)
      /\ q \in Seq(Nat) /\ c \in Seq(Nat) /\ c # <<>>
      /\ \A k \in DOMAIN q : q[k] \in FromPeople
      /\ \A k \in DOMAIN c : c[k] \in FromPeople /\ (k = 1 \/ Follows(c[k], Incoming))
  BY BurstIs DEF QueueInv
<1> HIDE DEF n
<1>2. CASE UNCHANGED queue
  <2>1. pending' = pending /\ current' = current
    BY <1>2 DEF queue
  <2>2. QED
    BY <1>1, <2>1 DEF Taken, Incoming, QueueInv
<1>3. CASE Order!Join(Here, n)
  <2>1. /\ current' = [current EXCEPT ![Here] = @ \o front]
        /\ pending' = [pending EXCEPT ![Here] = back]
    BY <1>3 DEF Order!Join
  <2>2. current'[Here] = c \o front /\ pending'[Here] = back
    BY <2>1 DEF QueueInv
  <2>3. /\ c \o front \in Seq(Nat) /\ back \in Seq(Nat) /\ Len(c \o front) = Len(c) + n
        /\ \A k \in 1..Len(c) : (c \o front)[k] = c[k]
        /\ \A k \in DOMAIN (c \o front) : k \in 1..Len(c) \/ \E j \in 1..n : (c \o front)[k] = q[j]
        /\ \A k \in DOMAIN back : \E j \in DOMAIN q : back[k] = q[j]
    <3>1. c \in Seq(Nat) /\ q \in Seq(Nat) /\ n \in 0..Len(q)
      BY <1>1
    <3>2. Moved(Nat, c, q, n)
      BY <3>1, MovedAre
    <3> HIDE DEF c, q
    <3>3. QED
      BY <3>2 DEF Moved
  <2>4. Len(c) \in Nat \ {0} /\ DOMAIN c = 1..Len(c) /\ 1..n \subseteq DOMAIN q /\ n \in Nat
    BY <1>1
  <2> HIDE DEF c, q, front, back
  <2>5. Incoming' = Incoming /\ current'[Here] # <<>>
    <3>1. current'[Here][1] = c[1]
      BY <2>2, <2>3, <2>4
    <3>2. Len(current'[Here]) # 0
      BY <2>2, <2>3, <2>4
    <3>3. QED
      BY <3>1, <3>2 DEF Incoming, c
  <2>6. ASSUME NEW k \in DOMAIN current'[Here]
        PROVE  current'[Here][k] \in FromPeople /\ (k = 1 \/ Follows(current'[Here][k], Incoming))
    <3>1. CASE k \in 1..Len(c)
      <4>1. current'[Here][k] = c[k] /\ k \in DOMAIN c
        BY <2>2, <2>3, <2>4, <3>1
      <4>2. PICK m \in FromPeople : m = c[k] /\ (k = 1 \/ Follows(m, Incoming))
        BY <1>1, <4>1
      <4>3. QED
        BY <4>1, <4>2
    <3>2. CASE k \notin 1..Len(c)
      <4>1. PICK j \in 1..n : current'[Here][k] = q[j]
        BY <2>2, <2>3, <2>6, <3>2
      <4>2. PICK m \in FromPeople : m = q[j] /\ Follows(m, Incoming)
        BY <1>1, <2>4
      <4>3. QED
        BY <4>1, <4>2
    <3>3. QED
      BY <3>1, <3>2
  <2>7. pending' \in [{Here} -> Seq(Nat)] /\ current' \in [{Here} -> Seq(Nat)]
    BY <2>1, <2>2, <2>3 DEF QueueInv, c, q
  <2>8. \A k \in DOMAIN pending'[Here] : pending'[Here][k] \in FromPeople
    BY <1>1, <2>2, <2>3
  <2>9. QED
    BY <2>5, <2>6, <2>7, <2>8 DEF Taken
<1>4. QED
  BY <1>2, <1>3 DEF TakeBurst, n

(* An answer goes where the message was asked, and where each message that     *)
(* follows it was.                                                             *)
LEMMA RootIsAsked ==
  ASSUME RoomInv, QueueInv, JobInv, job.phase \in {"decided", "answered"}
  PROVE  /\ Root \in Nat
         /\ Joined(Incoming, job.found) # 0 => Root = Joined(Incoming, job.found)
         /\ Joined(Subject(Incoming), TRUE) # 0 /\ ~Troubled(Subject(Incoming), {"fetch"})
              => Root = Joined(Subject(Incoming), TRUE)
         /\ \A m \in FromPeople :
              Follows(m, Incoming) => ~IsEdit(m) /\ (Joined(m, TRUE) # 0 => Root = Joined(m, TRUE))
<1> DEFINE e == Incoming
           s == Subject(e)
<1>1. e \in FromPeople /\ job.found \in BOOLEAN
  BY IncomingIs DEF JobInv, Jobs
<1> HIDE DEF e
<1>2. /\ s \in FromPeople /\ ~IsEdit(s) /\ Subject(s) = s /\ Stated(e) = Stated(s)
      /\ \A found \in BOOLEAN :
           Joined(e, found) = Joined(s, found) /\ Joined(e, found) \in Nat
  BY <1>1, SubjectIs
<1>3. s \in Nat
  BY <1>2, IdsAre
<1> HIDE DEF s
<1>4. job.found \/ timeline[s].replyTo = 0 \/ Troubled(s, {"fetch"})
  BY DEF JobInv, e, s
<1>5. Root = IF Joined(e, job.found) # 0 THEN Joined(e, job.found)
             ELSE IF job.place = "Room" /\ job.kind \in {"Command", "Chat"} THEN s ELSE 0
  BY DEF Root, e, s
<1>6. Root \in Nat
  BY <1>1, <1>2, <1>3, <1>5
<1>7. ASSUME Joined(s, TRUE) # 0, ~Troubled(s, {"fetch"})
      PROVE  Root = Joined(s, TRUE)
  <2>1. Target(s, job.found) = Target(s, TRUE)
    BY <1>1, <1>2, <1>4, <1>7 DEF Target
  <2>2. Joined(s, job.found) = Joined(s, TRUE)
    BY <2>1 DEF Joined
  <2>3. QED
    BY <1>1, <1>2, <1>5, <1>7, <2>2
<1>8. ASSUME NEW m \in FromPeople, Follows(m, e)
      PROVE  ~IsEdit(m) /\ (Joined(m, TRUE) # 0 => Root = Joined(m, TRUE))
  <2>1. /\ ~IsEdit(m) /\ Subject(m) = m /\ timeline[m].thread = Stated(e)
        /\ timeline[m].replyTo # 0 => timeline[m].thread # 0
    BY <1>8 DEF Follows, IsEdit, Subject
  <2>2. CASE timeline[m].thread = 0
    BY <2>1, <2>2 DEF Joined, Stated, Target
  <2>3. CASE timeline[m].thread # 0
    <3>1. Joined(m, TRUE) = Stated(e)
      BY <2>1, <2>3 DEF Joined, Stated
    <3>2. Joined(e, job.found) = Stated(e) /\ Stated(e) # 0
      BY <2>1, <2>3 DEF Joined
    <3>3. QED
      BY <1>5, <2>1, <3>1, <3>2
  <2>4. QED
    BY <2>2, <2>3
<1>9. QED
  BY <1>5, <1>6, <1>7, <1>8 DEF e, s

(* What comes of an answer that was given, or not: post is its event, if any. *)
LEMMA AnsweredIs ==
  ASSUME RoomInv, RoomInv', Kept, QueueInv, JobInv, job.phase = "decided", TakeBurst, log' = log,
         NEW responded \in BOOLEAN, NEW post \in Nat, Responds(responded, post),
         post # 0 =>
           /\ post \in ByBot'
           /\ IsEdit(Incoming) => Asked(Subject(Incoming), post)' /\ IsEdit(timeline[post].shows)'
           /\ ~IsEdit(Incoming) => timeline'[post].thread = Root
  PROVE  QueueInv' /\ JobInv'
<1>1. Taken
  BY TakenIs
<1>2. job' = [job EXCEPT !.phase = "answered", !.responded = responded, !.post = post, !.line = 1]
  BY DEF Responds
<1>3. /\ job' \in Jobs /\ job'.phase = "answered" /\ job'.post = post /\ job'.line = 1
      /\ job'.found = job.found /\ job'.place = job.place /\ job'.kind = job.kind
  BY <1>2 DEF JobInv, Jobs
<1>4. PICK e \in FromPeople : e = Incoming /\ Incoming' = e
  BY <1>1, IncomingIs DEF Taken
<1>5. PICK s \in FromPeople : s = Subject(e) /\ s \in Ids /\ ~IsEdit(s) /\ Subject(s) = s
  BY SubjectIs, IdsAre
<1>6. /\ Subject(e)' = s /\ IsEdit(e)' = IsEdit(e)
      /\ \A found \in BOOLEAN : Joined(e, found)' = Joined(e, found)
  BY <1>5, KeptAre
<1>7. Subject(Incoming)' = s /\ (IsEdit(Incoming)' <=> IsEdit(Incoming)) /\ Subject(Incoming) = s
      /\ \A found \in BOOLEAN : Joined(Incoming, found)' = Joined(Incoming, found)
  BY <1>4, <1>5, <1>6 DEF Subject, IsEdit, Joined, Stated, Target
<1>8. Root' = Root
  BY <1>3, <1>7 DEF Root, JobInv, Jobs
<1>9. QueueInv'
  <2>1. ASSUME NEW k \in DOMAIN current'[Here]
        PROVE  current'[Here][k] \in FromPeople' /\ (k = 1 \/ Follows(current[Here][k], Incoming)')
    <3>1. PICK m \in FromPeople : m = current'[Here][k] /\ (k = 1 \/ Follows(m, e))
      BY <1>1, <1>4, <2>1 DEF Taken
    <3>2. m \in FromPeople' /\ Follows(m, e)' = Follows(m, e)
      BY <1>4, KeptAre
    <3>3. QED
      BY <1>4, <3>1, <3>2 DEF Follows, Stated, Subject, IsEdit
  <2>2. \A k \in DOMAIN pending'[Here] : pending'[Here][k] \in FromPeople'
    BY <1>1, KeptAre DEF Taken
  <2>3. QED
    BY <1>1, <1>3, <2>1, <2>2 DEF QueueInv, Taken
<1>10. 1 \in 1..Len(current'[Here])
  BY <1>1 DEF Taken
<1>11. /\ IsEdit(Incoming)' => RowsOf(Subject(Incoming))' # {}
       /\ job.found \/ timeline'[s].replyTo = 0 \/ Troubled(s, {"fetch"})'
  <2>1. IsEdit(Incoming) => RowsOf(s) # {}
    BY <1>7 DEF JobInv
  <2>2. RowsOf(Subject(Incoming))' = RowsOf(s)
    BY <1>7 DEF RowsOf
  <2>3. job.found \/ timeline[s].replyTo = 0 \/ Troubled(s, {"fetch"})
    BY <1>7 DEF JobInv
  <2>4. QED
    BY <1>5, <1>7, <2>1, <2>2, <2>3, KeptAre DEF Kept
<1>12. ASSUME post # 0, ~IsEdit(Incoming), NEW k \in DOMAIN current'[Here]
       PROVE  Asked(current[Here][k], post)'
  <2>1. PICK m \in FromPeople : m = current'[Here][k] /\ (m = e \/ Follows(m, e))
    <3>1. current'[Here][k] \in FromPeople /\ (k = 1 \/ Follows(current'[Here][k], Incoming))
      BY <1>1, <1>12 DEF Taken
    <3>2. k = 1 => current'[Here][k] = e
      BY <1>4 DEF Incoming
    <3>3. QED
      BY <1>4, <3>1, <3>2
  <2>2. m = e => m = s
    BY <1>4, <1>5, <1>12 DEF Subject
  <2>3. Joined(m, TRUE) # 0 /\ ~Troubled(m, {"fetch"}) => Root = Joined(m, TRUE)
    BY <1>4, <1>7, <2>1, <2>2, RootIsAsked
  <2>4. Joined(m, TRUE)' = Joined(m, TRUE) /\ (Troubled(m, {"fetch"}) => Troubled(m, {"fetch"})')
    BY KeptAre
  <2>5. timeline'[post].thread = Root
    BY <1>12
  <2>6. Asked(m, post)'
    BY <2>3, <2>4, <2>5 DEF Asked
  <2>7. QED
    BY <2>1, <2>6 DEF Asked, Joined, Stated, Target, Subject, IsEdit, Troubled
<1>13. ASSUME post # 0, IsEdit(Incoming)
       PROVE  Asked(Subject(Incoming), job.post)' /\ IsEdit(timeline[job.post].shows)'
  <2>1. Asked(Subject(Incoming), post)' /\ IsEdit(timeline[post].shows)'
    BY <1>4, <1>7, <1>13 DEF Asked, Joined, Stated, Target, Subject, IsEdit, Troubled
  <2>2. QED
    BY <1>3, <2>1 DEF Asked, IsEdit
<1>14. JobInv'
  <2>1. job.found \/ timeline'[Subject(Incoming)'].replyTo = 0 \/ Troubled(Subject(Incoming), {"fetch"})'
    <3>1. timeline'[Subject(Incoming)'].replyTo = timeline'[s].replyTo
      BY <1>7
    <3>2. Troubled(Subject(Incoming), {"fetch"})' = Troubled(s, {"fetch"})'
      BY <1>7 DEF Troubled
    <3>3. QED
      BY <1>11, <3>1, <3>2
  <2>2. \A k \in DOMAIN current'[Here] : post # 0 /\ ~IsEdit(Incoming) => Asked(current[Here][k], job.post)'
    BY <1>3, <1>12 DEF Asked
  <2>3. post # 0 /\ ~IsEdit(Incoming) => timeline'[job'.post].thread = Root'
    BY <1>3, <1>8
  <2>4. QED
    BY <1>3, <1>7, <1>10, <1>11, <1>13, <2>1, <2>2, <2>3 DEF JobInv
<1>15. QED
  BY <1>9, <1>14

(* Nothing is posted. *)
LEMMA UnpostedKeeps ==
  ASSUME Inv, job.phase = "decided", TakeBurst, log' = log, timeline' = timeline,
         mishaps \subseteq mishaps', NEW responded \in BOOLEAN, Responds(responded, 0)
  PROVE  Inv'
<1>1. RoomInv /\ BookInv /\ QueueInv /\ JobInv
  BY DEF Inv
<1>2. RoomInv' /\ BookInv' /\ Kept
  BY <1>1, BookUntouched, NothingSaid
<1>3. QueueInv' /\ JobInv'
  BY <1>1, <1>2, AnsweredIs
<1>4. QED
  BY <1>2, <1>3 DEF Inv

LEMMA AnswersAre ==
  ASSUME RoomInv, QueueInv, job.phase # "idle"
  PROVE  Answers \in SUBSET Nat /\ Last \in Nat /\ ReplyTo \in Nat \union {Root}
<1>1. Incoming \in FromPeople /\ pending[Here] \in Seq(Nat)
  BY IncomingIs DEF QueueInv
<1>2. Subject(Incoming) \in Nat
  BY <1>1, SubjectIs, IdsAre
<1>3. BurstLength \in 0..Len(pending[Here]) /\ Len(pending[Here]) \in Nat
  BY <1>1, BurstIs
<1>4. \A k \in 1..BurstLength : pending[Here][k] \in Nat
  BY <1>1, <1>3
<1>5. Answers \in SUBSET Nat
  BY <1>2, <1>4 DEF Answers
<1>6. Last \in Nat
  <2> DEFINE taken == SubSeq(pending[Here], 1, BurstLength)
  <2>1. taken \in Seq(Nat)
    BY <1>1, <1>3, SplitQueue
  <2> HIDE DEF taken
  <2>2. taken # <<>> => taken[Len(taken)] \in Nat
    BY <2>1
  <2>3. QED
    BY <1>2, <2>2 DEF Last, taken
<1>7. QED
  BY <1>5, <1>6 DEF ReplyTo

(* The room is as it should be while only what the bot posted changes. *)
LEMMA RoomStays ==
  ASSUME RoomInv, timeline' \in Seq(Events), FromPeople' = FromPeople,
         \A m \in FromPeople : timeline'[m] = timeline[m],
         \A q \in ByBot' : timeline'[q].shows \in FromPeople
  PROVE  RoomInv'
<1>1. ASSUME NEW e \in FromPeople'
      PROVE  /\ timeline'[e].content \in Contents
             /\ {timeline'[e].thread, timeline'[e].replyTo, timeline'[e].edits} \subseteq 0..(e - 1)
             /\ IsEdit(e)' => timeline'[e].edits \in FromPeople' /\ ~IsEdit(timeline[e].edits)'
  <2>1. timeline'[e] = timeline[e] /\ e \in FromPeople
    BY <1>1
  <2>2. /\ timeline[e].content \in Contents
        /\ {timeline[e].thread, timeline[e].replyTo, timeline[e].edits} \subseteq 0..(e - 1)
        /\ IsEdit(e) => timeline[e].edits \in FromPeople /\ ~IsEdit(timeline[e].edits)
    BY <2>1 DEF RoomInv
  <2>3. ASSUME IsEdit(e)
        PROVE  timeline'[e].edits \in FromPeople' /\ ~IsEdit(timeline[e].edits)'
    <3>1. PICK o \in FromPeople : o = timeline[e].edits /\ ~IsEdit(o)
      BY <2>2, <2>3
    <3>2. ~IsEdit(o)'
      BY <3>1 DEF IsEdit
    <3>3. QED
      BY <2>1, <3>1, <3>2 DEF IsEdit
  <2>4. IsEdit(e)' => IsEdit(e)
    BY <2>1 DEF IsEdit
  <2>5. QED
    BY <2>1, <2>2, <2>3, <2>4
<1>2. QED
  BY <1>1 DEF RoomInv

(* An earlier answer to an edited message is edited. *)
LEMMA AmendKeeps ==
  ASSUME Inv, Working("decided"), TakeBurst, log' = log, NEW shape, Amend(shape)
  PROVE  Inv'
<1>1. RoomInv /\ BookInv /\ QueueInv /\ JobInv /\ job.phase = "decided"
  BY DEF Inv, Working
<1>2. CASE Suffer(Answers, "send") /\ Responds(TRUE, 0) /\ UNCHANGED timeline
  BY <1>1, <1>2, SufferGrows, UnpostedKeeps
<1>3. CASE /\ timeline' = [timeline EXCEPT ![Previous].shows = Incoming,
                                           ![Previous].answers = @ \union Answers]
           /\ Responds(TRUE, Previous)
           /\ UNCHANGED mishaps
  <2>1. PICK e \in FromPeople : e = Incoming /\ e \in Nat
    BY <1>1, IncomingIs, IdsAre
  <2>2. PICK s \in FromPeople : s = Subject(e) /\ s = Subject(Incoming)
    BY <1>1, <2>1, SubjectIs
  <2>3. Previous # 0 /\ IsEdit(Incoming) /\ IsEdit(e) /\ Previous = Row(s).reply
    BY <2>1, <2>2 DEF Amend, Amends, Previous
  <2>4. RowRight(Row(s)) /\ Row(s).event = s
    <3>1. RowsOf(s) # {}
      BY <1>1, <2>2, <2>3 DEF JobInv
    <3>2. \E i \in DOMAIN log : Row(s) = log[i] /\ log[i].event = s
      BY <3>1 DEF Row, RowsOf
    <3>3. QED
      BY <1>1, <3>2 DEF BookInv
  <2>5. PICK p \in ByBot : p = Previous /\ Asked(s, p)
    BY <2>3, <2>4 DEF RowRight
  <2>6. p \in DOMAIN timeline /\ timeline[p] \in Events /\ Answers \in SUBSET Nat /\ timeline \in Seq(Events)
        /\ p \in Nat /\ p # 0
    BY <1>1, <2>5, IdsAre, AnswersAre DEF RoomInv
  <2> DEFINE post == [timeline[p] EXCEPT !.shows = e, !.answers = @ \union Answers]
  <2>7. timeline' = [timeline EXCEPT ![p] = post]
    BY <1>3, <2>1, <2>5, <2>6
  <2>8. post \in Events /\ post.shows = e /\ post.by = timeline[p].by
        /\ post.content = timeline[p].content /\ post.thread = timeline[p].thread
        /\ post.replyTo = timeline[p].replyTo /\ post.edits = timeline[p].edits
    BY <2>1, <2>6 DEF Events
  <2> HIDE DEF post
  <2>9. timeline' \in Seq(Events) /\ Len(timeline') = Len(timeline) /\ timeline'[p] = post
        /\ \A q \in DOMAIN timeline : q # p => timeline'[q] = timeline[q]
    BY <2>6, <2>7, <2>8
  <2>10. Ids' = Ids /\ Kept
    BY <1>1, <1>3, <2>8, <2>9, IdsAre DEF Kept, Ids
  <2>11. ByBot' = ByBot /\ FromPeople' = FromPeople
    BY <2>10 DEF Kept, ByBot, FromPeople
  <2>12. RoomInv'
    <3>1. \A m \in FromPeople : timeline'[m] = timeline[m] /\ m \in Ids
      BY <1>1, <2>5, <2>9, IdsAre DEF FromPeople
    <3>2. \A q \in ByBot : timeline'[q].shows \in FromPeople
      BY <1>1, <2>8, <2>9, IdsAre DEF RoomInv
    <3>3. QED
      BY <1>1, <2>9, <2>11, <3>1, <3>2, RoomStays
  <2>13. BookInv'
    <3>1. e \in Edits
      BY <2>3 DEF Edits, IsEdit
    <3>2. \A q \in ByBot : q # p => timeline'[q].shows = timeline[q].shows
      BY <1>1, <2>9, IdsAre
    <3>3. timeline'[p].shows = e /\ Asked(Subject(e), p)
      BY <2>2, <2>5, <2>8, <2>9
    <3>4. \A q \in ByBot :
            \/ timeline'[q].shows = timeline[q].shows
            \/ timeline'[q].shows \in Edits /\ Asked(Subject(timeline'[q].shows), q)
      BY <3>1, <3>2, <3>3
    <3>5. QED
      BY <1>1, <2>10, <2>11, <2>12, <3>4, BookStays
  <2>14. Asked(s, p)' /\ IsEdit(e)' /\ timeline'[p].shows = e
    BY <1>1, <2>3, <2>5, <2>8, <2>9, <2>10, <2>12, KeptAre
  <2>15. Asked(Subject(Incoming), p)' /\ IsEdit(timeline[p].shows)'
    <3>1. Taken
      BY <1>1, TakenIs
    <3>2. Subject(Incoming)' = s
      <4>1. Subject(e)' = s
        BY <1>1, <2>2, <2>10, <2>12, KeptAre
      <4>2. QED
        BY <2>1, <3>1, <4>1 DEF Taken, Subject, IsEdit
    <3>3. QED
      BY <2>14, <3>2 DEF Asked, Joined, Stated, Target, Subject, IsEdit, Troubled
  <2>16. QueueInv' /\ JobInv'
    BY <1>1, <1>3, <2>3, <2>5, <2>6, <2>10, <2>11, <2>12, <2>15, AnsweredIs
  <2>17. QED
    BY <2>12, <2>13, <2>16 DEF Inv
<1>4. QED
  BY <1>2, <1>3 DEF Amend

(* An answer is posted where it is placed. *)
LEMMA DeliverPostKeeps ==
  ASSUME Inv, Working("decided"), TakeBurst, log' = log, NEW shape \in Shapes, DeliverPost(shape)
  PROVE  Inv'
<1>1. RoomInv /\ BookInv /\ QueueInv /\ JobInv /\ job.phase = "decided"
  BY DEF Inv, Working
<1>2. CASE Suffer(Answers, "send") /\ Responds(TRUE, 0) /\ UNCHANGED timeline
  BY <1>1, <1>2, SufferGrows, UnpostedKeeps
<1>3. CASE /\ timeline' = Append(timeline, Posted(shape))
           /\ Responds(TRUE, Len(timeline) + 1)
           /\ UNCHANGED mishaps
  <2>1. PICK e \in FromPeople : e = Incoming /\ e \in Nat
    BY <1>1, IncomingIs, IdsAre
  <2>2. PICK s \in FromPeople : s = Subject(e) /\ s = Subject(Incoming)
    BY <1>1, <2>1, SubjectIs
  <2>3. PICK root \in Nat : /\ root = Root
                            /\ Joined(s, TRUE) # 0 /\ ~Troubled(s, {"fetch"}) => root = Joined(s, TRUE)
    BY <1>1, <2>2, RootIsAsked
  <2>4. PICK new \in Events : /\ new = Posted(shape)
                              /\ new.by = Bot /\ new.thread = root /\ new.shows = e
    <3>1. PICK answers \in SUBSET Nat, replyTo \in Nat : answers = Answers /\ replyTo = Placed.replyTo
      BY <1>1, <2>3, AnswersAre DEF Placed
    <3>2. Placed.thread = root
      BY <2>3 DEF Placed
    <3>3. Posted(shape) = [by |-> Bot, content |-> shape, thread |-> root, replyTo |-> replyTo,
                           edits |-> 0, shows |-> e, answers |-> answers]
      BY <2>1, <3>1, <3>2 DEF Posted
    <3>4. Posted(shape) \in Events
      BY <2>1, <3>3 DEF Events
    <3>5. QED
      BY <3>3, <3>4
  <2>5. PICK n \in Nat : n = Len(timeline) + 1 /\ n # 0
    BY <1>1, IdsAre
  <2>6. /\ timeline' \in Seq(Events) /\ Len(timeline') = n /\ timeline'[n] = new
        /\ \A q \in 1..Len(timeline) : timeline'[q] = timeline[q]
    BY <1>1, <1>3, <2>4, <2>5 DEF RoomInv
  <2>7. Ids' = Ids \union {n} /\ n \notin Ids /\ Ids = 1..Len(timeline)
    BY <1>1, <2>5, <2>6, IdsAre DEF Ids
  <2>8. ByBot' = ByBot \union {n} /\ FromPeople' = FromPeople
    BY <2>4, <2>6, <2>7 DEF ByBot, FromPeople
  <2>9. Kept /\ (\A m \in Ids : timeline'[m] = timeline[m]) /\ ByBot \subseteq Ids /\ FromPeople \subseteq Ids
    BY <1>3, <2>6, <2>7 DEF Kept, ByBot, FromPeople
  <2>10. RoomInv'
    <3>1. \A q \in ByBot' : timeline'[q].shows \in FromPeople
      BY <1>1, <2>4, <2>6, <2>8, <2>9 DEF RoomInv
    <3>2. \A m \in FromPeople : timeline'[m] = timeline[m]
      BY <2>9
    <3>3. QED
      BY <1>1, <2>6, <2>8, <3>1, <3>2, RoomStays
  <2>11. Asked(s, n)'
    <3>1. Joined(s, TRUE)' = Joined(s, TRUE) /\ (Troubled(s, {"fetch"}) => Troubled(s, {"fetch"})')
      BY <1>1, <2>9, <2>10, KeptAre
    <3>2. QED
      BY <2>3, <2>4, <2>6, <3>1 DEF Asked
  <2>12. Subject(e)' = s /\ IsEdit(e)' = IsEdit(e)
    BY <1>1, <2>2, <2>9, <2>10, KeptAre
  <2>13. BookInv'
    <3>1. ASSUME NEW q \in ByBot' \ ByBot
          PROVE  Asked(Subject(timeline[q].shows), q)'
      <4>1. q = n /\ timeline'[q].shows = e
        BY <2>4, <2>6, <2>8
      <4>2. Subject(timeline[q].shows)' = s
        BY <2>12, <4>1 DEF Subject, IsEdit
      <4>3. QED
        BY <2>11, <4>1, <4>2 DEF Asked, Joined, Stated, Target, Subject, IsEdit, Troubled
    <3>2. \A q \in ByBot : timeline'[q].shows = timeline[q].shows
      BY <2>9
    <3>3. QED
      BY <1>1, <2>9, <2>10, <3>1, <3>2, BookStays
  <2>14. IsEdit(Incoming) => Asked(Subject(Incoming), n)' /\ IsEdit(timeline[n].shows)'
    <3>1. Taken
      BY <1>1, TakenIs
    <3>2. Subject(Incoming)' = s
      BY <2>1, <2>12, <3>1 DEF Taken, Subject, IsEdit
    <3>3. Asked(Subject(Incoming), n)'
      BY <2>11, <3>2 DEF Asked, Joined, Stated, Target, Subject, IsEdit, Troubled
    <3>4. timeline'[n].shows = e
      BY <2>4, <2>6
    <3>5. IsEdit(timeline[n].shows)' = IsEdit(e)
      BY <2>12, <3>4 DEF IsEdit
    <3>6. QED
      BY <2>1, <3>3, <3>5
  <2>15. QueueInv' /\ JobInv'
    <3>1. n \in ByBot' /\ timeline'[n].thread = Root /\ Responds(TRUE, n)
      BY <1>3, <2>3, <2>4, <2>5, <2>6, <2>8
    <3>2. QED
      BY <1>1, <2>9, <2>10, <2>14, <3>1, AnsweredIs
  <2>16. QED
    BY <2>10, <2>13, <2>15 DEF Inv
<1>4. QED
  BY <1>2, <1>3 DEF DeliverPost

LEMMA AnswerKeeps ==
  ASSUME Inv, Answer
  PROVE  Inv'
<1>1. TakeBurst /\ log' = log /\ Working("decided") /\ job.phase = "decided"
  BY DEF Answer, Working
<1>2. CASE StaySilent
  BY <1>1, <1>2, UnpostedKeeps DEF StaySilent
<1>3. CASE Nod
  BY <1>1, <1>3, SufferGrows, UnpostedKeeps DEF Nod
<1>4. ASSUME NEW shape \in Looks, Amend(shape)
      PROVE  Inv'
  BY <1>1, <1>4, AmendKeeps
<1>5. ASSUME NEW shape \in Looks, DeliverEmoji(shape)
      PROVE  Inv'
  BY <1>1, <1>5, SufferGrows, UnpostedKeeps DEF DeliverEmoji
<1>6. ASSUME NEW shape \in Looks, DeliverPost(shape)
      PROVE  Inv'
  <2>1. shape \in Shapes
    BY DEF Looks
  <2>2. QED
    BY <1>1, <1>6, <2>1, DeliverPostKeeps
<1>7. QED
  BY <1>2, <1>3, <1>4, <1>5, <1>6 DEF Answer

-----------------------------------------------------------------------------
(* The answer is written down *)

(* Outside a thread the answer started, the row's thread is the message's.     *)
LEMMA LoggedThreadIs ==
  ASSUME Inv, job.phase = "answered"
  PROVE  /\ LoggedThread \in Nat /\ Response \in Nat /\ job.post \in ByBot \union {0}
         /\ job.post # 0 => LoggedThread = Root
         /\ job.post = 0 /\ LoggedThread # 0 /\ ~Troubled(Subject(Incoming), {"fetch"})
              => LoggedThread = Joined(Subject(Incoming), TRUE)
<1>1. RoomInv /\ QueueInv /\ JobInv
  BY DEF Inv
<1>2. PICK e \in FromPeople : e = Incoming /\ e \in Nat
  BY <1>1, IncomingIs, IdsAre
<1>3. job.found \in BOOLEAN /\ job.post \in ByBot \union {0}
  BY <1>1 DEF JobInv, Jobs
<1>4. /\ Joined(e, job.found) \in Nat
      /\ Joined(e, job.found) # 0 => Joined(e, job.found) = Joined(e, TRUE)
      /\ Joined(e, TRUE) = Joined(Subject(e), TRUE)
  BY <1>1, <1>3, SubjectIs
<1>5. Root \in Nat /\ (Joined(e, job.found) # 0 => Root = Joined(e, job.found))
  BY <1>1, <1>2, RootIsAsked
<1>6. LoggedThread = IF Joined(e, job.found) # 0 THEN Joined(e, job.found)
                     ELSE IF job.post # 0 THEN Root ELSE 0
  BY <1>2 DEF LoggedThread
<1>7. Response \in Nat
  BY <1>2 DEF Response
<1>8. QED
  BY <1>2, <1>3, <1>4, <1>5, <1>6, <1>7

LEMMA SaveEditKeeps ==
  ASSUME Inv, SaveEdit
  PROVE  Inv'
<1>1. /\ RoomInv /\ BookInv /\ QueueInv /\ JobInv /\ job.phase = "answered"
      /\ timeline' = timeline /\ IsEdit(Incoming) /\ Done
  BY DEF Inv, SaveEdit, Working
<1>2. mishaps \subseteq mishaps'
  BY SufferGrows DEF SaveEdit
<1>3. CASE RecordEdit(Incoming, Response, job.post, LoggedThread)
  <2>1. PICK e \in FromPeople : e = Incoming
    BY <1>1, IncomingIs
  <2>2. PICK post \in ByBot \union {0}, thread \in Nat, response \in Nat :
          /\ post = job.post /\ thread = LoggedThread /\ response = Response
          /\ post = 0 /\ thread # 0 /\ ~Troubled(Subject(e), {"fetch"}) => thread = Joined(Subject(e), TRUE)
    BY <1>1, <2>1, LoggedThreadIs
  <2>3. post # 0 => Asked(Subject(e), post) /\ IsEdit(timeline[post].shows)
    BY <1>1, <2>1, <2>2 DEF JobInv
  <2>4. RecordEdit(e, response, post, thread)
    BY <1>3, <2>1, <2>2
  <2>5. BookInv'
    BY <1>1, <1>2, <2>2, <2>3, <2>4, RecordKeeps
  <2>6. QED
    BY <1>1, <1>2, <2>5, OverKeeps
<1>4. CASE log' = log
  BY <1>1, <1>2, <1>4, BookUntouched, OverKeeps
<1>5. QED
  BY <1>3, <1>4 DEF SaveEdit

LEMMA LineIs ==
  ASSUME Inv, job.phase = "answered", ~IsEdit(Incoming), NEW m, m = current[Here][job.line]
  PROVE  Line(m) \in Rows /\ RowRight(Line(m))
<1>1. RoomInv /\ QueueInv /\ JobInv
  BY DEF Inv
<1>2. current[Here] \in Seq(Nat) /\ job.line \in 1..Len(current[Here])
  BY <1>1 DEF QueueInv, JobInv
<1>3. m \in FromPeople /\ ~IsEdit(m) /\ m \in Nat
  <2>1. m \in FromPeople /\ (job.line = 1 \/ Follows(m, Incoming))
    BY <1>1, <1>2 DEF QueueInv
  <2>2. job.line = 1 => m = Incoming
    BY DEF Incoming
  <2>3. QED
    BY <1>1, <2>1, <2>2, IdsAre DEF Follows, IsEdit
<1>4. LoggedThread \in Nat /\ Response \in Nat /\ job.post \in ByBot \union {0}
      /\ (job.post # 0 => LoggedThread = Root)
  BY LoggedThreadIs
<1>5. job.post # 0 => timeline[job.post].thread = Root /\ Asked(m, job.post)
  BY <1>1, <1>2 DEF JobInv
<1>6. LogBody(Version(m)) \in Bodies /\ ByBot \subseteq Nat
  BY <1>1, <1>3, BodiesAre, IdsAre
<1>7. PICK w \in Rows : /\ w = Line(m) /\ w.event = m /\ w.thread = LoggedThread
                        /\ w.reply = 0 \/ w.reply = job.post
  <2>1. PICK response \in Nat, reply \in Nat :
          /\ Line(m) = [event |-> m, body |-> LogBody(Version(m)), thread |-> LoggedThread,
                        response |-> response, reply |-> reply]
          /\ reply = 0 \/ reply = job.post
    BY <1>4, <1>6 DEF Line
  <2>2. [event |-> m, body |-> LogBody(Version(m)), thread |-> LoggedThread,
         response |-> response, reply |-> reply] \in Rows
    BY <1>3, <1>4, <1>6 DEF Rows
  <2>3. QED
    BY <2>1, <2>2
<1>8. RowRight(w)
  BY <1>3, <1>4, <1>5, <1>7 DEF RowRight
<1>9. QED
  BY <1>7, <1>8

LEMMA LogLineKeeps ==
  ASSUME Inv, LogLine
  PROVE  Inv'
<1>1. /\ RoomInv /\ BookInv /\ QueueInv /\ JobInv /\ job.phase = "answered"
      /\ timeline' = timeline /\ ~IsEdit(Incoming)
  BY DEF Inv, LogLine, Working
<1>2. mishaps \subseteq mishaps'
  BY SufferGrows DEF LogLine
<1>3. BookInv'
  <2> DEFINE m == current[Here][job.line]
  <2>1. PICK w \in Rows : w = Line(m) /\ RowRight(w)
    BY <1>1, LineIs
  <2>2. log \in Seq(Rows) /\ \A i \in DOMAIN log : RowRight(log[i])
    BY <1>1 DEF BookInv
  <2>3. CASE log' = Append(log, w)
    <3>1. log' \in Seq(Rows)
      BY <2>1, <2>2, <2>3
    <3>2. ASSUME NEW i \in DOMAIN log'
          PROVE  RowRight(log'[i])
      <4>1. log'[i] = w \/ (i \in DOMAIN log /\ log'[i] = log[i])
        BY <2>1, <2>2, <2>3, <3>2
      <4>2. QED
        BY <2>1, <2>2, <4>1
    <3>3. QED
      BY <1>1, <1>2, <3>1, <3>2, LogKeeps
  <2>4. CASE log' = log
    BY <1>1, <1>2, <2>4, BookUntouched
  <2>5. QED
    BY <2>1, <2>3, <2>4 DEF LogLine, Insert
<1>4. CASE Done
  BY <1>1, <1>2, <1>3, <1>4, OverKeeps
<1>5. CASE job' = [job EXCEPT !.line = @ + 1] /\ UNCHANGED queue /\ job.line # Len(current[Here])
  <2>1. pending' = pending /\ current' = current
    BY <1>5 DEF queue
  <2>2. RoomInv' /\ Kept /\ ByBot' = ByBot
    BY <1>1, <1>2, NothingSaid
  <2>3. /\ job' \in Jobs /\ job'.phase = "answered" /\ job'.line = job.line + 1 /\ job'.post = job.post
        /\ job'.found = job.found /\ job'.place = job.place /\ job'.kind = job.kind
    BY <1>1, <1>5 DEF JobInv, Jobs
  <2>4. Incoming' = Incoming
    BY <2>1 DEF Incoming
  <2>5. QueueInv'
    <3>1. FromPeople' = FromPeople
      BY <1>1, <2>2 DEF FromPeople, Ids
    <3>2. QED
      BY <1>1, <2>1, <2>3, <2>4, <3>1 DEF QueueInv, Follows, Stated, Subject, IsEdit
  <2>6. JobInv'
    <3>1. job.line \in 1..Len(current[Here]) /\ current[Here] \in Seq(Nat)
      BY <1>1 DEF JobInv, QueueInv
    <3>2. job'.line \in 1..Len(current'[Here])
      BY <1>5, <2>1, <2>3, <3>1
    <3>3. ~IsEdit(Incoming)'
      BY <1>1, <2>4 DEF IsEdit
    <3>4. Root' = Root
      BY <1>1, <2>3, <2>4 DEF Root, Joined, Stated, Target, Subject, IsEdit
    <3>5. job.found \/ timeline'[Subject(Incoming)'].replyTo = 0 \/ Troubled(Subject(Incoming), {"fetch"})'
      BY <1>1, <1>2, <2>4 DEF JobInv, Subject, IsEdit, Troubled
    <3>6. ASSUME job.post # 0
          PROVE  /\ timeline'[job'.post].thread = Root'
                 /\ \A k \in DOMAIN current'[Here] : Asked(current[Here][k], job.post)'
      <4>1. timeline[job.post].thread = Root /\ \A k \in DOMAIN current[Here] : Asked(current[Here][k], job.post)
        BY <1>1, <3>6 DEF JobInv
      <4>2. \A k \in DOMAIN current[Here] : Asked(current[Here][k], job.post)'
        <5>1. ASSUME NEW k \in DOMAIN current[Here]
              PROVE  Asked(current[Here][k], job.post)'
          <6>1. PICK m : m = current[Here][k] /\ m = current'[Here][k] /\ Asked(m, job.post)
            BY <2>1, <4>1
          <6>2. Joined(m, TRUE)' = Joined(m, TRUE)
            BY <1>1 DEF Joined, Stated, Target, Subject, IsEdit
          <6>3. Asked(m, job.post)'
            BY <1>1, <1>2, <2>3, <6>1, <6>2 DEF Asked, Troubled
          <6>4. QED
            BY <6>1, <6>3 DEF Asked, Joined, Stated, Target, Subject, IsEdit, Troubled
        <5>2. QED
          BY <5>1
      <4>3. QED
        BY <1>1, <2>1, <2>3, <3>4, <4>1, <4>2
    <3>7. QED
      BY <1>1, <2>2, <2>3, <3>2, <3>3, <3>5, <3>6 DEF JobInv
  <2>7. QED
    BY <1>3, <2>2, <2>5, <2>6 DEF Inv
<1>6. QED
  BY <1>4, <1>5 DEF LogLine

-----------------------------------------------------------------------------
(* The worker dies, the process stops and starts *)

LEMMA LoseKeeps ==
  ASSUME Inv, Lose, timeline' = timeline, log' = log
  PROVE  Inv'
<1>1. mishaps \subseteq mishaps'
  BY SufferGrows DEF Lose
<1>2. RoomInv' /\ BookInv'
  BY <1>1, BookUntouched DEF Inv
<1>3. QueueInv' /\ JobInv'
  BY DroppedIsIdle DEF Lose
<1>4. QED
  BY <1>2, <1>3 DEF Inv

(* Also what happens to nobody's message. *)
LEMMA NothingKeeps ==
  ASSUME Inv, UNCHANGED <<timeline, log, job, mishaps, queue>>
  PROVE  Inv'
<1>1. RoomInv /\ BookInv /\ QueueInv /\ JobInv
  BY DEF Inv
<1>2. /\ timeline' = timeline /\ log' = log /\ job' = job /\ mishaps' = mishaps
      /\ pending' = pending /\ current' = current
  BY DEF queue
<1>3. RoomInv' /\ BookInv' /\ Kept
  BY <1>1, <1>2, BookUntouched, NothingSaid
<1>4. FromPeople' = FromPeople
  BY <1>2 DEF FromPeople, ByBot, Ids
<1>5. QueueInv' /\ JobInv'
  BY <1>1, <1>2, <1>3, <1>4, DeskStays DEF QueueInv
<1>6. QED
  BY <1>3, <1>5 DEF Inv

LEMMA DieKeeps ==
  ASSUME Inv, Die
  PROVE  Inv'
  BY LoseKeeps DEF Die

LEMMA StopKeeps ==
  ASSUME Inv, Stop
  PROVE  Inv'
<1>1. timeline' = timeline /\ log' = log
  BY DEF Stop
<1>2. Lose \/ UNCHANGED <<job, mishaps, queue>>
  BY DEF Stop
<1>3. QED
  BY <1>1, <1>2, LoseKeeps, NothingKeeps

LEMMA StartKeeps ==
  ASSUME Inv, Start
  PROVE  Inv'
  BY NothingKeeps DEF Start

-----------------------------------------------------------------------------
LEMMA InitIsFine == Init => Inv
<1> SUFFICES ASSUME Init
             PROVE  Inv
  OBVIOUS
<1>1. timeline = <<>> /\ log = <<>> /\ job = Idle
  BY DEF Init
<1>2. pending = [r \in {Here} |-> <<>>] /\ current = [r \in {Here} |-> <<>>]
  BY DEF Init, Order!Init
<1>3. Ids = {} /\ FromPeople = {} /\ ByBot = {}
  BY <1>1 DEF Ids, FromPeople, ByBot
<1>4. RoomInv
  BY <1>1, <1>3 DEF RoomInv
<1>5. BookInv
  BY <1>1, <1>3 DEF BookInv
<1>6. QueueInv
  BY <1>1, <1>2 DEF QueueInv, Idle
<1>7. JobInv
  BY <1>1 DEF JobInv, Jobs, Idle
<1>8. QED
  BY <1>4, <1>5, <1>6, <1>7 DEF Inv

LEMMA NextKeeps ==
  ASSUME Inv, [Next]_vars
  PROVE  Inv'
<1>1. CASE PeopleTalk
  BY <1>1, SayKeeps DEF PeopleTalk
<1>2. CASE Begin
  BY <1>2, BeginKeeps
<1>3. CASE DropEdit
  BY <1>3, DropEditKeeps
<1>4. CASE Answer
  BY <1>4, AnswerKeeps
<1>5. CASE SaveEdit
  BY <1>5, SaveEditKeeps
<1>6. CASE LogLine
  BY <1>6, LogLineKeeps
<1>7. ASSUME NEW place \in Places, NEW found \in BOOLEAN, SaveQuietEdit(found, place)
      PROVE  Inv'
  BY <1>7, SaveQuietEditKeeps
<1>8. ASSUME NEW place \in Places, NEW found \in BOOLEAN, Decide(found, place)
      PROVE  Inv'
  BY <1>8, DecideKeeps
<1>9. ASSUME NEW place \in Places, LoseQuietEdit(place)
      PROVE  Inv'
  BY <1>9, LoseQuietEditKeeps
<1>10. CASE Die \/ Stop \/ Start
  BY <1>10, DieKeeps, StopKeeps, StartKeeps
<1>11. CASE UNCHANGED vars
  BY <1>11, NothingKeeps DEF vars
<1>12. QED
  BY <1>1, <1>2, <1>3, <1>4, <1>5, <1>6, <1>7, <1>8, <1>9, <1>10, <1>11 DEF Next, Work

LEMMA InvHolds == Spec => []Inv
<1>1. Inv /\ [Next]_vars => Inv'
  BY NextKeeps
<1>2. QED
  BY InitIsFine, <1>1, PTL DEF Spec

(* A message in a thread is answered in that thread, also one that only        *)
(* replies to a message there, however often it and its answer are edited and  *)
(* whatever fails, as long as what it replies to can be fetched: thread_root   *)
(* and existing_thread (src/src/handler.rs:857-888).                           *)
THEOREM AnsweredWhereAsked == Spec => []AnswersWhereAsked
<1>1. ASSUME Inv
      PROVE  AnswersWhereAsked
  <2> SUFFICES ASSUME NEW p \in ByBot,
                      Joined(timeline[p].shows, TRUE) # 0,
                      ~Troubled(Subject(timeline[p].shows), {"fetch"})
               PROVE  timeline[p].thread = Joined(timeline[p].shows, TRUE)
    BY DEF AnswersWhereAsked
  <2>1. PICK e \in FromPeople : e = timeline[p].shows /\ Asked(Subject(e), p)
    BY <1>1 DEF Inv, RoomInv, BookInv
  <2>2. Joined(Subject(e), TRUE) = Joined(e, TRUE)
    BY <1>1, SubjectIs DEF Inv
  <2>3. QED
    BY <2>1, <2>2 DEF Asked
<1>2. QED
  BY <1>1, InvHolds, PTL

(* The log has an answer in the thread it was posted in, the answer to a burst *)
(* as well, until an edit is answered, unless what its message replies to      *)
(* could not be fetched (src/src/handler.rs:857-896).                          *)
THEOREM FreshThreadLogged == Spec => []FreshThread
<1>1. ASSUME Inv
      PROVE  FreshThread
  <2> SUFFICES ASSUME NEW i \in DOMAIN log, log[i].reply # 0,
                      timeline[log[i].reply].shows \notin Edits,
                      ~Troubled(log[i].event, {"fetch"})
               PROVE  timeline[log[i].reply].thread = log[i].thread
    BY DEF FreshThread
  <2>1. RowRight(log[i])
    BY <1>1 DEF Inv, BookInv
  <2>2. timeline[log[i].reply].shows \in FromPeople
    BY <1>1, <2>1 DEF Inv, RoomInv, RowRight
  <2>3. QED
    BY <2>1, <2>2 DEF RowRight, IsEdit, Edits
<1>2. QED
  BY <1>1, InvHolds, PTL

-----------------------------------------------------------------------------
(* What the queue, the log and the answers have to do with each other          *)

Queue == INSTANCE RoomOrderProofs WITH Rooms <- {Here}, Items <- Nat

(* The messages being answered, those that wait, and those of a burst that     *)
(* have their line in the log already.                                         *)
Taking == {current[Here][k] : k \in DOMAIN current[Here]}
Waiting == {pending[Here][k] : k \in DOMAIN pending[Here]}
Written == {current[Here][k] : k \in {k \in DOMAIN current[Here] : k < job.line}}

(* Messages are queued in the order they were said. *)
LineInv ==
  /\ Queue!IInv
  /\ \A k \in DOMAIN arrived[Here] : arrived[Here][k] \in FromPeople
  /\ \A j, k \in DOMAIN arrived[Here] : j < k => arrived[Here][j] < arrived[Here][k]

(* What is decided of the one message that was taken. *)
DeskInv ==
  /\ job.phase \in {"taken", "decided"} => Len(current[Here]) = 1
  /\ job.phase # "answered" => job.post = 0 /\ job.line = 0
  /\ job.phase \in {"decided", "answered"} =>
       /\ job.place \in Places
       /\ IsEdit(Incoming) => Editable(Incoming) /\ Len(current[Here]) = 1
  /\ /\ job.phase = "decided" /\ ~IsEdit(Incoming)
     /\ IsCommand(Incoming) \/ Addressed(Incoming, job.found, job.place)
     => job.kind \in {"Command", "Chat", "Nod"}

(* The answer that is not in the log yet. *)
AnswerInv ==
  /\ job.post # 0 =>
       /\ job.responded /\ timeline[job.post].shows = Incoming
       /\ \A m \in Taking : Subject(m) \in timeline[job.post].answers
       /\ \/ Previous = job.post
          \/ /\ Previous = 0 \/ (Previous < job.post /\ timeline[job.post].content = "pictures")
             /\ timeline[job.post].thread = Root
  /\ job.phase = "answered" /\ job.responded /\ job.post = 0 =>
       Previous = 0 \/ Troubled(Subject(Incoming), {"send"})

(* One row for each message that is over, in order; an answer on one row. *)
LogInv ==
  /\ \A i, j \in DOMAIN log : i < j => log[i].event < log[j].event
  /\ \A i, j \in DOMAIN log : log[i].reply # 0 /\ log[i].reply = log[j].reply => i = j
  /\ \A i \in DOMAIN log : log[i].event \in Settled \union Written
  /\ \A m \in (Settled \union Written) \ Edits : RowsOf(m) # {} \/ Troubled(m, {"write", "lost"})

(* What a row says of its answer. *)
RowInv(w) ==
  /\ w.response \in FromPeople \union {0}
  /\ w.reply # 0 => w.event \in timeline[w.reply].answers
  /\ w.reply # 0 /\ w.reply = job.post => IsEdit(Incoming) /\ w.event = Subject(Incoming)
  /\ Joined(w.event, TRUE) # 0 /\ ~Troubled(w.event, {"fetch"}) => w.thread = Joined(w.event, TRUE)
  /\ w.event \in Written => w.body = LogBody(timeline[w.event].content)

(* What it says its answer is, its answer shows; and it has the latest version *)
(* of its message.                                                             *)
ShownIn(w) ==
  w.reply # 0 /\ ~Troubled(w.event, {"send", "write", "lost"}) /\ job.post # w.reply =>
    timeline[w.reply].shows = w.response

Versions(m) == {e \in Settled : Subject(e) = m /\ timeline[e].by = timeline[m].by}

LatestIn(w) ==
  \/ Troubled(w.event, {"fetch", "write", "lost"})
  \/ w.event \notin Settled
  \/ \E e \in Versions(w.event) : /\ \A d \in Versions(w.event) : d <= e
                                  /\ w.body = LogBody(timeline[e].content)

RowGood(w) == RowInv(w) /\ ShownIn(w) /\ LatestIn(w)

(* Message m has an edit answered by post p, and its row does not say so yet. *)
Revising(p, m) == p = job.post /\ IsEdit(Incoming) /\ m = Subject(Incoming)

(* Why the row of message m, which p answers, has no answer. *)
Excused(p, m) ==
  \/ \E n \in timeline[p].answers : n > m
  \/ \E n \in timeline[p].answers : Troubled(n, {"write", "lost"})

Superseded(p) ==
  \E i \in DOMAIN log :
    /\ log[i].event \in timeline[p].answers
    /\ log[i].reply > p /\ timeline[log[i].reply].content = "pictures"

Accounted(p) ==
  \/ \E i \in DOMAIN log : log[i].reply = p
  \/ job.post = p
  \/ Superseded(p)
  \/ \E m \in timeline[p].answers : Troubled(m, {"write", "lost"})

(* What a row says of a post that answers its message, also one that was      *)
(* followed by another.                                                        *)
PairInv(p, w) ==
  w.event \in timeline[p].answers =>
    /\ w.reply = 0 /\ ~Revising(p, w.event) => Excused(p, w.event)
    /\ /\ timeline[p].thread # 0 /\ ~Troubled(w.event, {"fetch", "write", "lost"})
       /\ w.reply = p \/ ~Revising(p, w.event)
       => w.thread # 0 /\ timeline[p].thread \in {w.thread, w.event}

PostInv(p) ==
  /\ timeline[p].thread \in Ids \union {0}
  /\ \A m \in timeline[p].answers : m \in FromPeople \ Edits
  /\ \A m \in timeline[p].answers : m \in Settled \/ (p = job.post /\ m \in Taking)
  /\ Accounted(p)
  /\ \A i \in DOMAIN log : PairInv(p, log[i])

(* Message m is for the bot, and got an answer or a reaction. *)
Heard(m) ==
  /\ IsCommand(m) \/ (\A place \in Places : Addressed(m, TRUE, place))
  /\ ~Troubled(m, {"fetch", "send", "lost"})
  => PostsFor(m) # {} \/ \E r \in reactions : m \in r.answers

HeardInv ==
  /\ \A r \in reactions : r.on \in Ids /\ r.answers \subseteq FromPeople
  /\ \A m \in Settled \ Edits : Heard(m)
  /\ job.phase = "answered" => \A m \in Taking \ Edits : Heard(m)

UpInv == up \in BOOLEAN /\ (~up => Unfinished = <<>>)

Records ==
  /\ LogInv
  /\ \A i \in DOMAIN log : RowGood(log[i])
  /\ \A p \in ByBot : PostInv(p)
  /\ OneAnswer

IInv == Inv /\ LineInv /\ DeskInv /\ AnswerInv /\ Records /\ HeardInv /\ UpInv

(* The history is in the order the room is in, and so is what is left of it.   *)
InLine ==
  /\ Settled \union Taking \union Waiting \subseteq FromPeople
  /\ \A m \in Settled, n \in Taking \union Waiting : m < n
  /\ \A j, k \in DOMAIN current[Here] : j < k => current[Here][j] < current[Here][k]

LEMMA QueueIs ==
  ASSUME LineInv
  PROVE  /\ arrived[Here] \in Seq(Nat) /\ current[Here] \in Seq(Nat) /\ pending[Here] \in Seq(Nat)
         /\ settled[Here] \in 0..Len(arrived[Here])
         /\ current[Here] \o pending[Here] = SubSeq(arrived[Here], settled[Here] + 1, Len(arrived[Here]))
         /\ arrived \in [{Here} -> Seq(Nat)] /\ settled \in [{Here} -> Nat]
<1>1. Queue!IInv /\ Here \in {Here}
  BY DEF LineInv
<1>2. QED
  BY <1>1, Queue!RoomFacts
    DEF Queue!IInv, Queue!InOrder, Queue!Line, Queue!Unsettled, Queue!TypeOK

LEMMA PlacesAre ==
  ASSUME LineInv
  PROVE  InLine
<1> DEFINE a == arrived[Here]
           c == current[Here]
           q == pending[Here]
           s == settled[Here]
<1>1. /\ a \in Seq(Nat) /\ c \in Seq(Nat) /\ q \in Seq(Nat) /\ s \in 0..Len(a)
      /\ c \o q = SubSeq(a, s + 1, Len(a))
  BY QueueIs
<1>2. /\ \A k \in DOMAIN a : a[k] \in FromPeople
      /\ \A j, k \in DOMAIN a : j < k => a[j] < a[k]
  BY DEF LineInv
<1>3. /\ Settled = {a[k] : k \in 1..s} /\ Taking = {c[k] : k \in DOMAIN c}
      /\ Waiting = {q[k] : k \in DOMAIN q}
  BY DEF Settled, Taking, Waiting
<1>4. (\A j, k \in DOMAIN c : j < k => c[j] < c[k]) =>
        \A j, k \in DOMAIN current[Here] : j < k => current[Here][j] < current[Here][k]
  OBVIOUS
<1> HIDE DEF a, c, q, s
<1>5. DOMAIN a = 1..Len(a) /\ DOMAIN c = 1..Len(c) /\ DOMAIN q = 1..Len(q) /\ s \in Nat /\ s <= Len(a)
      /\ Len(a) \in Nat /\ Len(c) \in Nat /\ Len(q) \in Nat
  BY <1>1
<1>6. /\ \A k \in 1..Len(c) : s + k \in 1..Len(a) /\ c[k] = a[s + k]
      /\ \A k \in 1..Len(q) : s + Len(c) + k \in 1..Len(a) /\ q[k] = a[s + Len(c) + k]
  <2>1. InHistory(a, c, q, s)
    BY <1>1, PlacesInHistory
  <2>2. QED
    BY <2>1 DEF InHistory
<1>7. ASSUME NEW m \in Settled
      PROVE  \E k \in DOMAIN a : k <= s /\ m = a[k]
  <2>1. PICK k \in 1..s : m = a[k]
    BY <1>3
  <2>2. k \in DOMAIN a /\ k <= s
    BY <1>5
  <2>3. QED
    BY <2>1, <2>2
<1>8. ASSUME NEW m \in Taking \union Waiting
      PROVE  \E k \in DOMAIN a : s < k /\ m = a[k]
  <2>1. CASE m \in Taking
    <3>1. PICK k \in 1..Len(c) : m = a[s + k] /\ s + k \in 1..Len(a)
      BY <1>3, <1>5, <1>6, <2>1
    <3>2. s < s + k
      BY <1>5
    <3>3. QED
      BY <1>5, <3>1, <3>2
  <2>2. CASE m \in Waiting
    <3>1. PICK k \in 1..Len(q) : m = a[s + Len(c) + k] /\ s + Len(c) + k \in 1..Len(a)
      BY <1>3, <1>5, <1>6, <2>2
    <3>2. s < s + Len(c) + k
      BY <1>5
    <3>3. QED
      BY <1>5, <3>1, <3>2
  <2>3. QED
    BY <2>1, <2>2
<1>9. \A m \in Settled, n \in Taking \union Waiting : m < n
  <2> SUFFICES ASSUME NEW m \in Settled, NEW n \in Taking \union Waiting
               PROVE  m < n
    OBVIOUS
  <2>1. PICK j \in DOMAIN a : j <= s /\ m = a[j]
    BY <1>7
  <2>2. PICK k \in DOMAIN a : s < k /\ n = a[k]
    BY <1>8
  <2>3. j < k
    BY <1>5, <2>1, <2>2
  <2>4. QED
    BY <1>2, <2>1, <2>2, <2>3
<1>10. ASSUME NEW j \in DOMAIN c, NEW k \in DOMAIN c, j < k
       PROVE  c[j] < c[k]
  <2>1. s + j \in DOMAIN a /\ s + k \in DOMAIN a /\ s + j < s + k /\ c[j] = a[s + j] /\ c[k] = a[s + k]
    BY <1>5, <1>6, <1>10
  <2>2. QED
    BY <1>2, <2>1
<1>11. Settled \union Taking \union Waiting \subseteq FromPeople
  BY <1>2, <1>7, <1>8
<1>12. QED
  BY <1>4, <1>9, <1>10, <1>11 DEF InLine

(* What is posted leaves the rest as it is, and so does editing a post. *)
LEMMA AppendKeeps ==
  ASSUME RoomInv, NEW new, timeline' = Append(timeline, new), mishaps' = mishaps
  PROVE  /\ Kept /\ Ids' = Ids \union {Len(timeline) + 1} /\ Len(timeline) + 1 \notin Ids
         /\ timeline'[Len(timeline) + 1] = new /\ \A e \in Ids : timeline'[e] = timeline[e]
<1>1. timeline \in Seq(Events) /\ Len(timeline) \in Nat
  BY IdsAre DEF RoomInv
<1>2. /\ Len(timeline') = Len(timeline) + 1 /\ timeline'[Len(timeline) + 1] = new
      /\ \A e \in 1..Len(timeline) : timeline'[e] = timeline[e]
  BY <1>1
<1>3. Ids' = Ids \union {Len(timeline) + 1} /\ Ids = 1..Len(timeline) /\ Len(timeline) + 1 \notin Ids
  BY <1>1, <1>2 DEF Ids
<1>4. QED
  BY <1>2, <1>3 DEF Kept

LEMMA AmendingKeeps ==
  ASSUME RoomInv, mishaps' = mishaps,
         timeline' = [timeline EXCEPT ![Previous].shows = Incoming,
                                      ![Previous].answers = @ \union Answers]
  PROVE  /\ Kept /\ Ids' = Ids
         /\ \A e \in Ids : e # Previous => timeline'[e] = timeline[e]
         /\ Previous \in Ids => /\ timeline'[Previous].shows = Incoming
                                /\ timeline'[Previous].answers = timeline[Previous].answers \union Answers
<1>1. timeline \in Seq(Events) /\ Len(timeline) \in Nat /\ Ids = DOMAIN timeline
      /\ \A e \in Ids : timeline[e] \in Events
  BY IdsAre DEF RoomInv
<1>2. CASE Previous \in Ids
  <2>1. PICK p \in Ids : p = Previous
    BY <1>2
  <2> DEFINE post == [timeline[p] EXCEPT !.shows = Incoming, !.answers = @ \union Answers]
  <2>2. timeline' = [timeline EXCEPT ![p] = post]
    BY <1>1, <2>1
  <2>3. post.shows = Incoming /\ post.answers = timeline[p].answers \union Answers
        /\ post.by = timeline[p].by /\ post.content = timeline[p].content
        /\ post.thread = timeline[p].thread /\ post.replyTo = timeline[p].replyTo
        /\ post.edits = timeline[p].edits
    <3>1. timeline[p] \in Events
      BY <1>1
    <3>2. QED
      BY <3>1 DEF Events
  <2> HIDE DEF post
  <2>4. Len(timeline') = Len(timeline) /\ timeline'[p] = post
        /\ \A e \in DOMAIN timeline : e # p => timeline'[e] = timeline[e]
    BY <1>1, <2>2
  <2>5. Ids' = Ids
    BY <2>4 DEF Ids
  <2>6. QED
    BY <1>1, <2>1, <2>3, <2>4, <2>5 DEF Kept
<1>3. CASE Previous \notin Ids
  <2>1. timeline' = timeline
    BY <1>1, <1>3
  <2>2. QED
    BY <1>3, <2>1 DEF Kept, Ids
<1>4. QED
  BY <1>2, <1>3

(* Each step of the conversation is one of the queue, or none. *)
LEMMA QueueSteps ==
  ASSUME Inv, [Next]_vars
  PROVE  [Queue!Next]_(Queue!vars)
<1>1. Here \in {Here} /\ QueueInv /\ RoomInv
  BY DEF Inv
<1>2. CASE UNCHANGED queue
  BY <1>2 DEF queue, Queue!vars
<1>3. ASSUME NEW n \in Nat, Order!Arrive(Here, n)
      PROVE  Queue!Next
  BY <1>1, <1>3 DEF Order!Arrive, Queue!Arrive, Queue!Next
<1>4. CASE Order!Begin(Here)
  BY <1>1, <1>4 DEF Order!Begin, Queue!Begin, Queue!Next
<1>5. CASE Order!Join(Here, BurstLength)
  <2>1. BurstLength \in 1..Len(pending[Here])
    BY <1>5 DEF Order!Join
  <2>2. Queue!Join(Here, BurstLength)
    BY <1>5 DEF Order!Join, Queue!Join
  <2>3. QED
    BY <1>1, <2>1, <2>2 DEF Queue!Next
<1>6. CASE Order!Finish(Here)
  BY <1>1, <1>6 DEF Order!Finish, Queue!Finish, Queue!Next
<1>7. CASE Order!Drop({Here})
  <2>1. Queue!Drop({Here})
    BY <1>7 DEF Order!Drop, Queue!Drop, Order!Line, Queue!Line
  <2>2. QED
    BY <2>1 DEF Queue!Next
<1>8. Len(timeline) + 1 \in Nat
  BY <1>1, IdsAre
<1>9. PeopleTalk => UNCHANGED queue \/ Order!Arrive(Here, Len(timeline) + 1)
  BY DEF PeopleTalk, Say
<1>10. Work => \/ UNCHANGED queue \/ Order!Begin(Here) \/ Order!Finish(Here)
               \/ Order!Join(Here, BurstLength)
  BY DEF Work, Begin, DropEdit, Answer, SaveEdit, LogLine, SaveQuietEdit, Decide, LoseQuietEdit,
         Done, TakeBurst
<1>11. Die \/ Stop \/ Start => UNCHANGED queue \/ Order!Drop({Here})
  BY DEF Die, Stop, Start, Lose
<1>12. QED
  BY <1>2, <1>3, <1>4, <1>5, <1>6, <1>7, <1>8, <1>9, <1>10, <1>11 DEF Next, vars

LEMMA KeptHolds ==
  ASSUME Inv, [Next]_vars
  PROVE  Kept
<1>1. RoomInv
  BY DEF Inv
<1>2. CASE timeline' = timeline /\ mishaps \subseteq mishaps'
  BY <1>1, <1>2, NothingSaid
<1>3. CASE PeopleTalk
  <2>1. PICK new : timeline' = Append(timeline, new) /\ mishaps' = mishaps
    BY <1>3 DEF PeopleTalk, Say
  <2>2. QED
    BY <1>1, <2>1, AppendKeeps
<1>4. CASE Answer
  <2>1. \/ timeline' = timeline /\ mishaps \subseteq mishaps'
        \/ mishaps' = mishaps /\ timeline' = [timeline EXCEPT ![Previous].shows = Incoming,
                                                          ![Previous].answers = @ \union Answers]
        \/ \E new : timeline' = Append(timeline, new) /\ mishaps' = mishaps
    BY <1>4, SufferGrows DEF Answer, StaySilent, Nod, Amend, DeliverEmoji, DeliverPost
  <2>2. QED
    BY <1>1, <1>2, <2>1, AppendKeeps, AmendingKeeps
<1>5. CASE Work /\ ~Answer
  <2>1. timeline' = timeline
    BY <1>5 DEF Work, Begin, DropEdit, SaveEdit, LogLine, SaveQuietEdit, Decide, LoseQuietEdit
  <2>2. mishaps \subseteq mishaps'
    BY <1>5, SufferGrows, FetchesGrows
      DEF Work, Begin, DropEdit, SaveEdit, LogLine, SaveQuietEdit, Decide, LoseQuietEdit
  <2>3. QED
    BY <1>2, <2>1, <2>2
<1>6. CASE Die \/ Stop \/ Start \/ UNCHANGED vars
  BY <1>2, <1>6, SufferGrows DEF Die, Stop, Start, Lose, vars
<1>7. QED
  BY <1>3, <1>4, <1>5, <1>6 DEF Next

LEMMA LineHolds ==
  ASSUME Inv, Inv', LineInv, [Next]_vars
  PROVE  LineInv'
<1>1. Queue!IInv'
  BY QueueSteps, Queue!NextIInv DEF LineInv
<1>2. Kept /\ RoomInv /\ RoomInv'
  BY KeptHolds DEF Inv
<1>3. \A m \in FromPeople : m \in FromPeople' /\ m \in Nat /\ m <= Len(timeline) /\ Len(timeline) \in Nat
  BY <1>2, KeptAre, IdsAre DEF FromPeople, Ids
<1>4. arrived[Here] \in Seq(Nat) /\ arrived \in [{Here} -> Seq(Nat)]
  BY QueueIs
<1>5. CASE arrived' = arrived
  BY <1>1, <1>3, <1>5 DEF LineInv
<1>6. CASE PeopleTalk /\ Order!Arrive(Here, Len(timeline) + 1)
  <2> DEFINE a == arrived[Here]
             n == Len(timeline) + 1
  <2>1. arrived' = [arrived EXCEPT ![Here] = Append(@, n)]
    BY <1>6 DEF Order!Arrive
  <2>2. arrived'[Here] = Append(a, n)
    BY <1>4, <2>1
  <2>3. n \in FromPeople' /\ n \in Nat /\ Len(timeline) \in Nat
    <3>1. \E u \in Users : \E new : timeline' = Append(timeline, new) /\ new.by = u /\ mishaps' = mishaps
      BY <1>6 DEF PeopleTalk, Say
    <3>2. PICK new : timeline' = Append(timeline, new) /\ new.by \in Users /\ mishaps' = mishaps
      BY <3>1
    <3>3. Ids' = Ids \union {n} /\ timeline'[n].by # Bot
      BY <1>2, <3>2, AppendKeeps, ConversationAssumption
    <3>4. QED
      BY <1>2, <3>3, IdsAre DEF FromPeople, ByBot
  <2>4. /\ \A k \in DOMAIN a : a[k] \in FromPeople
        /\ \A j, k \in DOMAIN a : j < k => a[j] < a[k]
    BY DEF LineInv
  <2> HIDE DEF a
  <2>5. a \in Seq(Nat)
    BY <1>4 DEF a
  <2>6. /\ DOMAIN Append(a, n) = 1..(Len(a) + 1) /\ Append(a, n)[Len(a) + 1] = n
        /\ \A k \in 1..Len(a) : Append(a, n)[k] = a[k]
        /\ DOMAIN a = 1..Len(a) /\ Len(a) \in Nat
    BY <2>3, <2>5
  <2> HIDE DEF n
  <2>7. ASSUME NEW k \in DOMAIN Append(a, n)
        PROVE  Append(a, n)[k] \in FromPeople'
    <3>1. CASE k = Len(a) + 1
      BY <2>3, <2>6, <3>1
    <3>2. CASE k \in DOMAIN a
      BY <1>3, <2>4, <2>6, <3>2
    <3>3. QED
      BY <2>6, <3>1, <3>2
  <2>8. ASSUME NEW j \in DOMAIN Append(a, n), NEW k \in DOMAIN Append(a, n), j < k
        PROVE  Append(a, n)[j] < Append(a, n)[k]
    <3>1. j \in DOMAIN a /\ Append(a, n)[j] = a[j]
      BY <2>6, <2>8
    <3>2. CASE k = Len(a) + 1
      <4>1. a[j] \in Nat /\ a[j] <= Len(timeline)
        BY <1>3, <2>4, <3>1
      <4>2. QED
        BY <2>3, <2>6, <3>1, <3>2, <4>1 DEF n
    <3>3. CASE k \in DOMAIN a
      BY <2>4, <2>6, <2>8, <3>1, <3>3
    <3>4. QED
      BY <2>6, <3>2, <3>3
  <2>9. QED
    BY <1>1, <2>2, <2>7, <2>8 DEF LineInv
<1>7. arrived' = arrived \/ (PeopleTalk /\ Order!Arrive(Here, Len(timeline) + 1))
  <2>1. CASE PeopleTalk
    BY <2>1 DEF PeopleTalk, Say, queue
  <2>2. CASE Work
    BY <2>2 DEF Work, Begin, DropEdit, Answer, SaveEdit, LogLine, SaveQuietEdit, Decide, LoseQuietEdit,
                Done, TakeBurst, queue, Order!Begin, Order!Join, Order!Finish
  <2>3. CASE Die \/ Stop \/ Start \/ UNCHANGED vars
    BY <2>3 DEF Die, Stop, Start, Lose, vars, queue, Order!Drop
  <2>4. QED
    BY <2>1, <2>2, <2>3 DEF Next
<1>8. QED
  BY <1>5, <1>6, <1>7

(* What is over, when the turn of the next message has come, and when the line *)
(* is dropped.                                                                 *)
LEMMA FinishSettles ==
  ASSUME LineInv, Order!Finish(Here)
  PROVE  Settled' = Settled \union Taking /\ Taking' = {} /\ pending' = pending
<1> DEFINE a == arrived[Here]
           c == current[Here]
           q == pending[Here]
           s == settled[Here]
<1>1. /\ a \in Seq(Nat) /\ c \in Seq(Nat) /\ q \in Seq(Nat) /\ s \in 0..Len(a)
      /\ c \o q = SubSeq(a, s + 1, Len(a)) /\ settled \in [{Here} -> Nat]
      /\ current \in [{Here} -> Seq(Nat)]
  BY QueueIs DEF LineInv, Queue!IInv, Queue!TypeOK
<1>2. /\ arrived' = arrived /\ settled'[Here] = s + Len(c) /\ current'[Here] = <<>> /\ pending' = pending
  BY <1>1 DEF Order!Finish
<1>3. InHistory(a, c, q, s)
  BY <1>1, PlacesInHistory
<1>4. Settled = {a[k] : k \in 1..s} /\ Taking = {c[k] : k \in DOMAIN c}
      /\ Settled' = {a[k] : k \in 1..(s + Len(c))} /\ Taking' = {}
  BY <1>2 DEF Settled, Taking
<1> HIDE DEF a, c, q, s
<1>5. DOMAIN c = 1..Len(c) /\ Len(c) \in Nat /\ s \in Nat
  BY <1>1
<1>6. ASSUME NEW k \in 1..(s + Len(c))
      PROVE  a[k] \in Settled \union Taking
  <2>1. CASE k \in 1..s
    BY <1>4, <2>1
  <2>2. CASE k \notin 1..s
    <3>1. k - s \in 1..Len(c) /\ s + (k - s) = k
      BY <1>5, <2>2
    <3>2. a[k] = c[k - s]
      BY <1>3, <3>1 DEF InHistory
    <3>3. QED
      BY <1>4, <1>5, <3>1, <3>2
  <2>3. QED
    BY <2>1, <2>2
<1>7. \A k \in 1..s : k \in 1..(s + Len(c))
  BY <1>5
<1>8. \A k \in 1..Len(c) : s + k \in 1..(s + Len(c)) /\ c[k] = a[s + k]
  BY <1>3, <1>5 DEF InHistory
<1>9. Settled' \subseteq Settled \union Taking
  BY <1>4, <1>6
<1>10. Settled \subseteq Settled' /\ Taking \subseteq Settled'
  BY <1>4, <1>5, <1>7, <1>8
<1>11. QED
  BY <1>2, <1>4, <1>9, <1>10

LEMMA DropSettles ==
  ASSUME LineInv, Order!Drop({Here})
  PROVE  Settled' = Settled \union (Taking \union Waiting) /\ Taking' = {}
<1> DEFINE a == arrived[Here]
           c == current[Here]
           q == pending[Here]
           s == settled[Here]
<1>1. /\ a \in Seq(Nat) /\ c \in Seq(Nat) /\ q \in Seq(Nat) /\ s \in 0..Len(a)
      /\ c \o q = SubSeq(a, s + 1, Len(a))
  BY QueueIs
<1>2. /\ arrived' = arrived /\ settled'[Here] = s + Len(c \o q) /\ current'[Here] = <<>>
  BY DEF Order!Drop, Order!Line
<1>3. InHistory(a, c, q, s)
  BY <1>1, PlacesInHistory
<1>4. Settled = {a[k] : k \in 1..s} /\ Taking = {c[k] : k \in DOMAIN c} /\ Waiting = {q[k] : k \in DOMAIN q}
      /\ Settled' = {a[k] : k \in 1..(s + Len(c \o q))} /\ Taking' = {}
  BY <1>2 DEF Settled, Taking, Waiting
<1> HIDE DEF a, c, q, s
<1>5. /\ DOMAIN c = 1..Len(c) /\ Len(c) \in Nat /\ s \in Nat /\ DOMAIN q = 1..Len(q) /\ Len(q) \in Nat
      /\ Len(c \o q) = Len(c) + Len(q)
  <2>1. c \in Seq(Nat) /\ q \in Seq(Nat) /\ s \in Nat
    BY <1>1
  <2>2. QED
    BY <2>1
<1>6. ASSUME NEW k \in 1..(s + Len(c \o q))
      PROVE  a[k] \in Settled \union (Taking \union Waiting)
  <2>1. CASE k \in 1..s
    BY <1>4, <2>1
  <2>2. CASE k \notin 1..s /\ k - s \in 1..Len(c)
    <3>1. s + (k - s) = k
      BY <1>5, <2>2
    <3>2. a[k] = c[k - s]
      BY <1>3, <2>2, <3>1 DEF InHistory
    <3>3. QED
      BY <1>4, <1>5, <2>2, <3>2
  <2>3. CASE k \notin 1..s /\ k - s \notin 1..Len(c)
    <3>1. k - s - Len(c) \in 1..Len(q) /\ s + Len(c) + (k - s - Len(c)) = k
      BY <1>5, <2>3
    <3>2. a[k] = q[k - s - Len(c)]
      BY <1>3, <3>1 DEF InHistory
    <3>3. QED
      BY <1>4, <1>5, <3>1, <3>2
  <2>4. QED
    BY <2>1, <2>2, <2>3
<1>7. \A k \in 1..s : k \in 1..(s + Len(c \o q))
  BY <1>5
<1>8. \A k \in 1..Len(c) : s + k \in 1..(s + Len(c \o q)) /\ c[k] = a[s + k]
  BY <1>3, <1>5 DEF InHistory
<1>9. \A k \in 1..Len(q) : s + Len(c) + k \in 1..(s + Len(c \o q)) /\ q[k] = a[s + Len(c) + k]
  BY <1>3, <1>5 DEF InHistory
<1>10. \A m \in Taking \union Waiting : m \in Settled'
  <2>1. ASSUME NEW k \in 1..Len(c)
        PROVE  c[k] \in Settled'
    BY <1>4, <1>8
  <2>2. ASSUME NEW k \in 1..Len(q)
        PROVE  q[k] \in Settled'
    BY <1>4, <1>9
  <2>3. QED
    BY <1>4, <1>5, <2>1, <2>2
<1>11. Settled \subseteq Settled' /\ Settled' \subseteq Settled \union (Taking \union Waiting)
  BY <1>4, <1>6, <1>7
<1>12. QED
  BY <1>4, <1>10, <1>11

-----------------------------------------------------------------------------
(* What stays of rows and posts while the room goes on                         *)

LEMMA KeptMore ==
  ASSUME RoomInv, RoomInv', Kept
  PROVE  /\ \A m, S : Troubled(m, S) => Troubled(m, S)'
         /\ \A e \in FromPeople : e \in Edits' <=> e \in Edits
         /\ \A e \in FromPeople :
              /\ IsCommand(e)' <=> IsCommand(e)
              /\ \A found \in BOOLEAN : \A place :
                   Addressed(e, found, place)' <=> Addressed(e, found, place)
<1>1. \A m, S : Troubled(m, S) => Troubled(m, S)'
  BY DEF Troubled, Kept
<1>2. \A e \in FromPeople : e \in FromPeople' /\ (IsEdit(e)' <=> IsEdit(e))
  BY KeptAre
<1>3. \A e \in FromPeople : e \in Edits' <=> e \in Edits
  BY <1>2 DEF Edits, IsEdit
<1>4. ASSUME NEW e \in FromPeople
      PROVE  /\ IsCommand(e)' <=> IsCommand(e)
             /\ \A found \in BOOLEAN : \A place :
                  Addressed(e, found, place)' <=> Addressed(e, found, place)
  <2>1. PICK s \in Ids : s = Subject(e) /\ Subject(e)' = s /\ e \in Ids /\ timeline[s].replyTo \in {0} \union Ids
    BY IdsAre, SubjectIs, KeptAre
  <2>2. Version(e)' = Version(e)
    BY <2>1, <1>2 DEF Version, Kept
  <2>3. \A found \in BOOLEAN : Target(e, found)' = Target(e, found) /\ Target(e, found) \in {0} \union Ids
    BY <2>1 DEF Target, Kept
  <2>4. \A found \in BOOLEAN : ToBot(e, found)' <=> ToBot(e, found)
    BY <2>3 DEF ToBot, Kept
  <2>5. QED
    BY <2>2, <2>4 DEF IsCommand, Addressed
<1>5. QED
  BY <1>1, <1>3, <1>4

(* A row is good wherever it is in the log. *)
LEMMA RowAt ==
  ASSUME NEW w, NEW i, log'[i] = w, RowGood(w)'
  PROVE  RowGood(log[i])'
<1>1. RowInv(w)' /\ ShownIn(w)' /\ LatestIn(w)'
  BY DEF RowGood
<1>2. RowInv(log[i])'
  BY <1>1 DEF RowInv, Joined, Stated, Target, Subject, IsEdit, Troubled
<1>3. ShownIn(log[i])'
  BY <1>1 DEF ShownIn, Troubled
<1>4. LatestIn(log[i])'
  BY <1>1 DEF LatestIn, Subject, IsEdit, Troubled, Versions
<1>5. QED
  BY <1>2, <1>3, <1>4 DEF RowGood

(* A row of which nothing is told. *)
LEMMA RowSame ==
  ASSUME RoomInv, RoomInv', Kept, NEW w \in Rows, RowRight(w), RowInv(w), ShownIn(w),
         \A p \in ByBot : timeline[p].answers \subseteq timeline'[p].answers,
         w.reply # 0 /\ w.reply = job'.post => IsEdit(Incoming)' /\ w.event = Subject(Incoming)',
         w.event \in Written' => w.event \in Written,
         w.reply # 0 =>
           \/ timeline'[w.reply].shows = timeline[w.reply].shows /\ job.post # w.reply
           \/ job'.post = w.reply
           \/ Troubled(w.event, {"send", "write", "lost"})'
  PROVE  RowInv(w)' /\ ShownIn(w)'
<1>1. w.event \in FromPeople /\ w.reply \in ByBot \union {0} /\ w.event \in Ids
  BY IdsAre DEF RowRight
<1>2. Joined(w.event, TRUE)' = Joined(w.event, TRUE)
  <2>1. PICK m \in FromPeople : m = w.event
    BY <1>1
  <2>2. Joined(m, TRUE)' = Joined(m, TRUE)
    BY KeptAre
  <2>3. QED
    BY <2>1, <2>2
<1>3. \A S : Troubled(w.event, S) => Troubled(w.event, S)'
  BY KeptMore
<1>4. timeline'[w.event].content = timeline[w.event].content
  BY <1>1 DEF Kept
<1>5. RowInv(w)'
  <2>1. w.response \in FromPeople' \union {0}
    BY KeptAre DEF RowInv
  <2>2. w.reply # 0 => w.event \in timeline'[w.reply].answers
    BY <1>1 DEF RowInv
  <2>3. Joined(w.event, TRUE)' # 0 /\ ~Troubled(w.event, {"fetch"})' => w.thread = Joined(w.event, TRUE)'
    BY <1>2, <1>3 DEF RowInv
  <2>4. w.event \in Written' => w.body = LogBody(timeline'[w.event].content)
    BY <1>4 DEF RowInv
  <2>5. LogBody(timeline[w.event].content)' = LogBody(timeline'[w.event].content)
    BY DEF LogBody
  <2>6. QED
    BY <2>1, <2>2, <2>3, <2>4, <2>5 DEF RowInv
<1>6. ShownIn(w)'
  BY <1>3 DEF ShownIn
<1>7. QED
  BY <1>5, <1>6

(* The messages Gone are over now, too. *)
Passed(Gone) ==
  /\ Settled \union Gone \subseteq FromPeople
  /\ Settled' = Settled \union Gone
  /\ \A m \in Settled : \A n \in Gone : m < n

LEMMA VersionsAre ==
  ASSUME RoomInv, RoomInv', Kept, NEW Gone, Passed(Gone), NEW m \in FromPeople
  PROVE  /\ Versions(m)' = Versions(m) \union {e \in Gone : Subject(e) = m /\ timeline[e].by = timeline[m].by}
         /\ Versions(m) \subseteq Settled
<1>1. \A e \in FromPeople : Subject(e)' = Subject(e) /\ timeline'[e].by = timeline[e].by /\ e \in Ids
  BY KeptAre, IdsAre DEF Kept
<1>2. \A e : e \in Versions(m)' <=> e \in Settled' /\ Subject(e)' = m /\ timeline'[e].by = timeline'[m].by
  BY DEF Versions
<1>3. \A e : e \in Versions(m) <=> e \in Settled /\ Subject(e) = m /\ timeline[e].by = timeline[m].by
  BY DEF Versions
<1>4. QED
  BY <1>1, <1>2, <1>3 DEF Passed

(* A row whose message has no version among them. *)
LEMMA LatestSame ==
  ASSUME RoomInv, RoomInv', Kept, NEW Gone, Passed(Gone), NEW w \in Rows, RowRight(w), LatestIn(w),
         \/ Troubled(w.event, {"fetch", "write", "lost"})'
         \/ \A e \in Gone : Subject(e) # w.event \/ timeline[e].by # timeline[w.event].by
  PROVE  LatestIn(w)'
<1>1. PICK m \in FromPeople : m = w.event /\ ~IsEdit(m) /\ Subject(m) = m
  BY DEF RowRight, Subject
<1>2. CASE Troubled(w.event, {"fetch", "write", "lost"})'
  BY <1>2 DEF LatestIn
<1>3. CASE ~Troubled(w.event, {"fetch", "write", "lost"})'
  <2>1. Versions(m)' = Versions(m) /\ Versions(m) \subseteq Settled
    BY <1>1, <1>3, VersionsAre
  <2>2. m \notin Gone
    BY <1>1, <1>3
  <2>3. \A e \in Settled : timeline'[e].content = timeline[e].content
    BY IdsAre DEF Passed, Kept
  <2>4. ~Troubled(w.event, {"fetch", "write", "lost"})
    BY <1>3, KeptMore
  <2>5. m \notin Settled \/ \E e \in Versions(m) : /\ \A d \in Versions(m) : d <= e
                                                   /\ w.body = LogBody(timeline[e].content)
    BY <1>1, <2>4 DEF LatestIn
  <2>6. m \notin Settled' \/ \E e \in Versions(m)' : /\ \A d \in Versions(m)' : d <= e
                                                     /\ w.body = LogBody(timeline'[e].content)
    BY <2>1, <2>2, <2>3, <2>5 DEF Passed
  <2>7. QED
    BY <1>1, <2>6 DEF LatestIn, LogBody
<1>4. QED
  BY <1>2, <1>3

(* A row that has the last of them. *)
LEMMA LatestNow ==
  ASSUME RoomInv, RoomInv', Kept, NEW Gone, Passed(Gone), NEW w, w.event \in FromPeople,
         NEW e \in Gone, Subject(e) = w.event, timeline[e].by = timeline[w.event].by,
         \A d \in Gone : Subject(d) = w.event => d <= e, w.body = LogBody(timeline[e].content)
  PROVE  LatestIn(w)'
<1>1. PICK m \in FromPeople : m = w.event
  OBVIOUS
<1>2. /\ Versions(m)' = Versions(m) \union {d \in Gone : Subject(d) = m /\ timeline[d].by = timeline[m].by}
      /\ Versions(m) \subseteq Settled
  BY VersionsAre
<1>3. e \in Versions(m)'
  BY <1>1, <1>2
<1>4. \A d \in Versions(m)' : d <= e
  <2>1. \A d \in Settled : d < e /\ d \in Nat /\ e \in Nat
    BY IdsAre DEF Passed
  <2>2. QED
    BY <1>1, <1>2, <2>1
<1>5. timeline'[e].content = timeline[e].content
  BY IdsAre DEF Passed, Kept
<1>6. QED
  BY <1>1, <1>3, <1>4, <1>5 DEF LatestIn, LogBody

(* A post and a row of which nothing is told. *)
LEMMA PairSame ==
  ASSUME RoomInv, RoomInv', Kept, NEW p \in ByBot, NEW w \in Rows, PairInv(p, w),
         timeline'[p].answers = timeline[p].answers,
         Revising(p, w.event) /\ w.event \in timeline[p].answers =>
           Revising(p, w.event)' \/ Troubled(w.event, {"write", "lost"})'
  PROVE  PairInv(p, w)'
<1>1. \A m, S : Troubled(m, S) => Troubled(m, S)'
  BY KeptMore
<1>2. timeline'[p].thread = timeline[p].thread
  BY IdsAre DEF Kept
<1>3. Excused(p, w.event) => Excused(p, w.event)'
  BY <1>1 DEF Excused
<1>4. SUFFICES ASSUME w.event \in timeline[p].answers
               PROVE  /\ w.reply = 0 /\ ~Revising(p, w.event)' => Excused(p, w.event)'
                      /\ /\ timeline[p].thread # 0 /\ ~Troubled(w.event, {"fetch", "write", "lost"})'
                         /\ w.reply = p \/ ~Revising(p, w.event)'
                         => w.thread # 0 /\ timeline[p].thread \in {w.thread, w.event}
  BY <1>2 DEF PairInv
<1>5. CASE Troubled(w.event, {"write", "lost"})'
  BY <1>4, <1>5 DEF Excused, Troubled
<1>6. CASE Revising(p, w.event) => Revising(p, w.event)'
  BY <1>1, <1>3, <1>4, <1>6 DEF PairInv
<1>7. QED
  BY <1>4, <1>5, <1>6

LEMMA PostSame ==
  ASSUME RoomInv, RoomInv', Kept, NEW p \in ByBot, PostInv(p),
         timeline'[p].answers = timeline[p].answers, Settled \subseteq Settled',
         p = job.post => \A m \in Taking : m \in Settled' \/ (p = job'.post /\ m \in Taking'),
         Accounted(p)', \A i \in DOMAIN log' : PairInv(p, log[i])'
  PROVE  PostInv(p)'
<1>1. timeline'[p].thread = timeline[p].thread /\ Ids \subseteq Ids'
  BY IdsAre DEF Kept
<1>2. \A m \in timeline[p].answers : m \in FromPeople' \ Edits'
  BY KeptAre, KeptMore DEF PostInv
<1>3. QED
  BY <1>1, <1>2 DEF PostInv

(* What became of a post is still so. *)
LEMMA AccountedStays ==
  ASSUME RoomInv, RoomInv', Kept, BookInv, NEW p \in ByBot, Accounted(p),
         timeline'[p].answers = timeline[p].answers,
         \A i \in DOMAIN log : i \in DOMAIN log' /\ log'[i] = log[i],
         job.post = p => \/ job'.post = p
                         \/ \E i \in DOMAIN log' : log'[i].reply = p
                         \/ \E m \in timeline[p].answers : Troubled(m, {"write", "lost"})'
  PROVE  Accounted(p)'
<1>1. \A m, S : Troubled(m, S) => Troubled(m, S)'
  BY KeptMore
<1>2. Superseded(p) => Superseded(p)'
  <2>1. \A i \in DOMAIN log : log[i].reply > p => timeline'[log[i].reply].content = timeline[log[i].reply].content
    <3>1. ASSUME NEW i \in DOMAIN log, log[i].reply > p
          PROVE  timeline'[log[i].reply].content = timeline[log[i].reply].content
      <4>1. log[i].reply \in ByBot \union {0} /\ p \in Nat \ {0}
        BY <3>1, IdsAre DEF BookInv, RowRight
      <4>2. log[i].reply \in Ids
        BY <3>1, <4>1, IdsAre
      <4>3. QED
        BY <4>2 DEF Kept
    <3>2. QED
      BY <3>1
  <2>2. QED
    BY <2>1 DEF Superseded
<1>3. QED
  BY <1>1, <1>2 DEF Accounted

(* What OneAnswer says of two posts. *)
Once(p, q) ==
  \A m \in timeline[p].answers \intersect timeline[q].answers :
    \/ p >= q
    \/ timeline[q].content = "pictures"
    \/ \E n \in timeline[p].answers : n > m
    \/ \E n \in timeline[p].answers : Troubled(n, {"write", "lost"})

LEMMA OnceSame ==
  ASSUME RoomInv, RoomInv', Kept, NEW p \in ByBot, NEW q \in ByBot, Once(p, q),
         timeline'[p].answers = timeline[p].answers, timeline'[q].answers = timeline[q].answers
  PROVE  Once(p, q)'
<1>1. \A m, S : Troubled(m, S) => Troubled(m, S)'
  BY KeptMore
<1>2. timeline'[q].content = timeline[q].content
  BY IdsAre DEF Kept
<1>3. QED
  BY <1>1, <1>2 DEF Once

(* Steps that write nothing: the answer is still to be written down, or that  *)
(* failed.                                                                     *)
LEMMA UnwrittenKeeps ==
  ASSUME Inv, Inv', Kept, DeskInv, Records, log' = log,
         \A p \in ByBot : /\ timeline'[p].shows = timeline[p].shows \/ p = job'.post
                          /\ timeline'[p].answers = timeline[p].answers,
         NEW Gone, Passed(Gone), Written \subseteq FromPeople, Written \subseteq Settled' \union Written',
         \A m \in Gone \union Written' :
           \/ m \in Settled \union Written \union Edits
           \/ RowsOf(m) # {} \/ Troubled(m, {"write", "lost"})',
         \A i \in DOMAIN log : log[i].event \in Written' => log[i].event \in Written,
         job.post # 0 /\ job'.post # 0 =>
           job'.post = job.post /\ Incoming' = Incoming /\ Taking' = Taking,
         job.post = 0 =>
           \A i \in DOMAIN log : log[i].reply # 0 /\ log[i].reply = job'.post =>
             IsEdit(Incoming)' /\ log[i].event = Subject(Incoming)',
         job.post # 0 /\ job'.post = 0 =>
           /\ Taking \subseteq Settled'
           /\ \E m \in timeline[job.post].answers : Troubled(m, {"write", "lost"})'
           /\ \A s : IsEdit(Incoming) /\ s = Subject(Incoming) => Troubled(s, {"write", "lost"})',
         \A i \in DOMAIN log : LatestIn(log[i])'
  PROVE  /\ LogInv' /\ \A i \in DOMAIN log' : RowGood(log[i])'
         /\ \A p \in ByBot : PostInv(p)' /\ \A q \in ByBot : Once(p, q)'
<1>1. RoomInv /\ RoomInv' /\ BookInv /\ QueueInv /\ LogInv /\ \A p, q \in ByBot : Once(p, q)
  BY DEF Inv, Records, OneAnswer, Once
<1>2. \A i \in DOMAIN log : log[i] \in Rows /\ RowRight(log[i]) /\ RowGood(log[i])
  BY <1>1 DEF BookInv, Records
<1>3. \A m, S : Troubled(m, S) => Troubled(m, S)'
  BY <1>1, KeptMore
<1>4. job.post # 0 => Incoming \in FromPeople
  BY <1>1, IncomingIs DEF DeskInv
<1>5. ASSUME job.post # 0, job'.post # 0
      PROVE  (IsEdit(Incoming)' <=> IsEdit(Incoming)) /\ Subject(Incoming)' = Subject(Incoming)
  <2>1. PICK e \in FromPeople : e = Incoming /\ e = Incoming'
    BY <1>4, <1>5
  <2>2. IsEdit(e)' = IsEdit(e) /\ Subject(e)' = Subject(e)
    BY <1>1, KeptAre
  <2>3. QED
    BY <2>1, <2>2 DEF IsEdit, Subject
<1>6. LogInv'
  <2>1. \A m \in (Settled' \union Written') \ Edits' :
          RowsOf(m) # {} \/ Troubled(m, {"write", "lost"})'
    <3> SUFFICES ASSUME NEW m \in (Settled' \union Written') \ Edits'
                 PROVE  RowsOf(m) # {} \/ Troubled(m, {"write", "lost"})'
      OBVIOUS
    <3>1. m \in Settled \union Written => m \in FromPeople
      BY DEF Passed
    <3>2. m \in Edits => m \in FromPeople
      BY DEF Edits
    <3>3. m \in FromPeople => m \notin Edits
      BY <1>1, KeptMore
    <3>4. m \in Settled \union Gone \union Written'
      BY DEF Passed
    <3>5. m \in Settled \union Written => RowsOf(m) # {} \/ Troubled(m, {"write", "lost"})
      BY <1>1, <3>1, <3>3 DEF LogInv
    <3>6. QED
      BY <1>3, <3>2, <3>3, <3>4, <3>5
  <2>2. \A i \in DOMAIN log : log[i].event \in Settled' \union Written'
    BY <1>1 DEF LogInv, Passed
  <2>3. \A m : RowsOf(m)' = RowsOf(m)
    BY DEF RowsOf
  <2>4. QED
    BY <1>1, <2>1, <2>2, <2>3 DEF LogInv
<1>7. ASSUME NEW i \in DOMAIN log'
      PROVE  RowGood(log[i])'
  <2>1. PICK w \in Rows : w = log[i] /\ RowRight(w) /\ RowInv(w) /\ ShownIn(w) /\ LatestIn(w)'
    BY <1>2, <1>7 DEF RowGood, LatestIn
  <2>2. w.reply \in ByBot \union {0}
    BY <2>1 DEF RowRight
  <2>3. w.reply # 0 /\ w.reply = job'.post => IsEdit(Incoming)' /\ w.event = Subject(Incoming)'
    <3>1. CASE job.post # 0
      BY <1>5, <2>1, <3>1 DEF RowInv
    <3>2. CASE job.post = 0
      BY <1>7, <2>1, <3>2
    <3>3. QED
      BY <3>1, <3>2
  <2>4. w.reply # 0 => \/ timeline'[w.reply].shows = timeline[w.reply].shows /\ job.post # w.reply
                       \/ job'.post = w.reply
                       \/ Troubled(w.event, {"send", "write", "lost"})'
    <3>1. CASE w.reply # 0 /\ job.post = w.reply /\ job'.post = 0
      <4>1. IsEdit(Incoming) /\ w.event = Subject(Incoming)
        BY <2>1, <3>1 DEF RowInv
      <4>2. QED
        BY <3>1, <4>1 DEF Troubled
    <3>2. QED
      BY <2>2, <3>1
  <2>5. w.event \in Written' => w.event \in Written
    BY <1>7, <2>1
  <2>6. RowInv(w)' /\ ShownIn(w)'
    BY <1>1, <2>1, <2>3, <2>4, <2>5, RowSame
  <2>7. log'[i] = w
    BY <2>1
  <2>8. RowGood(w)'
    BY <2>1, <2>6 DEF RowGood
  <2>9. QED
    BY <2>7, <2>8, RowAt
<1>8. ASSUME NEW p \in ByBot
      PROVE  PostInv(p)'
  <2>1. PostInv(p) /\ (p = job.post => job.post # 0)
    BY <1>1, IdsAre DEF Records
  <2>2. Accounted(p)'
    BY <1>1, <2>1, AccountedStays DEF PostInv
  <2>3. ASSUME NEW i \in DOMAIN log'
        PROVE  PairInv(p, log[i])'
    <3>1. PICK w \in Rows : w = log[i] /\ PairInv(p, w)
      BY <1>2, <2>1, <2>3 DEF PostInv
    <3>2. Revising(p, w.event) => Revising(p, w.event)' \/ Troubled(w.event, {"write", "lost"})'
      <4>1. CASE Revising(p, w.event) /\ job'.post = 0
        <5>1. job.post # 0
          BY <2>1, <4>1 DEF Revising
        <5>2. QED
          BY <4>1, <5>1 DEF Revising
      <4>2. CASE Revising(p, w.event) /\ job'.post # 0
        <5>1. p = job.post /\ job.post # 0 /\ job'.post = job.post
          BY <2>1, <4>2 DEF Revising
        <5>2. QED
          BY <1>5, <4>2, <5>1 DEF Revising
      <4>3. QED
        BY <4>1, <4>2
    <3>3. PairInv(p, w)'
      BY <1>1, <2>1, <3>1, <3>2, PairSame
    <3>4. log'[i] = w
      BY <3>1
    <3>5. QED
      BY <3>3, <3>4 DEF PairInv, Revising, Excused, Troubled
  <2>4. p = job.post => \A m \in Taking : m \in Settled' \/ (p = job'.post /\ m \in Taking')
    BY <2>1
  <2>5. Settled \subseteq Settled'
    BY DEF Passed
  <2>6. QED
    BY <1>1, <2>1, <2>2, <2>3, <2>4, <2>5, PostSame
<1>9. \A p, q \in ByBot : Once(p, q)'
  BY <1>1, OnceSame
<1>10. QED
  BY <1>6, <1>7, <1>8, <1>9

(* Steps that change nothing of it. *)
LEMMA CalmKeeps ==
  ASSUME Inv, Inv', Kept, LineInv, DeskInv, Records, log' = log, ByBot' = ByBot,
         \A p \in ByBot : /\ timeline'[p].shows = timeline[p].shows \/ p = job'.post
                          /\ timeline'[p].answers = timeline[p].answers,
         Settled' = Settled, Written' = Written,
         job.post # 0 => job'.post = job.post /\ Incoming' = Incoming /\ Taking' = Taking,
         job.post = 0 =>
           \A i \in DOMAIN log : log[i].reply # 0 /\ log[i].reply = job'.post =>
             IsEdit(Incoming)' /\ log[i].event = Subject(Incoming)'
  PROVE  Records'
<1>1. RoomInv /\ RoomInv' /\ BookInv
  BY DEF Inv
<1>2. Settled \subseteq FromPeople /\ Written \subseteq FromPeople
  BY PlacesAre DEF InLine, Written, Taking
<1>3. Passed({})
  BY <1>2 DEF Passed
<1>4. ASSUME NEW i \in DOMAIN log
      PROVE  LatestIn(log[i])'
  <2>1. PICK w \in Rows : w = log[i] /\ RowRight(w) /\ LatestIn(w)
    BY <1>1 DEF BookInv, Records, RowGood
  <2>2. LatestIn(w)'
    BY <1>1, <1>3, <2>1, LatestSame
  <2>3. log'[i] = w
    BY <2>1
  <2>4. QED
    BY <2>2, <2>3 DEF LatestIn, Troubled, Versions
<1>5. /\ LogInv' /\ \A i \in DOMAIN log' : RowGood(log[i])'
      /\ \A p \in ByBot : PostInv(p)' /\ \A q \in ByBot : Once(p, q)'
  BY <1>2, <1>3, <1>4, UnwrittenKeeps
<1>6. QED
  BY <1>5 DEF Records, OneAnswer, Once

-----------------------------------------------------------------------------
(* What an answer does to rows and posts                                       *)

(* The messages an answer is for are the ones that are taken then. *)
LEMMA BurstTaken ==
  ASSUME Inv, LineInv, DeskInv, job.phase = "decided", TakeBurst
  PROVE  /\ Settled' = Settled /\ Incoming' = Incoming /\ Incoming \in Taking
         /\ Answers \subseteq FromPeople /\ Last \in FromPeople
         /\ IsEdit(Incoming) => /\ Taking' = Taking /\ Taking = {Incoming} /\ Answers = {Subject(Incoming)}
                                /\ current' = current
         /\ ~IsEdit(Incoming) => Taking' = Answers /\ Answers \subseteq Taking \union Waiting
<1> DEFINE c == current[Here]
           q == pending[Here]
           n == BurstLength
<1>1. /\ RoomInv /\ QueueInv /\ n \in 0..Len(q) /\ Len(c) = 1 /\ c \in Seq(Nat) /\ q \in Seq(Nat)
      /\ current \in [{Here} -> Seq(Nat)]
  BY BurstIs DEF Inv, QueueInv, DeskInv
<1>2. Incoming \in FromPeople /\ Subject(Incoming) \in FromPeople
  BY <1>1, IncomingIs, SubjectIs
<1>3. q \in Seq(FromPeople) /\ \A k \in 1..n : q[k] \in FromPeople /\ k \in DOMAIN q
  BY <1>1 DEF QueueInv
<1>4. Incoming = c[1] /\ Taking = {Incoming} /\ Incoming \in Taking
  BY <1>1 DEF Incoming, Taking
<1>5. Answers = {Subject(Incoming)} \union {q[k] : k \in 1..n} /\ Answers \subseteq FromPeople
  BY <1>2, <1>3 DEF Answers
<1>6. ~IsEdit(Incoming) => Subject(Incoming) = Incoming
  BY DEF Subject
<1>7. IsEdit(Incoming) => n = 0
  BY DEF BurstLength
<1>8. Last \in FromPeople
  <2> DEFINE taken == SubSeq(q, 1, n)
  <2>1. taken \in Seq(FromPeople)
    BY <1>1, <1>3, SplitQueue
  <2> HIDE DEF taken
  <2>2. taken # <<>> => taken[Len(taken)] \in FromPeople
    BY <2>1
  <2>3. QED
    BY <1>2, <2>2 DEF Last, taken
<1>9. CASE n = 0
  <2>1. UNCHANGED queue
    BY <1>9 DEF TakeBurst
  <2>2. current' = current /\ settled' = settled /\ arrived' = arrived
    BY <2>1 DEF queue
  <2>3. Settled' = Settled /\ Taking' = Taking /\ Incoming' = Incoming
    BY <2>2 DEF Settled, Taking, Incoming
  <2>4. Answers = {Subject(Incoming)}
    BY <1>5, <1>9
  <2>5. QED
    BY <1>4, <1>5, <1>6, <1>8, <2>2, <2>3, <2>4
<1>10. CASE n # 0
  <2>1. Order!Join(Here, n)
    BY <1>10 DEF TakeBurst
  <2>2. settled' = settled /\ arrived' = arrived /\ current'[Here] = c \o SubSeq(q, 1, n)
    BY <1>1, <2>1 DEF Order!Join
  <2>3. Settled' = Settled
    BY <2>2 DEF Settled
  <2>4. Moved(Nat, c, q, n)
    BY <1>1, MovedAre
  <2> HIDE DEF c, q, n
  <2>5. /\ DOMAIN current'[Here] = 1 .. 1 + n /\ current'[Here][1] = c[1]
        /\ \A k \in DOMAIN current'[Here] : k = 1 \/ \E j \in 1..n : current'[Here][k] = q[j]
        /\ \A j \in 1..n : current'[Here][1 + j] = q[j]
    <3> DEFINE d == c \o SubSeq(q, 1, n)
    <3>1. /\ d \in Seq(Nat) /\ Len(d) = 1 + n /\ d[1] = c[1]
          /\ \A k \in DOMAIN d : k \in 1..1 \/ \E j \in 1..n : d[k] = q[j]
          /\ \A j \in 1..n : d[1 + j] = q[j]
      <4>1. Len(c) = 1 /\ 1 \in 1..Len(c)
        BY <1>1
      <4>2. QED
        BY <2>4, <4>1 DEF Moved
    <3>2. current'[Here] = d
      BY <2>2
    <3> HIDE DEF d
    <3>3. QED
      BY <3>1, <3>2
  <2>6. 1 \in DOMAIN current'[Here] /\ \A j \in 1..n : 1 + j \in DOMAIN current'[Here]
    BY <1>1, <2>5
  <2>7. Taking' = {current'[Here][k] : k \in DOMAIN current'[Here]} /\ Incoming' = Incoming
    BY <1>4, <2>5 DEF Taking, Incoming
  <2>8. Taking' = {Incoming} \union {q[k] : k \in 1..n}
    <3>1. \A k \in DOMAIN current'[Here] : current'[Here][k] \in {Incoming} \union {q[j] : j \in 1..n}
      BY <1>4, <2>5
    <3>2. Incoming \in Taking' /\ \A j \in 1..n : q[j] \in Taking'
      BY <1>4, <2>5, <2>6, <2>7
    <3>3. QED
      BY <2>7, <3>1, <3>2
  <2>9. {q[k] : k \in 1..n} \subseteq Waiting
    BY <1>3 DEF Waiting, q
  <2>10. QED
    BY <1>4, <1>5, <1>6, <1>7, <1>8, <1>10, <2>3, <2>7, <2>8, <2>9
<1>11. QED
  BY <1>9, <1>10

(* The row of a message that has one. *)
LEMMA RowIs ==
  ASSUME BookInv, LogInv, NEW m, RowsOf(m) # {}
  PROVE  \E i \in DOMAIN log : /\ log[i].event = m /\ Row(m) = log[i]
                               /\ \A j \in DOMAIN log : log[j].event = m => j = i
<1>1. PICK i \in DOMAIN log : Row(m) = log[i] /\ log[i].event = m
  BY DEF Row, RowsOf
<1>2. \A j, k \in DOMAIN log : j < k => log[j].event < log[k].event
  BY DEF LogInv
<1>3. \A j \in DOMAIN log : j \in Nat /\ log[j].event \in Nat
  <2>1. log \in Seq(Rows)
    BY DEF BookInv
  <2>2. \A j \in DOMAIN log : j \in Nat /\ log[j] \in Rows
    BY <2>1
  <2>3. QED
    BY <2>2 DEF Rows
<1>4. ASSUME NEW j \in DOMAIN log, log[j].event = m, j # i
      PROVE  FALSE
  <2>1. j < i \/ i < j
    BY <1>3, <1>4
  <2>2. log[j].event < log[i].event \/ log[i].event < log[j].event
    BY <1>2, <2>1
  <2>3. QED
    BY <1>1, <1>3, <1>4, <2>2
<1>5. QED
  BY <1>1, <1>4

LEMMA IncomingSame ==
  ASSUME RoomInv, RoomInv', Kept, Incoming \in FromPeople, Incoming' = Incoming
  PROVE  /\ IsEdit(Incoming)' <=> IsEdit(Incoming)
         /\ Subject(Incoming)' = Subject(Incoming)
         /\ \A found \in BOOLEAN : Joined(Incoming, found)' = Joined(Incoming, found)
         /\ log' = log => Previous' = Previous /\ (Editable(Incoming)' <=> Editable(Incoming))
<1>1. PICK e \in FromPeople : e = Incoming /\ e = Incoming' /\ e \in Ids
  BY IdsAre
<1>2. PICK s \in Ids : s = Subject(e) /\ Subject(e)' = s
  BY SubjectIs, KeptAre, IdsAre
<1>3. IsEdit(e)' = IsEdit(e) /\ \A found \in BOOLEAN : Joined(e, found)' = Joined(e, found)
  BY KeptAre
<1>4. (IsEdit(Incoming)' <=> IsEdit(Incoming)) /\ Subject(Incoming)' = s /\ Subject(Incoming) = s
  BY <1>1, <1>2, <1>3 DEF IsEdit, Subject
<1>5. \A found \in BOOLEAN : Joined(Incoming, found)' = Joined(Incoming, found)
  BY <1>1, <1>3 DEF Joined, Stated, Target, Subject, IsEdit
<1>6. ASSUME log' = log
      PROVE  Previous' = Previous /\ (Editable(Incoming)' <=> Editable(Incoming))
  <2>1. RowsOf(s)' = RowsOf(s) /\ Row(s)' = Row(s)
    BY <1>6 DEF RowsOf, Row
  <2>2. Row(Subject(Incoming))' = Row(s)' /\ RowsOf(Subject(Incoming))' = RowsOf(s)'
    BY <1>4 DEF Row, RowsOf
  <2>3. Previous' = Previous
    BY <1>4, <2>1, <2>2 DEF Previous
  <2>4. timeline'[s].by = timeline[s].by /\ timeline'[e].by = timeline[e].by
    BY <1>1, <1>2 DEF Kept
  <2>5. QED
    BY <1>1, <1>4, <2>1, <2>2, <2>3, <2>4 DEF Editable
<1>7. QED
  BY <1>4, <1>5, <1>6

(* What an answer finds, and what it leaves. *)
LEMMA AnswerFinds ==
  ASSUME Inv, Inv', Kept, LineInv, DeskInv, Records, job.phase = "decided", TakeBurst, log' = log,
         NEW responded \in BOOLEAN, NEW post \in Nat, Responds(responded, post)
  PROVE  /\ Incoming \in FromPeople /\ Incoming' = Incoming /\ Subject(Incoming) \in Answers
         /\ Settled' = Settled /\ Written = {} /\ Written' = {}
         /\ job.post = 0 /\ job'.post = post /\ job'.phase = "answered" /\ job'.responded = responded
         /\ Root' = Root /\ DeskInv'
         /\ IsEdit(Incoming) =>
              \E i \in DOMAIN log : /\ log[i].event = Subject(Incoming) /\ Previous = log[i].reply
                                    /\ \A j \in DOMAIN log : log[j].event = Subject(Incoming) => j = i
<1>1. RoomInv /\ RoomInv' /\ BookInv /\ QueueInv /\ QueueInv' /\ JobInv /\ LogInv
  BY DEF Inv, Records
<1>2. Incoming \in FromPeople /\ Incoming' = Incoming /\ Settled' = Settled
      /\ (IsEdit(Incoming) => current' = current)
  BY <1>1, IncomingIs, BurstTaken
<1>3. job \in Jobs /\ job' = [job EXCEPT !.phase = "answered", !.responded = responded, !.post = post, !.line = 1]
  BY <1>1 DEF JobInv, Responds
<1>4. /\ job'.phase = "answered" /\ job'.post = post /\ job'.responded = responded /\ job'.line = 1
      /\ job'.place = job.place /\ job'.kind = job.kind /\ job'.found = job.found /\ job.found \in BOOLEAN
  BY <1>3 DEF Jobs
<1>5. Written = {} /\ Written' = {}
  <2>1. DOMAIN current[Here] \subseteq Nat \ {0} /\ DOMAIN current'[Here] \subseteq Nat \ {0}
    BY <1>1 DEF QueueInv
  <2>2. job.line = 0
    BY DEF DeskInv
  <2>3. QED
    BY <1>4, <2>1, <2>2 DEF Written
<1>6. /\ IsEdit(Incoming)' <=> IsEdit(Incoming)
      /\ Subject(Incoming)' = Subject(Incoming)
      /\ \A found \in BOOLEAN : Joined(Incoming, found)' = Joined(Incoming, found)
      /\ Editable(Incoming)' <=> Editable(Incoming)
  BY <1>1, <1>2, IncomingSame
<1>7. Root' = Root
  BY <1>4, <1>6 DEF Root
<1>8. DeskInv'
  BY <1>2, <1>4, <1>6 DEF DeskInv
<1>9. ASSUME IsEdit(Incoming)
      PROVE  \E i \in DOMAIN log : /\ log[i].event = Subject(Incoming) /\ Previous = log[i].reply
                                   /\ \A j \in DOMAIN log : log[j].event = Subject(Incoming) => j = i
  <2>1. RowsOf(Subject(Incoming)) # {}
    BY <1>1, <1>9 DEF JobInv
  <2>2. QED
    BY <1>1, <1>9, <2>1, RowIs DEF Previous
<1>10. QED
  BY <1>2, <1>4, <1>5, <1>7, <1>8, <1>9 DEF Answers, DeskInv

LEMMA UnpostedRecords ==
  ASSUME Inv, Inv', Kept, LineInv, DeskInv, Records, job.phase = "decided", TakeBurst, log' = log,
         timeline' = timeline, NEW responded \in BOOLEAN, Responds(responded, 0),
         \/ ~responded \/ Previous = 0
         \/ \A m \in Answers : Troubled(m, {"send"})'
  PROVE  Records' /\ AnswerInv' /\ DeskInv'
<1>1. /\ Incoming \in FromPeople /\ Incoming' = Incoming /\ Subject(Incoming) \in Answers
      /\ Settled' = Settled /\ Written = {} /\ Written' = {}
      /\ job.post = 0 /\ job'.post = 0 /\ job'.responded = responded
      /\ DeskInv'
  BY AnswerFinds
<1>2. RoomInv /\ RoomInv' /\ BookInv /\ ByBot' = ByBot
  BY NothingSaid DEF Inv, Kept
<1>3. Records'
  BY <1>1, <1>2, CalmKeeps
<1>4. PICK s : s = Subject(Incoming) /\ s = Subject(Incoming)' /\ Previous' = Previous
  BY <1>1, <1>2, IncomingSame
<1>5. \/ ~responded \/ Previous' = 0
      \/ Troubled(s, {"send"})'
  BY <1>1, <1>4
<1>6. AnswerInv'
  BY <1>1, <1>4, <1>5 DEF AnswerInv, Troubled
<1>7. QED
  BY <1>1, <1>3, <1>6

LEMMA AmendRecords ==
  ASSUME Inv, Inv', Kept, LineInv, DeskInv, Records, job.phase = "decided", TakeBurst, log' = log,
         Previous # 0, Responds(TRUE, Previous), mishaps' = mishaps,
         timeline' = [timeline EXCEPT ![Previous].shows = Incoming,
                                      ![Previous].answers = @ \union Answers]
  PROVE  Records' /\ AnswerInv' /\ DeskInv'
<1>1. RoomInv /\ RoomInv' /\ BookInv /\ LogInv
  BY DEF Inv, Records
<1>2. IsEdit(Incoming)
  BY DEF Previous
<1>3. PICK i \in DOMAIN log :
        /\ log[i].event = Subject(Incoming) /\ Previous = log[i].reply
        /\ \A j \in DOMAIN log : log[j].event = Subject(Incoming) => j = i
  <2>1. QueueInv /\ JobInv
    BY DEF Inv
  <2>2. Incoming \in FromPeople /\ RowsOf(Subject(Incoming)) # {}
    BY <1>2, <2>1, IncomingIs DEF JobInv
  <2>3. QED
    BY <1>1, <1>2, <2>2, RowIs DEF Previous
<1>4. PICK p \in ByBot : p = Previous /\ p \in Nat \ {0} /\ p \in Ids
  BY <1>1, <1>3, IdsAre DEF BookInv, RowRight
<1>5. /\ Incoming \in FromPeople /\ Incoming' = Incoming
      /\ Settled' = Settled /\ Written = {} /\ Written' = {}
      /\ job.post = 0 /\ job'.post = p /\ job'.responded = TRUE
      /\ DeskInv'
  BY <1>4, AnswerFinds
<1>6. /\ Ids' = Ids /\ \A e \in Ids : e # p => timeline'[e] = timeline[e]
      /\ timeline'[p].shows = Incoming
      /\ timeline'[p].answers = timeline[p].answers \union Answers
  BY <1>1, <1>4, AmendingKeeps
<1>7. Answers = {Subject(Incoming)} /\ Taking' = {Incoming}
  BY <1>2, BurstTaken
<1>8. Subject(Incoming) \in timeline[p].answers
  BY <1>3, <1>4 DEF Records, RowGood, RowInv
<1>9. \A q \in ByBot : /\ timeline'[q].answers = timeline[q].answers
                       /\ timeline'[q].shows = timeline[q].shows \/ q = p
  <2>1. timeline'[p].answers = timeline[p].answers
    BY <1>6, <1>7, <1>8
  <2>2. \A q \in ByBot : q \in Ids
    BY <1>1, IdsAre
  <2>3. QED
    BY <1>6, <2>1, <2>2
<1>10. ByBot' = ByBot
  BY <1>6 DEF ByBot, Kept
<1>11. \A j \in DOMAIN log : log[j].reply # 0 /\ log[j].reply = p => j = i
  BY <1>1, <1>3, <1>4 DEF LogInv
<1>12. PICK s : s = Subject(Incoming) /\ s = Subject(Incoming)' /\ IsEdit(Incoming)' /\ Previous' = p
  BY <1>1, <1>2, <1>4, <1>5, IncomingSame
<1>13. Records'
  BY <1>1, <1>3, <1>5, <1>9, <1>10, <1>11, <1>12, CalmKeeps
<1>14. AnswerInv'
  <2>1. \A m \in Taking' : Subject(m)' \in timeline'[p].answers
    <3>1. \A m \in Taking' : m = Incoming'
      BY <1>5, <1>7
    <3>2. s \in timeline'[p].answers
      BY <1>4, <1>8, <1>9, <1>12
    <3>3. QED
      BY <1>12, <3>1, <3>2 DEF Subject, IsEdit
  <2>2. QED
    BY <1>4, <1>5, <1>6, <1>12, <2>1 DEF AnswerInv
<1>15. QED
  BY <1>5, <1>13, <1>14

LEMMA RootIsPlace ==
  ASSUME RoomInv, Incoming \in FromPeople, job.found \in BOOLEAN,
         \A p \in ByBot : timeline[p].thread \in Ids \union {0}
  PROVE  Root \in Ids \union {0}
<1>1. PICK s \in FromPeople : s = Subject(Incoming) /\ timeline[s].replyTo \in {0} \union Ids /\ s \in Ids
  BY SubjectIs, IdsAre
<1>2. \A m \in FromPeople : timeline[m].thread \in Ids \union {0}
  <2>1. \A m \in FromPeople : m \in 1..Len(timeline) /\ timeline[m].thread \in 0..(m - 1) /\ Len(timeline) \in Nat
    BY IdsAre DEF RoomInv, FromPeople, Ids
  <2>2. QED
    BY <2>1 DEF Ids
<1>3. \A m \in Ids : timeline[m].thread \in Ids \union {0}
  BY <1>2 DEF FromPeople
<1>4. Joined(Incoming, job.found) \in Ids \union {0}
  BY <1>1, <1>3 DEF Joined, Stated, Target
<1>5. QED
  BY <1>1, <1>4 DEF Root

(* Those it answers are messages, the one that is edited if one is; nobody    *)
(* was told of them before unless one is.                                      *)
LEMMA AnswersAreNew ==
  ASSUME Inv, LineInv, DeskInv, LogInv, job.phase = "decided", TakeBurst, Written = {}
  PROVE  /\ Answers \subseteq FromPeople \ Edits
         /\ ~IsEdit(Incoming) => Answers \intersect Settled = {} /\ Taking' = Answers
         /\ IsEdit(Incoming) => Answers = {Subject(Incoming)} /\ Subject(Incoming) \in Settled /\ Taking' = {Incoming}
<1>1. /\ RoomInv /\ QueueInv /\ BookInv /\ InLine /\ Answers \subseteq FromPeople
      /\ IsEdit(Incoming) => Answers = {Subject(Incoming)} /\ Taking' = {Incoming}
      /\ ~IsEdit(Incoming) => Taking' = Answers /\ Answers \subseteq Taking \union Waiting
  BY BurstTaken, PlacesAre DEF Inv
<1>2. Incoming \in FromPeople
  BY <1>1, IncomingIs
<1>3. \A m \in Answers : ~IsEdit(m)
  <2>1. ~IsEdit(Subject(Incoming))
    BY <1>1, <1>2, SubjectIs
  <2>2. \A k \in 1..BurstLength : ~IsEdit(pending[Here][k])
    BY <1>1, BurstIs DEF Follows, IsEdit
  <2>3. QED
    BY <2>1, <2>2 DEF Answers
<1>4. ASSUME ~IsEdit(Incoming)
      PROVE  Answers \intersect Settled = {}
  <2>1. \A m \in Settled : m \in Nat /\ ~(m < m)
    BY <1>1, IdsAre DEF InLine
  <2>2. QED
    BY <1>1, <1>4, <2>1 DEF InLine
<1>5. ASSUME IsEdit(Incoming)
      PROVE  Subject(Incoming) \in Settled
  <2>1. RowsOf(Subject(Incoming)) # {}
    BY <1>5 DEF Inv, JobInv
  <2>2. QED
    BY <2>1 DEF LogInv, RowsOf
<1>6. QED
  BY <1>1, <1>3, <1>4, <1>5 DEF Edits, IsEdit

LEMMA PostRecords ==
  ASSUME Inv, Inv', Kept, LineInv, DeskInv, Records, job.phase = "decided", TakeBurst, log' = log,
         NEW shape \in Shapes, timeline' = Append(timeline, Posted(shape)), mishaps' = mishaps,
         Responds(TRUE, Len(timeline) + 1), Previous = 0 \/ shape = "pictures"
  PROVE  Records' /\ AnswerInv' /\ DeskInv'
<1>1. RoomInv /\ RoomInv' /\ BookInv /\ BookInv' /\ LogInv /\ JobInv
  BY DEF Inv, Records
<1>2. PICK p \in Nat \ {0} : p = Len(timeline) + 1
  BY <1>1, IdsAre
<1>3. /\ Ids' = Ids \union {p} /\ p \notin Ids /\ timeline'[p] = Posted(shape)
      /\ \A e \in Ids : timeline'[e] = timeline[e]
  BY <1>1, <1>2, AppendKeeps
<1>4. /\ timeline'[p].by = Bot /\ timeline'[p].content = shape /\ timeline'[p].thread = Root
      /\ timeline'[p].shows = Incoming /\ timeline'[p].answers = Answers
  <2>1. PICK root, replyTo, answers :
          root = Root /\ root = Placed.thread /\ replyTo = Placed.replyTo /\ answers = Answers
    BY DEF Placed
  <2>2. Posted(shape) = [by |-> Bot, content |-> shape, thread |-> root, replyTo |-> replyTo,
                         edits |-> 0, shows |-> Incoming, answers |-> answers]
    BY <2>1 DEF Posted
  <2>3. QED
    BY <1>3, <2>1, <2>2
<1>5. ByBot' = ByBot \union {p} /\ ByBot \subseteq Ids /\ \A q \in ByBot : q # p /\ q < p
  BY <1>1, <1>2, <1>3, <1>4, IdsAre DEF ByBot, Ids
<1>6. /\ Incoming \in FromPeople /\ Incoming' = Incoming /\ Subject(Incoming) \in Answers
      /\ Settled' = Settled /\ Written = {} /\ Written' = {}
      /\ job.post = 0 /\ job'.post = p /\ job'.phase = "answered" /\ job'.responded = TRUE
      /\ Root' = Root /\ DeskInv'
      /\ IsEdit(Incoming) =>
              \E i \in DOMAIN log : /\ log[i].event = Subject(Incoming) /\ Previous = log[i].reply
                                    /\ \A j \in DOMAIN log : log[j].event = Subject(Incoming) => j = i
  BY <1>2, AnswerFinds
<1>7. /\ Answers \subseteq FromPeople \ Edits
      /\ ~IsEdit(Incoming) => Answers \intersect Settled = {} /\ Taking' = Answers
      /\ IsEdit(Incoming) => Answers = {Subject(Incoming)} /\ Subject(Incoming) \in Settled /\ Taking' = {Incoming}
  BY <1>1, <1>6, AnswersAreNew
<1>8. PICK s : /\ s = Subject(Incoming) /\ s = Subject(Incoming)'
               /\ (IsEdit(Incoming)' <=> IsEdit(Incoming)) /\ Previous' = Previous
  BY <1>1, <1>6, IncomingSame
<1>9. \A i \in DOMAIN log : log[i] \in Rows /\ log[i].reply # p /\ log[i].event \in Settled
  <2>1. \A i \in DOMAIN log : log[i].reply \in ByBot \union {0} /\ log[i] \in Rows
    BY <1>1 DEF BookInv, RowRight
  <2>2. QED
    BY <1>1, <1>2, <1>5, <1>6, <2>1 DEF LogInv
<1>10. \A q \in ByBot : timeline'[q].shows = timeline[q].shows /\ timeline'[q].answers = timeline[q].answers
  BY <1>3, <1>5
<1>11. /\ LogInv' /\ \A i \in DOMAIN log' : RowGood(log[i])'
       /\ \A q \in ByBot : PostInv(q)' /\ \A r \in ByBot : Once(q, r)'
  <2>1. Settled \subseteq FromPeople
    BY PlacesAre DEF InLine
  <2>2. Passed({})
    BY <1>6, <2>1 DEF Passed
  <2>3. ASSUME NEW i \in DOMAIN log
        PROVE  LatestIn(log[i])'
    <3>1. PICK w \in Rows : w = log[i] /\ RowRight(w) /\ LatestIn(w)
      BY <1>1 DEF BookInv, Records, RowGood
    <3>2. LatestIn(w)'
      BY <1>1, <2>2, <3>1, LatestSame
    <3>3. log'[i] = w
      BY <3>1
    <3>4. QED
      BY <3>2, <3>3 DEF LatestIn, Troubled, Versions
  <2>4. QED
    BY <1>6, <1>9, <1>10, <2>2, <2>3, UnwrittenKeeps
<1>12. PostInv(p)'
  <2>1. timeline'[p].thread \in Ids' \union {0}
    <3>1. \A q \in ByBot : timeline[q].thread \in Ids \union {0}
      BY DEF Records, PostInv
    <3>2. job.found \in BOOLEAN
      BY <1>1 DEF JobInv, Jobs
    <3>3. QED
      BY <1>1, <1>3, <1>4, <1>6, <3>1, <3>2, RootIsPlace
  <2>2. \A m \in timeline'[p].answers : m \in FromPeople' \ Edits'
    BY <1>1, <1>4, <1>7, KeptAre, KeptMore
  <2>3. \A m \in timeline'[p].answers : m \in Settled' \/ (p = job'.post /\ m \in Taking')
    BY <1>4, <1>6, <1>7
  <2>4. Accounted(p)'
    BY <1>6 DEF Accounted
  <2>5. ASSUME NEW i \in DOMAIN log'
        PROVE  PairInv(p, log[i])'
    <3>1. PICK w \in Rows : w = log[i] /\ w = log'[i] /\ w.reply # p /\ w.event \in Settled
      BY <1>9, <2>5
    <3>2. w.event \in Answers => Revising(p, w.event)'
      BY <1>6, <1>7, <1>8, <3>1 DEF Revising
    <3>3. PairInv(p, w)'
      BY <1>4, <3>1, <3>2 DEF PairInv
    <3>4. QED
      BY <3>1, <3>3 DEF PairInv, Revising, Excused, Troubled
  <2>6. QED
    BY <2>1, <2>2, <2>3, <2>4, <2>5 DEF PostInv
<1>13. ASSUME NEW q \in ByBot
       PROVE  Once(q, p)'
  <2> SUFFICES ASSUME NEW m \in timeline[q].answers, m \in Answers, shape # "pictures"
               PROVE  \/ \E n \in timeline[q].answers : n > m
                      \/ \E n \in timeline[q].answers : Troubled(n, {"write", "lost"})'
    BY <1>4, <1>10 DEF Once
  <2>1. PostInv(q) /\ q # job.post
    BY <1>1, <1>6, IdsAre DEF Records
  <2>2. m \in Settled
    BY <2>1 DEF PostInv
  <2>3. IsEdit(Incoming) /\ m = s
    BY <1>7, <1>8, <2>2
  <2>4. PICK i \in DOMAIN log : log[i].event = m /\ log[i].reply = 0 /\ PairInv(q, log[i])
    BY <1>6, <1>8, <2>1, <2>3 DEF PostInv
  <2>5. Excused(q, m)
    BY <2>1, <2>4 DEF PairInv, Revising
  <2>6. QED
    BY <1>1, <2>5, KeptMore DEF Excused
<1>14. \A q \in ByBot' : Once(p, q)'
  <2>1. \A q \in ByBot' : p >= q
    <3>1. \A q \in ByBot' : q = p \/ (q \in Nat /\ q < p)
      BY <1>1, <1>5, IdsAre
    <3>2. QED
      BY <3>1
  <2>2. QED
    BY <2>1 DEF Once
<1>15. Records'
  <2>1. \A q \in ByBot' : PostInv(q)'
    BY <1>5, <1>11, <1>12
  <2>2. \A q, r \in ByBot' : Once(q, r)'
    BY <1>5, <1>11, <1>13, <1>14
  <2>3. OneAnswer'
    BY <2>2 DEF Once, OneAnswer
  <2>4. QED
    BY <1>11, <2>1, <2>3 DEF Records
<1>16. AnswerInv'
  <2>1. ASSUME NEW m \in Taking'
        PROVE  Subject(m)' \in Answers
    <3>1. CASE IsEdit(Incoming)
      <4>1. m = Incoming'
        BY <1>6, <1>7, <2>1, <3>1
      <4>2. QED
        BY <1>6, <1>8, <4>1 DEF Subject, IsEdit
    <3>2. CASE ~IsEdit(Incoming)
      <4>1. m \in Answers /\ m \in FromPeople /\ m \notin Edits
        BY <1>7, <2>1, <3>2
      <4>2. m \notin Edits' /\ m \in FromPeople'
        BY <1>1, <4>1, KeptAre, KeptMore
      <4>3. Subject(m)' = m
        BY <4>2 DEF Subject, IsEdit, Edits
      <4>4. QED
        BY <4>1, <4>3
    <3>3. QED
      BY <3>1, <3>2
  <2>2. Previous' = 0 \/ (Previous' < p /\ timeline'[p].content = "pictures")
    <3>1. Previous = 0 \/ Previous \in ByBot
      <4>1. CASE IsEdit(Incoming)
        BY <1>1, <1>6, <4>1 DEF BookInv, RowRight
      <4>2. CASE ~IsEdit(Incoming)
        BY <4>2 DEF Previous
      <4>3. QED
        BY <4>1, <4>2
    <3>2. QED
      BY <1>4, <1>5, <1>8, <3>1
  <2>3. QED
    BY <1>2, <1>4, <1>6, <2>1, <2>2 DEF AnswerInv
<1>17. QED
  BY <1>6, <1>15, <1>16

LEMMA AnswerRecords ==
  ASSUME Inv, Inv', Kept, LineInv, DeskInv, Records, Answer
  PROVE  Records' /\ AnswerInv' /\ DeskInv'
<1>1. TakeBurst /\ log' = log /\ job.phase = "decided"
  BY DEF Answer, Working
<1>2. ASSUME NEW S, Suffer(S, "send")
      PROVE  \A m \in S : Troubled(m, {"send"})'
  BY <1>2 DEF Suffer, Troubled
<1>3. CASE StaySilent \/ Nod
  <2>1. Responds(FALSE, 0) /\ timeline' = timeline
    BY <1>3 DEF StaySilent, Nod
  <2>2. QED
    BY <1>1, <2>1, UnpostedRecords
<1>4. ASSUME Suffer(Answers, "send"), Responds(TRUE, 0), timeline' = timeline
      PROVE  Records' /\ AnswerInv' /\ DeskInv'
  <2>1. \A m \in Answers : Troubled(m, {"send"})'
    BY <1>2, <1>4
  <2>2. QED
    BY <1>1, <1>4, <2>1, UnpostedRecords
<1>5. ASSUME NEW shape \in Looks, Amend(shape)
      PROVE  Records' /\ AnswerInv' /\ DeskInv'
  BY <1>1, <1>4, <1>5, AmendRecords DEF Amend, Amends
<1>6. ASSUME NEW shape \in Looks, DeliverEmoji(shape)
      PROVE  Records' /\ AnswerInv' /\ DeskInv'
  <2>1. Responds(TRUE, 0) /\ timeline' = timeline /\ Previous = 0
    BY <1>6 DEF DeliverEmoji, Amends
  <2>2. QED
    BY <1>1, <2>1, UnpostedRecords
<1>7. ASSUME NEW shape \in Looks, DeliverPost(shape)
      PROVE  Records' /\ AnswerInv' /\ DeskInv'
  <2>1. shape \in Shapes /\ (Previous = 0 \/ shape = "pictures")
    BY <1>7 DEF Looks, DeliverPost, Amends
  <2>2. QED
    BY <1>1, <1>4, <1>7, <2>1, PostRecords DEF DeliverPost
<1>8. QED
  BY <1>3, <1>5, <1>6, <1>7 DEF Answer

-----------------------------------------------------------------------------
(* What is written down of an edit                                             *)

(* What is over when a message is done with. *)
LEMMA DonePasses ==
  ASSUME Inv, LineInv, Done
  PROVE  /\ Passed(Taking) /\ Settled' = Settled \union Taking /\ Taking \subseteq FromPeople
         /\ Taking' = {} /\ Written' = {} /\ job'.post = 0 /\ job'.phase = "idle" /\ job'.line = 0
<1>1. /\ Settled' = Settled \union Taking /\ Taking' = {}
      /\ InLine
  BY FinishSettles, PlacesAre DEF Done
<1>2. Written' = {}
  BY <1>1 DEF Written, Taking
<1>3. job' = Idle
  BY DEF Done
<1>4. QED
  BY <1>1, <1>2, <1>3 DEF InLine, Passed, Idle

LEMMA RecordedKeeps ==
  ASSUME Inv, Inv', Kept, LineInv, DeskInv, Records, timeline' = timeline, Done,
         job.phase # "idle", IsEdit(Incoming), Editable(Incoming), Len(current[Here]) = 1,
         NEW s, s = Subject(Incoming), NEW response \in FromPeople \union {0}, NEW thread \in Nat,
         RecordEdit(Incoming, response, job.post, thread),
         job.post # 0 =>
           /\ response = timeline[job.post].shows /\ s \in timeline[job.post].answers
           /\ \/ Previous = job.post
              \/ /\ Previous = 0 \/ (Previous < job.post /\ timeline[job.post].content = "pictures")
                 /\ timeline[job.post].thread # 0 =>
                      /\ thread = timeline[job.post].thread
                      /\ \/ Joined(s, TRUE) = 0 /\ thread = s
                         \/ Joined(s, TRUE) # 0 /\ thread = Joined(s, TRUE)
                         \/ Troubled(s, {"fetch"}),
         job.post = 0 /\ response # 0 => Previous = 0 \/ Troubled(s, {"send"})
  PROVE  Records'
<1>1. /\ RoomInv /\ RoomInv' /\ BookInv /\ BookInv' /\ QueueInv /\ JobInv /\ LogInv
      /\ \A p, q \in ByBot : Once(p, q)
  BY DEF Inv, Records, OneAnswer, Once
<1>2. PICK e \in FromPeople : e = Incoming /\ s = Subject(e) /\ s \in FromPeople
  BY <1>1, IncomingIs, SubjectIs
<1>3. Taking = {e}
  <2>1. current[Here] \in Seq(Nat)
    BY <1>1 DEF QueueInv
  <2>2. DOMAIN current[Here] = {1}
    BY <2>1
  <2>3. QED
    BY <1>2, <2>2 DEF Taking, Incoming
<1>4. /\ Passed(Taking) /\ Settled' = Settled \union Taking
      /\ Taking' = {} /\ Written' = {} /\ job'.post = 0
  BY DonePasses
<1>5. Written = {}
  <2>1. DOMAIN current[Here] = 1..1 /\ job.line \in Nat
    <3>1. current[Here] \in Seq(Nat)
      BY <1>1 DEF QueueInv
    <3>2. QED
      BY <1>1, <3>1 DEF JobInv, Jobs
  <2>2. job.line <= 1
    BY <1>1, <2>1 DEF DeskInv, JobInv
  <2>3. QED
    BY <2>1, <2>2 DEF Written
<1>6. ByBot' = ByBot /\ \A m, S : Troubled(m, S) => Troubled(m, S)'
  BY <1>1, KeptMore DEF ByBot, Ids
<1>7. PICK i \in DOMAIN log : /\ log[i].event = s /\ Row(s) = log[i]
                              /\ \A j \in DOMAIN log : log[j].event = s => j = i
  BY <1>1, <1>2, RowIs DEF Editable
<1>8. PICK w \in Rows : /\ w = log[i] /\ w.event = s /\ RowRight(w) /\ RowInv(w) /\ ShownIn(w)
                        /\ Previous = w.reply
                        /\ \A p \in ByBot : PairInv(p, w)
  BY <1>1, <1>7 DEF BookInv, Records, RowGood, PostInv, Previous
<1>9. PICK v \in Rows :
        /\ v.event = s /\ v.body = LogBody(timeline[e].content)
        /\ v.response = (IF response # 0 THEN response ELSE w.response)
        /\ v.reply = (IF job.post # 0 THEN job.post ELSE w.reply)
        /\ v.thread = (IF w.thread # 0 THEN w.thread ELSE thread)
        /\ log'[i] = v
  <2> DEFINE r == Rewritten(w, Version(e), response, job.post, thread)
  <2>1. LogBody(Version(e)) \in Bodies /\ response \in Nat /\ job.post \in Nat
    BY <1>1, BodiesAre, IdsAre DEF JobInv, Jobs
  <2>2. LogBody(Version(e)) = LogBody(timeline[e].content)
    BY <1>1, ConversationAssumption DEF RoomInv, Version, LogBody
  <2>3. r \in Rows /\ r.event = s /\ r.body = LogBody(timeline[e].content)
        /\ r.response = (IF response # 0 THEN response ELSE w.response)
        /\ r.reply = (IF job.post # 0 THEN job.post ELSE w.reply)
        /\ r.thread = (IF w.thread # 0 THEN w.thread ELSE thread)
    BY <1>8, <2>1, <2>2 DEF Rewritten, Rows
  <2>4. log'[i] = r
    BY <1>2, <1>7, <1>8 DEF RecordEdit
  <2> HIDE DEF r
  <2>5. QED
    BY <2>3, <2>4
<1>10. DOMAIN log' = DOMAIN log /\ \A j \in DOMAIN log : j # i => log'[j] = log[j] /\ log[j].event # s
  BY <1>2, <1>7 DEF RecordEdit
<1>11. \A j \in DOMAIN log : log'[j].event = log[j].event
  BY <1>7, <1>9, <1>10
<1>12. job.post \in ByBot \union {0} /\ w.reply \in ByBot \union {0} /\ \A p \in ByBot : p \in Nat \ {0}
  <2>1. job.post \in ByBot \union {0}
    <3>1. job.phase = "answered" \/ job.post = 0
      BY DEF DeskInv
    <3>2. QED
      BY <1>1, <3>1 DEF JobInv
  <2>2. QED
    BY <1>1, <1>8, <2>1, IdsAre DEF RowRight
<1>13. \A j \in DOMAIN log : j # i => log[j].reply = 0 \/ log[j].reply # job.post
  BY <1>2, <1>10 DEF Records, RowGood, RowInv
<1>14. LogInv'
  <2>1. \A j, k \in DOMAIN log : log'[j].reply # 0 /\ log'[j].reply = log'[k].reply => j = k
    <3>1. \A j, k \in DOMAIN log : log[j].reply # 0 /\ log[j].reply = log[k].reply => j = k
      BY <1>1 DEF LogInv
    <3>2. \A j \in DOMAIN log : log'[j].reply = IF j = i /\ job.post # 0 THEN job.post ELSE log[j].reply
      BY <1>8, <1>9, <1>10
    <3>3. QED
      BY <1>13, <3>1, <3>2
  <2>2. \A j, k \in DOMAIN log : j < k => log'[j].event < log'[k].event
    BY <1>1, <1>11 DEF LogInv
  <2>3. \A m : RowsOf(m)' = RowsOf(m)
    BY <1>10, <1>11 DEF RowsOf
  <2>4. \A m \in Settled' \ Edits' : RowsOf(m) # {} \/ Troubled(m, {"write", "lost"})'
    <3>1. e \in Edits'
      <4>1. e \in Edits
        BY <1>2 DEF Edits, IsEdit
      <4>2. QED
        BY <1>1, <4>1, KeptMore
    <3>2. \A m \in Settled : m \notin Edits' => m \notin Edits
      BY <1>1, <1>4, KeptMore DEF Passed
    <3>3. QED
      BY <1>1, <1>3, <1>4, <1>6, <3>1, <3>2 DEF LogInv
  <2>5. \A j \in DOMAIN log : log'[j].event \in Settled'
    BY <1>1, <1>4, <1>5, <1>11 DEF LogInv
  <2>6. QED
    BY <1>4, <1>10, <2>1, <2>2, <2>3, <2>4, <2>5 DEF LogInv
<1>15. ASSUME NEW j \in DOMAIN log', j # i
       PROVE  RowGood(log[j])'
  <2>1. PICK u \in Rows : /\ u = log[j] /\ u = log'[j] /\ u.event # s
                          /\ RowRight(u) /\ RowInv(u) /\ ShownIn(u) /\ LatestIn(u)
    BY <1>1, <1>10, <1>15 DEF BookInv, Records, RowGood
  <2>2. u.reply # 0 => job.post # u.reply
    BY <1>10, <1>13, <1>15, <2>1
  <2>3. RowInv(u)' /\ ShownIn(u)'
    BY <1>1, <1>4, <2>1, <2>2, RowSame
  <2>4. \A d \in Taking : Subject(d) # u.event
    BY <1>2, <1>3, <2>1
  <2>5. LatestIn(u)'
    BY <1>1, <1>4, <2>1, <2>4, LatestSame
  <2>6. RowGood(u)'
    BY <2>3, <2>5 DEF RowGood
  <2>7. QED
    BY <2>1, <2>6, RowAt
<1>16. RowGood(log[i])'
  <2>1. Joined(s, TRUE)' = Joined(s, TRUE)
    BY <1>1, <1>2, KeptAre
  <2>2. RowInv(v)'
    <3>1. v.response \in FromPeople' \union {0}
      BY <1>1, <1>8, <1>9, KeptAre DEF RowInv
    <3>2. v.reply # 0 => s \in timeline'[v.reply].answers
      BY <1>8, <1>9 DEF RowInv
    <3>3. v.reply # job'.post \/ v.reply = 0
      BY <1>4
    <3>4. Joined(s, TRUE)' # 0 /\ ~Troubled(s, {"fetch"})' => v.thread = Joined(s, TRUE)'
      BY <1>6, <1>8, <1>9, <2>1 DEF RowInv
    <3>5. QED
      BY <1>4, <1>9, <3>1, <3>2, <3>3, <3>4 DEF RowInv
  <2>3. ShownIn(v)'
    <3>1. SUFFICES ASSUME v.reply # 0, ~Troubled(s, {"send", "write", "lost"})'
                   PROVE  timeline[v.reply].shows = v.response
      <4>1. v.event = s
        BY <1>9
      <4>2. QED
        BY <4>1 DEF ShownIn
    <3>2. ~Troubled(s, {"send", "write", "lost"}) /\ ~Troubled(s, {"send"})
      BY <1>6, <3>1 DEF Troubled
    <3>3. CASE job.post # 0
      <4>1. response = timeline[job.post].shows
        BY <3>3
      <4>2. timeline[job.post].shows # 0
        BY <1>1, <1>12, <3>3, IdsAre DEF RoomInv
      <4>3. QED
        BY <1>9, <3>3, <4>1, <4>2
    <3>4. CASE job.post = 0
      <4>1. v.reply = w.reply /\ response = 0
        BY <1>8, <1>9, <3>1, <3>2, <3>4
      <4>2. timeline[w.reply].shows = w.response
        BY <1>8, <3>1, <3>2, <3>4, <4>1 DEF ShownIn
      <4>3. QED
        BY <1>9, <4>1, <4>2
    <3>5. QED
      BY <3>3, <3>4
  <2>4. LatestIn(v)'
    <3>1. e \in Taking /\ timeline[e].by = timeline[s].by /\ \A d \in Taking : d <= e
      BY <1>1, <1>2, <1>3, IdsAre DEF Editable
    <3>2. QED
      BY <1>1, <1>2, <1>4, <1>9, <3>1, LatestNow
  <2>5. RowGood(v)'
    BY <2>2, <2>3, <2>4 DEF RowGood
  <2>6. QED
    BY <1>9, <2>5, RowAt
<1>17. ASSUME NEW p \in ByBot
       PROVE  PostInv(p)'
  <2>1. PostInv(p)
    BY DEF Records
  <2>2. Accounted(p)'
    <3>1. CASE \E j \in DOMAIN log : log[j].reply = p
      <4>1. PICK j \in DOMAIN log : log[j].reply = p
        BY <3>1
      <4>2. CASE j # i \/ job.post = 0 \/ job.post = p
        <5>1. log'[j].reply = p
          BY <1>8, <1>9, <1>10, <1>12, <4>1, <4>2
        <5>2. QED
          BY <1>10, <5>1 DEF Accounted
      <4>3. CASE j = i /\ job.post # 0 /\ job.post # p
        <5>1. Previous = p /\ v.reply = job.post /\ job.post > p /\ timeline[job.post].content = "pictures"
          BY <1>8, <1>9, <1>12, <4>1, <4>3
        <5>2. s \in timeline[p].answers
          BY <1>8, <1>12, <5>1 DEF RowInv
        <5>3. log'[i].event \in timeline'[p].answers /\ log'[i].reply > p
              /\ timeline'[log'[i].reply].content = "pictures"
          BY <1>9, <5>1, <5>2
        <5>4. Superseded(p)'
          BY <1>10, <5>3 DEF Superseded
        <5>5. QED
          BY <5>4 DEF Accounted
      <4>4. QED
        BY <4>2, <4>3
    <3>2. CASE job.post = p
      <4>1. log'[i].reply = p
        BY <1>9, <1>12, <3>2
      <4>2. QED
        BY <1>10, <4>1 DEF Accounted
    <3>3. CASE Superseded(p)
      <4>1. PICK j \in DOMAIN log : /\ log[j].event \in timeline[p].answers
                                    /\ log[j].reply > p /\ timeline[log[j].reply].content = "pictures"
        BY <3>3 DEF Superseded
      <4>2. CASE j # i \/ job.post = 0 \/ job.post = w.reply
        <5>1. log'[j].event = log[j].event /\ log'[j].reply = log[j].reply
          BY <1>8, <1>9, <1>10, <1>11, <4>2
        <5>2. QED
          BY <1>10, <4>1, <5>1 DEF Accounted, Superseded
      <4>3. CASE j = i /\ job.post # 0 /\ job.post # w.reply
        <5>1. w.reply > p /\ p \in Nat \ {0} /\ w.reply \in Nat /\ job.post \in Nat
          BY <1>8, <1>12, <4>1, <4>3
        <5>2. v.reply = job.post /\ job.post > p /\ timeline[job.post].content = "pictures"
          <6>1. v.reply = job.post
            BY <1>9, <4>3
          <6>2. w.reply < job.post /\ timeline[job.post].content = "pictures"
            <7>1. w.reply # 0 /\ Previous = w.reply
              BY <1>8, <5>1
            <7>2. QED
              BY <4>3, <7>1
          <6>3. QED
            BY <5>1, <6>1, <6>2
        <5>3. QED
          BY <1>8, <1>9, <1>10, <4>1, <4>3, <5>2 DEF Accounted, Superseded
      <4>4. QED
        BY <4>2, <4>3
    <3>4. CASE \E m \in timeline[p].answers : Troubled(m, {"write", "lost"})
      BY <1>6, <3>4 DEF Accounted
    <3>5. QED
      BY <2>1, <3>1, <3>2, <3>3, <3>4 DEF PostInv, Accounted
  <2>3. ASSUME NEW j \in DOMAIN log', j # i
        PROVE  PairInv(p, log[j])'
    <3>1. PICK u \in Rows : u = log[j] /\ u = log'[j] /\ u.event # s /\ PairInv(p, u)
      BY <1>1, <1>10, <2>1, <2>3 DEF BookInv, PostInv
    <3>2. ~Revising(p, u.event)
      BY <1>2, <3>1 DEF Revising
    <3>3. PairInv(p, u)'
      BY <1>1, <3>1, <3>2, PairSame
    <3>4. QED
      BY <3>1, <3>3 DEF PairInv, Revising, Excused, Troubled
  <2>4. PairInv(p, log[i])'
    <3>1. SUFFICES ASSUME s \in timeline[p].answers
                   PROVE  /\ v.reply = 0 => Excused(p, s)'
                          /\ timeline[p].thread # 0 /\ ~Troubled(s, {"fetch", "write", "lost"})'
                               => v.thread # 0 /\ timeline[p].thread \in {v.thread, s}
      BY <1>9 DEF PairInv, Excused, Troubled
    <3>2. PairInv(p, w) /\ w.event = s
      BY <1>8
    <3>3. Revising(p, s) <=> p = job.post
      BY <1>2 DEF Revising
    <3>4. v.reply = 0 => Excused(p, s)'
      <4>1. v.reply = 0 => w.reply = 0 /\ job.post = 0
        BY <1>9
      <4>2. Excused(p, s) => Excused(p, s)'
        BY <1>6 DEF Excused
      <4>3. QED
        BY <1>12, <3>1, <3>2, <3>3, <4>1, <4>2 DEF PairInv
    <3>5. ASSUME timeline[p].thread # 0, ~Troubled(s, {"fetch", "write", "lost"})'
          PROVE  v.thread # 0 /\ timeline[p].thread \in {v.thread, s}
      <4>1. ~Troubled(s, {"fetch", "write", "lost"}) /\ ~Troubled(s, {"fetch"})
        BY <1>6, <3>5 DEF Troubled
      <4>2. CASE w.reply = p \/ p # job.post
        BY <1>9, <3>1, <3>2, <3>3, <3>5, <4>1, <4>2 DEF PairInv
      <4>3. CASE w.reply # p /\ p = job.post
        <5>1. /\ thread = timeline[p].thread
              /\ \/ Joined(s, TRUE) = 0 /\ thread = s
                 \/ Joined(s, TRUE) # 0 /\ thread = Joined(s, TRUE)
          BY <1>8, <1>12, <3>5, <4>1, <4>3
        <5>2. Joined(s, TRUE) # 0 => w.thread = Joined(s, TRUE)
          BY <1>8, <4>1 DEF RowInv
        <5>3. QED
          BY <1>9, <3>5, <5>1, <5>2
      <4>4. QED
        BY <4>2, <4>3
    <3>6. QED
      BY <3>4, <3>5
  <2>5. \A m \in Taking : m \in Settled'
    BY <1>4
  <2>6. QED
    BY <1>1, <1>4, <2>1, <2>2, <2>3, <2>4, <2>5, PostSame
<1>18. OneAnswer'
  <2>1. \A p, q \in ByBot : Once(p, q)'
    BY <1>1, OnceSame
  <2>2. QED
    BY <1>6, <2>1 DEF Once, OneAnswer
<1>19. QED
  BY <1>6, <1>14, <1>15, <1>16, <1>17, <1>18 DEF Records

(* An edit that changes no row: it is nobody's, or changes nothing, or it went *)
(* wrong.                                                                      *)
LEMMA UnrecordedKeeps ==
  ASSUME Inv, Inv', Kept, LineInv, DeskInv, Records, timeline' = timeline, log' = log, Done,
         job.phase # "idle", IsEdit(Incoming), Len(current[Here]) = 1,
         NEW s, s = Subject(Incoming),
         job.post # 0 => s \in timeline[job.post].answers /\ Troubled(s, {"write", "lost"})',
         \/ ~Editable(Incoming) \/ Unchanged(Incoming)
         \/ Troubled(s, {"fetch", "write", "lost"})'
  PROVE  Records'
<1>1. /\ RoomInv /\ RoomInv' /\ BookInv /\ BookInv' /\ QueueInv /\ JobInv /\ LogInv
  BY DEF Inv, Records
<1>2. PICK e \in FromPeople : e = Incoming /\ s = Subject(e) /\ s \in FromPeople
  BY <1>1, IncomingIs, SubjectIs
<1>3. Taking = {e}
  <2>1. current[Here] \in Seq(Nat)
    BY <1>1 DEF QueueInv
  <2>2. DOMAIN current[Here] = {1}
    BY <2>1
  <2>3. QED
    BY <1>2, <2>2 DEF Taking, Incoming
<1>4. /\ Passed(Taking) /\ Settled' = Settled \union Taking
      /\ Taking' = {} /\ Written' = {} /\ job'.post = 0
  BY DonePasses
<1>5. Written \subseteq Taking
  BY DEF Written, Taking
<1>6. e \in Edits
  BY <1>2 DEF Edits, IsEdit
<1>7. ASSUME NEW i \in DOMAIN log
      PROVE  LatestIn(log[i])'
  <2>1. PICK w \in Rows : w = log[i] /\ w = log'[i] /\ RowRight(w) /\ LatestIn(w) /\ w.event \in FromPeople
    BY <1>1, <1>7 DEF BookInv, Records, RowGood, RowRight
  <2>2. LatestIn(w)'
    <3>1. CASE Troubled(w.event, {"fetch", "write", "lost"})'
      BY <3>1 DEF LatestIn
    <3>2. CASE w.event # s \/ timeline[e].by # timeline[s].by
      BY <1>1, <1>2, <1>3, <1>4, <2>1, <3>2, LatestSame
    <3>3. CASE w.event = s /\ timeline[e].by = timeline[s].by /\ ~Troubled(s, {"fetch", "write", "lost"})'
      <4>1. RowsOf(s) # {} /\ Editable(Incoming) /\ Unchanged(Incoming)
        BY <1>2, <1>7, <2>1, <3>3 DEF RowsOf, Editable
      <4>2. Row(s) = w
        BY <1>1, <1>7, <2>1, <3>3, <4>1, RowIs
      <4>3. LogBody(Version(e)) = LogBody(timeline[e].content)
        BY <1>1, ConversationAssumption DEF RoomInv, Version, LogBody
      <4>4. w.body = LogBody(timeline[e].content)
        BY <1>2, <4>1, <4>2, <4>3 DEF Unchanged
      <4>5. e \in Taking /\ \A d \in Taking : d <= e
        BY <1>1, <1>2, <1>3, IdsAre
      <4>6. QED
        BY <1>1, <1>2, <1>4, <2>1, <3>3, <4>4, <4>5, LatestNow
    <3>4. QED
      BY <2>1, <3>1, <3>2, <3>3
  <2>3. QED
    BY <2>1, <2>2 DEF LatestIn, Versions, Subject, IsEdit, Troubled
<1>8. /\ LogInv' /\ \A i \in DOMAIN log' : RowGood(log[i])'
      /\ \A p \in ByBot : PostInv(p)' /\ \A q \in ByBot : Once(p, q)'
  <2>1. Written \subseteq FromPeople /\ Taking \subseteq Settled'
    BY <1>3, <1>4, <1>5
  <2>2. \A m \in Taking \union Written' : m \in Settled \union Written \union Edits
    BY <1>3, <1>4, <1>6
  <2>3. job.post # 0 => \E m \in timeline[job.post].answers : Troubled(m, {"write", "lost"})'
    OBVIOUS
  <2>4. QED
    BY <1>1, <1>4, <1>5, <1>7, <2>1, <2>2, <2>3, UnwrittenKeeps
<1>9. ByBot' = ByBot
  BY DEF ByBot, Ids
<1>10. QED
  BY <1>8, <1>9 DEF Records, Once, OneAnswer

(* process_message drops an edit, or cannot write it down.                     *)
LEMMA DropEditRecords ==
  ASSUME Inv, Inv', Kept, LineInv, DeskInv, Records, DropEdit
  PROVE  Records'
<1>1. /\ timeline' = timeline /\ log' = log /\ Done /\ job.phase = "taken" /\ IsEdit(Incoming)
      /\ job.post = 0 /\ Len(current[Here]) = 1
  BY DEF DropEdit, Working, DeskInv
<1>2. PICK s : s = Subject(Incoming)
  OBVIOUS
<1>3. Editable(Incoming) /\ ~Unchanged(Incoming) => Troubled(s, {"fetch", "write", "lost"})'
  BY <1>2 DEF DropEdit, Suffer, Troubled
<1>4. QED
  BY <1>1, <1>2, <1>3, UnrecordedKeeps

LEMMA LoseQuietEditRecords ==
  ASSUME Inv, Inv', Kept, LineInv, DeskInv, Records, NEW place, LoseQuietEdit(place)
  PROVE  Records'
<1>1. /\ timeline' = timeline /\ log' = log /\ Done /\ job.phase = "taken" /\ IsEdit(Incoming)
      /\ job.post = 0 /\ Len(current[Here]) = 1
  BY DEF LoseQuietEdit, Working, DeskInv, Quiet
<1>2. PICK s : s = Subject(Incoming)
  OBVIOUS
<1>3. Troubled(s, {"fetch", "write", "lost"})'
  BY <1>2 DEF LoseQuietEdit, Suffer, Troubled
<1>4. QED
  BY <1>1, <1>2, <1>3, UnrecordedKeeps

LEMMA SaveQuietEditRecords ==
  ASSUME Inv, Inv', Kept, LineInv, DeskInv, Records, NEW place, NEW found, SaveQuietEdit(found, place)
  PROVE  Records'
<1>1. /\ timeline' = timeline /\ Done /\ job.phase = "taken" /\ IsEdit(Incoming) /\ Editable(Incoming)
      /\ job.post = 0 /\ Len(current[Here]) = 1
      /\ RecordEdit(Incoming, 0, job.post, 0)
  BY DEF SaveQuietEdit, Working, DeskInv, Quiet, Handled
<1>2. PICK s : s = Subject(Incoming)
  OBVIOUS
<1>3. 0 \in Nat /\ 0 \in FromPeople \union {0}
  OBVIOUS
<1>4. QED
  BY <1>1, <1>2, <1>3, RecordedKeeps

(* An edit's answer is written down, or could not be. *)
LEMMA SaveEditRecords ==
  ASSUME Inv, Inv', Kept, LineInv, DeskInv, AnswerInv, Records, SaveEdit
  PROVE  Records'
<1>1. /\ timeline' = timeline /\ Done /\ job.phase = "answered" /\ IsEdit(Incoming)
      /\ Editable(Incoming) /\ Len(current[Here]) = 1
  BY DEF SaveEdit, Working, DeskInv
<1>2. /\ RoomInv /\ QueueInv /\ JobInv
  BY DEF Inv
<1>3. PICK e \in FromPeople : e = Incoming
  BY <1>1, <1>2, IncomingIs
<1>4. PICK s \in FromPeople : s = Subject(Incoming)
  BY <1>2, <1>3, SubjectIs
<1>5. Incoming \in Taking
  <2>1. 1 \in DOMAIN current[Here]
    BY <1>1, <1>2, IncomingIs
  <2>2. QED
    BY <2>1 DEF Taking, Incoming
<1>6. job.post # 0 => s \in timeline[job.post].answers
  BY <1>4, <1>5 DEF AnswerInv
<1>7. CASE RecordEdit(Incoming, Response, job.post, LoggedThread)
  <2>1. PICK thread \in Nat, response \in FromPeople \union {0} :
          /\ thread = LoggedThread /\ response = Response
    BY <1>1, <1>3, LoggedThreadIs DEF Response
  <2>2. job.post # 0 => response = timeline[job.post].shows /\ thread = Root
    BY <1>1, <2>1, LoggedThreadIs DEF AnswerInv, Response
  <2>3. ASSUME job.post # 0, Previous # job.post, timeline[job.post].thread # 0
        PROVE  /\ Previous = 0 \/ (Previous < job.post /\ timeline[job.post].content = "pictures")
               /\ thread = timeline[job.post].thread
               /\ \/ Joined(s, TRUE) = 0 /\ thread = s
                  \/ Joined(s, TRUE) # 0 /\ thread = Joined(s, TRUE)
                  \/ Troubled(s, {"fetch"})
    <3>1. /\ Previous = 0 \/ (Previous < job.post /\ timeline[job.post].content = "pictures")
          /\ timeline[job.post].thread = Root /\ thread = Root /\ Root # 0
      BY <2>2, <2>3 DEF AnswerInv
    <3>2. /\ Joined(e, TRUE) = Joined(s, TRUE) /\ job.found \in BOOLEAN
          /\ Joined(e, job.found) # 0 => Joined(e, job.found) = Joined(s, TRUE)
      BY <1>2, <1>3, <1>4, SubjectIs DEF JobInv, Jobs
    <3>3. Joined(e, job.found) = 0 => Root = s
      BY <1>3, <1>4, <3>1 DEF Root
    <3>4. Joined(e, job.found) # 0 => Root = Joined(e, job.found)
      BY <1>3 DEF Root
    <3>5. CASE Joined(e, job.found) # 0
      BY <3>1, <3>2, <3>4, <3>5
    <3>6. CASE Joined(e, job.found) = 0 /\ Joined(s, TRUE) # 0
      <4>1. ~job.found
        BY <3>2, <3>6
      <4>2. timeline[s].replyTo # 0
        <5>1. Stated(e) = 0 /\ Target(e, TRUE) # 0
          BY <3>2, <3>6 DEF Joined
        <5>2. QED
          BY <1>3, <1>4, <5>1 DEF Target
      <4>3. Troubled(s, {"fetch"})
        BY <1>1, <1>2, <1>4, <4>1, <4>2 DEF JobInv
      <4>4. QED
        BY <3>1, <4>3
    <3>7. QED
      BY <3>1, <3>3, <3>5, <3>6
  <2>4. job.post # 0 =>
          /\ response = timeline[job.post].shows /\ s \in timeline[job.post].answers
          /\ \/ Previous = job.post
             \/ /\ Previous = 0 \/ (Previous < job.post /\ timeline[job.post].content = "pictures")
                /\ timeline[job.post].thread # 0 =>
                     /\ thread = timeline[job.post].thread
                     /\ \/ Joined(s, TRUE) = 0 /\ thread = s
                        \/ Joined(s, TRUE) # 0 /\ thread = Joined(s, TRUE)
                        \/ Troubled(s, {"fetch"})
    BY <1>6, <2>2, <2>3 DEF AnswerInv
  <2>5. job.post = 0 /\ response # 0 => Previous = 0 \/ Troubled(s, {"send"})
    BY <1>1, <1>4, <2>1 DEF AnswerInv, Response
  <2>6. RecordEdit(Incoming, response, job.post, thread)
    BY <1>7, <2>1
  <2>7. QED
    BY <1>1, <1>4, <2>4, <2>5, <2>6, RecordedKeeps
<1>8. CASE Suffer({Subject(Incoming)}, "write") /\ log' = log
  <2>1. Troubled(s, {"fetch", "write", "lost"})' /\ Troubled(s, {"write", "lost"})'
    BY <1>4, <1>8 DEF Suffer, Troubled
  <2>2. QED
    BY <1>1, <1>4, <1>6, <1>8, <2>1, UnrecordedKeeps
<1>9. QED
  BY <1>7, <1>8 DEF SaveEdit

(* What is lost with a worker, or with the process.                            *)
LEMMA LoseLoses ==
  ASSUME LineInv, Lose
  PROVE  \A m \in Taking \union Waiting : <<Subject(m), "lost">> \in mishaps'
<1> DEFINE c == current[Here]
           q == pending[Here]
<1>1. c \in Seq(Nat) /\ q \in Seq(Nat)
  BY QueueIs
<1>2. Unfinished = c \o q
  BY DEF Unfinished, Order!Line
<1>3. Taking = {c[k] : k \in DOMAIN c} /\ Waiting = {q[k] : k \in DOMAIN q}
  BY DEF Taking, Waiting
<1> HIDE DEF c, q
<1>4. /\ DOMAIN c = 1..Len(c) /\ DOMAIN q = 1..Len(q) /\ Len(c) \in Nat /\ Len(q) \in Nat
      /\ DOMAIN (c \o q) = 1..(Len(c) + Len(q))
      /\ \A k \in 1..Len(c) : (c \o q)[k] = c[k]
      /\ \A k \in 1..Len(q) : (c \o q)[Len(c) + k] = q[k]
  BY <1>1
<1>5. ASSUME NEW m \in Taking \union Waiting
      PROVE  \E k \in DOMAIN Unfinished : m = Unfinished[k]
  <2>1. CASE m \in Taking
    <3>1. PICK k \in 1..Len(c) : m = c[k]
      BY <1>3, <1>4, <2>1
    <3>2. k \in DOMAIN (c \o q) /\ m = (c \o q)[k]
      BY <1>4, <3>1
    <3>3. QED
      BY <1>2, <3>2
  <2>2. CASE m \in Waiting
    <3>1. PICK k \in 1..Len(q) : m = q[k]
      BY <1>3, <1>4, <2>2
    <3>2. Len(c) + k \in DOMAIN (c \o q) /\ m = (c \o q)[Len(c) + k]
      BY <1>4, <3>1
    <3>3. QED
      BY <1>2, <3>2
  <2>3. QED
    BY <2>1, <2>2
<1>6. \A m \in Taking \union Waiting : Subject(m) \in {Subject(Unfinished[k]) : k \in DOMAIN Unfinished}
  BY <1>5
<1>7. QED
  BY <1>6 DEF Lose, Suffer

LEMMA LoseRecords ==
  ASSUME Inv, Inv', Kept, LineInv, DeskInv, AnswerInv, Records, Lose,
         timeline' = timeline, log' = log
  PROVE  Records' /\ Taking' = {} /\ Settled' = Settled \union (Taking \union Waiting) /\ job' = Idle
<1> DEFINE Gone == Taking \union Waiting
<1>1. /\ RoomInv /\ RoomInv' /\ BookInv /\ BookInv' /\ QueueInv /\ JobInv
  BY DEF Inv
<1>2. Settled' = Settled \union Gone /\ Taking' = {} /\ job' = Idle
  BY DropSettles DEF Lose
<1>3. Passed(Gone) /\ Gone \subseteq FromPeople
  BY <1>2, PlacesAre DEF Passed, InLine
<1>4. ASSUME NEW m \in Gone
      PROVE  /\ <<Subject(m), "lost">> \in mishaps'
             /\ m \in Edits \/ Troubled(m, {"write", "lost"})'
  <2>1. <<Subject(m), "lost">> \in mishaps'
    BY LoseLoses
  <2>2. m \in Edits \/ Subject(m) = m
    BY <1>3 DEF Edits, Subject, IsEdit
  <2>3. QED
    BY <2>1, <2>2 DEF Troubled
<1>5. Written \subseteq Taking /\ Written' = {}
  <2>1. Written \subseteq Taking
    BY DEF Written, Taking
  <2>2. Written' \subseteq Taking'
    BY DEF Written, Taking
  <2>3. QED
    BY <1>2, <2>1, <2>2
<1>6. job'.post = 0
  BY <1>2 DEF Idle
<1>7. job.post # 0 => \E m \in timeline[job.post].answers : Troubled(m, {"write", "lost"})'
  <2> SUFFICES ASSUME job.post # 0
               PROVE  \E m \in timeline[job.post].answers : Troubled(m, {"write", "lost"})'
    OBVIOUS
  <2>1. Incoming \in Taking
    <3>1. job.phase = "answered"
      BY DEF DeskInv, JobInv
    <3>2. 1 \in DOMAIN current[Here]
      BY <1>1, <3>1, IncomingIs
    <3>3. QED
      BY <3>2 DEF Taking, Incoming
  <2>2. PICK m : m = Subject(Incoming) /\ m \in timeline[job.post].answers
    BY <2>1 DEF AnswerInv
  <2>3. <<m, "lost">> \in mishaps'
    BY <1>4, <2>1, <2>2
  <2>4. Troubled(m, {"write", "lost"})'
    BY <2>3 DEF Troubled
  <2>5. QED
    BY <2>2, <2>4
<1>8. job.post # 0 => \A s : IsEdit(Incoming) /\ s = Subject(Incoming) => Troubled(s, {"write", "lost"})'
  <2> SUFFICES ASSUME job.post # 0, NEW s, s = Subject(Incoming)
               PROVE  Troubled(s, {"write", "lost"})'
    OBVIOUS
  <2>1. Incoming \in Taking
    <3>1. job.phase = "answered"
      BY DEF DeskInv, JobInv
    <3>2. 1 \in DOMAIN current[Here]
      BY <1>1, <3>1, IncomingIs
    <3>3. QED
      BY <3>2 DEF Taking, Incoming
  <2>2. <<s, "lost">> \in mishaps'
    BY <1>4, <2>1
  <2>3. QED
    BY <2>2 DEF Troubled
<1>9. ASSUME NEW i \in DOMAIN log
      PROVE  LatestIn(log[i])'
  <2>1. PICK w \in Rows : w = log[i] /\ w = log'[i] /\ RowRight(w) /\ LatestIn(w)
    BY <1>1, <1>9 DEF BookInv, Records, RowGood
  <2>2. \/ Troubled(w.event, {"fetch", "write", "lost"})'
        \/ \A e \in Gone : Subject(e) # w.event
    BY <1>4 DEF Troubled
  <2>3. LatestIn(w)'
    BY <1>1, <1>3, <2>1, <2>2, LatestSame
  <2>4. QED
    BY <2>1, <2>3 DEF LatestIn, Versions, Subject, IsEdit, Troubled
<1> HIDE DEF Gone
<1>10. Taking \subseteq Gone /\ Taking \subseteq Settled'
  BY <1>2 DEF Gone
<1>11. /\ LogInv' /\ \A i \in DOMAIN log' : RowGood(log[i])'
       /\ \A p \in ByBot : PostInv(p)' /\ \A q \in ByBot : Once(p, q)'
  <2>1. Written \subseteq FromPeople /\ Written \subseteq Settled'
    BY <1>3, <1>5, <1>10
  <2>2. \A m \in Gone \union Written' :
          m \in Settled \union Written \union Edits \/ Troubled(m, {"write", "lost"})'
    BY <1>4, <1>5
  <2>3. QED
    BY <1>1, <1>3, <1>5, <1>6, <1>7, <1>8, <1>9, <1>10, <2>1, <2>2, UnwrittenKeeps
<1>12. ByBot' = ByBot
  BY DEF ByBot, Ids
<1>13. QED
  BY <1>2, <1>11, <1>12 DEF Records, Once, OneAnswer, Gone

-----------------------------------------------------------------------------
(* What is written down line by line                                           *)

(* Line m is the next, and Gone is over after it: nothing, or, with the last   *)
(* line, all that was answered.                                                *)
NextLine(m, Gone) ==
  /\ m \in Taking /\ m \in FromPeople \ Edits /\ m \notin Settled \union Written
  /\ \A n \in Settled \union Written : n < m
  /\ \A n \in Taking : n \in FromPeople \ Edits /\ Subject(n) = n
  /\ Written \subseteq Taking
  /\ Passed(Gone) /\ Settled' \union Written' = Settled \union Written \union {m}
  /\ \/ /\ Gone = {} /\ Written' = Written \union {m} /\ Taking' = Taking
        /\ job'.post = job.post /\ Incoming' = Incoming
        /\ \E n \in Taking : n > m
        /\ Line(m).reply = 0 /\ Line(m).response = 0
     \/ /\ Gone = Taking /\ Written' = {} /\ job'.post = 0
        /\ Line(m).reply = job.post /\ Line(m).response = Response

LEMMA LinesAre ==
  ASSUME Inv, LineInv, job.phase = "answered", ~IsEdit(Incoming)
  PROVE  /\ \A n \in Taking : n \in FromPeople \ Edits /\ Subject(n) = n
         /\ DOMAIN current[Here] = 1..Len(current[Here]) /\ Len(current[Here]) \in Nat \ {0}
         /\ job.line \in 1..Len(current[Here])
<1>1. RoomInv /\ QueueInv /\ JobInv
  BY DEF Inv
<1>2. current[Here] \in Seq(Nat) /\ job.line \in 1..Len(current[Here])
  BY <1>1 DEF QueueInv, JobInv
<1>3. ASSUME NEW k \in DOMAIN current[Here]
      PROVE  current[Here][k] \in FromPeople \ Edits /\ Subject(current[Here][k]) = current[Here][k]
  <2>1. PICK n : n = current[Here][k] /\ n \in FromPeople /\ (k = 1 \/ Follows(n, Incoming))
    BY <1>1, <1>3 DEF QueueInv
  <2>2. k = 1 => n = Incoming
    BY <2>1 DEF Incoming
  <2>3. timeline[n].edits = 0
    BY <2>1, <2>2 DEF Follows, IsEdit
  <2>4. QED
    BY <2>1, <2>3 DEF Edits, Subject, IsEdit
<1>4. QED
  BY <1>2, <1>3 DEF Taking

LEMMA LineNext ==
  ASSUME Inv, LineInv, LogLine, NEW m, m = current[Here][job.line]
  PROVE  NextLine(m, {}) \/ NextLine(m, Taking)
<1> DEFINE c == current[Here]
<1>1. /\ job.phase = "answered" /\ ~IsEdit(Incoming) /\ timeline' = timeline
      /\ RoomInv /\ QueueInv /\ JobInv
  BY DEF LogLine, Working, Inv
<1>2. /\ \A n \in Taking : n \in FromPeople \ Edits /\ Subject(n) = n
      /\ DOMAIN c = 1..Len(c) /\ Len(c) \in Nat \ {0} /\ job.line \in 1..Len(c)
  BY <1>1, LinesAre
<1>3. /\ Settled \subseteq FromPeople /\ \A n \in Settled, k \in Taking : n < k
      /\ \A j, k \in DOMAIN c : j < k => c[j] < c[k]
  BY PlacesAre DEF InLine
<1>4. /\ Taking = {c[k] : k \in 1..Len(c)} /\ m = c[job.line] /\ m \in Taking
      /\ Written = {c[k] : k \in {k \in 1..Len(c) : k < job.line}}
  BY <1>2 DEF Taking, Written
<1>5. \A n \in Taking : n \in Nat
  BY <1>1, <1>2, IdsAre
<1> DEFINE w == Line(m)
<1>6. /\ job.line = Len(c) => w.reply = job.post /\ w.response = Response
      /\ m # c[Len(c)] => w.reply = 0 /\ w.response = 0
  BY <1>4 DEF Line
<1> HIDE DEF w
<1>7. /\ Written \subseteq Taking /\ \A n \in Settled \union Written : n < m
      /\ m \notin Settled \union Written
  <2>1. Written \subseteq Taking
    BY <1>4
  <2>2. \A n \in Written : n < m
    BY <1>2, <1>3, <1>4
  <2>3. \A n \in Settled \union Written : n < m
    BY <1>3, <1>4, <2>2
  <2>4. m \in Nat
    BY <1>4, <1>5
  <2>5. QED
    BY <2>1, <2>3, <2>4
<1>8. CASE job.line # Len(c)
  <2>1. job' = [job EXCEPT !.line = @ + 1] /\ UNCHANGED queue
    BY <1>8 DEF LogLine
  <2>2. current' = current /\ arrived' = arrived /\ settled' = settled
    BY <2>1 DEF queue
  <2>3. job'.line = job.line + 1 /\ job'.post = job.post
    BY <1>1, <2>1 DEF JobInv, Jobs
  <2>4. Taking' = Taking /\ Settled' = Settled /\ Incoming' = Incoming
    BY <2>2 DEF Taking, Settled, Incoming
  <2>5. Written' = Written \union {m}
    <3>1. Written' = {c[k] : k \in {k \in 1..Len(c) : k < job.line + 1}}
      BY <1>2, <2>2, <2>3 DEF Written
    <3>2. {k \in 1..Len(c) : k < job.line + 1} = {k \in 1..Len(c) : k < job.line} \union {job.line}
      BY <1>2
    <3>3. QED
      BY <1>4, <3>1, <3>2
  <2>6. \E n \in Taking : n = c[Len(c)] /\ n > m /\ n # m
    <3>1. Len(c) \in DOMAIN c /\ job.line \in DOMAIN c /\ job.line < Len(c)
      BY <1>2, <1>8
    <3>2. m < c[Len(c)]
      BY <1>3, <1>4, <3>1
    <3>3. PICK n \in Taking : n = c[Len(c)]
      BY <1>2, <1>4, <3>1
    <3>4. n \in Nat /\ m \in Nat /\ m < n
      BY <1>4, <1>5, <3>2, <3>3
    <3>5. QED
      BY <3>3, <3>4
  <2>7. w.reply = 0 /\ w.response = 0
    BY <1>6, <2>6
  <2>8. Passed({})
    BY <1>3, <2>4 DEF Passed
  <2>9. Settled' \union Written' = Settled \union Written \union {m}
    BY <2>4, <2>5
  <2>10. m \in FromPeople \ Edits /\ \E n \in Taking : n > m
    BY <1>2, <1>4, <2>6
  <2>11. NextLine(m, {})
    BY <1>2, <1>4, <1>7, <2>3, <2>4, <2>5, <2>7, <2>8, <2>9, <2>10 DEF NextLine, w
  <2>12. QED
    BY <2>11
<1>9. CASE job.line = Len(c)
  <2>1. Done
    BY <1>9 DEF LogLine
  <2>2. /\ Passed(Taking) /\ Settled' = Settled \union Taking /\ Written' = {} /\ job'.post = 0
    BY <2>1, DonePasses
  <2>3. Taking = Written \union {m}
    <3>1. \A k \in 1..Len(c) : k < job.line \/ k = job.line
      BY <1>2, <1>9
    <3>2. QED
      BY <1>2, <1>4, <3>1
  <2>4. Settled' \union Written' = Settled \union Written \union {m}
    BY <2>2, <2>3
  <2>5. w.reply = job.post /\ w.response = Response
    BY <1>6, <1>9
  <2>6. NextLine(m, Taking)
    BY <1>2, <1>4, <1>7, <2>2, <2>4, <2>5 DEF NextLine, w
  <2>7. QED
    BY <2>6
<1>10. QED
  BY <1>8, <1>9

(* The messages that have a row keep the version in it.                        *)
LEMMA LineLatest ==
  ASSUME Inv, Inv', Kept, LineInv, Records, timeline' = timeline,
         NEW m, NEW Gone, NextLine(m, Gone), NEW w \in Rows, w.event # m,
         RowRight(w), RowInv(w), LatestIn(w)
  PROVE  LatestIn(w)'
<1>1. RoomInv /\ RoomInv' /\ Passed(Gone)
  BY DEF Inv, NextLine
<1>2. Gone \subseteq Taking /\ \A n \in Gone : Subject(n) = n /\ n \in FromPeople
  BY DEF NextLine
<1>3. CASE w.event \notin Gone
  BY <1>1, <1>2, <1>3, LatestSame
<1>4. CASE w.event \in Gone /\ w.event \in Written
  <2>1. w.body = LogBody(timeline[w.event].content) /\ w.event \in FromPeople
    BY <1>4 DEF RowInv, RowRight
  <2>2. Subject(w.event) = w.event /\ w.event \in Nat
    BY <1>1, <1>2, <1>4, <2>1, IdsAre
  <2>3. \A d \in Gone : Subject(d) = w.event => d <= w.event
    BY <1>2, <2>2
  <2>4. QED
    BY <1>1, <1>4, <2>1, <2>2, <2>3, LatestNow
<1>5. CASE w.event \in Gone /\ w.event \notin Written
  <2>1. Gone = Taking /\ w.event \in Settled' /\ Written' = {}
    BY <1>1, <1>5 DEF NextLine, Passed
  <2>2. w.event \in Settled
    BY <1>5, <2>1 DEF NextLine
  <2>3. w.event < w.event /\ w.event \in Nat
    BY <1>1, <1>5, <2>2, IdsAre DEF Passed, RowRight
  <2>4. QED
    BY <2>3
<1>6. QED
  BY <1>3, <1>4, <1>5

(* The new row is good, and says of the answer what the rest relies on.        *)
LEMMA LineGood ==
  ASSUME Inv, Inv', Kept, LineInv, DeskInv, AnswerInv, Records, timeline' = timeline,
         job.phase = "answered", ~IsEdit(Incoming),
         NEW m, NEW Gone, m = current[Here][job.line], NextLine(m, Gone),
         NEW v \in Rows, v = Line(m)
  PROVE  /\ RowGood(v)' /\ v.event = m
         /\ \A p \in ByBot : PairInv(p, v)'
<1>1. /\ RoomInv /\ RoomInv' /\ QueueInv /\ JobInv /\ Passed(Gone)
  BY DEF Inv, NextLine
<1>2. /\ m \in Taking /\ m \in FromPeople /\ ~IsEdit(m) /\ Subject(m) = m /\ m \notin Settled /\ m \notin Written
      /\ m \in Nat
  <2>1. m \in Taking /\ m \in FromPeople \ Edits /\ Subject(m) = m /\ m \notin Settled /\ m \notin Written
    BY DEF NextLine
  <2>2. QED
    BY <1>1, <2>1, IdsAre DEF Edits, IsEdit
<1>3. /\ v.event = m /\ v.body = LogBody(Version(m)) /\ v.thread = LoggedThread
      /\ \/ v.reply = 0 /\ v.response = 0
         \/ v.reply = job.post /\ v.response = Response
  <2>1. v.event = m /\ v.body = LogBody(Version(m)) /\ v.thread = LoggedThread
    BY DEF Line
  <2>2. QED
    BY <2>1 DEF NextLine
<1>4. PICK e \in FromPeople : e = Incoming
  BY <1>1, IncomingIs
<1>5. /\ job.post \in ByBot \union {0} /\ (job.post # 0 => LoggedThread = Root /\ timeline[job.post].thread = Root)
      /\ LoggedThread \in Nat /\ job.found \in BOOLEAN
  <2>1. job.post \in ByBot \union {0} /\ (job.post # 0 => LoggedThread = Root) /\ LoggedThread \in Nat
    BY LoggedThreadIs
  <2>2. (job.post # 0 => timeline[job.post].thread = Root) /\ job.found \in BOOLEAN
    BY <1>1 DEF JobInv, Jobs
  <2>3. QED
    BY <2>1, <2>2
<1>6. /\ \A x, S : Troubled(x, S) => Troubled(x, S)'
      /\ FromPeople \subseteq FromPeople'
      /\ Joined(m, TRUE)' = Joined(m, TRUE)
  BY <1>1, <1>2, KeptMore, KeptAre
<1>7. job.post # 0 =>
        /\ timeline[job.post].shows = e /\ job.responded
        /\ \A n \in Taking : n \in timeline[job.post].answers
  BY <1>4 DEF AnswerInv, NextLine
<1>8. ASSUME Joined(m, TRUE) # 0, ~Troubled(m, {"fetch"})
      PROVE  LoggedThread = Joined(m, TRUE)
  <2>1. m = e \/ Follows(m, e)
    BY <1>1, <1>4, LinesAre DEF QueueInv, Incoming
  <2>2. Subject(e) = e
    BY <1>4 DEF Subject
  <2>3. CASE m = e
    <3>1. job.found \/ timeline[e].replyTo = 0
      BY <1>1, <1>4, <1>8, <2>2, <2>3 DEF JobInv
    <3>2. Joined(e, job.found) = Joined(e, TRUE)
      BY <1>5, <2>2, <3>1 DEF Joined, Target
    <3>3. QED
      BY <1>4, <1>8, <2>3, <3>2 DEF LoggedThread
  <2>4. CASE Follows(m, e)
    <3>1. /\ timeline[m].thread = timeline[e].thread
          /\ timeline[m].replyTo # 0 => timeline[m].thread # 0
      BY <2>2, <2>4 DEF Follows, Stated
    <3>2. Joined(m, TRUE) = timeline[e].thread
      BY <1>2, <1>8, <3>1 DEF Joined, Stated, Target
    <3>3. Joined(e, job.found) = timeline[e].thread
      BY <1>8, <2>2, <3>2 DEF Joined, Stated
    <3>4. QED
      BY <1>4, <1>8, <3>2, <3>3 DEF LoggedThread
  <2>5. QED
    BY <2>1, <2>3, <2>4
<1>9. Version(m) = timeline[m].content
  BY <1>2 DEF Version
<1>10. RowInv(v)'
  <2>1. v.response \in FromPeople' \union {0}
    BY <1>3, <1>4, <1>6 DEF Response
  <2>2. v.reply # 0 => m \in timeline'[v.reply].answers
    BY <1>2, <1>3, <1>7
  <2>3. v.reply # 0 => v.reply # job'.post
    BY DEF NextLine
  <2>4. Joined(m, TRUE)' # 0 /\ ~Troubled(m, {"fetch"})' => v.thread = Joined(m, TRUE)'
    BY <1>3, <1>6, <1>8
  <2>5. QED
    BY <1>3, <1>9, <2>1, <2>2, <2>3, <2>4 DEF RowInv
<1>11. ShownIn(v)'
  BY <1>3, <1>4, <1>7 DEF ShownIn, Response
<1>12. LatestIn(v)'
  <2>1. CASE m \notin Settled'
    BY <1>3, <2>1 DEF LatestIn
  <2>2. CASE m \in Settled'
    <3>1. m \in Gone
      BY <1>1, <1>2, <2>2 DEF Passed
    <3>2. \A d \in Gone : Subject(d) = d
      BY DEF NextLine
    <3>3. \A d \in Gone : Subject(d) = v.event => d <= m
      BY <1>2, <1>3, <3>2
    <3>4. QED
      BY <1>1, <1>2, <1>3, <1>9, <3>1, <3>3, LatestNow
  <2>3. QED
    BY <2>1, <2>2
<1>13. ASSUME NEW p \in ByBot
       PROVE  PairInv(p, v)'
  <2>1. SUFFICES ASSUME m \in timeline[p].answers
                 PROVE  /\ v.reply = 0 => Excused(p, m)'
                        /\ timeline[p].thread # 0 => v.thread # 0 /\ timeline[p].thread \in {v.thread, m}
    BY <1>3 DEF PairInv, Excused, Troubled
  <2>2. p = job.post
    BY <1>2, <2>1 DEF Records, PostInv
  <2>3. p # 0
    BY <1>1, IdsAre
  <2>4. v.reply = 0 => Excused(p, m)'
    <3>1. v.reply = 0 => \E n \in Taking : n > m
      BY <2>2, <2>3 DEF NextLine
    <3>2. QED
      BY <1>7, <2>2, <2>3, <3>1 DEF Excused
  <2>5. QED
    BY <1>3, <1>5, <2>2, <2>3, <2>4
<1>14. QED
  BY <1>3, <1>10, <1>11, <1>12, <1>13 DEF RowGood

LEMMA LineWritten ==
  ASSUME Inv, Inv', Kept, LineInv, DeskInv, AnswerInv, Records, timeline' = timeline,
         job.phase = "answered", ~IsEdit(Incoming),
         NEW m, NEW Gone, m = current[Here][job.line], NextLine(m, Gone),
         log' = Append(log, Line(m))
  PROVE  Records'
<1>1. /\ RoomInv /\ RoomInv' /\ BookInv /\ BookInv' /\ QueueInv /\ JobInv /\ LogInv /\ Passed(Gone)
      /\ \A p, q \in ByBot : Once(p, q)
  BY DEF Inv, Records, OneAnswer, Once, NextLine
<1>2. PICK v \in Rows : v = Line(m) /\ RowGood(v)' /\ v.event = m /\ \A p \in ByBot : PairInv(p, v)'
  <2>1. PICK v \in Rows : v = Line(m)
    BY LineIs
  <2>2. QED
    BY <2>1, LineGood
<1>3. \/ v.reply = 0
      \/ v.reply = job.post /\ job'.post = 0
  BY <1>2 DEF NextLine
<1>4. /\ DOMAIN log = 1..Len(log) /\ DOMAIN log' = 1..(Len(log) + 1) /\ Len(log) \in Nat
      /\ \A i \in DOMAIN log : i \in DOMAIN log' /\ log'[i] = log[i] /\ i < Len(log) + 1
      /\ log'[Len(log) + 1] = v
  <2>1. log \in Seq(Rows) /\ log' = Append(log, v)
    BY <1>1, <1>2 DEF BookInv
  <2>2. QED
    BY <2>1
<1>5. \A i \in DOMAIN log' : i \in DOMAIN log \/ i = Len(log) + 1
  BY <1>4
<1> DEFINE last == Len(log) + 1
<1> HIDE DEF last
<1>6. ASSUME NEW i \in DOMAIN log
      PROVE  /\ log[i] \in Rows /\ RowRight(log[i]) /\ RowInv(log[i]) /\ ShownIn(log[i]) /\ LatestIn(log[i])
             /\ log[i].event \in Settled \union Written /\ log[i].event < m /\ log[i].event # m
             /\ log[i].reply # 0 => log[i].reply # job.post
  <2>1. /\ log[i] \in Rows /\ RowRight(log[i]) /\ RowInv(log[i]) /\ ShownIn(log[i]) /\ LatestIn(log[i])
        /\ log[i].event \in Settled \union Written
    BY <1>1, <1>6 DEF BookInv, Records, RowGood, LogInv
  <2>2. log[i].event < m /\ log[i].event # m
    BY <2>1 DEF NextLine
  <2>3. log[i].reply # 0 => log[i].reply # job.post
    BY <2>1 DEF RowInv
  <2>4. QED
    BY <2>1, <2>2, <2>3
<1>7. Settled' \union Written' = Settled \union Written \union {m} /\ m \notin Settled \union Written
  BY DEF NextLine
<1>8. ByBot' = ByBot /\ \A x, S : Troubled(x, S) => Troubled(x, S)'
  BY <1>1, KeptMore DEF ByBot, Ids
<1>9. LogInv'
  <2>1. \A i, j \in DOMAIN log' : i < j => log'[i].event < log'[j].event
    <3>1. \A i, j \in DOMAIN log : i < j => log'[i].event < log'[j].event
      BY <1>1, <1>4 DEF LogInv
    <3>2. \A i \in DOMAIN log : log'[i].event < log'[last].event
      BY <1>2, <1>4, <1>6 DEF last
    <3>3. \A i, j \in DOMAIN log' : i < j => i \in DOMAIN log
      BY <1>4
    <3>4. QED
      BY <1>5, <3>1, <3>2, <3>3 DEF last
  <2>2. \A i, j \in DOMAIN log' : log'[i].reply # 0 /\ log'[i].reply = log'[j].reply => i = j
    <3>1. \A i, j \in DOMAIN log : log'[i].reply # 0 /\ log'[i].reply = log'[j].reply => i = j
      BY <1>1, <1>4 DEF LogInv
    <3>2. \A i \in DOMAIN log : log'[i].reply # 0 => log'[i].reply # log'[last].reply
      BY <1>3, <1>4, <1>6 DEF last
    <3>3. QED
      BY <1>5, <3>1, <3>2 DEF last
  <2>3. \A i \in DOMAIN log' : log'[i].event \in Settled' \union Written'
    BY <1>2, <1>4, <1>5, <1>6, <1>7
  <2>4. \A n : RowsOf(n) # {} => RowsOf(n)' # {}
    BY <1>4 DEF RowsOf
  <2>5. RowsOf(m)' # {}
    <3>1. last \in DOMAIN log' /\ log'[last].event = m
      BY <1>2, <1>4 DEF last
    <3>2. QED
      BY <3>1 DEF RowsOf
  <2>6. ASSUME NEW n \in (Settled' \union Written') \ Edits'
        PROVE  RowsOf(n)' # {} \/ Troubled(n, {"write", "lost"})'
    <3>1. CASE n = m
      BY <2>5, <3>1
    <3>2. CASE n # m
      <4>1. n \in Settled \union Written /\ n \in FromPeople
        BY <1>1, <1>7, <2>6, <3>2 DEF Passed, NextLine
      <4>2. n \notin Edits
        BY <1>1, <2>6, <4>1, KeptMore
      <4>3. RowsOf(n) # {} \/ Troubled(n, {"write", "lost"})
        BY <1>1, <4>1, <4>2 DEF LogInv
      <4>4. QED
        BY <1>8, <2>4, <4>3
    <3>3. QED
      BY <3>1, <3>2
  <2>7. (\A n \in (Settled \union Written) \ Edits : RowsOf(n) # {} \/ Troubled(n, {"write", "lost"}))'
    BY <2>6
  <2>8. QED
    BY <2>1, <2>2, <2>3, <2>7 DEF LogInv
<1>10. ASSUME NEW i \in DOMAIN log'
       PROVE  RowGood(log[i])'
  <2>1. CASE i \in DOMAIN log
    <3>1. PICK w \in Rows : /\ w = log[i] /\ w = log'[i] /\ w.event \in Settled \union Written /\ w.event # m
                            /\ RowRight(w) /\ RowInv(w) /\ ShownIn(w) /\ LatestIn(w)
                            /\ w.reply # 0 => w.reply # job.post
      BY <1>4, <1>6, <2>1
    <3>2. /\ w.event \in Written' => w.event \in Written
          /\ w.reply # 0 => w.reply # job'.post \/ job'.post = 0
      BY <3>1 DEF NextLine
    <3>3. w.reply # 0 => w.reply # job'.post
      BY <3>2
    <3>4. RowInv(w)' /\ ShownIn(w)'
      BY <1>1, <3>1, <3>2, <3>3, RowSame
    <3>5. LatestIn(w)'
      BY <3>1, LineLatest
    <3>6. RowGood(w)'
      BY <3>4, <3>5 DEF RowGood
    <3>7. QED
      BY <3>1, <3>6, RowAt
  <2>2. CASE i = last
    <3>1. log'[i] = v
      BY <1>4, <2>2 DEF last
    <3>2. QED
      BY <1>2, <3>1, RowAt
  <2>3. QED
    BY <1>5, <1>10, <2>1, <2>2 DEF last
<1>11. ASSUME NEW p \in ByBot
       PROVE  PostInv(p)'
  <2>1. PostInv(p)
    BY DEF Records
  <2>2. Accounted(p)'
    <3>1. ASSUME job.post = p
          PROVE  job'.post = p \/ \E i \in DOMAIN log' : log'[i].reply = p
      <4>1. job'.post = p \/ v.reply = p
        BY <1>2, <3>1 DEF NextLine
      <4>2. last \in DOMAIN log' /\ log'[last] = v
        BY <1>4 DEF last
      <4>3. QED
        BY <4>1, <4>2
    <3>2. QED
      BY <1>1, <1>4, <2>1, <3>1, AccountedStays DEF PostInv
  <2>3. ASSUME NEW i \in DOMAIN log'
        PROVE  PairInv(p, log[i])'
    <3>1. PICK w \in Rows : w = log'[i] /\ PairInv(p, w)'
      <4>1. CASE i \in DOMAIN log
        <5>1. PICK w \in Rows : w = log[i] /\ w = log'[i] /\ PairInv(p, w)
          BY <1>4, <1>6, <2>1, <4>1 DEF PostInv
        <5>2. ~Revising(p, w.event)
          BY DEF Revising
        <5>3. PairInv(p, w)'
          BY <1>1, <5>1, <5>2, PairSame
        <5>4. QED
          BY <5>1, <5>3
      <4>2. CASE i = last
        <5>1. log'[i] = v
          BY <1>4, <4>2 DEF last
        <5>2. QED
          BY <1>2, <5>1
      <4>3. QED
        BY <1>5, <2>3, <4>1, <4>2 DEF last
    <3>2. QED
      BY <3>1 DEF PairInv, Revising, Excused, Troubled
  <2>4. /\ Settled \subseteq Settled'
        /\ p = job.post => \A n \in Taking : n \in Settled' \/ (p = job'.post /\ n \in Taking')
    BY <1>1 DEF Passed, NextLine
  <2>5. QED
    BY <1>1, <2>1, <2>2, <2>3, <2>4, PostSame
<1>12. OneAnswer'
  <2>1. \A p, q \in ByBot : Once(p, q)'
    BY <1>1, OnceSame
  <2>2. QED
    BY <1>8, <2>1 DEF Once, OneAnswer
<1>13. QED
  BY <1>8, <1>9, <1>10, <1>11, <1>12 DEF Records

LEMMA LineUnwritten ==
  ASSUME Inv, Inv', Kept, LineInv, DeskInv, AnswerInv, Records, timeline' = timeline,
         job.phase = "answered", ~IsEdit(Incoming),
         NEW m, NEW Gone, m = current[Here][job.line], NextLine(m, Gone),
         log' = log, Troubled(m, {"write", "lost"})'
  PROVE  Records'
<1>1. /\ RoomInv /\ RoomInv' /\ BookInv /\ BookInv' /\ QueueInv /\ JobInv /\ LogInv /\ Passed(Gone)
  BY DEF Inv, Records, NextLine
<1>2. \A i \in DOMAIN log : log[i].event # m
  BY <1>1 DEF LogInv, NextLine
<1>3. ASSUME NEW i \in DOMAIN log
      PROVE  LatestIn(log[i])'
  <2>1. PICK w \in Rows : /\ w = log[i] /\ w = log'[i] /\ w.event # m
                          /\ RowRight(w) /\ RowInv(w) /\ LatestIn(w)
    BY <1>1, <1>2, <1>3 DEF BookInv, Records, RowGood
  <2>2. LatestIn(w)'
    BY <2>1, LineLatest
  <2>3. QED
    BY <2>1, <2>2 DEF LatestIn, Versions, Subject, IsEdit, Troubled
<1>4. job.post # 0 =>
        /\ m \in timeline[job.post].answers
        /\ \A n \in Taking : n \in timeline[job.post].answers
  BY DEF AnswerInv, NextLine
<1>5. /\ Written \subseteq FromPeople /\ Written \subseteq Settled' \union Written'
      /\ \A n \in Gone \union Written' : n \in Settled \union Written \/ n = m
      /\ \A i \in DOMAIN log : log[i].event \in Written' => log[i].event \in Written
  <2>1. Written \subseteq FromPeople /\ Written \subseteq Settled' \union Written'
    BY DEF NextLine
  <2>2. Gone \subseteq Settled'
    BY <1>1 DEF Passed
  <2>3. \A n \in Gone \union Written' : n \in Settled \union Written \/ n = m
    BY <2>2 DEF NextLine
  <2>4. \A i \in DOMAIN log : log[i].event \in Written' => log[i].event \in Written
    BY <1>2 DEF NextLine
  <2>5. QED
    BY <2>1, <2>3, <2>4
<1>6. /\ job.post # 0 /\ job'.post # 0 =>
           job'.post = job.post /\ Incoming' = Incoming /\ Taking' = Taking
      /\ job.post = 0 => job'.post = 0
      /\ job.post # 0 /\ job'.post = 0 => Taking \subseteq Settled'
  BY <1>1 DEF NextLine, Passed
<1>7. job.post # 0 /\ job'.post = 0 => \E n \in timeline[job.post].answers : Troubled(n, {"write", "lost"})'
  BY <1>4
<1>8. \A n \in Gone \union Written' :
        \/ n \in Settled \union Written \union Edits
        \/ RowsOf(n) # {} \/ Troubled(n, {"write", "lost"})'
  <2> SUFFICES ASSUME NEW n \in Gone \union Written', n \notin Settled \union Written
               PROVE  Troubled(n, {"write", "lost"})'
    OBVIOUS
  <2>1. n = m
    BY <1>5
  <2>2. QED
    BY <2>1 DEF Troubled
<1>9. /\ LogInv' /\ \A i \in DOMAIN log' : RowGood(log[i])'
      /\ \A p \in ByBot : PostInv(p)' /\ \A q \in ByBot : Once(p, q)'
  BY <1>1, <1>3, <1>5, <1>6, <1>7, <1>8, UnwrittenKeeps
<1>10. ByBot' = ByBot
  BY DEF ByBot, Ids
<1>11. QED
  BY <1>9, <1>10 DEF Records, Once, OneAnswer

(* The log of process_message, a line at a time.                               *)
LEMMA LogLineRecords ==
  ASSUME Inv, Inv', Kept, LineInv, DeskInv, AnswerInv, Records, LogLine
  PROVE  Records'
<1>1. job.phase = "answered" /\ ~IsEdit(Incoming) /\ timeline' = timeline
  BY DEF LogLine, Working
<1>2. PICK m : m = current[Here][job.line]
  OBVIOUS
<1>3. PICK Gone : NextLine(m, Gone)
  BY <1>2, LineNext
<1>4. CASE log' = Append(log, Line(m))
  BY <1>1, <1>2, <1>3, <1>4, LineWritten
<1>5. CASE log' = log
  <2>1. RowsOf(m) = {}
    <3>1. \A i \in DOMAIN log : log[i].event # m
      BY <1>3 DEF Records, LogInv, NextLine
    <3>2. QED
      BY <3>1 DEF RowsOf
  <2>2. Line(m).event = m
    BY DEF Line
  <2>3. CASE Insert(Line(m))
    BY <1>1, <1>2, <1>3, <2>1, <2>2, <2>3, LineWritten DEF Insert
  <2>4. CASE Suffer({m}, "write")
    <3>1. Troubled(m, {"write", "lost"})'
      BY <2>4 DEF Suffer, Troubled
    <3>2. QED
      BY <1>1, <1>2, <1>3, <1>5, <3>1, LineUnwritten
  <2>5. QED
    BY <1>2, <2>3, <2>4 DEF LogLine
<1>6. QED
  BY <1>2, <1>4, <1>5 DEF LogLine, Insert

-----------------------------------------------------------------------------
(* What is decided and answered, while others speak                            *)

(* The decision and the answer stand as long as the job does.                  *)
LEMMA DeskSame ==
  ASSUME Inv, Inv', Kept, DeskInv, AnswerInv, current' = current,
         /\ job'.phase = job.phase /\ job'.kind = job.kind /\ job'.place = job.place
         /\ job'.found = job.found /\ job'.responded = job.responded /\ job'.post = job.post,
         job.phase = "answered" \/ job'.line = job.line,
         \A p \in ByBot : /\ timeline'[p].shows = timeline[p].shows
                          /\ timeline'[p].answers = timeline[p].answers,
         log' = log \/ (job.phase = "answered" /\ ~IsEdit(Incoming))
  PROVE  DeskInv' /\ AnswerInv'
<1>1. RoomInv /\ RoomInv' /\ QueueInv /\ JobInv /\ job.found \in BOOLEAN
  BY DEF Inv, JobInv, Jobs
<1>2. Incoming' = Incoming /\ Taking' = Taking
  BY DEF Incoming, Taking
<1>3. CASE job.phase \in {"decided", "answered"}
  <2>1. PICK e \in FromPeople : e = Incoming
    BY <1>1, <1>3, IncomingIs
  <2>2. /\ IsEdit(Incoming)' <=> IsEdit(Incoming)
        /\ Subject(Incoming)' = Subject(Incoming)
        /\ \A found \in BOOLEAN : Joined(Incoming, found)' = Joined(Incoming, found)
        /\ log' = log => Previous' = Previous /\ (Editable(Incoming)' <=> Editable(Incoming))
    BY <1>1, <1>2, <2>1, IncomingSame
  <2>3. Previous' = Previous
    BY <2>2 DEF Previous
  <2>4. Root' = Root
    BY <1>1, <2>2 DEF Root
  <2>5. /\ \A e1 \in FromPeople : IsCommand(e1)' <=> IsCommand(e1)
        /\ \A e1 \in FromPeople : \A found \in BOOLEAN : \A place :
             Addressed(e1, found, place)' <=> Addressed(e1, found, place)
        /\ \A m, S : Troubled(m, S) => Troubled(m, S)'
    BY <1>1, KeptMore
  <2>6. DeskInv'
    <3>1. job.place \in Places /\ (IsEdit(Incoming) => Editable(Incoming) /\ Len(current[Here]) = 1)
      BY <1>3 DEF DeskInv
    <3>2. IsEdit(Incoming)' => Editable(Incoming)' /\ Len(current'[Here]) = 1
      BY <2>2, <3>1
    <3>3. \A place : /\ IsCommand(Incoming)' <=> IsCommand(e)
                     /\ Addressed(Incoming, job.found, place)' <=> Addressed(e, job.found, place)
      <4>1. \A found \in BOOLEAN : \A place :
              /\ IsCommand(e)' <=> IsCommand(e)
              /\ Addressed(e, found, place)' <=> Addressed(e, found, place)
        BY <2>5
      <4>2. e = Incoming'
        BY <1>2, <2>1
      <4>3. PICK found \in BOOLEAN : found = job.found /\ found = job'.found
        BY <1>1
      <4>4. /\ IsCommand(Incoming)' <=> IsCommand(e)'
            /\ \A place : Addressed(Incoming, job.found, place)' <=> Addressed(e, found, place)'
        BY <4>2, <4>3 DEF IsCommand, Addressed, Version, Target, ToBot, Subject, IsEdit
      <4>5. QED
        BY <4>1, <4>3, <4>4
    <3>4. /\ job.phase = "decided" /\ ~IsEdit(Incoming)
          /\ IsCommand(e) \/ Addressed(e, job.found, job.place)
          => job.kind \in {"Command", "Chat", "Nod"}
      BY <2>1 DEF DeskInv
    <3>5. PICK place : place = job.place /\ place = job'.place
      OBVIOUS
    <3>6. (job.phase = "decided" /\ ~IsEdit(Incoming)
           /\ (IsCommand(Incoming) \/ Addressed(Incoming, job.found, job.place))
             => job.kind \in {"Command", "Chat", "Nod"})'
      <4>1. IsCommand(Incoming)' <=> IsCommand(e)
        BY <3>3
      <4>2. Addressed(Incoming, job.found, place)' <=> Addressed(e, job.found, place)
        BY <3>3
      <4>3. Addressed(Incoming, job.found, job.place)' <=> Addressed(Incoming, job.found, place)'
        BY <3>5 DEF Addressed
      <4>4. QED
        BY <2>2, <3>4, <3>5, <4>1, <4>2, <4>3
    <3>7. QED
      BY <1>3, <2>2, <3>1, <3>2, <3>6 DEF DeskInv
  <2>7. AnswerInv'
    <3>1. ASSUME job.post # 0
          PROVE  /\ timeline'[job.post].shows = timeline[job.post].shows
                 /\ timeline'[job.post].answers = timeline[job.post].answers
                 /\ timeline'[job.post].thread = timeline[job.post].thread
                 /\ timeline'[job.post].content = timeline[job.post].content
      <4>1. job.post \in ByBot
        BY <1>1, <3>1 DEF DeskInv, JobInv
      <4>2. QED
        BY <1>1, <4>1, IdsAre DEF Kept
    <3>2. \A m \in Taking : Subject(m)' = Subject(m)
      <4>1. \A m \in Taking : m \in FromPeople
        BY <1>1 DEF Taking, QueueInv
      <4>2. QED
        BY <1>1, <4>1, KeptAre
    <3>3. Troubled(Subject(Incoming), {"send"}) => Troubled(Subject(Incoming), {"send"})'
      <4>1. PICK s : s = Subject(Incoming) /\ s = Subject(Incoming)'
        BY <2>2
      <4>2. Troubled(s, {"send"}) => Troubled(s, {"send"})'
        BY <2>5
      <4>3. QED
        BY <4>1, <4>2 DEF Troubled
    <3>4. job'.post # 0 =>
            /\ job'.responded /\ timeline'[job'.post].shows = Incoming'
            /\ \A m \in Taking' : Subject(m)' \in timeline'[job'.post].answers
            /\ \/ Previous' = job'.post
               \/ /\ Previous' = 0 \/ (Previous' < job'.post /\ timeline'[job'.post].content = "pictures")
                  /\ timeline'[job'.post].thread = Root'
      BY <1>2, <2>3, <2>4, <3>1, <3>2 DEF AnswerInv
    <3>5. (job.phase = "answered" /\ job.responded /\ job.post = 0 =>
             Previous = 0 \/ Troubled(Subject(Incoming), {"send"}))'
      BY <2>3, <3>3 DEF AnswerInv
    <3>6. QED
      BY <3>4, <3>5 DEF AnswerInv
  <2>8. QED
    BY <2>6, <2>7
<1>4. CASE job.phase \notin {"decided", "answered"}
  BY <1>4 DEF DeskInv, AnswerInv
<1>5. QED
  BY <1>3, <1>4

LEMMA IdleHolds ==
  ASSUME job' = Idle
  PROVE  DeskInv' /\ AnswerInv'
  BY DEF DeskInv, AnswerInv, Idle

(* People speak: nothing changes for what was said before.                     *)
LEMMA SayCalm ==
  ASSUME Inv, LineInv, NEW u \in Users, NEW c \in Contents, NEW rel \in Relations, Say(u, c, rel)
  PROVE  /\ job' = job /\ log' = log /\ reactions' = reactions /\ mishaps' = mishaps /\ up' = up
         /\ current' = current /\ Settled' = Settled /\ ByBot' = ByBot
         /\ \A p \in ByBot : timeline'[p] = timeline[p]
<1> DEFINE new == [by |-> u, content |-> c, thread |-> rel.thread, replyTo |-> rel.replyTo,
                   edits |-> rel.edits, shows |-> 0, answers |-> {}]
<1>1. /\ timeline' = Append(timeline, new) /\ mishaps' = mishaps /\ job' = job /\ log' = log
      /\ reactions' = reactions /\ up' = up
      /\ UNCHANGED queue \/ Order!Arrive(Here, Len(timeline) + 1)
  BY DEF Say
<1>2. new.by # Bot
  BY ConversationAssumption
<1> HIDE DEF new
<1>3. RoomInv
  BY DEF Inv
<1>4. /\ Ids' = Ids \union {Len(timeline) + 1} /\ timeline'[Len(timeline) + 1] = new
      /\ \A e \in Ids : timeline'[e] = timeline[e]
  BY <1>1, <1>3, AppendKeeps
<1>5. ByBot' = ByBot /\ \A p \in ByBot : timeline'[p] = timeline[p]
  BY <1>2, <1>4 DEF ByBot
<1>6. Settled' = Settled /\ current' = current
  <2>1. CASE UNCHANGED queue
    BY <2>1 DEF queue, Settled
  <2>2. CASE Order!Arrive(Here, Len(timeline) + 1)
    <3>1. PICK a \in Seq(Nat) : a = arrived[Here] /\ settled[Here] \in 0..Len(a) /\ Len(timeline) + 1 \in Nat
      BY <1>3, QueueIs, IdsAre
    <3>2. arrived'[Here] = Append(a, Len(timeline) + 1) /\ settled' = settled /\ current' = current
      BY <2>2, <3>1, QueueIs DEF Order!Arrive
    <3>3. \A k \in 1..settled[Here] : arrived'[Here][k] = a[k]
      BY <3>1, <3>2
    <3>4. QED
      BY <3>1, <3>2, <3>3 DEF Settled
  <2>3. QED
    BY <1>1, <2>1, <2>2
<1>7. QED
  BY <1>1, <1>5, <1>6

LEMMA SayRecords ==
  ASSUME Inv, Inv', Kept, LineInv, DeskInv, AnswerInv, Records,
         NEW u \in Users, NEW c \in Contents, NEW rel \in Relations, Say(u, c, rel)
  PROVE  Records' /\ DeskInv' /\ AnswerInv'
<1>1. /\ job' = job /\ log' = log /\ current' = current /\ Settled' = Settled /\ ByBot' = ByBot
      /\ \A p \in ByBot : timeline'[p] = timeline[p]
  BY SayCalm
<1>2. Written' = Written /\ Incoming' = Incoming /\ Taking' = Taking
  BY <1>1 DEF Written, Incoming, Taking
<1>3. job.post = 0 => job'.post = 0
  BY <1>1
<1>4. Records'
  BY <1>1, <1>2, <1>3, CalmKeeps
<1>5. QED
  BY <1>1, <1>4, DeskSame

LEMMA NothingRecords ==
  ASSUME Inv, Inv', Kept, LineInv, DeskInv, AnswerInv, Records,
         UNCHANGED <<timeline, log, job, mishaps, queue>>
  PROVE  Records' /\ DeskInv' /\ AnswerInv'
<1>1. /\ job' = job /\ log' = log /\ current' = current /\ timeline' = timeline
      /\ arrived' = arrived /\ settled' = settled
  BY DEF queue
<1>2. /\ Written' = Written /\ Incoming' = Incoming /\ Taking' = Taking /\ Settled' = Settled
      /\ ByBot' = ByBot
  BY <1>1 DEF Written, Incoming, Taking, Settled, ByBot, Ids
<1>3. Records'
  BY <1>1, <1>2, CalmKeeps
<1>4. QED
  BY <1>1, <1>3, DeskSame

LEMMA BeginRecords ==
  ASSUME Inv, Inv', Kept, LineInv, DeskInv, Records, Begin
  PROVE  Records' /\ DeskInv' /\ AnswerInv' /\ Settled' = Settled /\ job'.phase = "taken"
<1>1. /\ job.phase = "idle" /\ timeline' = timeline /\ log' = log
      /\ job' = [Idle EXCEPT !.phase = "taken"] /\ Order!Begin(Here)
  BY DEF Begin, Working
<1>2. /\ current' = [current EXCEPT ![Here] = <<Head(pending[Here])>>]
      /\ arrived' = arrived /\ settled' = settled
  BY <1>1 DEF Order!Begin
<1>3. QueueInv /\ QueueInv'
  BY DEF Inv
<1>4. Len(current'[Here]) = 1
  <2>1. current'[Here] = <<Head(pending[Here])>>
    BY <1>2, <1>3 DEF QueueInv
  <2>2. QED
    BY <2>1
<1>5. job'.phase = "taken" /\ job'.post = 0 /\ job'.line = 0
  BY <1>1 DEF Idle
<1>6. Settled' = Settled /\ ByBot' = ByBot
  BY <1>1, <1>2 DEF Settled, ByBot, Ids
<1>7. Written' = Written
  <2>1. DOMAIN current[Here] \subseteq Nat \ {0} /\ DOMAIN current'[Here] \subseteq Nat \ {0}
    BY <1>3 DEF QueueInv
  <2>2. job.line = 0
    BY <1>1 DEF DeskInv
  <2>3. QED
    BY <1>5, <2>1, <2>2 DEF Written
<1>8. job.post = 0
  BY <1>1 DEF DeskInv
<1>9. Records'
  BY <1>1, <1>5, <1>6, <1>7, <1>8, CalmKeeps
<1>10. DeskInv' /\ AnswerInv'
  BY <1>4, <1>5 DEF DeskInv, AnswerInv
<1>11. QED
  BY <1>5, <1>6, <1>9, <1>10

LEMMA DecideRecords ==
  ASSUME Inv, Inv', Kept, LineInv, DeskInv, Records,
         NEW place \in Places, NEW found \in BOOLEAN, Decide(found, place)
  PROVE  Records' /\ DeskInv' /\ AnswerInv' /\ Settled' = Settled /\ job'.phase = "decided"
<1>1. /\ job.phase = "taken" /\ timeline' = timeline /\ log' = log
      /\ current' = current /\ arrived' = arrived /\ settled' = settled
      /\ Handled(Incoming)
  BY DEF Decide, Working, queue
<1>2. PICK kind \in Kinds(Incoming, found, place) :
        job' = [job EXCEPT !.phase = "decided", !.kind = kind, !.place = place, !.found = found]
  BY DEF Decide
<1>3. JobInv /\ QueueInv /\ RoomInv
  BY DEF Inv
<1>4. /\ job'.phase = "decided" /\ job'.kind = kind /\ job'.place = place /\ job'.found = found
      /\ job'.post = job.post /\ job'.line = job.line
  BY <1>2, <1>3 DEF JobInv, Jobs
<1>5. job.post = 0 /\ job.line = 0 /\ Len(current[Here]) = 1
  BY <1>1 DEF DeskInv
<1>6. /\ Written' = Written /\ Settled' = Settled /\ ByBot' = ByBot /\ Incoming' = Incoming
  BY <1>1, <1>4 DEF Written, Settled, ByBot, Ids, Incoming
<1>7. Records'
  BY <1>1, <1>4, <1>5, <1>6, CalmKeeps
<1>8. PICK e \in FromPeople : e = Incoming
  BY <1>1, <1>3, IncomingIs
<1>9. IsCommand(e) \/ Addressed(e, found, place) => kind \in {"Command", "Chat", "Nod"}
  BY <1>8 DEF Kinds, Directed
<1>10. DeskInv'
  <2>1. IsEdit(Incoming)' => Editable(Incoming)' /\ Len(current'[Here]) = 1
    BY <1>1, <1>5, <1>6 DEF IsEdit, Editable, Handled, RowsOf, Subject
  <2>2. /\ IsCommand(Incoming)' <=> IsCommand(e)
        /\ Addressed(Incoming, job.found, job.place)' <=> Addressed(e, found, place)
    BY <1>1, <1>4, <1>6, <1>8 DEF IsCommand, Addressed, Version, Target, ToBot, Subject, IsEdit
  <2>3. QED
    BY <1>1, <1>4, <1>5, <1>9, <2>1, <2>2 DEF DeskInv
<1>11. AnswerInv'
  BY <1>4, <1>5 DEF AnswerInv
<1>12. QED
  BY <1>4, <1>6, <1>7, <1>10, <1>11

LEMMA LogLineDesk ==
  ASSUME Inv, Inv', Kept, LineInv, DeskInv, AnswerInv, LogLine
  PROVE  DeskInv' /\ AnswerInv'
<1>1. job.phase = "answered" /\ ~IsEdit(Incoming) /\ timeline' = timeline /\ JobInv
  BY DEF LogLine, Working, Inv
<1>2. CASE Done
  BY <1>2, IdleHolds DEF Done
<1>3. CASE job' = [job EXCEPT !.line = @ + 1] /\ UNCHANGED queue
  <2>1. current' = current
    BY <1>3 DEF queue
  <2>2. /\ job'.phase = job.phase /\ job'.kind = job.kind /\ job'.place = job.place
        /\ job'.found = job.found /\ job'.responded = job.responded /\ job'.post = job.post
    BY <1>1, <1>3 DEF JobInv, Jobs
  <2>3. QED
    BY <1>1, <2>1, <2>2, DeskSame
<1>4. QED
  BY <1>2, <1>3 DEF LogLine

-----------------------------------------------------------------------------
(* Nobody is left without an answer                                            *)

(* Who was answered stays answered. *)
LEMMA HeardStays ==
  ASSUME RoomInv, RoomInv', Kept, reactions \subseteq reactions',
         \A p \in ByBot : timeline[p].answers \subseteq timeline'[p].answers,
         NEW m \in FromPeople, Heard(m)
  PROVE  Heard(m)'
<1>1. /\ IsCommand(m)' <=> IsCommand(m)
      /\ \A place : Addressed(m, TRUE, place)' <=> Addressed(m, TRUE, place)
      /\ Troubled(m, {"fetch", "send", "lost"}) => Troubled(m, {"fetch", "send", "lost"})'
  BY KeptMore
<1>2. ByBot \subseteq ByBot'
  BY KeptAre
<1>3. PostsFor(m) \subseteq PostsFor(m)'
  BY <1>2 DEF PostsFor
<1>4. QED
  BY <1>1, <1>3 DEF Heard

LEMMA ReactionsStay ==
  ASSUME RoomInv, RoomInv', Kept, NEW r, r.on \in Ids, r.answers \subseteq FromPeople
  PROVE  r.on \in Ids' /\ r.answers \subseteq FromPeople'
  BY KeptAre

(* Messages that were heard before, were edits, or come to grief in this step. *)
LEMMA HeardKeeps ==
  ASSUME Inv, Inv', Kept, LineInv, HeardInv, reactions' = reactions,
         \A p \in ByBot : timeline'[p].answers = timeline[p].answers,
         Settled' \subseteq Settled \union Taking \union Waiting,
         \A m \in Settled' \ Settled :
           m \in Edits \/ (job.phase = "answered" /\ m \in Taking) \/ Troubled(m, {"fetch", "send", "lost"})',
         job'.phase = "answered" => job.phase = "answered" /\ Taking' = Taking
  PROVE  HeardInv'
<1>1. RoomInv /\ RoomInv' /\ InLine
  BY PlacesAre DEF Inv
<1>2. \A m \in FromPeople : (m \in Edits' <=> m \in Edits) /\ (Heard(m) => Heard(m)')
  BY <1>1, KeptMore, HeardStays
<1>3. \A m \in Settled \union Taking \union Waiting : m \in FromPeople
  BY <1>1 DEF InLine
<1>4. ASSUME NEW m \in Settled' \ Edits'
      PROVE  Heard(m)'
  <2>1. m \in FromPeople /\ m \notin Edits
    BY <1>2, <1>3, <1>4
  <2>2. CASE m \in Settled \/ (job.phase = "answered" /\ m \in Taking)
    BY <1>2, <2>1, <2>2 DEF HeardInv
  <2>3. CASE Troubled(m, {"fetch", "send", "lost"})'
    BY <2>3 DEF Heard
  <2>4. QED
    BY <1>4, <2>1, <2>2, <2>3
<1>5. ASSUME job'.phase = "answered", NEW m \in Taking' \ Edits'
      PROVE  Heard(m)'
  BY <1>2, <1>3, <1>5 DEF HeardInv
<1>6. ASSUME NEW r \in reactions'
      PROVE  r.on \in Ids' /\ r.answers \subseteq FromPeople'
  <2>1. r.on \in Ids /\ r.answers \subseteq FromPeople
    BY <1>6 DEF HeardInv
  <2>2. QED
    BY <1>1, <2>1, ReactionsStay
<1>7. (\A m \in Settled \ Edits : Heard(m))'
  BY <1>4
<1>8. (job.phase = "answered" => \A m \in Taking \ Edits : Heard(m))'
  BY <1>5
<1>9. QED
  BY <1>6, <1>7, <1>8 DEF HeardInv

(* An answer, or a reaction, is for everyone whose message is answered.        *)
LEMMA AnswerHeard ==
  ASSUME Inv, Inv', Kept, LineInv, DeskInv, Records, HeardInv, Answer
  PROVE  HeardInv'
<1>1. /\ RoomInv /\ RoomInv' /\ QueueInv /\ JobInv /\ BookInv /\ LogInv
      /\ job.phase = "decided" /\ TakeBurst /\ log' = log
  BY DEF Inv, Answer, Working, Records
<1>2. PICK e \in FromPeople : e = Incoming
  BY <1>1, IncomingIs
<1>3. /\ Settled' = Settled /\ Answers \subseteq FromPeople /\ Last \in FromPeople
  BY <1>1, BurstTaken
<1>4. Written = {}
  <2>1. job.line = 0 /\ DOMAIN current[Here] \subseteq Nat \ {0}
    BY <1>1 DEF DeskInv, QueueInv
  <2>2. QED
    BY <2>1 DEF Written
<1>5. /\ ~IsEdit(Incoming) => Taking' = Answers
      /\ IsEdit(Incoming) => Taking' = {Incoming}
  BY <1>1, <1>4, AnswersAreNew
<1>6. FromPeople \subseteq FromPeople' /\ Ids \subseteq Ids' /\ FromPeople \subseteq Ids
      /\ \A m \in FromPeople : m \in Edits' <=> m \in Edits
  BY <1>1, KeptAre, KeptMore, IdsAre
<1>7. \A m \in Taking' \ Edits' : m \in Answers /\ ~IsEdit(Incoming)
  <2>1. IsEdit(Incoming) => Incoming \in Edits'
    <3>1. IsEdit(Incoming) => e \in Edits
      BY <1>2 DEF Edits, IsEdit
    <3>2. QED
      BY <1>2, <1>6, <3>1
  <2>2. QED
    BY <1>5, <2>1
<1>8. SUFFICES /\ reactions \subseteq reactions'
               /\ \A r \in reactions' \ reactions : r.on \in Ids /\ r.answers = Answers
               /\ \A p \in ByBot : timeline[p].answers \subseteq timeline'[p].answers
               /\ ~IsEdit(Incoming) => \A m \in Answers : Heard(m)'
  <2>1. ASSUME NEW m \in Settled' \ Edits'
        PROVE  Heard(m)'
    <3>1. m \in FromPeople /\ m \in Settled
      BY <1>3, <2>1, PlacesAre DEF InLine
    <3>2. m \notin Edits
      BY <1>6, <2>1, <3>1
    <3>3. Heard(m)
      BY <3>1, <3>2 DEF HeardInv
    <3>4. QED
      BY <1>1, <1>8, <3>1, <3>3, HeardStays
  <2>2. ASSUME NEW m \in Taking' \ Edits'
        PROVE  Heard(m)'
    BY <1>7, <1>8, <2>2
  <2>3. ASSUME NEW r \in reactions'
        PROVE  r.on \in Ids' /\ r.answers \subseteq FromPeople'
    <3>1. r.on \in Ids /\ r.answers \subseteq FromPeople
      BY <1>3, <1>8, <2>3 DEF HeardInv
    <3>2. QED
      BY <1>6, <3>1
  <2>4. (\A m \in Settled \ Edits : Heard(m))' /\ (\A m \in Taking \ Edits : Heard(m))'
    BY <2>1, <2>2
  <2>5. QED
    BY <2>3, <2>4 DEF HeardInv
<1>9. Root \in Ids \union {0}
  <2>1. \A p \in ByBot : timeline[p].thread \in Ids \union {0}
    BY DEF Records, PostInv
  <2>2. QED
    BY <1>1, <1>2, <2>1, RootIsPlace DEF JobInv, Jobs
<1>10. ReplyTo \in Ids /\ Last \in Ids
  BY <1>3, <1>6, <1>9 DEF ReplyTo
<1>11. ASSUME NEW on \in Ids, React(on), timeline' = timeline
       PROVE  /\ reactions \subseteq reactions'
              /\ \A r \in reactions' \ reactions : r.on \in Ids /\ r.answers = Answers
              /\ \A m \in Answers : Heard(m)'
  <2>1. PICK r : r = [on |-> on, answers |-> Answers] /\ reactions' = reactions \union {r}
    BY <1>11 DEF React
  <2>2. r.on = on /\ r.answers = Answers
    BY <2>1
  <2>3. \A m \in Answers : \E r1 \in reactions' : m \in r1.answers
    BY <2>1, <2>2
  <2>4. \A m \in Answers : Heard(m)'
    BY <2>3 DEF Heard
  <2>5. QED
    BY <2>1, <2>2, <2>4
<1>12. ASSUME Suffer(Answers, "send")
       PROVE  \A m \in Answers : Heard(m)'
  BY <1>12 DEF Suffer, Heard, Troubled
<1>13. CASE StaySilent
  <2>1. job.kind \in {"None", "Interjection"} /\ timeline' = timeline /\ reactions' = reactions /\ mishaps' = mishaps
    BY <1>13 DEF StaySilent
  <2>2. BurstLength = 0
    BY <2>1 DEF BurstLength
  <2>3. Answers = {Subject(Incoming)}
    BY <2>2 DEF Answers
  <2>4. ASSUME ~IsEdit(Incoming)
        PROVE  Heard(e)
    <3>1. ~IsCommand(e) /\ ~Addressed(e, job.found, job.place) /\ job.place \in Places
      BY <1>1, <1>2, <2>1, <2>4 DEF DeskInv
    <3>2. Subject(e) = e
      BY <1>2, <2>4 DEF Subject
    <3>3. \/ job.found \/ timeline[e].replyTo = 0 \/ Troubled(e, {"fetch"})
      BY <1>1, <1>2, <3>2 DEF JobInv
    <3>4. CASE job.found \/ timeline[e].replyTo = 0
      <4>1. Target(e, TRUE) = Target(e, job.found)
        BY <3>2, <3>4 DEF Target
      <4>2. ~Addressed(e, TRUE, job.place)
        BY <3>1, <4>1 DEF Addressed, ToBot
      <4>3. QED
        BY <3>1, <4>2 DEF Heard
    <3>5. CASE Troubled(e, {"fetch"})
      BY <3>5 DEF Heard, Troubled
    <3>6. QED
      BY <3>3, <3>4, <3>5
  <2>5. ~IsEdit(Incoming) => Answers = {e}
    BY <1>2, <2>3 DEF Subject
  <2>6. Heard(e) => Heard(e)'
    BY <1>1, <2>1, HeardStays
  <2>7. QED
    BY <2>1, <2>4, <2>5, <2>6
<1>14. CASE Nod
  BY <1>10, <1>11, <1>12, <1>14 DEF Nod
<1>15. ASSUME NEW shape \in Looks, Amend(shape)
       PROVE  /\ reactions \subseteq reactions'
              /\ \A r \in reactions' \ reactions : r.on \in Ids /\ r.answers = Answers
              /\ \A p \in ByBot : timeline[p].answers \subseteq timeline'[p].answers
              /\ ~IsEdit(Incoming) => \A m \in Answers : Heard(m)'
  <2>1. reactions' = reactions /\ IsEdit(Incoming)
    BY <1>15 DEF Amend, Amends, Previous
  <2>2. CASE timeline' = timeline
    BY <2>1, <2>2
  <2>3. CASE mishaps' = mishaps /\ timeline' = [timeline EXCEPT ![Previous].shows = Incoming,
                                                                ![Previous].answers = @ \union Answers]
    <3>1. /\ \A p \in Ids : p # Previous => timeline'[p] = timeline[p]
          /\ Previous \in Ids => timeline'[Previous].answers = timeline[Previous].answers \union Answers
      BY <1>1, <2>3, AmendingKeeps
    <3>2. QED
      BY <1>1, <2>1, <3>1, IdsAre
  <2>4. QED
    BY <1>15, <2>2, <2>3 DEF Amend
<1>16. ASSUME NEW shape \in Looks, DeliverEmoji(shape)
       PROVE  /\ reactions \subseteq reactions'
              /\ \A r \in reactions' \ reactions : r.on \in Ids /\ r.answers = Answers
              /\ \A p \in ByBot : timeline[p].answers \subseteq timeline'[p].answers
              /\ ~IsEdit(Incoming) => \A m \in Answers : Heard(m)'
  BY <1>10, <1>11, <1>12, <1>16 DEF DeliverEmoji
<1>17. ASSUME NEW shape \in Looks, DeliverPost(shape)
       PROVE  /\ reactions \subseteq reactions'
              /\ \A r \in reactions' \ reactions : r.on \in Ids /\ r.answers = Answers
              /\ \A p \in ByBot : timeline[p].answers \subseteq timeline'[p].answers
              /\ ~IsEdit(Incoming) => \A m \in Answers : Heard(m)'
  <2>1. reactions' = reactions
    BY <1>17 DEF DeliverPost
  <2>2. CASE Suffer(Answers, "send") /\ timeline' = timeline
    BY <1>12, <2>1, <2>2
  <2>3. CASE timeline' = Append(timeline, Posted(shape)) /\ mishaps' = mishaps
    <3>1. PICK new : new = Posted(shape) /\ new.by = Bot /\ new.answers = Answers
      <4>1. PICK placed, answers : placed = Placed /\ answers = Answers
        OBVIOUS
      <4>2. Posted(shape) = [by |-> Bot, content |-> shape, thread |-> placed.thread,
                             replyTo |-> placed.replyTo, edits |-> 0, shows |-> Incoming,
                             answers |-> answers]
        BY <4>1 DEF Posted
      <4>3. QED
        BY <4>1, <4>2
    <3>2. /\ Ids' = Ids \union {Len(timeline) + 1} /\ timeline'[Len(timeline) + 1] = new
          /\ \A p \in Ids : timeline'[p] = timeline[p]
      BY <1>1, <2>3, <3>1, AppendKeeps
    <3>3. \A m \in Answers : Len(timeline) + 1 \in PostsFor(m)'
      BY <3>1, <3>2 DEF PostsFor, ByBot
    <3>4. \A m \in Answers : Heard(m)'
      BY <3>3 DEF Heard
    <3>5. QED
      BY <1>1, <2>1, <3>2, <3>4, IdsAre
  <2>4. QED
    BY <1>17, <2>2, <2>3 DEF DeliverPost
<1>18. QED
  BY <1>13, <1>14, <1>15, <1>16, <1>17 DEF Answer

(* A message that is over was answered, or is an edit that needs nothing.      *)
LEMMA DoneHeard ==
  ASSUME Inv, Inv', Kept, LineInv, DeskInv, HeardInv, Done, timeline' = timeline, reactions' = reactions,
         job.phase = "answered" \/ (job.phase = "taken" /\ IsEdit(Incoming))
  PROVE  HeardInv'
<1>1. /\ Settled' = Settled \union Taking /\ job'.phase = "idle"
  BY DonePasses
<1>2. ASSUME job.phase = "taken", IsEdit(Incoming)
      PROVE  Taking \subseteq Edits
  <2>1. current[Here] \in Seq(Nat) /\ Len(current[Here]) = 1 /\ Incoming \in FromPeople
    BY <1>2, IncomingIs DEF Inv, QueueInv, DeskInv
  <2>2. DOMAIN current[Here] = {1}
    BY <2>1
  <2>3. QED
    BY <1>2, <2>1, <2>2 DEF Taking, Incoming, Edits, IsEdit
<1>3. \A m \in Settled' \ Settled : m \in Edits \/ (job.phase = "answered" /\ m \in Taking)
  BY <1>1, <1>2
<1>4. QED
  BY <1>1, <1>3, HeardKeeps

LEMMA HeardHolds ==
  ASSUME Inv, Inv', Kept, LineInv, DeskInv, AnswerInv, Records, HeardInv, [Next]_vars
  PROVE  HeardInv'
<1>1. CASE PeopleTalk
  <2>1. PICK u \in Users, c \in Contents, rel \in Relations : Say(u, c, rel)
    BY <1>1 DEF PeopleTalk
  <2>2. /\ job' = job /\ reactions' = reactions /\ current' = current /\ Settled' = Settled
        /\ \A p \in ByBot : timeline'[p].answers = timeline[p].answers
    BY <2>1, SayCalm
  <2>3. Taking' = Taking
    BY <2>2 DEF Taking
  <2>4. QED
    BY <2>2, <2>3, HeardKeeps
<1>2. CASE Begin
  <2>1. reactions' = reactions /\ timeline' = timeline
    BY <1>2 DEF Begin
  <2>2. Settled' = Settled /\ job'.phase = "taken"
    BY <1>2, BeginRecords
  <2>3. QED
    BY <2>1, <2>2, HeardKeeps
<1>3. CASE DropEdit
  BY <1>3, DoneHeard DEF DropEdit, Working
<1>4. CASE Answer
  BY <1>4, AnswerHeard
<1>5. CASE SaveEdit
  BY <1>5, DoneHeard DEF SaveEdit, Working
<1>6. CASE LogLine
  <2>1. reactions' = reactions /\ timeline' = timeline /\ job.phase = "answered"
    BY <1>6 DEF LogLine, Working
  <2>2. CASE Done
    BY <2>1, <2>2, DoneHeard
  <2>3. CASE UNCHANGED queue
    <3>1. Settled' = Settled /\ Taking' = Taking
      BY <2>3 DEF queue, Settled, Taking
    <3>2. QED
      BY <2>1, <3>1, HeardKeeps
  <2>4. QED
    BY <1>6, <2>2, <2>3 DEF LogLine
<1>7. ASSUME NEW place \in Places, NEW found \in BOOLEAN, SaveQuietEdit(found, place)
      PROVE  HeardInv'
  BY <1>7, DoneHeard DEF SaveQuietEdit, Working, Quiet
<1>8. ASSUME NEW place \in Places, NEW found \in BOOLEAN, Decide(found, place)
      PROVE  HeardInv'
  <2>1. reactions' = reactions /\ timeline' = timeline
    BY <1>8 DEF Decide
  <2>2. Settled' = Settled /\ job'.phase = "decided"
    BY <1>8, DecideRecords
  <2>3. QED
    BY <2>1, <2>2, HeardKeeps
<1>9. ASSUME NEW place \in Places, LoseQuietEdit(place)
      PROVE  HeardInv'
  BY <1>9, DoneHeard DEF LoseQuietEdit, Working, Quiet
<1>10. CASE Lose /\ UNCHANGED <<timeline, reactions, log>>
  <2>1. Settled' = Settled \union (Taking \union Waiting) /\ job'.phase # "answered"
    BY <1>10, LoseRecords DEF Idle
  <2>2. ASSUME NEW m \in Taking \union Waiting
        PROVE  m \in Edits \/ Troubled(m, {"fetch", "send", "lost"})'
    <3>1. m \in FromPeople /\ <<Subject(m), "lost">> \in mishaps'
      BY <1>10, LoseLoses, PlacesAre DEF InLine
    <3>2. m \in Edits \/ Subject(m) = m
      BY <3>1 DEF Edits, Subject, IsEdit
    <3>3. QED
      BY <3>1, <3>2 DEF Troubled
  <2>3. QED
    BY <1>10, <2>1, <2>2, HeardKeeps
<1>11. CASE UNCHANGED <<timeline, reactions, job, queue>>
  <2>1. Settled' = Settled /\ Taking' = Taking
    BY <1>11 DEF queue, Settled, Taking
  <2>2. QED
    BY <1>11, <2>1, HeardKeeps
<1>12. CASE Die \/ Stop \/ Start \/ UNCHANGED vars
  BY <1>10, <1>11, <1>12 DEF Die, Stop, Start, vars
<1>13. QED
  BY <1>1, <1>2, <1>3, <1>4, <1>5, <1>6, <1>7, <1>8, <1>9, <1>12 DEF Next, Work

(* A process that does not run has nothing left to answer.                     *)
LEMMA UpHolds ==
  ASSUME LineInv, UpInv, [Next]_vars
  PROVE  UpInv'
<1>1. CASE PeopleTalk
  <2>1. up' = up /\ (~up => current' = current /\ pending' = pending)
    BY <1>1 DEF PeopleTalk, Say, queue
  <2>2. QED
    BY <2>1 DEF UpInv, Unfinished, Order!Line
<1>2. CASE Work
  <2>1. up /\ up' = up
    BY <1>2 DEF Work, Begin, DropEdit, Answer, SaveEdit, LogLine, SaveQuietEdit, Decide, LoseQuietEdit, Working
  <2>2. QED
    BY <2>1 DEF UpInv
<1>3. CASE Die \/ Start
  <2>1. up'
    BY <1>3 DEF Die, Start
  <2>2. up' \in BOOLEAN
    BY <1>3 DEF Die, Start, UpInv
  <2>3. QED
    BY <2>1, <2>2 DEF UpInv
<1>4. CASE Stop
  <2>1. up' = FALSE
    BY <1>4 DEF Stop
  <2>2. CASE Lose
    <3>1. current'[Here] = <<>> /\ pending'[Here] = <<>>
      BY <2>2 DEF Lose, Order!Drop
    <3>2. <<>> \o <<>> = <<>>
      <4>1. \A q \in Seq(Nat) : q \o <<>> = q
        OBVIOUS
      <4>2. <<>> \in Seq(Nat)
        OBVIOUS
      <4>3. QED
        BY <4>1, <4>2
    <3>3. QED
      BY <2>1, <3>1, <3>2 DEF UpInv, Unfinished, Order!Line
  <2>3. CASE Unfinished = <<>> /\ UNCHANGED queue
    <3>1. current' = current /\ pending' = pending
      BY <2>3 DEF queue
    <3>2. QED
      BY <2>1, <2>3, <3>1 DEF UpInv, Unfinished, Order!Line
  <2>4. QED
    BY <1>4, <2>2, <2>3 DEF Stop
<1>5. CASE UNCHANGED vars
  BY <1>5 DEF vars, queue, UpInv, Unfinished, Order!Line
<1>6. QED
  BY <1>1, <1>2, <1>3, <1>4, <1>5 DEF Next

-----------------------------------------------------------------------------
LEMMA RecordsHold ==
  ASSUME Inv, Inv', Kept, LineInv, DeskInv, AnswerInv, Records, [Next]_vars
  PROVE  Records' /\ DeskInv' /\ AnswerInv'
<1>1. CASE PeopleTalk
  BY <1>1, SayRecords DEF PeopleTalk
<1>2. CASE Begin
  BY <1>2, BeginRecords
<1>3. CASE DropEdit
  BY <1>3, DropEditRecords, IdleHolds DEF DropEdit, Done
<1>4. CASE Answer
  BY <1>4, AnswerRecords
<1>5. CASE SaveEdit
  BY <1>5, SaveEditRecords, IdleHolds DEF SaveEdit, Done
<1>6. CASE LogLine
  BY <1>6, LogLineRecords, LogLineDesk
<1>7. ASSUME NEW place \in Places, NEW found \in BOOLEAN, SaveQuietEdit(found, place)
      PROVE  Records' /\ DeskInv' /\ AnswerInv'
  BY <1>7, SaveQuietEditRecords, IdleHolds DEF SaveQuietEdit, Done
<1>8. ASSUME NEW place \in Places, NEW found \in BOOLEAN, Decide(found, place)
      PROVE  Records' /\ DeskInv' /\ AnswerInv'
  BY <1>8, DecideRecords
<1>9. ASSUME NEW place \in Places, LoseQuietEdit(place)
      PROVE  Records' /\ DeskInv' /\ AnswerInv'
  BY <1>9, LoseQuietEditRecords, IdleHolds DEF LoseQuietEdit, Done
<1>10. CASE Lose /\ timeline' = timeline /\ log' = log
  BY <1>10, LoseRecords, IdleHolds
<1>11. CASE UNCHANGED <<timeline, log, job, mishaps, queue>>
  BY <1>11, NothingRecords
<1>12. CASE Die \/ Stop \/ Start \/ UNCHANGED vars
  BY <1>10, <1>11, <1>12 DEF Die, Stop, Start, vars
<1>13. QED
  BY <1>1, <1>2, <1>3, <1>4, <1>5, <1>6, <1>7, <1>8, <1>9, <1>12 DEF Next, Work

LEMMA InitIInv == Init => IInv
<1> SUFFICES ASSUME Init
             PROVE  IInv
  OBVIOUS
<1>1. /\ timeline = <<>> /\ log = <<>> /\ job = Idle /\ reactions = {} /\ up = TRUE
      /\ arrived = [r \in {Here} |-> <<>>] /\ pending = [r \in {Here} |-> <<>>]
      /\ current = [r \in {Here} |-> <<>>] /\ settled = [r \in {Here} |-> 0]
      /\ lostAt = [r \in {Here} |-> {}]
  BY DEF Init, Order!Init
<1>2. Ids = {} /\ FromPeople = {} /\ ByBot = {} /\ Settled = {} /\ Taking = {} /\ Written = {}
  <2>1. Ids = {} /\ Settled = {} /\ Taking = {}
    BY <1>1 DEF Ids, Settled, Taking
  <2>2. Written = {}
    BY <2>1 DEF Written, Taking
  <2>3. QED
    BY <2>1, <2>2 DEF FromPeople, ByBot
<1>3. Inv
  BY InitIsFine
<1>4. LineInv
  <2>1. Queue!Init
    BY <1>1 DEF Queue!Init
  <2>2. Queue!IInv
    BY <2>1, Queue!InitIInv
  <2>3. QED
    BY <1>1, <2>2 DEF LineInv
<1>5. DeskInv /\ AnswerInv
  BY <1>1 DEF DeskInv, AnswerInv, Idle
<1>6. Records
  BY <1>1, <1>2 DEF Records, LogInv, OneAnswer
<1>7. HeardInv
  BY <1>1, <1>2 DEF HeardInv
<1>8. UpInv
  BY <1>1 DEF UpInv
<1>9. QED
  BY <1>3, <1>4, <1>5, <1>6, <1>7, <1>8 DEF IInv

LEMMA NextIInv ==
  ASSUME IInv, [Next]_vars
  PROVE  IInv'
<1>1. Inv' /\ Kept
  BY NextKeeps, KeptHolds DEF IInv
<1>2. LineInv'
  BY <1>1, LineHolds DEF IInv
<1>3. Records' /\ DeskInv' /\ AnswerInv'
  BY <1>1, RecordsHold DEF IInv
<1>4. HeardInv'
  BY <1>1, HeardHolds DEF IInv
<1>5. UpInv'
  BY UpHolds DEF IInv
<1>6. QED
  BY <1>1, <1>2, <1>3, <1>4, <1>5 DEF IInv

LEMMA IInvHolds == Spec => []IInv
<1>1. IInv /\ [Next]_vars => IInv'
  BY NextIInv
<1>2. QED
  BY InitIInv, <1>1, PTL DEF Spec

(* What the log is to the message that is being decided: the past, all of it   *)
(* and nothing else, whatever was edited, lost or failed before: a message is  *)
(* logged by the end of process_message, and only then is the next one taken   *)
(* (src/src/handler.rs:920-942, 643-647).                                      *)
THEOREM PastOnly == Spec => []HistoryIsPast
<1>1. ASSUME IInv
      PROVE  HistoryIsPast
  <2> SUFFICES ASSUME job.phase \in {"taken", "decided"}
               PROVE  /\ \A i \in DOMAIN log : log[i].event \in Settled \ Edits
                      /\ \A i, j \in DOMAIN log : i < j => log[i].event < log[j].event
                      /\ \A m \in Settled \ Edits : RowsOf(m) # {} \/ Troubled(m, {"write", "lost"})
    BY DEF HistoryIsPast
  <2>1. LogInv /\ BookInv /\ QueueInv /\ job.line = 0
    BY <1>1 DEF IInv, Inv, Records, DeskInv
  <2>2. Written = {}
    <3>1. DOMAIN current[Here] \subseteq Nat \ {0}
      BY <2>1 DEF QueueInv
    <3>2. QED
      BY <2>1, <3>1 DEF Written
  <2>3. \A i \in DOMAIN log : log[i].event \notin Edits
    BY <2>1 DEF BookInv, RowRight, Edits, IsEdit
  <2>4. QED
    BY <2>1, <2>2, <2>3 DEF LogInv
<1>2. QED
  BY <1>1, IInvHolds, PTL

(* No post of the bot is lost to its log: edits and reactions find it on one   *)
(* row, or its successor with pictures; and never on two                       *)
(* (src/src/handler.rs:876-942).                                               *)
THEOREM PostsAreAccountedFor == Spec => []PostsAccountedFor
<1>1. ASSUME IInv
      PROVE  PostsAccountedFor
  <2>1. ASSUME NEW p \in ByBot
        PROVE  Cardinality({i \in DOMAIN log : log[i].reply = p}) <= 1
    <3> DEFINE rows == {i \in DOMAIN log : log[i].reply = p}
    <3>1. \A i, j \in DOMAIN log : log[i].reply = p /\ log[j].reply = p => i = j
      <4>1. p # 0
        BY <1>1, IdsAre DEF IInv, Inv
      <4>2. QED
        BY <1>1, <4>1 DEF IInv, Records, LogInv
    <3>2. rows = {} \/ \E i : rows = {i}
      <4>1. ASSUME NEW i \in rows
            PROVE  rows = {i}
        BY <3>1
      <4>2. QED
        BY <4>1
    <3>3. Cardinality(rows) = 0 \/ Cardinality(rows) = 1
      BY <3>2, FS_EmptySet, FS_Singleton
    <3>4. QED
      BY <3>3
  <2>2. ASSUME NEW p \in ByBot
        PROVE  \/ {i \in DOMAIN log : log[i].reply = p} # {}
               \/ job.post = p
               \/ Superseded(p)
               \/ \E m \in timeline[p].answers : Troubled(m, {"write", "lost"})
    <3>1. Accounted(p)
      BY <1>1 DEF IInv, Records, PostInv
    <3>2. QED
      BY <3>1 DEF Accounted
  <2>3. QED
    BY <2>1, <2>2 DEF PostsAccountedFor, Superseded
<1>2. QED
  BY <1>1, IInvHolds, PTL

(* An edit's answer replaces the first one, however often it is edited, as     *)
(* long as the answer can be edited in and is found: replace_reply and         *)
(* record_edit (src/src/handler.rs:874-888, 920-936).                          *)
THEOREM OneAnswerEach == Spec => []OneAnswer
<1>1. IInv => OneAnswer
  BY DEF IInv, Records
<1>2. QED
  BY <1>1, IInvHolds, PTL

(* The room shows what the log says was answered, unless a send failed         *)
(* (src/src/handler.rs:880-885).                                               *)
THEOREM LogAndRoomAgree == Spec => []LogMatchesRoom
<1>1. ASSUME IInv
      PROVE  LogMatchesRoom
  <2>1. \A i \in DOMAIN log : ShownIn(log[i])
    BY <1>1 DEF IInv, Records, RowGood
  <2>2. QED
    BY <2>1 DEF LogMatchesRoom, ShownIn
<1>2. QED
  BY <1>1, IInvHolds, PTL

(* A logged message has the text of its sender's last edit, as far as edits    *)
(* were handled, also of one that came while the message waited for its answer *)
(* (save_edit, src/src/handler.rs:945-950).                                    *)
THEOREM LogIsUpToDate == Spec => []LogHasLatest
<1>1. ASSUME IInv
      PROVE  LogHasLatest
  <2>1. \A i \in DOMAIN log : LatestIn(log[i])
    BY <1>1 DEF IInv, Records, RowGood
  <2>2. QED
    BY <2>1 DEF LogHasLatest, LatestIn, Versions
<1>2. QED
  BY <1>1, IInvHolds, PTL

(* Whoever speaks to the bot is answered or gets a reaction, unless something  *)
(* fails (README.md:251-267, src/src/handler.rs:883-893).                      *)
THEOREM NobodyIgnored == Spec => []NoSilence
<1>1. ASSUME IInv
      PROVE  NoSilence
  <2>1. \A m \in Settled \ Edits : Heard(m)
    BY <1>1 DEF IInv, HeardInv
  <2>2. QED
    BY <2>1 DEF NoSilence, Heard
<1>2. QED
  BY <1>1, IInvHolds, PTL

(* What is said in a thread after the bot posted there is for the bot: the log *)
(* has the post's row by then, and it is among the last ThreadLimit of the     *)
(* thread (bot_in_thread, src/src/handler.rs:229-234, 701-704).                *)
THEOREM ThreadsAreFollowed == Spec => []FollowUpHeard
<1>1. ASSUME IInv
      PROVE  FollowUpHeard
  <2> DEFINE e == Incoming
             thread == Stated(e)
  <2> SUFFICES ASSUME job.phase = "decided", thread # 0, mishaps = {},
                      NEW p \in ByBot, timeline[p].thread = thread,
                      Cardinality(InThread(thread)) <= ThreadLimit,
                      Version(e).mentions \in {"absent", "nobody"},
                      Target(e, TRUE) = 0 \/ ToBot(e, TRUE)
               PROVE  FollowUp(e, job.found, job.place)
    BY DEF FollowUpHeard, Directed
  <2>1. /\ RoomInv /\ BookInv /\ JobInv /\ Records /\ job.post = 0
    BY <1>1 DEF IInv, Inv, DeskInv
  <2>2. \A m, S : ~Troubled(m, S)
    BY DEF Troubled
  <2>3. Joined(e, job.found) = thread
    BY DEF Joined
  <2>4. Target(e, job.found) = 0 \/ ToBot(e, job.found)
    <3>1. job.found \/ timeline[Subject(e)].replyTo = 0
      BY <2>1, <2>2 DEF JobInv
    <3>2. Target(e, job.found) = Target(e, TRUE)
      BY <3>1 DEF Target
    <3>3. QED
      BY <3>2 DEF ToBot
  <2>5. PostInv(p) /\ p # job.post
    BY <2>1, IdsAre DEF Records
  <2>6. PICK i \in DOMAIN log : log[i].reply # 0 /\ log[i].event \in timeline[p].answers
    <3>1. CASE \E i \in DOMAIN log : log[i].reply = p
      <4>1. PICK i \in DOMAIN log : log[i].reply = p /\ RowInv(log[i])
        BY <2>1, <3>1 DEF Records, RowGood
      <4>2. log[i].reply # 0
        BY <2>1, <4>1, IdsAre
      <4>3. QED
        BY <4>1, <4>2 DEF RowInv
    <3>2. CASE Superseded(p)
      <4>1. PICK i \in DOMAIN log : log[i].event \in timeline[p].answers /\ log[i].reply > p
        BY <3>2 DEF Superseded
      <4>2. log[i].reply # 0
        BY <2>1, <4>1, IdsAre
      <4>3. QED
        BY <4>1, <4>2
    <3>3. QED
      BY <2>2, <2>5, <3>1, <3>2 DEF PostInv, Accounted
  <2>7. log[i].thread # 0 /\ thread \in {log[i].thread, log[i].event}
    BY <2>2, <2>5, <2>6 DEF PostInv, PairInv, Revising
  <2> HIDE DEF thread
  <2>8. i \in InThread(thread)
    BY <2>7 DEF InThread
  <2>9. i \in ThreadRows(thread)
    <3> DEFINE rows == InThread(thread)
               later == {j \in rows : j > i}
    <3>1. rows \subseteq 1..Len(log) /\ Len(log) \in Nat
      <4>1. log \in Seq(Rows)
        BY <2>1 DEF BookInv
      <4>2. QED
        BY <4>1 DEF InThread
    <3>2. IsFiniteSet(rows)
      <4>1. \A n \in Nat : IsFiniteSet(1..n)
        BY FS_Interval
      <4>2. IsFiniteSet(1..Len(log))
        BY <3>1, <4>1
      <4>3. QED
        BY <3>1, <4>2, FS_Subset
    <3>3. later \in SUBSET rows /\ i \notin later
      BY <2>8, <3>1
    <3> HIDE DEF later, rows
    <3>4. Cardinality(later) <= Cardinality(rows) /\ Cardinality(later) # Cardinality(rows)
          /\ IsFiniteSet(later)
      BY <2>8, <3>2, <3>3, FS_Subset DEF rows
    <3>5. Cardinality(later) \in Nat /\ Cardinality(rows) \in Nat
      BY <3>2, <3>4, FS_CardinalityType
    <3>6. Cardinality(rows) <= ThreadLimit /\ ThreadLimit \in Nat
      BY ConversationAssumption DEF rows, thread
    <3>7. Cardinality(later) < ThreadLimit
      BY <3>4, <3>5, <3>6
    <3>8. QED
      BY <2>8, <3>7 DEF ThreadRows, later, rows
  <2>10. BotInThread(thread)
    BY <2>6, <2>7, <2>9 DEF BotInThread
  <2>11. thread # 0
    BY DEF thread
  <2>12. QED
    BY <2>3, <2>4, <2>10, <2>11 DEF FollowUp
<1>2. QED
  BY <1>1, IInvHolds, PTL

(* What the state of a room is made of: the queue's lines, the job that is     *)
(* under way and the log's rows have their types in every state.               *)
THEOREM RoomIsTyped == Spec => []TypeOK
<1>1. ASSUME IInv
      PROVE  TypeOK
  <2>1. /\ RoomInv /\ BookInv /\ QueueInv /\ JobInv /\ LineInv /\ HeardInv /\ UpInv /\ Records
    BY <1>1 DEF IInv, Inv
  <2>2. Order!TypeOK
    <3>1. Queue!TypeOK
      BY <2>1 DEF LineInv, Queue!IInv
    <3>2. QED
      BY <3>1 DEF Order!TypeOK, Queue!TypeOK
  <2>3. \A p \in ByBot : timeline[p].shows \in FromPeople /\ timeline[p].answers \subseteq FromPeople
    BY <2>1 DEF RoomInv, Records, PostInv
  <2>4. \A i \in DOMAIN log : {log[i].event, log[i].response} \subseteq FromPeople \union {0}
    BY <2>1 DEF BookInv, RowRight, Records, RowGood, RowInv
  <2>5. \A e \in FromPeople :
          /\ timeline[e].content \in Contents
          /\ {timeline[e].thread, timeline[e].replyTo, timeline[e].edits} \subseteq 0..(e - 1)
    BY <2>1 DEF RoomInv
  <2>6. QED
    BY <2>1, <2>2, <2>3, <2>4, <2>5 DEF TypeOK, HeardInv, QueueInv, JobInv, UpInv
<1>2. QED
  BY <1>1, IInvHolds, PTL
===============================================================================
