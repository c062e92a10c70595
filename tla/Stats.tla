--------------------------------- MODULE Stats --------------------------------
(****************************************************************************)
(* What is counted of the rooms the bot is in: src/stats.rs, for the status  *)
(* page, which anyone may read, and for !stats, which anyone in a room may   *)
(* ask for (src/stats_command.rs). The tables it is counted from:            *)
(*   messages    [id, room, sender, name, ts, thread, links, image, reply,   *)
(*               intent]: name and thread are 0 if there is none, ts is in   *)
(*               parts of a day, reply is what kind of reply it got or       *)
(*               "none", intent stands for each field of the analysis        *)
(*   reactions   [id, room, key]                                             *)
(*   facts, summaries  [id, room]                                            *)
(*   direct      the private rooms                                           *)
(****************************************************************************)
EXTENDS Integers, SequencesExt

CONSTANTS
  Now,             \* when it is asked for
  Day,             \* DAY_MS
  DailyWindow,     \* DAILY_WINDOW_DAYS
  TopLimit,        \* TOP_LIMIT
  RoomTopPeople,   \* ROOM_TOP_PEOPLE
  BreakdownLimit   \* BREAKDOWN_ENTRIES

ASSUME StatsAssumption ==
  /\ {Now, Day, DailyWindow, TopLimit, RoomTopPeople, BreakdownLimit} \subseteq Nat \ {0}
  /\ DailyWindow >= 7

(* What a row of messages is, and the tables: an ID is that of one event, so *)
(* a thread is in one room.                                                  *)
Said == [id : Nat, room : STRING, sender : Nat, name : Nat, ts : Nat, thread : Nat,
         links : Nat, image : BOOLEAN, reply : STRING, intent : STRING]
Threaded(rows) ==
  \A one, other \in rows : one.thread = other.thread => one.thread = 0 \/ one.room = other.room
AnyTables ==
  {tables \in [messages : SUBSET Said, reactions : SUBSET [id : Nat, room : STRING, key : STRING],
               facts : SUBSET [id : Nat, room : STRING], summaries : SUBSET [id : Nat, room : STRING],
               direct : SUBSET STRING] :
     IsFiniteSet(tables.messages) /\ Threaded(tables.messages)}

(* NOT_PRIVATE, which every query of the page's has to carry. *)
Public(rows, direct) == {row \in rows : row.room \notin direct}
In(rows, room) == {row \in rows : row.room = room}
Since(rows, ts) == {row \in rows : row.ts >= ts}
Replied(rows) == {row \in rows : row.reply # "none"}

CountsBy(Key(_), rows) ==
  [k \in {Key(row) : row \in rows} |-> Cardinality({row \in rows : Key(row) = k})]

(* What is counted in several queries or columns, together. *)
Joined(f, g) == [k \in DOMAIN f \union DOMAIN g |-> IF k \in DOMAIN f THEN f[k] ELSE g[k]]

First(list, limit) == SubSeq(list, 1, IF Len(list) < limit THEN Len(list) ELSE limit)

(* ORDER BY COUNT( * ) DESC LIMIT: ties in one of the orders there are.      *)
Ranked(counts, limit) ==
  LET order == CHOOSE seq \in [1..Cardinality(DOMAIN counts) -> DOMAIN counts] :
                 \A i, j \in DOMAIN seq : i < j => seq[i] # seq[j] /\ counts[seq[i]] >= counts[seq[j]]
  IN First([i \in DOMAIN order |-> [name |-> order[i], count |-> counts[order[i]]]], limit)

(* What totals counts alike for a room, and for all of them. *)
Activity(rows) ==
  [messages |-> Cardinality(rows), replies |-> Cardinality(Replied(rows)),
   people |-> Cardinality({row.sender : row \in rows}),
   threads |-> Cardinality({row.thread : row \in rows} \ {0})]

(* How recent the messages are: when the first and the last were, and how    *)
(* many of the last day and week.                                            *)
Recency(rows) ==
  [span |-> {ts \in {row.ts : row \in rows} : \/ \A row \in rows : ts <= row.ts
                                              \/ \A row \in rows : ts >= row.ts},
   ofDay |-> Cardinality(Since(rows, Now - Day)),
   ofWeek |-> Cardinality(Since(rows, Now - 7 * Day))]

Totals(tables) ==
  LET rows == Public(tables.messages, tables.direct)
  IN Joined(Joined(Activity(rows), Recency(rows)),
       [images |-> Cardinality({row \in rows : row.image}),
        links |-> MapThenSumSet(LAMBDA row : row.links, rows),
        reactions |-> Cardinality(Public(tables.reactions, tables.direct)),
        facts |-> Cardinality(Public(tables.facts, tables.direct)),
        summaries |-> Cardinality(Public(tables.summaries, tables.direct)),
        private |-> Cardinality(tables.direct)])

(* The window begins within a day, whose earlier part is not counted.        *)
Daily(rows) ==
  LET shown == Since(rows, Now - DailyWindow * Day)
      On(day) == {row \in shown : row.ts \div Day = day}
  IN [day \in {row.ts \div Day : row \in shown} |->
        [messages |-> Cardinality(On(day)), replies |-> Cardinality(Replied(On(day)))]]

(* GROUP BY room_id, ordered on the page. *)
RoomsOf(rows) ==
  [room \in {row.room : row \in rows} |->
     Joined(Activity(In(rows, room)),
            [last |-> CHOOSE ts \in {row.ts : row \in In(rows, room)} :
                        \A row \in In(rows, room) : row.ts <= ts])]

(* MAX(sender_name) of all names someone had, or who it is.                  *)
NameOf(sender, rows) ==
  LET names == {row.name : row \in {r \in rows : r.sender = sender}} \ {0}
  IN IF names = {} THEN <<"id", sender>>
     ELSE <<"name", CHOOSE name \in names : \A other \in names : other <= name>>

(* Mutant: people are told apart by what they are called. *)
PeopleByName(rows, limit) ==
  LET Called(row) == NameOf(row.sender, {row})
      top == Ranked(CountsBy(Called, rows), limit)
  IN [i \in DOMAIN top |->
        [name |-> top[i].name, messages |-> top[i].count,
         replies |-> Cardinality({row \in Replied(rows) : Called(row) = top[i].name})]]

PeopleOf(rows, limit) ==
  LET top == Ranked(CountsBy(LAMBDA row : row.sender, rows), limit)
  IN [i \in DOMAIN top |->
        [name |-> NameOf(top[i].name, rows), messages |-> top[i].count,
         replies |-> Cardinality({row \in Replied(rows) : row.sender = top[i].name})]]

(* Mutant: the kinds of replies are counted in every room. *)
KindsOfAll(tables) == Ranked(CountsBy(LAMBDA row : row.reply, Replied(tables.messages)), TopLimit)

(* reply_kinds: what the replies were to. *)
KindsOf(tables) ==
  Ranked(CountsBy(LAMBDA row : row.reply, Replied(Public(tables.messages, tables.direct))), TopLimit)

(* collect: everything on the page but the size of the database. *)
Collect(tables) ==
  LET rows == Public(tables.messages, tables.direct)
  IN [totals |-> Totals(tables), daily |-> Daily(rows), rooms |-> RoomsOf(rows),
      people |-> PeopleOf(rows, TopLimit),
      kinds |-> KindsOf(tables),
      intents |-> Ranked(CountsBy(LAMBDA row : row.intent, rows), Cardinality(rows)),
      reactions |-> Ranked(CountsBy(LAMBDA row : row.key, Public(tables.reactions, tables.direct)),
                           TopLimit)]

(* room: of a room that asks, private or not. *)
RoomStats(tables, room) ==
  LET rows == In(tables.messages, room)
  IN Joined(Joined(Activity(rows), Recency(rows)), [top |-> PeopleOf(rows, RoomTopPeople)])

(* reply: totals and breakdowns of all rooms, people of this one only.       *)
StatsReply(all, here) ==
  [everywhere |-> all.totals,
   here |-> IF here.messages > 0 THEN <<here>> ELSE <<>>,
   kinds |-> First(all.kinds, BreakdownLimit),
   intents |-> First(all.intents, BreakdownLimit),
   reactions |-> First(all.reactions, BreakdownLimit)]

-----------------------------------------------------------------------------
(* The tables without any row of a private room. *)
WithoutPrivate(tables) ==
  [messages |-> Public(tables.messages, tables.direct),
   reactions |-> Public(tables.reactions, tables.direct),
   facts |-> Public(tables.facts, tables.direct),
   summaries |-> Public(tables.summaries, tables.direct),
   direct |-> tables.direct]

(* One of the columns of a table, added up. *)
SumOf(column, table) == SumFunction([k \in DOMAIN table |-> table[k][column]])
===============================================================================
