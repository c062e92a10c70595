# A TLA+ model of matrix-llm-bot

The bot sits in Matrix rooms, decides which messages are for it, asks Claude for answers,
posts them, and remembers everything in a SQLite database. This directory models that
behaviour in TLA+, checks it with TLC on small instances, and proves the parts listed under
Proofs with TLAPS. File names below are relative to `src/src/` of the repository;
`README.md` of the bot is called the bot's README.

    tlc -config MCRoomQueues.cfg MCRoomQueues      # the other runs alike, see Runs
    tlapm RoomQueuesProofs.tla                     # the proofs, see Proofs

## The system

### Components

| Component | State it keeps | Operations | What makes it correct |
|---|---|---|---|
| Room queues (`room_queue.rs`, `run_room`) | a sender per room, a channel and a `held` queue per inbox, one task per inbox | `enqueue`, `next`, `take_burst`, the task's death | one worker per room, messages in order, loss only with a worker, nothing waits forever |
| Message handling (`handler.rs`) | none that outlives a message but the queue and the log | `on_room_message`, `process_message` with its edits, bursts, threads, answers | whoever addresses the bot is answered, once, where they asked; the log and the room agree |
| Message log (`message_log.rs`) | rows of messages with their answers, reactions | `log`, `record_edit`, `get`, `thread`, `recent`, `search`, `log_reaction` | each message once, in order, with its last text and the answer it really got |
| Usage (`usage.rs`) | totals in memory and in the database, failures in a row | `open`, `record`, `record_failure`, `over_cost_limit` | spend stops near the limit, alerts come once and are true |
| Pause (`throttle.rs`) | one deadline | `note_rate_limited`, `remaining` | a pause is never cut short |
| Claude requests (`llm.rs`, `classify.rs`) | none | `send`, `complete`, `classify_message` | bounded requests per call, each recorded or counted as failed |
| Room memory (`room_memory.rs`, `history_split`) | facts, one summary per room | `remember`, `forget`, `summary_of` | the cap, numbers never reused, no message neither summarized nor shown |
| Cooldowns (`greeting.rs`) | last time per room | `try_greet` | at most one greeting per period |
| Invites and private rooms (`direct_rooms.rs`, `handler.rs`) | the rooms the bot was invited into | `on_invite`, `answer_pending_invites`, `add`, `allows` | recorded before joined; one failed join is not the end |
| Alerts and start notice (`notify.rs`, `startup_notice.rs`, `changelog.rs`) | a queue of texts, the version each user saw | `raise`, `deliver`, `last_alert`, `announce` | in order, what is new is told at least once |
| Database and import (`db.rs`, `legacy_import.rs`) | schema version, imported files | `transaction`, `migrate`, `once` | each migration and each file once, whole or not at all |
| Session and sync (`bot.rs`, `main.rs`) | session and device files | login, restore, sync until it fails | the same device after a restart |
| Commands and skills (`skills.rs`, `tools.rs`, `stats*.rs`) | a registry read at start | parse, resolve, execute, search and look up | the skill that is meant, with what was typed, and the best there is to find |
| Links, browser, docs (`links.rs`, `browser*.rs`, `bot_docs.rs`) | a cached connection, slots, a cache | fetch, render, read | the nearest pages, a broken connection replaced, a copy only as old as it must be |
| Pictures and cards (`cast_sheet.rs`, `photo_sheet.rs`, `pp.rs`, `rotten_tomatoes.rs`) | none | choose a film, load, draw | what is announced is posted |
| Status page (`status_server.rs`, `stats.rs`) | none | list, count, show | nothing of a private room; numbers that agree |
| Configuration (`config.rs`) | none | read at start | |

### How they interact

matrix-sdk delivers each event to a handler of its own, concurrently. `on_room_message`
drops what is not for anyone and puts the rest in its room's inbox, under the mutex of the
map. The room's worker takes one message at a time: it resolves an edit against the log,
looks up what is replied to, decides who the message is for, may classify it with Claude,
waits for a burst, generates the answer with Claude, posts it (or edits an earlier post, or
reacts), and then writes the log. All workers share the usage tracker, the pause, the
database and the alert queue, each behind a mutex that is never held across an await, so
that workers interleave between any two uses of them.

### What is hard

- *Order*: a message is in one of three places, and its worker may die at any await.
- *The post and the row*: an answer is visible before the log knows it; every later
  decision (follow-ups in threads, edits, history) is made from the log.
- *Edits*: the row of a message is rewritten column by column, keeping what an edit did
  not produce; what the row says must stay what the room shows.
- *Threads*: where an answer goes depends on the message, on what it replies to, on the
  kind of room, on the kind of answer, and on what an earlier version was answered with.
- *Check, await, act*: the cost limit and the pause are checked before the awaits that
  make them stale, by several rooms at once.
- *Alerts*: raised by several tasks from two mutexes, and delivered by a third.
- *Starting again*: files, migrations, imports, invites and the start notice each have a
  first half and a second one, and the process may end in between.
- *Windows that move*: the summary, the cached history and what is new are cut from a log
  that grows, by positions that are computed anew for each reply.
- *Sharing*: replies of all rooms share one browser, its slots, and one copy of the
  documentation whose mutex is held across a fetch.

`hazards` in `PROJECT.json` lists them by line, with the properties that cover each one.

## Modules

| Module | Models | State | Actions |
|---|---|---|---|
| `RoomOrder` | what the queues promise | per room: what arrived, what waits, what is handled, how much is over, what was lost | `Arrive`, `Begin`, `Join`, `Finish`, `Drop` |
| `RoomQueues` | `room_queue.rs`, `run_room` | `sender` is the map, `channel` and `held` an inbox's two queues, `active` the message and burst in the hands of the task, `status` where the task is | `Enqueue` (`Send` or `Spawn`), `TakeNext`, `TakeBurst`, `Finish`, `Die`, `Restart` |
| `Conversation` | `process_message` of one room, its log, and the room | `timeline` is the room's events, `reactions` the bot's, `log` the rows, `job` the locals of `process_message` that outlive a step, and the variables of `RoomOrder` | see below |
| `ClaudeCalls` | `usage.rs`, `throttle.rs`, the call sites, `send`, `complete` | `spent` and `saved`, `failures`, `until`, `now`, and in `call` what each room's worker is doing | see below |
| `Process` | the process of `main.rs` | `stage` of a start, the `build` deployed | `Start`, `Deploy`, `Die` |
| `Session` | login and its files, `bot.rs` | `deviceFile`, `sessionFile`, the device the crypto store is `bound` to, `device` | `LoadSession`, `LoadDevice`, `SaveDevice`, `Login`, `TruncateSession`, `SaveSession`, `RemoveSession` |
| `Facts` | facts of `room_memory.rs` | `facts`, `lastNumber` | `Remember`, `Forget`, `ImportFacts` |
| `LegacyImport` | `db.rs`, `legacy_import.rs` | `schema`, `imports`, the tables | `Migrate`, one action per kind of file, `Skip`, `Opened`, `Serve` |
| `PrivateRooms` | invites, `direct_rooms.rs`, what the status page shows | `membership`, `answering` per invite, `direct`, `made` | `Invite`, `ReceiveInvite`, `Record`, `TryJoin`, `Decline`, `JoinConfigured` |
| `Notices` | `notify.rs`, `startup_notice.rs`, `changelog.rs` | where each of three `task`s is, the `queue`, what each person has `seen` | `FindRoom`, `CreateRoom`, `RecordRoom`, `Announce`, `RememberNotice`, `Raise`, `TakeAlert`, `SendAlert` |
| `Lifecycle` | composes the six above | theirs | `Restart`, `GetReady`, `Sync`, `StopSyncing`, `Exit`, `Crash`, and theirs |
| `Pages` | `try_fetch` of `links.rs`, `browser.rs` | a `reader` per task, the `browser` slot | `FetchPlain`, `TakeSlot`, `LockBrowser`, `Connect`, `OpenContext`, `ResetBrowser`, `Render`, `Dispose`, `RestartBrowser` |
| `BotDocs` | `bot_docs.rs` | the `copy`, an `asker` per task | `Ask`, `LockDocs`, `FetchDocs`, `Expire` |
| `Replies` | composes the two, with the tools of a reply | the phase of each room's `reply` | `BeginReply`, `Gathered`, `ReadPage`, `ReadDocs`, `EndReply` |
| `HistorySplit` | `history_split` | none | operators |
| `RoomMemory` | `generate_grounded_reply`, `summary_of` | `total` of the log, the `summary`, the `reply` being made | `LogQuietly`, `BeginReply`, `LoadLog`, `UseSummary`, `RefreshSummary`, `EndReply`, `HoldReply` |
| `Skills` | `skills.rs`: loading and arguments | none | operators |
| `LogSearch` | search and excerpts of the log | none | operators |
| `Lookups` | strains and films, `tools.rs`, `rotten_tomatoes.rs` | none | operators |
| `Topics` | `find_image`, `find_pages`, `fetch_all` | none | operators |
| `Stats` | `stats.rs`, `!stats` | none | operators on the tables |
| `Commands` | `handle_command` through `execute` | the `registry`, the `log`, the `command` | `LoadSkills`, `GiveCommand`, `CheckCommand`, `ReadRoom`, `LookUp`, `Complete`, `AnswerCommand` |
| `Answers` | composes `RoomMemory`, `Commands` and `Topics` over one log | and the `topic` of a reply | theirs |
| `RoomOrderProofs`, `RoomQueuesProofs`, `ClaudeCallsProofs`, `LifecycleProofs`, `RepliesProofs`, `AnswersProofs`, `ConversationProofs` | proofs, each of the module it is named after and those that one composes | | |
| `DataFacts` | lemmas on sequences and on sets of numbers | | |
| all that begin with `MC` | constants for TLC | | |

`RoomQueues` implements `RoomOrder` (checked and proved), and `Conversation` uses
`RoomOrder` as its queue, by `INSTANCE` with one room. So what the queues really do, with
their channels and dying workers, is in one module, and what is done with the messages in
another.

Definitions named after a mutation (`TakeNextFromChannel`, `RewrittenClears`, and all
that have a comment beginning with *Mutant*) are not part of the specifications. Each is a
plausible bug; put in place of the definition after it, it violates the property
`PROJECT.json` names.

### Conversation

An event is a record: who sent it, its content, the thread it says it is in, what it
replies to, what it edits; a post of the bot also has the event whose text it answers
(`shows`) and the messages it answers (`answers`), which the program does not keep but the
properties need. The ID of an event is its place in the timeline. The content is its kind
(text, command, question for `!help`, image), whether it names the bot, and whom it
mentions.

| Action | Code |
|---|---|
| `Say` | a person sends something; `on_room_message` queues it |
| `Begin` | `run_room` takes the next message |
| `DropEdit` | `resolve_edit` finds nothing to do, or fails; or the text is the same |
| `SaveQuietEdit`, `LoseQuietEdit` | an edit that is not for the bot updates the log, or fails to |
| `Decide` | who it is for, classification, the kind of answer |
| `Answer` | the burst is taken; the answer is posted, edited in, put as a reaction, or there is none |
| `SaveEdit` | the row of an answered edit |
| `LogLine` | one row for each message answered |
| `Die`, `Stop`, `Start` | the worker panics, the process stops and starts |

Steps end where the code awaits something another task could change, or where a crash
leaves something half done: after the message is taken, after the decision, after the
answer, and after each row. Between them people talk, and the worker may die.

The classifier and the two cooldowns decide nondeterministically, as does the kind of room
(the number of its members may change at any time). What a model answers is one of the
shapes the code tells apart: text, a lone emoji, or text with pictures. Every fetch of a
replied-to or edited event, every send and every write may fail, up to `MaxMishaps`
faults; a fault is remembered with the messages it hit, so that properties can be stated
for the messages nothing went wrong with.

### ClaudeCalls

A task goes from `idle` to `starting` (`Start`), checks the limit (`CheckCost`) and the
pause (`CheckThrottle`), each a lock of its own, and then `waits` for Claude. A chat reply
may first request a summary. A request fails (`FailLimited`, then `NoteRateLimited` with
the deadline computed before the lock; or `FailOtherwise`; then `RecordFailure`), comes
back unreadable (`Garbled`), or succeeds (`Succeed`, which is the failures' lock;
`RaiseRecovered`, which holds none; `Add`, which is the lock of the totals, with the alert
and the row). After `Add`, `complete` may continue. `Restart` loads what was saved.

The count of failures in a row goes no further than the threshold, since nothing looks at
it beyond that. A response has a model, tokens and searches, and costs what
`estimate_cost_usd` makes of them: nothing for the tokens of a model without a price (then
only searches count against the limit). Costs are integers, and tokens of every kind count
as one. A limit of zero is left out: the code answers nothing then and never alerts.

### Lifecycle

A start goes through its stages in order, each of which needs the one before: session,
device, login, database, rooms, first sync, and then the sync loop. `Crash` may end the
process at every step, the halves of a file write included (a file is truncated, then
filled), and `Deploy` may put another build in its place while it is down, an older one
too. What a process holds in memory is dropped; what a crash leaves is in the files, in
the tables, and at the homeserver (memberships, rooms made). A migration and the import of
one file are one step each, since each is one transaction.

`Notices` has three tasks, which each go from person to person: `announce`, `deliver`,
and the last alert when the sync loop ended. `private_room` is three steps: looking for a
room, making one (another task may make one in between), and recording it as private, before
which the process may end. `got`, `told`, `left`, `missed` and `noticed` are history: the
homeserver's record of what was sent, of which the program remembers only `seen`; `lapses`
has the rooms that are not recorded, and why. A notice lists `MaxNewLines` lines at most,
whichever those are, and says that there are more (`left`).

Reads may fail as well as writes: the device's ID (`LoadDevice`; a new one is drawn then, and
`unread` remembers it), the details of an invite at a start (it is `unread` until the next),
what somebody has seen of the changelog. What matrix-sdk does with a device that the crypto
store does not belong to, which is to refuse the login, is modelled from its use (`Login`).

### Replies

A reader is one page read, of up to `MaxLinks` at once for each room. `browser` is the
slot for the shared connection, numbered in the order they are opened, and `alive` the
first that a restart of the browser has not broken: nobody is told, and a broken one is
only noticed when a context cannot be opened on it. `stale` says whether the copy of the
documentation *is* out of date, `copy` whether the program takes it to be. Two documents
share the mutex in the code and one stands for both here.

### Answers

Messages are numbered; `total` is what the log has. A reply keeps in `reply` the
positions it computed, and `prompt` is history: what the last finished prompt consisted of.
That a worker handles one message at a time is what lets `total` stand still between
loading and logging, so the module has one worker and no others. `Commands` has what
people type as sequences of words; whether a word parses as a number, an integer or a
boolean is a table (`Reads`), and so is what is lower-case of what: `Lower` as `to_lowercase`
has it, `AsciiLower` as `eq_ignore_ascii_case` does, which checks a file and finds a built-in,
and `LowerRow` as SQLite does it, for ASCII alone. The sites that are asked are functions from
a title to results. A skill makes every lookup it declares, one after the other (`LookUp`); since
nothing else depends on one of them, they are one step.

`Stats` counts tables, which are sets of rows, with one operator for each query of
`stats.rs`, and each of them leaves out private rooms by itself (`Public`), as its SQL does.
`!stats` counts twice, all rooms and then the one it is asked in. The rows of other rooms that
come in between are `late`; there are none of its own room, whose worker is at the command.
The second count is compared with the first (`CountsAgree`), and the first with
what it would be without private rooms (`PrivateUncounted`); the status page is the first
count, so both are about it too. Both are part of `CommandsAsGiven`.

## Runs

| Run | Bounds | States | Shows |
|---|---|---|---|
| `room_queues` | 2 rooms, 5 messages by 2 people, 5 inboxes | 150 thousand | `TypeOK`, `OneWorker`, `InOrder`, `LostOnlyWithWorker`, `EverySettled`, `ImplementsOrder` |
| `conversation_threads` | 2 people, 3 messages or edits, 1 fault | 1.2 million | `HistoryIsPast`, `FreshThread`, `AnswersWhereAsked`, `FollowUpHeard` |
| `conversation_edits` | 1 person, 3 messages or edits, 1 fault | 306 thousand | `TypeOK`, `PostsAccountedFor`, `OneAnswer`, `LogMatchesRoom`, `LogHasLatest`, `EverySettled` |
| `conversation_all` | 2 people, 2 messages of every form in every kind of room, 1 fault | 515 thousand | `NoSilence` |
| `claude_calls` | 2 rooms, limit 10 and cost 5, 2 ticks | 765 thousand | `TypeOK`, `OverrunBounded`, `SpendAlertsTell`, `FailureAlertsPaired`, `PauseNeverShortened`, `CallsEnd` |
| `lifecycle` | 2 builds, 2 people notified, 1 fault, 2 events, 2 lines in a notice | 2.3 million | `TypeOK`, `SameDevice`, `ImportedOnceAndWhole`, `NumbersNeverReturn`, `PrivateStaysOff`, `NothingMissed`, `AlertsReach`, `OneFailureForgiven` |
| `replies` | 2 rooms, 2 replies, 3 pages, 1 restart of the browser | 90 thousand | `TypeOK`, `DocsAsNewAsCanBe`, `DeadConnectionCosts`, `RepliesEnd` |
| `answers` | 1 room, 10 messages, window 6, step 2, 1 fault | 524 thousand | `TypeOK`, `CommandsAsGiven`, `BestFound`, `NothingFallsBetween`, `StableHistory` |
| `own_context` | 1 person, 3 messages | violation | `NotInItsOwnContext` |
| `uninvited_follow_up` | 1 person, 3 messages | violation | `FollowUpOnlyWhereBotIs` |
| `emoji_reaction` | 2 people, one of them ignored, 2 messages | violation | `ReactionOnWhatItAnswers` |
| `unchecked_call` | 1 room | violation | `CallSitesCheckIn` |

*Why the bounds are enough.* Three messages of one room let one be handled while two
wait, which is what a burst, a held-back message and an overtaking need; the second room
shows that rooms do not share anything. Five inboxes are one for each message: a new inbox
is only made for a message. In a conversation, three events are a message, the bot's
answer being added to them, and two more that use it: a thread and a follow-up, an edit
and an edit of that. Every fault can hit every step of every message once; a second fault
would have to hit what the first one left, which the properties mostly except. A limit of
10 with a cost of 5 lands exactly on the shares 50 and 100 and passes 90 and 100 together.
One continuation shows that continuations are counted, two ticks let two deadlines be
noted in the wrong order and a third call look at them. `ThreadLimit` is 2 instead of 50:
`FollowUpHeard` speaks of threads within it, and with three messages two rows can fall on
either side of it.

In `lifecycle` a crash and a failed step both count as the one fault, and an interrupted
start followed by a clean one is what import, session and invites have to survive; two
events are two alerts, an invite and an alert, or two facts, of which the first may be
forgotten before the second gets its number. The builds differ in schema and changelog:
the newer one adds a line to the version that the older one has already announced, and two
whole versions, so that what is new is more than the two lines a notice lists. One person who
may invite is welcome, and one is ignored; a stranger on another server is turned away by the
same branch. In `replies`, three pages and two slots make one wait, and the restart
breaks a connection that two renders hold at once. In `answers`, ten messages move a window
of six by more than one step, twice, so that a summary is made and made anew. The skill
directories have a name, an alias and a collision of each kind, a name and its alias that differ
in a capital outside ASCII, a skill that is named like a built-in, and skills with two tools that
read the log or find pictures. There is a key for OMDb; without one a skill that needs it ends
with a notice (`LacksKey`), which only the proofs cover. The searches have more
matches than the limit, ties, and a window of time; pages and pictures are limited to two
of five links. `MaxSearched` and `MaxGathered` keep the log short when a command is given
or links are looked at, since what they read of it is bounded by limits of two. What `!stats`
counts is any part of seven messages in three rooms, one private and one that may be, on
either side of a day, a week and the window, and any of those in other rooms may come between
its two counts.

*Symmetry.* The people of `conversation_threads` and `conversation_all`, who are all
treated alike there, and the device IDs of `lifecycle` are interchangeable; no run with liveness uses symmetry.

*Deadlock* is not checked: people may fall silent, and the bounded number of messages,
inboxes or ticks may run out, and then nothing happens any more, rightly.

*Fairness.* A task that can run is polled by the runtime, and every await in it ends:
requests to Claude have a timeout, Matrix requests fail in the end, and nothing in a
worker waits for another message but its inbox. So `RoomQueues` has weak fairness on
taking and finishing a message (not on dying, restarting, or on people talking),
`Conversation` on the steps of `process_message` and on the process being started again
(the bot exits so that its container restarts it), `ClaudeCalls` on the steps of each
call, and `Replies` on the steps of each reader, of whoever waits for the documentation, and
on a reply being gathered and ended: fetches, renders and Claude have timeouts, tokio serves
those who wait for a mutex or a semaphore in turn, and there are only so many others.
Connecting to the browser and disposing of a context have no timeout in this code and rely on
that of the library (chromiumoxide). `Lifecycle` and `Answers` have no liveness property:
the process may be down for good, and a person may never speak again. That a burst is taken
needs no fairness: `Finish` is enabled with and without one.

### What the violated properties show

- **A message in its own context** (`own_context`). The classifier and the reply both read the
  log on the ground that the message is not in it yet (`handler.rs:1119`, `1344`). That holds of a
  new message, and `HistoryIsPast` has it for every message of a burst. An edit is of a message
  whose row is there: the last line of its history is its earlier version, with the answer that
  is about to be replaced, if it had one.
- **A bot that joins threads it was never in** (`uninvited_follow_up`). `bot_in_thread`
  infers from rows of the log that the bot posted in a thread. The answer to a burst goes
  to a thread on its *first* message and is logged on the row of its *last*; an answer that
  edits a greeting in place is logged with the thread that a fresh answer would have
  started. If people then start a thread on such a message, everything said there counts
  as addressed to the bot, and each message is a paid reply.
- **A reaction on somebody else's message** (`emoji_reaction`). `reply_to` is the thread's
  root when the message does not say itself that it is in a thread; a lone emoji is put
  there, where the comment has it on the message it answers.
- **A call nobody checked** (`unchecked_call`). The refresh of a summary is a call site
  that checks neither the limit nor the pause, and its reply follows without a new check.

Other things met while modelling, not separate findings: an edit of a message in the
middle of a burst gets a second answer, which the bot's README names as a known limitation
and `OneAnswer` allows; a lone emoji that
replaces an earlier reply is edited in as text; a response whose send failed is logged as
given; a follow-up outside threads to a message that was put in a thread only by its reply
joins its burst, since the filter compares what the messages say of themselves; the alert
that calls work again is raised outside the lock, so it may be queued after a newer alert
that they fail; in a thread with more than 50 rows in which the bot has no recent answer,
follow-ups are not heard although the bot's README says they are; when the message that a
reply replies to could not be fetched at first, the bot answers outside its thread, and an
edit of the reply that finds it puts the thread into the row alone (`FreshThread` excepts
this).

Of starting, notifying and remembering:
- A session file that a crash left empty is an error at every later start
  (`load_session`), although a login by password would do; somebody has to remove it.
- Two tasks may each make a private room for the same person (`announce` and `deliver` both
  find none); later ones use either. A room that could not be recorded is used all the same.
- Between making a private room and recording it, it is on the status page, and if the process
  ends there it stays until the bot next has something to tell that person
  (`PrivateStaysOff` allows both).
- A device ID that exists but cannot be read is replaced (`bot.rs:335`), although it is "kept
  stable across restarts so a fresh password login [...] still lands on the same device"
  (`bot.rs:328-331`). A session that was saved goes on; without one, the store belongs to a
  device whose ID is lost, and no login gets past that until somebody removes it
  (`SameDevice` says so).
- An invite whose details cannot be read at a start is only looked at again at the next one.
- Lines that did not fit in a notice count as seen, and no later notice has them.
- A notice that was sent but not remembered is sent again; one whose predecessor could not
  be read tells only the newest version, and what lies between is never told.
- A log that cannot be counted moves the history split for that one reply, and the prompt
  cache with it.

Of commands and replies:
- Only the name `help` is reserved: a skill called `stats` loads and can never be run.
- Whether an alias is the skill's own name is checked for ASCII's capitals alone, and the table
  is keyed by `to_lowercase`: a file called `über` with the alias `Über` loads, and then its alias
  is taken, which stops the bot, although "one author's mistake in one file shouldn't take down
  every other working skill" (`skills.rs:140`). `RightSkill` has exactly when that is.
- A default that is outside its argument's bounds loads, and is used.
- A log that could not be read is not told to Claude, a search that failed is.
- Earlier searches are left out of a search by the prefix `!search`; one by an alias, or
  with a capital, is found. Words with capitals beyond ASCII that SQLite does not lower
  are not found.
- A skill with both `leafly_strain` and `rotten_tomatoes` loses the photos of the strain
  although Claude was told that they are posted (`skills.rs:606`, `624`), whatever is found of
  the film; no skill that ships has both. `PicturesAnnounced` says when what is told is true.
- A reply that is a lone emoji is put as a reaction, and the picture that was announced is
  not posted.
- A picture posted just before counts as meant even if it was posted in another thread, and
  one whose event cannot be fetched is not said to be missing.

## Proofs

| Theorem | Says |
|---|---|
| `RoomOrderProofs!OrderKept` | `RoomOrder` keeps `TypeOK`, `InOrder` and `LostIsOver` |
| `RoomQueuesProofs!TypeCorrect` | `Spec => []TypeOK` |
| `RoomQueuesProofs!SingleWorker` | `Spec => []OneWorker` |
| `RoomQueuesProofs!QueuesImplementOrder` | `Spec => ImplementsOrder` |
| `RoomQueuesProofs!MessagesInOrder` | `Spec => []InOrder` |
| `RoomQueuesProofs!LossEndsWorker` | `Spec => LostOnlyWithWorker` |
| `ClaudeCallsProofs!TypesHold` | `Spec => []TypeOK` |
| `ClaudeCallsProofs!PauseIsKept` | `Spec => PauseNeverShortened` |
| `ClaudeCallsProofs!AlertsArePaired` | `Spec => []FailureAlertsPaired` |
| `ClaudeCallsProofs!SpendingIsTold` | `Spec => []SpendAlertsTell` |
| `ClaudeCallsProofs!OverrunIsLimited` | `Spec => []OverrunBounded` |
| `LifecycleProofs!DeviceIsKept` | `Spec => []SameDevice` |
| `LifecycleProofs!PrivateIsPrivate` | `Spec => []PrivateStaysOff` |
| `LifecycleProofs!ImportIsWhole` | `Spec => []ImportedOnceAndWhole` |
| `LifecycleProofs!NumbersAreForGood` | `Spec => []NumbersNeverReturn` |
| `LifecycleProofs!InvitesAreRetried` | `Spec => []OneFailureForgiven` |
| `LifecycleProofs!AlertsAreDelivered` | `Spec => []AlertsReach` |
| `LifecycleProofs!NothingIsMissed` | `Spec => []NothingMissed` |
| `LifecycleProofs!LifecycleIsTyped` | `Spec => []TypeOK` |
| `RepliesProofs!DeadConnectionsCostLittle` | `Spec => []DeadConnectionCosts` |
| `RepliesProofs!DocsAreNew` | `Spec => []DocsAsNewAsCanBe` |
| `RepliesProofs!RepliesAreTyped` | `Spec => []TypeOK` |
| `AnswersProofs!HistoryStaysPut` | `Spec => StableHistory` |
| `AnswersProofs!NothingIsLost` | `Spec => []NothingFallsBetween` |
| `AnswersProofs!PrivateIsNotCounted` | `Spec => []PrivateUncounted` |
| `AnswersProofs!SkillsAreRight` | `Spec => []RightSkill` |
| `AnswersProofs!ArgumentsAreRight` | `Spec => []RightArguments` |
| `AnswersProofs!BestIsFound` | `Spec => []BestFound` |
| `AnswersProofs!CountsAreConsistent` | `Spec => []CountsAgree` |
| `AnswersProofs!CommandsAreAsGiven` | `Spec => []CommandsAsGiven` |
| `AnswersProofs!AnswersAreTyped` | `Spec => []TypeOK` |
| `ConversationProofs!AnsweredWhereAsked` | `Spec => []AnswersWhereAsked` |
| `ConversationProofs!FreshThreadLogged` | `Spec => []FreshThread` |
| `ConversationProofs!PastOnly` | `Spec => []HistoryIsPast` |
| `ConversationProofs!PostsAreAccountedFor` | `Spec => []PostsAccountedFor` |
| `ConversationProofs!OneAnswerEach` | `Spec => []OneAnswer` |
| `ConversationProofs!LogAndRoomAgree` | `Spec => []LogMatchesRoom` |
| `ConversationProofs!LogIsUpToDate` | `Spec => []LogHasLatest` |
| `ConversationProofs!NobodyIgnored` | `Spec => []NoSilence` |
| `ConversationProofs!ThreadsAreFollowed` | `Spec => []FollowUpHeard` |
| `ConversationProofs!RoomIsTyped` | `Spec => []TypeOK` |

Each holds for every value of the constants that the named assumptions of its modules
allow, and they say little: that sets the code cannot have infinitely many of (rooms,
builds, responses) are finite, that limits are numbers and some are not zero, that
`None` is not a value of what may be missing. Ten are more than that. `HistoryAssumption`
has the window hold the minimum of the history and a step, as the constants in `handler.rs`
do (a smaller window would cut the history short). `MemoryAssumption` has both thresholds
of the summary positive. `ImportAssumption` has each fact of the imported file under a
number of its own, which is how the former version of the bot gave them. `NoticesAssumption`
has somebody to notify, and changelogs as `CHANGELOG.md` is kept: a version each once, and a
later build's has all of an earlier one's, what is new being in the version that was the newest
then or above it, and finitely many lines. `PrivateRoomsAssumption` has the rooms the bot makes be new ones.
`LogSearchAssumption` has what SQLite lowers to a term be lowered to it by `to_lowercase` as
well, which knows more letters. `StatsAssumption` has the days that are shown be a week at least,
as `DAILY_WINDOW_DAYS` is, and `CommandsAssumption` has a thread of the tables be in one room,
since it is named by an event of that room. `SkillsAssumption` has spellings that differ in ASCII's
capitals alone be the same to `to_lowercase`. The rest of it, and those of `Skills`, `Commands`, `Topics` and `Answers` say of
what kind the tables are that stand for files, texts, the results of a site and the log, and
are about bounds of the model.

*Queues.* `OneWorker` is not inductive: it needs that the inbox the map names for a
room, if alive, serves that room (`SenderServes`), and that a dead or unused inbox is empty
(in `TypeOK`). `Structure` is the three together; one lemma per action shows that it is
kept. The order of messages is not proved on the queues at all. `RoomOrder` says what order
means, over one sequence per room, and its invariant `IInv` (order, with the bound that no
more is over than arrived, since a `SubSeq` past the end is empty too) is proved there once.
`NextRefines` shows that with `Structure` each step of the queues is a step of `RoomOrder`
or leaves it unchanged: sending and spawning are `Arrive`, taking is `Begin`, a non-empty
burst is `Join`, an empty one a stutter, finishing is `Finish`, dying is `Drop` of a room,
and a restart `Drop` of all. `InOrder` follows by the refinement mapping. `DataFacts`
has what both need of sequences: how `SubSeq`, `\o`, `Append` and `Tail` go together.

*Calls.* A pause grows because `note_rate_limited` takes the later of two deadlines under
the lock; only a restart clears it. `FailureAlertsPaired` counts: the alerts that calls fail,
less those that they work again, are one if the tracker is in the alerted state, and one more
for each task that has left the lock and has yet to raise the recovery (`Recovering`). It is
inductive as it stands; the lemmas say how the size of that set changes. `SpendAlertsTell` is
inductive too (`Tells`), but needs the greatest share that one response crosses to exist,
which `DataFacts` has for sets of numbers below a bound, by well-founded descent, and that
a share passed by one sum is passed by every greater one.

`OverrunBounded` adds up what each task may still be charged for. The bound is met while the limit
is not reached, whatever the tasks are at (`AnyMaySpend`); from then on each step of a task
has what it owes fall by as much as it pays (`Pays`, one lemma per step), which needs that a
request to classify never comes with a summary (`OnlyRepliesSummarize`). The sum is a fold, and
what a fold computes takes induction. The theorems for that have an operator as parameter, but
of the subsets of a finite set for which something is wrong one is smallest (`SmallestSubset`
in `DataFacts`), and that gives what is needed of sums: that the recursion has a function, that
the order does not matter (`SumSplits`), and by how much a change of one changes it
(`SumChanges`).

*Starting again.* `SameDevice` needs what is true in the middle of a login (`DeviceInv`): a
device that is not in its file yet has not logged in, so that the crypto store is nobody's
unless an ID could not be read, and who is about to log in is the one in the file.
`PrivateStaysOff` needs that whoever is at one of the three attempts to join has recorded the
room (`RecordedFirst`), and that there is an answer for each invite; of a room the bot made,
that it is in the hands of a task which has yet to record it, or is recorded, or lapsed
(`RoomsMadeInv`). The import needs order (`ImportInv`): whatever opening came past is done,
except reaction logs without a room, and a process past opening came past everything. So
nothing is spent, remembered or forgotten while the total or the facts are still to be
imported, and the imported ones overwrite nothing. Numbers are kept apart by `lastNumber`,
which is above all that are in use or gone once the facts are imported; that it is after the
import is the maximum of a finite set, again from `DataFacts`.

The other four have an invariant each, of the state of a task or a table. `OneFailureForgiven` is
about an attempt that was given up, and needs what each attempt before it cost: `InviteInv`
counts the attempts of an invite against the faults (`Handled`), and has only the invite its
room waits for being answered, so that a recorded room is that of someone welcome. For
`AlertsReach`, an alert that `deliver` holds comes before those that wait and after those
somebody got, unless it is that one and the person had their turn (`QueueInv`, `GotInv`); and
each alert got to each person, was missed, waits, or is held on its way to them (`Reached`). It
is the place in the list that tells a person who had a turn from one who has one to come, so the
order of the list and who is in it twice are part of it. `NothingMissed` compares a build
with the first that was noticed, and its step with the one noticed last. `NoticeInv` has what is
seen be the newest version of a build that was noticed, and `NothingNewLeftOut` that
what `new_since` leaves out of a later build's changelog was in that build's: by
`GrowsTo`, if the version that was seen is still there, and if it is not, nothing is left out.
`TasksInv` is what all have in common: a task is with a person, and there is none unless the
process is up. `CountsInv` and `StoreInv` complete `TypeOK`; all of it is `IInv`.

*Replies.* Each render that fails on a dead connection holds one of `MaxRenders` slots, but it
gives it back and another takes it, so the bound on failures is not the bound on slots. The
invariant (`Counted`) is that the failures on a connection and the renders about to open a
context on it are together at most `MaxRenders`, and that while the connection is in the slot
of the browser, each failure is by a render that has yet to reset it. Once it is reset, nobody
new gets it. `DocsAsNewAsCanBe` needs only that a copy the program takes to be
good is not out of date (`DocsInv`). `TypeOK` has that a reply which is over reads nothing: of
the pages that is a part of the former (`Waited`), and the documentation is only asked for
while Claude is at it, and waited for (`AskInv`).

*Answers.* The positions of a reply are those of the log as it was when it was loaded, and
`StartOf` is what they would be if the whole log had been: the window splits where the log
does (`WindowSplits`), because it is longer than the minimum and a step. `StartOf` never
falls, and rises by whole steps. That the log does not grow between loading it and
logging the answer is `OneAtATime`: the worker is at a reply or at a command, never at both.
`MemoryInv` has, for each phase of a reply, what it has by then: positions in place
(`InPlace`), what the window covers (`FromWindow`), the summary it was given (`Noted`), and
that no summary reaches past the history (`NotPast`). Two of the theorems are
about the last prompt, of which it is kept when it is put together. The third,
`PrivateIsNotCounted`, is about each query of the status page by itself (`CollectsPublic`): to
leave private rooms out of tables without them changes nothing. A command keeps what was
counted for it until it is answered (`CountedInv`).

`CountsAreConsistent` is about several queries at once. They break the same rows down in
different ways, and `PartsAddUp` says that the parts of a finite set, by whatever key, are
together as many as the set. For rooms the parts are those of each column (`RoomsAddUp`; that
threads add up is because none is in two rooms), for days those of the window, which has the week
(`DaysAddUp`) and no more days up to today than it may (`DaysAreFew`; days to come are shown
as well, if a message says it is from one). Kinds, intents and people are ranked and cut off:
there is an order to rank them by (`RankingExists`), and the ranking has each once
(`RankedLists`), so that it adds up if nothing was cut (`RankedAddsUp`). What the second count
has that the first has not is of other rooms, so that the room itself is the same in both
(`CountsOfAgree`).

The others are about what is computed at a step and kept while it is in use: the skill that
was found and its arguments (`CommandInv`, `Checked`), the rows that were read (`LogInv`), and
the pages of a reply (`Nearest`). Most of the proof is about the operators, which fold over sequences. The lemmas say of a fold what
there is after each element: `FirstPass` and `SecondPass` what two passes over the skills have
in the tables, in any order, so that a name that is claimed twice is met by either pass
(`PassesCollide`); `ListsFlattened`, `OnceMore` and `DistinctIs` which of the pages come before
which when they are flattened and each is kept once. A page is as far as the first list that
has it, and what is listed is listed by distance (`KnownIsFar`), so that what `MAX_PAGES` cuts
off is not nearer than what is left (`GatheredIsNearest`). Of the matches of a query those are
kept that fewer than the limit come before (`KeptAreBest`); that there is an order to put them
in needs `Before` to be linear (`SearchOrders`, and `OrderExists` in `DataFacts`). The film that
is picked is the first of those with the most reviews (`ChosenIs`), and which are compared goes by
title and year, then by the title alone (`PickedIsMeant`). Arguments that are cut from a text make up the text again (`CutText`).

*Conversation.* Where an answer goes is decided before the burst is taken, from what could be
fetched then, and what the log says of it is written one row at a time, with edits, faults and
other people in between. `Inv` is in four parts. `RoomInv`: messages point back, an edit is of
a message that is none, and a post shows what a person said. `QueueInv`: the rest of a burst
follows its first message (`Follows`), so that it was said in the same place. `JobInv`: once an
answer is posted, it is at `Root`, and that is where each message of the burst was asked, an
edit's answer being where the message was (`RootIsAsked`). `BookInv`: each row's answer is where
its message was asked (`Asked`), and the row says so unless an edit was answered since.
`FreshThread` alone is not inductive: an edit whose answer could not be sent may put a thread
into a row that had none while the old answer stays, and it takes `Asked` to know that this is
the thread the old answer is in, unless a fetch failed. What was said stays as it was
(`Kept`), and from that `KeptAre`, `RowStays` and `DeskStays` have what each step leaves
alone; there is one lemma for each action.

The other eight need to know which messages the log has, and whose answer each row's is. They
share one invariant, `IInv`: `Inv` and six parts more.

- `LineInv`: messages are queued in the order in which they were said, and what is taken and
  waiting is what arrived and is not over. The latter is the invariant of `RoomOrder`, which
  `Conversation` instantiates: each step is a step of it (`QueueSteps`).
- `DeskInv`: until the burst is taken one message is held, and it is of the kind that was
  decided. `AnswerInv`: an answer that was posted shows what is answered, and is either the
  former answer edited or a new one, at `Root`; where a former one was to be edited and there is
  none in hand, a send failed.
- `Records` has the log in four parts. `LogInv`: one row for each message that is over or
  written, in their order, and no answer on two rows. `RowGood`: what a row says of its answer,
  its answer shows (`ShownIn`), and its text is that of the latest version (`LatestIn`).
  `PostInv`: each post is on a row, or about to be, or has a successor, or a fault explains why
  not (`Accounted`), and a row of a message it answers has its thread (`PairInv`). The fourth
  is `OneAnswer`.
- `HeardInv`: who spoke to the bot was answered, if what they said is over or its answer is out.
- `UpInv`: a bot that is down holds nothing.

None of the properties is inductive by itself. `HistoryIsPast` speaks of a message that is being
decided; that the row written last is above all others comes from the order of the queue.
`OneAnswer` depends on an edit finding the post to replace, which is on a row only if the
row was written, and on that row belonging to the message that was edited (`PostInv`).
`LogMatchesRoom` excepts the answer under way, and that the exception ends with the last row is
`AnswerInv`. `LogHasLatest` is about edits that are over, and the row is written from what the
message is then, so it needs that no edit of a message is over before the message is: an edit
comes after what it edits, and the queue keeps that order. `FollowUpHeard` needs that the
row of a message a post answers says in which thread, also if its answer is another by now.

The proof follows the steps of the code. Taking, dropping and deciding leave the log alone
(`CalmKeeps`), as long as what is held stays the same (`DeskSame`); a message that is over
without an answer settles (`DropSettles`). Posting, editing and reacting are in `AnswerRecords`.
Each line is `LineWritten` or `LineUnwritten` (`NextLine` says which message it is about),
an edit's row is changed or not (`RecordedKeeps`), and what the last line ends with is
`FinishSettles`.

*Only model-checked.* Liveness (`EverySettled`, `CallsEnd`, `RepliesEnd`), which needs
fairness and is out of the prover's reach. Every other property of a passing run is a theorem.

## What is left out

- Rendering and wording: prompts, Markdown, sender names, quoted errors, the text of a page,
  the drawing of cards and sheets (`cast_sheet.rs`, `photo_sheet.rs`, `pp.rs`), the pages and
  static files of the status server. They are functions from input to output, without state.
- `config.rs` (the environment is read once, and its values are the constants here) and
  `browser_proxy.rs` (which addresses a page may reach; network I/O without state).
- Typing indicators, the reactions of people (each one statement, read only to be shown),
  illustrations posted beside a reply (only the post with the reply's ID is an event of the
  timeline), the clocks of the two cooldowns, usage totals by label (added alongside the
  overall ones; no decision reads them), and what `!stats` says of Claude's usage.
- Reads of the log and of the private rooms are assumed to work in `Conversation`, except for
  the lookup of an edited message; writes may fail. `Answers` has reads that fail.
- The order in which the homeserver delivers events is the order of the timeline, and a
  handler gets to the queue before the next message is sent; `RoomQueues` is where the
  concurrency of handlers is.
- Whether a page was rendered or fetched plainly, and what is on it.

## Plan

1. `Conversation` with the replies of `Answers` in place of its nondeterministic ones is too
   large for TLC; the two meet in what `Answer` may post.
