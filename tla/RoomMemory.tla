------------------------------ MODULE RoomMemory ------------------------------
(****************************************************************************)
(* What a room's reply is grounded in, generate_grounded_reply of            *)
(* src/handler.rs: the newest messages of the log, the thread, and for what  *)
(* is older the room's summary, summary_of of src/room_memory.rs. The room's *)
(* worker handles one message at a time, and logs it after the reply.        *)
(****************************************************************************)
EXTENDS HistorySplit, FiniteSets

CONSTANTS
  MinOlder,      \* MIN_MESSAGES_TO_SUMMARIZE
  RefreshAfter,  \* REFRESH_AFTER_MESSAGES
  MaxTotal,      \* bound: the log grows no longer
  MaxFaults      \* bound: how often something fails

ASSUME MemoryAssumption ==
  {MinOlder, RefreshAfter} \subseteq Nat \ {0} /\ {MaxTotal, MaxFaults} \subseteq Nat

VARIABLES
  total,    \* how many messages the log has; they are 1..total
  summary,  \* the row of room_summaries: [from, through], of the messages it
            \*   was made from, or None
  reply,    \* the reply that is being generated
  prompt,   \* history: the last one that was put together, or Nothing
  faults    \* history: how often something failed

memoryVars == <<total, summary, reply, prompt, faults>>

None == [from |-> 0, through |-> 0]

Kinds == {"chat", "greeting", "interjection"}
Phases == {"idle", "gathering", "loading", "noting", "summarizing", "completing"}

(* before: how many messages precede those that were loaded. clean: history, *)
(* whether nothing failed for it.                                            *)
NoReply == [phase |-> "idle", kind |-> "chat", before |-> 0, start |-> 0, stable |-> 0,
            thread |-> {}, notes |-> None, clean |-> TRUE]
Nothing == [total |-> 0, before |-> 0, start |-> 0, stable |-> 0, lost |-> {},
            notes |-> None, noted |-> FALSE, clean |-> TRUE]

MemoryInit ==
  /\ total = 0 /\ summary = None /\ faults = 0
  /\ reply = NoReply /\ prompt = Nothing

Fault == faults < MaxFaults /\ faults' = faults + 1

InPhase(p) == reply.phase = p
Goes(p) == reply' = [reply EXCEPT !.phase = p]

(* A message the bot does not answer. *)
LogQuietly ==
  /\ InPhase("idle") /\ total < MaxTotal
  /\ total' = total + 1
  /\ UNCHANGED <<summary, reply, prompt, faults>>

(* One it does, and what the thread it is in has of the log.                 *)
BeginReply ==
  /\ InPhase("idle") /\ total < MaxTotal
  /\ \E kind \in Kinds, thread \in {{}} \union {{n} : n \in {1, total} \ {0}} :
       reply' = [NoReply EXCEPT !.phase = "gathering", !.kind = kind, !.thread = thread]
  /\ UNCHANGED <<total, summary, prompt, faults>>

(* The message that was answered is logged, and what came right after it.    *)
LogAnswered == \E burst \in 1..2 : total' = Lesser(total + burst, MaxTotal)

(* Over the cost limit or in a pause there is a notice, and no prompt.       *)
HoldReply ==
  /\ InPhase("loading")
  /\ reply' = NoReply /\ LogAnswered
  /\ UNCHANGED <<summary, prompt, faults>>

(* recent and count. Without the log there is no history, and without the    *)
(* count what was loaded counts as all there is.                             *)
LoadLog ==
  /\ InPhase("loading")
  /\ \E loaded \in {Lesser(total, Window), 0}, counts \in BOOLEAN :
       LET count == IF counts THEN total ELSE loaded
           before == total - loaded
           clean == loaded = Lesser(total, Window) /\ counts
       IN /\ reply' = [reply EXCEPT !.before = before, !.clean = clean,
                         !.phase = IF reply.kind = "greeting" THEN "completing" ELSE "noting",
                         !.start = before + Start(count, loaded),
                         !.stable = before + StableEnd(count, loaded)]
          /\ IF clean THEN UNCHANGED faults ELSE Fault
  /\ UNCHANGED <<total, summary, prompt>>

Older == (reply.before + 1)..reply.start

(* The messages that aged into older since the summary: those after the last *)
(* it covers, and all of them if that one is not there.                      *)
Unseen ==
  IF summary.through \in Older THEN reply.start - summary.through ELSE Cardinality(Older)

NeedsRefresh ==
  IF summary # None THEN Unseen >= RefreshAfter ELSE Cardinality(Older) >= MinOlder

(* summary_of: the summary there is, or a new one. *)
UseSummary ==
  /\ InPhase("noting")
  /\ IF Older # {} /\ NeedsRefresh THEN Goes("summarizing")
     ELSE reply' = [reply EXCEPT !.phase = "completing", !.notes = summary]
  /\ UNCHANGED <<total, summary, prompt, faults>>

(* Mutant: the summary counts as one of all that was loaded. *)
SummarizedThrough == total

Through == reply.start

Refreshed == [from |-> reply.before + 1, through |-> Through]

(* Claude summarizes older, which is used even if it cannot be saved, or the *)
(* call fails and the summary there was is used.                             *)
RefreshSummary ==
  /\ InPhase("summarizing")
  /\ \/ /\ reply' = [reply EXCEPT !.phase = "completing", !.notes = Refreshed]
        /\ \/ summary' = Refreshed /\ UNCHANGED faults
           \/ Fault /\ UNCHANGED summary
     \/ /\ reply' = [reply EXCEPT !.phase = "completing", !.notes = summary, !.clean = FALSE]
        /\ Fault /\ UNCHANGED summary
  /\ UNCHANGED <<total, prompt>>

(* What of the log is in the prompt word for word: the history that stays,   *)
(* which a cache may hold, and what is newer, where the thread has a place   *)
(* of its own.                                                               *)
Settled == (reply.start + 1)..reply.stable
Recent == (reply.stable + 1)..total \ reply.thread

(* chat_turn_parts: all there is of the log from where the history starts.   *)
Shown == Settled \union Recent \union reply.thread

(* The reply is made, or is none, and its messages are logged. *)
EndReply ==
  /\ InPhase("completing")
  /\ prompt' = [total |-> total, before |-> reply.before, start |-> reply.start,
                stable |-> reply.stable,
                lost |-> (reply.start + 1..total) \ Shown,
                notes |-> reply.notes, noted |-> reply.kind # "greeting", clean |-> reply.clean]
  /\ reply' = NoReply /\ LogAnswered
  /\ UNCHANGED <<summary, faults>>

MemoryOK ==
  /\ total \in 0..MaxTotal /\ faults \in 0..MaxFaults
  /\ reply.phase \in Phases /\ reply.kind \in Kinds
  /\ reply.before <= reply.start /\ reply.start <= reply.stable /\ reply.stable <= total
  /\ summary = None \/ summary.from \in 1..summary.through

(* Nothing of the log that was loaded falls between the summary and the      *)
(* history, and nothing is in both: from where the history starts every      *)
(* message is shown, and before it all but the few that are not worth a new  *)
(* summary are covered by the one in the prompt                              *)
(* (src/src/handler.rs:1367-1379, src/src/room_memory.rs:216-224).           *)
NothingFallsBetween ==
  LET after == (prompt.start + 1)..prompt.total
      older == (prompt.before + 1)..prompt.start
      covered == prompt.notes.from..prompt.notes.through
  IN prompt.clean =>
       /\ prompt.lost = {}
       /\ prompt.noted =>
            IF prompt.notes = None THEN Cardinality(older) < MinOlder
            ELSE Cardinality(older \ covered) < RefreshAfter \/ older = {}
       /\ faults = 0 => covered \intersect after \subseteq {0}

(* The history of a reply is the beginning of that of the next, so that the  *)
(* cache holds it, unless it moved on by a whole step; and it is as long as  *)
(* it is said to be (src/src/handler.rs:1142-1150).                          *)
StableHistory ==
  [][prompt' # prompt /\ prompt.clean /\ prompt'.clean =>
       /\ \/ prompt'.start = prompt.start /\ prompt'.stable >= prompt.stable
          \/ prompt'.start >= prompt.start + HistoryStep
       /\ prompt'.total - prompt'.start \in
            Lesser(HistoryMin, prompt'.total)..(HistoryMin + HistoryStep - 1)]_memoryVars
===============================================================================
