-------------------------------- MODULE Answers -------------------------------
(****************************************************************************)
(* One room of the bot and its worker, which takes one message at a time:    *)
(* one that is only logged, one that is a command, Commands, and one that    *)
(* gets a reply of Claude's, RoomMemory, about what Topics gathers. All of   *)
(* them are written to the log they read.                                    *)
(* To bound the states, commands are given only while the log is shorter     *)
(* than MaxSearched and what it says is known: that is forgotten if no skill *)
(* reads it, if it is none of Entries, and when a reply is begun.            *)
(****************************************************************************)
EXTENDS RoomMemory, Commands, Topics

CONSTANTS
  MaxSearched,  \* bound: the log is shorter when a command is given
  Entries,      \* what messages say: sets of words
  Matters,      \* what messages may be about, as Topics has it
  Outages,      \* what may be out of reach then: sets of links
  MaxGathered   \* bound: the log is shorter when that is looked at

ASSUME AnswersAssumption ==
  /\ MaxSearched \in 0..MaxTotal
  /\ UNION Entries \subseteq DOMAIN LowerWord
  /\ Matters \subseteq Contexts

VARIABLE topic  \* what the reply is given besides the log, and of what

vars == <<memoryVars, commandVars, topic>>

NoTopic == [of |-> Alone, down |-> {}, given |-> Gathered(Alone, {}, TRUE, TRUE, {})]

Init == MemoryInit /\ CommandsInit /\ topic = NoTopic

(* The worker is at none of its messages. *)
Free == Ready /\ InPhase("idle") /\ CommandIn("none")

Known == Len(log) = total
Read == \E file \in installed : file.tools \intersect {"message_log", "message_search"} # {}

(* handle_message logs in the order of the room, with the times of servers   *)
(* whose clocks differ.                                                      *)
Logs(words, search, ts) ==
  log' = IF Known /\ Read /\ total' < MaxSearched /\ words \in Entries
         THEN Append(log, [words |-> words, search |-> search, ts |-> ts]) ELSE <<>>

MessageLogged ==
  /\ Free /\ LogQuietly
  /\ \E words \in Entries, late \in {0, 2} :
       Logs(words, FALSE, IF late < total THEN total' - late ELSE total')
  /\ UNCHANGED <<installed, registry, command, topic>>

ReplyBegins ==
  /\ Free /\ BeginReply
  /\ log' = <<>>
  /\ UNCHANGED <<installed, registry, command, topic>>

(* Only conversation is given pictures and pages; to bound the states, they  *)
(* are left out where the log is long or a skill reads it.                   *)
ReplyGathered ==
  /\ InPhase("gathering") /\ Goes("loading")
  /\ \/ /\ reply.kind = "chat" /\ total < MaxGathered /\ ~Read
        /\ \E m \in Matters, down \in Outages, lost \in SUBSET PictureLinks,
              event, works \in BOOLEAN :
             /\ Len(m.thread) = Cardinality(reply.thread) /\ Len(m.recent) <= total
             /\ topic' = [of |-> m, down |-> down, given |-> Gathered(m, down, event, works, lost)]
     \/ /\ reply.kind # "chat" \/ total >= MaxGathered \/ Read
        /\ UNCHANGED topic
  /\ UNCHANGED <<total, summary, prompt, faults, commandVars>>

(* What was gathered is only looked at until the log is.                     *)
ReplyGrounded ==
  /\ LoadLog \/ UseSummary \/ RefreshSummary
  /\ topic' = NoTopic
  /\ UNCHANGED commandVars

ReplyEnds ==
  /\ HoldReply \/ EndReply
  /\ topic' = NoTopic
  /\ UNCHANGED commandVars

Started == LoadSkills /\ UNCHANGED <<memoryVars, topic>>

CommandBegins ==
  /\ Free /\ Known /\ total < MaxSearched
  /\ GiveCommand /\ UNCHANGED <<memoryVars, topic>>

CommandGoesOn ==
  (CheckCommand \/ ReadRoom \/ LookUp \/ Complete) /\ UNCHANGED <<memoryVars, topic>>

CommandEnds ==
  /\ AnswerCommand
  /\ total' = total + 1 /\ Logs(CommandWords, command.name = "search", total')
  /\ UNCHANGED <<summary, reply, prompt, faults, topic>>

Next ==
  \/ Started
  \/ MessageLogged
  \/ ReplyBegins \/ ReplyGathered \/ ReplyGrounded \/ ReplyEnds
  \/ CommandBegins \/ CommandGoesOn \/ CommandEnds

Spec == Init /\ [][Next]_vars

TypeOK ==
  /\ MemoryOK /\ CommandsOK
  /\ Known \/ log = <<>>
  /\ ~InPhase("loading") => topic = NoTopic

(* A reply is made from the best that there is: the messages that match a    *)
(* search best (src/src/message_log.rs:512-515), the film that was meant     *)
(* (src/src/rotten_tomatoes.rs:113-115, 142-143), and the pages that were    *)
(* linked nearest (src/src/handler.rs:371-374).                              *)
BestFound ==
  /\ CommandIn("looking") /\ Uses("message_search") /\ "failed" \notin command.told => BestMessages
  /\ CommandIn("completing") /\ command.film # <<>> => FilmMeant
  /\ NearestMeant(topic.of, topic.down, topic.given)
===============================================================================
