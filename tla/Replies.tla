-------------------------------- MODULE Replies --------------------------------
(****************************************************************************)
(* What replies read on the way: the pages their messages link, all at once  *)
(* (LinkFetcher::fetch_all of src/links.rs), and then what Claude asks for,  *)
(* one by one, through the tools of ChatTools (src/bot_docs.rs). The rooms   *)
(* reply side by side, and share the browser and the documentation.          *)
(* Composes Pages and BotDocs.                                               *)
(****************************************************************************)
EXTENDS Pages, BotDocs

CONSTANTS
  Rooms,
  MaxLinks,      \* MAX_LINKS_PER_MESSAGE
  MaxPageReads,  \* MAX_PAGE_READS
  MaxReplies,    \* bound: how many replies are made
  MaxAsks        \* bound: how often a reply asks for the documentation

ASSUME RepliesAssumption ==
  /\ Readers = Rooms \X (1..MaxLinks) /\ Askers = Rooms
  /\ {MaxPageReads, MaxReplies, MaxAsks} \subseteq Nat /\ MaxLinks \in Nat \ {0}

VARIABLES
  reply,   \* of each room, whether it is made, [phase, pages, docs]: how many
           \*   of its tool calls were for pages and for the documentation
  replies  \* history: how many were made

vars == <<pagesVars, docsVars, reply, replies>>

NoReply == [phase |-> "idle", pages |-> 0, docs |-> 0]

Init ==
  /\ PagesInit /\ DocsInit
  /\ reply = [r \in Rooms |-> NoReply] /\ replies = 0

InPhase(r, p) == reply[r].phase = p
Tasks(r) == {t \in Readers : t[1] = r}

LinksRead(r) == \A t \in Tasks(r) : Does(t, "idle")
CallDone(r) == Does(<<r, 1>>, "idle") /\ Asks(r, "idle")

(* The links of a message that is to be answered, or of one it is about, are *)
(* fetched by a task each.                                                   *)
BeginReply(r) ==
  /\ InPhase(r, "idle") /\ replies < MaxReplies
  /\ reply' = [reply EXCEPT ![r].phase = "gathering"]
  /\ replies' = replies + 1
  /\ \E n \in 0..MaxLinks : ReadAll({t \in Tasks(r) : t[2] <= n})
  /\ UNCHANGED docsVars

(* Mutant: only the first of them is waited for. *)
FirstGathered(r) ==
  /\ InPhase(r, "gathering") /\ Does(<<r, 1>>, "idle")
  /\ reply' = [reply EXCEPT ![r].phase = "completing"]
  /\ UNCHANGED <<pagesVars, docsVars, replies>>

(* All of them are waited for. *)
Gathered(r) ==
  /\ InPhase(r, "gathering") /\ LinksRead(r)
  /\ reply' = [reply EXCEPT ![r].phase = "completing"]
  /\ UNCHANGED <<pagesVars, docsVars, replies>>

(* read_page, which is refused when the reply has read enough. *)
ReadPage(r) ==
  /\ InPhase(r, "completing") /\ CallDone(r) /\ reply[r].pages < MaxPageReads
  /\ reply' = [reply EXCEPT ![r].pages = @ + 1]
  /\ ReadAll({<<r, 1>>})
  /\ UNCHANGED <<docsVars, replies>>

(* read_bot_docs *)
ReadDocs(r) ==
  /\ InPhase(r, "completing") /\ CallDone(r) /\ reply[r].docs < MaxAsks
  /\ reply' = [reply EXCEPT ![r].docs = @ + 1]
  /\ Ask(r)
  /\ UNCHANGED <<pagesVars, replies>>

(* Claude has answered. *)
EndReply(r) ==
  /\ InPhase(r, "completing") /\ CallDone(r)
  /\ reply' = [reply EXCEPT ![r] = NoReply]
  /\ UNCHANGED <<pagesVars, docsVars, replies>>

GoOn(t) == ReadOn(t) /\ UNCHANGED <<docsVars, reply, replies>>
AskAround(r) == AskOn(r) /\ UNCHANGED <<pagesVars, reply, replies>>

World ==
  /\ \/ RestartBrowser /\ UNCHANGED docsVars
     \/ Expire /\ UNCHANGED pagesVars
  /\ UNCHANGED <<reply, replies>>

Next ==
  \/ \E r \in Rooms : BeginReply(r) \/ Gathered(r) \/ ReadPage(r) \/ ReadDocs(r) \/ EndReply(r) \/ AskAround(r)
  \/ \E t \in Readers : GoOn(t)
  \/ World

Spec == Init /\ [][Next]_vars

(* Whatever a task waits for has a timeout, or is held by a task that goes   *)
(* on, and tokio's mutexes and semaphore serve whoever waits in turn; there  *)
(* are only so many others, so that weak fairness does here. Claude answers, *)
(* and may only ask for so much.                                             *)
FairSpec ==
  /\ Spec
  /\ \A t \in Readers : WF_vars(GoOn(t))
  /\ \A r \in Rooms : WF_vars(AskAround(r)) /\ WF_vars(Gathered(r) \/ EndReply(r))

TypeOK ==
  /\ PagesOK /\ DocsOK
  /\ \A r \in Rooms : reply[r].phase \in {"idle", "gathering", "completing"}
  /\ \A r \in Rooms : InPhase(r, "idle") => LinksRead(r) /\ CallDone(r)

(* Every reply is finished, however the pages and the documents it reads     *)
(* fare, and whatever the others read meanwhile (src/src/browser.rs:32,      *)
(* src/src/bot_docs.rs:20-22).                                               *)
RepliesEnd == \A r \in Rooms : ~InPhase(r, "idle") ~> InPhase(r, "idle")
================================================================================
