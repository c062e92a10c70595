-------------------------------- MODULE BotDocs --------------------------------
(****************************************************************************)
(* The bot's own documentation, as replies read it: BotDocs of               *)
(* src/bot_docs.rs, with a copy that is good for CACHE_TTL. Its mutex is     *)
(* held while a file is fetched, so whoever reads meanwhile waits.           *)
(****************************************************************************)
EXTENDS Naturals

CONSTANT Askers  \* the tasks that may read it

VARIABLES
  copy,    \* what the cache holds: "none", "good" or "expired", by its Instant
  asker,   \* what each task does: "idle", "waiting", or "fetching" with the mutex
  stale,   \* history: whether the copy was fetched longer than CACHE_TTL ago
  answer   \* history: the last answer, [got, failed]: "error", "stale" or
           \*   "new", and whether fetching it had failed just then

docsVars == <<copy, asker, stale, answer>>

DocsInit ==
  /\ copy = "none" /\ stale = FALSE
  /\ asker = [t \in Askers |-> "idle"]
  /\ answer = [got |-> "new", failed |-> FALSE]

Asks(t, step) == asker[t] = step
AskerGoes(t, step) == asker' = [asker EXCEPT ![t] = step]

Answer(what, fails) == answer' = [got |-> what, failed |-> fails]
FromCopy == IF copy = "none" THEN "error" ELSE IF stale THEN "stale" ELSE "new"

Ask(t) ==
  /\ Asks(t, "idle") /\ AskerGoes(t, "waiting")
  /\ UNCHANGED <<copy, stale, answer>>

(* The copy, while it is good. *)
LockDocs(t) ==
  /\ Asks(t, "waiting") /\ \A u \in Askers : ~Asks(u, "fetching")
  /\ IF copy = "good" THEN AskerGoes(t, "idle") /\ Answer(FromCopy, FALSE)
     ELSE AskerGoes(t, "fetching") /\ UNCHANGED answer
  /\ UNCHANGED <<copy, stale>>

(* Mutant: a fetch that fails keeps the copy for as long as one that works. *)
FetchAndStamp(t) ==
  /\ Asks(t, "fetching") /\ AskerGoes(t, "idle")
  /\ \/ copy' = "good" /\ stale' = FALSE /\ Answer("new", FALSE)
     \/ copy' = (IF copy = "none" THEN copy ELSE "good") /\ Answer(FromCopy, TRUE) /\ UNCHANGED stale

(* The fetch works, or fails, by its timeout at the latest: then a copy that *)
(* expired does, and there is an error without one.                          *)
FetchDocs(t) ==
  /\ Asks(t, "fetching") /\ AskerGoes(t, "idle")
  /\ \/ copy' = "good" /\ stale' = FALSE /\ Answer("new", FALSE)
     \/ Answer(FromCopy, TRUE) /\ UNCHANGED <<copy, stale>>

(* CACHE_TTL has passed. *)
Expire ==
  /\ copy = "good" /\ ~stale
  /\ copy' = "expired" /\ stale' = TRUE
  /\ UNCHANGED <<asker, answer>>

AskOn(t) == LockDocs(t) \/ FetchDocs(t)

DocsOK ==
  /\ copy \in {"none", "good", "expired"} /\ (copy = "good" => ~stale)
  /\ \A t \in Askers : asker[t] \in {"idle", "waiting", "fetching"}

(* Whoever asks for the documentation gets one that is out of date, or an    *)
(* error, only if fetching it failed just then, for them and not for the     *)
(* task they waited for (src/src/bot_docs.rs:24-26, 78-79).                  *)
DocsAsNewAsCanBe == answer.got # "new" => answer.failed
================================================================================
