--------------------------------- MODULE Pages ---------------------------------
(****************************************************************************)
(* Reading pages: try_fetch of src/links.rs, for the previews of what people *)
(* link, and for the page a reply asks for; and the one connection to the    *)
(* headless browser they share, PageBrowser of src/browser.rs. The browser   *)
(* may restart at any time, and does not say so.                             *)
(****************************************************************************)
EXTENDS Naturals, FiniteSets

CONSTANTS
  Readers,     \* the tasks that may read a page
  MaxRenders,  \* MAX_CONCURRENT_RENDERS
  MaxReads,    \* bound: how many pages are read
  MaxRestarts  \* bound: how often the browser restarts

ASSUME PagesAssumption ==
  /\ IsFiniteSet(Readers)
  /\ MaxRenders \in Nat \ {0} /\ {MaxReads, MaxRestarts} \subseteq Nat

VARIABLES
  reader,   \* what each task does, and its connection: [at, conn]
  browser,  \* PageBrowser.browser: a connection, or 0 for None
  opened,   \* how many connections were opened; they are 1..opened
  alive,    \* the first of those the browser still knows
  failed,   \* history: for each connection, how many could not use it
  reads,    \* history: how many pages were read
  restarts  \* history: how often the browser restarted

pagesVars == <<reader, browser, opened, alive, failed, reads, restarts>>
connection == <<browser, opened, alive, failed>>
counts == <<reads, restarts>>

(* slot: waiting for one of the slots. From locking to disposing it has one. *)
Holding == {"locking", "connecting", "opening", "resetting", "rendering", "disposing"}
Steps == {"idle", "fetching", "slot"} \union Holding

Resting == [at |-> "idle", conn |-> 0]
PagesInit ==
  /\ reader = [t \in Readers |-> Resting]
  /\ browser = 0 /\ opened = 0 /\ alive = 1
  /\ failed = [c \in 1..(MaxReads + 1) |-> 0]
  /\ reads = 0 /\ restarts = 0

Does(t, step) == reader[t].at = step
Moves(t, step) == reader' = [reader EXCEPT ![t].at = step]
Rests(t) == reader' = [reader EXCEPT ![t] = Resting]

(* The mutex is held only by whoever connects. *)
Unlocked == \A t \in Readers : ~Does(t, "connecting")

HasSlot(t) == reader[t].at \in Holding

(* Each of the tasks starts to read a page. *)
ReadAll(tasks) ==
  /\ reads + Cardinality(tasks) <= MaxReads
  /\ reads' = reads + Cardinality(tasks)
  /\ reader' = [t \in Readers |-> IF t \in tasks THEN [Resting EXCEPT !.at = "fetching"] ELSE reader[t]]
  /\ UNCHANGED <<connection, restarts>>

(* The plain fetch, which has a timeout: a page is left to the browser, and  *)
(* so is one that was refused; images, files and plain http are done.        *)
FetchPlain(t) ==
  /\ Does(t, "fetching")
  /\ Rests(t) \/ Moves(t, "slot")
  /\ UNCHANGED <<connection, counts>>

TakeSlot(t) ==
  /\ Does(t, "slot") /\ Cardinality({u \in Readers : HasSlot(u)}) < MaxRenders
  /\ Moves(t, "locking")
  /\ UNCHANGED <<connection, counts>>

(* connected: the connection there is, or a new one, for which the mutex     *)
(* is held.                                                                  *)
LockBrowser(t) ==
  /\ Does(t, "locking") /\ Unlocked
  /\ IF browser # 0
     THEN reader' = [reader EXCEPT ![t].at = "opening", ![t].conn = browser] 
     ELSE Moves(t, "connecting")
  /\ UNCHANGED <<browser, opened, alive, failed, counts>>

Connect(t) ==
  /\ Does(t, "connecting")
  /\ \/ /\ opened' = opened + 1 /\ browser' = opened + 1
        /\ reader' = [reader EXCEPT ![t].at = "opening", ![t].conn = opened + 1]
     \/ Rests(t) /\ UNCHANGED <<browser, opened>>
  /\ UNCHANGED <<alive, failed, counts>>

Works(t) == reader[t].conn >= alive

(* Mutant: a connection that does not work is used by the next one too. *)
OpenOrGiveUp(t) ==
  /\ Does(t, "opening")
  /\ IF Works(t) THEN Moves(t, "rendering") /\ UNCHANGED failed
     ELSE Rests(t) /\ failed' = [failed EXCEPT ![reader[t].conn] = @ + 1]
  /\ UNCHANGED <<browser, opened, alive, counts>>

(* create_browser_context. *)
OpenContext(t) ==
  /\ Does(t, "opening")
  /\ IF Works(t) THEN Moves(t, "rendering") /\ UNCHANGED failed
     ELSE Moves(t, "resetting") /\ failed' = [failed EXCEPT ![reader[t].conn] = @ + 1]
  /\ UNCHANGED <<browser, opened, alive, counts>>

(* Whatever connection is there by now is not used again. *)
ResetBrowser(t) ==
  /\ Does(t, "resetting") /\ Unlocked
  /\ browser' = 0
  /\ Rests(t)
  /\ UNCHANGED <<opened, alive, failed, counts>>

(* Rendering works, fails, or is ended by RENDER_TIMEOUT. *)
Render(t) ==
  /\ Does(t, "rendering") /\ Moves(t, "disposing")
  /\ UNCHANGED <<connection, counts>>

(* Mutant: the slot is not given back. *)
KeepSlot(t) ==
  /\ Does(t, "disposing") /\ Moves(t, "disposing")
  /\ UNCHANGED <<connection, counts>>

Dispose(t) ==
  /\ Does(t, "disposing") /\ Rests(t)
  /\ UNCHANGED <<connection, counts>>

RestartBrowser ==
  /\ restarts < MaxRestarts /\ alive <= opened
  /\ alive' = opened + 1 /\ restarts' = restarts + 1
  /\ UNCHANGED <<reader, browser, opened, failed, reads>>

ReadOn(t) ==
  \/ FetchPlain(t) \/ TakeSlot(t) \/ LockBrowser(t) \/ Connect(t)
  \/ OpenContext(t) \/ ResetBrowser(t) \/ Render(t) \/ Dispose(t)

PagesOK ==
  /\ \A t \in Readers : reader[t].at \in Steps /\ reader[t].conn \in 0..opened
  /\ browser \in 0..opened
  /\ Cardinality({t \in Readers : Does(t, "connecting")}) <= 1
  /\ Cardinality({t \in Readers : HasSlot(t)}) <= MaxRenders

(* When the browser restarts, the connection to it costs no more pages than  *)
(* can be rendered at once: then it is replaced, also if those that fail     *)
(* drop a newer one between them (src/src/browser.rs:83-87).                 *)
DeadConnectionCosts == \A c \in DOMAIN failed : failed[c] <= MaxRenders
================================================================================
