----------------------------- MODULE HistorySplit -----------------------------
(****************************************************************************)
(* Where a room's log divides for a reply, history_split of src/handler.rs:  *)
(* what is left to the summary, the history that stays put between replies   *)
(* so that it can be read from the prompt cache, and what is new.            *)
(****************************************************************************)
EXTENDS Naturals

CONSTANTS
  HistoryMin,   \* CHAT_HISTORY_MIN
  HistoryStep,  \* CHAT_HISTORY_STEP
  Window        \* CHAT_LOG_WINDOW

ASSUME HistoryAssumption ==
  /\ HistoryMin \in Nat /\ HistoryStep \in Nat \ {0}
  /\ Window \in Nat /\ Window >= HistoryMin + HistoryStep

Less(a, b) == IF a > b THEN a - b ELSE 0   \* saturating_sub
Lesser(a, b) == IF a < b THEN a ELSE b

StepDown(position) == (position \div HistoryStep) * HistoryStep

(* Mutant: a window that slides with every message. *)
SlidingStart(total, loaded) == Lesser(Less(Less(total, HistoryMin), Less(total, loaded)), loaded)

(* The two positions, in the loaded newest of total messages. *)
Start(total, loaded) ==
  Lesser(Less(StepDown(Less(total, HistoryMin)), Less(total, loaded)), loaded)

StableEnd(total, loaded) == Lesser(Less(StepDown(total), Less(total, loaded)), loaded)
===============================================================================
