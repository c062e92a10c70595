--------------------------------- MODULE Facts ---------------------------------
(****************************************************************************)
(* What people asked the bot to keep, src/room_memory.rs: facts of a room,   *)
(* under numbers that go through all rooms and never come back. The numbers  *)
(* are SQLite's AUTOINCREMENT, whose last one is in sqlite_sequence.         *)
(****************************************************************************)
EXTENDS Naturals, FiniteSets, FiniteSetsExt

CONSTANTS
  FactRooms,  \* the rooms people tell the bot things in
  MaxFacts    \* MAX_FACTS_PER_ROOM

ASSUME FactsAssumption == MaxFacts \in Nat \ {0}

VARIABLES
  facts,       \* the table: records [id, room]
  lastNumber,  \* the sequence of the facts table
  forgotten    \* history: the numbers of facts that are gone

factsVars == <<facts, lastNumber, forgotten>>

FactsIn(room) == {f \in facts : f.room = room}

(* Mutant: a number is the next after those in use, as without AUTOINCREMENT. *)
RememberWithoutSequence(room) ==
  /\ Cardinality(FactsIn(room)) < MaxFacts
  /\ lastNumber' = Max({f.id : f \in facts} \union {0}) + 1
  /\ facts' = facts \union {[id |-> lastNumber', room |-> room]}
  /\ UNCHANGED forgotten

(* Mutant: what is there is not counted. *)
RememberUncounted(room) ==
  /\ lastNumber' = lastNumber + 1
  /\ facts' = facts \union {[id |-> lastNumber', room |-> room]}
  /\ UNCHANGED forgotten

(* remember: count and insert are one transaction. A full room gets nothing. *)
Remember(room) ==
  /\ Cardinality(FactsIn(room)) < MaxFacts
  /\ lastNumber' = lastNumber + 1
  /\ facts' = facts \union {[id |-> lastNumber', room |-> room]}
  /\ UNCHANGED forgotten

(* forget: by its number, and only from its own room. *)
Forget(room, id) ==
  /\ [id |-> id, room |-> room] \in facts
  /\ facts' = facts \ {[id |-> id, room |-> room]}
  /\ forgotten' = forgotten \union {id}
  /\ UNCHANGED lastNumber

(* import_fact for each, unless its number is taken, and reserve_fact_ids.   *)
(* Inserting a number moves the sequence past it.                            *)
ImportFacts(legacy, next) ==
  /\ facts' = facts \union {f \in legacy : \A g \in facts : g.id # f.id}
  /\ lastNumber' = Max({f.id : f \in facts'} \union {lastNumber, next})
  /\ UNCHANGED forgotten

FactsOK ==
  /\ \A f \in facts : f.id \in 1..lastNumber /\ f.room \in FactRooms
  /\ lastNumber \in Nat

(* A number names one fact for good: no two facts share one, and the number  *)
(* of a fact that was forgotten, also before the import, is never given to   *)
(* another, so "forget #3" cannot hit something else                         *)
(* (src/src/room_memory.rs:85, 134-143).                                     *)
NumbersNeverReturn ==
  /\ \A f, g \in facts : f.id = g.id => f = g
  /\ \A f \in facts : f.id \notin forgotten
=============================================================================
