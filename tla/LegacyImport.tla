----------------------------- MODULE LegacyImport -----------------------------
(****************************************************************************)
(* Opening the bot's database: the migrations of src/db.rs, and the one-time *)
(* import of the files it used before, src/legacy_import.rs. Both go on      *)
(* where an earlier start was interrupted, since each migration and each     *)
(* file is a transaction of its own that also says it is done.               *)
(****************************************************************************)
EXTENDS Process, Facts, Sequences

CONSTANTS
  Schemas,      \* for each build, how many MIGRATIONS it has
  Logs,         \* the message logs, in the order of their names: records
                \*   [messages, room, reactions], the entries that parse in the
                \*   log, its first_room_id or "none", and those of the reaction
                \*   log of the same stem
  LegacyFacts,  \* the facts of memory.json, each with a number of its own
  NextFact,     \* its next_fact_id
  LegacyUsage   \* the total in usage.json, 0 if that does not parse

ASSUME ImportAssumption ==
  /\ Schemas \in [Builds -> Nat]
  /\ Logs \in Seq([messages : SUBSET Nat, room : FactRooms \union {"none"}, reactions : SUBSET Nat])
  /\ LegacyFacts \subseteq [id : Nat \ {0}, room : FactRooms] /\ IsFiniteSet(LegacyFacts)
  /\ \A f, g \in LegacyFacts : f.id = g.id => f = g
  /\ NextFact \in Nat /\ LegacyUsage \in Nat

VARIABLES
  schema,     \* user_version
  ran,        \* history: the migrations that ran, in order
  imports,    \* the table of sources that are done
  step,       \* how far opening has come: 0 for migrating
  messages,   \* rows of the messages table
  reactions,  \* rows of the reactions table: <<room, reaction>>
  usage,      \* usage_totals, the overall one
  spent       \* history: what was recorded since

tables == <<schema, ran, imports, messages, reactions, usage, spent>>
importVars == <<tables, step, factsVars>>

(* The sources in the order they are imported: all message logs before any   *)
(* reaction log, since a reaction does not say which room it was in.         *)
Sources ==
  [n \in 1..Len(Logs) |-> <<"messages", n>>] \o [n \in 1..Len(Logs) |-> <<"reactions", n>>]
    \o <<<<"memory", 1>>, <<"usage", 1>>>>

ImportInit ==
  /\ schema \in {0, Schemas[1]} /\ ran = [n \in 1..schema |-> n]
  /\ imports = {} /\ step = 0
  /\ messages = {} /\ reactions = {} /\ usage = 0 /\ spent = 0
  /\ facts = {} /\ lastNumber = 0
  /\ forgotten = 1..(NextFact - 1) \ {f.id : f \in LegacyFacts}

(* Mutant: every migration of the build is run. *)
MigrateAgain ==
  /\ At("database") /\ step = 0
  /\ IF schema < Schemas[build]
     THEN schema' = Schemas[build] /\ ran' = ran \o [n \in 1..Schemas[build] |-> n] /\ UNCHANGED step
     ELSE step' = 1 /\ UNCHANGED <<schema, ran>>
  /\ Stay
  /\ UNCHANGED <<imports, messages, reactions, usage, spent, factsVars>>

(* migrate: one migration, or on to the import if there is none left. A      *)
(* database that a newer build has migrated is refused.                      *)
Migrate ==
  /\ At("database") /\ step = 0
  /\ CASE schema > Schemas[build] -> Enter("down") /\ UNCHANGED <<schema, ran, step>>
       [] schema < Schemas[build] -> /\ schema' = schema + 1 /\ ran' = Append(ran, schema + 1)
                                     /\ UNCHANGED step /\ Stay
       [] OTHER                   -> step' = 1 /\ UNCHANGED <<schema, ran>> /\ Stay
  /\ UNCHANGED <<imports, messages, reactions, usage, spent, factsVars>>

Source == Sources[step]
Log == Logs[Source[2]]

(* once: unless the source is done already, it is imported and done, both or *)
(* neither.                                                                  *)
Once(source) ==
  /\ source \notin imports
  /\ imports' = imports \union {source}
  /\ step' = step + 1

(* A source that is done, or a reaction log whose room is not known, which   *)
(* is passed over without being done.                                        *)
Skip ==
  /\ At("database") /\ step \in DOMAIN Sources
  /\ Source \in imports \/ (Source[1] = "reactions" /\ Log.room = "none")
  /\ step' = step + 1
  /\ Stay /\ UNCHANGED <<tables, factsVars>>

Importing(what) == At("database") /\ step \in DOMAIN Sources /\ Source[1] = what /\ Stay

(* import_message_log: a message that is there already stays as it is. *)
ImportMessages ==
  /\ Importing("messages") /\ Once(Source)
  /\ messages' = messages \union Log.messages
  /\ UNCHANGED <<schema, ran, reactions, usage, spent, factsVars>>

ImportReactions ==
  /\ Importing("reactions") /\ Log.room # "none" /\ Once(Source)
  /\ reactions' = reactions \union ({Log.room} \X Log.reactions)
  /\ UNCHANGED <<schema, ran, messages, usage, spent, factsVars>>

(* import_memory: the facts with their numbers (the summaries are an upsert  *)
(* each). A file that does not parse is an error.                            *)
ImportMemory ==
  /\ Importing("memory") /\ Once(Source)
  /\ ImportFacts(LegacyFacts, NextFact)
  /\ UNCHANGED <<schema, ran, messages, reactions, usage, spent>>

(* import_usage: save_totals puts the file's total in place of any other. A  *)
(* file that does not parse is done too.                                     *)
ImportUsage ==
  /\ Importing("usage") /\ Once(Source)
  /\ usage' = IF LegacyUsage = 0 THEN usage ELSE LegacyUsage
  /\ UNCHANGED <<schema, ran, messages, reactions, spent, factsVars>>

(* The rest of Bot::new reads what there is: the skills, the usage totals.   *)
Opened ==
  /\ At("database") /\ step = Len(Sources) + 1
  /\ Enter("rooms") /\ step' = 0
  /\ UNCHANGED <<tables, factsVars>>

OpenDatabase == Migrate \/ Skip \/ ImportMessages \/ ImportReactions \/ ImportMemory \/ ImportUsage \/ Opened

(* Where a start that ends early leaves off is forgotten. *)
CloseDatabase == step' = 0 /\ UNCHANGED <<tables, factsVars>>

(* A running process spends, and remembers and forgets as it is told. *)
Serve ==
  /\ Up
  /\ usage' = usage + 1 /\ spent' = spent + 1
  /\ \/ \E room \in FactRooms : Remember(room)
     \/ \E f \in facts : Forget(f.room, f.id)
  /\ Event /\ UNCHANGED <<schema, ran, imports, step, messages, reactions>>

Done(what, n) == <<what, n>> \in imports

(* A room is full with MaxFacts, unless the former file had more of it. *)
ImportOK ==
  /\ \A room \in FactRooms : FactsIn(room) \subseteq LegacyFacts \/ Cardinality(FactsIn(room)) <= MaxFacts
  /\ schema \in Nat /\ usage \in Nat /\ spent \in 0..MaxEvents
  /\ step \in 0..(Len(Sources) + 1) /\ (step # 0 => At("database"))
  /\ imports \subseteq {Sources[n] : n \in DOMAIN Sources}

(* Each migration runs once, in order, and each source is imported once and  *)
(* as a whole, however often a start is interrupted and whatever happened    *)
(* since: what came of a source is in the database exactly if it is done,    *)
(* facts that were forgotten do not come back, and the total keeps what was  *)
(* spent since. A reaction is in the room of the log next to its own         *)
(* (src/src/legacy_import.rs:1-4, 33-52, src/src/db.rs:12-13).               *)
ImportedOnceAndWhole ==
  /\ ran = [n \in 1..schema |-> n]
  /\ messages = UNION {Logs[n].messages : n \in {m \in DOMAIN Logs : Done("messages", m)}}
  /\ reactions = UNION {{Logs[n].room} \X Logs[n].reactions :
                          n \in {m \in DOMAIN Logs : Done("reactions", m)}}
  /\ IF Done("memory", 1) THEN {f \in LegacyFacts : f.id \notin forgotten} \subseteq facts
                           ELSE facts \intersect LegacyFacts = {}
  /\ usage = spent + (IF Done("usage", 1) THEN LegacyUsage ELSE 0)
=============================================================================
