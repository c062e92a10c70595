-------------------------------- MODULE Process --------------------------------
(****************************************************************************)
(* The bot's process, as src/main.rs runs it: the session, the database, the *)
(* rooms and the first sync, each needed by the next, and then the sync loop *)
(* until it ends. The process may end at any point, by an error that main    *)
(* returns or by being killed, and its container starts it again, maybe with *)
(* another build.                                                            *)
(****************************************************************************)
EXTENDS Naturals, FiniteSets

CONSTANTS
  Builds,    \* the builds that may be deployed, in the order they were made
  MaxFaults, \* bound: how often something fails
  MaxEvents  \* bound: how often someone wants something of the bot

ASSUME ProcessAssumption ==
  /\ Builds # {} /\ IsFiniteSet(Builds) /\ Builds = 1..Cardinality(Builds)
  /\ MaxFaults \in Nat /\ MaxEvents \in Nat

VARIABLES
  stage,   \* how far the process is
  build,   \* the build that is deployed
  faults,  \* history: how often something failed, reads at the start aside
  events   \* history: how often someone wanted something

processVars == <<stage, build, faults, events>>

(* The stages of a start, each ended by an error or by the next one's turn:  *)
(* the session file, the device file, the login, the database, the rooms,    *)
(* the first sync; then the sync loop, and the last alert once it stopped.   *)
Stages == {"down", "session", "device", "newDevice", "login", "logged", "save", "database",
           "rooms", "sync", "running", "stopping"}

At(s) == stage = s
Up == stage \in {"running", "stopping"}
Stay == UNCHANGED processVars

(* The process goes on with the next stage. *)
Enter(s) == stage' = s /\ UNCHANGED <<build, faults, events>>

(* Something fails, and the code does what it does then. *)
Fault == faults < MaxFaults /\ faults' = faults + 1 /\ UNCHANGED events

(* Someone invites the bot, asks it something, or it has something to tell.  *)
Event == events < MaxEvents /\ events' = events + 1 /\ UNCHANGED <<stage, build, faults>>

Start == At("down") /\ Enter("session")

(* Another build is put in place of the one that ended. *)
Deploy == At("down") /\ build' \in Builds \ {build} /\ UNCHANGED <<stage, faults, events>>

Die == ~At("down") /\ stage' = "down" /\ Fault /\ UNCHANGED build

ProcessInit == stage = "down" /\ build = 1 /\ faults = 0 /\ events = 0

ProcessOK == stage \in Stages /\ build \in Builds /\ faults \in 0..MaxFaults /\ events \in 0..MaxEvents
=============================================================================
