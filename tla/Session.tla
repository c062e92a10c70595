-------------------------------- MODULE Session --------------------------------
(****************************************************************************)
(* How the bot gets into its account, login_or_restore_session of            *)
(* src/bot.rs: with the session it saved, or with its password, and then as  *)
(* the device it was before, since the crypto store belongs to that one.     *)
(* Files are written by truncating and filling them, so a process that ends  *)
(* in between leaves an empty file.                                          *)
(****************************************************************************)
EXTENDS Process

CONSTANT Devices  \* the device IDs that may be drawn

ASSUME SessionAssumption == {"none", "empty"} \intersect Devices = {}

VARIABLES
  deviceFile,   \* <store_path>/device_id: a device, "none" or "empty"
  sessionFile,  \* <store_path>/session.json, by its device: as above
  bound,        \* the device the crypto store belongs to, or "none"
  device,       \* the one this process is, or is about to be, or "none"
  unread        \* history: the ID of the device bound could once not be read

sessionVars == <<deviceFile, sessionFile, bound, device, unread>>

SessionInit ==
  /\ deviceFile = "none" /\ sessionFile = "none" /\ bound = "none" /\ device = "none"
  /\ unread = FALSE

(* load_session: there may be none, and a file that does not parse is an     *)
(* error.                                                                    *)
Read == IF sessionFile \in Devices THEN "session" ELSE IF sessionFile = "none" THEN "none" ELSE "error"

(* restore_session, if there is one. An error ends the process, as if this   *)
(* were the only way.                                                        *)
LoadSession ==
  /\ At("session")
  /\ CASE Read = "none"  -> Enter("device") /\ UNCHANGED sessionVars
       [] Read = "error" -> Enter("down") /\ UNCHANGED sessionVars
       [] OTHER -> /\ Enter("database")
                   /\ device' = sessionFile
                   /\ UNCHANGED <<deviceFile, sessionFile, bound, unread>>

(* load_or_create_device_id: the ID in the file; or a new one, whose writing *)
(* begins, if there is no file, nothing in it, or it cannot be read.         *)
LoadDevice ==
  /\ At("device")
  /\ \/ /\ deviceFile \in Devices
        /\ Enter("login") /\ device' = deviceFile /\ UNCHANGED <<deviceFile, unread>>
     \/ /\ Enter("newDevice") /\ device' \in Devices \ {bound} /\ deviceFile' = "empty"
        /\ unread' = (unread \/ (deviceFile \in Devices /\ bound # "none"))
  /\ UNCHANGED <<sessionFile, bound>>

(* Mutant: the ID is used before it is in the file. *)
LoginFirst ==
  /\ At("newDevice")
  /\ Enter("logged") /\ bound' = device
  /\ UNCHANGED <<deviceFile, sessionFile, device, unread>>

SaveDevice ==
  /\ At("newDevice")
  /\ Enter("login") /\ deviceFile' = device
  /\ UNCHANGED <<sessionFile, bound, device, unread>>

(* The crypto store is the device's from then on, and matrix-sdk logs in as  *)
(* no other: that ends the process.                                          *)
Login ==
  /\ At("login")
  /\ IF bound \in {"none", device} THEN Enter("logged") /\ bound' = device /\ UNCHANGED device
                                  ELSE Enter("down") /\ device' = "none" /\ UNCHANGED bound
  /\ UNCHANGED <<deviceFile, sessionFile, unread>>

(* save_session, begun and ended. *)
TruncateSession ==
  /\ At("logged")
  /\ Enter("save") /\ sessionFile' = "empty"
  /\ UNCHANGED <<deviceFile, bound, device, unread>>

SaveSession ==
  /\ At("save")
  /\ Enter("database") /\ sessionFile' = device
  /\ UNCHANGED <<deviceFile, bound, device, unread>>

(* Whoever runs the bot takes its session file away, for a fresh login. *)
RemoveSession ==
  /\ At("down") /\ sessionFile # "none"
  /\ sessionFile' = "none"
  /\ Stay /\ UNCHANGED <<deviceFile, bound, device, unread>>

SessionStep ==
  \/ LoadSession \/ LoadDevice \/ SaveDevice \/ Login \/ TruncateSession \/ SaveSession

SessionOK ==
  /\ {deviceFile, sessionFile} \subseteq Devices \union {"none", "empty"}
  /\ {bound, device} \subseteq Devices \union {"none"} /\ unread \in BOOLEAN
=============================================================================
