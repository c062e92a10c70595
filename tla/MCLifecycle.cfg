SPECIFICATION Spec
CONSTANTS
  MaxFaults = 1
  MaxEvents = 2
  Builds = {1, 2}
  Devices = {d1, d2}
  Schemas <- Versions
  Logs <- OneLog
  FactRooms = {"lobby"}
  MaxFacts = 2
  LegacyFacts <- OneFact
  NextFact = 3
  LegacyUsage = 3
  Rooms <- Den
  Configured <- Den
  Inviters = {"owner", "pest"}
  ServerOf <- Servers
  OwnServer = "home"
  Allowed = {}
  Ignored = {"pest"}
  Notified <- Two
  Changelogs <- TwoChangelogs
  MaxNewLines = 2
SYMMETRY Symmetry
INVARIANTS
  TypeOK
  SameDevice
  ImportedOnceAndWhole
  NumbersNeverReturn
  PrivateStaysOff
  NothingMissed
  AlertsReach
  OneFailureForgiven
CHECK_DEADLOCK FALSE
