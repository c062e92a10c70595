SPECIFICATION Spec
CONSTANTS
  ann = ann
  bob = bob
  Bot = "gordy"
  Here = "room"
  Users = {ann}
  Ignored = {}
  Contents <- EditContents
  Places = {"Room"}
  Forms = {"plain", "thread", "edit"}
  Shapes = {"text"}
  ThreadLimit = 2
  MaxSaid = 3
  MaxMishaps = 0
INVARIANTS
  FollowUpOnlyWhereBotIs
CHECK_DEADLOCK FALSE
