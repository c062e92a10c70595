SPECIFICATION FairSpec
CONSTANTS
  ann = ann
  bob = bob
  Bot = "gordy"
  Here = "room"
  Users = {ann}
  Ignored = {}
  Contents <- EditContents
  Places = {"Room"}
  Forms = {"plain", "edit"}
  Shapes = {"text", "pictures"}
  ThreadLimit = 2
  MaxSaid = 3
  MaxMishaps = 1
INVARIANTS
  TypeOK
  PostsAccountedFor
  OneAnswer
  
  LogHasLatest
PROPERTIES
  EverySettled
CHECK_DEADLOCK FALSE
