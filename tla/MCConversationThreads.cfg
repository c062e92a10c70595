SPECIFICATION Spec
CONSTANTS
  ann = ann
  bob = bob
  Bot = "gordy"
  Here = "room"
  Users = {ann, bob}
  Ignored = {}
  Contents <- ThreadContents
  Places = {"Room"}
  Forms = {"plain", "thread", "reply", "edit"}
  Shapes = {"text"}
  ThreadLimit = 2
  MaxSaid = 3
  MaxMishaps = 1
SYMMETRY Symmetry
INVARIANTS
  HistoryIsPast
  FreshThread
  AnswersWhereAsked
  FollowUpHeard
CHECK_DEADLOCK FALSE
