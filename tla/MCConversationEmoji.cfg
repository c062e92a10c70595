SPECIFICATION Spec
CONSTANTS
  ann = ann
  bob = bob
  Bot = "gordy"
  Here = "room"
  Users = {ann, bob}
  Ignored = {bob}
  Contents <- ThreadContents
  Places = {"Room"}
  Forms = {"plain", "reply"}
  Shapes = {"text", "emoji"}
  ThreadLimit = 2
  MaxSaid = 2
  MaxMishaps = 0
INVARIANTS
  ReactionOnWhatItAnswers
CHECK_DEADLOCK FALSE
