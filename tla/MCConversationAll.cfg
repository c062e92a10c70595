SPECIFICATION Spec
CONSTANTS
  ann = ann
  bob = bob
  Bot = "gordy"
  Here = "room"
  Users = {ann, bob}
  Ignored = {}
  Contents <- AllContents
  Places = {"Room", "OneOnOne", "SmallGroup"}
  Forms = {"plain", "thread", "threadReply", "reply", "edit"}
  Shapes = {"text", "emoji", "pictures"}
  ThreadLimit = 2
  MaxSaid = 2
  MaxMishaps = 1
SYMMETRY Symmetry
INVARIANT
  NoSilence
CHECK_DEADLOCK FALSE
