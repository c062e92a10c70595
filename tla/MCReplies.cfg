SPECIFICATION FairSpec
CONSTANTS
  Rooms <- TwoRooms
  Readers <- TwoLinksEach
  Askers <- TwoRooms
  MaxLinks = 2
  MaxRenders = 2
  MaxReads = 3
  MaxRestarts = 1
  MaxReplies = 2
  MaxPageReads = 1
  MaxAsks = 2
INVARIANTS
  TypeOK
  DocsAsNewAsCanBe
  DeadConnectionCosts
PROPERTIES
  RepliesEnd
CHECK_DEADLOCK FALSE
