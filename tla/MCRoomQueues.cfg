SPECIFICATION FairSpec
CONSTANTS
  r1 = r1
  r2 = r2
  i1 = i1
  i2 = i2
  i3 = i3
  i4 = i4
  i5 = i5
  None = None
  Rooms <- MCRooms
  Items <- MCItems
  RoomOf <- MCRoomOf
  Inboxes <- MCInboxes
  Belongs <- MCBelongs
INVARIANTS
  TypeOK
  OneWorker
  InOrder
PROPERTIES
  LostOnlyWithWorker
  EverySettled
  ImplementsOrder
CHECK_DEADLOCK FALSE
