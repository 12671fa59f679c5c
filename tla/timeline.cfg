\* Two clients, more events than ring and channel hold.
CONSTANTS
  Clients = {c1, c2}
  None = None
  Ring = 3
  Replay = 2
  Cap = 2
  MaxAppends = 4
  MaxConnects = 2
SPECIFICATION FairSpec
INVARIANTS EventsCounted EventsInOrder
PROPERTIES LockIsReleased DropsAreTold StreamsEnd
CHECK_DEADLOCK FALSE
