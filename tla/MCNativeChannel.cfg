SPECIFICATION Spec
CONSTANTS
  Sessions <- MCSessions
  MaxEvents = 3
  PageEvents = 1
  QueueCapacity = 4
INVARIANTS
  HoleMeansAbort
  NothingLost
PROPERTIES
  EventsAreDelivered
  RevokedIsDropped
CHECK_DEADLOCK FALSE
