SPECIFICATION Spec
CONSTANTS
  Sessions <- MCSessions
  MaxEvents = 3
  PageEvents = 1
  QueueCapacity = 4
INVARIANT SubscribedMeansReplayed
CHECK_DEADLOCK FALSE
