SPECIFICATION Spec
CONSTANTS
  t1 = t1
  t2 = t2
  p1 = p1
  Threads <- MCThreads
  Sessions <- MCThreads
  Configured <- MCConfigured
  Proxies <- MCProxies
  FormIds = {1, 2, 3}
  MaxCommands = 1
  MaxPrompts = 2
  MaxBytes = 2
  MaxChoices = 1
  MaxPages = 1
  MaxInFlight = 3
  Scenarios <- MCScenarios
INVARIANTS
  OneStartAtATime
  NoPromptLost
  OpenIsAnswerable
  HealthIsTrue
PROPERTIES
  LateFramesAreIgnored
  WaitingIsServed
  CallsReturn
CHECK_DEADLOCK FALSE
