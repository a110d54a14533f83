\* A session while another token may be stored, with room for one device and one worker.
CONSTANTS
  Devices = {d1, d2}
  Tokens = {t1, t2}
  NoToken = NoToken
  MaxDevices = 1
  MaxWorkers = 1
  MaxAttempts = 2
  Earlier = {t1}
SPECIFICATION Spec
\* After the Host has stopped and the sessions have ended nothing is left to do.
CHECK_DEADLOCK FALSE
INVARIANTS
  ReadyIsServed
  CancelReachesAll
  FailedLeavesNothing
PROPERTIES
  ConnectorStops
  PairingEnds
  RevokedIsWithdrawn
