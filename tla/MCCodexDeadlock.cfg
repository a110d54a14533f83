\* The approvals and the Bridge are locked in both orders.
SPECIFICATION Spec
SYMMETRY MCSymmetry
CONSTANTS
  i1 = i1
  i2 = i2
  Ids <- MCIds
  Proxies <- MCProxies
  Forms <- MCForms
  MaxRequests = 1
  MaxPendingApprovals = 1
  MaxTurns = 1
  MaxStarts = 1
  MaxInFlight = 2
INVARIANT NoLockCycle
CHECK_DEADLOCK FALSE
