\* Two requests on two routes, during one run of the source.
SPECIFICATION Spec
SYMMETRY MCSymmetry
CONSTANTS
  i1 = i1
  i2 = i2
  Ids <- MCIds
  Proxies <- MCProxies
  Forms <- MCForms
  MaxRequests = 2
  MaxPendingApprovals = 2
  MaxTurns = 1
  MaxStarts = 1
  MaxInFlight = 1
INVARIANTS
  AnsweredOnce
  ClaimsAreKept
  RespondedWasWritten
  NothingOutlivesItsRoute
CHECK_DEADLOCK FALSE
