SPECIFICATION Spec
CONSTANTS
  RecentEventCapacity = 0
  RetainAll = TRUE
  MaxCounter = 3
  Sessions <- MCSessions
  Times <- MCTimes
  Payloads <- MCPayloads
  ProviderCaps <- MCProviderCaps
  ChannelCaps <- MCChannelCaps
  PageSizes <- MCPageSizes
  Responses <- MCResponses
  Commands <- MCCommands
INVARIANTS
  MapsAreConsistent
  AcceptedIsRoutable
  InteractiveIffAnswerable
