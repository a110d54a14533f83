SPECIFICATION Spec
CONSTANTS
  RecentEventCapacity = 2
  RetainAll = FALSE
  MaxCounter = 4
  Sessions <- MCSessions
  Times <- MCTimes
  Payloads <- MCPayloads
  ProviderCaps <- MCProviderCaps
  ChannelCaps <- MCChannelCaps
  PageSizes <- MCPageSizes
  Responses <- MCResponses
  Commands <- MCCommands
INVARIANTS
  LiveViewIsCurrent
PROPERTY ImplementsFeed
