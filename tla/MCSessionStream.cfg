SPECIFICATION StreamSpec
CONSTANTS
  RecentEventCapacity = 2
  RetainAll = FALSE
  MaxCounter = 4
  Sessions <- MCSessions
  Times <- MCTimes
  Payloads <- MCPayloads
INVARIANTS
  StreamTypeOK
  LogIsContiguous
  WindowIsNewestSuffix
  PagesContinueTheLog
  ProjectionMatchesLog
