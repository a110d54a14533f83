SPECIFICATION Spec
CONSTANTS
  Order <- MCOrder
  Channels = {"c1", "c2"}
  Scoped = {"c1"}
  Callers = {"p1", "c1"}
  Reentrant = {"c2"}
  MaxGenerations = 2
INVARIANTS
  IngressIsOver
  StoppedIsClean
  GenerationsAreSeparate
  NoWaitCycle
CHECK_DEADLOCK FALSE
