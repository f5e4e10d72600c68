CONSTANTS
  Callers = {c1, c2, c3, c4}
  limit = 2
SPECIFICATION LimiterSpec
INVARIANTS SlotsAccounted
PROPERTIES EveryWaiterRuns
