SPECIFICATION FairSpec
CONSTANTS
  Legacy = {"c", "d"}
  Tabs = {"s", "t"}
  Loads = {1, 2}
  MaxLoads = 3
  MaxFailures = 1
CHECK_DEADLOCK FALSE
INVARIANTS MarkedIsComplete CanvasIsWhole
PROPERTIES EveryTabLoads
