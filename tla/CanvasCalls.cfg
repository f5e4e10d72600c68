SPECIFICATION FairSpec
CONSTANTS
  Workspaces = {"w1", "w2"}
  Elements = {"e1"}
  Calls = {"c1", "c2"}
  MaxClicks = 4
  MaxFailures = 1
CHECK_DEADLOCK FALSE
INVARIANTS DragsStayInWorkspace CallsInTurnAgree
