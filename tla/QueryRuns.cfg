SPECIFICATION FairRuns
CONSTANTS
  Models = {"wide", "narrow", "draft"}
  Matches <- MCMatches
  RowLimit <- MCRowLimit
  Nothing = Nothing
  Runnable = {"wide", "narrow"}
  Compiles = {"wide", "narrow"}
  PageSizes = {1, 2}
  MaxClicks = 4
CHECK_DEADLOCK FALSE
INVARIANTS ScreenTellsNewest
PROPERTIES NeverGoesBack EditsAreFollowed
