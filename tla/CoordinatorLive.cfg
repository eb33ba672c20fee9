SPECIFICATION FairSpec
CONSTANTS
  MaxEvents = 2
  MaxRuns = 4
  MaxVersion = 3
  BatchLimit = 2
  Loops = {p1}
  Directives = {"REPAIR"}
  Outside = {"START"}
  Modes = {"off", "shadow", "active"}
  p1 = p1
  p2 = p2
PROPERTY EveryMessageSettles
CHECK_DEADLOCK FALSE
