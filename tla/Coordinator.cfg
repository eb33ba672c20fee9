SPECIFICATION Spec
CONSTANTS
  MaxEvents = 2
  MaxRuns = 2
  MaxVersion = 3
  BatchLimit = 1
  Loops = {p1, p2}
  Directives = {"ASK_HUMAN", "REPAIR", "REQUEST_VALIDATION"}
  Outside = {"START", "TAKEOVER"}
  Modes = {"shadow", "active"}
  p1 = p1
  p2 = p2
SYMMETRY LoopSymmetry
INVARIANTS OneDecisionAtATime NoMessageLost
PROPERTY OperatorHasTheLastWord
CHECK_DEADLOCK FALSE
