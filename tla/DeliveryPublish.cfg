\* A candidate that passes validation after the same commit failed it once.
SPECIFICATION Spec
CONSTANTS
  w1 = w1
  w2 = w2
  Nobody = Nobody
  Workers = {w1}
  MaxRevision = 2
  MaxPull = 1
  MaxVersion = 10
  Commands = {"RESUME"}
INVARIANT ValidatedIsPublishable
CHECK_DEADLOCK FALSE
