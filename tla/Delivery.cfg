\* Every phase of one task between development and merge, with two workers.
SPECIFICATION FairSpec
CONSTANTS
  w1 = w1
  w2 = w2
  Nobody = Nobody
  Workers = {w1, w2}
  MaxRevision = 2
  MaxPull = 1
  MaxVersion = 8
  Commands = {"RESUME"}
INVARIANTS
  MergedIsDelivered
  ReviewedHeadIsOurs
PROPERTIES
  SubmitsOnlyAuthorized
  MergeIsNoticed
CHECK_DEADLOCK FALSE
