SPECIFICATION FairSpec
CONSTANTS
  p1 = p1
  p2 = p2
  Nobody = Nobody
  Periodic = Periodic
  Events = {1, 2}
  Processes = {p1}
  MaxAttempts = 2
  BatchSize = 1
  MaxFaults = 2
INVARIANTS
  NoNotificationLost
PROPERTIES
  EveryCommitIsProjected
  OutboxDrains
