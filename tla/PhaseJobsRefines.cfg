SPECIFICATION FairSpec
CONSTANTS
  t1 = t1
  t2 = t2
  m1 = m1
  r1 = r1
  r2 = r2
  NoTask = NoTask
  AnyTask = t1
  NoRunner = NoRunner
  Tasks = {t1}
  Teams = {m1}
  Runners = {r1}
  TeamOf <- OneTeamOf
  Requires <- OneRequires
  Capacity <- OneCapacity
  JobIds = {1, 2, 3, 4, 5, 6, 7}
  DeveloperSlots = 1
  ValidationSlots = 1
  Commands = {"PAUSE", "CANCEL", "TAKEOVER", "RESUME"}
  BlockReasons <- Reasons
  MaxVersion = 8
INVARIANTS
  OneLiveJob
  StoppedWorkIsRevoked
PROPERTIES
  ResultsFitTheirRequirement
  LeasesSettle
  ImplementsTaskLifecycle
CHECK_DEADLOCK FALSE
