SPECIFICATION CapacitySpec
CONSTANTS
  t1 = t1
  t2 = t2
  m1 = m1
  r1 = r1
  r2 = r2
  NoTask = NoTask
  AnyTask = t1
  NoRunner = NoRunner
  Tasks = {t1, t2}
  Teams = {m1}
  Runners = {r1, r2}
  TeamOf <- TwoTeamOf
  Requires <- TwoRequires
  Capacity <- OneCapacity
  JobIds = {1, 2, 3, 4, 5, 6}
  DeveloperSlots = 2
  ValidationSlots = 1
  Commands = {"PAUSE"}
  BlockReasons <- Reasons
  MaxVersion = 4
  f1 = f1
  f2 = f2
  f3 = f3
  m2 = m2
  Unknown = Unknown
  NoLimit = NoLimit
  Runs = {1, 2}
  FundedTasks = {f1, f2, f3}
  FundedTeams = {m1, m2}
  Scenarios <- Meetings
  FundedBy <- Belongs
  TaskLimit = 3
  TeamLimit = 4
  MonthLimit = 3
  RoleLimit = 2
  MinimumTurn = 1
  SupervisorShare = 1
  Amounts = {1, 2}
  MaxJobs = 2
  MaxMonth = 1
SYMMETRY SlotSymmetry
INVARIANTS
  NoStrandedTask
  CapacityRespected
  LimitsHold
  SessionFollowsItsRun
CHECK_DEADLOCK FALSE
