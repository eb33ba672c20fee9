\* A deployment whose Teams are all archived may stop.
SPECIFICATION AdmissionSpec
CONSTANTS
  t1 = t1
  t2 = t2
  t3 = t3
  e1 = e1
  e2 = e2
  r1 = r1
  r2 = r2
  Free = Free
  NoTask = NoTask
  Tasks = {t1, t2, t3}
  Editors = {e1, e2}
  Runners = {r1}
  Statuses = {"NEW", "PAUSED", "MERGED"}
  Tickets = {k1}
  Groups = {m1, m2}
  Requests = {e1, e2}
  Claimers = {r1}
  NoTicket = NoTicket
  NoGroup = NoGroup
SYMMETRY TaskSymmetry
INVARIANTS
  NoCycle
  PrerequisitesMerged
  NothingRunsAfterShutdown
PROPERTIES
  NoLostEdit
CHECK_DEADLOCK FALSE
