SPECIFICATION Spec
CONSTANTS
  a1 = a1
  a2 = a2
  q1 = q1
  Apis = {a1, a2}
  Supporters = {c1}
  Questions = {q1}
  MaxAsides = 1
  MaxRollovers = 1
  Automatic = TRUE
  Compaction = TRUE
  MaxDeltas = 2
  MaxThreads = 3
  PatchChecks = {lint, type}
  PatchAllowance = 6
  PatchWorst = 2
  PatchCharges = {1, 2}
  MaxCalls = 4
  MaxUnits = 2
  MaxAttempts = 3
  MaxReplans = 1
  PatchTurns = 3
  PatchEdits = 1
  Harnesses = {"codex", "claude", "responses"}
  MaxCycles = 3
PROPERTIES
  RequestCarriesFeedback
CHECK_DEADLOCK FALSE
