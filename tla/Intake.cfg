SPECIFICATION IntakeBounded
CONSTANTS
  Controllers = {1, 2}
  Providers = {"linear", "trello", "github", "slack", "api"}
  MaxText = 1
  MaxEvents = 2
  MaxTurns = 1
  MaxAttempts = 2
  MaxSyncAttempts = 2
  Sources = {"todo"}
  Target <- Configured
INVARIANT TakenOnce
PROPERTIES ChangedTextStopsWork TrackerConverges NothingPendsForever
CHECK_DEADLOCK FALSE
