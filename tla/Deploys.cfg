SPECIFICATION FairSpec
CONSTANTS
  Images = {"first", "second"}
  FirstImage = "first"
  MaxCount = 2
  Attempts = 2
  MaxSaves = 1
  MaxRedeploys = 1
  MaxStops = 1
  MaxPushes = 2
  MaxNudges = 1
  MaxUndos = 1
  MaxBadRollouts = 1
  MaxCallErrors = 1
  MaxEvents = 3
INVARIANTS
  SavedIsDeployed
  DoneIsObserved
PROPERTIES
  KeepsLive
  RealSettles
CHECK_DEADLOCK FALSE
