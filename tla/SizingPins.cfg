SPECIFICATION Spec
CONSTANTS
  Apps <- MCApps
  Least <- MCLeast
  Most <- MCMost
  MaxWorkers = 3
  Costs <- MCCosts
  Plans <- MCPlans
  Master <- MCMaster
  MinWorkers = 0
  MaxChanges = 1
  MaxCosts = 1
  MaxPressure = 1
  MaxLosses = 2
  MaxBlind = 1
  MaxEvents = 2
PROPERTY
  PinsWhatFits
CHECK_DEADLOCK FALSE
