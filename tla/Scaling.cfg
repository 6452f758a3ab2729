SPECIFICATION FairSpec
CONSTANTS
  Loads = {4, 120, 500}
  MinLabel = 1
  MaxLabel = 3
  Node = 200
  UpLabel = 70
  DownLabel = 30
  BusyLabel = 25
  SustainUp = 1
  SustainDown = 3
  StabilizeDown = 1
  Cooldown = 1
  Ttl = 1
  ResizeCooldown = 2
  Settled = 1
  Ceilings = {2}
  MaxChanges = 1
  MaxGaps = 1
  MaxPins = 1
  MaxDeploys = 1
  MaxBad = 1
  MaxFaults = 1
  MaxEvents = 2
PROPERTIES
  ShrinksAfterQuiet
  GrowsWhenBusy
  Settles
  Relieved
CHECK_DEADLOCK FALSE
