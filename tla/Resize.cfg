SPECIFICATION ResizeFairSpec
CONSTANTS
  Services = {s1, s2}
  Rungs = 2
  MaxErrors = 1
  MaxRestores = 1
  MaxRestarts = 1
  MaxLost = 1
  MaxDeploys = 1
  MaxVanished = 1
PROPERTIES
  DrainsSpare
  PowersOffServed
  CutsNothing
  BackInService
CHECK_DEADLOCK FALSE
