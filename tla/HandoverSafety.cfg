SPECIFICATION Spec
CONSTANTS
  s1 = s1
  s2 = s2
  Master = Master
  NoNode = NoNode
  Services = {s1}
  Workers = {w1, w2}
  Mode <- AllAuto
  WorkerRoom = 3
  MasterRoom = 3
  Demand = {0, 1}
  MinWorkers = 0
  MaxWorkers = 1
  StallLoops = 1
  Faults = {"loss", "flap", "slow", "error", "restart", "deploy"}
  MaxFaults = 2
INVARIANTS
  WithinBudget
PROPERTIES
  LastDrainServes
SYMMETRY WorkerSymmetry
