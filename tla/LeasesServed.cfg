SPECIFICATION FairSpec
CONSTANTS
  NoLease = NoLease
  Machines = {m1, m2, m3}
  Leases = {l1}
  Demand = {0, 1}
  MaxWorkers = 1
  MaxLosses = 1
  MaxFlaps = 1
  MaxErrors = 1
  MaxRestarts = 1
  MaxSlow = 1
  MaxFaults = 2
INVARIANTS
  AppsKeepOff
  OnePerLease
PROPERTIES
  MemberKept
  LeaseServed
