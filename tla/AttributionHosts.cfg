SPECIFICATION FairSpec
CONSTANTS
  Apps <- MCApps
  Dbs <- MCDbs
  Label <- MCLabel
  Muted <- MCMuted
  Ttl = 2
  Fresh = 2
  Sustain = 3
  Long = 5
  MaxChanges = 2
  MaxHolds = 1
  MaxErrors = 1
  MaxRestarts = 1
  MaxEvents = 1
PROPERTIES
  BlameArrives
CHECK_DEADLOCK FALSE
