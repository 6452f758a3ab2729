SPECIFICATION FairSpec
CONSTANTS
  Pool = 5
  Top = 2
  SecondaryReads = TRUE
  Moods = {"capacity", "read", "quiet"}
  MaxMoods = 1
  MaxFails = 1
  MaxLags = 1
  MaxErrors = 1
  MaxRestarts = 1
  MaxOthers = 1
  MaxEvents = 1
INVARIANTS
  OneSyncAtATime
  VotersHoldData
  MembersAreHeld
PROPERTIES
  LadderUp
  LadderDown
  QuorumKept
  ImplementsMembership
