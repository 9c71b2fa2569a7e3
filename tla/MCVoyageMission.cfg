SPECIFICATION FairSpec
CONSTANTS
  Home = home
  Away = away
  None = none
  Lot = 1
  MaxMissions = 1
  MaxLosses = 1
  MaxTerms = 1
  MaxGarbled = 1
INVARIANTS
  AccountingTrue
  SealsKept
PROPERTIES
  NothingLeftAboard
  MissionEnds
