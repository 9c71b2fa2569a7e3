SPECIFICATION Spec
CONSTANTS
  Home = home
  Away = away
  None = none
  Lot = 1
  MaxMissions = 1
  MaxLosses = 0
  MaxTerms = 0
  MaxGarbled = 0
INVARIANT
  SealHeldOnce
