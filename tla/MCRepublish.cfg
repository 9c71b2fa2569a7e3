SPECIFICATION FairSpec
CONSTANTS
    Ships = {s1}
    Bills = {b1}
    NoShip = NoShip
    MaxMissions = 1
    MaxCrashes = 3
PROPERTIES NoRepublish
