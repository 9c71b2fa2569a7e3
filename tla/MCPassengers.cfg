SPECIFICATION PassengersSpec
CONSTANTS
    Nil = Nil
    Styles <- Wordings
    Crowds <- Parties
    MaxOffers = 2
    MaxGen = 2
    MaxCost = 2
    MaxFaults = 1
INVARIANTS
    FareToItsVoyage
    PassageCostedOnce
CHECK_DEADLOCK FALSE
PROPERTIES
    PassengersDelivered
    PassageSettles
