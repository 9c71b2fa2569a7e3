SPECIFICATION Spec
CONSTANTS
    None = None
    Owed = 2
    MaxCash = 3
    MaxDue = 1
    MaxReq = 2
    Rounding = 1
    Markets <- MCMarkets
    MaxAttempts = 2
INVARIANTS
    BridgeBooksTrue
PROPERTIES
    PrepaidFromFresh
    RefinanceEnds
CHECK_DEADLOCK FALSE
