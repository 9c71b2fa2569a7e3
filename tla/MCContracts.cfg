SPECIFICATION ContractsSpec
CHECK_DEADLOCK FALSE
CONSTANTS
    \* BillClaims
    s1 = s1  s2 = s2  b1 = b1
    Ships = {s1, s2}
    Bills = {b1}
    NoShip = NoShip
    MaxMissions = 2
    MaxCrashes = 3
    \* Growth
    None = None
    Price = 1
    Reserve = 1
    Loans = 2
    MaxGen = 1
    MaxSave = 2
    Kinds = {"lane", "savings", "credit"}
    MaxRefits = 1
INVARIANTS
    BillsClaimedOnce
    NoOrphanDebt
    HandoffOnce
PROPERTIES
    BillsAccounted
    UnusedDebtRepaid
