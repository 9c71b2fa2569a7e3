SPECIFICATION RequestsSpec
CHECK_DEADLOCK FALSE
CONSTANTS
  \* ActionJournal
  p1 = p1
  p2 = p2
  Proc <- TwoProcs
  None = None
  MaxSeq = 1
  ReplayWindow = 3
  Margin = 1
  KeyWindow = 3
  Transit = 1
  MaxAttempts = 2
  MaxTime = 5
  MaxTakeovers = 2
  \* Registration
  Mints = {m1, m2}
  NoMint = NoMint
  MaxTroubles = 3
  SlowUpstream = TRUE
  \* Marque
  NoMarque = NoMarque
  Cost = 2
  Prizes = {0, 3}
  UnrecoveredLimit = 3
  Term = 2
  Window = 1
  LastSend = 1
  ZoneBackoff = 1
  ReturnsNeeded = 2
  ListLag = 1
  MaxIssues = 2
  MaxClock = 5
  MaxUpsets = 3
  \* VoyageInsurance
  NoCover = NoCover
  CoverPremium = 2
  Refunds = {0, 1}
  Claim = 5
  MaxOffers = 4
  MaxMisses = 2
  \* FleetWork
  NoJob = NoJob
  ShipOrder <- TwoShips
  CargoCost = 4
  Gross = 3
  MarqueCost = 2
  Installment = 2
  Reward = 6
  ProtectedReserve = 1
  StartCash = {7, 10, 12}
  MaxJobs = 3
  MaxLost = 2
  \* Underwriting
  Unknown = Unknown
  Policies = {p1, p2}
  Collateral = 40
  Premium = 10
  Budgets = {79}
  MaxVersions = 2
  MaxFaults = 1
INVARIANTS
  AtMostOneEffect
  LedgerTrue
  EachIntentOnce
  OneMarque
  CoverBooked
  CommitmentsFunded
  BudgetRespected
PROPERTIES
  StoredOutcomeConsumed
