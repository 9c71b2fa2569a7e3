SPECIFICATION StoreSpec
CHECK_DEADLOCK FALSE
SYMMETRY Symmetry
CONSTANTS
  \* AccountLease
  o1 = o1
  o2 = o2
  a1 = a1
  a2 = a2
  c1 = c1
  None = None
  Owner <- TwoOwners
  Account <- TwoAccounts
  Company <- OneCompany
  MaxGeneration = 1
  \* SnapshotStore
  NoRoute = NoRoute
  Stores = {st1, st2}
  RouteKeys = {k1}
  MaxPhase = 2
  MaxOwners = 3
  \* ReplayRecorder
  Evidence <- TwoPlans
  EvidenceLimit = 2
  EventLimit = 1
  FrameQueue = 1
  MaxSeen = 2
  MaxErrors = 2
  \* ReplayTape
  Writers = {"live", "backfill"}
  Digests = {"x", "y"}
  MaxTime = 2
  MaxFrames = 2
  Slack = 1
  \* Futures
  NoAct = NoAct
  Starts <- Warehouses
  PortSpace = 2
  MaxKeys = 2
INVARIANTS
  NoOrphanLock
  RoutesStored
  EventsAccounted
  TapeWhole
  NoForgottenContract
PROPERTIES
  NewKeyOnlyWhenDead
