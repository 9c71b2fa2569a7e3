SPECIFICATION UpstreamSpec
CHECK_DEADLOCK FALSE
CONSTANTS
  \* ApiClient
  k1 = k1
  k2 = k2
  Keys <- TwoKeys
  IP = IP
  Calls <- ThreeCalls
  KeyOf <- CallKeys
  Kind <- TradeAndBulletin
  Capacity = 1
  Refill = 1
  Factor = 2
  MaxAttempts = 2
  Replies <- SomeReplies
  None = None
  MaxClock = 2
  \* BulletinPost
  NoPost = NoPost
  Topics = {"storm", "leader"}
  DayLength = 2
  DailyReplies = 2
  ReplayWindow = 3
  MaxHour = 4
  MaxLost = 2
  \* ShipLosses
  NoLoss = NoLoss
  Confirm = 1
  Retry = 1
  ServerFates = {"lost_at_sea"}
  MaxNow = 2
  MaxMishaps = 2
INVARIANTS
  BurstBounded
  PostsCounted
  NoCauseForgotten
PROPERTIES
  CooldownHonoured
