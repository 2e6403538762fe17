SPECIFICATION GoodsSpec
CONSTANTS
  NLots = 1
  NLines = 1
  MaxUnits = 1
  Changes = {"c1", "c2"}
  CommitTime <- TwoCommits
  Deletions = {"c2"}
  Hashes = {"h1", "h2"}
  FirstHash = "h1"
  Invocations = {"i1", "i2"}
  Managers = {"m"}
  NoOwner = "nobody"
  MaxRevalidation = 2
  MaxRedelivery = 1
  Asks = {"a1", "a2"}
  Threshold = 2
  Window = 1
  MaxClock = 4
  MaxFailures = 3
  Orders = {"o"}
  Attestations = {"a", "b"}
  Target <- OneTarget
  Relays = {"r1", "r2"}
  Other = "other"
  NoExec = "none"
  OnServer = {}
  MayRevoke = TRUE
  Sweeps = {"s1", "s2"}
  Ceiling = 2
  MaxSweeps = 2
  Drains = {"d"}
  MaxAttempts = 2
  Screens = {"w", "v"}
  Opens = {"c1", "c2", "c3"}
  OpenScreen <- OnScreens
  Shifts = {"s1", "s2"}
  NoShift = "none"
  Nobody = "nobody"
  MaxReopens = 1
  Sales = {"o", "p"}
  NoSale = "none"
  Lookups = {"k1", "k2"}
  MaxReloads = 1
  MaxStarts = 4
INVARIANT CounterIsDocumented
CHECK_DEADLOCK FALSE
