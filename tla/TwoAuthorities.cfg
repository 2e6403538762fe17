SPECIFICATION OfflineVoidSpec
CONSTANTS
  Orders = {"o"}
  Attestations = {"a", "b"}
  Target <- OneTarget
  Relays = {"r1"}
  Other = "other"
  NoExec = "none"
  OnServer = {"o"}
  MayRevoke = FALSE
  Sweeps = {"s1"}
  Ceiling = 1
  MaxSweeps = 1
  Drains = {"d1", "d2"}
  MaxAttempts = 2
INVARIANT OneAuthority
CHECK_DEADLOCK FALSE
