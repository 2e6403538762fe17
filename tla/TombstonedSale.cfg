SPECIFICATION Spec
CONSTANTS
  o1 = o1 o2 = o2 e1 = e1 e2 = e2 c1 = c1 c2 = c2 c3 = c3 a1 = a1 a2 = a2 a3 = a3 a4 = a4 none = none
  Orders = {o1}
  Execs = {e1}
  NoExec = none
  NLots = 3
  InitialLots <- StockLots
  Qty <- TwoOfO1
  Share <- ThreeForO1
  CreditAmt <- NoCredit
  LegacyVoids = {}
  Malformed = {}
  DuplicateDelivery = TRUE
  HandlerCrash = FALSE
  RetryCap = 2
  AttemptBound = 2
  Payments = {}
  MaxPaid = 0
  Calls = {c1}
  CallExec <- OneCall
  ExecOrder <- VoidO1
  ExecAction <- PendingOnly
  CallCrash = FALSE
  Attempts = {}
  NoAttempt = none
  AttemptOrder <- NoReturns
  AttemptQty <- NoReturns
  Replaces <- NoReturns
  EditedLots = {}
INVARIANTS VoidedMeansReversed
CHECK_DEADLOCK FALSE
