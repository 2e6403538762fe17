SPECIFICATION FairSpec
CONSTANTS
  o1 = o1 o2 = o2 e1 = e1 e2 = e2 c1 = c1 c2 = c2 c3 = c3 a1 = a1 a2 = a2 a3 = a3 a4 = a4 none = none
  Orders = {o1, o2}
  Execs = {e1, e2}
  NoExec = none
  NLots = 3
  InitialLots <- StockLots
  Qty <- TwoQty
  Share <- TwoShare
  CreditAmt <- OnCredit
  LegacyVoids = {o2}
  Malformed = {o2}
  DuplicateDelivery = FALSE
  HandlerCrash = FALSE
  RetryCap = 2
  AttemptBound = 3
  Payments = {}
  MaxPaid = 0
  Calls = {c1, c2}
  CallExec <- OneEach
  ExecOrder <- VoidO1
  ExecAction <- PendingAndSettled
  CallCrash = FALSE
  Attempts = {}
  NoAttempt = none
  AttemptOrder <- NoReturns
  AttemptQty <- NoReturns
  Replaces <- NoReturns
  EditedLots = {}
INVARIANTS PendingIsCarried
PROPERTIES PendingResolved StampedVoidLands
CHECK_DEADLOCK FALSE
