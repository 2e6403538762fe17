SPECIFICATION Spec
CONSTANTS
  o1 = o1 o2 = o2 e1 = e1 e2 = e2 c1 = c1 c2 = c2 c3 = c3 a1 = a1 a2 = a2 a3 = a3 a4 = a4 none = none
  Orders = {o1}
  Execs = {e1, e2}
  NoExec = none
  NLots = 4
  InitialLots <- ReturnLots
  Qty <- ThreeOfO1
  Share <- FiveForO1
  CreditAmt <- NoCredit
  LegacyVoids = {}
  Malformed = {}
  DuplicateDelivery = TRUE
  HandlerCrash = TRUE
  RetryCap = 2
  AttemptBound = 2
  Payments = {}
  MaxPaid = 0
  Calls = {c1, c2, c3}
  CallExec <- TwoForE2
  ExecOrder <- VoidO1
  ExecAction <- PendingAndSettled
  CallCrash = TRUE
  Attempts = {a1, a2, a3, a4}
  NoAttempt = none
  AttemptOrder <- ReturnO1
  AttemptQty <- OneByOne
  Replaces <- SecondReplacesFirst
  EditedLots = {1}
INVARIANTS RefundExact ReturnExcludesVoid OwnedVoid DeductedVoidIsMarked
PROPERTIES WinnerKept
CHECK_DEADLOCK FALSE
