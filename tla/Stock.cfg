SPECIFICATION Spec
CONSTANTS
  o1 = o1 o2 = o2 e1 = e1 e2 = e2 c1 = c1 c2 = c2 c3 = c3 a1 = a1 a2 = a2 a3 = a3 a4 = a4 none = none
  Orders = {o1, o2}
  Execs = {}
  NoExec = none
  NLots = 4
  InitialLots <- ReturnSlots
  Qty <- TwoQty
  Share <- TwoShare
  CreditAmt <- OnCredit
  LegacyVoids = {o1, o2}
  Malformed = {}
  DuplicateDelivery = TRUE
  HandlerCrash = TRUE
  RetryCap = 2
  AttemptBound = 3
  Payments = {2}
  MaxPaid = 2
  Calls = {}
  CallExec <- NoCalls
  ExecOrder <- NoExecOrder
  ExecAction <- NoExecOrder
  CallCrash = FALSE
  Attempts = {a1, a2}
  NoAttempt = none
  AttemptOrder <- ReturnO2
  AttemptQty <- OneByOne
  Replaces <- NoReplacement
  EditedLots = {1}
INVARIANTS TypeOK StockAccounted LotsSound EffectsOnce CreditAccounted
PROPERTIES ImplementsSaleEffect
CHECK_DEADLOCK FALSE
