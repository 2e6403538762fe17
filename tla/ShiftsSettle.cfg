SPECIFICATION FairSpec
CONSTANTS
  t1 = t1 t2 = t2 m1 = m1 r1 = r1 c1 = c1 c2 = c2 c3 = c3 c4 = c4 w1 = w1 w2 = w2
  None = none
  Devices = {t1, t2}
  Cash = {m1}
  Refunds = {}
  CashDevice <- OnFirst
  Counts = {1, 2}
  Calls = {c1, c2}
  CallDevice <- CalledOn
  CallCount <- Recounted
  Workers = {w1, w2}
  WorkerDevice <- SweepOn
  Authoritative = {t2}
  MaxRestarts = 1
PROPERTIES CommittedCloseSettles PendingCloseSettles
CHECK_DEADLOCK FALSE
