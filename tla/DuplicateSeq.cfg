SPECIFICATION SeqSpec
CONSTANTS
  Tabs = {t1, t2}
  OpenAtStart = {t1, t2}
  Native = FALSE
  Degraded = FALSE
  MaxOpenings = 1
  MaxWipes = 0
  MaxSeq = 4
INVARIANT IssuedOnce
CHECK_DEADLOCK FALSE
