SPECIFICATION FairSpec
CONSTANTS
  t1 = t1
  t2 = t2
  k1 = k1
  k2 = k2
  Terms = {t1, t2}
  Tasks = {k1, k2}
  Callers = {c1, c2}
  Work = Work
  None = None
  Of <- MCOf
INVARIANT NoLostWakeup
PROPERTY TerminationSpec
