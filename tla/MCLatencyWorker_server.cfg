SPECIFICATION FairSpec
CONSTANTS
  a1 = a1
  a2 = a2
  c1 = c1
  c2 = c2
  c3 = c3
  t1 = t1
  t2 = t2
  Agents = {a1, a2}
  Conns = {c1, c2, c3}
  Threads = {t1, t2}
  Listener = Listener
  None = None
  Owner <- MCOwner
  MaxSends = 2
INVARIANTS RequestInOnePlace AbortNeedsADeath
PROPERTIES ImplementsFifoRtt Released NoLeak
CHECK_DEADLOCK FALSE
