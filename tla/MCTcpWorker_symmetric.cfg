SPECIFICATION FairSpec
CONSTANTS
  c1 = c1
  c2 = c2
  Conns = {c1, c2}
  AgentTypes = {"symmetric"}
  MAX_PENDING_REQS = 2
  CtrMod = 8
  RespLen = 1
  MAX_PAYLOAD = 2
  Chunks = {1}
  SndBuf = 2
  Slow = FALSE
  Failures = {"fin", "rst"}
  MaxSends = 3
INVARIANTS
  WorkerInv
  SlotConservation
  StopsOnlyOnFailure
PROPERTIES
  ClosedIsFinal
  LimitLifts
