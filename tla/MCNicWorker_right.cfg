SPECIFICATION NicSpec
CONSTANTS
  c1 = c1
  c2 = c2
  Conns = {c1}
  AgentTypes = {"symmetric"}
  MAX_PENDING_REQS = 3
  CtrMod = 16
  RespLen = 1
  MAX_PAYLOAD = 4
  Chunks = {1, 2}
  SndBuf = 3
  Slow = FALSE
  Failures = {}
  MaxSends = 6
INVARIANTS
  RightRequest
