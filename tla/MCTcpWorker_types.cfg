SPECIFICATION Spec
CONSTANTS
  c1 = c1
  c2 = c2
  Conns = {c1}
  AgentTypes = {"throughput", "symmetric"}
  MAX_PENDING_REQS = 3
  CtrMod = 6
  RespLen = 2
  MAX_PAYLOAD = 5
  Chunks = {1, 2, 3, 4}
  SndBuf = 2
  Slow = TRUE
  Failures = {"fin", "rst"}
  MaxSends = 8
INVARIANTS
  RingMatch
  BytesConserved
PROPERTIES
  ImplementsFifoRtt
