SPECIFICATION NicSpec
CONSTANTS
  c1 = c1
  c2 = c2
  Conns = {c1}
  AgentTypes = {"symmetric"}
  MAX_PENDING_REQS = 3
  CtrMod = 16
  RespLen = 2
  MAX_PAYLOAD = 6
  Chunks = {2, 3, 4}
  SndBuf = 2
  Slow = FALSE
  Failures = {"fin", "rst"}
  MaxSends = 6
INVARIANTS
  CursorsKeepCount
  StampsInPlace
  SampleOfItsPacket
PROPERTIES
  ImplementsRequests
