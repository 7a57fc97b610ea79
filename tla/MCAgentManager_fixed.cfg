SPECIFICATION Spec
CONSTANTS
  N = 2
  Kind = "symmetric"
  Pattern = "fixed"
  SampleCount = {0, 2, 5}
  MAX_PER_THREAD_SAMPLES = 2
  AGG_SAMPLE_SIZE = 3
  MaxWindows = 2
  MaxResp = 2
INVARIANTS
  TypeOK
  DivisorSet
  SamplesFit
  NothingLost
