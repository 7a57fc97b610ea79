SPECIFICATION Spec
CONSTANTS
  N = 1
  Kind = "symmetric"
  Pattern = "fixed"
  SampleCount = {2}
  MAX_PER_THREAD_SAMPLES = 2
  AGG_SAMPLE_SIZE = 4
  MaxWindows = 2
  MaxResp = 3
INVARIANTS
  NothingAdded
