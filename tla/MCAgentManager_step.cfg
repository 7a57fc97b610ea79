SPECIFICATION Spec
CONSTANTS
  N = 2
  Kind = "latency"
  Pattern = "step"
  SampleCount = {0, 4}
  MAX_PER_THREAD_SAMPLES = 2
  AGG_SAMPLE_SIZE = 4
  MaxWindows = 3
  MaxResp = 2
INVARIANTS
  CleanWindow
  FreshSamples
  PhantomsBounded
