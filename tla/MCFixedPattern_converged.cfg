SPECIFICATION FSpec
CONSTANTS
  N = 2
  T = 0
  Pattern = "fixed"
  Rounds = 1
  AckDeadline = 1
  ThroughputDeadline = 1
  LatencyDeadline = 1
  Nic = TRUE
  Intervals <- Narrow
  ciSize = 5
  Threads = 2
  MAX_PER_THREAD_SAMPLES = 131072
  initialSamples = 10000
  samplesStep = 10000
  maxTries = 20
INVARIANTS
  ResultsConverged
