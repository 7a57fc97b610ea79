SPECIFICATION FFairSpec
CONSTANTS
  N = 2
  T = 0
  Pattern = "fixed"
  Rounds = 1
  AckDeadline = 1
  ThroughputDeadline = 1
  LatencyDeadline = 2
  Nic = TRUE
  Intervals <- NarrowOrWide
  ciSize = 5
  Threads = 1
  MAX_PER_THREAD_SAMPLES = 131072
  initialSamples = 10000
  samplesStep = 10000
  maxTries = 20
INVARIANTS
  TriesAccounted
  RoundsAreTries
  ResultsGood
  GivesUpAfterMaxTries
PROPERTIES
  Terminates
