SPECIFICATION FairSpec
CONSTANTS
  N = 4
  T = 2
  Pattern = "step"
  Rounds = 3
  maxTries = 1
  AckDeadline = 1
  ThroughputDeadline = 1
  LatencyDeadline = 10
INVARIANTS
  CoordInv
  NoStaleReply
  MeasureBarrier
  ReportBarrier
  ResultsComplete
PROPERTIES
  ImplementsLockstep
  Terminates
