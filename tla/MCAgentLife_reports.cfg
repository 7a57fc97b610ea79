SPECIFICATION LifeSpec
CONSTANTS
  Commands <- MCCommands
  Loads = {1000, 60000}
  Values = {1, 2, 3}
  Sizes = {0, 1, 2, 3, 4, 5, 6, 7, 90, 100, 723, 799, 800, 801, 1000, 4000}
  MaxHalf = 3
  TxCounts = {0, 1, 2, 4}
  REFERENCE_IA_SIZE = 2
  AGG_SAMPLE_SIZE = 1048576
INVARIANTS
  
  ReferenceMatches
  KsStatistic
  IntervalsInPlace
CHECK_DEADLOCK FALSE
