SPECIFICATION FairSpec
CONSTANTS
  Events = {e1, e2, e3}
  QueueSize = 2
  BatchSize = 2
  Faulty = TRUE
  PoolOrder <- TwoPools
  Scores = {0, 10}
  Window = 3
  Recent = 1
  Threshold = 5
INVARIANTS
  InOnePlace
  OneInserter
  StopDrains
  RoundsAligned
  UsesOpenConnections
  TrendFollowsScores
PROPERTIES
  Flushed
  StopEnds
  KeepsSampling
