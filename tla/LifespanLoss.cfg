SPECIFICATION Spec
CONSTANTS
  Events = {e1}
  QueueSize = 1
  BatchSize = 1
  Faulty = FALSE
  PoolOrder <- TwoPools
  Scores = {50}
  Window = 2
  Recent = 2
  Threshold = 5
INVARIANTS ShutdownKeepsAll
