SPECIFICATION Spec
CONSTANTS
  NumUsers = 4
  NumSessions = 2
  NumMessages = 4
  BatchSize = 2
  Limit = 1
  UserKinds <- TwoKinds
  Times = {0, 1}
  MaxRuns = 2
  MessageLimit = 2
  Cutoff = 1
INVARIANTS
  TypeOK
  SeededIsComplete
  NothingDangles
  ContextIsNewest
  ReportsAddUp
