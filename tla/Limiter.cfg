SPECIFICATION Spec
CONSTANTS
  Checks = {c1, c2}
  LimitMin = 1
  LimitDay = 2
  MinWindow = 5
  DayWindow = 7
  MinTTL = 6
  DayTTL = 8
  NotifyTTL = 6
  Faulty = TRUE
  MaxClock = 9
SYMMETRY CheckSymmetry
INVARIANTS
  TypeOK
  OverAdmissionBounded
  WindowBounded
  RejectionJustified
  OneNoticePerPeriod
  SilentAfterNotice
