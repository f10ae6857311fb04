\* Two workers, a limit of two, a window of three ticks.
SPECIFICATION LimiterSpec
CONSTANTS
  Workers = {w1, w2}
  Limit = 2
  Window = 3
CHECK_DEADLOCK FALSE
INVARIANTS
  LimiterTypeOK
  TwoWindowsAtMost
PROPERTIES
  RefusalsEnd
