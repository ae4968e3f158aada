CONSTANTS
  Minute = 2
  Schedules <- Zoned
  WalkTime = 30
SPECIFICATION WalkSpec
CHECK_DEADLOCK FALSE
INVARIANT NextIsAfter
