CONSTANTS
  Processes = {p1, p2}
  Configs <- Windowed
  ApiTimes = {4}
  MaxTime = 4
  MaxRuns = 2
  MaxRows = 2
  NoRow = NoRow
  NoState = NoState
  Minute = 2
  Schedules <- Zoned
  WalkTime = 30
  Creators = {a1, a2, a3}
  Limit = 2
  NoCreator = NoCreator
SPECIFICATION CronSpec
SYMMETRY Symmetry
INVARIANTS TypeOK OneRunPerOccurrence RunsAreOccurrences
INVARIANTS PlansGoOn NextIsFirst ScheduleAdvances
INVARIANT WithinQuota
PROPERTY NoOverlap
