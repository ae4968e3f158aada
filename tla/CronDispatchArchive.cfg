CONSTANTS
  Processes = {p1, p2}
  Configs <- Guarded
  ApiTimes = {}
  MaxTime = 4
  MaxRuns = 1
  MaxRows = 1
  NoRow = NoRow
  NoState = NoState
  Minute = 2
SPECIFICATION Spec
INVARIANT ArchivedHasNoSchedule
