CONSTANTS
  Processes = {p1, p2}
  Configs <- Open
  ApiTimes = {}
  MaxTime = 4
  MaxRuns = 2
  MaxRows = 1
  NoRow = NoRow
  NoState = NoState
  Minute = 2
SPECIFICATION Spec
INVARIANT OneRunPerOccurrence
