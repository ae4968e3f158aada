CONSTANTS
  Adapters = {a1, a2}
  Irrelevant <- SecondIrrelevant
  Limit = 2
  Window = 2
  MaxEvents = 3
  MaxTime = 1
  MaxFaults = 1
SPECIFICATION Spec
INVARIANT AtLeastOnce
