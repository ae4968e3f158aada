CONSTANTS
  Adapters = {a1, a2}
  Irrelevant <- SecondIrrelevant
  Limit = 2
  Window = 1
  MaxEvents = 3
  MaxTime = 2
  MaxFaults = 1
SPECIFICATION FairSpec
INVARIANTS TypeOK OncePerWindow DropsOnlyHandled
PROPERTY EventDispatched
