CONSTANTS
  Runs = {r1}
  Workers = {w1, w2}
  Tokens = {k1, k2, k3}
  NoOwner = NoOwner
  NoRun = NoRun
  Interval = 1
  DbCall = 1
  Lease = 2
  Shutdown = 1
  Grace = 4
SPECIFICATION FairSpec
INVARIANTS TypeOK OneExecutor LiveOwnerNotOrphaned HistoryAgrees
PROPERTIES OutcomeIsFinal KeepsLifecycle OrphanRecovered LossStopsWork
