CONSTANTS
  Runs = {r1}
  Workers = {w1, w2}
  Reconcilers = {c1, c2}
  NoOwner = NoOwner
  NoRun = NoRun
  MinAge = 1
  RetryInterval = 2
  PublishTime = 1
  MaxCopies = 3
  MaxFaults = 3
SPECIFICATION FairSpec
INVARIANTS TypeOK ConfirmedIsQueued OneRepublisher
PROPERTIES KeepsLifecycle TriggeredRunLeavesPending
