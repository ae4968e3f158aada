CONSTANTS
  Runs = {r1}
  Workers = {w1}
  Tokens = {k1, k2}
  NoOwner = NoOwner
  NoRun = NoRun
  Interval = 1
  DbCall = 1
  Lease = 2
  Shutdown = 1
  Grace = 4
SPECIFICATION Spec
INVARIANT NoExecutionAfterRelease
