CONSTANTS
  Writers = {w}
  Publishers = {p}
  Releases = {r1, r2}
  NoRelease = NoRelease
  AutoEnable = TRUE
  MaxRequests = 4
  Calls = {c1, c2}
  Keys = {k1, k2}
  Handles = {h1, h2}
  NoHandle = NoHandle
  Limit = 1
  Timeout = 1
  Ttl = 2
  MaxFaults = 1
SPECIFICATION Spec
SYMMETRY Symmetry
CHECK_DEADLOCK FALSE
INVARIANTS TypeOK ReleasedAsReviewed NothingToReview OncePerKey WithinLimit LeaseFollowsRun
PROPERTIES WithdrawnStaysWithdrawn SettledIsFinal
