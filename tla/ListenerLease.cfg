CONSTANTS
  Runtimes = {p1, p2}
  Nobody = Nobody
  MaxEdits = 1
  MaxFaults = 1
  MaxTrouble = 1
SPECIFICATION FairSpec
INVARIANTS TypeOK InactiveIsReal OneAdapter
PROPERTIES OverlapEnds StopReachesAdapters ActiveIsServed
