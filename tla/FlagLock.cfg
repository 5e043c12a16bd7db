CONSTANTS
  Threads = {t1, t2, t3}
  timeouts = 2
SPECIFICATION FairSpec
INVARIANTS FlagHeld ExclusiveUnlessOverwritten
PROPERTIES CallsReturn
