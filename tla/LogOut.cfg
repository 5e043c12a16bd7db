CONSTANTS
  Threads = {t1, t2, t3}
  timeouts = 2
  m_nSize = 2
SPECIFICATION LogFairSpec
INVARIANTS  FlagHeld
PROPERTIES WritesReturn
