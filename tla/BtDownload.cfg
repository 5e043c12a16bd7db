CONSTANTS
  d1 = d1
  d2 = d2
  Downloads = {d1, d2}
  Size <- MCSize
  Overlap = FALSE
  UserStates = {0, 1, 2}
  m_nPeerTimeOut = 1
  m_nTimedOut = 2
  bCheckTimeOut = TRUE
SPECIFICATION FairSpec
INVARIANTS LockReleased
PROPERTIES ZeroMeansReceived FailedIsRemoved CallsReturn
