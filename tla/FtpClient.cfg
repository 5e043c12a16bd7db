CONSTANTS
  d = d
  u = u
  Fetched = {d}
  Stored = {u}
  Size <- MCSize
  RestHonoured = TRUE
  MaxPending = 2
SPECIFICATION FairSpec
INVARIANTS LocalIsPrefix RemoteIsPrefix ProgressIsTrue
PROPERTY CallsReturn
