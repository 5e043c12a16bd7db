CONSTANTS
  MaxFd = 4
  BodyLen = 3
  Timeouts = {0, 30000}
SPECIFICATION FairSpec
INVARIANTS ZeroIsWhole HeadIsAwaited LosesAtMostOnePerBind
PROPERTIES RunReturns
