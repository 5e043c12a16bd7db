CONSTANTS
  ip = ip
  ipmask = ipmask
  Sections = {SERVER, LOG}
  Keys = {ip, port}
  Values = {v, w}
  Percents = {w}
  ProperPrefixes <- NoPrefixes
  InitialLines = 3
  None = None
SYMMETRY Symmetry
SPECIFICATION Spec
INVARIANTS WriteIsExact
PROPERTY RewriteKeepsLines
