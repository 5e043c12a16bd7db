CONSTANTS
  Heads = {h1, h2, h3, h4}
  Blocks = {b1, b2, b3, b4}
  None = None
SPECIFICATION HeadSpec
INVARIANTS CountExact NoDangling NoLeak
