CONSTANTS
  Tids = {a, b}
  txt = txt
  Names = {txt}
  Checks <- MCChecks
  Scores = {1}
  Ftimes = {12}
  Types = {0, 1}
  Year = 3
  Hours = {1}
  TenDigits = 12
  MaxTasks = 2
SPECIFICATION Spec
CONSTRAINT MCInPlace
SYMMETRY MCSymmetry
INVARIANTS RoundTrip CrashDamagesOne
