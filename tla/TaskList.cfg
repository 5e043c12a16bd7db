CONSTANTS
  Tids = {a, b}
  Types = {exam, cmd}
  Ftimes = {early, late}
  Gone = Gone
  MaxTasks = 3
SPECIFICATION Spec
INVARIANTS TypeOK OneTaskPerTid FindsNewest
PROPERTIES AddKeepsOthers DelCurrentMovesOn
