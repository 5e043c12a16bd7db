CONSTANTS
  Scores = {0, 1, 7, 300}
  MaxItems = 5
SPECIFICATION ExamSpec
INVARIANTS SumIs100 NearExact WalkIsComplete
