CONSTANTS
  Node = {n1, n2, n3, n4}
  None = None
  Last = 7
  MostPiled = 4
  MaxDrift = 7
  LastDeep = 15
  MostDeep = 5
SPECIFICATION Spec
INVARIANT JudgesCompleteness
CHECK_DEADLOCK FALSE
