CONSTANTS
  Char = {a, b}
  LongestText = 6
  LongestPattern = 5
  Most = 3
  LongestArray = 4
  LongestSearched = 5
  LongestList = 4
  MaxGets = 4
  Value = {0, 1, 2, 3}
  Arrays <- SmallArrays
  Deleted <- SmallSets
  None = None
SPECIFICATION SuiteSpec
INVARIANT Finds
CHECK_DEADLOCK FALSE
