\* Texts of up to 6 and patterns of up to 5 of two characters; arrays of up to
\* 4 elements (5 for the majority), lists of up to 4 nodes; circles and lists
\* whose data do not matter of up to 7. Most stands for INT_MAX.
CONSTANTS
  Char = {a, b}
  LongestText = 6
  LongestPattern = 5
  Most = 3
  LongestArray = 4
  LongestSearched = 5
  LongestList = 4
  MaxGets = 4
  Value = {0, 1, 2, 3}
  Arrays <- SmallArrays
  Deleted <- SmallSets
  None = None
SPECIFICATION SuiteSpec
INVARIANTS SuiteTypeOK BorderTables KeepsOrder FindsMajority Answers NoNodeLost
PROPERTY Ends
CHECK_DEADLOCK FALSE
