\* Stacks of 3 elements, a shared array of 4 cells, texts of up to 4 characters.
CONSTANTS
  Node = {n1, n2, n3}
  Value = {v1, v2}
  Zero = zero
  None = None
  Capacity = 3
  SizeMod = 8
  MaxSize = 4
  Kind = {round, square}
  Other = other
  MaxText = 4
  TextNode = {n1, n2, n3, n4}
SPECIFICATION SuiteSpec
INVARIANTS SuiteTypeOK BothIntact Judges LeaksMismatched
PROPERTIES AnswersAreLifo SharesAllCells
CHECK_DEADLOCK FALSE
