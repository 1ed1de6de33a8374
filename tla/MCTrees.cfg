\* Trees with places up to 7 (three levels); those whose nodes are piled on a
\* stack have at most 4 nodes. The trees of the recursive and the threaded walks
\* are those with places up to 15 (four levels) and at most 5 nodes.
CONSTANTS
  Node = {n1, n2, n3, n4}
  None = None
  Last = 7
  MostPiled = 4
  MaxDrift = 7
  LastDeep = 15
  MostDeep = 5
SPECIFICATION Spec
INVARIANTS TypeOK LevelWalks InOrder AllButOneSubtree TreeAnswers
PROPERTY Returns
CHECK_DEADLOCK FALSE
