\* The ring has 3 cells, each of the two stacks 3, the circle 4 nodes (3
\* elements) and the linked queue 3 nodes.
CONSTANTS
  Node = {n1, n2, n3, n4}
  LinkedNode = {n1, n2, n3}
  Value = {v1, v2}
  Zero = zero
  None = None
  MaxSize = 3
  SizeMod = 8
  MaxDrift = 2
SPECIFICATION Spec
INVARIANTS TypeOK OneCircle LinkedInOrder
PROPERTIES AnswersAreFifo DestoryFrees CallsReturn
CHECK_DEADLOCK FALSE
