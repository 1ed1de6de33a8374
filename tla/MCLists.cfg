\* Linked lists of 4 nodes whose length is followed up to 5; an array of 4 cells;
\* graphs of 3 vertices and 3 arcs.
CONSTANTS
  Node = {n1, n2, n3, n4}
  Value = {v1}
  None = None
  MaxLength = 5
  Unwritten = unwritten
  Capacity = 4
  Element = {v1, v2}
  Arc = {n1, n2, n3}
  Vertex = {x, y, z}
  MaxVertices = 3
SPECIFICATION Spec
INVARIANTS TypeOK FollowsItems LengthDrifts CrashNeedsDrift LookupsMissOne
SYMMETRY Symmetric
CHECK_DEADLOCK FALSE
