\* A queue of 4 elements whose block really holds 5 of the ring's 5 cells.
CONSTANTS
  Capacity = 4
  Block = 5
  SizeMod = 16
  Value = {v1, v2}
  None = None
SPECIFICATION Spec
INVARIANTS TypeOK HeldIntact
PROPERTY FifoUntilOverrun
