\* The cell given up to tell full from empty is expected inside the block.
CONSTANTS
  Capacity = 2
  Block = 2
  SizeMod = 16
  Value = {v1, v2}
  None = None
SPECIFICATION Spec
INVARIANT InBlock
