CONSTANTS
  Columns = 20
  Indents = {0}
  Widths = {1, 7, 11, 17, 45}
  MaxAtoms = 5
SPECIFICATION ReflowSpec
INVARIANT PieceWithinColumns
CHECK_DEADLOCK FALSE
