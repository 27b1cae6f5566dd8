CONSTANTS
  Tenths = {716, 468, 500}
  MaxHeight = 1400
  Track = 454
  MaxBars = 2
SPECIFICATION ChartsSpec
INVARIANT PointsAreDecimal
CHECK_DEADLOCK FALSE
