CONSTANTS
  Paths <- MCPaths
  t1 = t1
  r1 = r1
  Texts = {t1, t2}
  Buildable = {t1, t2}
  Unbuildable = {}
  Renderers = {r1}
  Grace = 1
  None = None
  MaxClock = 1
  MaxEdits = 1
  MaxMishaps = 1
SPECIFICATION MCSpec
PROPERTIES LoopRecovers
CHECK_DEADLOCK FALSE
