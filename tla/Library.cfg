CONSTANTS
  Paths <- MCPaths
  t1 = t1
  r1 = r1
  Texts = {t1, t2, bad}
  Buildable = {t1, t2}
  Unbuildable = {bad}
  Renderers = {r1, r2}
  Grace = 1
  None = None
  MaxClock = 2
  MaxEdits = 2
  MaxMishaps = 1
SPECIFICATION MCSpec
INVARIANTS TypeOK ListedHasEpub RowNamesItsEpub NoOrphans OnlyARevisionTakesIt
PROPERTIES Converges DueIsCollected KeepsPromise
CHECK_DEADLOCK FALSE
