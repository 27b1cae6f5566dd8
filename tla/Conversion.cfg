CONSTANTS
  Columns = 20
  Indents = {0, 4, 10, 15}
  Widths = {1, 7, 11, 17, 45}
  MaxAtoms = 5
  Headlines = {"", "a", "bell"}
  FrontTitles = {"", "bell"}
  FileTitle = "doc"
  Unprintable = {"bell", "control"}
  MaxTokens = 4
  CellWidths = {0, 4, 9}
  TableColumns = 20
  MaxColumns = 3
  MaxRows = 2
  ImagePaths = {"p1", "p2"}
  Contents = {"x", "y"}
  Figures = {"f1"}
  References <- MCReferences
  NoImage = NoImage
  MaxSaves = 2
  MaxBuilds = 2
  MaxDeaths = 1
  Tenths <- MCTenths
  MaxHeight = 256
  Track = 454
  MaxBars = 4
SPECIFICATION ConversionSpec
INVARIANTS ConversionTypeOK  NothingLost SpineIsDocument DamageStaysApart WideTableKeepsItsCells PackageClosed PageShowsItsPictures ChartIsTrue
CHECK_DEADLOCK FALSE
