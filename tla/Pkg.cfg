CONSTANTS
  Names = {"base", "app", "programa"}
  Paths = {"p", "q", "r"}
  Records <- MCRecords
  Deps <- MCDeps
  Below <- MCBelow
  Eight = {"programa"}
  Served = {"base", "app"}
  Bytes = {"h", "r", "n", "x", "y"}
  Header <- MCHeader
  Body <- MCBody
  PieceMax = 6
  BufSize = 2
  DbMax = 2
  MaxFails = 2
SPECIFICATION Spec
INVARIANTS SavedIsBody FilesMatchDb
PROPERTIES DepsFirst
