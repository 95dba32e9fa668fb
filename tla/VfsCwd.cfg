CONSTANTS
  na = na
  nb = nb
  t = t
  NClusters = 8
  PerCluster = 4
  EntryNames <- MCEntryNames
  Dot = Dot
  DotDot = DotDot
  NoName = NoName
  Texts = {t}
  Names <- MCNames
  Strings <- MCCwdStrings
  Contents <- MCContents
  AppendMax = 5
  BootCalls <- MCBootCalls
  Uses = {"cp", "overcwd"}
  Images <- MCImages
  Paths <- MCPaths
  MaxCalls = 2
  PowerCuts = FALSE
SPECIFICATION Spec
INVARIANTS CwdIsDirectory
