CONSTANTS
  na = na
  nb = nb
  t = t
  NClusters = 6
  PerCluster = 4
  EntryNames <- MCEntryNames
  Dot = Dot
  DotDot = DotDot
  NoName = NoName
  Texts = {t}
  Names <- MCNames
  Strings <- MCStrings
  Contents <- MCContents
  AppendMax = 5
  BootCalls <- MCBootCalls
  Uses = {"write", "mkdir", "unlink", "rename", "cp"}
  Images <- MCImages
  Paths <- MCPaths
  MaxCalls = 2
  PowerCuts = TRUE
SPECIFICATION Spec
INVARIANTS VolumeSound
PROPERTIES ImplementsVolumeTree
