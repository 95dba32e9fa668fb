CONSTANTS
  na = na
  nb = nb
  nl = nl
  NInodes = 4
  TotalBlocks = 5
  NBlocks = 3
  NDirect = 2
  PerBlk = 2
  Names <- MCNames
  Cut <- MCCut
  NoName = NoName
  Paths <- MCPaths
  Texts = {t, u}
  Sizes = {3}
  Uses = {"write", "mkdir", "longname"}
  Junk <- MCJunk
  PowerCuts = TRUE
SPECIFICATION Spec
INVARIANTS DiskSound
PROPERTIES FilesStay
CHECK_DEADLOCK FALSE
