CONSTANTS
  na = na
  nb = nb
  nl = nl
  NInodes = 4
  TotalBlocks = 5
  NBlocks = 3
  NDirect = 2
  PerBlk = 2
  Names <- MCNames
  Cut <- MCCut
  NoName = NoName
  Paths <- MCPaths
  Texts = {t, u}
  Sizes = {3}
  Uses = {"write", "overwrite", "mkdir", "unlink", "format", "longname"}
  Junk <- MCJunk
  PowerCuts = FALSE
SPECIFICATION Spec
INVARIANTS WrittenIsRead
