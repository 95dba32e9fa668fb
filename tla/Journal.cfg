SPECIFICATION FairSpec
CONSTANTS
  sb = sb
  blk = blk
  z = z
  a = a
  Sectors <- MCSectors
  Super = sb
  Cached <- MCCached
  Values <- MCValues
  Zero = z
  NEntries = 3
  TxMod = 5
  IoErrors = FALSE
INVARIANTS IndInv CommitFindsOwnEntry
PROPERTIES ImplementsAtomicStore PendingEntriesFrozen CallsEnd
