CONSTANTS
  Sockets = 2
  RxSize = 2
  Limit = 1
  MaxConns = 2
  MaxData <- MCMaxData
  MaxSent <- MCMaxSent
  MaxExtra = 0
SPECIFICATION FairSpec
INVARIANTS CleanReads SocketsSound SentInOrder
PROPERTIES CallReturns
CHECK_DEADLOCK FALSE
