CONSTANTS
  Ring = 8
  Slack = 1
  Laps = 2
  Buffers = {b1, b2}
  CacheSize = 1
  Hosts = {"gateway", "vizinho"}
  Macs = {1, 2}
  Traffic <- MCTraffic
  Sizes <- MCSizes
  Wait = 1
  MaxFrames = 4
SPECIFICATION FairSpec
INVARIANTS StackSound HandedOnce SentAsGiven
PROPERTIES CallsReturn
CHECK_DEADLOCK FALSE
