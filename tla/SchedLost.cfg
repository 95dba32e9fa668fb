CONSTANTS
  Procs = {k, a, b, c}
  Kernel = k
  Creators = {k, a}
  Priorities <- MCPriorities
  Garbage <- MCGarbage
  MaxProcessos = 16
SPECIFICATION FairSpec
INVARIANTS CreatedListed
CHECK_DEADLOCK FALSE
