CONSTANTS
  Procs = {k, a, b, c}
  Kernel = k
  Creators = {k, a}
  Priorities <- MCPriorities
  Garbage <- MCGarbage
  MaxProcessos = 16
SPECIFICATION FairSpec
PROPERTIES DeadYields
CHECK_DEADLOCK FALSE
