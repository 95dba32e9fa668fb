CONSTANTS
  Procs = {k, a, b, c}
  Kernel = k
  Creators = {k, a}
  Priorities <- MCPriorities
  Garbage <- MCGarbage
  MaxProcessos = 16
SPECIFICATION FairSpec
INVARIANTS IndInv
PROPERTIES DeadStaysDead CreditedRuns
CHECK_DEADLOCK FALSE
