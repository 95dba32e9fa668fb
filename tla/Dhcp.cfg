CONSTANTS
  Servers = {"A", "B"}
  Omits <- MCOmits
  Names = {"um", "dois", "longo"}
  LongNames = {"longo"}
  Handlers = 2
  Limit = 1
  MaxCalls = 2
  MaxQueries = 2
SPECIFICATION Spec
INVARIANTS OneServerConfig AnswerIsForName ClientsSound
CHECK_DEADLOCK FALSE
