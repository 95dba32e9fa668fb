CONSTANTS
  Bytes = {30, 57, 28, 14, 1, 72, 80, 29, 224}
  MAX_INPUT = 5
  HISTORICO_MAX = 2
  ARGS_MAX = 1
  VGA_COLS = 5
  Prompt <- MCPrompt
  tabela <- MCTabela
  Tecla <- MCTecla
  MaxKeys = 8
SPECIFICATION Spec
INVARIANTS ScreenAndHistory
PROPERTIES KeysInOrder ArrowRecalls RunsTheWords
