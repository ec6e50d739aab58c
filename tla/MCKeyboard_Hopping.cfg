SPECIFICATION Spec
CONSTANTS
  Terminals = {1, 2}
  a = a
  b = b
  Letters <- MCLetters
  NUL = NUL
  KEY_BUFFER_SIZE = 2
  NUM_COLS = 9
  UINT = 20
  ReadSizes = {1, 3}
  PromptColumns = {7}
  MAX_LINES = 1
  MIN_BOUND = 0
  MAX_BOUND = 10
  MIN_X = 0
  Users <- MCHopping
INVARIANT OneLine
