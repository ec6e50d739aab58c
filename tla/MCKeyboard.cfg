SPECIFICATION Spec
CONSTANTS
  Terminals = {1, 2}
  a = a
  b = b
  Letters <- MCLetters
  NUL = NUL
  KEY_BUFFER_SIZE = 2
  NUM_COLS = 9
  UINT = 4
  ReadSizes = {1, 3}
  PromptColumns = {7}
  MAX_LINES = 100
  MIN_BOUND = 6
  MAX_BOUND = 9
  MIN_X = 0
  Users <- MCUsers
VIEW LineState
PROPERTIES
    EnterEndsRead
INVARIANTS
  TypeOK
  PatientOneLine
  KeysInBounds
  NoCrossTalk
  CursorAligned
