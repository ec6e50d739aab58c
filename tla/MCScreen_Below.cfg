SPECIFICATION Spec
CONSTANTS
  Terminals = {1}
  NUM_ROWS = 2
  NUM_COLS = 3
  KEY_BUFFER_SIZE = 2
  Banner <- MCBanner
  Prompt <- MCPrompt
  Message <- MCMessage
  DrawCells = {1}
  MAX_Y = 2
  Users = {"hasty"}
INVARIANT OnScreen
