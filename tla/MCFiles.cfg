SPECIFICATION Spec
CONSTANTS
  FILE_NAME_LENGTH = 2
  BLOCK_SIZE = 2
  UINT = 16
  dentries <- MCdentries
  inodes <- MCinodes
  data_blocks <- MCdata_blocks
  Visible <- MCVisible
  Pids = {0, 1}
  MAX_FILES = 4
  FileNames <- MCFileNames
  ReadSizes <- MCReadSizes
VIEW TableState
INVARIANTS
  TypeOK
  OwnDescriptors
  RtcBalance
  Stream
