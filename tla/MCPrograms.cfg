SPECIFICATION SpecPrograms
CONSTANTS
  FILE_NAME_LENGTH = 3
  BLOCK_SIZE = 4
  UINT = 64
  dentries <- MCdentries
  inodes <- MCinodes
  data_blocks <- MCdata_blocks
  Visible <- MCVisible
  Pids = {0, 1, 2}
  MAX_FILES = 5
  FileNames = {}
  ReadSizes = {}
  Commands <- MCCommands
  Replies <- MCReplies
  CounterMax <- MCCounterMax
  RADIX = 2
  CAT_BUFSIZE = 4
  GREP_BUFSIZE = 5
  SBUFSIZE = 4
  WAIT = 2
  BadNames <- MCBadNames
  Garbage <- MCGarbage
INVARIANTS
  TypeOKPrograms
  ArgsDelivered
  RightOutput
  TestsPass
PROPERTY ProgramsEnd
