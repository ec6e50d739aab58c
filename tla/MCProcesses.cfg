SPECIFICATION Spec
CONSTANTS
  MAX_PROCESSES = 4
  shell = shell
  Programs = {shell, cat}
  Statuses <- MCStatuses
  NoValue = NoValue
  MAX_FRAMES = 2
VIEW LiveState
INVARIANTS
  TypeOK
  ProcessAccounting
  RunningContext
  FamilyTree
  Generations
  LastIsRoot
  SavedFrames
  RootsAreShells
PROPERTIES
  ImageStable
  NoSuchCommand
  ImplementsStacks
