SPECIFICATION Spec
CONSTANTS
  MAX_PROCESSES = 4
  shell = shell
  Programs = {shell, cat}
  Statuses <- MCStatuses
  NoValue = NoValue
  MAX_FRAMES = 1
VIEW LiveState
INVARIANT ParentRestored
