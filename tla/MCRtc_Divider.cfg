SPECIFICATION Spec
CONSTANTS
  Terminals = {1, 2}
  ClientSets <- JustTwo
  Freqs = {32}
  MAX_OPENS = 1
INVARIANT DividerKept
