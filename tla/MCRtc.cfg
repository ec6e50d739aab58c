SPECIFICATION Spec
CONSTANTS
  Terminals = {1, 2}
  ClientSets <- OneOrTwo
  Freqs = {0, 2, 3, 16383}
  MAX_OPENS = 2
VIEW ClockState
INVARIANTS
  TypeOK
  FreshTick
  MaskedWhenClosed
  FrequencySet
  AloneDividerKept
PROPERTY ReadReturns
