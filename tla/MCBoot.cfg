SPECIFICATION Spec
CONSTANTS
    Letters = {"l", "backslash"}
    KEY_BUFFER_SIZE = 2
    UINT = 4
    Users <- MCUsers
INVARIANTS
    TypeOK
    KeysState
    FirstShell
PROPERTIES
    BootEnds
CHECK_DEADLOCK FALSE
