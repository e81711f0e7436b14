CONSTANTS
    RoomCount = 1
    MaxInFlight = 1
    MaxUnread = 3
    NameSize = 4
    MessageSize = 8
SPECIFICATION Spec
INVARIANTS InStep
CHECK_DEADLOCK FALSE
