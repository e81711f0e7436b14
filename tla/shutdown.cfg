CONSTANTS
    RoomCount = 2
    Handler = {h1, h2}
SPECIFICATION FairSpec
INVARIANTS TypeOK NeverFreedInside NothingFreedEarly
PROPERTIES WindsDown MainEnds SleepersEnd
CHECK_DEADLOCK FALSE
