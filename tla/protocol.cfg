CONSTANTS
    RoomCount = 2
    MaxInFlight = 2
    MaxUnread = 6
    NameSize = 4
    MessageSize = 8
SPECIFICATION FairSpec
INVARIANTS TypeOK InStepUntilCrossed NeverBothListen SameEnding
PROPERTIES EndIsNoticed
CHECK_DEADLOCK FALSE
