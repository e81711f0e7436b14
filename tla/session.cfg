CONSTANTS
    Lower = 2
    MaxInFlight = 2
    MessageCount = 3
SPECIFICATION FairSpec
INVARIANTS TypeOK InOrder EndingIsTold KnowsItsChat
PROPERTIES StopIsHeard
CHECK_DEADLOCK FALSE
