CONSTANTS
    Client = {a, b}
    Room = {r, s}
    Chat = {k, l}
    NoRoom = NoRoom
    NoAddress = NoAddress
    NoThread = NoThread
    MaxClients = 2
    MayStop = {}
    MayDrop = {}
    CountFloor <- MCFloor
    NicknameOf <- MCNicknameOf
    AddressOf <- MCAddressOf
    StaleAddress <- MCStale
SPECIFICATION FairSpec
INVARIANTS ExactOccupancy
PROPERTIES MatchedPairTalks SleeperReleased
CHECK_DEADLOCK FALSE
