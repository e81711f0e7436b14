CONSTANTS
    Client = {a, b}
    Room = {r}
    Chat = {k}
    NoRoom = NoRoom
    NoAddress = NoAddress
    NoThread = NoThread
    MaxClients = 1
    MayStop = {a}
    MayDrop = {a, b}
    CountFloor <- MCFloor
    NicknameOf <- MCNicknameOf
    AddressOf <- MCAddressOf
    StaleAddress <- MCStale
SPECIFICATION Spec
INVARIANTS TypeOK NeverOvercounted MatchedHasChat LockDiscipline
PROPERTIES NoMissedMatch
CHECK_DEADLOCK FALSE
