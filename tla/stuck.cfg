CONSTANTS
    Client = {a, b}
    Room = {r}
    Chat = {k}
    NoRoom = NoRoom
    NoAddress = NoAddress
    NoThread = NoThread
    MaxClients = 2
    MayStop = {}
    MayDrop = {a}
    CountFloor <- MCFloor
    NicknameOf <- MCNicknameOf
    AddressOf <- MCAddressOf
    StaleAddress <- MCStale
SPECIFICATION FairSpec

PROPERTIES ChatNotStuck
CHECK_DEADLOCK FALSE
