CONSTANTS
    Client = {a, b, c}
    Room = {r, s}
    Chat = {k}
    NoRoom = NoRoom
    NoAddress = NoAddress
    NoThread = NoThread
    MaxClients = 3
    MayStop = {}
    MayDrop = {}
    CountFloor <- MCFloor
    NicknameOf <- MCNicknameOf
    AddressOf <- MCAddressOf
    StaleAddress <- MCStale
SPECIFICATION HistorySpec
PROPERTIES NeverTwiceInARow
CHECK_DEADLOCK FALSE
SYMMETRY MCAllSymmetry
