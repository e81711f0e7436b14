CONSTANTS
    Client = {a, b, c}
    Room = {r}
    Chat = {k}
    NoRoom = NoRoom
    NoAddress = NoAddress
    NoThread = NoThread
    MaxClients = 2
    MayStop = {}
    MayDrop = {a}
    CountFloor <- MCFloor
    NicknameOf <- MCNicknameOf
    AddressOf <- MCAddressOf
    StaleAddress <- MCOldAddress
SPECIFICATION HistorySpec
INVARIANTS InOnePlace QueuedIsAlive ConfirmationAhead LastAssignmentKnown
PROPERTIES ImplementsLobby NeverRepeats
CHECK_DEADLOCK FALSE
SYMMETRY MCDropSymmetry
