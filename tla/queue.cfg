CONSTANTS
    a = a
    b = b
    c = c
    Client = {a, b, c}
    Node = {m, n, o, p}
    Null = Null
    Freed = Freed
    NicknameOf <- MCNicknameOf
SPECIFICATION LQSpec
INVARIANTS TypeOK ListIntact CallIntact
PROPERTY ImplementsRoomQueue
SYMMETRY MCSymmetry
CHECK_DEADLOCK FALSE
