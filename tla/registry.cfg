CONSTANTS
    Client = {1, 2, 3, 4, 5, 6, 7, 8}
    MaxInside = 6
    SumOf <- MCTwins
SPECIFICATION ARSpec
INVARIANTS InOrder Balanced
PROPERTIES CheckIsExact ImplementsRegistry
