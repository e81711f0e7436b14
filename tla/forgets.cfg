CONSTANTS
    Client = {1, 2, 3, 4, 5, 6, 7}
    MaxInside = 7
    SumOf <- MCDistinct
SPECIFICATION ARSpec
INVARIANT NobodyForgotten
