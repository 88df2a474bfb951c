SPECIFICATION TokenSpec
CONSTANTS
    t1 = t1
    t2 = t2
    k1 = k1
    k2 = k2
    k3 = k3
    k4 = k4
    Empty = Empty
    Goroutines <- MCGoroutines
    Tokens <- MCTokens
INVARIANTS
    TokenTypeOK
    RefreshConsistent
PROPERTIES
    TokenRenewed

