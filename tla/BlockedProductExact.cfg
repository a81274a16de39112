CONSTANTS
    M = 2  K = 2  N = 2
    BM = 2  BN = 2  BK = 2
    W = 2
    T = 1
SPECIFICATION Spec
INVARIANT ProductExact
