CONSTANTS
    M = 3  K = 6  N = 3
    BM = 2  BN = 2  BK = 4
    W = 2
    T = 3
SPECIFICATION Spec
INVARIANTS ReadsFilled RowUsedOnce
PROPERTY Outcome
