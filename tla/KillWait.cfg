CONSTANTS
    NUM = 4
    Other = {other}
SPECIFICATION Spec
INVARIANTS OthersSpared ReportsTrue
PROPERTY EndsClean
CHECK_DEADLOCK FALSE
