CONSTANTS
    Key <- MCKey3
    Value = {v, w}
    n1 = n1
    n2 = n2
    n3 = n3
    Node = {n1, n2, n3}
    Malloc <- MCMalloc
    Header = Header
    Null = Null
    MaxLevel = 2
SPECIFICATION FairSpec
INVARIANTS LevelSorted IndexInBounds HeapExact WalksLiveNodes
PROPERTIES ImplementsMap CallsReturn
