CONSTANTS
    Key <- MCKey3
    Value = {v, w}
    n1 = n1
    n2 = n2
    n3 = n3
    Node = {n1, n2, n3}
    Header = Header
    Null = Null
    Unset = Unset
    MaxLevel = 2
SPECIFICATION FairSpec
INVARIANTS TypeOK LevelSorted OnlySetPointersRead WhollyLinked SnapshotExact HeapExact
PROPERTIES ImplementsMap CallsReturn
