CONSTANTS
    InSize = 3
    MinBuf = 2
    Capacity = 5
SPECIFICATION Spec
INVARIANTS TypeOK QuietLossOnlyIf InOrder DescriptorsRestored
