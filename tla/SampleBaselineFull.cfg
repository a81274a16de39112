CONSTANTS
    Key <- MCKey
    Value <- MCValueShort
    NoValue = NoValue
    NoFile = NoFile
    None = None
    Builds = {"baseline"}
    Chunk = 16
    Fault = {"full"}
    MaxFaults = 1
SPECIFICATION Spec
INVARIANT SuccessMeansComplete
