CONSTANTS
    Key <- MCKey
    Value <- MCValueShort
    NoValue = NoValue
    NoFile = NoFile
    None = None
    Builds = {"custom"}
    Chunk = 6
    Fault = {}
    MaxFaults = 0
SPECIFICATION Spec
INVARIANT RecoveryMeansComplete
