CONSTANTS
    Key <- MCKey
    Value <- MCValue
    NoValue = NoValue
    NoFile = NoFile
    None = None
    Builds = {"baseline", "custom"}
    Chunk = 64
    Fault = {"crash", "power", "oom", "full", "io", "read"}
    MaxFaults = 2
SPECIFICATION Spec
INVARIANTS PromiseKept TornTail
PROPERTY NothingForgotten
