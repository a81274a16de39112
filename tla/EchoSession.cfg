CONSTANTS
    MAXLINE = 3
    SendBuf = 2
    RecvBuf = 4
    MaxLines = 5
SPECIFICATION FairSpec
INVARIANTS DeadlockNeedsInput AllReadAtEnd LostOnlyAfterAnswer ServerOutlivesClient
PROPERTIES WritesReturn ServerEnds
CHECK_DEADLOCK FALSE
