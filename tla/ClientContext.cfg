SPECIFICATION FairSpec
CONSTANTS
    SndBuf = 2
    Wnd = 3
    Timeout = 1
    FlushWait = 1
    MaxWrite = 3
    MaxWrites = 2
    MaxReceived = 4
INVARIANTS TypeOK WrittenExact SyncIdleIsAcked WindowExact
PROPERTIES FlushMeansAcked UnrefIsGraceful CallsReturn
CHECK_DEADLOCK FALSE
