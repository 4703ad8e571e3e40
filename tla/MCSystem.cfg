SPECIFICATION SysFairSpec
CONSTANTS
    IntMax = 7
    SizeMod = 32
    Conns = {c1, c2}
    ClientKeys <- McClientKeys
    NoConn = NoConn
    ConfigFiles <- McConfigFiles
    Reports <- McReports
    Junk <- McJunk
    MaxLength = 10
    MaxSends = 1
    Faults = {"dberror"}
    ClientFaults = {"connect", "write", "read"}
    Interval = 1
    MaxLag = 1
INVARIANTS
    DeliveredOnce
    RefusedLeavesNothing
    FailureIsNeverSeen
    RowsInOrder
PROPERTIES
    QuitEndsClientOfServer
    SessionsOfReportsEnd
