SPECIFICATION FairSpec
CONSTANTS
    Interval = 3
    MaxLag = 7
    Faults = {"args", "deferred", "eof", "connect", "write", "read"}
INVARIANTS
    TypeOK
    ClientInv
    TaskEndsBeforeMain
    ScheduleKept
    AtMostOneLateReport
PROPERTIES
    QuitEndsClient
