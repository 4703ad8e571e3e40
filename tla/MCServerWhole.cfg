SPECIFICATION Spec
CONSTANTS
    IntMax = 7
    SizeMod = 32
    Conns = {c1, c2}
    NoConn = NoConn
    ConfigFiles <- McConfigFiles
    Reports <- McSignedReports
    Junk <- McJunk
    MaxLength = 10
    MaxSends = 2
    Faults = {"args", "dbdown", "bind", "accept", "dberror", "deferred", "eof"}
INVARIANTS
    TypeOK
    SafetyInv
    SafeLifetimes
    SingleTransaction
    OneOperation
    AcksMatchInserts
    StoredAtMostOnce
    RowsAreReports
    NoCrashWhileServing
    FailedStartServesNobody
PROPERTIES
    QuietAfterJoin
    ImplementsCollector
