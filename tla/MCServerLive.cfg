SPECIFICATION FairSpec
CONSTANTS
    IntMax = 7
    SizeMod = 32
    Conns = {c1, c2}
    NoConn = NoConn
    ConfigFiles <- McConfigFiles
    Reports <- McReports
    Junk <- McJunk
    MaxLength = 10
    MaxSends = 1
    Faults = {"dberror", "deferred", "accept", "eof"}
PROPERTIES
    ShutdownCompletes
    ReportsAnswered
    SessionsEnd
    ImplementsFairCollector
