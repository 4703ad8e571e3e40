SPECIFICATION Spec
CONSTANTS
    IntMax = 7
    SizeMod = 32
    Conns = {c1}
    NoConn = NoConn
    ConfigFiles <- McConfigFiles
    Reports <- McSplitReports
    Junk <- McJunk
    MaxLength = 10
    MaxSends = 2
    Faults = {"split", "dberror", "deferred"}
INVARIANTS
    AcksMatchInserts
    OnlyConfiguredStored
