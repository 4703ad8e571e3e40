SPECIFICATION Spec
CONSTANTS
    IntMax = 7
    SizeMod = 32
    Conns = {c1}
    NoConn = NoConn
    ConfigFiles <- McConfigFiles
    Reports <- McKnownReports
    Junk <- McJunk
    MaxLength = 10
    MaxSends = 1
    Faults = {"deferred"}
INVARIANTS
    AckedIsStored
