SPECIFICATION SlowDbSpec
CONSTANTS
    IntMax = 7
    SizeMod = 32
    Conns = {c1, c2}
    NoConn = NoConn
    ConfigFiles <- McConfigFiles
    Reports <- McKnownReports
    Junk <- McJunk
    MaxLength = 10
    MaxSends = 1
    Faults = {}
PROPERTIES
    ConnectionsIndependent
