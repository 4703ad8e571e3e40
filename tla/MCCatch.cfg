SPECIFICATION RunSpec
CONSTANTS
    Lower <- MCLower
    Rank <- MCRank
    Files <- MCFiles
    Unopenable <- MCUnopenable
    Number <- MCNumber
    NoLimit = 1000000
    Runs <- MCRuns
INVARIANTS
    RequestHonoured
    SectionsRunOnce
    ExitCodeTellsFailures
    AbortLimitKept
    ReportComplete
PROPERTY
    RunEnds
