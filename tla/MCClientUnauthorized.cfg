SPECIFICATION Spec
CONSTANTS
    Interval = 2
    MaxLag = 2
    Faults = {}
INVARIANT UnauthorizedStops
