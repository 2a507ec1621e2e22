SPECIFICATION Spec
CONSTANTS
    r1 = r1
    r2 = r2
    r3 = r3
    Target = target
    Everyone = everyone
    Route <- MCRoute
    Foreign <- MCPing
    Host = host
    MaxForeign = 1
    MaxLosses = 0
    MaxRepeats = 0
CHECK_DEADLOCK FALSE
INVARIANTS
    RouteIsTrue
