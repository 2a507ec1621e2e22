SPECIFICATION FairSpec
CONSTANTS
    r1 = r1
    r2 = r2
    r3 = r3
    Target = target
    Everyone = everyone
    Route <- MCRoute
    Foreign <- MCForeign
    Host = host
    MaxForeign = 2
    MaxLosses = 1
    MaxRepeats = 2
CHECK_DEADLOCK FALSE
INVARIANTS
    TypeOK
    RouteIsTrue
    EveryProbeSent
    StopsAtTarget
PROPERTIES
    RouteIsFound
