SPECIFICATION FairSpec
CONSTANTS
    Calls = {c1, c2}
    Handlers = {h1, h2}
    Limit = 2
    MaxTokens = 2
    MaxArrivals = 3
    MaxConfigs = 2
    MaxFaults = 1
    MaxNights = 1
INVARIANTS
    TypeOK
    OvershootBounded
    FallbackNeedsRemoval
PROPERTY CallsEnd
CHECK_DEADLOCK FALSE
