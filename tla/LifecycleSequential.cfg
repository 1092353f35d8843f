CONSTANTS
    Slots = {s1}
    NoRow = NoRow
    NoContainer = NoContainer
    NoRef = NoRef
    ByName = ByName
    NoToken = NoToken
    NoInstance = NoInstance
    NoSlot = NoSlot
    Operations <- AllOperations
    MaxRequests = 5
    MaxDeaths = 1
    MaxCrashes = 0
    MaxFaults = 1
SPECIFICATION FairSpec
INVARIANT Coherent
INVARIANT NoTokenWithoutContainer
PROPERTY DispatchUsesSelectedLlm
PROPERTY StampedContainerStops
CHECK_DEADLOCK FALSE
