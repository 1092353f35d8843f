CONSTANTS
    Slots = {s1}
    NoRow = NoRow
    NoContainer = NoContainer
    NoRef = NoRef
    ByName = ByName
    NoToken = NoToken
    NoInstance = NoInstance
    NoSlot = NoSlot
    Operations <- AllOperations
    MaxRequests = 2
    MaxDeaths = 0
    MaxCrashes = 0
    MaxFaults = 0
SPECIFICATION FairSpec
CHECK_DEADLOCK FALSE
PROPERTY IdleContainerStops
