CONSTANTS
    Slots = {s1, s2}
    NoRow = NoRow
    NoContainer = NoContainer
    NoRef = NoRef
    ByName = ByName
    NoToken = NoToken
    NoInstance = NoInstance
    NoSlot = NoSlot
    Operations <- AllOperations
    MaxRequests = 3
    MaxDeaths = 1
    MaxCrashes = 1
    MaxFaults = 1
SPECIFICATION MonitoredSpec
INVARIANT TypeOK
INVARIANT RunningHasContainer
PROPERTY TokensNeverRevive
PROPERTY ImplementsTokenRegistry
PROPERTY DispatchHeals
PROPERTY RestartHeals
PROPERTY StaleRowIsRepaired
CHECK_DEADLOCK FALSE
