CONSTANTS
    Messages = {m1, m2}
    MaxReplies = 3
    MaxFaults = 1
    MaxCrashes = 1
SPECIFICATION FairSpec
CHECK_DEADLOCK FALSE
INVARIANT TypeOK
INVARIANT SeqsIncrease
INVARIANT FreshUnlessBacklog
INVARIANT RecordedBeforePosted
INVARIANT NoTextPassedOver
PROPERTY WaitsEnd
