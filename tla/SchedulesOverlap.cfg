CONSTANTS
    Schedules = {once, daily, blank}
    RunOnce = {once}
    Blank = {blank}
    Ticks = {t1, t2}
    NoSchedule = NoSchedule
    MaxDue = 3
    MaxFaults = 1
    MaxCrashes = 1
SPECIFICATION FairSpec
CHECK_DEADLOCK FALSE
INVARIANT TypeOK
INVARIANT NeverOvercounts
INVARIANT OncePerDue
INVARIANT NoneLost
PROPERTY DueIsRun
