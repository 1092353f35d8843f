CONSTANTS
    Schedules = {once, daily, blank}
    RunOnce = {once}
    Blank = {blank}
    Ticks = {t1, t2}
    NoSchedule = NoSchedule
    MaxDue = 3
    MaxFaults = 0
    MaxCrashes = 0
SPECIFICATION Spec
CHECK_DEADLOCK FALSE
INVARIANT RunOnceRunsOnce
