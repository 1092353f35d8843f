CONSTANTS
    Users = {u1}
    Teams = {w1}
    HomeTeam = w1
    Tabs = {t1, t2}
    Events = {e1}
    None = None
    MaxRows = 2
    MaxPresses = 3
    MaxFaults = 1
    MaxRepeats = 1
    MaxCrashes = 1
SYMMETRY Symmetry
SPECIFICATION Spec
INVARIANT TypeOK
INVARIANT OneRowUnlessDoubled
INVARIANT HandledOnce
INVARIANT SentToConnected

CHECK_DEADLOCK FALSE
