CONSTANTS
    Models = {m1, m2}
    Counts = {1, 2}
    None = None
    MaxEvents = 3
SPECIFICATION Spec
INVARIANT TypeOK
INVARIANT CountsWholeEvents
CHECK_DEADLOCK FALSE
