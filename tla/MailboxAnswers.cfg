CONSTANTS
    Messages = {m1, m2}
    MaxReplies = 2
    MaxFaults = 0
    MaxCrashes = 0
SPECIFICATION Spec
CHECK_DEADLOCK FALSE
INVARIANT AnswersItsMessage
