SPECIFICATION Spec
CONSTANTS
    Sessions = {s1, s2}
    NoSession = none
    MaxMessages = 4
INVARIANT
    ChecksHold
CHECK_DEADLOCK FALSE
