SPECIFICATION Spec
CONSTANTS
    a = a  b = b  x = x
    Names <- TwoNames
    Others <- NoObjs
    Timeouts = {TRUE}
    MaxChanges = 0
    MaxFaults = 0
INVARIANT EndsByReturning
CHECK_DEADLOCK FALSE
