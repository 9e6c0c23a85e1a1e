SPECIFICATION FairSpec
CONSTANTS
    a = a  b = b  x = x
    Names <- TwoNames
    Others <- OneOther
    Timeouts = {TRUE, FALSE}
    MaxChanges = 2
    MaxFaults = 1
INVARIANTS TypeOK MapIsUnseen OnceIsExact
PROPERTIES PromiseSpec SettledIsNoticed
CHECK_DEADLOCK FALSE
