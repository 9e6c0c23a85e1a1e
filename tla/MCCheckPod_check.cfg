SPECIFICATION FairSpec
CONSTANTS
    a = a  b = b
    Pods <- TwoPods
    Hits <- OneHit
    PodCount = 2
    Status = TRUE
    Labels = TRUE
    Misplaced <- OneMisplaced
    Timeouts = {TRUE, FALSE}
    MaxChanges = 2
    MaxResyncs = 1
    MaxFaults = 1
INVARIANT TypeOK
PROPERTIES PromiseSpec SettledIsNoticed
CHECK_DEADLOCK FALSE
