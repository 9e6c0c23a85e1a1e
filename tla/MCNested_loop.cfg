SPECIFICATION FairSpec
CONSTANTS
    Counts = {0, 1, 2}
    Durations <- MCDurations
    Intervals = {TRUE, FALSE}
    MaxIter = 3
    Width = 2
    Jobs = {"b", "v", "other"}
    KindOf <- MCKindOf
    Troubles = 1
    JobOf <- MCJobOf
INVARIANTS TypeOK Bracketed NoErrorLost RunsExactly AllGone IterationLeavesNothing
PROPERTIES StopsPromptly LimitEnds
CHECK_DEADLOCK FALSE
