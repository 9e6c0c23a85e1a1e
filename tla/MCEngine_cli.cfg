SPECIFICATION FairSpec
CONSTANTS
    Flows = {1, 2}
    Concurrent = FALSE
    Cleanup = TRUE
    TaskIds <- CliTaskIds
    Gvrs = {"job", "svc"}
    Spaces = {"a"}
    Shapes <- MCShapes
    Programs <- CliPrograms
    Foreign <- MCForeign
    MaxFaults = 2
    None = None
CHECK_DEADLOCK FALSE
INVARIANTS
    SequentialNeverRaces
    NilResetSwept
PROPERTY
    RunReturns
