SPECIFICATION Spec
CONSTANTS
    Flows = {1, 2}
    Concurrent = FALSE
    Cleanup = TRUE
    TaskIds <- MCTaskIds
    Gvrs = {"job", "svc"}
    Spaces = {"a"}
    Shapes <- MCShapes
    Programs <- TwicePrograms
    Foreign <- MCForeign
    MaxFaults = 0
    None = None
CHECK_DEADLOCK FALSE
INVARIANT
    UniqueIdsSuffice
