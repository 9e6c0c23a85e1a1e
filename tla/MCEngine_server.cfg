SPECIFICATION Spec
CONSTANTS
    Flows = {1, 2}
    Concurrent = TRUE
    Cleanup = TRUE
    TaskIds <- MCTaskIds
    Gvrs = {"job", "svc"}
    Spaces = {"a"}
    Shapes <- MCShapes
    Programs <- ServerPrograms
    Foreign <- MCForeign
    MaxFaults = 1
    None = None
CHECK_DEADLOCK FALSE
INVARIANTS
    TypeOK
    RefStaysResolved
    RecordedWasCreated
    NumbersUnique
    SubmittedIsRecorded
PROPERTY
    OnlyOwnDeleted
