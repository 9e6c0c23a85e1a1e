SPECIFICATION Spec
CONSTANTS
    one = one
    list = list
    Absent = absent
    Objects = {"o1", "o2"}
    Keys = {"k"}
    Nil = nil
    Values <- MCValues
    Lists <- MCLists
    Tasks <- MCTasks
    MaxFaults = 1
INVARIANT UpdatedIsInState
CHECK_DEADLOCK FALSE
