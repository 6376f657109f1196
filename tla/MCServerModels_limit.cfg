SPECIFICATION RouterSpec
CONSTANTS
    Model = {"A", "B"}
    NoModel = "none"
    User = {"useA", "useB"}
    op <- MCOp
    target <- MCTarget
    models_max = 1
    TimeSteps = {1}
    MaxTime = 6
    ChildMayFail = FALSE
INVARIANT WithinLimit
CHECK_DEADLOCK FALSE
