SPECIFICATION FairRouter
CONSTANTS
    Model = {"A", "B"}
    NoModel = "none"
    User = {"useA"}
    op <- MCOp
    target <- MCTarget
    models_max = 0
    TimeSteps = {1}
    MaxTime = 3
    ChildMayFail = TRUE
PROPERTY WaitReturns
CHECK_DEADLOCK FALSE
