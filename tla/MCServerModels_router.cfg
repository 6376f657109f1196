SPECIFICATION FairRouter
CONSTANTS
    Model = {"A", "B"}
    NoModel = "none"
    User = {"loadA", "useB", "loadB", "unloadA", "peekB", "shutdown"}
    op <- MCOp
    target <- MCTarget
    models_max = 1
    TimeSteps = {1}
    MaxTime = 4
    ChildMayFail = TRUE
INVARIANTS OldInstanceGone LoadedIsReady
PROPERTIES UnloadedAfterExit StateDiagram CallsReturn
CHECK_DEADLOCK FALSE
