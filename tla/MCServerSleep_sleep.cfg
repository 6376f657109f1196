SPECIFICATION FairSpec
CONSTANTS
    Thread = {t1, t2, t3}
    Main = main
    SleepEnabled = TRUE
    MayTerminate = TRUE
    QuickLock = TRUE
INVARIANTS TasksHaveModel SleepsAsTold
PROPERTIES WaitEnds TasksProcessedAwake LoopEnds
CHECK_DEADLOCK FALSE
