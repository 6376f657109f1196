SPECIFICATION FairSpec
CONSTANTS
    Thread = {t1, t2}
    Main = main
    SleepEnabled = TRUE
    MayTerminate = FALSE
    QuickLock = TRUE
PROPERTY TasksProcessed
CHECK_DEADLOCK FALSE
