SPECIFICATION FairSpec
CONSTANTS
    Thread = {t1, t2}
    Main = main
    SleepEnabled = TRUE
    MayTerminate = TRUE
    QuickLock = TRUE
PROPERTY WaitEndsAtStop
CHECK_DEADLOCK FALSE
