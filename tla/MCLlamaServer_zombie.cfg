SPECIFICATION Spec
CONSTANTS
    Task = {"x", "y"}
    NoTask = "none"
    type <- MCType
    id_slot <- MCSlot
    slot_action <- MCAction
    child_tasks <- MCChildren
    n_tokens <- MCTokens
    lora <- MCLora
    stream = {}
    Reader = {"x", "y"}
    tasks <- MCTasks
    Impatient = {"y"}
    NSlots = 1
    NBatch = 2
    NUbatch = 2
    NCtx = 4
    NKeep = 0
    NDiscard = 0
    NPredict = 1
    ContBatching = TRUE
    CtxShift = FALSE
    BadLaunch = {}
    DecodeRet = {}
INVARIANT CancelledTaskGone
CHECK_DEADLOCK FALSE
