SPECIFICATION Spec
CONSTANTS
    Task = {"par", "kid"}
    NoTask = "none"
    type <- MCType
    id_slot <- MCSlot
    slot_action <- MCAction
    child_tasks <- MCChildren
    n_tokens <- MCTokens
    lora <- MCLora
    stream = {}
    Reader = {"par"}
    tasks <- MCTasks
    Impatient = {}
    NSlots = 2
    NBatch = 2
    NUbatch = 2
    NCtx = 4
    NKeep = 0
    NDiscard = 0
    NPredict = 1
    ContBatching = TRUE
    CtxShift = FALSE
    BadLaunch = {}
    DecodeRet = {"full"}
INVARIANT ChildGetsWholePrompt
CHECK_DEADLOCK FALSE
