SPECIFICATION Spec
CONSTANTS
    Task = {"par3", "kid3", "tuned"}
    NoTask = "none"
    type <- MCType
    id_slot <- MCSlot
    slot_action <- MCAction
    child_tasks <- MCChildren
    n_tokens <- MCTokens
    lora <- MCLora
    stream = {}
    Reader = {"par3", "tuned"}
    tasks <- MCTasks
    Impatient = {"par3"}
    NSlots = 2
    NBatch = 2
    NUbatch = 2
    NCtx = 5
    NKeep = 0
    NDiscard = 0
    NPredict = 5
    ContBatching = TRUE
    CtxShift = TRUE
    BadLaunch = {}
    DecodeRet = {"full", "fatal"}
INVARIANTS IdleWhenWaiting ContextFits OutputIsOwn
PROPERTY ImplementsService
CHECK_DEADLOCK FALSE
