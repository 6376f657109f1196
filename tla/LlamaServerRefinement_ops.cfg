SPECIFICATION Spec
CONSTANTS
    Task = {"query", "par", "kid", "a", "empty"}
    NoTask = "none"
    type <- MCType
    id_slot <- MCSlot
    slot_action <- MCAction
    child_tasks <- MCChildren
    n_tokens <- MCTokens
    lora <- MCLora
    stream = {}
    Reader = {"query", "par", "a"}
    tasks <- MCTasks
    Impatient = {"a"}
    NSlots = 2
    NBatch = 2
    NUbatch = 2
    NCtx = 4
    NKeep = 0
    NDiscard = 0
    NPredict = 1
    ContBatching = FALSE
    CtxShift = FALSE
    BadLaunch = {"par"}
    DecodeRet = {}
INVARIANT BatchedSlotHasTask
PROPERTY ImplementsService
CHECK_DEADLOCK FALSE
