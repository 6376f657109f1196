SPECIFICATION Spec
CONSTANTS
    Task = {"long", "longkid"}
    NoTask = "none"
    type <- MCType
    id_slot <- MCSlot
    slot_action <- MCAction
    child_tasks <- MCChildren
    n_tokens <- MCTokens
    lora <- MCLora
    stream = {}
    Reader = {"long"}
    tasks <- MCTasks
    Impatient = {}
    NSlots = 2
    NBatch = 2
    NUbatch = 2
    NCtx = 4
    NKeep = 0
    NDiscard = 0
    NPredict = 2
    ContBatching = TRUE
    CtxShift = FALSE
    BadLaunch = {}
    DecodeRet = {}
INVARIANT NeverAborts
CHECK_DEADLOCK FALSE
