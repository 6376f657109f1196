SPECIFICATION FairSpec
CONSTANTS
    Task = {"par3", "kid3", "pin2", "emb"}
    NoTask = "none"
    type <- MCType
    id_slot <- MCSlot
    slot_action <- MCAction
    child_tasks <- MCChildren
    n_tokens <- MCTokens
    lora <- MCLora
    stream = {}
    Reader = {"par3", "pin2", "emb"}
    tasks <- MCTasks
    Impatient = {"par3"}
    NSlots = 2
    NBatch = 3
    NUbatch = 2
    NCtx = 4
    NKeep = 0
    NDiscard = 0
    NPredict = 2
    ContBatching = TRUE
    CtxShift = FALSE
    BadLaunch = {}
    DecodeRet = {}
INVARIANTS NoneDeferredWhenIdle ContextFits
PROPERTY RequestsEnd
CHECK_DEADLOCK FALSE
