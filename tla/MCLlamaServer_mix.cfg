SPECIFICATION Spec
CONSTANTS
    Task = {"par", "kid", "emb", "save"}
    NoTask = "none"
    type <- MCType
    id_slot <- MCSlot
    slot_action <- MCAction
    child_tasks <- MCChildren
    n_tokens <- MCTokens
    lora <- MCLora
    stream = {"par", "kid"}
    Reader = {"par", "emb", "save"}
    tasks <- MCTasks
    Impatient = {"par"}
    NSlots = 2
    NBatch = 2
    NUbatch = 2
    NCtx = 5
    NKeep = 0
    NDiscard = 0
    NPredict = 2
    ContBatching = TRUE
    CtxShift = FALSE
    BadLaunch = {}
    DecodeRet = {}
INVARIANTS AnsweredOnce NoLostTask ResultsOwned
CHECK_DEADLOCK FALSE
