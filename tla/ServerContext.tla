--------------------------- MODULE ServerContext ---------------------------
(***************************************************************************)
(* The main thread of llama-server: the loop of server_queue::start_loop   *)
(* with its two callbacks, process_single_task (one message at a time) and *)
(* update_slots (one round of inference over all slots), both in           *)
(* tools/server/server-context.cpp.  The thread's critical sections on the *)
(* two queues are separate steps, so HTTP threads run between them; what   *)
(* it does to its slots in between is private and belongs to the step.     *)
(*                                                                         *)
(* Prompts and generated text are counted in tokens, and the batch records *)
(* whose token each one is.  llama_decode is external: it may refuse any   *)
(* view of the batch.  Drafts (speculative decoding), images and context   *)
(* checkpoints are left out.                                               *)
(***************************************************************************)
EXTENDS ServerQueue, ServerResponse, FiniteSets, FiniteSetsExt

CONSTANTS
    NSlots,         \* n_parallel
    NBatch,         \* n_batch: prompt tokens are added up to this batch size
    NUbatch,        \* n_ubatch: an embedding prompt must fit into it
    NCtx,           \* n_ctx of a slot
    NKeep, NDiscard,\* n_keep and n_discard of a context shift; requests that would
                    \* discard more than a slot holds are left out
    NPredict,       \* n_predict: bound on sampled tokens
    ContBatching,   \* params.cont_batching
    CtxShift,       \* params.ctx_shift
    BadLaunch,      \* tasks launch_slot_with_task refuses (grammar, tokens, lora)
    DecodeRet       \* how llama_decode may fail: "full" (returns 1), "fatal" (< 0)

ASSUME ContextAssumption ==
    /\ NSlots \in Nat \ {0} /\ NBatch \in Nat \ {0} /\ NPredict \in Nat \ {0}
    /\ NUbatch \in 1 .. NBatch
    /\ NCtx \in Nat /\ NCtx >= 4 /\ NKeep \in Nat /\ NDiscard \in 0 .. NCtx - 1
    /\ ContBatching \in BOOLEAN /\ CtxShift \in BOOLEAN
    /\ BadLaunch \subseteq Task
    /\ DecodeRet \subseteq {"full", "fatal"}

VARIABLES
    mpc,                    \* where the main thread is
    hand,                   \* the message process_single_task works on
    cur,                    \* the slot a loop over the slots has reached
    ret,                    \* the loop a release returns to
    slot_state, slot_task,  \* server_slot::state and task
    n_prompt,               \* slot.prompt.n_tokens(): tokens the slot holds
    n_decoded,              \* tokens sampled for the task
    slot_batched,           \* first slot of the batch, NSlots for none
    i_batch,                \* index of the slot's output in the batch, -1 for none
    batch,                  \* the slot each token of the batch belongs to
    view, view_n,           \* the view being decoded: its first index, its size
    n_batch,                \* size of the next view
    n_empty_consecutive     \* rounds in a row with an empty batch

slotVars == <<slot_state, slot_task, n_prompt, n_decoded, i_batch>>
batchVars == <<slot_batched, batch, view, view_n, n_batch>>
contextVars == <<mpc, hand, cur, ret, slotVars, batchVars, n_empty_consecutive>>

Slot == 0 .. NSlots - 1

SlotState == {"IDLE", "WAIT_OTHER", "STARTED", "PROCESSING_PROMPT", "DONE_PROMPT", "GENERATING"}

MainPC == {"take", "process", "unlaunch", "update", "shift", "prompt", "decode",
           "results", "final", "errors", "release", "wait", "abort"}

NoMsg == [type |-> "NONE", id |-> NoTask]

ContextTypeOK ==
    /\ mpc \in MainPC
    /\ hand \in Message \cup {NoMsg}
    /\ cur \in 0 .. NSlots
    /\ ret \in {"shift", "prompt", "results", "errors"}
    /\ slot_state \in [Slot -> SlotState]
    /\ slot_task \in [Slot -> Task \cup {NoTask}]
    /\ n_prompt \in [Slot -> 0 .. NCtx]
    /\ n_decoded \in [Slot -> 0 .. NPredict]
    /\ slot_batched \in 0 .. NSlots
    /\ batch \in Seq(Slot)
    /\ i_batch \in [Slot -> -1 .. NBatch + NSlots]
    /\ view \in 0 .. Len(batch) /\ view_n \in 0 .. Len(batch) /\ n_batch \in 1 .. NBatch
    /\ n_empty_consecutive \in 0 .. 4

ContextInit ==
    /\ mpc = "take" /\ hand = NoMsg /\ cur = 0 /\ ret = "prompt"
    /\ slot_state = [s \in Slot |-> "IDLE"]
    /\ slot_task = [s \in Slot |-> NoTask]
    /\ n_prompt = [s \in Slot |-> 0]
    /\ n_decoded = [s \in Slot |-> 0]
    /\ i_batch = [s \in Slot |-> -1]
    /\ slot_batched = NSlots /\ batch = <<>> /\ view = 0 /\ view_n = 0 /\ n_batch = NBatch
    /\ n_empty_consecutive = 0

is_processing(s) == slot_state[s] # "IDLE"

can_batch_with(s1, s2) ==
    /\ type[slot_task[s1]] = type[slot_task[s2]]
    /\ lora[slot_task[s1]] = lora[slot_task[s2]]

(* Parent or child of an n_cmpl > 1 completion. *)
SharesPrompt(s) == is_parent(slot_task[s]) \/ is_child(slot_task[s])

(* The slots a loop in slot order has still to visit. *)
Ahead(S) == {s \in S : s >= cur}

-----------------------------------------------------------------------------
(* Slots *)

(* Mutant: no callback_on_release. *)
Release_silent(s) ==
    /\ slot_state' = [slot_state EXCEPT ![s] = "IDLE"]
    /\ slot_task' = [slot_task EXCEPT ![s] = NoTask]
    /\ n_prompt' = [n_prompt EXCEPT ![s] = 0]
    /\ n_decoded' = [n_decoded EXCEPT ![s] = 0]
    /\ UNCHANGED <<i_batch, queueVars>>

(* release(): free the slot, then callback_on_release, which pops one      *)
(* deferred task.  i_batch keeps its value.  So do the tokens and the      *)
(* count of an idle slot, but nothing reads them before ReusedTokens and   *)
(* BatchPrompt set them anew: they are 0 here.                             *)
Release(s) ==
    /\ slot_state' = [slot_state EXCEPT ![s] = "IDLE"]
    /\ slot_task' = [slot_task EXCEPT ![s] = NoTask]
    /\ n_prompt' = [n_prompt EXCEPT ![s] = 0]
    /\ n_decoded' = [n_decoded EXCEPT ![s] = 0]
    /\ UNCHANGED i_batch
    /\ PopDeferredTask(s)

(* launch_slot_with_task, for several slots at once: L maps each slot to   *)
(* the task it gets.                                                       *)
Launch(L) ==
    /\ slot_task' = [s \in Slot |-> IF s \in DOMAIN L THEN L[s] ELSE slot_task[s]]
    /\ slot_state' = [s \in Slot |-> IF s \notin DOMAIN L THEN slot_state[s]
                                     ELSE IF is_child(L[s]) THEN "WAIT_OTHER" ELSE "STARTED"]
    /\ UNCHANGED <<n_prompt, n_decoded, i_batch>>

(* get_slot_by_id wraps around, get_available_slot returns some idle slot  *)
(* (which one depends on the cached prompts), none when all are busy.      *)
SlotChoices(t) ==
    IF id_slot[t] # -1 THEN {id_slot[t] % NSlots} ELSE {s \in Slot : ~is_processing(s)}

(* get_free_slots(n, exclude): the first n free slots, fewer if there are  *)
(* not enough.                                                             *)
get_free_slots(n, exclude) ==
    LET free == {s \in Slot : ~is_processing(s) /\ s # exclude}
    IN  {s \in free : Cardinality({f \in free : f < s}) < n}

(* Children are launched in slot order, the parent last. *)
LaunchOrder(t, s, children) ==
    LET order == SetToSortSeq(children, <)
    IN  [i \in 1 .. Len(order) + 1 |->
            IF i <= Len(order) THEN <<order[i], child_tasks[t][i]>> ELSE <<s, t>>]

-----------------------------------------------------------------------------
(* The main loop and process_single_task *)

(* start_loop: drain the main queue, then update the slots. *)
TakeTask ==
    /\ mpc = "take"
    /\ TakeFront
    /\ hand' = Head(queue_tasks)
    /\ mpc' = "process"
    /\ UNCHANGED <<responseVars, cur, ret, slotVars, batchVars, n_empty_consecutive>>

Drained ==
    /\ mpc = "take"
    /\ queue_tasks = <<>>
    /\ mpc' = "update"
    /\ UNCHANGED <<queueVars, responseVars, hand, cur, ret, slotVars, batchVars, n_empty_consecutive>>

(* process_single_task ends: back to draining the queue. *)
TaskDone ==
    /\ mpc' = "take" /\ hand' = NoMsg
    /\ UNCHANGED <<cur, ret, batchVars, n_empty_consecutive>>

InHand(types) == mpc = "process" /\ hand.type = "TASK" /\ type[hand.id] \in types

(* case NEXT_RESPONSE: nothing to do. *)
ProcessNext ==
    /\ mpc = "process" /\ hand = NextMsg
    /\ TaskDone
    /\ UNCHANGED <<queueVars, responseVars, slotVars>>

(* case CANCEL: release the slot that runs the target, if any. *)
ProcessCancel ==
    /\ mpc = "process" /\ hand.type = "CANCEL"
    /\ LET running == {s \in Slot : slot_task[s] = hand.id} IN
       IF running = {} THEN UNCHANGED <<queueVars, slotVars>> ELSE Release(Min(running))
    /\ TaskDone
    /\ UNCHANGED responseVars

(* cases METRICS, GET_LORA, SET_LORA: answered at once. *)
ProcessQuery ==
    /\ InHand({"METRICS", "LORA"})
    /\ Send(hand.id, "final")
    /\ TaskDone
    /\ UNCHANGED <<queueVars, slotVars>>

(* cases SLOT_SAVE, SLOT_RESTORE, SLOT_ERASE: deferred while the slot is   *)
(* busy; otherwise the state file is written or read, which may fail.      *)
ProcessSlotAction ==
    /\ InHand({"SLOT_ACTION"})
    /\ IF is_processing(slot_action[hand.id] % NSlots)
       THEN Defer(hand.id) /\ UNCHANGED responseVars
       ELSE /\ \E kind \in {"final", "error"} : Send(hand.id, kind)
            /\ UNCHANGED queueVars
    /\ TaskDone
    /\ UNCHANGED slotVars

(* cases COMPLETION, INFILL, EMBEDDING, RERANK: no slot, a busy slot, or   *)
(* too few slots for the children defer the task. *)
MustDefer(t) ==
    \/ SlotChoices(t) = {}
    \/ \E s \in SlotChoices(t) : is_processing(s)
    \/ \E s \in SlotChoices(t) :
            Cardinality(get_free_slots(Len(child_tasks[t]), s)) < Len(child_tasks[t])

DeferInference ==
    /\ InHand({"COMPLETION", "EMBEDDING"})
    /\ MustDefer(hand.id)
    /\ Defer(hand.id)
    /\ TaskDone
    /\ UNCHANGED <<responseVars, slotVars>>

(* Launch the task, or parent and children one after the other up to the   *)
(* first one that cannot be launched: that one gets an error, and          *)
(* release_slots undoes the others.                                        *)
LaunchInference ==
    /\ InHand({"COMPLETION", "EMBEDDING"})
    /\ ~MustDefer(hand.id)
    /\ \E s \in SlotChoices(hand.id) :
         LET t     == hand.id
             order == LaunchOrder(t, s, get_free_slots(Len(child_tasks[t]), s))
             bad   == SelectInSeq(order, LAMBDA p : p[2] \in BadLaunch)
             good  == IF bad = 0 THEN order ELSE SubSeq(order, 1, bad - 1)
         IN  /\ Launch([c \in {p[1] : p \in ToSet(good)} |->
                           (CHOOSE p \in ToSet(good) : p[1] = c)[2]])
             /\ IF bad = 0
                THEN TaskDone /\ UNCHANGED responseVars
                ELSE /\ Send(order[bad][2], "error")
                     /\ mpc' = "unlaunch" /\ cur' = 0
                     /\ UNCHANGED <<hand, ret, batchVars, n_empty_consecutive>>
    /\ UNCHANGED queueVars

(* release_slots of launch_slots_with_parent_task, one slot per step. *)
Unlaunch ==
    /\ mpc = "unlaunch"
    /\ LET family == {s \in Slot : is_processing(s) /\ Carrier(slot_task[s]) = hand.id} IN
       IF Ahead(family) = {}
       THEN TaskDone /\ UNCHANGED <<queueVars, slotVars>>
       ELSE LET s == Min(Ahead(family)) IN
            /\ Release(s) /\ cur' = s + 1
            /\ UNCHANGED <<mpc, hand, ret, batchVars, n_empty_consecutive>>
    /\ UNCHANGED responseVars

-----------------------------------------------------------------------------
(* update_slots *)

Goto(pc) == mpc' = pc /\ cur' = 0 /\ UNCHANGED <<hand, ret>>

(* The rest of a loop body that answers slot s and then releases it. *)
ReleaseNext(s, loop) == mpc' = "release" /\ cur' = s /\ ret' = loop /\ UNCHANGED hand

ReleaseSlot ==
    /\ mpc = "release"
    /\ Release(cur)
    /\ mpc' = ret /\ cur' = cur + 1
    /\ UNCHANGED <<responseVars, hand, ret, batchVars, n_empty_consecutive>>

(* The round is over: its batch is forgotten, the loop waits for messages. *)
EndRound ==
    /\ mpc' = "wait" /\ cur' = 0
    /\ slot_batched' = NSlots /\ batch' = <<>> /\ view' = 0 /\ view_n' = 0 /\ n_batch' = NBatch
    /\ UNCHANGED <<hand, ret>>

(* Mutant: no NEXT_RESPONSE. *)
StartRound_once ==
    /\ mpc = "update"
    /\ IF \A s \in Slot : ~is_processing(s)
       THEN EndRound
       ELSE Goto("shift") /\ UNCHANGED batchVars
    /\ UNCHANGED <<queueVars, responseVars, slotVars, n_empty_consecutive>>

(* Nothing to do when all slots are idle; otherwise make sure that the     *)
(* loop comes back. *)
StartRound ==
    /\ mpc = "update"
    /\ IF \A s \in Slot : ~is_processing(s)
       THEN EndRound /\ UNCHANGED queueVars
       ELSE Goto("shift") /\ PostNext /\ UNCHANGED batchVars
    /\ UNCHANGED <<responseVars, slotVars, n_empty_consecutive>>

(* Mutant: one token too late. *)
FullSlots_late == {s \in Slot : slot_state[s] = "GENERATING" /\ n_prompt[s] + 1 > NCtx}

(* Generating slots without room for another token, in slot order. *)
FullSlots == {s \in Slot : slot_state[s] = "GENERATING" /\ n_prompt[s] + 1 >= NCtx}

(* A full context is an error when it may not be shifted, as a shared      *)
(* prompt may not. *)
ShiftError ==
    LET s == Min(Ahead(FullSlots)) IN
    /\ mpc = "shift" /\ Ahead(FullSlots) # {}
    /\ ~CtxShift \/ SharesPrompt(s)
    /\ Send(slot_task[s], "error")
    /\ ReleaseNext(s, "shift")
    /\ UNCHANGED <<queueVars, slotVars, batchVars, n_empty_consecutive>>

(* Otherwise n_discard tokens behind the first n_keep are dropped. *)
ShiftContext ==
    LET s       == Min(Ahead(FullSlots))
        keep    == Min({NCtx - 4, NKeep})
        discard == IF NDiscard # 0 THEN NDiscard ELSE (n_prompt[s] - keep) \div 2
    IN
    /\ mpc = "shift" /\ Ahead(FullSlots) # {}
    /\ CtxShift /\ ~SharesPrompt(s)
    /\ n_prompt' = [n_prompt EXCEPT ![s] = @ - discard]
    /\ cur' = s + 1
    /\ UNCHANGED <<queueVars, responseVars, slot_state, slot_task, n_decoded, i_batch,
                   mpc, hand, ret, batchVars, n_empty_consecutive>>

(* Generating slots that can share the first one's batch add their token.  *)
(* Prompts follow if batching is continuous or nothing is generating. *)
BatchGenerating ==
    LET gen   == {s \in Slot : slot_state[s] = "GENERATING"}
        first == IF gen = {} THEN NSlots ELSE Min(gen)
        added == {s \in gen : can_batch_with(first, s)}
    IN
    /\ mpc = "shift" /\ Ahead(FullSlots) = {}
    /\ slot_batched' = first
    /\ batch' = SetToSortSeq(added, <)
    /\ i_batch' = [s \in Slot |-> IF s \in added THEN Cardinality({a \in added : a < s})
                                                 ELSE i_batch[s]]
    /\ n_prompt' = [s \in Slot |-> IF s \in added THEN n_prompt[s] + 1 ELSE n_prompt[s]]
    /\ Goto(IF ContBatching \/ gen = {} THEN "prompt" ELSE "decode")
    /\ UNCHANGED <<queueVars, responseVars, slot_state, slot_task, n_decoded,
                   view, view_n, n_batch, n_empty_consecutive>>

(* The generated tokens fill the batch, and the loop over the slots has    *)
(* noticed that before it comes to s. *)
FullBefore(s) ==
    /\ Len(batch) >= NBatch
    /\ \E g \in Slot : g < s /\ slot_state[g] = "GENERATING" /\ can_batch_with(slot_batched, g)

(* Slots whose prompt may join the batch; children wait for their parent. *)
PromptSlots ==
    {s \in Slot : /\ slot_state[s] \in {"STARTED", "PROCESSING_PROMPT"}
                  /\ slot_batched = NSlots \/ can_batch_with(slot_batched, s)
                  /\ ~FullBefore(s)}

(* An embedding prompt cannot be split over batches. *)
TooLong(t) ==
    IF need_embd(t) THEN n_tokens[t] > NUbatch \/ n_tokens[t] > NCtx
                    ELSE n_tokens[t] >= NCtx

(* Mutant: the slot has entered the batch before it is turned away. *)
RejectPrompt_batched ==
    LET s == Min(Ahead(PromptSlots)) IN
    /\ mpc = "prompt" /\ Ahead(PromptSlots) # {}
    /\ slot_state[s] = "STARTED"
    /\ n_tokens[slot_task[s]] = 0 \/ TooLong(slot_task[s])
    /\ Send(slot_task[s], IF n_tokens[slot_task[s]] = 0 THEN "final" ELSE "error")
    /\ slot_state' = [slot_state EXCEPT ![s] = "PROCESSING_PROMPT"]
    /\ slot_batched' = IF slot_batched = NSlots THEN s ELSE slot_batched
    /\ ReleaseNext(s, "prompt")
    /\ UNCHANGED <<queueVars, slot_task, n_prompt, n_decoded, i_batch, batch, view, view_n, n_batch,
                   n_empty_consecutive>>

(* A new task without a prompt gets an empty answer, one with too long a   *)
(* prompt an error; both lose the slot at once.  (So does, with an error,  *)
(* every completion in a context without memory, which is left out.) *)
RejectPrompt ==
    LET s == Min(Ahead(PromptSlots)) IN
    /\ mpc = "prompt" /\ Ahead(PromptSlots) # {}
    /\ slot_state[s] = "STARTED"
    /\ n_tokens[slot_task[s]] = 0 \/ TooLong(slot_task[s])
    /\ Send(slot_task[s], IF n_tokens[slot_task[s]] = 0 THEN "final" ELSE "error")
    /\ slot_state' = [slot_state EXCEPT ![s] = "PROCESSING_PROMPT"]
    /\ ReleaseNext(s, "prompt")
    /\ UNCHANGED <<queueVars, slot_task, n_prompt, n_decoded, i_batch, batchVars, n_empty_consecutive>>

(* Tokens a prompt need not process again: a common prefix with what the   *)
(* slot holds, but never the whole prompt. *)
ReusedTokens(s) ==
    IF slot_state[s] # "STARTED" THEN {n_prompt[s]}
    ELSE IF need_embd(slot_task[s]) THEN {0} ELSE 0 .. n_tokens[slot_task[s]] - 1

(* An embedding prompt that does not fit the rest of the batch waits for   *)
(* the next round. *)
SkipPrompt ==
    LET s == Min(Ahead(PromptSlots))
        t == slot_task[s]
    IN
    /\ mpc = "prompt" /\ Ahead(PromptSlots) # {}
    /\ slot_state[s] = "STARTED" => n_tokens[t] # 0 /\ ~TooLong(t)
    /\ need_embd(t) /\ Len(batch) + n_tokens[t] > NBatch
    /\ slot_state' = [slot_state EXCEPT ![s] = "PROCESSING_PROMPT"]
    /\ cur' = s + 1
    /\ UNCHANGED <<queueVars, responseVars, slot_task, n_prompt, n_decoded, i_batch,
                   mpc, hand, ret, batchVars, n_empty_consecutive>>

(* Add what fits of the next prompt.  A prompt that is complete has its    *)
(* output at the end of the batch; a full batch ends the loop. *)
BatchPrompt ==
    LET s == Min(Ahead(PromptSlots))
        t == slot_task[s]
    IN
    /\ mpc = "prompt" /\ Ahead(PromptSlots) # {}
    /\ slot_state[s] = "STARTED" => n_tokens[t] # 0 /\ ~TooLong(t)
    /\ ~(need_embd(t) /\ Len(batch) + n_tokens[t] > NBatch)
    /\ \E n \in ReusedTokens(s) :
         LET k    == Max({0, Min({n_tokens[t] - n, NBatch - Len(batch)})})
             done == n + k = n_tokens[t]
         IN  /\ n_prompt' = [n_prompt EXCEPT ![s] = n + k]
             /\ batch' = batch \o [j \in 1 .. k |-> s]
             /\ slot_state' = [slot_state EXCEPT ![s] =
                                   IF done THEN "DONE_PROMPT" ELSE "PROCESSING_PROMPT"]
             /\ n_decoded' = [n_decoded EXCEPT ![s] = IF done THEN 0 ELSE @]
             /\ i_batch' = [i_batch EXCEPT ![s] = IF done THEN Len(batch') - 1 ELSE @]
    /\ slot_batched' = IF slot_batched = NSlots THEN s ELSE slot_batched
    /\ IF Len(batch') >= NBatch
       THEN Goto("decode")
       ELSE cur' = s + 1 /\ UNCHANGED <<mpc, hand, ret>>
    /\ UNCHANGED <<queueVars, responseVars, slot_task, view, view_n, n_batch, n_empty_consecutive>>

PromptsBatched ==
    /\ mpc = "prompt" /\ Ahead(PromptSlots) = {}
    /\ Goto("decode")
    /\ UNCHANGED <<queueVars, responseVars, slotVars, batchVars, n_empty_consecutive>>

(* Four empty batches in a row are a fatal error. *)
DecodeNothing ==
    /\ mpc = "decode" /\ batch = <<>>
    /\ n_empty_consecutive' = n_empty_consecutive + 1
    /\ IF n_empty_consecutive' > 3
       THEN Goto("abort") /\ UNCHANGED batchVars
       ELSE EndRound
    /\ UNCHANGED <<queueVars, responseVars, slotVars>>

(* Slots whose parent's prompt is complete, with the parent's slot. *)
Activated ==
    {<<c, s>> \in Slot \X Slot :
        /\ slot_state[c] = "WAIT_OTHER" /\ slot_state[s] = "DONE_PROMPT"
        /\ slot_task[s] = id_parent(slot_task[c])}

(* copy_state_to for every activated child: f is a field of the slots. *)
CopyToChildren(f) ==
    [c \in Slot |-> IF \E s \in Slot : <<c, s>> \in Activated
                    THEN f[CHOOSE s \in Slot : <<c, s>> \in Activated] ELSE f[c]]

(* A view of the batch is decoded, and the children of a complete prompt   *)
(* join in. *)
DecodeView ==
    /\ mpc = "decode" /\ view < Len(batch)
    /\ n_empty_consecutive' = 0
    /\ view_n' = Min({n_batch, Len(batch) - view})
    /\ n_batch' = NBatch
    /\ slot_state' = CopyToChildren(slot_state)
    /\ n_prompt' = CopyToChildren(n_prompt)
    /\ n_decoded' = CopyToChildren(n_decoded)
    /\ i_batch' = CopyToChildren(i_batch)
    /\ Goto("results")
    /\ UNCHANGED <<queueVars, responseVars, slot_task, slot_batched, batch, view>>

(* No room in the KV cache: try again with a smaller view.  (With          *)
(* kv_unified the prompt of an idle slot is dropped first, and the view    *)
(* keeps its size; that happens once per idle slot and changes nothing     *)
(* here.) *)
DecodeRetry ==
    /\ mpc = "decode" /\ view < Len(batch)
    /\ "full" \in DecodeRet /\ n_batch > 1
    /\ n_empty_consecutive' = 0
    /\ n_batch' = n_batch \div 2
    /\ UNCHANGED <<queueVars, responseVars, slotVars, mpc, hand, cur, ret,
                   slot_batched, batch, view, view_n>>

(* No room even for a single token, or a compute error. *)
DecodeError ==
    /\ mpc = "decode" /\ view < Len(batch)
    /\ "fatal" \in DecodeRet \/ ("full" \in DecodeRet /\ n_batch = 1)
    /\ n_empty_consecutive' = 0
    /\ Goto("errors")
    /\ UNCHANGED <<queueVars, responseVars, slotVars, batchVars>>

(* Mutant: the slots are released without a word. *)
FailSlots_silent ==
    /\ mpc = "errors"
    /\ LET busy == Ahead({s \in Slot : is_processing(s)}) IN
       IF busy = {}
       THEN EndRound
       ELSE ReleaseNext(Min(busy), "errors") /\ UNCHANGED batchVars
    /\ UNCHANGED <<queueVars, responseVars, slotVars, n_empty_consecutive>>

(* Every slot that works on a task, in the batch or not, loses it. *)
FailSlots ==
    /\ mpc = "errors"
    /\ LET busy == Ahead({s \in Slot : is_processing(s)}) IN
       IF busy = {}
       THEN EndRound /\ UNCHANGED responseVars
       ELSE /\ Send(slot_task[Min(busy)], "error")
            /\ ReleaseNext(Min(busy), "errors")
            /\ UNCHANGED batchVars
    /\ UNCHANGED <<queueVars, slotVars, n_empty_consecutive>>

(* Mutant: the state of the slot is not looked at. *)
OutputSlots_any == {s \in Slot : is_processing(s) /\ i_batch[s] \in view .. view + view_n - 1}

(* Slots with an output to read: i_batch lies in the view. *)
OutputSlots ==
    {s \in Slot : /\ slot_state[s] \in {"DONE_PROMPT", "GENERATING"}
                  /\ i_batch[s] \in view .. view + view_n - 1}

(* send_embedding, send_rerank: one result and the slot is free. *)
OutputEmbedding ==
    LET s == Min(Ahead(OutputSlots)) IN
    /\ mpc = "results" /\ Ahead(OutputSlots) # {}
    /\ need_embd(slot_task[s])
    /\ Send(slot_task[s], "final")
    /\ i_batch' = [i_batch EXCEPT ![s] = -1]
    /\ ReleaseNext(s, "results")
    /\ UNCHANGED <<queueVars, slot_state, slot_task, n_prompt, n_decoded, batchVars, n_empty_consecutive>>

(* Mutant: the context is not looked at. *)
has_next_token_budget(s, n) == n < NPredict

(* process_token's verdict: without a context shift the next token must    *)
(* still fit, and the budget n_predict must not be used up. *)
has_next_token(s, n) == (CtxShift \/ n_prompt[s] + 1 < NCtx) /\ n < NPredict

(* Sample a token; process_token sends it if the task streams, and decides *)
(* whether to go on.  An end token or a stop word may come at any time. *)
SampleToken ==
    LET s == Min(Ahead(OutputSlots)) IN
    /\ mpc = "results" /\ Ahead(OutputSlots) # {}
    /\ ~need_embd(slot_task[s])
    /\ slot_state' = [slot_state EXCEPT ![s] = "GENERATING"]
    /\ i_batch' = [i_batch EXCEPT ![s] = -1]
    /\ n_decoded' = [n_decoded EXCEPT ![s] = @ + 1]
    /\ IF slot_task[s] \in stream THEN Send(slot_task[s], "partial") ELSE UNCHANGED responseVars
    /\ \/ mpc' = "final" /\ cur' = s
       \/ has_next_token(s, n_decoded'[s]) /\ mpc' = "results" /\ cur' = s + 1
    /\ UNCHANGED <<queueVars, slot_task, n_prompt, batchVars, n_empty_consecutive, hand, ret>>

SendFinal ==
    /\ mpc = "final"
    /\ Send(slot_task[cur], "final")
    /\ ReleaseNext(cur, "results")
    /\ UNCHANGED <<queueVars, slotVars, batchVars, n_empty_consecutive>>

(* On to the next view, if there is one. *)
ResultsDone ==
    /\ mpc = "results" /\ Ahead(OutputSlots) = {}
    /\ IF view + view_n = Len(batch)
       THEN EndRound
       ELSE /\ view' = view + view_n
            /\ Goto("decode")
            /\ UNCHANGED <<slot_batched, batch, view_n, n_batch>>
    /\ UNCHANGED <<queueVars, responseVars, slotVars, n_empty_consecutive>>

(* The wait at the end of start_loop's body. *)
WakeUp ==
    /\ mpc = "wait" /\ queue_tasks # <<>>
    /\ mpc' = "take"
    /\ UNCHANGED <<queueVars, responseVars, hand, cur, ret, slotVars, batchVars, n_empty_consecutive>>

MainWork ==
    \/ TakeTask \/ Drained \/ WakeUp
    \/ ProcessNext \/ ProcessCancel \/ ProcessQuery \/ ProcessSlotAction
    \/ DeferInference \/ LaunchInference \/ Unlaunch
    \/ StartRound \/ ShiftError \/ ShiftContext \/ BatchGenerating
    \/ RejectPrompt \/ SkipPrompt \/ BatchPrompt \/ PromptsBatched
    \/ DecodeNothing \/ DecodeView \/ DecodeRetry \/ DecodeError \/ FailSlots
    \/ OutputEmbedding \/ SampleToken \/ SendFinal \/ ResultsDone \/ ReleaseSlot
=============================================================================
