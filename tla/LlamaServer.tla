---------------------------- MODULE LlamaServer ----------------------------
(***************************************************************************)
(* llama-server as a whole: HTTP threads (ServerReader) and the main       *)
(* thread (ServerContext) around the task queue and the result queue.      *)
(***************************************************************************)
EXTENDS ServerReader, ServerContext

VARIABLE handed     \* history: tasks a release has moved out of the deferred queue
                    \* and that have neither got a slot nor been deferred again

vars == <<queueVars, responseVars, readerVars, contextVars, handed>>

Init == QueueInit /\ ResponseInit /\ ReaderInit /\ ContextInit /\ handed = {}

Count(q, e) == Cardinality({i \in DOMAIN q : q[i] = e})

(* Where t sits in the scheduler: queued, deferred or in the main thread's *)
(* hand, or in a slot.                                                     *)
InSlots(t) == {s \in Slot : slot_task[s] = t}

Pending(t) ==
    Count(queue_tasks, TaskMsg(t)) + Count(queue_tasks_deferred, t)
        + (IF hand = TaskMsg(t) /\ mpc = "process" THEN 1 ELSE 0)

(* A task that ends before it has a slot stays in the history until the    *)
(* next release hands its slot on.                                         *)
HandOn ==
    LET popped == {t \in Task : /\ Count(queue_tasks_deferred, t) > Count(queue_tasks_deferred', t)
                                /\ Count(queue_tasks, TaskMsg(t)) < Count(queue_tasks', TaskMsg(t))}
    IN  handed' = IF popped # {}
                  THEN {t \in handed : Pending(t) > 0} \cup popped
                  ELSE {t \in handed : t \notin ToSet(queue_tasks_deferred') /\ InSlots(t)' = {}}

HttpThread(r) == ReaderWork(r) /\ UNCHANGED <<contextVars, handed>>

ClientLeaves(r) == GiveUp(r) /\ UNCHANGED <<contextVars, handed>>

MainThread == MainWork /\ HandOn /\ UNCHANGED readerVars

Next ==
    \/ \E r \in Reader : HttpThread(r)
    \/ \E r \in Reader : ClientLeaves(r)
    \/ MainThread

Spec == Init /\ [][Next]_vars

(* Both kinds of thread keep running; a client need not leave. *)
FairSpec ==
    /\ Spec
    /\ WF_vars(MainThread)
    /\ \A r \in Reader : WF_vars(HttpThread(r))

-----------------------------------------------------------------------------
TypeOK ==
    QueueTypeOK /\ ResponseTypeOK /\ ReaderTypeOK /\ ContextTypeOK /\ handed \subseteq Task

(* How often t sits in the scheduler.  A child not yet launched is where   *)
(* its parent is.                                                          *)
Places(t) == Pending(Carrier(t)) + Cardinality(InSlots(t))

Answers(t) ==
    Cardinality({i \in DOMAIN queue_results :
                    queue_results[i].id = t /\ queue_results[i].kind # "partial"})
        + (IF t \in answered THEN 1 ELSE 0)

(* A slot whose task has been answered is released before anything else. *)
BeingReleased(t) == mpc = "release" /\ slot_task[cur] = t

(* A task is in one place only and is answered at most once: no request    *)
(* runs in two slots, and wait_for_all's assertion "duplicate result       *)
(* received" cannot fail.                                                  *)
AnsweredOnce ==
    \A t \in Task :
        /\ Places(t) <= 1
        /\ Answers(t) <= 1
        /\ Answers(t) = 1 => Places(t) = 0 \/ BeingReleased(t)

(* No request is lost: while a reader waits for a task, the task is still  *)
(* scheduled, or its answer, or an error that ends the whole request, is   *)
(* in the result queue.                                                    *)
NoLostTask ==
    \A r \in Reader : rpc[r] = "recv" =>
        \A t \in ids(r) \ answered :
            \/ Places(t) = 1
            \/ \E i \in DOMAIN queue_results :
                  /\ queue_results[i].id = t /\ queue_results[i].kind = "final"
            \/ \E i \in DOMAIN queue_results :
                  /\ queue_results[i].id \in ids(r) /\ queue_results[i].kind = "error"

(* Results are never left behind: whatever is in queue_results belongs to  *)
(* a reader that will still fetch or erase it.                             *)
ResultsOwned ==
    \A i \in DOMAIN queue_results :
        LET r == Owner(queue_results[i].id) IN
        /\ rpc[r] \in {"recv", "stop", "stop_erase"}
        /\ rpc[r] = "recv" => queue_results[i].id \in waiting_task_ids

(* update_slots reads slot_batched->task when it looks for prompts that    *)
(* can join and when it applies the adapters, before the first view is     *)
(* decoded: the first slot of the batch has not lost its task meanwhile.   *)
BatchedSlotHasTask ==
    mpc \in {"prompt", "decode"} /\ view_n = 0 /\ slot_batched # NSlots
        => slot_task[slot_batched] # NoTask

(* start_loop never waits for messages, and so never goes to sleep and     *)
(* never destroys the context, while a slot still has work.                *)
IdleWhenWaiting ==
    mpc = "wait" /\ queue_tasks = <<>> => \A s \in Slot : ~is_processing(s)

(* A child that waits for its parent has a parent that is still at work on *)
(* their prompt whenever a round starts.                                   *)
ChildHasParent ==
    mpc = "update" =>
        \A c \in Slot : slot_state[c] = "WAIT_OTHER" =>
            \E s \in Slot : /\ slot_task[s] = id_parent(slot_task[c])
                            /\ slot_state[s] \in {"STARTED", "PROCESSING_PROMPT"}

(* The output a slot is about to sample from or to send belongs to its own *)
(* token, or to its parent's for a child just activated, and the first one *)
(* to the end of its prompt: an index i_batch left over from an earlier    *)
(* batch, which release() does not reset, is never read.                   *)
OutputIsOwn ==
    mpc = "results" =>
        \A s \in Ahead(OutputSlots) :
            LET b == batch[i_batch[s] + 1] IN
            /\ b = s \/ (is_child(slot_task[s]) /\ slot_task[b] \in {NoTask, id_parent(slot_task[s])})
            /\ n_decoded[s] = 0 => n_prompt[s] = n_tokens[slot_task[s]]

(* A completion never outgrows its context, and without context shift no   *)
(* slot is full when a round starts: "we should never get here, because    *)
(* generation should already stopped in process_token()".                  *)
ContextFits ==
    /\ \A s \in Slot : is_processing(s) /\ ~need_embd(slot_task[s]) => n_prompt[s] < NCtx
    /\ mpc = "shift" /\ ~CtxShift => FullSlots = {}

(* update_slots gives up (GGML_ABORT, "fatal error") after four rounds     *)
(* without a token to decode; no request may bring that about.             *)
NeverAborts == mpc # "abort"

(* "Add a new task, but defer until one slot is available": the main       *)
(* thread waits for messages, every slot is idle, and a task is deferred.  *)
Stranded ==
    /\ mpc = "wait" /\ queue_tasks = <<>> /\ queue_tasks_deferred # <<>>
    /\ \A s \in Slot : ~is_processing(s)

NeverStranded == ~Stranded

(* A release wakes one deferred task, which wakes the next one when it     *)
(* leaves its own slot.  Tasks stay deferred while every slot is idle only *)
(* if the one woken last ended without ever getting a slot: its client had *)
(* left, it was a slot action, or it could not be launched.                *)
NoneDeferredWhenIdle == Stranded => handed # {}

(* A task of the request is among those left behind in this way. *)
LeftBehind(r) == Stranded /\ handed # {} /\ ids(r) \cap ToSet(queue_tasks_deferred) # {}

(* Whatever the other requests and the clients do, with decodes that do    *)
(* not fail, every request comes to its end, answered, failed or left by   *)
(* its client, or is left behind by a task that was woken before it and    *)
(* never got a slot.                                                       *)
RequestsEnd == <>[](\A r \in Reader : rpc[r] = "done" \/ LeftBehind(r))

(* "if this is cancel task make sure to clean up pending tasks": once the  *)
(* CANCEL of a task has been processed the task is nowhere any more.       *)
CancelledTaskGone ==
    \A t \in Task :
        /\ rpc[Owner(t)] = "done" /\ cancelled[Owner(t)]
        /\ Count(queue_tasks, CancelMsg(t)) = 0 /\ hand # CancelMsg(t)
        => Places(t) = 0

(* "when the main prompt is processed, activate all child tasks too": a    *)
(* child gets its parent's context only once the last token of the prompt  *)
(* has been decoded.                                                       *)
ChildGetsWholePrompt ==
    mpc = "results" =>
        \A c \in Slot : slot_state[c] = "DONE_PROMPT" /\ is_child(slot_task[c])
                            => i_batch[c] < view + view_n
=============================================================================
