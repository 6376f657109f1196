# A TLA+ model of llama-server and of what it runs on

This directory models the parts of the repository where several actors, or long
sequences of calls, share state:

* `llama-server` (`src/tools/server/`): task and result queues, slots and
  inference loop, sleeping and shutdown, the router of child processes;
* what a slot believes to be in the KV cache, and the KV cache itself
  (`src/src/llama-kv-cells.h`, `llama-kv-cache.cpp`, `llama-batch.cpp`,
  `llama-context.cpp`);
* two parts of ggml under it: the thread pool of the CPU backend and the
  allocator of compute graphs.

TLC checks the models on small instances. TLAPS proves the central safety
properties for every instance: of the abstract service, the router, sleeping, the
thread pool and the allocator's heap as theorems about their specifications, of
the KV cells as theorems about every operation.

Run a model with `tlc -config <file>.cfg <Module>` and check proofs with `tlapm
<Module>.tla`. `PROJECT.json` lists every run, which source lines each
definition stands for, the hazards, the findings and the theorems.

## 1. Inventory

### The parts and how they interact

```
HTTP threads ──post──▶ server_queue ──▶ main thread: process_single_task
     ▲                 (main, deferred)      │            update_slots ──▶ llama_decode
     │                      ▲                ▼                 │              │
     └──recv── server_response ◀──────────── send ◀────────────┘    llama_kv_cache, graph
                                                                     │              │
router: HTTP threads ─▶ server_models ─▶ threads of             ggml_gallocr   thread pool
                                         an instance ─▶ child llama-server
```

| Part | State it keeps | Operations | What is hard about it |
|---|---|---|---|
| `server_queue` | main queue, deferred queue, `running`, `sleeping`, `req_stop_sleeping`, a condition variable | `post` (one, many, to the front), `defer`, `pop_deferred_task`, `cleanup_pending_task`, `start_loop`, `wait_until_no_sleep`, `terminate` | a task travels through four places under separate critical sections; one condition variable serves two kinds of waiter |
| `server_response` | ids waited for, results not fetched | `add_waiting_*`, `remove_waiting_*`, `recv`, `send` | results sent while their reader is leaving |
| `server_response_reader` | ids, count of final results, `cancelled` | `post_tasks`, `next`, `wait_for_all`, `stop` | `stop` has three critical sections on two mutexes |
| slots and the inference loop (`server_context`) | per slot: state, task, tokens held, index of its output; the batch; a count of empty rounds | `process_single_task`, `update_slots` | a round is a pipeline of loops over all slots, each of which may end a task and so wake another one; decoding may stop half way |
| sleeping and shutdown | the flags above, whether the model is loaded | idle timeout, wake-up, signals | requests admitted before the server sleeps, signals at any time |
| router (`server_models`) | status, exit code, time of last use per model, `stopping_models`, three threads and a process per instance | `load`, `unload`, `unload_lru`, `unload_all`, `ensure_model_loaded`, `proxy_request` | checks and actions in different critical sections; threads that wait for each other |
| a slot's prompt | `prompt.tokens`, checkpoints, the prompt cache | reuse of a prefix or of chunks, context shift, checkpoints, save and load (prompt cache, slot save file), copy to a child, drafts | the server's account of the memory is never compared with the memory |
| KV cache | cells with positions and sequences, two indexes, search heads, pending copies and shifts | `seq_rm`, `seq_cp`, `seq_add`, `find_slot`, `prepare`, `apply_ubatch`, the mask, state read and write | indexes kept by hand; placements tried and taken back; copies and shifts done later |
| CPU thread pool | `n_graph`, the barrier's two counters, `stop`, `pause`, `abort`, `current_chunk` | `ggml_graph_compute`, the loop of a worker, `ggml_barrier`, pause, resume, free | lock-free counters that are used again at once; workers that poll, sleep or have not noticed the last graph |
| graph allocator | free blocks per chunk, children and views still to come per tensor, the plan of the last graph | `alloc`, `free_bytes`, `ggml_gallocr_allocate_node`, `reserve`, `alloc_graph` | memory is used again as soon as its last reader is placed; old plans are used for new graphs |
| HTTP layer, formatting, templates, sampling, tokenizers, file formats, kernels, scripts | – | – | sequential or numeric; see section 8 |

### What must hold

* queue, readers, slots: a task is in one place and is answered once; nothing a
  client waits for disappears; no result is left over; deferred tasks start when
  slots are idle; every request ends (the last two with an exception, section 4).
* inference loop: no slot outgrows its context; no slot reads another one's
  output; the loop does not wait while there is work.
* sleeping: no task runs on a destroyed context; whoever waits for the server
  to wake up gets through; `terminate` ends the loop.
* router: a status never runs ahead of the process and the threads behind it;
  every call returns.
* memory: what a slot believes to be in the cache is in it; every token attends
  to exactly the tokens before it; every slot samples from its own logits.
* thread pool: the parameters of the pool change only when nobody uses them; a
  node is computed after the nodes it reads; every graph returns, complete.
* allocator: no byte is handed out twice or lost; no tensor is overwritten while
  it is needed; every tensor lies in the buffer.

## 2. Modules

| Module | Models | State and actions |
|---|---|---|
| `ServerTask` | `server_task` | constant functions for the fields scheduling reads; helpers `is_parent`, `need_embd`, `get_list_id` |
| `ServerQueue` | `server_queue` | `queue_tasks`, `queue_tasks_deferred`; one operator per operation |
| `ServerResponse` | `server_response` | `waiting_task_ids`, `queue_results` |
| `ServerReader` | `server_response_reader` and the handlers that drive it | `rpc` (the HTTP thread's place), `received_count`, `cancelled`, and the history variable `answered` |
| `ServerContext` | the main thread | `mpc`, the message in hand, the slots, the batch and its views |
| `LlamaServer` | all of these together | the properties of the whole, and the history variable `handed`: tasks taken from the deferred ones for a released slot that did not get one yet |
| `TaskService` | the abstract service: jobs wait, run on one of `Capacity` slots, and are gone | `phase` per request, `place` per job, `answers` |
| `LlamaServerRefinement` | the refinement mapping from `LlamaServer` to `TaskService` | |
| `ServerSleep` | `start_loop`'s waiting, `wait_until_no_sleep`, `terminate`, the order of calls in `main` | the flags, the wait set of `condition_tasks`, whether the model is loaded |
| `ServerModels` | the router | status, exit code, time of last use; the managing, log and stopping threads and the process of each instance; HTTP threads |
| `KvCells` | `llama_kv_cells` | operators: one per method, from the object to the object |
| `KvCache` | `llama_kv_cache` | operators over caches, with what the K and V rows hold and how far the keys are rotated |
| `LlamaDecode` | `llama_context::decode`, `llama_batch_allocr`, `llama_kv_cache_iswa` | splitting a batch, placing it, computing it, reordering its outputs |
| `SlotMemory` | the same slots as `ServerContext`, over a real memory instead of free choices | the memory, per slot its prompt, checkpoints and batch indices, the batch, the prompt cache, the save file; an action per task and one per decoded view |
| `GgmlBarrier` | `ggml_barrier` | two counters; an action per atomic access |
| `CpuThreadpool` | `ggml_graph_compute`, the workers, pause, resume, free, the node loop, the chunks of `mul_mat` | the members of `ggml_threadpool`, a place per thread, and the history variable `work` |
| `DynTallocr` | `ggml_dyn_tallocr` | operators over sequences of chunks |
| `ComputeGraph` | `ggml_cgraph` as `ggml_gallocr` sees it | operators over sequences of tensors |
| `GraphAllocr` | `ggml_gallocr` and its caller | graph, hash values, allocator, plan, buffer; an action per tensor placed and one per source updated |
| `CpuThreadpoolSegments` | – | the inductive invariant of the pool and the lemmas about types, barrier and segments |
| `CpuThreadpoolSteps` | – | the proof that the steps between two barriers keep it |
| `GraphHeap` | – | what the tensors of a graph own and what is free, and the lemmas about it |
| `Server_proofs` | – | theorems about `TaskService`, `ServerSleep`, `ServerModels` |
| `KvCache_proofs`, `DynTallocr_proofs`, `GraphAllocr_proofs`, `CpuThreadpool_proofs` | – | theorems about `KvCells` and `KvCache`, and about the modules they are named after |
| `MC*` | – | instances for TLC |

Conventions. A critical section is one step. What the main thread does to its
slots between two critical sections is private to it and belongs to the step
that follows it. `ServerContext` splits `update_slots` where it touches a queue:
a slot that is answered and then released takes two steps, since HTTP threads
may run in between. Loops over the slots are a counter `cur`; `ret` is the loop a
release returns to. An operator whose name ends in an underscore and a word,
with a comment beginning "Mutant", is a deliberately wrong variant of the
definition after it. It is used only to show that a property can fail.

Data is reduced to what the properties distinguish. In `ServerContext` prompts
and generated text are numbers of tokens, the batch is the sequence of slots its
tokens belong to, adapters are names. Which idle slot `get_available_slot` picks
and how many tokens of a prompt are reused depend on cached text, so both are
free choices. So are sampled tokens (an end token may come at any time), failing
state files, and `llama_decode`, which succeeds, finds no room (returns 1) or
fails.

`SlotMemory` makes the opposite cut: the queues are gone, tasks come at any time
between two iterations, and tokens have identities, numbered as they first
appear, so that a row computed for one token can be told from any other. A row
also records the position its key is rotated to. A K-shift that fails is only
logged by the code and leaves wrong rotations; it is left out. `n_discard` has
its default, half of what is left. Prompts that are not to be reused
(`cache_prompt = false`) are covered by prompts of new tokens only. Images,
activated LoRA, coupled tokens, the positions of M-RoPE and the periodic
checkpoints during a long prompt (`checkpoint_every_nt`) are left out. There is
one save file; it is read by the server that wrote it, so that its token count
never exceeds the capacity. The field `early` of a slot is a history variable: the
slot is a child that was activated before its parent's last prompt token was
decoded.

`ServerModels` treats waiting on its condition variables as a guard, because
whatever changes what they wait for notifies all waiters under the mutex.
`ServerSleep` cannot do that, because `notify_one` on a shared condition variable
is part of the question, and so models the wait set. `CpuThreadpool` models the
wait sets of `pool->cond` and spurious wake-ups.

`GgmlBarrier` interleaves single accesses to atomics. The accesses that matter
are `seq_cst` or ordered by a neighbour that is, so interleaving is enough.
`CpuThreadpool` is the pthread variant, without OpenMP, affinity, priorities and
NUMA; `mul_mat_id`, which has a chunk counter per expert, is left out, and so are
the conversion of `src1` before the barrier of `mul_mat` and its two early returns
through `llamafile_sgemm`.

`GraphAllocr` has one buffer type and graphs in the form
`ggml_build_forward_expand` leaves. Addresses are numbers; alignment, padding and
the extra memory of a backend are modelled. Nodes that are flagged as inputs,
operations that write through a view of another tensor and the limit of 256 free
blocks per chunk are left out.

## 3. Runs that pass

| Run | Instance | Shows |
|---|---|---|
| `mix` | streaming completion with two choices whose client may leave, an embedding, a slot action; 2 slots | `AnsweredOnce`, `NoLostTask`, `ResultsOwned` |
| `fail` | completion with two choices and one with another adapter, context shift, every way `llama_decode` can fail, a prompt longer than the batch | `IdleWhenWaiting`, `ContextFits`, `OutputIsOwn`, `ImplementsService` |
| `ops` | a query, a completion with two choices that fails to launch half way, a request of two prompts, one of them empty, whose client may leave; no continuous batching | `BatchedSlotHasTask`, `ImplementsService` |
| `serve` | three requests for two slots: a completion with two choices whose client may leave, one that asks for slot 2 of 2 (which wraps around), an embedding; no context shift, no failing decodes, fair threads | `NoneDeferredWhenIdle`, `ContextFits`, `RequestsEnd` |
| `service` | `TaskService` itself, three requests with four jobs | `NothingLost`, `NeverRestarted` |
| `sleep` | three HTTP threads, sleep enabled, a signal at any time, quick locks | `TasksHaveModel`, `SleepsAsTold`, `WaitEnds`, `TasksProcessedAwake`, `LoopEnds` |
| `router` | two models, room for one, a request with and one without loading, a load of each, an unload, the shutdown, crashing children | `OldInstanceGone`, `LoadedIsReady`, `UnloadedAfterExit`, `StateDiagram`, `CallsReturn` |
| `memory` | one or two slots over three to six cells, in nine configurations (`MCConfigs`): context shift with chunk reuse in a shared and in a single cache, two choices in one stream, in one with too few cells for their prompt and in streams of their own, a slot save file, the prompt cache with failing ubatches, drafts, a sliding window with a checkpoint | `IndexesAgree`, `MemoryIsPrompt`, `WindowIsPrompt`, `AttentionExact`, `LogitsAreOwn`, `RefusalRestores`, `DecodeProgress` |
| `threads` | three threads, two graphs with one to three active threads, pause, resume, abort and free at any time | `ResetAlone`, `NodesInOrder`, `ResultComplete`, `GraphReturns`, `FreeReturns` |
| `plan` | all graphs of three or four nodes of the kinds in `MCGraphAllocr`, placed, then placed again with other sizes | `FreeListOK`, `EachByteOnce`, `ValuesKept`, `InsideBuffer` |

`ImplementsService` says that every step of the server is a step of
`TaskService` or changes nothing a client sees; together with the theorems about
`TaskService` it is the strongest safety statement about the whole server.
`MemoryIsPrompt` and `AttentionExact` are the corresponding ones about what the
slots compute: whatever is reused, shifted, copied, saved or rolled back, a token
attends to exactly the tokens of its own prompt; children activated early are the
exception (section 4). `ContextFits` is checked with context shift (`fail`) and without
(`serve`), where no slot may even be full. `ValuesKept` is what
`src/tests/test-alloc.cpp` asserts for its graphs, here for all small graphs.
`DecodeProgress` is a ranking argument stated as an action property: every pass of
the loop that decodes a batch gets nearer to its end.

Deadlock is not checked: every instance has finitely many requests, tokens or
graphs, and the system rightly stops moving once they are done.

## 4. Where the code breaks what it says

Each of these is one statement taken from a comment, a document, an assertion or a
test, and TLC finds a behaviour of the code that breaks it. The first two are runs
and findings of `PROJECT.json`. Where a configuration is named, it shows the
behaviour; the others are found by checking the property with the constants given.

| Configuration | Statement | What happens |
|---|---|---|
| `MCLlamaServer_child_abort` (run) | an over-long prompt gets an error (`test_chat_completion.py:405`) | with `n_cmpl > 1` the rejected parent's child stays in `WAIT_OTHER`; unless its CANCEL arrives in time, four empty batches end the process |
| `MCSlotMemory_checkpoint` (run) | only the suffix that differs is processed again (`README.md:473` of the server); the output is the same with and without the cache (`test_completion.py:224`) | a checkpoint with `pos_min = 0` is never erased and is restored for a different prompt |
| `MCLlamaServer_reject_abort` | an over-long prompt gets an error | four rejected prompts in a row, with nothing decoded in between, end the process |
| `MCLlamaServer_zombie` | "make sure to clean up pending tasks" (`server-queue.cpp:47`) | a task in the main thread's hand is in neither queue when its CANCEL is posted, is deferred, and runs later for nobody |
| `MCLlamaServer_view` | "when the main prompt is processed, activate all child tasks too" (`server-context.cpp:2752`) | after a retry with a smaller view the children are activated before the parent's last prompt token is decoded; what becomes of their memory is in `SlotMemory` (`NoneEarly`, `MCFewCells`) |
| `MCServerSleep_lost_task` | "Any new incoming task will automatically trigger the model to reload" (`README.md:1697` of the server) | a task posted just after the server fell asleep does not wake it |
| `MCServerSleep_stop_asleep` | "request exiting sleep state and wait until it is done" (`server-queue.h:50`) | `terminate` during sleep leaves `sleeping` set, and a waiting HTTP thread never returns |
| `MCServerModels_failing` | "return when the model is loaded or failed to load" (`server-models.h:133`) | the managing thread of a child that exits by itself joins a thread that waits for a stop request |
| `MCServerModels_limit` | "maximum number of models to load simultaneously" (`README.md:214` of the server) | two threads both find room for one |
| `MCSlotMemory_window` | a token attends to its whole window | two slots share a cache with a window: a prompt that equals what the slot holds skips the window check, and its last token is decoded again after its window was given away |
| `MCSlotMemory_copy` | "Copy all tokens that belong to the specified sequence to another sequence" (`llama.h:714`) | a copy to another stream that waits is overtaken by `prompt_load` into that stream |
| `MCGraphAllocr_topology` | "automatic reallocation if the topology changes when using a single buffer" (`ggml-alloc.h:70`) | a graph with other edges, and as many nodes of the same sizes, is placed by the old plan: a tensor is overwritten while it is needed |
| `MCGraphAllocr_output` | "graph outputs are never freed" (`ggml-alloc.c:690`) | a view that is an output does not keep its source |
| `MCGraphAllocr_retry` | a tensor lies in the buffer | after a buffer could not be had the new plan stays, and a caller that goes on is given addresses in no buffer |
| `NeverAborts`, a third request | the abort "fatal error" (`server-context.cpp:2671`) is not reached | a parent deferred while its request is being cancelled starts after its child's CANCEL and before its own; the child is left alone |
| `NeverStranded`, the constants of `serve` | "defer until one slot is available" (`server-queue.h:40`) | a task popped for a released slot is cancelled in the main queue, so that no release follows, and the next deferred task stays deferred with every slot idle, until another request is released; a popped task that cannot be launched, or is a slot action, does the same |
| `WaitEnds`, `QuickLock = FALSE` | as `stop_asleep` | a notified thread that gets the mutex only when the server sleeps again waits without a request |
| `HandlersHaveModel` | handlers that start with `create_response()` handle the sleeping case correctly (`server-context.cpp:3260`) | the model is destroyed between `create_response()` and its use |
| `LoopReturns` | "this will unblock start_loop()" (`server.cpp:277`) | `terminate` before `running = true` is forgotten |
| `EvictionEnds` | "wait for unload to complete" (`server-models.cpp:518`) | the victim is loaded again before the waiting thread looks |
| `NoStaleStop` | "these functions are thread-safe" (`server-models.h:124`) | an unload request made while the child is being reaped stops the next instance |
| `MemoryIsPrompt`, `MCPairReuse` | a slot's memory is its prompt | with one stream, two choices and chunk reuse, `seq_add` shifts cells that a running child shares |
| `MemoryIsPrompt`, `MCEmptyFile` | a slot's memory is its prompt | reading the save file of an empty slot leaves the cells of the slot as they are, and empties its prompt; they go when the slot is next used |
| `LogitsAreOwn`, `MCDraft` | a slot samples from its own logits | when the drafts of all slots do not fit in `n_batch`, `i_batch_dft` indexes another view |

The passing runs are set up beside these, or their properties state the exception.
`NoneDeferredWhenIdle` and `RequestsEnd` except what `NeverStranded` is refuted by,
and nothing else: a task popped for a released slot has ended before it had one
(`handed`), and the requests left behind are those that are still deferred.
`MemoryIsPrompt`, `WindowIsPrompt` and `AttentionExact` except a child activated
early until it is released; the configuration with too few cells reaches it.
`WaitEnds` and `TasksProcessedAwake` except a server that is told to stop, and the
second one that falls asleep; the first is checked with quick locks only. `CallsReturn` excepts a child that exits by itself and an
evicted model that is loaded again while the evicting thread waits. `memory`
has a window in a cache of one slot only and with one checkpoint, two choices only
without chunk reuse and, in streams of their own, without the prompt cache, drafts
that fit in `n_batch`, and saves slots that hold something, without a window.
`plan` keeps the edges of a graph when its sizes change, has no views that are
outputs, and a caller that gives up when there is no buffer.

The thread pool has no entry here: TLC found no behaviour, and the proofs show
there is none, that breaks what its comments say.

## 5. Bounds

* Two slots are the least for which a completion has a child, slots compete and
  a prompt is batched behind a generating slot. Three or four requests make the
  queue, the deferred queue and the slots non-empty together.
* `NBatch` 1 or 2 makes prompts span rounds, views split and generated tokens
  overfill a batch. `NCtx` 4 or 5 and `NPredict` up to 5 let a slot fill its
  context both before and after its budget is used up.
* `serve`: `NCtx` 4 with `NPredict` 2 and prompts of up to three tokens end a
  generation by the context as well as by the budget. Three requests are the least
  for which one can be left behind by a task that another's release popped.
* The counter of empty rounds is not bounded by the model: it ends at 4, the
  value at which the code aborts.
* The router's clock stands still at `MaxTime`, so that later readings coincide;
  a model used in the very millisecond of the reading is never a victim. Two
  models with room for one are enough for evictions to overlap. `unload_lru`
  reads the clock just before it takes the mutex; the model reads it in the same
  step.
* Three HTTP threads in `sleep` allow one to wait, one to be notified and one to
  post. The run checks liveness and therefore uses no symmetry.
* `memory`: three to six cells for two slots are fewer than their prompts need, so
  that placements fail, idle slots are purged and cells are used again. `max_tok`
  (2 to 6) bounds the tokens a behaviour may introduce and `max_new` those of one
  prompt: enough for a prompt to be reused, changed and reused again. `MaskSlack`
  0 makes the copied mask wrong as often as possible; the theorem `MaskShortcut`
  covers every margin.
* `threads`: three threads allow one to be in the spin loop of the last barrier
  while a second is in the next one and a third asleep. Two graphs let a worker
  miss one. `ChunksPerThread` 2 (4 in the code) makes the same graph use both ways
  of cutting a multiplication. `GraphBits` is 4, 16 in the code, and two graphs do
  not wrap it; the safety theorems hold for every width and any number of graphs,
  wrapped or not.
* `plan`: tensors of one or two aligned units and chunks of three make blocks of
  every relative size; `MaxChunks` 2 makes the second chunk the endless one.

## 6. Fairness

* `LlamaServer`: weak fairness of the main thread and of each HTTP thread, which
  are ordinary threads that never wait except for a message or a result. A
  client is never obliged to leave.
* `ServerSleep`: weak fairness of the main thread and of each HTTP thread; a
  signal need not come. `WaitEnds` also needs `QuickLock`: a thread that has been
  notified gets the mutex before the idle time (at least a second) has passed.
  The safety properties do not need it: `Server_proofs` proves them for both
  values.
* `ServerModels`: weak fairness of every thread of the router, and of a child
  reaching the end of its loading. A child need not obey the exit command: the
  stopping thread kills it after its timeout.
* `CpuThreadpool`: weak fairness of the caller once it has started something and
  of each thread in the pool. Nothing obliges the caller to compute another graph,
  to resume a pool it paused, or to free it.
* `SlotMemory` and `GraphAllocr` are sequential; their properties need none.

## 7. What is proved

The theorems hold for every number of requests, jobs, slots, threads, models,
cells, sequences, chunks and nodes that satisfies the modules' assumptions.

* `Server_proofs`, the service. `Kept` (types, `NothingLost` and `AnswersCurrent`
  together) is inductive; `NothingLost` alone is not, because that the jobs of a
  request not yet submitted are still new is `AnswersCurrent`'s part.
  `JobsNeverRestart` is an action property proved from `Kept`.
* `Server_proofs`, the router. `OldInstanceGone` is not inductive: it has to be known
  in which order the threads of an instance end. `InstanceOrder` says so: a
  managing thread past the log has a child that has exited, past the join a
  stopping thread that is done, a model without a managing thread is unloaded
  and has nothing else left, and a loaded model has a child that announced
  itself. `OrderStep` proves that every step keeps it, most steps by the lemma
  that HTTP threads other than in `Load` leave the instances alone.
  `UnloadsAfterExit` and `FollowsDiagram` follow for each step.
* `Server_proofs`, sleeping. `LoopInv` relates the flag, the place of the loop and the
  model, also for the time after `terminate`. `SleepsAsTold` alone is not
  inductive, because a loop that ends while it sleeps leaves the flag set and
  must be known to process nothing any more.
* `CpuThreadpoolSegments`, `CpuThreadpoolSteps` and `CpuThreadpool_proofs`. `ResetAlone`,
  `NodesInOrder` and `ResultComplete` for any number of threads, graphs, nodes
  and chunks, from the invariant `Inv`. The difficulty is that a barrier does not
  open for everybody at once: the last thread resets `n_barrier`, then bumps
  `n_barrier_passed`, and the others notice one by one while the first of them
  may already be in the next barrier, counting in the same `n_barrier`. The
  invariant therefore speaks of where a thread *will be*: a thread in the spin
  loop whose barrier has opened is taken to be behind it (`Pc`, `Node`), since
  nothing can stop it. Seen like this the bump opens the barrier for all active
  threads in one step, and `n_barrier` counts exactly the threads that wait.
  Between two openings all active threads are in one *segment* `Segment(k, ph)`
  of the graph: on the way to node `k` or at it (`split`, `prep`), between the
  inner barrier of a multiplication and the one behind it (`chunks`), or past the
  last node (`end`). For each segment `WorkOf` says exactly what has been
  computed of node `k`: in `chunks`, that every chunk below `current_chunk` is
  held or was computed by one thread, and that nobody leaves while there are
  more. The proof has a lemma per action (`StartInv`, `NodeLoopInv`, `AfterInv`,
  `SplitInv`, `MulMatInv`, `ChunkInv`, …), `BarrierView` for the five steps of the
  barrier, and `OpensInv`, where one segment becomes the next. A worker that is
  late for its graph is still in the segment, at its start (`Entering`): that is
  why the pool cannot be reset under it. The same invariant was first checked by
  TLC on the instance of `threads`.
* `KvCache_proofs`. Every method of `llama_kv_cells` keeps `used` and `seq_pos` in
  agreement with the cells (`CellsOK`, which `IndexesAgree` checks in every
  state). All methods change one cell; the lemma `OneCell` says what a change of
  one cell owes to the counts, and each theorem shows that its method pays it.
  `TakenBack` is the roll-back of `prepare()`: placing a token and setting the
  saved cell again gives back exactly the object there was.
  `MaskShortcut`: the mask copied from the first token of a
  sequence and corrected near the ubatch is the mask computed cell by cell.
  `EvictedUnseen`: `find_slot()` gives away an occupied cell only if no later
  token of its sequence would attend to it.
* `DynTallocr_proofs`. What `FreeListOK` and `EachByteOnce` need of the allocator,
  for every allocator with sorted, non-empty and separate blocks. `FreedIsFree`:
  freeing a range in use adds exactly this range to the free addresses, whichever
  neighbours it merges with, and the blocks stay sorted, non-empty and apart.
  `AllocatedWasFree`: an allocation takes exactly a range that was free, from a
  block that is large enough, and adds a chunk only when no block fits. The
  theorems assume that the size is positive and, for `alloc`, at most the size of
  the endless chunk. The proof of `GrownDown` shows that the search for an earlier neighbour after a merge with a
  later block finds nothing the first search has not seen. `TallocrCorrect` collects
  what a user of the allocator needs, alignment included: offsets and sizes are
  multiples of `Alignment`, a range below the high-water mark of its chunk is free
  or taken, and `alloc` and `free_bytes` move exactly the aligned range they are
  asked for (`TallocrWorks`).
* `GraphHeap` and `GraphAllocr_proofs`. `FreeListOK` and `EachByteOnce` for all
  graphs, sizes, alignments and numbers of chunks, from the invariant `HeapInv`.
  `EachByteOnce` is not inductive: that a tensor which is freed, or written over by
  its last reader, gives back exactly its own range needs to be known of every
  tensor at once. `HeapOK` says that each own tensor has an aligned range inside its
  chunk, that no two overlap, and that an address below the high-water mark is free
  exactly when nobody owns it. `HeapTaken` and `HeapGrown` add an owner, `HeapFreed`
  removes one, `HeapPassed` gives the range of a source to the node written over it
  and frees the rest. They rest on `TallocrWorks` and not on how free blocks are
  kept. The proofs assume of a graph what `IsGraph` says, and no bound.

Only model-checked, and why:

* Liveness and refinement: `RequestsEnd`, `WaitEnds`, `TasksProcessedAwake`,
  `LoopEnds`, `CallsReturn`, `GraphReturns`, `FreeReturns` are beyond the prover.
  `ImplementsService` and the invariants of `LlamaServer` rest on sequences that
  are filtered and folded, which need induction over data.
* `IndexesAgree` and the other properties of `SlotMemory`: the loops over cells and
  tokens are folds. The theorems about `KvCells` and `KvCache` prove each step of
  these folds.
* `ValuesKept` and `InsideBuffer` of `GraphAllocr` relate the addresses of all nodes
  over the whole plan to who reads them when, and to plans that are kept.
* `TypeOK` of `CpuThreadpool`: that the number of the graph stays below
  `2^GraphBits` needs facts about powers. The proofs do not use it.

## 8. What is not modelled

* In the server: images and audio, activated LoRA, prompt progress messages,
  embeddings that may be split over batches, the wording of answers;
  `server_response::terminate`; the HTTP layer. Speculative decoding, checkpoints,
  the prompt cache and the contents of save files are in `SlotMemory`, not in
  `ServerContext`. A context without memory (embedding models), for which a prompt
  of a task that needs logits is refused, is left out. `GGML_ABORT` for a prompt of
  which the memory holds nothing is not a step of `SlotMemory`: `MemoryIsPrompt` and
  `WindowIsPrompt` exclude the states it could be reached from. The signal
  handler's use of a mutex is not modelled.
* In the router: presets, arguments, ports, and the pipe of `server_http_proxy`.
* In the KV cache: coupled sequences, M-RoPE, quantized rows, a failing K-shift;
  recurrent and hybrid memories.
* In ggml: OpenMP, affinity, priorities, NUMA and `mul_mat_id`; allocation over several
  buffer types, the limit of 256 free blocks; the scheduler and the
  backends; the kernels.
* Elsewhere: sampling, grammars, tokenizers, chat templates, file formats,
  conversion and benchmark scripts. They are sequential, numeric or pure I/O.

## 9. Plan

1. Proofs about `LlamaServer`: the invariants that speak of slots and not of
   queues (`ContextFits`, `OutputIsOwn`, `BatchedSlotHasTask`, `IdleWhenWaiting`).
2. A set-based abstraction of the two queues between `LlamaServer` and
   `TaskService` for which the refinement can be proved.
3. `CommonLog` (`common/log.cpp`): the ring buffer that grows, pause and resume.
4. The copies and events of a pipelined graph split (`ggml-backend.cpp`).
5. `ValuesKept` of `GraphAllocr` from `HeapInv`: the children still to come of a
   tensor are its readers not yet placed.
6. `ProxyPipe` (`server-models.cpp`): the bounded life of a proxied response.
