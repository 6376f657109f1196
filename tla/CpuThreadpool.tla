---------------------------- MODULE CpuThreadpool ----------------------------
(***************************************************************************)
(* The thread pool of the CPU backend (without OpenMP).  The caller,       *)
(* thread 0, announces a graph by changing n_graph, wakes the workers and  *)
(* computes with them, node by node, with a barrier after each node.       *)
(* Workers poll for a new graph, then sleep on a condition variable.       *)
(*   n_graph     <<number of the graph, active threads>>, one atomic_int   *)
(*   stop, pause, abort, current_chunk, ec, cgraph   as in ggml_threadpool *)
(*   mutex       TRUE while the caller holds it between two steps; every   *)
(*               other critical section is one step                        *)
(*   last_graph, pending   per worker                                      *)
(*   pc          where each thread is; next[t]: where it goes on after the *)
(*               barrier it is in                                          *)
(*   node, chunk per thread: the node it works on, its chunk of it         *)
(*   asked       active threads asked for by the caller                    *)
(*   work        which thread has done which share of which node           *)
(***************************************************************************)
EXTENDS GgmlBarrier, Integers, FiniteSets, Sequences

CONSTANTS Graphs,          \* the graphs to choose from: sequences of nodes [op, chunks];
                           \* op is "empty", "split" (every thread does its share) or
                           \* "mul_mat" (chunks are handed out)
          MaxGraphs,       \* how many graphs are computed
          GraphBits,       \* width of the graph number in n_graph (16)
          ChunksPerThread  \* fewer chunks than this: one chunk per thread (4)

ASSUME PoolAssumption ==
  /\ MaxGraphs \in Nat /\ GraphBits \in Nat /\ ChunksPerThread \in Nat \ {0}
  /\ \A g \in Graphs : g \in Seq([op : {"empty", "split", "mul_mat"}, chunks : Nat]) /\ g # << >>

VARIABLES n_graph, stop, pause, abort, current_chunk, ec, cgraph, mutex,
          last_graph, pending, pc, next, node, chunk, asked, graphs, work

flags == <<n_graph, stop, pause>>
graph == <<abort, current_chunk, ec, cgraph>>
local == <<last_graph, pending>>
place == <<next, node, chunk>>
vars  == <<bvars, flags, graph, local, place, mutex, pc, asked, graphs, work>>

Workers == Threads \ {0}

Goto(t, l) == pc' = [pc EXCEPT ![t] = l]

\* ggml_threadpool_new_impl
Init == /\ BarrierInit
        /\ n_graph = <<0, 0>> /\ stop = FALSE /\ pause \in BOOLEAN /\ mutex = FALSE
        /\ abort = -1 /\ current_chunk = 0 /\ ec = "success" /\ cgraph = << >>
        /\ last_graph = [t \in Workers |-> <<0, 0>>] /\ pending = [t \in Workers |-> FALSE]
        /\ pc = [t \in Threads |-> IF t = 0 THEN "idle" ELSE "top"]
        /\ next = [t \in Threads |-> "none"]
        /\ node = [t \in Threads |-> 1] /\ chunk = [t \in Threads |-> 0]
        /\ asked = 0 /\ graphs = 0 /\ work = {}

(***************************************************************************)
(* The caller                                                              *)
(***************************************************************************)
\* ggml_cond_broadcast: the sleeping threads go on to take the mutex again
Woken == [t \in Threads |-> CASE pc[t] = "sleep" -> "lock" [] pc[t] = "paused" -> "woken" [] OTHER -> pc[t]]

\* ggml_graph_compute: "No worker threads should be accessing the parameters
\* below at this stage"
Compute(g, n) ==
  /\ pc[0] = "idle" /\ graphs < MaxGraphs
  /\ cgraph' = g /\ current_chunk' = 0 /\ abort' = -1 /\ ec' = "success"
  /\ asked' = IF n > NThreads THEN NThreads ELSE n
  /\ graphs' = graphs + 1 /\ work' = {}
  /\ Goto(0, "kickoff")
  /\ UNCHANGED <<bvars, flags, local, place, mutex>>

\* ggml_graph_compute_kickoff, the mutex held
Kickoff ==
  /\ pc[0] = "kickoff" /\ ~mutex
  /\ n_graph' = <<(n_graph[1] + 1) % 2^GraphBits, asked>>
  /\ mutex' = TRUE
  /\ Goto(0, "wake")
  /\ UNCHANGED <<bvars, stop, pause, graph, local, place, asked, graphs, work>>

\* Mutant: workers that sleep are not woken.
KickoffWake_silent ==
  /\ pc[0] = "wake"
  /\ pause' = FALSE /\ mutex' = FALSE
  /\ Goto(0, "start")
  /\ UNCHANGED <<bvars, n_graph, stop, graph, local, place, asked, graphs, work>>

\* resume if paused, broadcast, unlock
KickoffWake ==
  /\ pc[0] = "wake"
  /\ pause' = FALSE /\ mutex' = FALSE
  /\ pc' = [Woken EXCEPT ![0] = "start"]
  /\ UNCHANGED <<bvars, n_graph, stop, graph, local, place, asked, graphs, work>>

\* ggml_threadpool_pause, ggml_threadpool_resume
SetPause(b) ==
  /\ pc[0] = "idle" /\ ~mutex
  /\ pause' = b
  /\ pc' = IF pause = b THEN pc ELSE Woken
  /\ UNCHANGED <<bvars, n_graph, stop, graph, local, place, mutex, asked, graphs, work>>

\* Mutant: a paused worker stays in its loop.
Free_paused ==
  /\ pc[0] = "idle" /\ ~mutex
  /\ stop' = TRUE
  /\ pc' = [Woken EXCEPT ![0] = "join"]
  /\ UNCHANGED <<bvars, n_graph, pause, graph, local, place, mutex, asked, graphs, work>>

\* ggml_threadpool_free
Free ==
  /\ pc[0] = "idle" /\ ~mutex
  /\ stop' = TRUE /\ pause' = FALSE
  /\ pc' = [Woken EXCEPT ![0] = "join"]
  /\ UNCHANGED <<bvars, n_graph, graph, local, place, mutex, asked, graphs, work>>

Join ==
  /\ pc[0] = "join" /\ \A t \in Workers : pc[t] = "exit"
  /\ Goto(0, "freed")
  /\ UNCHANGED <<bvars, flags, graph, local, place, mutex, asked, graphs, work>>

(***************************************************************************)
(* ggml_graph_compute_secondary_thread                                     *)
(***************************************************************************)
WorkerUnchanged == UNCHANGED <<bvars, flags, graph, place, mutex, asked, graphs, work>>

\* while (pause), and after it if (stop)
Top(t) ==
  /\ pc[t] = "top"
  /\ Goto(t, IF pause THEN "pausing" ELSE "stop?")
  /\ WorkerUnchanged /\ UNCHANGED local

\* lock; if (pause) cond_wait
Pausing(t) ==
  /\ pc[t] = "pausing" /\ ~mutex
  /\ Goto(t, IF pause THEN "paused" ELSE "top")
  /\ WorkerUnchanged /\ UNCHANGED local

Woke(t) ==
  /\ pc[t] = "woken" /\ ~mutex
  /\ Goto(t, "top")
  /\ WorkerUnchanged /\ UNCHANGED local

CheckStop(t) ==
  /\ pc[t] = "stop?"
  /\ Goto(t, IF stop THEN "exit" ELSE "poll")
  /\ WorkerUnchanged /\ UNCHANGED local

\* the second half of ggml_graph_compute_thread_ready, and where each answer leads
NewGraph(t, otherwise) ==
  LET mine == t < n_graph[2]
  IN  IF n_graph = last_graph[t] THEN Goto(t, otherwise) /\ UNCHANGED local
      ELSE /\ pending' = [pending EXCEPT ![t] = mine]
           /\ last_graph' = [last_graph EXCEPT ![t] = n_graph]
           /\ Goto(t, IF mine THEN "start" ELSE IF pc[t] = "poll2" THEN "lock" ELSE "top")

\* ggml_graph_compute_poll_for_work: the flags are read before n_graph
Poll(t) ==
  /\ pc[t] = "poll"
  /\ Goto(t, IF stop \/ pause THEN "lock" ELSE "poll2")
  /\ WorkerUnchanged /\ UNCHANGED local

\* polls again, or has polled long enough
Poll2(t) ==
  /\ pc[t] = "poll2"
  /\ \E l \in {"poll", "lock"} : NewGraph(t, l)
  /\ WorkerUnchanged

\* ggml_graph_compute_check_for_work: lock; while (!ready) cond_wait
CheckForWork(t) ==
  /\ pc[t] = "lock" /\ ~mutex
  /\ IF stop \/ pause THEN Goto(t, "top") /\ UNCHANGED local ELSE NewGraph(t, "sleep")
  /\ WorkerUnchanged

\* cond_wait may return without a broadcast
SpuriousWakeup(t) ==
  /\ pc[t] \in {"sleep", "paused"}
  /\ Goto(t, IF pc[t] = "sleep" THEN "lock" ELSE "woken")
  /\ WorkerUnchanged /\ UNCHANGED local

(***************************************************************************)
(* ggml_graph_compute_thread                                               *)
(***************************************************************************)
nth == n_graph[2]

Start(t) ==
  /\ pc[t] = "start"
  /\ node' = [node EXCEPT ![t] = 1]
  /\ pending' = [u \in Workers |-> IF u = t THEN FALSE ELSE pending[u]]
  /\ Goto(t, "head")
  /\ UNCHANGED <<bvars, flags, graph, last_graph, next, chunk, mutex, asked, graphs, work>>

\* ggml_barrier, then on to l
BarrierThen(t, l) == CallBarrier(t) /\ next' = [next EXCEPT ![t] = l] /\ Goto(t, "barrier")

\* Mutant: the caller leaves without the barrier at the end.
NodeLoop_leaves(t) ==
  /\ pc[t] = "head"
  /\ IF node[t] > Len(cgraph) \/ abort = node[t]
      THEN IF t # 0 THEN BarrierThen(t, "return") /\ UNCHANGED node
           ELSE Goto(t, "return") /\ UNCHANGED <<bvars, next, node>>
      ELSE IF cgraph[node[t]].op = "empty"
           THEN node' = [node EXCEPT ![t] = @ + 1] /\ UNCHANGED <<bvars, pc, next>>
           ELSE Goto(t, "compute") /\ UNCHANGED <<bvars, next, node>>
  /\ UNCHANGED <<flags, graph, local, chunk, mutex, asked, graphs, work>>

\* the head of the loop over the nodes
NodeLoop(t) ==
  /\ pc[t] = "head"
  /\ IF node[t] > Len(cgraph) \/ abort = node[t]
      THEN BarrierThen(t, "return") /\ UNCHANGED node
      ELSE IF cgraph[node[t]].op = "empty"
           THEN node' = [node EXCEPT ![t] = @ + 1] /\ UNCHANGED <<bvars, pc, next>>
           ELSE Goto(t, "compute") /\ UNCHANGED <<bvars, next, node>>
  /\ UNCHANGED <<flags, graph, local, chunk, mutex, asked, graphs, work>>

\* ggml_compute_forward of an op that is split evenly
Split(t) ==
  /\ pc[t] = "compute" /\ cgraph[node[t]].op = "split"
  /\ work' = work \union {<<node[t], t, t>>}
  /\ Goto(t, "after")
  /\ UNCHANGED <<bvars, flags, graph, local, place, mutex, asked, graphs>>

\* ggml_compute_forward_mul_mat: "Every thread starts at ith, so the first
\* unprocessed chunk is nth".  The conversion of src1 into wdata before the barrier
\* (each thread its own blocks) and the two ways out through llamafile_sgemm are
\* left out.
MulMat(t) ==
  /\ pc[t] = "compute" /\ cgraph[node[t]].op = "mul_mat"
  /\ current_chunk' = IF t = 0 THEN nth ELSE current_chunk
  /\ chunk' = [chunk EXCEPT ![t] = t]
  /\ BarrierThen(t, "chunks")
  /\ UNCHANGED <<flags, abort, ec, cgraph, local, node, mutex, asked, graphs, work>>

\* with few chunks the result is cut into one per thread
nchunk(i) == IF cgraph[i].op = "split" \/ cgraph[i].chunks < nth * ChunksPerThread THEN nth ELSE cgraph[i].chunks

\* Mutant: a chunk number is read and advanced in two steps of two threads.
Chunk_shared(t) ==
  /\ pc[t] = "chunks"
  /\ IF chunk[t] >= nchunk(node[t]) THEN Goto(t, "after") /\ UNCHANGED <<current_chunk, chunk, work>>
      ELSE /\ work' = work \union {<<node[t], chunk[t], t>>}
           /\ IF nth >= nchunk(node[t]) THEN Goto(t, "after") /\ UNCHANGED <<current_chunk, chunk>>
              ELSE /\ chunk' = [chunk EXCEPT ![t] = current_chunk]
                   /\ current_chunk' \in {current_chunk, current_chunk + 1}
                   /\ UNCHANGED pc
  /\ UNCHANGED <<bvars, flags, abort, ec, cgraph, local, next, node, mutex, asked, graphs>>

\* one round of the loop over the chunks
Chunk(t) ==
  /\ pc[t] = "chunks"
  /\ IF chunk[t] >= nchunk(node[t]) THEN Goto(t, "after") /\ UNCHANGED <<current_chunk, chunk, work>>
      ELSE /\ work' = work \union {<<node[t], chunk[t], t>>}
           /\ IF nth >= nchunk(node[t]) THEN Goto(t, "after") /\ UNCHANGED <<current_chunk, chunk>>
              ELSE /\ chunk' = [chunk EXCEPT ![t] = current_chunk]
                   /\ current_chunk' = current_chunk + 1
                   /\ UNCHANGED pc
  /\ UNCHANGED <<bvars, flags, abort, ec, cgraph, local, next, node, mutex, asked, graphs>>

\* Mutant: the status is left as it was.
After_silent(t, aborts) ==
  /\ pc[t] = "after" /\ (aborts => t = 0)
  /\ abort' = IF aborts THEN node[t] + 1 ELSE abort
  /\ IF node[t] < Len(cgraph) THEN BarrierThen(t, "next") /\ UNCHANGED node
      ELSE node' = [node EXCEPT ![t] = @ + 1] /\ Goto(t, "head") /\ UNCHANGED <<bvars, next>>
  /\ UNCHANGED <<flags, ec, current_chunk, cgraph, local, chunk, mutex, asked, graphs, work>>

\* the caller asks abort_callback; no barrier after the last node
After(t, aborts) ==
  /\ pc[t] = "after" /\ (aborts => t = 0)
  /\ abort' = IF aborts THEN node[t] + 1 ELSE abort
  /\ ec' = IF aborts THEN "aborted" ELSE ec
  /\ IF node[t] < Len(cgraph) THEN BarrierThen(t, "next") /\ UNCHANGED node
      ELSE node' = [node EXCEPT ![t] = @ + 1] /\ Goto(t, "head") /\ UNCHANGED <<bvars, next>>
  /\ UNCHANGED <<flags, current_chunk, cgraph, local, chunk, mutex, asked, graphs, work>>

\* inside ggml_barrier, and out of it
Barrier(t) ==
  /\ pc[t] = "barrier"
  /\ BarrierStep(t, nth)
  /\ IF ~Left(t) THEN UNCHANGED <<pc, node>>
      ELSE IF next[t] = "next" THEN Goto(t, "head") /\ node' = [node EXCEPT ![t] = @ + 1]
      ELSE Goto(t, next[t]) /\ UNCHANGED node
  /\ UNCHANGED <<flags, graph, local, next, chunk, mutex, asked, graphs, work>>

Return(t) ==
  /\ pc[t] = "return"
  /\ Goto(t, IF t = 0 THEN "idle" ELSE "top")
  /\ UNCHANGED <<bvars, flags, graph, local, place, mutex, asked, graphs, work>>

(***************************************************************************)
(* Every thread that is in a function goes on; what the caller does when   *)
(* it is in none is its choice.                                            *)
(***************************************************************************)
WorkerStep(t) == \/ Top(t) \/ Pausing(t) \/ Woke(t) \/ CheckStop(t)
                 \/ Poll(t) \/ Poll2(t) \/ CheckForWork(t)

ComputeStep(t) == \/ Start(t) \/ NodeLoop(t) \/ Split(t) \/ MulMat(t) \/ Chunk(t)
                  \/ \E aborts \in BOOLEAN : After(t, aborts)
                  \/ Barrier(t) \/ Return(t)

CallerStep == Kickoff \/ KickoffWake \/ Join

CallerChoice == \/ \E g \in Graphs, n \in 1 .. NThreads + 1 : Compute(g, n)
                \/ \E b \in BOOLEAN : SetPause(b)
                \/ Free

Next == \/ CallerChoice \/ CallerStep
        \/ \E t \in Workers : WorkerStep(t)
        \/ \E t \in Workers : SpuriousWakeup(t)
        \/ \E t \in Threads : ComputeStep(t)

Fairness == /\ WF_vars(CallerStep)
            /\ \A t \in Workers : WF_vars(WorkerStep(t))
            /\ \A t \in Threads : WF_vars(ComputeStep(t))

Spec == Init /\ [][Next]_vars /\ Fairness

(***************************************************************************)
(* Properties                                                              *)
(***************************************************************************)
\* The counters and the program counters have their types; at most the active
\* threads are inside the barrier's count.
TypeOK ==
  /\ n_barrier \in 0 .. NThreads /\ n_barrier_passed \in Nat
  /\ n_passed \in [Threads -> Nat]
  /\ bpc \in [Threads -> {"out", "load", "enter", "reset", "bump", "spin"}]
  /\ n_graph \in (0 .. 2^GraphBits - 1) \X (0 .. NThreads)
  /\ stop \in BOOLEAN /\ pause \in BOOLEAN /\ mutex \in BOOLEAN
  /\ abort \in Int /\ current_chunk \in Nat /\ ec \in {"success", "aborted"}
  /\ cgraph \in Graphs \union {<< >>}
  /\ \A t \in Workers : pending[t] => pc[t] = "start"
  /\ node \in [Threads -> Nat] /\ chunk \in [Threads -> Nat]
  /\ asked \in 0 .. NThreads /\ graphs \in 0 .. MaxGraphs

\* t may still read the parameters of the graph or count in its barriers
InGraph(t) ==
  \/ pc[t] \in {"start", "head", "compute", "chunks", "after"}
  \/ pc[t] = "barrier" /\ (next[t] # "return" \/ bpc[t] # "spin")

\* The parameters of the pool are reset for the next graph only when no worker
\* is in the last one any more ("No worker threads should be accessing the
\* parameters below at this stage").
ResetAlone == pc[0] \in {"idle", "kickoff", "join", "freed"} => \A t \in Workers : ~InGraph(t)

\* every share of node i was computed, each by one thread, and nothing else
Complete(i) ==
  /\ \A c \in 0 .. nchunk(i) - 1 : Cardinality({t \in Threads : <<i, c, t>> \in work}) = 1
  /\ \A x \in work : x[1] = i => x[2] < nchunk(i)

\* A thread works on a node only when every earlier node is complete: the rows
\* it reads have been written, each by one thread.
NodesInOrder ==
  \A t \in Threads : pc[t] \in {"compute", "chunks"} =>
    \A i \in 1 .. node[t] - 1 : cgraph[i].op = "empty" \/ Complete(i)

\* When ggml_graph_compute returns, every node is complete, or every node up to
\* the one after which abort_callback asked to stop.
ResultComplete ==
  pc[0] = "idle" => \A i \in DOMAIN cgraph :
    cgraph[i].op = "empty" \/ (ec = "aborted" /\ i >= abort) \/ Complete(i)

\* Every graph that is started returns: no wake-up is lost, whatever the workers
\* were doing and however the number of threads changes between graphs.
GraphReturns == pc[0] = "kickoff" ~> pc[0] = "idle"

\* ggml_threadpool_free returns: every worker leaves, from wherever it waits.
FreeReturns == pc[0] = "join" ~> pc[0] = "freed"
=============================================================================
