----------------------- MODULE CpuThreadpoolSegments -----------------------
(***************************************************************************)
(* What the proofs about the thread pool rest on: the inductive invariant, *)
(* the types, and the barrier and the segments it separates.               *)
(*                                                                         *)
(* A thread in the spin loop of a barrier that has opened will go on and   *)
(* nothing can stop it, so it is taken to be where it goes (Pc, Node).     *)
(* Seen like this a barrier opens for all its threads in one step, and     *)
(* between two openings the active threads are all in one segment of the   *)
(* graph (Segment): on the way to one node or at it, before or after its   *)
(* own barrier, or at the barrier behind it.                               *)
(***************************************************************************)
EXTENDS CpuThreadpool, FiniteSetTheorems, WellFoundedInduction, TLAPS

Away == {"top", "pausing", "paused", "woken", "stop?", "poll", "poll2", "lock", "sleep", "exit", "return"}
Inside == {"start", "head", "compute", "chunks", "after", "barrier"}
Finished == {"return", "idle", "kickoff", "join", "freed"}
Phases == {"split", "prep", "chunks", "end"}

Passed(t) == bpc[t] = "spin" /\ n_passed[t] # n_barrier_passed

Pc == [t \in Threads |-> IF ~Passed(t) THEN pc[t] ELSE IF next[t] = "next" THEN "head" ELSE next[t]]

Node == [t \in Threads |-> IF Passed(t) /\ next[t] = "next" THEN node[t] + 1 ELSE node[t]]

Active == {t \in Threads : t < nth}

Types ==
  /\ n_barrier \in Nat /\ n_barrier_passed \in Nat /\ n_passed \in [Threads -> Nat]
  /\ bpc \in [Threads -> {"out", "load", "enter", "reset", "bump", "spin"}]
  /\ nth \in 0 .. NThreads /\ asked \in 0 .. NThreads
  /\ abort \in Int /\ current_chunk \in Nat /\ cgraph \in Graphs \union {<< >>}
  /\ last_graph = [t \in Workers |-> last_graph[t]]
  /\ node \in [Threads -> Nat] /\ chunk \in [Threads -> Nat]
  /\ next \in [Threads -> {"none", "next", "chunks", "return"}]
  /\ pc \in [Threads -> Away \union Inside \union Finished \union {"wake"}]
  /\ pc[0] \in Finished \union Inside \union {"wake"}
  /\ \A t \in Workers : pc[t] \in Away \union Inside
  /\ work \in SUBSET (Nat \X Nat \X Threads)

(***************************************************************************)
(* The barrier: n_barrier counts the threads that wait, until the last one *)
(* enters; then all the others wait.                                       *)
(***************************************************************************)
Waiting == {t \in Threads : bpc[t] = "spin" /\ ~Passed(t)}

Opening(t) == bpc[t] \in {"reset", "bump"}

BarrierOf(t) ==
  /\ pc[t] = "barrier" <=> bpc[t] # "out"
  /\ pc[t] = "barrier" => next[t] # "none"
  /\ n_passed[t] <= n_barrier_passed
  /\ bpc[t] = "enter" => n_passed[t] = n_barrier_passed
  /\ Opening(t) => Waiting = Active \ {t}
  /\ bpc[t] = "bump" => n_barrier = 0

BarrierInv ==
  /\ \A t \in Threads : BarrierOf(t)
  /\ (\A t \in Threads : ~Opening(t)) => n_barrier = Cardinality(Waiting)

(***************************************************************************)
(* The segment: k is the node it is about, ph is "split" or "prep" up to   *)
(* the first barrier of a node that is computed, "chunks" after the inner  *)
(* barrier of a multiplication, "end" when no node is left.                *)
(***************************************************************************)
Running == Pc[0] \notin Finished

\* the loop over the nodes goes from node i to node k without stopping
Clear(i, k) == i <= k /\ \A j \in i .. k - 1 : cgraph[j].op = "empty" /\ abort # j

Entering(t) == Pc[t] \in {"wake", "start"} \union (IF t = 0 THEN {} ELSE Away)

Before(t, k) == \/ Entering(t) /\ Clear(1, k)
                \/ Pc[t] = "head" /\ Node[t] > 0 /\ Clear(Node[t], k)

At(t, l, k) == Pc[t] = l /\ Node[t] = k

BlockedFor(t, l) == Pc[t] = "barrier" /\ next[t] = l

Leaving(t, k) == \/ At(t, "after", k)
                 \/ k < Len(cgraph) /\ BlockedFor(t, "next") /\ Node[t] = k
                 \/ k = Len(cgraph) /\ (At(t, "head", k + 1) \/ BlockedFor(t, "return"))

InSegment(t, k, ph) ==
  \/ ph # "chunks" /\ Before(t, k)
  \/ ph \in {"split", "prep"} /\ At(t, "compute", k)
  \/ ph = "prep" /\ BlockedFor(t, "chunks") /\ Node[t] = k
  \/ ph = "chunks" /\ At(t, "chunks", k)
  \/ ph \in {"split", "chunks"} /\ Leaving(t, k)
  \/ ph = "end" /\ BlockedFor(t, "return")

Reached(k, ph) ==
  IF ph = "end" THEN k = Len(cgraph) + 1 \/ abort = k
  ELSE k <= Len(cgraph) /\ abort # k /\ cgraph[k].op = IF ph = "split" THEN "split" ELSE "mul_mat"

\* what has been done of node k in each phase
SplitWork(k) == \A c \in Nat, u \in Threads : <<k, c, u>> \in work <=> c = u /\ u \in Active /\ Leaving(u, k)

Unworked(k) == \A c \in Nat, u \in Threads : <<k, c, u>> \notin work

\* before the inner barrier the first chunks are set up
Prepared == \A t \in Active : Pc[t] = "barrier" => chunk[t] = t /\ (t = 0 => current_chunk = nth)

Holds(t, c) == t \in Active /\ Pc[t] = "chunks" /\ chunk[t] = c

\* behind it every chunk that was handed out is held by one thread or was
\* computed by one, and nobody leaves before all are handed out
ChunkWork(k) ==
  /\ nth <= current_chunk
  /\ \A t \in Threads, c \in Nat : Holds(t, c) => c < current_chunk
  /\ \A t, u \in Threads, c \in Nat : Holds(t, c) /\ Holds(u, c) => t = u
  /\ \A t \in Threads, c \in Nat : <<k, c, t>> \in work =>
       /\ c < nchunk(k) /\ c < current_chunk
       /\ \A u \in Threads : ~Holds(u, c) /\ (<<k, c, u>> \in work => u = t)
  /\ \A c \in Nat : c < nchunk(k) /\ c < current_chunk =>
       \E t \in Threads : Holds(t, c) \/ <<k, c, t>> \in work
  /\ \A t \in Active : Leaving(t, k) => nchunk(k) <= current_chunk

WorkOf(k, ph) ==
  /\ ph = "split" => SplitWork(k)
  /\ ph = "prep" => Unworked(k) /\ Prepared
  /\ ph = "chunks" => ChunkWork(k)
  /\ ph = "end" => Unworked(k)

DoneBefore(k) == \A i \in 1 .. k - 1 : cgraph[i].op = "empty" \/ Complete(i)

Segment(k, ph) ==
  /\ Reached(k, ph)
  /\ \A t \in Active : InSegment(t, k, ph)
  /\ \A x \in work : x[1] <= k
  /\ DoneBefore(k)
  /\ WorkOf(k, ph)

(***************************************************************************)
(* The graph                                                               *)
(***************************************************************************)
Ready == work = {} /\ abort = -1 /\ ec = "success" /\ cgraph \in Graphs /\ asked \in 1 .. NThreads

Result == \A i \in DOMAIN cgraph : cgraph[i].op = "empty" \/ (ec = "aborted" /\ i >= abort) \/ Complete(i)

WorkerInv(t) ==
  /\ ~Running \/ t >= nth => Pc[t] \in Away
  /\ t < nth /\ (~Running \/ Pc[t] \notin Away) => last_graph[t] = n_graph

SomeSegment == \E k \in 1 .. Len(cgraph) + 1, ph \in Phases : Segment(k, ph)

GraphInv ==
  /\ abort # -1 => ec = "aborted"
  /\ \A t \in Workers : WorkerInv(t)
  /\ Pc[0] = "kickoff" => Ready
  /\ Pc[0] \in {"return", "idle"} => Result
  /\ Running => cgraph \in Graphs /\ nth \in 1 .. NThreads /\ SomeSegment

Inv == Types /\ BarrierInv /\ GraphInv

(***************************************************************************)
(* Types                                                                   *)
(***************************************************************************)
\* The types hold in a new pool.
LEMMA InitTypes == Init => Types
  BY ThreadAssumption DEF Init, BarrierInit, Types, Threads, Workers, nth, Away, Inside, Finished

\* The caller is thread 0, and no worker.
LEMMA ThreadZero == 0 \in Threads /\ 0 \notin Workers /\ Workers \subseteq Threads
  BY ThreadAssumption DEF Threads, Workers

\* the caller's functions outside a graph
LEMMA CallerTypes ==
  ASSUME Types, CallerChoice \/ CallerStep
  PROVE  Types'
<1> USE ThreadZero, ThreadAssumption
<1>1. ASSUME NEW g \in Graphs, NEW n \in 1 .. NThreads + 1, Compute(g, n) PROVE Types'
  BY <1>1 DEF Types, Compute, Goto, bvars, flags, local, place, nth, Finished
<1>2. CASE Kickoff
  BY <1>2 DEF Types, Kickoff, Goto, bvars, graph, local, place, nth, Finished
<1>4. ASSUME pc' = Woken \/ \E l \in Finished \union Inside : pc' = [Woken EXCEPT ![0] = l],
             UNCHANGED <<bvars, n_graph, graph, local, place, asked, work>>, pc[0] \in {"idle", "wake"}
      PROVE  Types'
  <2>1. Woken \in [Threads -> Away \union Inside \union Finished \union {"wake"}]
    BY DEF Types, Woken, Away, Inside, Finished
  <2>2. Woken[0] = pc[0]
    BY <1>4 DEF Woken, Types
  <2>3. \A t \in Workers : Woken[t] \in Away \union Inside
    BY DEF Woken, Types, Away, Inside
  <2> HIDE DEF Woken
  <2>4. /\ pc' \in [Threads -> Away \union Inside \union Finished \union {"wake"}]
        /\ pc'[0] \in Finished \union Inside \union {"wake"}
        /\ \A t \in Workers : pc'[t] \in Away \union Inside
    BY <1>4, <2>1, <2>2, <2>3 DEF Workers, Finished
  <2> QED BY <1>4, <2>4 DEF Types, bvars, graph, local, place, nth
<1>5. CASE KickoffWake
  BY <1>5, <1>4 DEF KickoffWake, Inside
<1>6. ASSUME NEW b \in BOOLEAN, SetPause(b) PROVE Types'
  <2>1. CASE pause = b
    BY <2>1, <1>6 DEF SetPause, Types, bvars, graph, local, place, nth
  <2>2. CASE pause # b
    BY <2>2, <1>6, <1>4 DEF SetPause
  <2> QED BY <2>1, <2>2
<1>7. CASE Free
  BY <1>7, <1>4 DEF Free, Finished
<1>8. CASE Join
  BY <1>8 DEF Types, Join, Goto, bvars, flags, graph, local, place, nth, Finished
<1> QED BY <1>1, <1>2, <1>5, <1>6, <1>7, <1>8 DEF CallerChoice, CallerStep

\* So does a worker that waits for a graph.
LEMMA WorkerTypes ==
  ASSUME Types, NEW t \in Workers, WorkerStep(t) \/ SpuriousWakeup(t)
  PROVE  Types' /\ pc[t] \in Away
<1> USE ThreadZero, ThreadAssumption
<1>1. WorkerUnchanged
  BY DEF WorkerStep, SpuriousWakeup, Top, Pausing, Woke, CheckStop, Poll, Poll2, CheckForWork
<1>2. ASSUME NEW l \in Away, NewGraph(t, l)
      PROVE  /\ \E m \in Away \union {"start"} : Goto(t, m)
             /\ last_graph' = [u \in Workers |-> last_graph'[u]]
  BY <1>2 DEF NewGraph, Types, local, Away
<1>3. /\ \E m \in Away \union {"start"} : Goto(t, m)
      /\ last_graph' = [u \in Workers |-> last_graph'[u]]
  BY <1>2 DEF WorkerStep, SpuriousWakeup, Top, Pausing, Woke, CheckStop, Poll, Poll2, CheckForWork, Away, local, Types
<1>4. pc[t] \in Away
  BY DEF WorkerStep, SpuriousWakeup, Top, Pausing, Woke, CheckStop, Poll, Poll2, CheckForWork, Away
<1>5. PICK m \in Away \union {"start"} : pc' = [pc EXCEPT ![t] = m]
  BY <1>3 DEF Goto
<1>6. /\ pc \in [Threads -> Away \union Inside \union Finished \union {"wake"}]
      /\ pc[0] \in Finished \union Inside \union {"wake"}
      /\ \A u \in Workers : pc[u] \in Away \union Inside
  BY DEF Types
<1>7. m \in Away \union Inside /\ t # 0 /\ t \in Threads
  BY <1>5 DEF Inside
<1>8. /\ pc' \in [Threads -> Away \union Inside \union Finished \union {"wake"}]
      /\ pc'[0] \in Finished \union Inside \union {"wake"}
      /\ \A u \in Workers : pc'[u] \in Away \union Inside
  BY <1>5, <1>6, <1>7
<1> QED BY <1>1, <1>3, <1>4, <1>8 DEF Types, WorkerUnchanged, bvars, flags, graph, place, nth

\* A node of the graph, and its number of chunks, have their types.
LEMMA GraphType ==
  ASSUME Types, NEW i \in 1 .. Len(cgraph)
  PROVE  /\ cgraph \in Seq([op : {"empty", "split", "mul_mat"}, chunks : Nat])
         /\ cgraph[i].op \in {"empty", "split", "mul_mat"} /\ nchunk(i) \in Nat
<1>1. cgraph \in Seq([op : {"empty", "split", "mul_mat"}, chunks : Nat])
  BY PoolAssumption DEF Types
<1>2. cgraph[i] \in [op : {"empty", "split", "mul_mat"}, chunks : Nat]
  <2> DEFINE S == [op : {"empty", "split", "mul_mat"}, chunks : Nat]
  <2>1. cgraph \in Seq(S)
    BY <1>1
  <2> HIDE DEF S
  <2>2. cgraph[i] \in S
    BY <2>1
  <2> QED BY <2>2 DEF S
<1>3. nth \in Nat
  BY ThreadAssumption DEF Types
<1> QED BY <1>1, <1>2, <1>3 DEF nchunk

\* The functions that compute keep the types.
LEMMA ComputeTypes ==
  ASSUME Types, BarrierInv, NEW t \in Threads, ComputeStep(t)
  PROVE  Types'
<1> USE ThreadZero, ThreadAssumption
<1>0. ASSUME node' = [node EXCEPT ![t] = node[t] + 1] PROVE node' \in [Threads -> Nat]
  <2>1. node \in [Threads -> Nat]
    BY DEF Types
  <2> QED BY <1>0, <2>1
<1>1. ASSUME NEW l \in Inside, Goto(t, l)
      PROVE  /\ pc' \in [Threads -> Away \union Inside \union Finished \union {"wake"}]
             /\ pc'[0] \in Finished \union Inside \union {"wake"}
             /\ \A u \in Workers : pc'[u] \in Away \union Inside
  BY <1>1 DEF Types, Goto, Workers
<1>2. ASSUME NEW l \in {"next", "chunks", "return"}, BarrierThen(t, l)
      PROVE  /\ n_barrier' \in Nat /\ n_barrier_passed' \in Nat /\ n_passed' \in [Threads -> Nat]
             /\ bpc' \in [Threads -> {"out", "load", "enter", "reset", "bump", "spin"}]
             /\ next' \in [Threads -> {"none", "next", "chunks", "return"}]
             /\ Goto(t, "barrier")
  BY <1>2 DEF BarrierThen, CallBarrier, Types
<1>3. CASE Start(t)
  <2>1. Goto(t, "head")
    BY <1>3 DEF Start
  <2> QED BY <1>3, <2>1, <1>1 DEF Start, Types, bvars, flags, graph, nth, Inside
<1>4. CASE NodeLoop(t)
  <2>1. CASE node[t] > Len(cgraph) \/ abort = node[t]
    <3>1. BarrierThen(t, "return") /\ UNCHANGED node
      BY <2>1, <1>4 DEF NodeLoop
    <3> QED BY <1>4, <3>1, <1>1, <1>2 DEF NodeLoop, Types, flags, graph, local, nth, Inside
  <2>2. CASE ~(node[t] > Len(cgraph) \/ abort = node[t]) /\ cgraph[node[t]].op = "empty"
    <3>1. node' = [node EXCEPT ![t] = node[t] + 1] /\ UNCHANGED <<bvars, pc, next>>
      BY <2>2, <1>4 DEF NodeLoop
    <3> QED BY <1>4, <3>1, <1>0 DEF NodeLoop, Types, flags, graph, local, nth, bvars
  <2>3. CASE ~(node[t] > Len(cgraph) \/ abort = node[t]) /\ cgraph[node[t]].op # "empty"
    <3>1. Goto(t, "compute") /\ UNCHANGED <<bvars, next, node>>
      BY <2>3, <1>4 DEF NodeLoop
    <3> QED BY <1>4, <3>1, <1>1 DEF NodeLoop, Types, flags, graph, local, nth, Inside, bvars
  <2> QED BY <2>1, <2>2, <2>3
<1>5. CASE Split(t)
  <2>1. Goto(t, "after")
    BY <1>5 DEF Split
  <2>2. work' \in SUBSET (Nat \X Nat \X Threads)
    BY <1>5 DEF Split, Types, Threads
  <2> QED BY <1>5, <2>1, <2>2, <1>1 DEF Split, Types, bvars, flags, graph, local, place, nth, Inside
<1>6. CASE MulMat(t)
  <2>1. BarrierThen(t, "chunks")
    BY <1>6 DEF MulMat
  <2>2. chunk' \in [Threads -> Nat] /\ current_chunk' \in Nat
    BY <1>6 DEF MulMat, Types, Threads
  <2> QED BY <1>6, <2>1, <2>2, <1>1, <1>2 DEF MulMat, Types, flags, local, nth, Inside
<1>7. CASE Chunk(t)
  <2>1. /\ work' = work \/ work' = work \union {<<node[t], chunk[t], t>>}
        /\ current_chunk' = current_chunk \/ current_chunk' = current_chunk + 1
        /\ chunk' = chunk \/ chunk' = [chunk EXCEPT ![t] = current_chunk]
        /\ pc' = pc \/ Goto(t, "after")
    BY <1>7 DEF Chunk
  <2>2. work' \in SUBSET (Nat \X Nat \X Threads)
    <3>1. work \in SUBSET (Nat \X Nat \X Threads) /\ node[t] \in Nat /\ chunk[t] \in Nat
      BY DEF Types
    <3> QED BY <3>1, <2>1
  <2>3. /\ pc' \in [Threads -> Away \union Inside \union Finished \union {"wake"}]
        /\ pc'[0] \in Finished \union Inside \union {"wake"}
        /\ \A u \in Workers : pc'[u] \in Away \union Inside
    BY <2>1, <1>1 DEF Types, Inside
  <2>4. chunk' \in [Threads -> Nat] /\ current_chunk' \in Nat
    <3>1. chunk \in [Threads -> Nat] /\ current_chunk \in Nat
      BY DEF Types
    <3> QED BY <3>1, <2>1
  <2> QED BY <1>7, <2>2, <2>3, <2>4 DEF Chunk, Types, bvars, flags, local, nth
<1>8. ASSUME NEW aborts \in BOOLEAN, After(t, aborts) PROVE Types'
  <2>0. abort' \in Int
    BY <1>8 DEF After, Types
  <2>1. CASE node[t] < Len(cgraph)
    <3>1. BarrierThen(t, "next") /\ UNCHANGED node
      BY <2>1, <1>8 DEF After
    <3> QED BY <1>8, <3>1, <1>1, <1>2, <2>0 DEF After, Types, flags, local, nth, Inside
  <2>2. CASE ~(node[t] < Len(cgraph))
    <3>1. Goto(t, "head") /\ UNCHANGED <<bvars, next>> /\ node' = [node EXCEPT ![t] = node[t] + 1]
      BY <2>2, <1>8 DEF After
    <3> QED BY <1>8, <3>1, <1>0, <1>1, <2>0 DEF After, Types, flags, local, nth, Inside, bvars
  <2> QED BY <2>1, <2>2
<1>9. CASE Return(t)
  BY <1>9 DEF Return, Types, Goto, bvars, flags, graph, local, place, nth, Workers, Away, Finished
<1>10. CASE Barrier(t)
  <2> BarrierOf(t)
    BY DEF BarrierInv
  <2>1. /\ n_barrier' \in Nat /\ n_barrier_passed' \in Nat /\ n_passed' \in [Threads -> Nat]
        /\ bpc' \in [Threads -> {"out", "load", "enter", "reset", "bump", "spin"}]
    <3>1. /\ n_barrier' \in {n_barrier, n_barrier + 1, 0}
          /\ n_barrier_passed' \in {n_barrier_passed, n_barrier_passed + 1}
      BY <1>10 DEF Barrier, BarrierStep, BarrierLoad, BarrierEnter, BarrierReset, BarrierBump, BarrierSpin
    <3>2. n_passed' = n_passed \/ \E n \in {n_passed[t], n_barrier_passed} : n_passed' = [n_passed EXCEPT ![t] = n]
      BY <1>10 DEF Barrier, BarrierStep, BarrierLoad, BarrierEnter, BarrierReset, BarrierBump, BarrierSpin
    <3>3. \E l \in {"out", "enter", "reset", "bump", "spin"} : bpc' = [bpc EXCEPT ![t] = l]
      BY <1>10 DEF Barrier, BarrierStep, BarrierLoad, BarrierEnter, BarrierReset, BarrierBump, BarrierSpin
    <3>4. /\ n_barrier \in Nat /\ n_barrier_passed \in Nat /\ n_passed \in [Threads -> Nat]
          /\ bpc \in [Threads -> {"out", "load", "enter", "reset", "bump", "spin"}]
      BY DEF Types
    <3>5. n_passed' \in [Threads -> Nat]
      BY <3>2, <3>4
    <3> QED BY <3>1, <3>3, <3>4, <3>5
  <2>2. pc' = pc \/ \E l \in {"head", "chunks", "return"} : Goto(t, l)
    BY <1>10 DEF Barrier, BarrierOf, Types
  <2>3. /\ pc' \in [Threads -> Away \union Inside \union Finished \union {"wake"}]
        /\ pc'[0] \in Finished \union Inside \union {"wake"}
        /\ \A u \in Workers : pc'[u] \in Away \union Inside
    <3>1. /\ pc \in [Threads -> Away \union Inside \union Finished \union {"wake"}]
          /\ pc[0] \in Finished \union Inside \union {"wake"}
          /\ \A u \in Workers : pc[u] \in Away \union Inside
      BY DEF Types
    <3>2. {"head", "chunks", "return"} \subseteq (Away \union Inside) \intersect (Finished \union Inside)
      BY DEF Away, Inside, Finished
    <3> QED BY <2>2, <3>1, <3>2 DEF Goto, Workers
  <2>4. node' \in [Threads -> Nat]
    <3>1. node' = node \/ node' = [node EXCEPT ![t] = node[t] + 1]
      BY <1>10 DEF Barrier
    <3> QED BY <3>1, <1>0 DEF Types
  <2> QED BY <1>10, <2>1, <2>3, <2>4 DEF Barrier, Types, flags, graph, local, nth
<1> QED BY <1>3, <1>4, <1>5, <1>6, <1>7, <1>8, <1>9, <1>10 DEF ComputeStep

(***************************************************************************)
(* The barrier, step by step                                               *)
(***************************************************************************)
\* thread t, outside the barrier, goes on in its function or calls the barrier
Steps(t) ==
  /\ pc[t] # "barrier" /\ UNCHANGED <<n_barrier, n_barrier_passed, n_passed, n_graph>>
  /\ \A u \in Threads \ {t} : pc'[u] = pc[u] /\ node'[u] = node[u] /\ next'[u] = next[u] /\ bpc'[u] = bpc[u]
  /\ bpc'[t] = IF pc'[t] = "barrier" THEN "load" ELSE "out"
  /\ pc'[t] = "barrier" => next'[t] # "none"

\* what the others see of it
Moves(t) ==
  /\ Pc[t] = pc[t] /\ Node[t] = node[t] /\ Pc'[t] = pc'[t] /\ Node'[t] = node'[t]
  /\ \A u \in Threads \ {t} : Pc'[u] = Pc[u] /\ Node'[u] = Node[u] /\ next'[u] = next[u]

\* A step outside the barrier is seen by the others as a step of this thread only;
\* what holds of the barrier stays.
LEMMA StepView ==
  ASSUME BarrierInv, NEW t \in Threads, Steps(t)
  PROVE  Moves(t) /\ BarrierInv'
<1>1. bpc[t] = "out"
  BY DEF BarrierInv, BarrierOf, Steps
<1>2. \A u \in Threads \ {t} : Passed(u)' = Passed(u) /\ Opening(u)' = Opening(u)
  BY DEF Steps, Passed, Opening
<1>3. ~Passed(t) /\ ~Passed(t)' /\ ~Opening(t) /\ ~Opening(t)'
  BY <1>1 DEF Steps, Passed, Opening
<1>4. Moves(t)
  BY <1>2, <1>3 DEF Moves, Pc, Node, Steps
<1>5. Waiting' = Waiting
  BY <1>1, <1>2, <1>3 DEF Waiting, Steps
<1>6. Active' = Active
  BY DEF Active, nth, Steps
<1>7. ASSUME NEW u \in Threads PROVE BarrierOf(u)'
  <2>1. CASE u = t
    BY <2>1, <1>1, <1>3, <1>5, <1>6 DEF BarrierInv, BarrierOf, Steps
  <2>2. CASE u # t
    BY <2>2, <1>2, <1>5, <1>6 DEF BarrierInv, BarrierOf, Steps
  <2> QED BY <2>1, <2>2
<1>8. (\A u \in Threads : ~Opening(u))' => (n_barrier = Cardinality(Waiting))'
  BY <1>2, <1>3, <1>5 DEF BarrierInv, Steps
<1> QED BY <1>4, <1>7, <1>8 DEF BarrierInv

\* the barrier opens
Opens ==
  /\ \A u \in Active : /\ Pc[u] = "barrier" /\ next[u] # "none"
                       /\ Pc'[u] = IF next[u] = "next" THEN "head" ELSE next[u]
                       /\ Node'[u] = IF next[u] = "next" THEN Node[u] + 1 ELSE Node[u]
  /\ \A u \in Threads \ Active : Pc'[u] = Pc[u] /\ Node'[u] = Node[u]

\* Only active threads are held by a barrier, while a graph is computed.
LEMMA BlockedActive ==
  ASSUME BarrierInv, GraphInv, Types, NEW t \in Threads, Pc[t] = "barrier"
  PROVE  t \in Active /\ Running /\ 0 \in Active
<1>1. Running
  <2>1. t = 0 \/ (t \in Workers /\ Pc[t] \notin Away)
    BY DEF Workers, Away
  <2> QED BY <2>1 DEF GraphInv, WorkerInv, Running, Finished
<1>2. nth \in Nat /\ 0 < nth
  BY <1>1 DEF GraphInv
<1>4. t < nth
  <2>1. CASE t = 0
    BY <2>1, <1>2
  <2>2. CASE t # 0
    <3>1. t \in Workers /\ Pc[t] \notin Away
      BY <2>2 DEF Workers, Away
    <3>2. ~(t >= nth)
      BY <3>1 DEF GraphInv, WorkerInv
    <3> QED BY <3>2, <1>2 DEF Threads
  <2> QED BY <2>1, <2>2
<1> QED BY <1>1, <1>2, <1>4, ThreadZero DEF Active

\* Every step inside ggml_barrier keeps what holds of it.  It is not seen, or it
\* opens the barrier for all active threads at once.
LEMMA BarrierView ==
  ASSUME Types, BarrierInv, GraphInv, NEW t \in Threads, Barrier(t)
  PROVE  BarrierInv' /\ (UNCHANGED <<Pc, Node>> \/ (Opens /\ Running /\ 0 \in Active))
<1> USE ThreadAssumption
<1>1. /\ pc[t] = "barrier" /\ bpc[t] # "out" /\ next[t] # "none" /\ n_passed[t] <= n_barrier_passed
      /\ n_barrier_passed \in Nat /\ n_passed[t] \in Nat
  BY DEF Barrier, BarrierInv, BarrierOf, Types
<1>2. UNCHANGED <<n_graph, next>> /\ nth' = nth /\ Active' = Active
  BY DEF Barrier, flags, nth, Active
<1>3. bpc[t] # "spin" => Pc[t] = "barrier" /\ t \in Active /\ Running /\ 0 \in Active
  BY <1>1, BlockedActive DEF Pc, Passed
<1>4. ASSUME NEW u \in Threads, Opening(u), bpc[t] # "spin" PROVE u = t
  BY <1>3, <1>4 DEF BarrierInv, BarrierOf, Waiting
<1>5. CASE BarrierLoad(t, nth) /\ nth # 1
  <2>1. /\ ~Left(t) /\ UNCHANGED <<pc, node, n_barrier, n_barrier_passed>>
        /\ bpc' = [bpc EXCEPT ![t] = "enter"] /\ n_passed' = [n_passed EXCEPT ![t] = n_barrier_passed] /\ bpc[t] = "load"
    BY <1>5 DEF BarrierLoad, Left, Barrier, Types
  <2>2. bpc \in [Threads -> {"out", "load", "enter", "reset", "bump", "spin"}] /\ n_passed \in [Threads -> Nat]
    BY DEF Types
  <2>3. \A u \in Threads : Passed(u)' = Passed(u) /\ Opening(u)' = Opening(u)
    BY <2>1, <2>2 DEF Passed, Opening
  <2>4. Waiting' = Waiting
    BY <2>1, <2>2, <2>3 DEF Waiting
  <2>5. \A u \in Threads : BarrierOf(u)'
    BY <2>1, <2>2, <2>3, <2>4, <1>1, <1>2 DEF BarrierInv, BarrierOf
  <2>6. UNCHANGED <<Pc, Node>>
    BY <2>1, <2>3, <1>2 DEF Pc, Node
  <2> QED BY <2>1, <2>3, <2>4, <2>5, <2>6 DEF BarrierInv
<1>6. CASE BarrierLoad(t, nth) /\ nth = 1
  <2>1. /\ Left(t) /\ UNCHANGED <<n_barrier, n_barrier_passed, n_passed>>
        /\ bpc' = [bpc EXCEPT ![t] = "out"] /\ bpc[t] = "load"
    <3>1. n_passed' = [n_passed EXCEPT ![t] = n_passed[t]]
      BY <1>6 DEF BarrierLoad
    <3>2. n_passed' = n_passed
      BY <3>1 DEF Types
    <3> QED BY <1>6, <3>2 DEF BarrierLoad, Left, Types
  <2>2. bpc \in [Threads -> {"out", "load", "enter", "reset", "bump", "spin"}] /\ n_passed \in [Threads -> Nat]
    BY DEF Types
  <2>3. \A u \in Threads : Passed(u)' = Passed(u) /\ Opening(u)' = Opening(u)
    BY <2>1, <2>2 DEF Passed, Opening
  <2>4. Waiting' = Waiting
    BY <2>1, <2>2, <2>3 DEF Waiting
  <2>5. /\ pc' = [pc EXCEPT ![t] = IF next[t] = "next" THEN "head" ELSE next[t]]
        /\ node' = [node EXCEPT ![t] = IF next[t] = "next" THEN node[t] + 1 ELSE node[t]]
    <3>1. CASE next[t] = "next"
      BY <3>1, <2>1 DEF Barrier, Goto
    <3>2. CASE next[t] # "next"
      BY <3>2, <2>1 DEF Barrier, Goto, Types
    <3> QED BY <3>1, <3>2
  <2>6. pc'[t] # "barrier"
    BY <2>5, <1>1 DEF Types
  <2>7. \A u \in Threads : BarrierOf(u)'
    BY <2>1, <2>2, <2>3, <2>4, <2>5, <2>6, <1>1, <1>2 DEF BarrierInv, BarrierOf, Types
  <2>8. Active = {t}
    BY <1>3, <1>6, <2>1 DEF Active, Threads
  <2>9. Opens
    BY <2>1, <2>3, <2>5, <2>8, <1>1, <1>2 DEF Opens, Pc, Node, Types, Passed
  <2> QED BY <2>1, <2>3, <2>4, <2>7, <2>9, <1>3 DEF BarrierInv
<1>7. CASE BarrierEnter(t, nth)
  <2>1. /\ ~Left(t) /\ UNCHANGED <<pc, node, n_passed, n_barrier_passed>> /\ bpc[t] = "enter" /\ n_barrier' = n_barrier + 1
        /\ bpc' = [bpc EXCEPT ![t] = IF n_barrier = nth - 1 THEN "reset" ELSE "spin"]
    BY <1>7 DEF BarrierEnter, Left, Barrier, Types
  <2>2. bpc \in [Threads -> {"out", "load", "enter", "reset", "bump", "spin"}] /\ n_passed \in [Threads -> Nat]
    BY DEF Types
  <2>3. \A u \in Threads : ~Opening(u)
    BY <1>4, <2>1 DEF Opening
  <2>4. n_barrier = Cardinality(Waiting) /\ Waiting \subseteq Active \ {t} /\ n_passed[t] = n_barrier_passed
    <3>1. ASSUME NEW u \in Waiting PROVE u \in Active /\ u # t
      BY <3>1, BlockedActive, <2>1 DEF Waiting, Pc, BarrierInv, BarrierOf
    <3> QED BY <2>1, <2>3, <3>1 DEF BarrierInv, BarrierOf
  <2>5. ~Passed(t) /\ ~Passed(t)' /\ \A u \in Threads \ {t} : Passed(u)' = Passed(u) /\ ~Opening(u)'
    BY <2>1, <2>2, <2>3, <2>4 DEF Passed, Opening
  <2>6. UNCHANGED <<Pc, Node>>
    BY <2>1, <2>5, <1>2 DEF Pc, Node
  <2>7. IsFiniteSet(Active) /\ Cardinality(Active) = nth
    <3>1. nth \in 0 .. NThreads
      BY DEF Types
    <3>2. Active = 0 .. nth - 1
      BY <3>1 DEF Active, Threads
    <3> HIDE DEF nth
    <3>3. /\ IsFiniteSet(0 .. nth - 1)
          /\ Cardinality(0 .. nth - 1) = IF 0 > nth - 1 THEN 0 ELSE (nth - 1) - 0 + 1
      BY <3>1, FS_Interval
    <3> QED BY <3>1, <3>2, <3>3
  <2>8. CASE n_barrier = nth - 1
    <3>1. Waiting' = Waiting
      BY <2>1, <2>2, <2>5, <2>8 DEF Waiting
    <3>2. IsFiniteSet(Active \ {t}) /\ Cardinality(Active \ {t}) = nth - 1
      BY <2>7, FS_RemoveElement, <1>3, <2>1
    <3>3. Waiting = Active \ {t}
      BY <3>2, <2>4, <2>8, FS_Subset
    <3>4. \A u \in Threads : BarrierOf(u)'
      BY <2>1, <2>2, <2>5, <2>8, <3>1, <3>3, <1>1, <1>2 DEF BarrierInv, BarrierOf, Opening
    <3>5. Opening(t)'
      BY <2>1, <2>2, <2>8 DEF Opening
    <3> QED BY <3>4, <3>5, <2>6 DEF BarrierInv
  <2>9. CASE n_barrier # nth - 1
    <3>1. Waiting' = Waiting \union {t}
      BY <2>1, <2>2, <2>5, <2>9 DEF Waiting
    <3>2. IsFiniteSet(Waiting) /\ t \notin Waiting
      BY <2>4, <2>7, FS_Subset
    <3>3. n_barrier' = Cardinality(Waiting')
      BY <3>1, <3>2, <2>4, <2>1, FS_AddElement
    <3>4. ~Opening(t)'
      BY <2>1, <2>2, <2>9 DEF Opening
    <3>5. \A u \in Threads : BarrierOf(u)'
      BY <2>1, <2>2, <2>5, <2>9, <3>4, <1>1, <1>2 DEF BarrierInv, BarrierOf, Opening
    <3> QED BY <3>3, <3>5, <2>6 DEF BarrierInv
  <2> QED BY <2>8, <2>9
<1>8. CASE BarrierReset(t)
  <2>1. /\ ~Left(t) /\ UNCHANGED <<pc, node, n_passed, n_barrier_passed>> /\ bpc[t] = "reset" /\ n_barrier' = 0
        /\ bpc' = [bpc EXCEPT ![t] = "bump"]
    BY <1>8 DEF BarrierReset, Left, Barrier, Types
  <2>2. bpc \in [Threads -> {"out", "load", "enter", "reset", "bump", "spin"}]
    BY DEF Types
  <2>3. \A u \in Threads : Passed(u)' = Passed(u) /\ Opening(u)' = Opening(u)
    BY <2>1, <2>2 DEF Passed, Opening
  <2>4. Waiting' = Waiting /\ Opening(t)
    BY <2>1, <2>2, <2>3 DEF Waiting, Opening
  <2>5. \A u \in Threads : BarrierOf(u)'
    BY <2>1, <2>2, <2>3, <2>4, <1>1, <1>2 DEF BarrierInv, BarrierOf
  <2>6. UNCHANGED <<Pc, Node>>
    BY <2>1, <2>3, <1>2 DEF Pc, Node
  <2> QED BY <2>3, <2>4, <2>5, <2>6 DEF BarrierInv
<1>9. CASE BarrierBump(t)
  <2>1. /\ Left(t) /\ UNCHANGED <<n_barrier, n_passed>> /\ n_barrier_passed' = n_barrier_passed + 1
        /\ bpc' = [bpc EXCEPT ![t] = "out"] /\ bpc[t] = "bump" /\ Opening(t)
    BY <1>9 DEF BarrierBump, Left, Types, Opening
  <2>2. bpc \in [Threads -> {"out", "load", "enter", "reset", "bump", "spin"}] /\ n_passed \in [Threads -> Nat]
    BY DEF Types
  <2>3. \A u \in Threads : ~Opening(u)'
    BY <1>4, <2>1, <2>2 DEF Opening
  <2>4. \A u \in Threads : n_passed[u] # n_barrier_passed' /\ n_passed[u] <= n_barrier_passed'
    BY <2>1, <2>2, <1>1 DEF BarrierInv, BarrierOf
  <2>5. Waiting' = {} /\ n_barrier' = 0
    BY <2>1, <2>2, <2>4 DEF Waiting, Passed, BarrierInv, BarrierOf
  <2>6. /\ pc' = [pc EXCEPT ![t] = IF next[t] = "next" THEN "head" ELSE next[t]]
        /\ node' = [node EXCEPT ![t] = IF next[t] = "next" THEN node[t] + 1 ELSE node[t]]
    <3>1. CASE next[t] = "next"
      BY <3>1, <2>1 DEF Barrier, Goto
    <3>2. CASE next[t] # "next"
      BY <3>2, <2>1 DEF Barrier, Goto, Types
    <3> QED BY <3>1, <3>2
  <2>7. pc'[t] # "barrier"
    BY <2>6, <1>1 DEF Types
  <2>8. \A u \in Threads : bpc[u] # "enter"
    <3>1. ASSUME NEW u \in Threads, bpc[u] = "enter" PROVE FALSE
      <4>1. u \in Active /\ u # t
        BY <3>1, BlockedActive, <2>1 DEF Pc, Passed, BarrierInv, BarrierOf
      <4> QED BY <4>1, <3>1, <2>1 DEF BarrierInv, BarrierOf, Waiting
    <3> QED BY <3>1
  <2>9. \A u \in Threads : BarrierOf(u)'
    BY <2>1, <2>2, <2>3, <2>4, <2>6, <2>7, <2>8, <1>1, <1>2 DEF BarrierInv, BarrierOf, Types, Opening
  <2>10. Waiting = Active \ {t}
    BY <2>1 DEF BarrierInv, BarrierOf
  <2>11. Opens
    <3>1. ASSUME NEW u \in Active
          PROVE  /\ Pc[u] = "barrier" /\ next[u] # "none"
                 /\ Pc'[u] = IF next[u] = "next" THEN "head" ELSE next[u]
                 /\ Node'[u] = IF next[u] = "next" THEN Node[u] + 1 ELSE Node[u]
      <4>1. CASE u = t
        BY <4>1, <2>1, <2>2, <2>6, <1>1, <1>2 DEF Pc, Node, Passed, Types
      <4>2. CASE u # t
        <5>1. u \in Threads /\ bpc[u] = "spin" /\ ~Passed(u) /\ pc[u] = "barrier" /\ next[u] # "none"
          BY <4>2, <2>10 DEF Waiting, BarrierInv, BarrierOf
        <5>2. Passed(u)' /\ node'[u] = node[u]
          BY <5>1, <4>2, <2>1, <2>2, <2>4, <2>6 DEF Passed, Types
        <5> QED BY <5>1, <5>2, <1>2 DEF Pc, Node
      <4> QED BY <4>1, <4>2
    <3>2. ASSUME NEW u \in Threads \ Active PROVE Pc'[u] = Pc[u] /\ Node'[u] = Node[u]
      <4>1. u # t /\ u \notin Waiting
        BY <2>10, <1>3, <2>1
      <4>2. Passed(u)' = Passed(u) /\ node'[u] = node[u] /\ pc'[u] = pc[u]
        BY <4>1, <2>1, <2>2, <2>4, <2>6 DEF Passed, Waiting, Types
      <4> QED BY <4>2, <1>2 DEF Pc, Node
    <3> QED BY <3>1, <3>2 DEF Opens
  <2> QED BY <2>1, <2>3, <2>5, <2>9, <2>11, <1>3, FS_EmptySet DEF BarrierInv
<1>10. CASE BarrierSpin(t)
  <2>1. /\ Left(t) /\ UNCHANGED <<n_barrier, n_barrier_passed, n_passed>>
        /\ bpc' = [bpc EXCEPT ![t] = "out"] /\ Passed(t)
    BY <1>10 DEF BarrierSpin, Left, Types, Passed
  <2>2. bpc \in [Threads -> {"out", "load", "enter", "reset", "bump", "spin"}]
    BY DEF Types
  <2>3. \A u \in Threads : Opening(u)' = Opening(u)
    BY <2>1, <2>2 DEF Passed, Opening
  <2>4. ~Passed(t)' /\ \A u \in Threads \ {t} : Passed(u)' = Passed(u)
    BY <2>1, <2>2 DEF Passed
  <2>5. Waiting' = Waiting
    BY <2>1, <2>2, <2>4 DEF Waiting
  <2>6. /\ pc' = [pc EXCEPT ![t] = IF next[t] = "next" THEN "head" ELSE next[t]]
        /\ node' = [node EXCEPT ![t] = IF next[t] = "next" THEN node[t] + 1 ELSE node[t]]
    <3>1. CASE next[t] = "next"
      BY <3>1, <2>1 DEF Barrier, Goto
    <3>2. CASE next[t] # "next"
      BY <3>2, <2>1 DEF Barrier, Goto, Types
    <3> QED BY <3>1, <3>2
  <2>7. pc'[t] # "barrier"
    BY <2>6, <1>1 DEF Types
  <2>8. \A u \in Threads : BarrierOf(u)'
    BY <2>1, <2>2, <2>3, <2>5, <2>6, <2>7, <1>1, <1>2 DEF BarrierInv, BarrierOf, Types
  <2>9. UNCHANGED <<Pc, Node>>
    BY <2>1, <2>4, <2>6, <1>2 DEF Pc, Node, Types
  <2> QED BY <2>1, <2>3, <2>5, <2>8, <2>9 DEF BarrierInv
<1> QED BY <1>5, <1>6, <1>7, <1>8, <1>9, <1>10 DEF Barrier, BarrierStep

(***************************************************************************)
(* Segments                                                                *)
(***************************************************************************)
\* A set of naturals has a least element.
LEMMA LeastNat ==
  ASSUME NEW S \in SUBSET Nat, S # {}
  PROVE  \E x \in S : \A y \in S : x <= y
<1> DEFINE R == {ss \in Nat \X Nat : ss[1] < ss[2]}
<1>1. OpToRel(<, Nat) = R
  BY Zenon DEF OpToRel
<1>2. \E x \in S : \A y \in S : ~(<<y, x>> \in R)
  BY <1>1, NatLessThanWellFounded, WFMin, Zenon
<1>3. \A x, y \in Nat : y < x => <<y, x>> \in R
  OBVIOUS
<1> HIDE DEF R
<1>4. PICK x \in S : \A y \in S : ~(<<y, x>> \in R)
  BY <1>2
<1>5. ASSUME NEW y \in S PROVE x <= y
  <2>1. ~(y < x)
    BY <1>3, <1>4
  <2> QED BY <2>1
<1> QED BY <1>5

\* The nodes of the graph are numbered from 1.
LEMMA GraphLength ==
  ASSUME Types
  PROVE  Len(cgraph) \in Nat /\ DOMAIN cgraph = 1 .. Len(cgraph)
<1> DEFINE S == [op : {"empty", "split", "mul_mat"}, chunks : Nat]
<1>1. cgraph \in Graphs => cgraph \in Seq(S)
  BY PoolAssumption
<1> HIDE DEF S
<1>2. CASE cgraph \in Graphs
  BY <1>1, <1>2
<1>3. CASE cgraph = << >>
  BY <1>3
<1> QED BY <1>2, <1>3 DEF Types

\* From every node the loop over the nodes reaches a node it stops at, or the end.
LEMMA StopAhead ==
  ASSUME Types, NEW i \in 1 .. Len(cgraph) + 1
  PROVE  \E k \in i .. Len(cgraph) + 1, ph \in {"split", "prep", "end"} : Reached(k, ph) /\ Clear(i, k)
<1> DEFINE n == Len(cgraph)
           S == {j \in i .. n + 1 : j = n + 1 \/ abort = j \/ cgraph[j].op # "empty"}
<1>1. n \in Nat
  BY GraphLength
<1> HIDE DEF n
<1>2. i \in 1 .. n + 1
  BY DEF n
<1>3. S \in SUBSET Nat /\ S # {}
  <2>1. n + 1 \in S
    BY <1>1, <1>2
  <2> QED BY <2>1, <1>1, <1>2
<1>4. PICK k \in S : \A j \in S : k <= j
  BY <1>3, LeastNat
<1>5. k \in i .. n + 1 /\ (k = n + 1 \/ abort = k \/ cgraph[k].op # "empty")
  OBVIOUS
<1>6. \A j \in i .. k - 1 : cgraph[j].op = "empty" /\ abort # j
  <2>1. ASSUME NEW j \in i .. k - 1 PROVE j \notin S /\ j \in i .. n + 1 /\ j # n + 1
    BY <1>1, <1>2, <1>4, <1>5, <2>1
  <2> QED BY <2>1
<1> HIDE DEF S
<1>7. Clear(i, k)
  BY <1>1, <1>2, <1>5, <1>6 DEF Clear
<1>8. CASE k = n + 1 \/ abort = k
  <2>1. Reached(k, "end")
    BY <1>8 DEF Reached, n
  <2> QED BY <2>1, <1>5, <1>7 DEF n
<1>9. CASE ~(k = n + 1 \/ abort = k)
  <2>1. k \in 1 .. n
    BY <1>1, <1>2, <1>5, <1>9
  <2>2. cgraph[k].op \in {"split", "mul_mat"}
    BY <2>1, <1>5, <1>9, GraphType DEF n
  <2>3. CASE cgraph[k].op = "split"
    <3>1. Reached(k, "split")
      BY <2>1, <2>3, <1>9 DEF Reached, n
    <3> QED BY <3>1, <1>5, <1>7 DEF n
  <2>4. CASE cgraph[k].op = "mul_mat"
    <3>1. Reached(k, "prep")
      BY <2>1, <2>4, <1>9 DEF Reached, n
    <3> QED BY <3>1, <1>5, <1>7 DEF n
  <2> QED BY <2>2, <2>3, <2>4
<1> QED BY <1>8, <1>9

\* A node stays complete when nothing of it changes.
LEMMA CompleteKept ==
  ASSUME Types', NEW i \in Nat, UNCHANGED <<n_graph, cgraph>>, Complete(i),
         \A c \in Nat, u \in Threads : <<i, c, u>> \in work' <=> <<i, c, u>> \in work
  PROVE  Complete(i)'
<1>1. nchunk(i)' = nchunk(i)
  BY DEF nchunk, nth
<1>2. work' \in SUBSET (Nat \X Nat \X Threads)
  BY DEF Types
<1> DEFINE N == nchunk(i)
<1>3. /\ \A c \in 0 .. N - 1 : Cardinality({t \in Threads : <<i, c, t>> \in work}) = 1
      /\ \A x \in work : x[1] = i => x[2] < N
  BY DEF Complete
<1> HIDE DEF N
<1>4. ASSUME NEW c \in 0 .. N - 1 PROVE Cardinality({t \in Threads : <<i, c, t>> \in work'}) = 1
  <2>1. {t \in Threads : <<i, c, t>> \in work'} = {t \in Threads : <<i, c, t>> \in work}
    OBVIOUS
  <2> QED BY <2>1, <1>3
<1>5. ASSUME NEW x \in work', x[1] = i PROVE x[2] < N
  <2>1. PICK c \in Nat, u \in Threads : x = <<i, c, u>>
    BY <1>2, <1>5
  <2>2. x \in work
    BY <2>1
  <2> QED BY <2>1, <2>2, <1>3
<1>6. nchunk(i)' = N
  BY <1>1 DEF N
<1> QED BY <1>4, <1>5, <1>6 DEF Complete

\* where the others are does not change with what one thread does
LEMMA Others ==
  ASSUME NEW u \in Threads, NEW k \in Nat, NEW ph \in Phases, cgraph' = cgraph,
         abort' = abort \/ abort' = k + 1,
         Pc'[u] = Pc[u], Node'[u] = Node[u], next'[u] = next[u]
  PROVE  (Leaving(u, k)' <=> Leaving(u, k)) /\ (Types /\ InSegment(u, k, ph) => InSegment(u, k, ph)')
<1>1. Leaving(u, k)' <=> Leaving(u, k)
  BY DEF Leaving, At, BlockedFor
<1>2. ASSUME NEW i \in Int, Clear(i, k) PROVE Clear(i, k)'
  <2>1. i <= k
    BY <1>2 DEF Clear
  <2>2. ASSUME NEW j \in i .. k - 1 PROVE cgraph'[j].op = "empty" /\ abort' # j
    BY <1>2 DEF Clear
  <2> QED BY <2>1, <2>2 DEF Clear
<1>3. Types => Node[u] \in Int
  BY DEF Types, Node
<1>4. Types /\ Before(u, k) => Before(u, k)'
  BY <1>2, <1>3 DEF Before, Entering
<1> QED BY <1>1, <1>4 DEF InSegment, At, BlockedFor

\* abort_callback stops the graph after the segment, not in it.
LEMMA ReachedKept ==
  ASSUME NEW k \in Nat, NEW ph \in Phases, cgraph' = cgraph,
         abort' = abort \/ (abort' = k + 1 /\ ph # "end"), Reached(k, ph)
  PROVE  Reached(k, ph)'
  BY DEF Reached

\* The earlier nodes stay complete.
LEMMA DoneKept ==
  ASSUME Types', NEW k \in Nat, UNCHANGED <<n_graph, cgraph>>, DoneBefore(k),
         \A i \in 1 .. k - 1 : \A c \in Nat, u \in Threads : <<i, c, u>> \in work' <=> <<i, c, u>> \in work
  PROVE  DoneBefore(k)'
<1>1. ASSUME NEW i \in 1 .. k - 1, Complete(i) PROVE Complete(i)'
  BY <1>1, CompleteKept
<1> HIDE DEF Complete
<1> QED BY <1>1 DEF DoneBefore

\* what is done of the node stays when nobody moves to or from its chunks
LEMMA WorkKept ==
  ASSUME NEW k \in Nat, NEW ph \in Phases, WorkOf(k, ph),
         UNCHANGED <<work, chunk, current_chunk, n_graph, cgraph>>,
         \A u \in Active : /\ ph \in {"split", "chunks"} => (Leaving(u, k)' <=> Leaving(u, k))
                           /\ Pc'[u] = "chunks" <=> Pc[u] = "chunks"
                           /\ ph = "prep" /\ Pc'[u] = "barrier" => Pc[u] = "barrier"
  PROVE  WorkOf(k, ph)'
<1>1. Active' = Active /\ nth' = nth /\ nchunk(k)' = nchunk(k) /\ Unworked(k)' = Unworked(k)
  BY DEF Active, nth, nchunk, Unworked
<1>2. \A u \in Threads, c \in Nat : Holds(u, c)' = Holds(u, c)
  BY <1>1 DEF Holds
<1>3. CASE ph = "split"
  BY <1>3, <1>1 DEF WorkOf, SplitWork
<1>4. CASE ph = "prep"
  BY <1>4, <1>1 DEF WorkOf, Prepared
<1>5. CASE ph = "chunks"
  <2>1. ChunkWork(k)
    BY <1>5 DEF WorkOf
  <2>2. \A u \in Active : Leaving(u, k)' <=> Leaving(u, k)
    BY <1>5
  <2>3. ChunkWork(k)'
    <3>1. \A u \in Active' : Leaving(u, k)' => nchunk(k)' <= current_chunk'
      BY <2>1, <2>2, <1>1 DEF ChunkWork
    <3> HIDE DEF Leaving, Holds, nchunk, Active, nth
    <3>2. /\ nth' <= current_chunk'
          /\ \A u \in Threads, c \in Nat : Holds(u, c)' => c < current_chunk'
          /\ \A u, v \in Threads, c \in Nat : Holds(u, c)' /\ Holds(v, c)' => u = v
      BY <2>1, <1>1, <1>2 DEF ChunkWork
    <3>3. \A u \in Threads, c \in Nat : <<k, c, u>> \in work' =>
            /\ c < nchunk(k)' /\ c < current_chunk'
            /\ \A v \in Threads : ~Holds(v, c)' /\ (<<k, c, v>> \in work' => v = u)
      BY <2>1, <1>1, <1>2 DEF ChunkWork
    <3>4. \A c \in Nat : c < nchunk(k)' /\ c < current_chunk' =>
            \E u \in Threads : Holds(u, c)' \/ <<k, c, u>> \in work'
      BY <2>1, <1>1, <1>2 DEF ChunkWork
    <3> QED BY <3>1, <3>2, <3>3, <3>4 DEF ChunkWork
  <2> QED BY <1>5, <2>3 DEF WorkOf
<1>6. CASE ph = "end"
  BY <1>6, <1>1 DEF WorkOf
<1> QED BY <1>3, <1>4, <1>5, <1>6 DEF Phases

\* A thread is in one function at a time.
LEMMA Disjoint ==
  Inside \intersect Away = {} /\ Inside \intersect Finished = {} /\ "wake" \notin Finished /\ "wake" \notin Away
  BY DEF Inside, Away, Finished

\* a thread that computes is active, and the graph runs
LEMMA InsideActive ==
  ASSUME Inv, NEW t \in Threads, pc[t] \in Inside, pc[t] # "barrier"
  PROVE  /\ t \in Active /\ Running /\ Pc[t] = pc[t] /\ Node[t] = node[t] /\ bpc[t] = "out"
         /\ t \in Workers => last_graph[t] = n_graph
<1> USE Disjoint, ThreadAssumption
<1>0. bpc[t] = "out"
  BY DEF Inv, BarrierInv, BarrierOf
<1>1. Pc[t] = pc[t] /\ Node[t] = node[t]
  BY <1>0 DEF Pc, Node, Passed
<1>2. CASE t = 0
  <2>1. Running
    BY <1>1, <1>2 DEF Running
  <2>2. 0 < nth
    BY <2>1 DEF Inv, GraphInv
  <2> QED BY <2>1, <2>2, <1>0, <1>1, <1>2, ThreadZero DEF Active
<1>3. CASE t # 0
  <2>1. t \in Workers /\ Pc[t] \notin Away
    BY <1>1, <1>3 DEF Workers
  <2>2. Running /\ ~(t >= nth)
    BY <2>1 DEF Inv, GraphInv, WorkerInv
  <2>3. nth \in Nat /\ t \in Nat
    BY DEF Inv, Types, Threads
  <2>4. t < nth
    BY <2>2, <2>3
  <2>5. last_graph[t] = n_graph
    BY <2>1, <2>4 DEF Inv, GraphInv, WorkerInv
  <2> QED BY <2>2, <2>4, <2>5, <1>0, <1>1 DEF Active
<1> QED BY <1>2, <1>3

\* the graph goes on
LEMMA Continue ==
  ASSUME Inv, NEW t \in Active, Running, pc[t] \in Inside, pc[t] # "barrier", Moves(t), pc'[t] \in Inside,
         UNCHANGED <<n_graph, cgraph, last_graph>>, (abort # -1 => ec = "aborted")',
         SomeSegment'
  PROVE  GraphInv'
<1> USE Disjoint
<1>1. t \in Threads
  BY DEF Active
<1>2. Running' /\ Pc'[0] \notin Finished
  BY <1>1, ThreadZero DEF Running, Moves
<1>3. nth' = nth
  BY DEF nth
<1>4. ASSUME NEW u \in Workers PROVE WorkerInv(u)'
  <2>1. CASE u # t
    BY <2>1, <1>2, <1>3, ThreadZero DEF Inv, GraphInv, WorkerInv, Moves
  <2>2. CASE u = t
    <3>1. last_graph[u] = n_graph
      BY <2>2, <1>1, InsideActive
    <3>2. ~(u >= nth)
      BY <2>2, ThreadAssumption DEF Active, Threads, Inv, Types
    <3> QED BY <3>1, <3>2, <1>2, <1>3 DEF WorkerInv
  <2> QED BY <2>1, <2>2
<1>5. cgraph \in Graphs /\ nth \in 1 .. NThreads
  BY DEF Inv, GraphInv
<1>6. Pc'[0] # "kickoff" /\ Pc'[0] \notin {"return", "idle"}
  BY <1>2 DEF Finished
<1> QED BY <1>2, <1>3, <1>4, <1>5, <1>6 DEF GraphInv

\* a step of an active thread t that leaves the work alone
LEMMA PlainStep ==
  ASSUME Inv, Types', NEW t \in Active, NEW k \in 1 .. Len(cgraph) + 1, NEW ph \in Phases,
         Segment(k, ph), Moves(t), UNCHANGED <<n_graph, cgraph, work, chunk, current_chunk>>,
         abort' = abort \/ (abort' = k + 1 /\ ph # "end"),
         InSegment(t, k, ph)', ph \in {"split", "chunks"} => (Leaving(t, k)' <=> Leaving(t, k)), Pc[t] # "chunks", Pc'[t] # "chunks",
         ph = "prep" => Pc'[t] # "barrier"
  PROVE  SomeSegment'
<1>0. k \in Nat /\ t \in Threads /\ Len(cgraph) \in Nat /\ Types /\ Active \subseteq Threads
  BY GraphLength DEF Inv, Active
<1>1. Active' = Active
  BY DEF Active, nth
<1>2. \A u \in Active : InSegment(u, k, ph)' /\ (ph \in {"split", "chunks"} => (Leaving(u, k)' <=> Leaving(u, k)))
  <2>1. ASSUME NEW u \in Active, u # t PROVE InSegment(u, k, ph)' /\ (Leaving(u, k)' <=> Leaving(u, k))
    <3>1. InSegment(u, k, ph)
      BY DEF Segment
    <3>2. Pc'[u] = Pc[u] /\ Node'[u] = Node[u] /\ next'[u] = next[u]
      BY <2>1, <1>0 DEF Moves
    <3> QED BY <3>1, <3>2, <1>0, Others
  <2> QED BY <2>1
<1>3. Reached(k, ph)'
  BY <1>0, ReachedKept DEF Segment
<1>4. DoneBefore(k)'
  BY <1>0, DoneKept DEF Segment
<1>5. WorkOf(k, ph)'
  <2>1. \A u \in Active : /\ Pc'[u] = "chunks" <=> Pc[u] = "chunks"
                          /\ ph = "prep" /\ Pc'[u] = "barrier" => Pc[u] = "barrier"
    BY <1>0 DEF Moves
  <2> QED BY <2>1, <1>0, <1>2, WorkKept DEF Segment
<1>6. Segment(k, ph)'
  BY <1>1, <1>2, <1>3, <1>4, <1>5 DEF Segment
<1> QED BY <1>6 DEF SomeSegment

\* what the loop of thread t finds
LEMMA AtHead ==
  ASSUME Inv, NEW t \in Active, NEW k \in 1 .. Len(cgraph) + 1, NEW ph \in Phases, Segment(k, ph), Pc[t] = "head"
  PROVE  \/ ph # "chunks" /\ Node[t] \in 1 .. k /\ Clear(Node[t], k) /\ ~Leaving(t, k)
         \/ ph \in {"split", "chunks"} /\ k = Len(cgraph) /\ Node[t] = k + 1 /\ Leaving(t, k)
<1>1. InSegment(t, k, ph)
  BY DEF Segment
<1>2. Node[t] \in Nat /\ Len(cgraph) \in Nat
  <2>1. node[t] \in Nat /\ t \in Threads
    BY DEF Inv, Types, Active
  <2> QED BY <2>1, GraphLength DEF Inv, Node
<1>3. ASSUME Before(t, k) PROVE Node[t] \in 1 .. k /\ Clear(Node[t], k) /\ ~Leaving(t, k)
  <2>1. Node[t] > 0 /\ Clear(Node[t], k)
    BY <1>3 DEF Before, Entering, Away
  <2>2. Node[t] <= k
    BY <2>1 DEF Clear
  <2> QED BY <2>1, <2>2, <1>2 DEF Leaving, At, BlockedFor
<1>4. ASSUME Leaving(t, k) PROVE k = Len(cgraph) /\ Node[t] = k + 1
  BY <1>4 DEF Leaving, At, BlockedFor
<1> QED BY <1>1, <1>3, <1>4 DEF InSegment, At, BlockedFor
=============================================================================
