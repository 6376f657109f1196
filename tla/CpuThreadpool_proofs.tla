------------------------ MODULE CpuThreadpool_proofs ------------------------
(***************************************************************************)
(* The safety properties of the thread pool, for any number of threads,    *)
(* graphs and nodes: every step keeps the invariant of                     *)
(* CpuThreadpoolSegments, and the invariant gives what the pool promises.  *)
(* The steps between two barriers are in CpuThreadpoolSteps; here are the  *)
(* opening of a barrier and the steps outside a graph.                     *)
(***************************************************************************)
EXTENDS CpuThreadpoolSteps

(***************************************************************************)
(* The barrier opens                                                       *)
(***************************************************************************)
\* a segment whose threads all wait is complete
LEMMA SegmentDone ==
  ASSUME Inv, NEW k \in 1 .. Len(cgraph), NEW ph \in {"split", "chunks"}, Segment(k, ph), 0 \in Active,
         \A u \in Active : Pc[u] = "barrier"
  PROVE  Complete(k)
<1> DEFINE N == nchunk(k)
<1>1. N \in Nat /\ nth \in 0 .. NThreads /\ work \in SUBSET (Nat \X Nat \X Threads) /\ Active \subseteq Threads
  <2>1. Types
    BY DEF Inv
  <2>2. N \in Nat
    BY <2>1, GraphType
  <2> QED BY <2>1, <2>2 DEF Types, Active
<1>2. \A u \in Active : Leaving(u, k)
  <2>1. ASSUME NEW u \in Active PROVE Leaving(u, k)
    <3>1. InSegment(u, k, ph)
      BY DEF Segment
    <3> QED BY <3>1 DEF InSegment, Before, Entering, Away, At
  <2> QED BY <2>1
<1> DEFINE Done(c, u) == <<k, c, u>> \in work
<1>3. /\ \A c \in 0 .. N - 1 : \E u \in Threads : Done(c, u) /\ \A v \in Threads : Done(c, v) => v = u
      /\ \A c \in Nat, u \in Threads : Done(c, u) => c < N
  <2>1. CASE ph = "split"
    <3>1. SplitWork(k) /\ cgraph[k].op = "split"
      BY <2>1 DEF Segment, WorkOf, Reached
    <3>2. N = nth
      BY <3>1 DEF nchunk
    <3>3. ASSUME NEW c \in 0 .. N - 1
          PROVE  c \in Threads /\ Done(c, c) /\ \A v \in Threads : Done(c, v) => v = c
      <4>1. c \in Threads /\ c \in Active /\ c \in Nat
        BY <3>2, <1>1, ThreadAssumption DEF Active, Threads
      <4> QED BY <4>1, <3>1, <1>2 DEF SplitWork
    <3>4. ASSUME NEW c \in Nat, NEW u \in Threads, Done(c, u) PROVE c < N
      <4>1. c = u /\ u \in Active
        BY <3>1, <3>4 DEF SplitWork
      <4> QED BY <4>1, <3>2 DEF Active
    <3> QED BY <3>3, <3>4
  <2>2. CASE ph = "chunks"
    <3>1. ChunkWork(k)
      BY <2>2 DEF Segment, WorkOf
    <3>2. N <= current_chunk /\ current_chunk \in Nat
      BY <3>1, <1>2 DEF ChunkWork, Inv, Types
    <3>3. \A u \in Threads, c \in Nat : ~Holds(u, c)
      BY DEF Holds
    <3>4. ASSUME NEW c \in 0 .. N - 1 PROVE \E u \in Threads : Done(c, u) /\ \A v \in Threads : Done(c, v) => v = u
      <4>1. c \in Nat /\ c < N /\ c < current_chunk
        BY <1>1, <3>2
      <4>2. PICK u \in Threads : Done(c, u)
        BY <4>1, <3>1, <3>3 DEF ChunkWork
      <4> QED BY <4>1, <4>2, <3>1 DEF ChunkWork
    <3>5. ASSUME NEW c \in Nat, NEW u \in Threads, Done(c, u) PROVE c < N
      BY <3>1, <3>5 DEF ChunkWork
    <3> QED BY <3>4, <3>5
  <2> QED BY <2>1, <2>2
<1> HIDE DEF N
<1>4. ASSUME NEW c \in 0 .. N - 1 PROVE Cardinality({u \in Threads : <<k, c, u>> \in work}) = 1
  <2>1. PICK u \in Threads : Done(c, u) /\ \A v \in Threads : Done(c, v) => v = u
    BY <1>3
  <2>2. {v \in Threads : <<k, c, v>> \in work} = {u}
    BY <2>1
  <2> QED BY <2>2, FS_Singleton
<1>5. ASSUME NEW x \in work, x[1] = k PROVE x[2] < N
  <2>1. PICK c \in Nat, u \in Threads : x = <<k, c, u>>
    BY <1>1, <1>5
  <2> QED BY <2>1, <1>3
<1>6. nchunk(k) = N
  BY DEF N
<1> QED BY <1>4, <1>5, <1>6 DEF Complete

\* the step in which a barrier opens
LEMMA OpensInv ==
  ASSUME Inv, Types', 0 \in Active, Running, Opens,
         UNCHANGED <<n_graph, abort, current_chunk, ec, cgraph, last_graph, next, chunk, work>>
  PROVE  GraphInv'
<1> USE Disjoint, ThreadZero
<1>1. Active' = Active /\ nth' = nth /\ Active \subseteq Threads /\ Len(cgraph) \in Nat /\ nth \in Nat
  <2>1. Types
    BY DEF Inv
  <2>2. nth \in 0 .. NThreads
    BY <2>1 DEF Types
  <2> QED BY <2>1, <2>2, GraphLength, ThreadAssumption DEF Active, nth
<1>2. PICK k \in 1 .. Len(cgraph) + 1, ph \in Phases : Segment(k, ph)
  BY DEF Inv, GraphInv, SomeSegment
<1>3. \A u \in Active : InSegment(u, k, ph) /\ Pc[u] = "barrier" /\ ~Before(u, k)
  BY <1>2 DEF Segment, Opens, Before, Entering, Away
<1>4. Reached(k, ph) /\ DoneBefore(k) /\ (\A x \in work : x[1] <= k) /\ WorkOf(k, ph)
  BY <1>2 DEF Segment
<1>5. \A u \in Workers : /\ u >= nth => Pc[u] \in Away /\ Pc'[u] = Pc[u]
                         /\ u < nth => u \in Active /\ last_graph[u] = n_graph
  <2>1. ASSUME NEW u \in Workers, u >= nth PROVE Pc[u] \in Away /\ Pc'[u] = Pc[u]
    <3>1. u \notin Active
      BY <2>1, <1>1 DEF Active, Threads
    <3> QED BY <3>1, <2>1 DEF Inv, GraphInv, WorkerInv, Opens
  <2>2. ASSUME NEW u \in Workers, u < nth PROVE u \in Active /\ last_graph[u] = n_graph
    <3>1. u \in Active
      BY <2>2 DEF Active
    <3>2. Pc[u] \notin Away
      BY <3>1, <1>3 DEF Away
    <3> QED BY <3>1, <3>2, <2>2 DEF Inv, GraphInv, WorkerInv
  <2> QED BY <2>1, <2>2
<1>6. ASSUME NEW i \in Nat, Complete(i) PROVE Complete(i)'
  BY <1>6, CompleteKept
\* the graph goes on in segment m, p
<1>7. ASSUME NEW m \in 1 .. Len(cgraph) + 1, NEW p \in Phases, Segment(m, p)', Pc'[0] \in Inside PROVE GraphInv'
  <2>1. Running' /\ Pc'[0] \notin Finished /\ Pc'[0] \notin {"kickoff", "return", "idle"}
    BY <1>7 DEF Running, Finished
  <2>2. ASSUME NEW u \in Workers PROVE WorkerInv(u)'
    BY <2>1, <1>1, <1>5 DEF WorkerInv
  <2>3. SomeSegment' /\ cgraph \in Graphs /\ nth \in 1 .. NThreads
    BY <1>7 DEF SomeSegment, Inv, GraphInv
  <2>4. abort # -1 => ec = "aborted"
    BY DEF Inv, GraphInv
  <2> QED BY <2>1, <2>2, <2>3, <2>4, <1>1 DEF GraphInv
\* the inner barrier of a multiplication
<1>8. CASE ph = "prep"
  <2>1. \A u \in Active : next[u] = "chunks" /\ Node[u] = k /\ Pc'[u] = "chunks" /\ Node'[u] = k
    <3>1. \A u \in Active : next[u] = "chunks" /\ Node[u] = k
      BY <1>3, <1>8 DEF InSegment, At, BlockedFor
    <3> QED BY <3>1 DEF Opens
  <2>2. Unworked(k) /\ \A u \in Active : chunk[u] = u /\ current_chunk = nth
    BY <1>3, <1>4, <1>8 DEF WorkOf, Prepared
  <2>3. \A u \in Threads, c \in Nat : Holds(u, c)' <=> u \in Active /\ c = u
    BY <2>1, <2>2, <1>1 DEF Holds
  <2>4. \A u \in Active : ~Leaving(u, k)'
    BY <2>1 DEF Leaving, At, BlockedFor
  <2>5. ChunkWork(k)'
    <3>1. current_chunk' = nth /\ nth' = nth
      BY <2>2, <1>1
    <3>2. \A u \in Threads, c \in Nat : Holds(u, c)' => c < nth
      BY <2>3 DEF Active
    <3>3. \A c \in Nat : c < nth => \E u \in Threads : Holds(u, c)'
      <4>1. ASSUME NEW c \in Nat, c < nth PROVE c \in Threads /\ Holds(c, c)'
        <5>1. c \in Threads
          BY <4>1, ThreadAssumption DEF Threads, Inv, Types
        <5> QED BY <5>1, <4>1, <2>3 DEF Active
      <4> QED BY <4>1
    <3>4. \A u \in Threads, c \in Nat : <<k, c, u>> \notin work'
      BY <2>2 DEF Unworked
    <3> QED BY <3>1, <3>2, <3>3, <3>4, <2>3, <2>4, <1>1 DEF ChunkWork
  <2>6. Reached(k, "chunks")'
    BY <1>4, <1>8 DEF Reached
  <2>7. DoneBefore(k)'
    BY <1>4, <1>6 DEF DoneBefore
  <2>8. Segment(k, "chunks")'
    BY <2>1, <2>5, <2>6, <2>7, <1>1, <1>4 DEF Segment, WorkOf, InSegment, At
  <2> QED BY <2>1, <2>8, <1>7 DEF Inside, Phases
\* the barrier behind a node that is not the last one
<1>9. CASE ph \in {"split", "chunks"} /\ k < Len(cgraph)
  <2>1. \A u \in Active : Pc'[u] = "head" /\ Node'[u] = k + 1
    <3>1. \A u \in Active : next[u] = "next" /\ Node[u] = k
      BY <1>1, <1>3, <1>9 DEF InSegment, At, BlockedFor, Leaving
    <3> QED BY <3>1 DEF Opens
  <2>2. k \in 1 .. Len(cgraph) /\ k + 1 \in 1 .. Len(cgraph) + 1
    BY <1>1, <1>9
  <2>3. Complete(k)
    BY <2>2, <1>2, <1>3, <1>9, SegmentDone
  <2>4. PICK m \in k + 1 .. Len(cgraph) + 1, p \in {"split", "prep", "end"} : Reached(m, p) /\ Clear(k + 1, m)
    BY <2>2, StopAhead DEF Inv
  <2>5. Reached(m, p)' /\ Clear(k + 1, m)'
    BY <2>4 DEF Reached, Clear
  <2>6. \A u \in Active : /\ InSegment(u, m, p)' /\ ~Leaving(u, m)' /\ Pc'[u] # "barrier"
    <3>1. \A u \in Active : Before(u, m)'
      BY <2>1, <2>2, <2>5 DEF Before
    <3>2. \A u \in Active : ~Leaving(u, m)'
      BY <2>1, <2>2, <2>4 DEF Leaving, At, BlockedFor
    <3> QED BY <3>1, <3>2, <2>1, <2>4 DEF InSegment
  <2>7. \A x \in work' : x[1] <= m /\ x[1] # m
    <3>1. \A x \in work : x[1] \in Nat /\ x[1] <= k
      BY <1>4 DEF Inv, Types
    <3>2. k < m /\ k \in Nat /\ m \in Nat
      BY <2>2, <2>4
    <3> QED BY <3>1, <3>2
  <2>8. Unworked(m)'
    BY <2>7 DEF Unworked
  <2>9. DoneBefore(m)'
    <3>1. ASSUME NEW i \in 1 .. m - 1 PROVE cgraph[i].op = "empty" \/ Complete(i)'
      <4>1. CASE i < k
        BY <4>1, <1>4, <1>6, <2>2 DEF DoneBefore
      <4>2. CASE i = k
        BY <4>2, <2>2, <2>3, <1>6
      <4>3. CASE i > k
        BY <4>3, <2>2, <2>4 DEF Clear
      <4> QED BY <4>1, <4>2, <4>3, <2>2
    <3> QED BY <3>1 DEF DoneBefore
  <2>10. WorkOf(m, p)'
    <3>1. SplitWork(m)'
      BY <2>6, <2>8, <1>1 DEF SplitWork, Unworked
    <3>2. Prepared'
      BY <2>6, <1>1 DEF Prepared
    <3> QED BY <3>1, <3>2, <2>4, <2>8 DEF WorkOf
  <2>11. Segment(m, p)'
    BY <2>5, <2>6, <2>7, <2>9, <2>10, <1>1 DEF Segment
  <2>12. m \in 1 .. Len(cgraph) + 1 /\ p \in Phases
    BY <2>2, <2>4 DEF Phases
  <2> QED BY <2>1, <2>11, <2>12, <1>7 DEF Inside
\* the last one
<1>10. CASE ph = "end" \/ (ph \in {"split", "chunks"} /\ k = Len(cgraph))
  <2>1. \A u \in Active : Pc'[u] = "return"
    <3>1. \A u \in Active : next[u] = "return"
      BY <1>1, <1>3, <1>10 DEF InSegment, At, BlockedFor, Leaving
    <3> QED BY <3>1 DEF Opens
  <2>2. ~Running' /\ Pc'[0] = "return"
    BY <2>1 DEF Running, Finished
  <2>3. ASSUME NEW u \in Workers PROVE WorkerInv(u)'
    <3>1. u \in Nat /\ (u < nth \/ u >= nth)
      BY <1>1 DEF Threads
    <3>2. "return" \in Away
      BY DEF Away
    <3> QED BY <3>1, <3>2, <2>1, <1>1, <1>5 DEF WorkerInv
  <2>4. abort # -1 => ec = "aborted"
    BY DEF Inv, GraphInv
  <2>5. Result'
    <3>1. ASSUME NEW i \in 1 .. Len(cgraph)
          PROVE  cgraph[i].op = "empty" \/ (ec = "aborted" /\ i >= abort) \/ Complete(i)'
      <4>1. CASE i < k
        BY <4>1, <1>4, <1>6 DEF DoneBefore
      <4>2. CASE i >= k /\ ph = "end"
        <5>1. abort = k
          BY <4>2, <1>1, <1>4 DEF Reached
        <5> QED BY <5>1, <4>2, <2>4
      <4>3. CASE i >= k /\ ph # "end"
        <5>1. i = k /\ k \in 1 .. Len(cgraph)
          BY <4>3, <1>1, <1>10
        <5>2. Complete(k)
          BY <5>1, <1>2, <1>3, <1>10, <4>3, SegmentDone
        <5> QED BY <5>1, <5>2, <1>6
      <4> QED BY <4>1, <4>2, <4>3, <1>1
    <3>2. DOMAIN cgraph = 1 .. Len(cgraph)
      BY GraphLength DEF Inv
    <3> QED BY <3>1, <3>2 DEF Result
  <2> QED BY <2>2, <2>3, <2>4, <2>5 DEF GraphInv
<1> QED BY <1>1, <1>4, <1>8, <1>9, <1>10 DEF Phases, Reached

(***************************************************************************)
(* Steps outside the graph                                                 *)
(***************************************************************************)
\* steps outside the graph: nobody enters or leaves a barrier
LEMMA QuietView ==
  ASSUME BarrierInv, UNCHANGED <<n_barrier, n_barrier_passed, n_passed, bpc, n_graph, next, node>>,
         \A u \in Threads : pc'[u] = pc[u] \/ (pc[u] # "barrier" /\ pc'[u] # "barrier")
  PROVE  /\ BarrierInv' /\ Node' = Node
         /\ \A u \in Threads : /\ pc'[u] = pc[u] => Pc'[u] = Pc[u]
                               /\ pc[u] # "barrier" => Pc[u] = pc[u] /\ Pc'[u] = pc'[u]
<1>1. \A u \in Threads : Passed(u)' = Passed(u) /\ Opening(u)' = Opening(u)
  BY DEF Passed, Opening
<1>2. Waiting' = Waiting /\ Active' = Active
  BY <1>1 DEF Waiting, Active, nth
<1>3. \A u \in Threads : BarrierOf(u)'
  BY <1>1, <1>2 DEF BarrierInv, BarrierOf
<1>4. BarrierInv'
  BY <1>1, <1>2, <1>3 DEF BarrierInv
<1>5. \A u \in Threads : pc[u] # "barrier" => ~Passed(u)
  BY DEF BarrierInv, BarrierOf, Passed
<1> QED BY <1>1, <1>4, <1>5 DEF Pc, Node

\* The segment stays when threads only move before its start.
LEMMA QuietSegment ==
  ASSUME Inv, Types', SomeSegment, UNCHANGED <<n_graph, abort, cgraph, work, chunk, current_chunk, next>>, Node' = Node,
         \A u \in Active : Pc'[u] = Pc[u] \/ (Entering(u) /\ Entering(u)')
  PROVE  SomeSegment'
<1>1. PICK k \in 1 .. Len(cgraph) + 1, ph \in Phases : Segment(k, ph)
  BY DEF SomeSegment
<1>2. k \in Nat /\ Active' = Active /\ Active \subseteq Threads /\ Types
  BY <1>1, GraphLength DEF Inv, Active, nth
<1>3. \A u \in Active : InSegment(u, k, ph)
  BY <1>1 DEF Segment
<1>4. ASSUME NEW u \in Active
      PROVE  /\ InSegment(u, k, ph)' /\ (Leaving(u, k)' <=> Leaving(u, k))
             /\ Pc'[u] = "chunks" <=> Pc[u] = "chunks"
             /\ Pc'[u] = "barrier" => Pc[u] = "barrier"
  <2>1. CASE Pc'[u] = Pc[u]
    BY <2>1, <1>2, <1>3, Others
  <2>2. CASE Entering(u) /\ Entering(u)'
    <3>1. /\ Pc[u] \notin {"head", "compute", "after", "chunks", "barrier"}
          /\ Pc'[u] \notin {"head", "compute", "after", "chunks", "barrier"}
      BY <2>2 DEF Entering, Away
    <3>2. ~Leaving(u, k) /\ ~Leaving(u, k)'
      BY <3>1 DEF Leaving, At, BlockedFor
    <3>3. ph # "chunks" /\ Clear(1, k)
      BY <3>1, <3>2, <1>3 DEF InSegment, At, BlockedFor, Before
    <3>4. Clear(1, k)'
      BY <3>3 DEF Clear
    <3> QED BY <3>1, <3>2, <3>3, <3>4, <2>2 DEF InSegment, Before
  <2> QED BY <2>1, <2>2
<1>5. Reached(k, ph)'
  BY <1>1, <1>2, ReachedKept DEF Segment
<1>6. DoneBefore(k)'
  BY <1>1, <1>2, DoneKept DEF Segment
<1>7. WorkOf(k, ph)'
  BY <1>1, <1>2, <1>4, WorkKept DEF Segment
<1>8. Segment(k, ph)'
  BY <1>1, <1>2, <1>4, <1>5, <1>6, <1>7 DEF Segment
<1> QED BY <1>1, <1>8 DEF SomeSegment

Outer(l) == l \in {"return", "idle"}

\* So does the rest of the invariant.
LEMMA QuietInv ==
  ASSUME Inv, Types', UNCHANGED <<n_graph, abort, ec, cgraph, work, chunk, current_chunk, next, asked>>, Node' = Node,
         \A u \in Workers : WorkerInv(u)',
         \A u \in Workers : Pc'[u] = Pc[u] \/ (Entering(u) /\ Entering(u)'),
         \/ Pc'[0] = Pc[0] \/ (Entering(0) /\ Entering(0)')
         \/ Pc[0] \in Finished /\ Pc'[0] \in {"join", "freed"}
         \/ Outer(Pc[0]) /\ Outer(Pc'[0])
  PROVE  GraphInv'
<1>1. Running' <=> Running
  BY DEF Running, Entering, Finished, Outer
<1>2. abort # -1 => ec = "aborted"
  BY DEF Inv, GraphInv
<1>3. Pc'[0] = "kickoff" => Ready'
  BY DEF Entering, Outer, Inv, GraphInv, Ready
<1>4. Pc'[0] \in {"return", "idle"} => Result'
  <2>1. ASSUME Outer(Pc'[0]) PROVE Result'
    <3>1. Result
      BY <2>1 DEF Entering, Outer, Inv, GraphInv
    <3>2. ASSUME NEW i \in DOMAIN cgraph, Complete(i) PROVE Complete(i)'
      <4>1. i \in Nat
        BY GraphLength DEF Inv
      <4> QED BY <3>2, <4>1, CompleteKept
    <3> QED BY <3>1, <3>2 DEF Result
  <2> QED BY <2>1 DEF Outer
<1>5. ASSUME Running PROVE cgraph \in Graphs /\ nth' \in 1 .. NThreads /\ SomeSegment'
  <2>1. cgraph \in Graphs /\ nth \in 1 .. NThreads /\ SomeSegment
    BY <1>5 DEF Inv, GraphInv
  <2>2. Pc'[0] = Pc[0] \/ (Entering(0) /\ Entering(0)')
    BY <1>5 DEF Running, Outer, Finished
  <2>3. \A u \in Active : Pc'[u] = Pc[u] \/ (Entering(u) /\ Entering(u)')
    BY <2>2 DEF Active, Workers
  <2>4. SomeSegment'
    BY <2>1, <2>3, QuietSegment
  <2> QED BY <2>1, <2>4 DEF nth
<1> QED BY <1>1, <1>2, <1>3, <1>4, <1>5 DEF GraphInv

\* Steps inside ggml_barrier, opening it or not.
LEMMA BarrierGraph ==
  ASSUME Inv, Types', NEW t \in Threads, Barrier(t)
  PROVE  BarrierInv' /\ GraphInv'
<1>1. BarrierInv' /\ (UNCHANGED <<Pc, Node>> \/ (Opens /\ Running /\ 0 \in Active))
  BY BarrierView DEF Inv
<1>2. UNCHANGED <<n_graph, abort, current_chunk, ec, cgraph, last_graph, next, chunk, work, asked>>
  BY DEF Barrier, flags, graph, local
<1>3. CASE Opens /\ Running /\ 0 \in Active
  BY <1>1, <1>2, <1>3, OpensInv
<1>4. CASE UNCHANGED <<Pc, Node>>
  <2>1. \A u \in Workers : WorkerInv(u)'
    BY <1>2, <1>4 DEF Inv, GraphInv, WorkerInv, Running, nth
  <2>2. GraphInv'
    BY <2>1, <1>2, <1>4, QuietInv
  <2> QED BY <1>1, <2>2
<1> QED BY <1>1, <1>3, <1>4

\* Leaving ggml_graph_compute_thread.
LEMMA ReturnInv ==
  ASSUME Inv, Types', NEW t \in Threads, Return(t)
  PROVE  BarrierInv' /\ GraphInv'
<1>1. /\ UNCHANGED <<n_graph, abort, current_chunk, ec, cgraph, last_graph, next, node, chunk, work, asked>>
      /\ UNCHANGED <<n_barrier, n_barrier_passed, n_passed, bpc>>
      /\ pc[t] = "return" /\ pc' = [pc EXCEPT ![t] = IF t = 0 THEN "idle" ELSE "top"] /\ DOMAIN pc = Threads
  BY DEF Return, Goto, bvars, flags, graph, local, place, Inv, Types
<1>2. \A u \in Threads : pc'[u] = IF u # t THEN pc[u] ELSE IF t = 0 THEN "idle" ELSE "top"
  BY <1>1
<1>3. /\ BarrierInv' /\ Node' = Node
      /\ \A u \in Threads : /\ pc'[u] = pc[u] => Pc'[u] = Pc[u]
                            /\ pc[u] # "barrier" => Pc[u] = pc[u] /\ Pc'[u] = pc'[u]
  BY <1>1, <1>2, QuietView DEF Inv
<1>4. CASE t = 0
  <2>1. Pc[0] = "return" /\ Pc'[0] = "idle" /\ \A u \in Workers : Pc'[u] = Pc[u]
    BY <1>1, <1>2, <1>3, <1>4, ThreadZero DEF Workers
  <2>2. \A u \in Workers : WorkerInv(u)'
    BY <2>1, <1>1 DEF Inv, GraphInv, WorkerInv, Running, Finished, nth
  <2> QED BY <2>1, <2>2, <1>1, <1>3, QuietInv DEF Outer
<1>5. CASE t # 0
  <2>1. /\ Pc[t] = "return" /\ Pc'[t] = "top" /\ Pc'[0] = Pc[0]
        /\ \A u \in Workers \ {t} : Pc'[u] = Pc[u]
    BY <1>1, <1>2, <1>3, <1>5, ThreadZero DEF Workers
  <2>2. \A u \in Workers : Pc'[u] = Pc[u] \/ (Entering(u) /\ Entering(u)')
    BY <2>1, ThreadZero DEF Entering, Away
  <2>3. \A u \in Workers : WorkerInv(u)'
    BY <2>1, <1>1 DEF Inv, GraphInv, WorkerInv, Running, Away, nth
  <2> QED BY <2>1, <2>2, <2>3, <1>1, <1>3, QuietInv
<1> QED BY <1>4, <1>5

\* A worker that waits for a graph, or finds one.
LEMMA WorkerStepInv ==
  ASSUME Inv, Types', NEW t \in Workers, WorkerStep(t) \/ SpuriousWakeup(t)
  PROVE  BarrierInv' /\ GraphInv'
<1> USE ThreadZero, Disjoint
<1>1. /\ UNCHANGED <<n_graph, abort, current_chunk, ec, cgraph, next, node, chunk, work, asked>>
      /\ UNCHANGED <<n_barrier, n_barrier_passed, n_passed, bpc>> /\ DOMAIN pc = Threads /\ DOMAIN last_graph = Workers
  <2>1. WorkerUnchanged
    BY DEF WorkerStep, SpuriousWakeup, Top, Pausing, Woke, CheckStop, Poll, Poll2, CheckForWork
  <2> QED BY <2>1 DEF WorkerUnchanged, bvars, flags, graph, place, Inv, Types
<1>2. pc[t] \in Away
  BY DEF WorkerStep, SpuriousWakeup, Top, Pausing, Woke, CheckStop, Poll, Poll2, CheckForWork, Away
\* it stays away, or it has seen a new graph that it takes part in
<1> DEFINE Stays == /\ \E l \in Away : Goto(t, l)
                    /\ last_graph' = last_graph \/ last_graph' = [last_graph EXCEPT ![t] = n_graph]
           Takes == /\ Goto(t, "start") /\ t < nth /\ last_graph[t] # n_graph
                    /\ last_graph' = [last_graph EXCEPT ![t] = n_graph]
<1>3. ASSUME NEW l \in Away, NewGraph(t, l) PROVE Stays \/ Takes
  <2>1. CASE n_graph = last_graph[t]
    BY <2>1, <1>3 DEF NewGraph, local
  <2>2. CASE n_graph # last_graph[t] /\ t < nth
    BY <2>2, <1>3 DEF NewGraph, nth
  <2>3. CASE n_graph # last_graph[t] /\ ~(t < nth)
    BY <2>3, <1>3 DEF NewGraph, nth, Away
  <2> QED BY <2>1, <2>2, <2>3
<1>4. Stays \/ Takes
  BY <1>3 DEF WorkerStep, SpuriousWakeup, Top, Pausing, Woke, CheckStop, Poll, Poll2, CheckForWork, Away, local
<1> HIDE DEF Stays, Takes
<1>5. /\ \A u \in Threads \ {t} : pc'[u] = pc[u]
      /\ pc'[t] \in Away \union {"start"}
      /\ \A u \in Workers \ {t} : last_graph'[u] = last_graph[u]
      /\ last_graph'[t] \in {last_graph[t], n_graph}
      /\ pc'[t] = "start" => t < nth /\ last_graph[t] # n_graph /\ last_graph'[t] = n_graph
  <2>1. CASE Stays
    BY <2>1, <1>1 DEF Stays, Goto, Away
  <2>2. CASE Takes
    BY <2>2, <1>1 DEF Takes, Goto
  <2> QED BY <2>1, <2>2, <1>4
<1>6. \A u \in Threads : pc'[u] = pc[u] \/ (pc[u] # "barrier" /\ pc'[u] # "barrier")
  BY <1>2, <1>5 DEF Away
<1>7. /\ BarrierInv' /\ Node' = Node
      /\ \A u \in Threads : /\ pc'[u] = pc[u] => Pc'[u] = Pc[u]
                            /\ pc[u] # "barrier" => Pc[u] = pc[u] /\ Pc'[u] = pc'[u]
  BY <1>1, <1>6, QuietView DEF Inv
<1>8. /\ Pc[t] \in Away /\ Pc'[t] = pc'[t] /\ \A u \in Threads \ {t} : Pc'[u] = Pc[u]
  BY <1>2, <1>5, <1>7 DEF Away
<1>9. (Running' <=> Running) /\ nth' = nth /\ Pc'[0] = Pc[0]
  BY <1>1, <1>8 DEF Running, nth
<1>10. ASSUME NEW u \in Workers PROVE WorkerInv(u)' /\ (Pc'[u] = Pc[u] \/ (Entering(u) /\ Entering(u)'))
  <2>1. WorkerInv(u)
    BY DEF Inv, GraphInv
  <2>2. CASE u # t
    BY <2>1, <2>2, <1>1, <1>5, <1>8, <1>9 DEF WorkerInv
  <2>3. CASE u = t /\ pc'[t] \in Away
    BY <2>1, <2>3, <1>1, <1>5, <1>8, <1>9 DEF WorkerInv, Entering
  <2>4. CASE u = t /\ pc'[t] = "start"
    <3>1. Running /\ t < nth /\ last_graph'[t] = n_graph
      BY <2>1, <2>4, <1>5 DEF WorkerInv
    <3>2. ~(t >= nth)
      <4>1. nth \in 0 .. NThreads /\ t \in Nat
        BY DEF Inv, Types, Threads
      <4> QED BY <3>1, <4>1, ThreadAssumption
    <3> QED BY <2>4, <3>1, <3>2, <1>1, <1>8, <1>9 DEF WorkerInv, Entering
  <2> QED BY <2>2, <2>3, <2>4, <1>5
<1>11. GraphInv'
  BY <1>1, <1>7, <1>9, <1>10, QuietInv
<1> QED BY <1>7, <1>11

\* a broadcast, and where the caller goes with it
LEMMA Broadcast ==
  ASSUME Inv, Types', \A u \in Workers : pc'[u] = Woken[u],
         \/ pc[0] = "wake" /\ pc'[0] = "start"
         \/ pc[0] = "idle" /\ pc'[0] \in {"idle", "join"},
         UNCHANGED <<n_barrier, n_barrier_passed, n_passed, bpc>>,
         UNCHANGED <<n_graph, abort, current_chunk, ec, cgraph, last_graph, next, node, chunk, work, asked>>
  PROVE  BarrierInv' /\ GraphInv'
<1> USE ThreadZero, Disjoint
<1>1. \A u \in Workers : pc'[u] = pc[u] \/ (pc[u] = "sleep" /\ pc'[u] = "lock") \/ (pc[u] = "paused" /\ pc'[u] = "woken")
  BY DEF Woken
<1>2. \A u \in Threads : pc'[u] = pc[u] \/ (pc[u] # "barrier" /\ pc'[u] # "barrier")
  BY <1>1 DEF Workers
<1>3. /\ BarrierInv' /\ Node' = Node
      /\ \A u \in Threads : /\ pc'[u] = pc[u] => Pc'[u] = Pc[u]
                            /\ pc[u] # "barrier" => Pc[u] = pc[u] /\ Pc'[u] = pc'[u]
  BY <1>2, QuietView DEF Inv
<1>4. Pc[0] = pc[0] /\ Pc'[0] = pc'[0]
  BY <1>3
<1>5. \A u \in Workers : Pc'[u] = Pc[u] \/ (Pc[u] \in Away /\ Pc'[u] \in Away)
  BY <1>1, <1>3 DEF Away
<1>6. (Running' <=> Running) /\ nth' = nth
  BY <1>4 DEF Running, nth, Finished
<1>7. \A u \in Workers : WorkerInv(u)' /\ (Pc'[u] = Pc[u] \/ (Entering(u) /\ Entering(u)'))
  BY <1>5, <1>6 DEF Inv, GraphInv, WorkerInv, Entering
<1>8. \/ Pc'[0] = Pc[0] \/ (Entering(0) /\ Entering(0)')
      \/ Pc[0] \in Finished /\ Pc'[0] \in {"join", "freed"}
      \/ Outer(Pc[0]) /\ Outer(Pc'[0])
  BY <1>4 DEF Entering, Finished, Outer
<1>9. GraphInv'
  BY <1>3, <1>7, <1>8, QuietInv
<1> QED BY <1>3, <1>9

\* ggml_graph_compute sets up a graph.
LEMMA ComputeInv ==
  ASSUME Inv, Types', NEW g \in Graphs, NEW n \in 1 .. NThreads + 1, Compute(g, n)
  PROVE  BarrierInv' /\ GraphInv'
<1> USE ThreadZero, ThreadAssumption
<1>1. /\ pc[0] = "idle" /\ pc' = [pc EXCEPT ![0] = "kickoff"] /\ DOMAIN pc = Threads
      /\ UNCHANGED <<n_barrier, n_barrier_passed, n_passed, bpc, n_graph, last_graph, next, node>>
  BY DEF Compute, Goto, bvars, flags, local, place, Inv, Types
<1>2. pc'[0] = "kickoff" /\ \A u \in Workers : pc'[u] = pc[u]
  BY <1>1 DEF Workers
<1>3. /\ BarrierInv' /\ Pc[0] = "idle" /\ Pc'[0] = "kickoff" /\ \A u \in Workers : Pc'[u] = Pc[u]
  BY <1>1, <1>2, QuietView DEF Inv, Workers
<1>4. Ready' /\ abort' = -1
  BY DEF Compute, Ready
<1>5. ~Running' /\ ~Running /\ nth' = nth
  BY <1>1, <1>3 DEF Running, Finished, nth
<1>6. \A u \in Workers : WorkerInv(u)'
  BY <1>1, <1>3, <1>5 DEF Inv, GraphInv, WorkerInv
<1> QED BY <1>3, <1>4, <1>5, <1>6 DEF GraphInv

\* The graph is announced: its first segment begins.
LEMMA KickoffInv ==
  ASSUME Inv, Types', Kickoff
  PROVE  BarrierInv' /\ GraphInv'
<1> USE ThreadZero, ThreadAssumption, Disjoint
<1>1. /\ pc[0] = "kickoff" /\ pc' = [pc EXCEPT ![0] = "wake"] /\ DOMAIN pc = Threads /\ nth' = asked
      /\ UNCHANGED <<n_barrier, n_barrier_passed, n_passed, bpc, last_graph, next, node>>
      /\ UNCHANGED <<abort, current_chunk, ec, cgraph, work>>
  BY DEF Kickoff, Goto, bvars, graph, local, place, Inv, Types, nth
<1>2. pc'[0] = "wake" /\ \A u \in Workers : pc'[u] = pc[u]
  BY <1>1 DEF Workers
<1>3. \A u \in Threads : Passed(u)' = Passed(u) /\ Opening(u)' = Opening(u)
  BY <1>1 DEF Passed, Opening
<1>4. bpc[0] = "out" /\ ~Passed(0)
  BY <1>1 DEF Inv, BarrierInv, BarrierOf, Passed
<1>5. Pc[0] = "kickoff" /\ Pc'[0] = "wake" /\ \A u \in Workers : Pc'[u] = Pc[u]
  BY <1>1, <1>2, <1>3, <1>4 DEF Pc
<1>6. ~Running /\ Running' /\ Ready /\ \A u \in Workers : Pc[u] \in Away
  BY <1>5 DEF Running, Finished, Inv, GraphInv, WorkerInv
<1>7. \A u \in Threads : ~Opening(u) /\ Pc[u] # "barrier"
  <2>1. \A u \in Threads : Pc[u] # "barrier"
    BY <1>5, <1>6 DEF Workers, Away
  <2>2. \A u \in Threads : Opening(u) => Pc[u] = "barrier"
    BY DEF Opening, Pc, Passed, Inv, BarrierInv, BarrierOf
  <2> QED BY <2>1, <2>2
<1>8. BarrierInv'
  <2>1. Waiting' = Waiting
    BY <1>1, <1>3 DEF Waiting
  <2>2. ASSUME NEW u \in Threads PROVE BarrierOf(u)'
    <3>1. pc'[u] = "barrier" <=> pc[u] = "barrier"
      BY <1>1, <1>2 DEF Workers
    <3> QED BY <3>1, <1>1, <1>3, <1>7 DEF Inv, BarrierInv, BarrierOf
  <2>3. n_barrier = Cardinality(Waiting)
    BY <1>7 DEF Inv, BarrierInv
  <2> QED BY <2>1, <2>2, <2>3, <1>1 DEF BarrierInv
<1>9. \A u \in Workers : WorkerInv(u)'
  BY <1>5, <1>6 DEF WorkerInv
<1>10. SomeSegment'
  <2>1. Types /\ 1 \in 1 .. Len(cgraph) + 1
    BY GraphLength DEF Inv
  <2>2. PICK k \in 1 .. Len(cgraph) + 1, ph \in {"split", "prep", "end"} : Reached(k, ph) /\ Clear(1, k)
    BY <2>1, StopAhead
  <2>3. Reached(k, ph)' /\ Clear(1, k)'
    BY <2>2, <1>1 DEF Reached, Clear
  <2>4. \A u \in Threads : Entering(u)' /\ Pc'[u] \notin {"head", "compute", "after", "chunks", "barrier"}
    BY <1>5, <1>6 DEF Entering, Workers, Away
  <2>5. \A u \in Threads : InSegment(u, k, ph)' /\ ~Leaving(u, k)'
    BY <2>2, <2>3, <2>4 DEF InSegment, Before, Leaving, At, BlockedFor
  <2>6. work' = {}
    BY <1>1, <1>6 DEF Ready
  <2>7. WorkOf(k, ph)'
    <3>1. SplitWork(k)' /\ Unworked(k)'
      BY <2>5, <2>6 DEF SplitWork, Unworked
    <3>2. Prepared'
      BY <2>4 DEF Prepared, Active
    <3> QED BY <3>1, <3>2, <2>2 DEF WorkOf
  <2>8. DoneBefore(k)'
    BY <2>3 DEF DoneBefore, Clear
  <2>9. Segment(k, ph)'
    BY <2>3, <2>5, <2>6, <2>7, <2>8 DEF Segment, Active
  <2> QED BY <2>2, <2>9, <1>1 DEF SomeSegment, Phases
<1>11. cgraph' \in Graphs /\ nth' \in 1 .. NThreads /\ (abort # -1 => ec = "aborted")'
  BY <1>1, <1>6 DEF Ready
<1> QED BY <1>5, <1>6, <1>8, <1>9, <1>10, <1>11 DEF GraphInv

\* The threads of the pool have ended.
LEMMA JoinInv ==
  ASSUME Inv, Types', Join
  PROVE  BarrierInv' /\ GraphInv'
<1> USE ThreadZero
<1>1. /\ pc[0] = "join" /\ pc' = [pc EXCEPT ![0] = "freed"] /\ DOMAIN pc = Threads
      /\ UNCHANGED <<n_barrier, n_barrier_passed, n_passed, bpc>>
      /\ UNCHANGED <<n_graph, abort, current_chunk, ec, cgraph, last_graph, next, node, chunk, work, asked>>
  BY DEF Join, Goto, bvars, flags, graph, local, place, Inv, Types
<1>2. pc'[0] = "freed" /\ \A u \in Workers : pc'[u] = pc[u]
  BY <1>1 DEF Workers
<1>3. BarrierInv' /\ Node' = Node /\ Pc[0] = "join" /\ Pc'[0] = "freed" /\ \A u \in Workers : Pc'[u] = Pc[u]
  BY <1>1, <1>2, QuietView DEF Inv, Workers
<1>4. \A u \in Workers : WorkerInv(u)'
  BY <1>1, <1>3 DEF Inv, GraphInv, WorkerInv, Running, Finished, nth
<1> QED BY <1>1, <1>3, <1>4, QuietInv DEF Finished

(***************************************************************************)
(* Theorems                                                                *)
(***************************************************************************)
\* A new pool.
LEMMA InitInv == Init => Inv
<1> SUFFICES ASSUME Init PROVE Inv
  OBVIOUS
<1> USE ThreadZero, ThreadAssumption
<1>1. Types
  BY InitTypes
<1>2. /\ \A t \in Threads : bpc[t] = "out" /\ n_passed[t] = 0 /\ next[t] = "none" /\ pc[t] = IF t = 0 THEN "idle" ELSE "top"
      /\ n_barrier = 0 /\ n_barrier_passed = 0
  BY DEF Init, BarrierInit
<1>3. \A t \in Threads : ~Passed(t) /\ ~Opening(t) /\ Pc[t] = pc[t]
  BY <1>2 DEF Passed, Opening, Pc
<1>4. Waiting = {}
  BY <1>2 DEF Waiting
<1>5. BarrierInv
  BY <1>2, <1>3, <1>4, FS_EmptySet DEF BarrierInv, BarrierOf
<1>6. ~Running /\ Pc[0] = "idle" /\ \A t \in Workers : Pc[t] \in Away
  BY <1>2, <1>3 DEF Running, Finished, Workers, Away
<1>7. abort = -1 /\ nth = 0 /\ cgraph = << >>
  BY DEF Init, nth
<1>8. \A t \in Workers : WorkerInv(t)
  BY <1>6, <1>7 DEF WorkerInv, Threads
<1>9. Result
  BY <1>7 DEF Result
<1> QED BY <1>1, <1>5, <1>6, <1>7, <1>8, <1>9 DEF Inv, GraphInv

\* Every step keeps the invariant.
LEMMA StepInv == Inv /\ [Next]_vars => Inv'
<1> SUFFICES ASSUME Inv, [Next]_vars PROVE Inv'
  OBVIOUS
<1> USE ThreadZero
<1>1. ASSUME CallerChoice \/ CallerStep PROVE Inv'
  <2>1. Types'
    BY <1>1, CallerTypes DEF Inv
  <2>2. ASSUME NEW g \in Graphs, NEW n \in 1 .. NThreads + 1, Compute(g, n) PROVE BarrierInv' /\ GraphInv'
    BY <2>1, <2>2, ComputeInv
  <2>3. ASSUME NEW b \in BOOLEAN, SetPause(b) PROVE BarrierInv' /\ GraphInv'
    <3>1. /\ pc[0] = "idle"
          /\ UNCHANGED <<n_barrier, n_barrier_passed, n_passed, bpc>>
          /\ UNCHANGED <<n_graph, abort, current_chunk, ec, cgraph, last_graph, next, node, chunk, work, asked>>
      BY <2>3 DEF SetPause, bvars, graph, local, place
    <3>2. CASE pc' = Woken
      <4>1. pc'[0] = "idle" /\ \A u \in Workers : pc'[u] = Woken[u]
        BY <3>1, <3>2 DEF Woken
      <4> QED BY <4>1, <3>1, <3>2, <2>1, Broadcast
    <3>3. CASE pc' = pc
      <4>1. BarrierInv' /\ Node' = Node /\ \A u \in Threads : Pc'[u] = Pc[u]
        BY <3>1, <3>3, QuietView DEF Inv
      <4>2. \A u \in Workers : WorkerInv(u)'
        BY <4>1, <3>1 DEF Inv, GraphInv, WorkerInv, Running, nth
      <4> QED BY <4>1, <4>2, <3>1, <2>1, QuietInv
    <3> QED BY <2>3, <3>2, <3>3 DEF SetPause
  <2>4. CASE Free
    <3>1. pc' = [Woken EXCEPT ![0] = "join"] /\ DOMAIN Woken = Threads
      BY <2>4 DEF Free, Woken
    <3>2. pc'[0] = "join" /\ \A u \in Workers : pc'[u] = Woken[u]
      BY <3>1 DEF Workers
    <3>3. /\ pc[0] = "idle"
          /\ UNCHANGED <<n_barrier, n_barrier_passed, n_passed, bpc>>
          /\ UNCHANGED <<n_graph, abort, current_chunk, ec, cgraph, last_graph, next, node, chunk, work, asked>>
      BY <2>4 DEF Free, bvars, graph, local, place
    <3> QED BY <3>2, <3>3, <2>1, Broadcast DEF Inv
  <2>5. CASE KickoffWake
    <3>1. pc' = [Woken EXCEPT ![0] = "start"] /\ DOMAIN Woken = Threads
      BY <2>5 DEF KickoffWake, Woken
    <3>2. pc'[0] = "start" /\ \A u \in Workers : pc'[u] = Woken[u]
      BY <3>1 DEF Workers
    <3>3. /\ pc[0] = "wake"
          /\ UNCHANGED <<n_barrier, n_barrier_passed, n_passed, bpc>>
          /\ UNCHANGED <<n_graph, abort, current_chunk, ec, cgraph, last_graph, next, node, chunk, work, asked>>
      BY <2>5 DEF KickoffWake, bvars, graph, local, place
    <3> QED BY <3>2, <3>3, <2>1, Broadcast DEF Inv
  <2> QED BY <1>1, <2>1, <2>2, <2>3, <2>4, <2>5, KickoffInv, JoinInv DEF CallerChoice, CallerStep, Inv
<1>2. ASSUME NEW t \in Workers, WorkerStep(t) \/ SpuriousWakeup(t) PROVE Inv'
  BY <1>2, WorkerTypes, WorkerStepInv DEF Inv
<1>3. ASSUME NEW t \in Threads, ComputeStep(t) PROVE Inv'
  <2>1. Types'
    BY <1>3, ComputeTypes DEF Inv
  <2>2. ASSUME NEW aborts \in BOOLEAN, After(t, aborts) PROVE BarrierInv' /\ GraphInv'
    BY <2>1, <2>2, AfterInv
  <2> QED BY <1>3, <2>1, <2>2, StartInv, NodeLoopInv, SplitInv, MulMatInv, ChunkInv, BarrierGraph, ReturnInv
          DEF ComputeStep, Inv
<1>4. CASE UNCHANGED vars
  <2>1. /\ UNCHANGED <<n_barrier, n_barrier_passed, n_passed, bpc, pc>>
        /\ UNCHANGED <<n_graph, abort, current_chunk, ec, cgraph, last_graph, next, node, chunk, work, asked>>
    BY <1>4 DEF vars, bvars, flags, graph, local, place
  <2>2. Types'
    BY <2>1 DEF Inv, Types, nth
  <2>3. BarrierInv' /\ Node' = Node /\ \A u \in Threads : Pc'[u] = Pc[u]
    BY <2>1, QuietView DEF Inv
  <2>4. \A u \in Workers : WorkerInv(u)'
    BY <2>1, <2>3 DEF Inv, GraphInv, WorkerInv, Running, nth
  <2>5. GraphInv'
    BY <2>1, <2>2, <2>3, <2>4, QuietInv
  <2> QED BY <2>2, <2>3, <2>5 DEF Inv
<1> QED BY <1>1, <1>2, <1>3, <1>4 DEF Next

\* The inductive invariant holds of every pool, for every number of threads and
\* every graph.
THEOREM Invariance == Spec => []Inv
  BY InitInv, StepInv, PTL DEF Spec

\* ggml_graph_compute sets up the pool for a graph only when no worker is in the
\* last one ("No worker threads should be accessing the parameters below at this
\* stage").
THEOREM ResetsAlone == Spec => []ResetAlone
<1>1. Inv => ResetAlone
  <2> SUFFICES ASSUME Inv, pc[0] \in {"idle", "kickoff", "join", "freed"}, NEW t \in Workers, InGraph(t)
               PROVE  FALSE
    BY DEF ResetAlone
  <2> USE ThreadZero
  <2>1. bpc[0] = "out" /\ Pc[0] = pc[0]
    BY DEF Inv, BarrierInv, BarrierOf, Pc, Passed
  <2>2. Pc[t] \in Away
    BY <2>1 DEF Inv, GraphInv, WorkerInv, Running, Finished
  <2>3. pc[t] = "barrier"
    BY <2>2 DEF InGraph, Inv, BarrierInv, BarrierOf, Pc, Passed, Away
  <2>4. Passed(t) /\ next[t] \in Away
    BY <2>2, <2>3 DEF Pc, Away
  <2>5. next[t] = "return" /\ bpc[t] = "spin"
    BY <2>4 DEF Passed, Away, Inv, Types
  <2> QED BY <2>3, <2>5 DEF InGraph
<1> QED BY <1>1, Invariance, PTL

\* A thread computes a node only when every earlier node is complete: the barriers
\* of ggml_graph_compute_thread keep the nodes in order.
THEOREM InOrder == Spec => []NodesInOrder
<1>1. Inv => NodesInOrder
  <2> SUFFICES ASSUME Inv, NEW t \in Threads, pc[t] \in {"compute", "chunks"}
               PROVE  \A i \in 1 .. node[t] - 1 : cgraph[i].op = "empty" \/ Complete(i)
    BY DEF NodesInOrder
  <2>1. t \in Active /\ Running /\ Pc[t] = pc[t] /\ Node[t] = node[t]
    BY InsideActive DEF Inside
  <2>2. PICK k \in 1 .. Len(cgraph) + 1, ph \in Phases : Segment(k, ph)
    BY <2>1 DEF Inv, GraphInv, SomeSegment
  <2>3. k \in Nat
    BY <2>2, GraphLength DEF Inv
  <2>4. node[t] = k
    BY <2>1, <2>2, <2>3, AtWork
  <2> QED BY <2>2, <2>4 DEF Segment, DoneBefore
<1> QED BY <1>1, Invariance, PTL

\* When ggml_graph_compute returns, every node up to the one after which the caller
\* asked to stop has been computed, each share of it by one thread.
THEOREM Results == Spec => []ResultComplete
<1>1. Inv => ResultComplete
  <2> SUFFICES ASSUME Inv, pc[0] = "idle" PROVE Result
    BY DEF ResultComplete, Result
  <2>1. Pc[0] = "idle"
    BY ThreadZero DEF Inv, BarrierInv, BarrierOf, Pc, Passed
  <2> QED BY <2>1 DEF Inv, GraphInv
<1> QED BY <1>1, Invariance, PTL
=============================================================================
