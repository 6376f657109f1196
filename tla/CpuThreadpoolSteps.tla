------------------------- MODULE CpuThreadpoolSteps -------------------------
(***************************************************************************)
(* The steps of a thread that computes keep the invariant of               *)
(* CpuThreadpoolSegments: each leaves its thread in the segment that all   *)
(* active threads share, and records the work of that segment only.        *)
(***************************************************************************)
EXTENDS CpuThreadpoolSegments

\* A thread that starts is at the first node, and so is the segment.
LEMMA StartInv ==
  ASSUME Inv, Types', NEW t \in Threads, Start(t)
  PROVE  BarrierInv' /\ GraphInv'
<1>1. pc[t] = "start" /\ pc[t] \in Inside /\ "head" \in Inside
  BY DEF Start, Inside
<1>2. t \in Active /\ Running /\ Pc[t] = pc[t]
  BY <1>1, InsideActive
<1>3. pc'[t] = "head" /\ node'[t] = 1
  BY DEF Start, Goto, Inv, Types
<1>4. Steps(t)
  <2>1. bpc[t] = "out"
    BY <1>1, InsideActive
  <2> QED BY <2>1, <1>1, <1>3 DEF Start, Goto, Inv, Types, Steps, bvars, flags
<1>5. Moves(t) /\ BarrierInv'
  BY <1>4, StepView DEF Inv
<1>6. PICK k \in 1 .. Len(cgraph) + 1, ph \in Phases : Segment(k, ph)
  BY <1>2 DEF Inv, GraphInv, SomeSegment
<1>7. InSegment(t, k, ph) /\ Len(cgraph) \in Nat
  BY <1>2, <1>6, GraphLength DEF Segment, Inv
<1>8. ph # "chunks" /\ Clear(1, k) /\ ~Leaving(t, k)
  BY <1>1, <1>2, <1>7 DEF InSegment, At, BlockedFor, Leaving, Before
<1>9. Pc'[t] = "head" /\ Node'[t] = 1 /\ UNCHANGED <<n_graph, graph, last_graph, chunk, work>>
  BY <1>3, <1>5 DEF Moves, Start, flags
<1>10. InSegment(t, k, ph)' /\ ~Leaving(t, k)'
  <2>1. Clear(1, k)'
    BY <1>8, <1>9 DEF Clear, graph
  <2> QED BY <1>8, <1>9, <2>1 DEF InSegment, Before, Leaving, At, BlockedFor
<1>11. SomeSegment'
  BY <1>1, <1>2, <1>5, <1>6, <1>8, <1>9, <1>10, PlainStep DEF graph
<1> QED BY <1>1, <1>2, <1>3, <1>5, <1>9, <1>11, Continue DEF graph, Inv, GraphInv

\* The loop over the nodes leads to the node of the segment, or to the last barrier.
LEMMA NodeLoopInv ==
  ASSUME Inv, Types', NEW t \in Threads, NodeLoop(t)
  PROVE  BarrierInv' /\ GraphInv'
<1>1. pc[t] = "head" /\ pc[t] \in Inside
  BY DEF NodeLoop, Inside
<1>2. t \in Active /\ Running /\ Pc[t] = pc[t] /\ Node[t] = node[t] /\ bpc[t] = "out"
  BY <1>1, InsideActive
<1>3. \/ /\ node[t] > Len(cgraph) \/ abort = node[t]
         /\ BarrierThen(t, "return") /\ UNCHANGED node
      \/ /\ ~(node[t] > Len(cgraph)) /\ abort # node[t] /\ cgraph[node[t]].op = "empty"
         /\ node' = [node EXCEPT ![t] = node[t] + 1] /\ UNCHANGED <<bvars, pc, next>>
      \/ /\ ~(node[t] > Len(cgraph)) /\ abort # node[t] /\ cgraph[node[t]].op # "empty"
         /\ Goto(t, "compute") /\ UNCHANGED <<bvars, next, node>>
  BY DEF NodeLoop
<1>4. UNCHANGED <<n_graph, abort, current_chunk, ec, cgraph, last_graph, chunk, work>>
  BY DEF NodeLoop, flags, graph, local
<1>5. Steps(t)
  <2>0. t \in DOMAIN pc /\ t \in DOMAIN bpc /\ t \in DOMAIN next
    BY DEF Inv, Types
  <2>1. CASE BarrierThen(t, "return") /\ UNCHANGED node
    BY <2>0, <2>1, <1>1, <1>4 DEF Steps, BarrierThen, CallBarrier, Goto
  <2>2. CASE node' = [node EXCEPT ![t] = node[t] + 1] /\ UNCHANGED <<bvars, pc, next>>
    BY <2>0, <2>2, <1>1, <1>2, <1>4 DEF Steps, bvars
  <2>3. CASE Goto(t, "compute") /\ UNCHANGED <<bvars, next, node>>
    BY <2>0, <2>3, <1>1, <1>2, <1>4 DEF Steps, bvars, Goto
  <2> QED BY <2>1, <2>2, <2>3, <1>3
<1>6. Moves(t) /\ BarrierInv'
  BY <1>5, StepView DEF Inv
<1>7. PICK k \in 1 .. Len(cgraph) + 1, ph \in Phases : Segment(k, ph)
  BY <1>2 DEF Inv, GraphInv, SomeSegment
<1>8. \/ ph # "chunks" /\ Node[t] \in 1 .. k /\ Clear(Node[t], k) /\ ~Leaving(t, k)
      \/ ph \in {"split", "chunks"} /\ k = Len(cgraph) /\ Node[t] = k + 1 /\ Leaving(t, k)
  BY <1>1, <1>2, <1>7, AtHead
<1>9. Reached(k, ph) /\ Len(cgraph) \in Nat
  BY <1>7, GraphLength DEF Segment, Inv
<1>10. \A i \in Int : Clear(i, k)' = Clear(i, k)
  BY <1>4 DEF Clear
<1>11. /\ InSegment(t, k, ph)' /\ (ph \in {"split", "chunks"} => (Leaving(t, k)' <=> Leaving(t, k))) /\ Pc'[t] # "chunks"
       /\ ph = "prep" => Pc'[t] # "barrier"
       /\ pc'[t] \in Inside
  <2>1. CASE /\ node[t] > Len(cgraph) \/ abort = node[t]
             /\ BarrierThen(t, "return") /\ UNCHANGED node
    <3>1. Pc'[t] = "barrier" /\ next'[t] = "return" /\ pc'[t] = "barrier"
      BY <2>1, <1>6 DEF BarrierThen, Goto, Moves, Inv, Types
    <3>2. CASE ph # "chunks" /\ Node[t] \in 1 .. k /\ Clear(Node[t], k) /\ ~Leaving(t, k)
      <4>1. Node[t] = k \/ (cgraph[Node[t]].op = "empty" /\ abort # Node[t] /\ Node[t] < k)
        BY <3>2 DEF Clear
      <4>2. ph = "end"
        BY <4>1, <3>2, <2>1, <1>2, <1>9 DEF Reached
      <4> QED BY <3>1, <4>2 DEF InSegment, BlockedFor, Inside
    <3>3. CASE ph \in {"split", "chunks"} /\ k = Len(cgraph) /\ Node[t] = k + 1 /\ Leaving(t, k)
      <4>1. Leaving(t, k)'
        BY <3>1, <3>3, <1>4 DEF Leaving, BlockedFor
      <4> QED BY <4>1, <3>1, <3>3 DEF InSegment, Inside
    <3> QED BY <3>2, <3>3, <1>8
  <2>2. CASE /\ ~(node[t] > Len(cgraph)) /\ abort # node[t] /\ cgraph[node[t]].op = "empty"
             /\ node' = [node EXCEPT ![t] = node[t] + 1] /\ UNCHANGED <<bvars, pc, next>>
    <3>1. Pc'[t] = "head" /\ Node'[t] = Node[t] + 1 /\ pc'[t] = "head"
      BY <2>2, <1>1, <1>2, <1>6 DEF Moves, Inv, Types
    <3>2. ph # "chunks" /\ Node[t] \in 1 .. k /\ Clear(Node[t], k) /\ ~Leaving(t, k)
      BY <1>8, <1>2, <1>9, <2>2
    <3>3. Node[t] < k
      BY <3>2, <2>2, <1>2, <1>9 DEF Reached, Phases
    <3>4. Clear(Node[t] + 1, k)
      BY <3>2, <3>3 DEF Clear
    <3>5. Before(t, k)' /\ ~Leaving(t, k)'
      BY <3>1, <3>2, <3>3, <3>4, <1>10 DEF Before, Leaving, At, BlockedFor
    <3> QED BY <3>1, <3>2, <3>5 DEF InSegment, Inside
  <2>3. CASE /\ ~(node[t] > Len(cgraph)) /\ abort # node[t] /\ cgraph[node[t]].op # "empty"
             /\ Goto(t, "compute") /\ UNCHANGED <<bvars, next, node>>
    <3>1. Pc'[t] = "compute" /\ Node'[t] = Node[t] /\ pc'[t] = "compute"
      BY <2>3, <1>2, <1>6 DEF Moves, Goto, Inv, Types
    <3>2. ph # "chunks" /\ Node[t] \in 1 .. k /\ Clear(Node[t], k) /\ ~Leaving(t, k)
      BY <1>8, <1>2, <1>9, <2>3
    <3>3. Node[t] = k
      BY <3>2, <2>3, <1>2 DEF Clear
    <3>4. ph # "end"
      BY <3>3, <2>3, <1>2, <1>9 DEF Reached
    <3>5. ~Leaving(t, k)'
      BY <3>1 DEF Leaving, At, BlockedFor
    <3> QED BY <3>1, <3>2, <3>3, <3>4, <3>5 DEF InSegment, At, Inside, Phases
  <2> QED BY <1>3, <2>1, <2>2, <2>3
<1>12. SomeSegment'
  BY <1>1, <1>2, <1>4, <1>6, <1>7, <1>11, PlainStep
<1> QED BY <1>1, <1>2, <1>4, <1>6, <1>11, <1>12, Continue DEF Inv, GraphInv

\* Behind a node every thread waits; the caller may ask to stop there.
LEMMA AfterInv ==
  ASSUME Inv, Types', NEW t \in Threads, NEW aborts \in BOOLEAN, After(t, aborts)
  PROVE  BarrierInv' /\ GraphInv'
<1>1. pc[t] = "after" /\ pc[t] \in Inside
  BY DEF After, Inside
<1>2. t \in Active /\ Running /\ Pc[t] = pc[t] /\ Node[t] = node[t] /\ bpc[t] = "out"
  BY <1>1, InsideActive
<1>3. \/ /\ node[t] < Len(cgraph) /\ BarrierThen(t, "next") /\ UNCHANGED node
      \/ /\ ~(node[t] < Len(cgraph)) /\ node' = [node EXCEPT ![t] = node[t] + 1]
         /\ Goto(t, "head") /\ UNCHANGED <<bvars, next>>
  BY DEF After
<1>4. /\ UNCHANGED <<n_graph, current_chunk, cgraph, last_graph, chunk, work>>
      /\ abort' = abort \/ abort' = node[t] + 1
      /\ (abort # -1 => ec = "aborted")'
  <2>1. (abort # -1 => ec = "aborted")
    BY DEF Inv, GraphInv
  <2>2. CASE aborts
    <3>1. abort' = node[t] + 1 /\ ec' = "aborted"
      BY <2>2 DEF After
    <3> QED BY <3>1 DEF After, flags, local
  <2>3. CASE ~aborts
    <3>1. abort' = abort /\ ec' = ec
      BY <2>3 DEF After
    <3>2. (abort # -1 => ec = "aborted")'
      BY <2>1, <3>1
    <3>3. UNCHANGED <<n_graph, current_chunk, cgraph, last_graph, chunk, work>>
      BY DEF After, flags, local
    <3> QED BY <3>1, <3>2, <3>3
  <2> QED BY <2>2, <2>3
<1>5. Steps(t)
  <2>0. t \in DOMAIN pc /\ t \in DOMAIN bpc /\ t \in DOMAIN next
    BY DEF Inv, Types
  <2>1. CASE BarrierThen(t, "next") /\ UNCHANGED node
    BY <2>0, <2>1, <1>1, <1>4 DEF Steps, BarrierThen, CallBarrier, Goto
  <2>2. CASE node' = [node EXCEPT ![t] = node[t] + 1] /\ Goto(t, "head") /\ UNCHANGED <<bvars, next>>
    BY <2>0, <2>2, <1>1, <1>2, <1>4 DEF Steps, bvars, Goto
  <2> QED BY <2>1, <2>2, <1>3
<1>6. Moves(t) /\ BarrierInv'
  BY <1>5, StepView DEF Inv
<1>7. PICK k \in 1 .. Len(cgraph) + 1, ph \in Phases : Segment(k, ph)
  BY <1>2 DEF Inv, GraphInv, SomeSegment
<1>8. InSegment(t, k, ph) /\ Len(cgraph) \in Nat /\ Reached(k, ph)
  BY <1>2, <1>7, GraphLength DEF Segment, Inv
<1>9. ph \in {"split", "chunks"} /\ Node[t] = k /\ Leaving(t, k)
  BY <1>1, <1>2, <1>8 DEF InSegment, Before, Entering, Away, At, BlockedFor, Leaving
<1>10. k <= Len(cgraph)
  BY <1>8, <1>9 DEF Reached
<1>11. pc'[t] \in Inside /\ Pc'[t] # "chunks" /\ Leaving(t, k)'
  <2>1. CASE node[t] < Len(cgraph) /\ BarrierThen(t, "next") /\ UNCHANGED node
    <3>1. Pc'[t] = "barrier" /\ next'[t] = "next" /\ pc'[t] = "barrier" /\ Node'[t] = k
      BY <2>1, <1>2, <1>6, <1>9 DEF BarrierThen, Goto, Moves, Inv, Types
    <3> QED BY <2>1, <3>1, <1>2, <1>4, <1>9 DEF Inside, Leaving, BlockedFor
  <2>2. CASE /\ ~(node[t] < Len(cgraph)) /\ node' = [node EXCEPT ![t] = node[t] + 1]
             /\ Goto(t, "head") /\ UNCHANGED <<bvars, next>>
    <3>1. Pc'[t] = "head" /\ pc'[t] = "head" /\ Node'[t] = k + 1
      BY <2>2, <1>2, <1>6, <1>9 DEF Goto, Moves, Inv, Types
    <3>2. k = Len(cgraph)
      BY <2>2, <1>2, <1>8, <1>9, <1>10
    <3> QED BY <3>1, <3>2, <1>4 DEF Inside, Leaving, At
  <2> QED BY <1>3, <2>1, <2>2
<1>12. InSegment(t, k, ph)'
  BY <1>9, <1>11 DEF InSegment
<1>13. abort' = abort \/ (abort' = k + 1 /\ ph # "end")
  BY <1>2, <1>4, <1>9
<1>14. SomeSegment'
  BY <1>1, <1>2, <1>4, <1>6, <1>7, <1>9, <1>11, <1>12, <1>13, PlainStep
<1> QED BY <1>1, <1>2, <1>4, <1>6, <1>11, <1>14, Continue

\* the segment after a step of t in it
LEMMA SegmentOf ==
  ASSUME Inv, Types', NEW t \in Active, NEW k \in 1 .. Len(cgraph) + 1, NEW ph \in Phases,
         Segment(k, ph), Moves(t), UNCHANGED <<n_graph, abort, cgraph>>,
         work' = work \/ \E c \in Nat : work' = work \union {<<k, c, t>>},
         InSegment(t, k, ph)',
         WorkOf(k, ph)'
  PROVE  SomeSegment'
<1>0. k \in Nat /\ t \in Threads /\ Len(cgraph) \in Nat /\ Types /\ Active \subseteq Threads
  BY GraphLength DEF Inv, Active
<1>1. Active' = Active
  BY DEF Active, nth
<1>2. \A u \in Active : InSegment(u, k, ph)'
  <2>1. ASSUME NEW u \in Active, u # t PROVE InSegment(u, k, ph)'
    <3>1. InSegment(u, k, ph)
      BY DEF Segment
    <3>2. Pc'[u] = Pc[u] /\ Node'[u] = Node[u] /\ next'[u] = next[u]
      BY <2>1, <1>0 DEF Moves
    <3> QED BY <3>1, <3>2, <1>0, Others
  <2> QED BY <2>1
<1>3. Reached(k, ph)'
  BY <1>0, ReachedKept DEF Segment
<1>4. \A i \in 1 .. k - 1 : \A c \in Nat, u \in Threads : <<i, c, u>> \in work' <=> <<i, c, u>> \in work
  BY <1>0
<1>5. DoneBefore(k)'
  BY <1>0, <1>4, DoneKept DEF Segment
<1>6. \A x \in work' : x[1] <= k
  BY <1>0 DEF Segment
<1>7. Segment(k, ph)'
  BY <1>1, <1>2, <1>3, <1>5, <1>6 DEF Segment
<1> QED BY <1>7 DEF SomeSegment

\* A thread that computes is at the node of the segment, in its phase.
LEMMA AtWork ==
  ASSUME NEW t \in Active, NEW k \in Nat, NEW ph \in Phases, Segment(k, ph), Pc[t] \in {"compute", "chunks"}
  PROVE  /\ Node[t] = k /\ ~Leaving(t, k) /\ k <= Len(cgraph)
         /\ Pc[t] = "compute" => ph = IF cgraph[k].op = "split" THEN "split" ELSE "prep"
         /\ Pc[t] = "chunks" => ph = "chunks"
<1>1. InSegment(t, k, ph) /\ Reached(k, ph)
  BY DEF Segment
<1>2. ~Leaving(t, k) /\ ~Before(t, k)
  BY DEF Leaving, At, BlockedFor, Before, Entering, Away
<1> QED BY <1>1, <1>2 DEF InSegment, At, BlockedFor, Reached

\* A thread computes its share of a node that is split.
LEMMA SplitInv ==
  ASSUME Inv, Types', NEW t \in Threads, Split(t)
  PROVE  BarrierInv' /\ GraphInv'
<1>1. pc[t] = "compute" /\ pc[t] \in Inside /\ cgraph[node[t]].op = "split" /\ "after" \in Inside
  BY DEF Split, Inside
<1>2. t \in Active /\ Running /\ Pc[t] = pc[t] /\ Node[t] = node[t] /\ bpc[t] = "out"
  BY <1>1, InsideActive
<1>3. /\ UNCHANGED <<n_graph, abort, current_chunk, ec, cgraph, last_graph, next, node, chunk>>
      /\ UNCHANGED bvars /\ pc' = [pc EXCEPT ![t] = "after"] /\ t \in DOMAIN pc
      /\ work' = work \union {<<node[t], t, t>>}
  BY DEF Split, flags, graph, local, place, Goto, Inv, Types
<1>4. Steps(t)
  BY <1>1, <1>2, <1>3 DEF Steps, bvars
<1>5. Moves(t) /\ BarrierInv'
  BY <1>4, StepView DEF Inv
<1>6. PICK k \in 1 .. Len(cgraph) + 1, ph \in Phases : Segment(k, ph)
  BY <1>2 DEF Inv, GraphInv, SomeSegment
<1>7. Len(cgraph) \in Nat /\ k \in Nat /\ t \in Nat
  BY <1>6, GraphLength DEF Inv, Threads
<1>8. ph = "split" /\ node[t] = k /\ ~Leaving(t, k)
  BY <1>1, <1>2, <1>6, <1>7, AtWork
<1>9. Pc'[t] = "after" /\ Node'[t] = k /\ pc'[t] = "after"
  BY <1>2, <1>3, <1>5, <1>8 DEF Moves
<1>10. Leaving(t, k)' /\ InSegment(t, k, ph)'
  BY <1>8, <1>9 DEF Leaving, At, InSegment
<1>11. \A u \in Threads \ {t} : Leaving(u, k)' <=> Leaving(u, k)
  BY <1>3, <1>5, <1>7, Others DEF Moves
<1>12. SplitWork(k)
  BY <1>6, <1>8 DEF Segment, WorkOf
<1>13. SplitWork(k)'
  <2>1. Active' = Active
    BY <1>3 DEF Active, nth
  <2>2. ASSUME NEW c \in Nat, NEW u \in Threads
        PROVE  <<k, c, u>> \in work' <=> c = u /\ u \in Active /\ Leaving(u, k)'
    <3>1. <<k, c, u>> \in work' <=> <<k, c, u>> \in work \/ (c = t /\ u = t)
      BY <1>3, <1>8
    <3>2. <<k, c, u>> \in work <=> c = u /\ u \in Active /\ Leaving(u, k)
      BY <1>12 DEF SplitWork
    <3> QED BY <3>1, <3>2, <1>2, <1>8, <1>10, <1>11
  <2> QED BY <2>1, <2>2 DEF SplitWork
<1>14. WorkOf(k, ph)'
  BY <1>8, <1>13 DEF WorkOf
<1>15. SomeSegment'
  BY <1>2, <1>3, <1>5, <1>6, <1>7, <1>8, <1>10, <1>14, SegmentOf
<1> QED BY <1>1, <1>2, <1>3, <1>5, <1>9, <1>15, Continue DEF Inv, GraphInv

\* A multiplication sets up the first chunks, and waits.
LEMMA MulMatInv ==
  ASSUME Inv, Types', NEW t \in Threads, MulMat(t)
  PROVE  BarrierInv' /\ GraphInv'
<1>1. pc[t] = "compute" /\ pc[t] \in Inside /\ cgraph[node[t]].op = "mul_mat" /\ "barrier" \in Inside
  BY DEF MulMat, Inside
<1>2. t \in Active /\ Running /\ Pc[t] = pc[t] /\ Node[t] = node[t] /\ bpc[t] = "out"
  BY <1>1, InsideActive
<1>3. /\ UNCHANGED <<n_graph, abort, ec, cgraph, last_graph, node, work>>
      /\ BarrierThen(t, "chunks")
      /\ current_chunk' = IF t = 0 THEN nth ELSE current_chunk
      /\ chunk' = [chunk EXCEPT ![t] = t]
  BY DEF MulMat, flags, local
<1>4. t \in DOMAIN pc /\ t \in DOMAIN bpc /\ t \in DOMAIN next /\ t \in DOMAIN chunk
  BY DEF Inv, Types
<1>5. pc'[t] = "barrier" /\ next'[t] = "chunks"
  BY <1>3, <1>4 DEF BarrierThen, Goto
<1>6. Steps(t)
  BY <1>1, <1>3, <1>4 DEF Steps, BarrierThen, CallBarrier, Goto
<1>7. Moves(t) /\ BarrierInv'
  BY <1>6, StepView DEF Inv
<1>8. PICK k \in 1 .. Len(cgraph) + 1, ph \in Phases : Segment(k, ph)
  BY <1>2 DEF Inv, GraphInv, SomeSegment
<1>9. Len(cgraph) \in Nat /\ k \in Nat
  BY <1>8, GraphLength DEF Inv
<1>10. ph = "prep" /\ node[t] = k
  BY <1>1, <1>2, <1>8, <1>9, AtWork
<1>11. Pc'[t] = "barrier" /\ Node'[t] = k
  BY <1>2, <1>3, <1>5, <1>7, <1>10 DEF Moves
<1>12. InSegment(t, k, ph)'
  BY <1>5, <1>10, <1>11 DEF BlockedFor, InSegment
<1>13. Unworked(k) /\ Prepared
  BY <1>8, <1>10 DEF Segment, WorkOf
<1>14. Unworked(k)' /\ Prepared'
  <2>1. Active' = Active /\ nth' = nth /\ Active \subseteq Threads
    BY <1>3 DEF Active, nth
  <2>2. ASSUME NEW u \in Active, Pc'[u] = "barrier" PROVE chunk'[u] = u /\ (u = 0 => current_chunk' = nth)
    <3>1. CASE u = t
      BY <3>1, <1>3, <1>4
    <3>2. CASE u # t
      <4>1. Pc[u] = "barrier" /\ chunk'[u] = chunk[u]
        BY <3>2, <2>1, <2>2, <1>3, <1>7 DEF Moves
      <4> QED BY <4>1, <3>2, <1>3, <1>13 DEF Prepared
    <3> QED BY <3>1, <3>2
  <2> QED BY <2>1, <2>2, <1>3, <1>13 DEF Prepared, Unworked
<1>15. WorkOf(k, ph)'
  BY <1>10, <1>14 DEF WorkOf
<1>16. SomeSegment'
  BY <1>2, <1>3, <1>7, <1>8, <1>12, <1>15, SegmentOf
<1> QED BY <1>1, <1>2, <1>3, <1>5, <1>7, <1>16, Continue DEF Inv, GraphInv

\* one round of thread t at node k: it computes its chunk, when there is one, and
\* leaves or takes the next one
Round(t, k) ==
  \/ /\ chunk[t] >= nchunk(k) /\ Pc'[t] = "after" /\ UNCHANGED <<current_chunk, chunk, work>>
  \/ /\ chunk[t] < nchunk(k) /\ work' = work \union {<<k, chunk[t], t>>}
     /\ nth >= nchunk(k) /\ Pc'[t] = "after" /\ UNCHANGED <<current_chunk, chunk>>
  \/ /\ chunk[t] < nchunk(k) /\ work' = work \union {<<k, chunk[t], t>>}
     /\ Pc'[t] = "chunks" /\ chunk' = [chunk EXCEPT ![t] = current_chunk] /\ current_chunk' = current_chunk + 1

\* One round of the loop over the chunks hands out each chunk once.
LEMMA RoundWork ==
  ASSUME Inv, NEW t \in Active, NEW k \in 1 .. Len(cgraph), ChunkWork(k), Pc[t] = "chunks", Moves(t),
         UNCHANGED <<n_graph, cgraph>>, Round(t, k),
         \A u \in Threads \ {t} : Leaving(u, k)' => Leaving(u, k), Pc'[t] = "chunks" => ~Leaving(t, k)'
  PROVE  ChunkWork(k)'
<1> DEFINE N == nchunk(k)
           cc == current_chunk
           b == chunk[t]
<1>1. N \in Nat /\ cc \in Nat /\ b \in Nat /\ nth \in Nat /\ t \in Threads /\ chunk \in [Threads -> Nat]
  <2>1. t \in Threads
    BY DEF Active
  <2>2. Types
    BY DEF Inv
  <2>3. N \in Nat
    BY <2>2, GraphType
  <2>4. cc \in Nat /\ chunk \in [Threads -> Nat] /\ nth \in 0 .. NThreads
    BY <2>2 DEF Types
  <2> QED BY <2>1, <2>3, <2>4, ThreadAssumption
<1>2. N' = N /\ nth' = nth /\ Active' = Active /\ Active \subseteq Threads
  BY DEF nchunk, nth, Active
<1>3. Holds(t, b)
  BY DEF Holds
<1>4. \A c \in Nat : Holds(t, c) <=> c = b
  BY DEF Holds
<1>5. \A u \in Threads \ {t}, c \in Nat : Holds(u, c)' <=> Holds(u, c)
  <2>1. \A u \in Threads \ {t} : chunk'[u] = chunk[u] /\ Pc'[u] = Pc[u]
    BY <1>1 DEF Round, Moves
  <2> QED BY <2>1, <1>2 DEF Holds
<1>6. /\ nth <= cc
      /\ \A u \in Threads, c \in Nat : Holds(u, c) => c < cc
      /\ \A u, v \in Threads, c \in Nat : Holds(u, c) /\ Holds(v, c) => u = v
      /\ \A u \in Threads, c \in Nat : <<k, c, u>> \in work =>
           /\ c < N /\ c < cc
           /\ \A v \in Threads : ~Holds(v, c) /\ (<<k, c, v>> \in work => v = u)
      /\ \A c \in Nat : c < N /\ c < cc =>
           \E u \in Threads : Holds(u, c) \/ <<k, c, u>> \in work
      /\ \A u \in Active : Leaving(u, k) => N <= cc
  BY DEF ChunkWork
<1>7. b < cc
  BY <1>1, <1>3, <1>6
<1>8. /\ cc' \in Nat /\ cc <= cc' /\ \A c \in Nat : ~Holds(t, c)' \/ (c = cc /\ cc' = cc + 1)
      /\ Pc'[t] = "chunks" => cc' = cc + 1 /\ \A c \in Nat : Holds(t, c)' <=> c = cc
      /\ b < N => work' = work \union {<<k, b, t>>}
      /\ b >= N => work' = work
      /\ Pc'[t] # "chunks" => N <= cc /\ cc' = cc
  <2>1. CASE chunk[t] >= nchunk(k) /\ Pc'[t] = "after" /\ UNCHANGED <<current_chunk, chunk, work>>
    BY <2>1, <1>1, <1>7 DEF Holds
  <2>2. CASE /\ chunk[t] < nchunk(k) /\ work' = work \union {<<k, chunk[t], t>>}
             /\ nth >= nchunk(k) /\ Pc'[t] = "after" /\ UNCHANGED <<current_chunk, chunk>>
    BY <2>2, <1>1, <1>6 DEF Holds
  <2>3. CASE /\ chunk[t] < nchunk(k) /\ work' = work \union {<<k, chunk[t], t>>}
             /\ Pc'[t] = "chunks" /\ chunk' = [chunk EXCEPT ![t] = current_chunk] /\ current_chunk' = current_chunk + 1
    <3>1. chunk'[t] = cc
      BY <2>3, <1>1
    <3> QED BY <2>3, <3>1, <1>1, <1>2 DEF Holds
  <2> QED BY <2>1, <2>2, <2>3 DEF Round
<1> HIDE DEF N, cc, b
<1>9. nth <= cc' /\ \A u \in Threads, c \in Nat : Holds(u, c)' => c < cc'
  <2>1. ASSUME NEW u \in Threads, NEW c \in Nat, Holds(u, c)' PROVE c < cc'
    <3>1. CASE u = t
      BY <3>1, <2>1, <1>1, <1>8
    <3>2. CASE u # t
      BY <3>2, <2>1, <1>1, <1>5, <1>6, <1>8
    <3> QED BY <3>1, <3>2
  <2> QED BY <2>1, <1>1, <1>6, <1>8
<1>10. ASSUME NEW u \in Threads, NEW v \in Threads, NEW c \in Nat, Holds(u, c)', Holds(v, c)' PROVE u = v
  <2>1. CASE u # t /\ v # t
    BY <2>1, <1>5, <1>6, <1>10
  <2>2. CASE u = t /\ v # t
    BY <2>2, <1>1, <1>5, <1>6, <1>8, <1>10
  <2>3. CASE u # t /\ v = t
    BY <2>3, <1>1, <1>5, <1>6, <1>8, <1>10
  <2> QED BY <2>1, <2>2, <2>3
<1>11. ASSUME NEW u \in Threads, NEW c \in Nat, <<k, c, u>> \in work'
       PROVE  /\ c < N /\ c < cc'
              /\ \A v \in Threads : ~Holds(v, c)' /\ (<<k, c, v>> \in work' => v = u)
  <2>1. CASE <<k, c, u>> \in work
    <3>1. c < N /\ c < cc /\ \A v \in Threads : ~Holds(v, c) /\ (<<k, c, v>> \in work => v = u)
      BY <2>1, <1>6
    <3>2. c # b
      BY <3>1, <1>1, <1>3
    <3>3. ASSUME NEW v \in Threads PROVE ~Holds(v, c)'
      <4>1. CASE v = t
        BY <4>1, <3>1, <1>1, <1>8
      <4>2. CASE v # t
        BY <4>2, <3>1, <1>5
      <4> QED BY <4>1, <4>2
    <3>4. ASSUME NEW v \in Threads, <<k, c, v>> \in work' PROVE v = u
      BY <3>1, <3>2, <3>4, <1>1, <1>8
    <3> QED BY <3>1, <3>3, <3>4, <1>1, <1>8
  <2>2. CASE <<k, c, u>> \notin work
    <3>1. c = b /\ u = t /\ b < N /\ work' = work \union {<<k, b, t>>}
      BY <2>2, <1>1, <1>8, <1>11
    <3>2. ASSUME NEW v \in Threads PROVE ~Holds(v, c)'
      <4>1. CASE v = t
        BY <4>1, <3>1, <1>1, <1>7, <1>8
      <4>2. CASE v # t
        <5>1. ~Holds(v, b)
          BY <4>2, <1>1, <1>3, <1>6
        <5> QED BY <5>1, <4>2, <3>1, <1>5
      <4> QED BY <4>1, <4>2
    <3>3. ASSUME NEW v \in Threads, <<k, c, v>> \in work' PROVE v = u
      <4>1. <<k, b, v>> \notin work
        BY <1>1, <1>3, <1>6
      <4> QED BY <4>1, <3>1, <3>3
    <3> QED BY <3>1, <3>2, <3>3, <1>1, <1>7, <1>8
  <2> QED BY <2>1, <2>2
<1>w. work \subseteq work'
  <2>1. b < N \/ b >= N
    BY <1>1
  <2> QED BY <2>1, <1>8
<1>12. ASSUME NEW c \in Nat, c < N, c < cc' PROVE \E u \in Threads : Holds(u, c)' \/ <<k, c, u>> \in work'
  <2>1. CASE c = b
    BY <2>1, <1>1, <1>8, <1>12
  <2>2. CASE c # b /\ c < cc
    <3>1. PICK u \in Threads : Holds(u, c) \/ <<k, c, u>> \in work
      BY <2>2, <1>6, <1>12
    <3>2. CASE Holds(u, c)
      BY <3>2, <2>2, <1>4, <1>5
    <3>3. CASE <<k, c, u>> \in work
      <4>1. <<k, c, u>> \in work'
        BY <3>3, <1>w
      <4> QED BY <4>1
    <3> QED BY <3>1, <3>2, <3>3
  <2>3. CASE ~(c < cc)
    <3>1. cc' # cc /\ c <= cc
      BY <2>3, <1>1, <1>8, <1>12
    <3>2. Pc'[t] = "chunks" /\ c = cc
      BY <2>3, <3>1, <1>1, <1>8
    <3> QED BY <3>2, <1>1, <1>8
  <2> QED BY <2>1, <2>2, <2>3
<1>13. ASSUME NEW u \in Active, Leaving(u, k)' PROVE N <= cc'
  <2>1. CASE u = t
    BY <2>1, <1>1, <1>8, <1>13
  <2>2. CASE u # t
    BY <2>2, <1>1, <1>2, <1>6, <1>8, <1>13
  <2> QED BY <2>1, <2>2
<1>14. nchunk(k)' = N /\ current_chunk' = cc'
  BY <1>2 DEF N, cc
<1> QED BY <1>2, <1>9, <1>10, <1>11, <1>12, <1>13, <1>14 DEF ChunkWork

\* The loop over the chunks stays in its segment.
LEMMA ChunkInv ==
  ASSUME Inv, Types', NEW t \in Threads, Chunk(t)
  PROVE  BarrierInv' /\ GraphInv'
<1>1. pc[t] = "chunks" /\ pc[t] \in Inside /\ "after" \in Inside /\ "chunks" \in Inside
  BY DEF Chunk, Inside
<1>2. t \in Active /\ Running /\ Pc[t] = pc[t] /\ Node[t] = node[t] /\ bpc[t] = "out"
  BY <1>1, InsideActive
<1>3. /\ UNCHANGED <<n_graph, abort, ec, cgraph, last_graph, node, next>> /\ UNCHANGED bvars
      /\ DOMAIN pc = Threads /\ chunk \in [Threads -> Nat]
  BY DEF Chunk, flags, local, Inv, Types
<1>4. \/ chunk[t] >= nchunk(node[t]) /\ Goto(t, "after") /\ UNCHANGED <<current_chunk, chunk, work>>
      \/ /\ ~(chunk[t] >= nchunk(node[t])) /\ work' = work \union {<<node[t], chunk[t], t>>}
         /\ nth >= nchunk(node[t]) /\ Goto(t, "after") /\ UNCHANGED <<current_chunk, chunk>>
      \/ /\ ~(chunk[t] >= nchunk(node[t])) /\ work' = work \union {<<node[t], chunk[t], t>>}
         /\ chunk' = [chunk EXCEPT ![t] = current_chunk] /\ current_chunk' = current_chunk + 1 /\ UNCHANGED pc
  BY DEF Chunk
<1>5. pc' = [pc EXCEPT ![t] = "after"] \/ pc' = pc
  BY <1>4 DEF Goto
<1>6. Steps(t)
  <2>1. pc'[t] # "barrier" /\ \A u \in Threads \ {t} : pc'[u] = pc[u]
    BY <1>1, <1>3, <1>5
  <2> QED BY <2>1, <1>1, <1>2, <1>3 DEF Steps, bvars
<1>7. Moves(t) /\ BarrierInv'
  BY <1>6, StepView DEF Inv
<1>8. PICK k \in 1 .. Len(cgraph) + 1, ph \in Phases : Segment(k, ph)
  BY <1>2 DEF Inv, GraphInv, SomeSegment
<1>9. Len(cgraph) \in Nat /\ k \in Nat
  BY <1>8, GraphLength DEF Inv
<1>10. ph = "chunks" /\ node[t] = k /\ k \in 1 .. Len(cgraph) /\ ~Leaving(t, k)
  BY <1>1, <1>2, <1>8, <1>9, AtWork
<1>11. Pc'[t] = pc'[t] /\ Node'[t] = k /\ pc'[t] \in {"after", "chunks"}
  BY <1>1, <1>2, <1>3, <1>5, <1>7, <1>10 DEF Moves
<1>12. nchunk(k) \in Nat /\ chunk[t] \in Nat
  BY <1>3, <1>10, GraphType DEF Inv
<1>13. Round(t, k)
  <2>1. CASE chunk[t] >= nchunk(node[t]) /\ Goto(t, "after") /\ UNCHANGED <<current_chunk, chunk, work>>
    <3>1. Pc'[t] = "after"
      BY <2>1, <1>3, <1>11 DEF Goto
    <3> QED BY <2>1, <3>1, <1>10 DEF Round
  <2>2. CASE /\ ~(chunk[t] >= nchunk(node[t])) /\ work' = work \union {<<node[t], chunk[t], t>>}
             /\ nth >= nchunk(node[t]) /\ Goto(t, "after") /\ UNCHANGED <<current_chunk, chunk>>
    <3>1. Pc'[t] = "after"
      BY <2>2, <1>3, <1>11 DEF Goto
    <3>2. chunk[t] < nchunk(k)
      BY <2>2, <1>10, <1>12
    <3> QED BY <2>2, <3>1, <3>2, <1>10 DEF Round
  <2>3. CASE /\ ~(chunk[t] >= nchunk(node[t])) /\ work' = work \union {<<node[t], chunk[t], t>>}
             /\ chunk' = [chunk EXCEPT ![t] = current_chunk] /\ current_chunk' = current_chunk + 1 /\ UNCHANGED pc
    <3>1. Pc'[t] = "chunks"
      BY <2>3, <1>1, <1>11
    <3>2. chunk[t] < nchunk(k)
      BY <2>3, <1>10, <1>12
    <3> QED BY <2>3, <3>1, <3>2, <1>10 DEF Round
  <2> QED BY <2>1, <2>2, <2>3, <1>4
<1>14. \A u \in Threads \ {t} : Leaving(u, k)' <=> Leaving(u, k)
  BY <1>3, <1>7, <1>9, Others DEF Moves
<1>15. Pc'[t] = "chunks" => ~Leaving(t, k)'
  BY DEF Leaving, At, BlockedFor
<1>16. ChunkWork(k)
  BY <1>8, <1>10 DEF Segment, WorkOf
<1>17. ChunkWork(k)'
  BY <1>1, <1>2, <1>3, <1>7, <1>10, <1>13, <1>14, <1>15, <1>16, RoundWork
<1>18. WorkOf(k, ph)'
  BY <1>10, <1>17 DEF WorkOf
<1>19. InSegment(t, k, ph)'
  BY <1>10, <1>11 DEF InSegment, Leaving, At
<1>20. work' = work \/ \E c \in Nat : work' = work \union {<<k, c, t>>}
  BY <1>4, <1>10, <1>12
<1>21. SomeSegment'
  BY <1>2, <1>3, <1>7, <1>8, <1>18, <1>19, <1>20, SegmentOf
<1> QED BY <1>1, <1>2, <1>3, <1>7, <1>11, <1>21, Continue DEF Inv, GraphInv
=============================================================================
