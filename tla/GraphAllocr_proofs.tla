------------------------- MODULE GraphAllocr_proofs -------------------------
(***************************************************************************)
(* The safety properties of ggml_gallocr, for any graphs, sizes and number *)
(* of chunks: the lemmas about the heap, with an allocator that was shown  *)
(* to keep its promises.                                                   *)
(***************************************************************************)
EXTENDS GraphAllocr, GraphHeap, DynTallocr_proofs, FiniteSetTheorems

(***************************************************************************)
(* The steps                                                               *)
(***************************************************************************)
\* A range of its own for t.
LEMMA NewHeap ==
  ASSUME TallocrWorks, IsGraph(graph), HeapOK(graph, hn, talloc), NEW t \in DOMAIN graph, ~Owner(hn, t), PlaceNew(t)
  PROVE  HeapOK(graph, hn', talloc')
<1> DEFINE n == get_alloc_size(t)
           r == alloc(talloc, n)
<1>1. Sized(graph)
  BY GraphSized
<1>2. n \in Nat /\ aligned(n) = Size(graph, t) /\ Size(graph, t) \in Nat /\ Size(graph, t) > 0
      /\ Size(graph, t) % Alignment = 0 /\ Size(graph, t) <= Endless
  BY <1>1 DEF Sized, Size, get_alloc_size
<1>3. AllocatorOK(talloc) /\ hn \in [DOMAIN graph -> Records]
  BY HeapParts
<1>4. r.addr # NoAddr /\ hn' = [hn EXCEPT ![t].allocated = TRUE, ![t].addr = r.addr] /\ talloc' = r.a
  BY DEF PlaceNew
<1>5. PICK k, off : r.addr = [chunk |-> k, offset |-> off]
  BY AllocAddr
<1> HIDE DEF n, r
<1>6. r.addr.chunk = k /\ r.addr.offset = off
  BY <1>5
<1>7. \/ TookRange(r.a, talloc, k, off, Size(graph, t))
      \/ /\ k = Len(talloc) + 1
         /\ TookRange(r.a, new_chunk(talloc, Size(graph, t)), k, off, Size(graph, t))
  <2>1. Allocator(talloc)
    BY <1>3 DEF AllocatorOK
  <2>2. \/ TookRange(r.a, talloc, r.addr.chunk, r.addr.offset, aligned(n))
        \/ /\ r.addr.chunk = Len(talloc) + 1
           /\ TookRange(r.a, new_chunk(talloc, aligned(n)), Len(talloc) + 1, r.addr.offset, aligned(n))
    <3>1. aligned(n) > 0 /\ aligned(n) <= Endless
      BY <1>2
    <3>2. Allocates(r, talloc, aligned(n))
      BY <1>2, <2>1, <3>1 DEF TallocrWorks, AllocWorks, r
    <3> QED
      BY <1>4, <3>2 DEF Allocates
  <2> QED
    BY <1>2, <1>6, <2>2
<1>8. ASSUME NEW a, HeapOK(graph, hn, a), TookRange(r.a, a, k, off, Size(graph, t))
      PROVE  HeapOK(graph, hn', r.a)
  <2>1. off \in Nat /\ k \in DOMAIN a
    BY <1>8 DEF TookRange
  <2>2. k \in Nat
    <3>1. DOMAIN a = 1 .. Len(a)
      BY <1>8, HeapParts, Marks
    <3> QED
      BY <2>1, <3>1
  <2>3. Given(graph, hn', hn, t, k, off)
    BY <1>3, <1>4, <1>5, <2>1, <2>2, GivenExcept
  <2> QED
    BY <1>1, <1>8, <2>3, HeapTaken
<1>9. HeapOK(graph, hn, new_chunk(talloc, Size(graph, t)))
  BY <1>1, <1>2, HeapGrown
<1> QED
  BY <1>4, <1>7, <1>8, <1>9

\* The source t is written over, if any: it is a source t may replace.
LEMMA InplaceSource ==
  ASSUME TallocrWorks, IsGraph(graph), NEW t \in DOMAIN graph, Inplace(t) # {}
  PROVE  LET j == Min(Inplace(t))
             p == graph[t].src[j]
         IN  /\ j \in DOMAIN graph[t].src /\ p \in DOMAIN graph /\ p < t /\ Owner(hn, p)
             /\ graph[t].op = "map" /\ ~graph[p].out /\ graph[p].nbytes = graph[t].nbytes
             /\ hn[p].n_children = 1 /\ hn[p].n_views = 0
<1> DEFINE j == Min(Inplace(t))
<1>1. DOMAIN graph[t].src = 1 .. Len(graph[t].src) /\ Len(graph[t].src) \in Nat
  BY GraphTypes
<1>2. Inplace(t) \in SUBSET Nat
  BY <1>1 DEF Inplace
<1>3. j \in Inplace(t)
  BY <1>2 DEF TallocrWorks, NumbersWork
<1> HIDE DEF j
<1>4. j \in DOMAIN graph[t].src
  BY <1>3 DEF Inplace
<1> DEFINE p == graph[t].src[j]
<1>5. p \in DOMAIN graph /\ p < t
  BY <1>4, GraphTypes
<1>6. /\ graph[t].op = "map" /\ hn[p].allocated /\ ~graph[p].out /\ graph[p].nbytes = graph[t].nbytes
      /\ hn[p].n_children = 1 /\ hn[p].n_views = 0
  BY <1>3 DEF Inplace
<1> QED
  BY <1>4, <1>5, <1>6 DEF j, Owner

\* Placing a tensor.
LEMMA AllocateHeap ==
  ASSUME TallocrWorks, IsGraph(graph), HeapOK(graph, hn, talloc), NEW t \in DOMAIN graph, allocate_node(t)
  PROVE  HeapOK(graph, hn', talloc')
<1>1. CASE UNCHANGED <<hn, talloc>>
  BY <1>1
<1>2. CASE ~Placed(t) /\ Inplace(t) # {} /\ PlaceOver(t, graph[t].src[Min(Inplace(t))])
  <2> DEFINE p == graph[t].src[Min(Inplace(t))]
  <2>1. p \in DOMAIN graph /\ p < t /\ Owner(hn, p)
    BY <1>2, InplaceSource
  <2>2. PlaceOver(t, p)
    BY <1>2
  <2> HIDE DEF p
  <2>3. ~Owner(hn, t) /\ t # p
    <3>1. t \in Nat /\ p \in Nat
      BY <2>1, GraphTypes
    <3> QED
      BY <1>2, <2>1, <3>1 DEF Placed, Owner
  <2>4. /\ get_alloc_size(p) >= get_alloc_size(t)
        /\ hn' = [hn EXCEPT ![t].allocated = TRUE, ![t].addr = hn[p].addr, ![p].allocated = FALSE]
        /\ talloc' = free_extra_space(talloc, hn[p].addr, get_alloc_size(p), get_alloc_size(t))
    BY <2>2 DEF PlaceOver
  <2>5. Passed(graph, hn', hn, t, p)
    <3>1. hn \in [DOMAIN graph -> Records]
      BY HeapParts
    <3> QED
      BY <2>1, <2>3, <2>4, <3>1, PassedExcept
  <2>6. Sized(graph)
    BY GraphSized
  <2> DEFINE np == get_alloc_size(p)
             nt == get_alloc_size(t)
  <2>7. /\ np = graph[p].nbytes + graph[p].extra /\ nt = graph[t].nbytes + graph[t].extra /\ nt <= np
        /\ talloc' = free_extra_space(talloc, hn[p].addr, np, nt)
    <3>1. np \in Nat /\ nt \in Nat
      BY <2>1, <2>6 DEF Sized, get_alloc_size
    <3>2. np >= nt
      BY <2>4
    <3> HIDE DEF np, nt
    <3>3. nt <= np
      BY <3>1, <3>2
    <3> QED
      BY <2>4, <3>3 DEF get_alloc_size, np, nt
  <2> HIDE DEF np, nt
  <2> QED
    BY <2>1, <2>3, <2>5, <2>6, <2>7, HeapPassed
<1>3. CASE ~Placed(t) /\ PlaceNew(t)
  <2>1. ~Owner(hn, t)
    BY <1>3 DEF Placed, Owner
  <2> QED
    BY <1>3, <2>1, NewHeap
<1> QED
  BY <1>1, <1>2, <1>3 DEF allocate_node

\* what update_parent makes of hash_values before it frees anything
Less(g, h, p) ==
  LET one == [h EXCEPT ![p].n_children = @ - 1]
  IN  IF one[p].n_children = 0 /\ one[p].n_views = 0 /\ Root(g, p) # p
      THEN [one EXCEPT ![Root(g, p)].n_views = @ - 1] ELSE one

\* update_parent counts, and frees the range of the root or nothing.
LEMMA UpdateCases ==
  ASSUME IsGraph(graph), hn \in [DOMAIN graph -> Records], NEW p \in DOMAIN graph, update_parent(p)
  PROVE  LET root == Root(graph, p)
             two == Less(graph, hn, p)
         IN  /\ root \in DOMAIN graph /\ SameBut(graph, two, hn, {})
             /\ \/ hn' = two /\ talloc' = talloc
                \/ /\ two[root].n_children = 0 /\ two[root].n_views = 0 /\ ~graph[root].out
                   /\ hn' = [two EXCEPT ![root].allocated = FALSE]
                   /\ Owner(hn, root) /\ talloc' = free_bytes(talloc, hn[root].addr, get_alloc_size(root))
<1> DEFINE root == Root(graph, p)
           one == [hn EXCEPT ![p].n_children = @ - 1]
           two == Less(graph, hn, p)
           none == one[p].n_children = 0 /\ one[p].n_views = 0
           freed == /\ none /\ two[root].n_children = 0 /\ two[root].n_views = 0
                    /\ two[root].allocated /\ ~graph[root].out
<1>1. root \in DOMAIN graph
  BY GraphTypes
<1>2. SameBut(graph, one, hn, {}) /\ one \in [DOMAIN graph -> Records]
  BY CounterExcept DEF SameBut
<1>3. two = IF none /\ root # p THEN [one EXCEPT ![root].n_views = @ - 1] ELSE one
  BY DEF Less
<1>4. /\ hn' = IF freed THEN [two EXCEPT ![root].allocated = FALSE] ELSE two
      /\ talloc' = IF freed THEN free_bytes(talloc, hn[root].addr, get_alloc_size(root)) ELSE talloc
  BY DEF update_parent, Less
<1> HIDE DEF one, two, root, none
<1>5. SameBut(graph, two, hn, {})
  <2>1. SameBut(graph, [one EXCEPT ![root].n_views = @ - 1], one, {})
    BY <1>1, <1>2, CounterExcept
  <2>2. SameBut(graph, [one EXCEPT ![root].n_views = @ - 1], hn, {})
    BY <1>2, <2>1, SameTwice
  <2> QED
    BY <1>2, <1>3, <2>2
<1>6. two[root].allocated = hn[root].allocated
  BY <1>1, <1>5 DEF SameBut
<1>7. CASE freed
  BY <1>1, <1>4, <1>5, <1>6, <1>7 DEF Owner, root, two
<1>8. CASE ~freed
  BY <1>1, <1>4, <1>5, <1>8 DEF root, two
<1> QED
  BY <1>7, <1>8

\* Updating a parent, as update_parent does, keeps the heap in order.
LEMMA UpdateHeap ==
  ASSUME TallocrWorks, IsGraph(graph), HeapOK(graph, hn, talloc), NEW p \in DOMAIN graph, update_parent(p)
  PROVE  HeapOK(graph, hn', talloc')
<1> DEFINE root == Root(graph, p)
           two == Less(graph, hn, p)
<1>1. Sized(graph) /\ hn \in [DOMAIN graph -> Records]
  BY GraphSized, HeapParts
<1>2. /\ root \in DOMAIN graph /\ SameBut(graph, two, hn, {})
      /\ \/ hn' = two /\ talloc' = talloc
         \/ /\ hn' = [two EXCEPT ![root].allocated = FALSE]
            /\ Owner(hn, root) /\ talloc' = free_bytes(talloc, hn[root].addr, get_alloc_size(root))
  BY <1>1, UpdateCases
<1> HIDE DEF root, two
<1>3. CASE hn' = two /\ talloc' = talloc
  BY <1>2, <1>3, HeapSame
<1>4. CASE /\ hn' = [two EXCEPT ![root].allocated = FALSE]
           /\ Owner(hn, root) /\ talloc' = free_bytes(talloc, hn[root].addr, get_alloc_size(root))
  <2>1. Dropped(graph, hn', hn, root)
    BY <1>2, <1>4, DroppedExcept
  <2>2. get_alloc_size(root) = graph[root].nbytes + graph[root].extra
    BY DEF get_alloc_size
  <2> QED
    BY <1>1, <1>2, <1>4, <2>1, <2>2, HeapFreed
<1> QED
  BY <1>2, <1>3, <1>4

\* The nodes are finite in number, and so are the uses of a tensor.
LEMMA CountedNumbers ==
  ASSUME IsGraph(graph)
  PROVE  Counted(graph) \in [DOMAIN graph -> Records]
<1>1. IsFiniteSet(DOMAIN graph)
  <2>1. DOMAIN graph = 1 .. Len(graph) /\ Len(graph) \in Int
    BY GraphTypes
  <2> QED
    BY <2>1, FS_Interval
<1>2. IsFiniteSet(Nodes(graph))
  BY <1>1, FS_Subset DEF Nodes
<1>3. IsFiniteSet(1 .. GGML_MAX_SRC)
  <2>1. GGML_MAX_SRC \in Int
    BY DEF GGML_MAX_SRC
  <2> QED
    BY <2>1, FS_Interval
<1>4. IsFiniteSet(Nodes(graph) \X (1 .. GGML_MAX_SRC))
  BY <1>2, <1>3, FS_Product
<1> DEFINE U(t) == {x \in Nodes(graph) \X (1 .. GGML_MAX_SRC) :
                      x[2] \in DOMAIN graph[x[1]].src /\ graph[x[1]].src[x[2]] = t}
           V(t) == {x \in Nodes(graph) : graph[x].view = t /\ graph[x].op # "none"}
<1>5. ASSUME NEW t \in DOMAIN graph PROVE Cardinality(U(t)) \in Int /\ Cardinality(V(t)) \in Int
  <2>1. U(t) \subseteq Nodes(graph) \X (1 .. GGML_MAX_SRC) /\ V(t) \subseteq Nodes(graph)
    OBVIOUS
  <2> HIDE DEF U, V
  <2>2. IsFiniteSet(U(t)) /\ IsFiniteSet(V(t))
    BY <1>2, <1>4, <2>1, FS_Subset
  <2>3. Cardinality(U(t)) \in Nat /\ Cardinality(V(t)) \in Nat
    BY <2>2, FS_CardinalityType
  <2> QED
    BY <2>3
<1>6. Counted(graph) = [t \in DOMAIN graph |-> [n_children |-> Cardinality(U(t)), n_views |-> Cardinality(V(t)),
                                          addr |-> NoAddr, allocated |-> FALSE]]
  BY DEF Counted
<1> HIDE DEF U, V
<1>7. NoAddr \in [chunk : Nat, offset : Nat]
  BY DEF NoAddr
<1> QED
  BY <1>5, <1>6, <1>7 DEF Records

\* Nothing is allocated at first.
LEMMA FirstHeap ==
  ASSUME IsGraph(graph)
  PROVE  HeapOK(graph, Counted(graph), << >>)
<1>1. Counted(graph) \in [DOMAIN graph -> Records]
  BY CountedNumbers
<1>2. \A t \in DOMAIN graph : ~Owner(Counted(graph), t) /\ Counted(graph)[t].addr = NoAddr
  BY DEF Counted, Owner
<1>3. AllocatorOK(<< >>)
  BY DEF AllocatorOK, Allocator, Units, Untouched
<1>4. OwnersOK(graph, Counted(graph), << >>)
  BY DEF OwnersOK
<1> QED
  BY <1>1, <1>2, <1>3, <1>4, HeapParts

(***************************************************************************)
(* The inductive invariant: outside of a reservation hash_values may be of *)
(* an earlier one, or there is none yet for this graph.                    *)
(***************************************************************************)
HeapInv ==
  /\ IsGraph(graph)
  /\ pc \in {"build", "leafs", "reserve", "init", "failed", "allocated"}
  /\ HeapOK(graph, hn, talloc) \/ (hn = << >> /\ talloc = << >> /\ pc \notin {"leafs", "reserve"})
  /\ pc = "build" => hn = << >> /\ talloc = << >>
  /\ pc \in {"leafs", "reserve"} => node \in Nat \ {0}
  /\ upd = 0 \/ (pc = "reserve" /\ node \in DOMAIN graph /\ upd \in DOMAIN graph[node].src)

\* the next source, or the next node
LEMMA ContinueInv ==
  ASSUME HeapInv, pc = "reserve", node \in DOMAIN graph, NEW j \in Nat \ {0}, Continue(j)
  PROVE  node' \in Nat \ {0} /\ (upd' = 0 \/ (node' \in DOMAIN graph /\ upd' \in DOMAIN graph[node'].src))
<1>1. IsGraph(graph)
  BY DEF HeapInv
<1>2. DOMAIN graph[node].src = 1 .. Len(graph[node].src) /\ Len(graph[node].src) \in Nat /\ node \in Nat \ {0}
  BY <1>1, GraphTypes
<1>3. CASE j <= Len(graph[node].src)
  <2>1. upd' = j /\ node' = node
    BY <1>3 DEF Continue
  <2>2. j \in DOMAIN graph[node].src
    BY <1>2, <1>3
  <2> QED
    BY <1>2, <2>1, <2>2
<1>4. CASE ~(j <= Len(graph[node].src))
  <2>1. upd' = 0 /\ node' = node + 1
    BY <1>4 DEF Continue
  <2> QED
    BY <1>2, <2>1
<1> QED
  BY <1>3, <1>4

\* ggml_gallocr_alloc_graph starts with an empty heap, or keeps the plan.
LEMMA HeapAllocGraph ==
  ASSUME TallocrWorks, HeapInv, AllocGraph
  PROVE  HeapInv'
<1>1. /\ IsGraph(graph) /\ graph' = graph /\ pc = "build" /\ hn = << >> /\ talloc = << >> /\ upd = 0 /\ upd' = upd
  BY DEF HeapInv, AllocGraph
<1>2. CASE needs_realloc
  <2>1. hn' = Counted(graph) /\ talloc' = << >> /\ node' = Min(Nodes(graph)) /\ pc' = "leafs"
    BY <1>2 DEF AllocGraph
  <2>2. HeapOK(graph, Counted(graph), << >>)
    BY <1>1, FirstHeap
  <2>3. node' \in Nat \ {0}
    <3>1. Nodes(graph) \in SUBSET (Nat \ {0}) /\ Nodes(graph) # {}
      BY <1>1, GraphTypes DEF Nodes, AllocGraph
    <3>2. Min(Nodes(graph)) \in Nodes(graph)
      BY <3>1 DEF TallocrWorks, NumbersWork
    <3> QED
      BY <2>1, <3>1, <3>2
  <2>4. HeapOK(graph', hn', talloc')
    BY <1>1, <2>1, <2>2
  <2>5. IsGraph(graph')
    BY <1>1
  <2> QED
    BY <1>1, <2>1, <2>3, <2>4, <2>5 DEF HeapInv
<1>3. CASE ~needs_realloc
  <2>1. hn' = hn /\ talloc' = talloc /\ node' = node /\ pc' = "init"
    BY <1>3 DEF AllocGraph
  <2>2. IsGraph(graph')
    BY <1>1
  <2> QED
    BY <1>1, <2>1, <2>2 DEF HeapInv
<1> QED
  BY <1>2, <1>3

\* the tensor to place exists
LEMMA FirstOpen ==
  ASSUME TallocrWorks, IsGraph(graph)
  PROVE  /\ \A S \in SUBSET DOMAIN graph : S # {} => Min(S) \in S /\ \A x \in S : Min(S) <= x
         /\ \A t \in DOMAIN graph : \A S \in SUBSET DOMAIN graph[t].src : S # {} => Min(S) \in S /\ \A x \in S : Min(S) <= x
<1>1. DOMAIN graph \in SUBSET Nat
  BY GraphTypes
<1>2. \A t \in DOMAIN graph : DOMAIN graph[t].src \in SUBSET Nat
  BY GraphTypes
<1>3. ASSUME NEW t \in DOMAIN graph, NEW S \in SUBSET DOMAIN graph[t].src, S # {} PROVE Min(S) \in S /\ \A x \in S : Min(S) <= x
  <2>1. S \in SUBSET Nat
    BY <1>2
  <2> QED
    BY <1>3, <2>1 DEF TallocrWorks, NumbersWork
<1>4. ASSUME NEW S \in SUBSET DOMAIN graph, S # {} PROVE Min(S) \in S /\ \A x \in S : Min(S) <= x
  <2>1. S \in SUBSET Nat
    BY <1>1
  <2> QED
    BY <1>4, <2>1 DEF TallocrWorks, NumbersWork
<1> QED
  BY <1>3, <1>4

\* Placing a leaf keeps the heap in order.
LEMMA HeapPlaceLeaf ==
  ASSUME TallocrWorks, HeapInv, PlaceLeaf
  PROVE  HeapInv'
<1> DEFINE open == {t \in LeafsOf(graph) : ~Placed(t)}
<1>1. /\ pc = "leafs" /\ IsGraph(graph) /\ HeapOK(graph, hn, talloc) /\ node \in Nat \ {0} /\ upd = 0
      /\ graph' = graph /\ node' = node /\ upd' = upd
  BY DEF HeapInv, PlaceLeaf
<1>2. CASE open # {}
  <2>1. open \in SUBSET DOMAIN graph
    BY DEF LeafsOf
  <2>2. Min(open) \in DOMAIN graph
    <3> HIDE DEF open
    <3> QED
      BY <1>1, <1>2, <2>1, FirstOpen
  <2>3. allocate_node(Min(open)) /\ pc' = pc
    BY <1>2 DEF PlaceLeaf
  <2> HIDE DEF open
  <2>4. HeapOK(graph, hn', talloc')
    BY <1>1, <2>2, <2>3, AllocateHeap
  <2>5. HeapOK(graph', hn', talloc') /\ IsGraph(graph')
    BY <1>1, <2>4
  <2> QED
    BY <1>1, <2>3, <2>5 DEF HeapInv
<1>3. CASE open = {}
  <2>1. pc' = "reserve" /\ hn' = hn /\ talloc' = talloc
    BY <1>3 DEF PlaceLeaf
  <2>2. HeapOK(graph', hn', talloc') /\ IsGraph(graph')
    BY <1>1, <2>1
  <2> QED
    BY <1>1, <2>1, <2>2 DEF HeapInv
<1> QED
  BY <1>2, <1>3

\* Placing a node, or a source of it before, keeps the heap in order.
LEMMA HeapPlaceNode ==
  ASSUME TallocrWorks, HeapInv, PlaceNode
  PROVE  HeapInv'
<1> DEFINE open == {j \in DOMAIN graph[node].src : ~Placed(graph[node].src[j])}
<1>1. /\ pc = "reserve" /\ IsGraph(graph) /\ HeapOK(graph, hn, talloc) /\ node \in Nat \ {0} /\ node <= Len(graph)
      /\ upd = 0 /\ graph' = graph /\ pc' = pc
  BY DEF HeapInv, PlaceNode
<1>2. node \in DOMAIN graph
  BY <1>1, GraphTypes
<1>3. CASE open # {}
  <2> DEFINE j == Min(open)
  <2>1. open \in SUBSET DOMAIN graph[node].src
    OBVIOUS
  <2>2. j \in DOMAIN graph[node].src
    <3> HIDE DEF open
    <3> QED
      BY <1>1, <1>2, <1>3, <2>1, FirstOpen
  <2>3. allocate_node(graph[node].src[j]) /\ node' = node /\ upd' = upd
    BY <1>3 DEF PlaceNode
  <2> HIDE DEF j
  <2>4. graph[node].src[j] \in DOMAIN graph
    BY <1>1, <1>2, <2>2, GraphTypes
  <2>5. HeapOK(graph, hn', talloc')
    BY <1>1, <2>3, <2>4, AllocateHeap
  <2>6. HeapOK(graph', hn', talloc') /\ IsGraph(graph')
    BY <1>1, <2>5
  <2> QED
    BY <1>1, <2>3, <2>6 DEF HeapInv
<1>4. CASE open = {}
  <2>1. allocate_node(node) /\ Continue(1)
    BY <1>4 DEF PlaceNode
  <2>2. HeapOK(graph, hn', talloc')
    BY <1>1, <1>2, <2>1, AllocateHeap
  <2>3. node' \in Nat \ {0} /\ (upd' = 0 \/ (node' \in DOMAIN graph /\ upd' \in DOMAIN graph[node'].src))
    BY <1>1, <1>2, <2>1, ContinueInv
  <2>4. HeapOK(graph', hn', talloc') /\ IsGraph(graph')
    BY <1>1, <2>2
  <2> QED
    BY <1>1, <2>3, <2>4 DEF HeapInv
<1> QED
  BY <1>3, <1>4

\* Updating the sources of a node keeps the heap in order.
LEMMA HeapUpdateParent ==
  ASSUME TallocrWorks, HeapInv, UpdateParent
  PROVE  HeapInv'
<1>1. /\ pc = "reserve" /\ IsGraph(graph) /\ HeapOK(graph, hn, talloc)
      /\ node \in DOMAIN graph /\ upd \in DOMAIN graph[node].src /\ graph' = graph /\ pc' = pc
      /\ update_parent(graph[node].src[upd]) /\ Continue(upd + 1)
  BY DEF HeapInv, UpdateParent
<1>2. graph[node].src[upd] \in DOMAIN graph /\ upd + 1 \in Nat \ {0}
  BY <1>1, GraphTypes
<1>3. HeapOK(graph, hn', talloc')
  BY <1>1, <1>2, UpdateHeap
<1>4. node' \in Nat \ {0} /\ (upd' = 0 \/ (node' \in DOMAIN graph /\ upd' \in DOMAIN graph[node'].src))
  BY <1>1, <1>2, ContinueInv
<1>5. HeapOK(graph', hn', talloc') /\ IsGraph(graph')
  BY <1>1, <1>3
<1> QED
  BY <1>1, <1>4, <1>5 DEF HeapInv

\* The other steps leave the heap alone, or forget it.
LEMMA HeapOther ==
  ASSUME HeapInv, AddNode \/ (\E got \in BOOLEAN : FinishReserve(got)) \/ InitTensors \/ NextGraph \/ UNCHANGED vars
  PROVE  HeapInv'
<1>1. CASE AddNode
  <2>1. /\ pc = "build" /\ hn = << >> /\ talloc = << >> /\ upd = 0
        /\ IsGraph(graph') /\ hn' = hn /\ talloc' = talloc /\ upd' = upd /\ pc' = pc
    BY <1>1 DEF HeapInv, AddNode, heap
  <2> QED
    BY <2>1 DEF HeapInv
<1>2. ASSUME NEW got \in BOOLEAN, FinishReserve(got) PROVE HeapInv'
  <2>1. /\ IsGraph(graph) /\ HeapOK(graph, hn, talloc) /\ graph' = graph /\ hn' = hn /\ talloc' = talloc /\ upd' = upd
        /\ pc' \in {"init", "failed"} /\ node \in Nat \ {0} /\ node > Len(graph)
        /\ upd = 0 \/ node \in DOMAIN graph
    BY <1>2 DEF HeapInv, FinishReserve, heap
  <2>2. upd = 0
    <3>1. DOMAIN graph = 1 .. Len(graph) /\ Len(graph) \in Nat
      BY <2>1, GraphTypes
    <3> QED
      BY <2>1, <3>1
  <2>3. HeapOK(graph', hn', talloc') /\ IsGraph(graph')
    BY <2>1
  <2> QED
    BY <2>1, <2>2, <2>3 DEF HeapInv
<1>3. CASE InitTensors
  <2>1. /\ IsGraph(graph) /\ pc = "init" /\ pc' = "allocated" /\ upd = 0
        /\ graph' = graph /\ hn' = hn /\ talloc' = talloc /\ upd' = upd
        /\ HeapOK(graph, hn, talloc) \/ (hn = << >> /\ talloc = << >>)
    BY <1>3 DEF HeapInv, InitTensors, heap
  <2>2. HeapOK(graph', hn', talloc') \/ (hn' = << >> /\ talloc' = << >>)
    BY <2>1
  <2>3. IsGraph(graph')
    BY <2>1
  <2> QED
    BY <2>1, <2>2, <2>3 DEF HeapInv
<1>4. CASE NextGraph
  <2>1. IsGraph(graph') /\ hn' = << >> /\ talloc' = << >> /\ upd' = 0 /\ pc' = "build"
    BY <1>4 DEF NextGraph
  <2> QED
    BY <2>1 DEF HeapInv
<1>5. CASE UNCHANGED vars
  <2>1. graph' = graph /\ hn' = hn /\ talloc' = talloc /\ node' = node /\ upd' = upd /\ pc' = pc
    BY <1>5 DEF vars, heap
  <2> QED
    BY <2>1 DEF HeapInv
<1> QED
  BY <1>1, <1>2, <1>3, <1>4, <1>5

\* The heap is in order in every state, for every graph, size and alignment
\* and any number of chunks.
THEOREM HeapCorrect == Spec => []HeapInv
<1>1. Init => HeapInv
  BY DEF Init, HeapInv
<1>2. HeapInv /\ [Next]_vars => HeapInv'
  BY TallocrCorrect, HeapAllocGraph, HeapPlaceLeaf, HeapPlaceNode, HeapUpdateParent, HeapOther DEF Next
<1> QED
  BY <1>1, <1>2, PTL DEF Spec

\* FreeListOK: whatever graphs are reserved, the free blocks of every chunk
\* stay sorted, not empty, aligned and apart, so that freeing always finds
\* the neighbours to join.
THEOREM FreeListCorrect == Spec => []FreeListOK
<1>1. HeapInv => FreeListOK
  <2>1. HeapOK(graph, hn, talloc) => BlocksOK(talloc)
    BY HeapParts, BlocksAligned
  <2>2. talloc = << >> => BlocksOK(talloc)
    BY DEF BlocksOK
  <2> QED
    BY <2>1, <2>2 DEF HeapInv, FreeListOK
<1> QED
  BY <1>1, HeapCorrect, PTL

\* EachByteOnce: whatever graphs are reserved, an address below the
\* high-water mark of its chunk is free, or exactly one tensor owns it.
THEOREM EachByteOnceCorrect == Spec => []EachByteOnce
<1>1. ASSUME IsGraph(graph), HeapOK(graph, hn, talloc) PROVE EachByteOnce
  <2> SUFFICES ASSUME NEW c \in DOMAIN talloc, NEW o \in 0 .. talloc[c].max_size - 1
               PROVE  Cardinality({t \in DOMAIN hn : hn[t].allocated /\ <<c, o>> \in RangeOf(hn[t].addr, aligned(get_alloc_size(t)))})
                        = IF FreeAt(talloc, <<c, o>>) THEN 0 ELSE 1
    BY DEF EachByteOnce
  <2> DEFINE S == {t \in DOMAIN hn : hn[t].allocated /\ <<c, o>> \in RangeOf(hn[t].addr, aligned(get_alloc_size(t)))}
  <2>1. AllocatorOK(talloc) /\ OwnersOK(graph, hn, talloc) /\ hn \in [DOMAIN graph -> Records] /\ Sized(graph)
    BY <1>1, TallocrCorrect, HeapParts, GraphSized
  <2>2. o \in Nat /\ o < talloc[c].max_size
    <3>1. talloc[c].max_size \in Nat
      BY <2>1, Marks
    <3> QED
      BY <3>1
  <2>3. ASSUME NEW t \in DOMAIN graph PROVE t \in S <=> Owns(graph, hn, t, c, o)
    <3> DEFINE d == hn[t].addr
               n == Size(graph, t)
    <3>1. d \in [chunk : Nat, offset : Nat] /\ n \in Nat
      BY <1>1, <2>1, HasAddress
    <3>2. aligned(get_alloc_size(t)) = n
      BY DEF Size, get_alloc_size
    <3> HIDE DEF d, n
    <3>3. <<c, o>> \in RangeOf(d, n) <=> InRange(d, n, c, o)
      <4>1. d.chunk \in Nat /\ d.offset \in Nat
        BY <3>1
      <4>2. <<c, o>> \in RangeOf(d, n) <=> d.chunk = c /\ o \in d.offset .. d.offset + n - 1
        BY DEF RangeOf
      <4>3. o \in d.offset .. d.offset + n - 1 <=> d.offset <= o /\ o < d.offset + n
        BY <2>2, <3>1, <4>1
      <4> QED
        BY <4>2, <4>3 DEF InRange
    <3>4. DOMAIN hn = DOMAIN graph
      BY <2>1
    <3> QED
      BY <3>2, <3>3, <3>4 DEF Owns, d, n
  <2>4. S \subseteq DOMAIN graph
    BY <2>1
  <2> HIDE DEF S
  <2>5. CASE FreeAt(talloc, <<c, o>>)
    <3>1. S = {}
      BY <2>1, <2>2, <2>3, <2>4, <2>5 DEF OwnersOK
    <3> QED
      BY <2>5, <3>1, FS_EmptySet DEF S
  <2>6. CASE ~FreeAt(talloc, <<c, o>>)
    <3>1. PICK t \in DOMAIN graph : Owns(graph, hn, t, c, o)
      BY <2>1, <2>2, <2>6 DEF OwnersOK
    <3>2. S = {t}
      BY <2>1, <2>2, <2>3, <2>4, <3>1 DEF OwnersOK
    <3>3. Cardinality(S) = 1
      BY <3>2, FS_Singleton
    <3> QED
      BY <2>6, <3>3 DEF S
  <2> QED
    BY <2>5, <2>6
<1>2. talloc = << >> => EachByteOnce
  BY DEF EachByteOnce
<1>3. HeapInv => EachByteOnce
  BY <1>1, <1>2 DEF HeapInv
<1> QED
  BY <1>3, HeapCorrect, PTL
=============================================================================
