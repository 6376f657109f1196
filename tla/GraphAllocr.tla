----------------------------- MODULE GraphAllocr -----------------------------
(***************************************************************************)
(* ggml_gallocr: gives every tensor of a compute graph a place in one      *)
(* buffer.  A tensor's place is used again when all its children and views *)
(* have been computed; some operations write over a source.  The plan of   *)
(* the last graph that was reserved is used for every graph it still fits. *)
(*   graph    the tensors, leafs first; src and view name tensors in it    *)
(*   hn       hash_values: per tensor its children and views still to      *)
(*            come, its address and whether the allocator owns it          *)
(*   talloc   the ggml_dyn_tallocr                                         *)
(*   node     the node to place           upd    its source to update next, *)
(*            0 until the node is placed                                   *)
(*   plan     node_allocs and leaf_allocs buffer  chunk sizes, if any      *)
(*   data     where the tensors of the present graph are                   *)
(*   pc       what the caller or ggml_gallocr_alloc_graph does             *)
(***************************************************************************)
EXTENDS ComputeGraph

CONSTANTS Leafs,        \* the leafs of the graphs
          NewTensor(_), \* the nodes a caller may add to a graph
          Resizes,      \* how the sizes of a graph may change for another batch
          MaxGraphs,    \* graphs to allocate
          LooseLeafs,   \* whether a leaf may be in the graph without being used
          AnyTopology,  \* whether a later graph may have other nodes
          Retry         \* whether the caller goes on when no buffer could be had

VARIABLES graph, hn, talloc, node, upd, plan, buffer, data, pc, graphs

heap == <<hn, talloc, node, upd>>
vars == <<graph, heap, plan, buffer, data, pc, graphs>>

NoPlan == [leafs |-> {}, dst |-> << >>, src |-> << >>]

\* every tensor is used or output
Expanded(g) ==
  \A t \in DOMAIN g : Used(g, t) \/ (IF g[t].op = "leaf" THEN LooseLeafs ELSE g[t].out \/ g[t].op = "none")

Init == /\ graph \in {g \in Leafs : IsGraph(g)}
        /\ hn = << >> /\ talloc = << >> /\ node = 0 /\ upd = 0
        /\ plan = NoPlan /\ buffer = << >> /\ data = << >> /\ pc = "build" /\ graphs = 0

AddNode ==
  /\ pc = "build"
  /\ \E t \in NewTensor(graph) : graph' = Append(graph, t) /\ t.op # "leaf"
  /\ IsGraph(graph')
  /\ UNCHANGED <<heap, plan, buffer, data, pc, graphs>>

(***************************************************************************)
(* Placing a tensor                                                        *)
(***************************************************************************)
get_alloc_size(t) == graph[t].nbytes + graph[t].extra

\* Mutant: a source with views still to be read.
Inplace_viewed(t) ==
  {j \in DOMAIN graph[t].src : LET p == graph[t].src[j] IN
    /\ graph[t].op = "map" /\ hn[p].allocated
    /\ ~graph[p].out /\ graph[p].nbytes = graph[t].nbytes
    /\ hn[p].n_children = 1}

\* a source that t may be written over: the first own one with this layout
\* that nobody else needs; views are never own
Inplace(t) ==
  {j \in DOMAIN graph[t].src : LET p == graph[t].src[j] IN
    /\ graph[t].op = "map" /\ hn[p].allocated
    /\ ~graph[p].out /\ graph[p].nbytes = graph[t].nbytes
    /\ hn[p].n_children = 1 /\ hn[p].n_views = 0}

\* t needs no range: it has its memory, or one already, or is a view
Placed(t) == graph[t].ext \/ hn[t].allocated \/ graph[t].view # 0

\* t is written over its source p; an assertion says that p is no smaller
PlaceOver(t, p) ==
  /\ get_alloc_size(p) >= get_alloc_size(t)
  /\ hn' = [hn EXCEPT ![t].allocated = TRUE, ![t].addr = hn[p].addr, ![p].allocated = FALSE]
  /\ talloc' = free_extra_space(talloc, hn[p].addr, get_alloc_size(p), get_alloc_size(t))

\* t gets a range of its own; the process aborts when there is none
PlaceNew(t) ==
  LET new == alloc(talloc, get_alloc_size(t))
  IN  /\ new.addr # NoAddr
      /\ hn' = [hn EXCEPT ![t].allocated = TRUE, ![t].addr = new.addr]
      /\ talloc' = new.a

allocate_node(t) ==
  \/ Placed(t) /\ UNCHANGED <<hn, talloc>>
  \/ ~Placed(t) /\ Inplace(t) # {} /\ PlaceOver(t, graph[t].src[Min(Inplace(t))])
  \/ ~Placed(t) /\ Inplace(t) = {} /\ PlaceNew(t)

\* parent p has one child less; an own tensor without children and views is
\* freed, unless it is an output
update_parent(p) ==
  LET one   == [hn EXCEPT ![p].n_children = @ - 1]
      root  == Root(graph, p)
      gone(h, t) == h[t].n_children = 0 /\ h[t].n_views = 0
      two   == IF gone(one, p) /\ root # p THEN [one EXCEPT ![root].n_views = @ - 1] ELSE one
      freed == gone(one, p) /\ gone(two, root) /\ two[root].allocated /\ ~graph[root].out
  IN  /\ hn' = IF freed THEN [two EXCEPT ![root].allocated = FALSE] ELSE two
      /\ talloc' = IF freed THEN free_bytes(talloc, hn[root].addr, get_alloc_size(root)) ELSE talloc

(***************************************************************************)
(* ggml_gallocr_alloc_graph.  A plan holds for a graph with as many nodes  *)
(* and leafs if no node and no source of a node is larger than it was.     *)
(***************************************************************************)
Planned(t) == [own |-> graph[t].view = 0 /\ ~graph[t].ext, addr |-> hn[t].addr,
               size_max |-> IF graph[t].view = 0 /\ ~graph[t].ext THEN get_alloc_size(t) ELSE 0]

fits(t, p) == graph[t].ext \/ graph[t].view # 0 \/ (p.own /\ p.size_max >= get_alloc_size(t))

\* Mutant: the sources, and with them the leafs, are not looked at.
needs_realloc_nodes ==
  \/ Len(plan.dst) # Len(graph) \/ plan.leafs # LeafsOf(graph)
  \/ \E t \in Nodes(graph) : ~fits(t, plan.dst[t])

\* what the plan says of the j-th source of t: nothing when t had none there
SourcePlan(t, j) ==
  IF j \in DOMAIN plan.src[t] THEN plan.src[t][j] ELSE [own |-> FALSE, addr |-> NoAddr, size_max |-> 0]

needs_realloc ==
  \/ Len(plan.dst) # Len(graph) \/ plan.leafs # LeafsOf(graph)
  \/ \E t \in Nodes(graph) :
       \/ ~fits(t, plan.dst[t])
       \/ \E j \in DOMAIN graph[t].src : ~fits(graph[t].src[j], SourcePlan(t, j))

\* ggml_gallocr_reserve starts anew when there is no plan for the graph
AllocGraph ==
  /\ pc = "build" /\ Nodes(graph) # {} /\ Expanded(graph)
  /\ IF needs_realloc
      THEN hn' = Counted(graph) /\ talloc' = << >> /\ node' = Min(Nodes(graph)) /\ pc' = "leafs"
      ELSE pc' = "init" /\ UNCHANGED <<hn, talloc, node>>
  /\ graphs' = graphs + 1
  /\ UNCHANGED <<graph, upd, plan, buffer, data>>

\* the leafs are placed one after the other
PlaceLeaf ==
  LET open == {t \in LeafsOf(graph) : ~Placed(t)}
  IN  /\ pc = "leafs"
      /\ IF open # {} THEN allocate_node(Min(open)) /\ UNCHANGED pc
                      ELSE pc' = "reserve" /\ UNCHANGED <<hn, talloc>>
      /\ UNCHANGED <<graph, node, upd, plan, buffer, data, graphs>>

\* the sources of the node from the j-th on are still to update
Continue(j) == IF j <= Len(graph[node].src) THEN upd' = j /\ UNCHANGED node ELSE upd' = 0 /\ node' = node + 1

\* the node is placed, before it any of its sources that is not
PlaceNode ==
  LET open == {j \in DOMAIN graph[node].src : ~Placed(graph[node].src[j])}
  IN  /\ pc = "reserve" /\ node <= Len(graph) /\ upd = 0
      /\ IF open # {} THEN allocate_node(graph[node].src[Min(open)]) /\ UNCHANGED <<node, upd>>
                      ELSE allocate_node(node) /\ Continue(1)
      /\ UNCHANGED <<graph, plan, buffer, data, pc, graphs>>

\* then its sources are updated one after the other
UpdateParent ==
  /\ pc = "reserve" /\ upd # 0
  /\ update_parent(graph[node].src[upd]) /\ Continue(upd + 1)
  /\ UNCHANGED <<graph, plan, buffer, data, pc, graphs>>

chunk_size(c) == IF c \in DOMAIN buffer THEN buffer[c] ELSE 0

\* the plan is kept, the buffer is replaced when a chunk has become too small
FinishReserve(got) ==
  LET sizes == [c \in DOMAIN talloc |-> talloc[c].max_size]
      small == buffer = << >> \/ \E c \in DOMAIN sizes : sizes[c] > chunk_size(c)
  IN  /\ pc = "reserve" /\ node > Len(graph) /\ (got \/ small)
      /\ plan' = [leafs |-> LeafsOf(graph), dst |-> [t \in DOMAIN graph |-> Planned(t)],
                  src |-> [t \in DOMAIN graph |-> [j \in DOMAIN graph[t].src |-> Planned(graph[t].src[j])]]]
      /\ buffer' = IF ~small THEN buffer ELSE IF got THEN sizes ELSE << >>
      /\ pc' = IF got THEN "init" ELSE "failed"
      /\ UNCHANGED <<graph, heap, data, graphs>>

\* ggml_gallocr_init_tensor for every tensor; a view is where its root is
InitTensors ==
  /\ pc = "init"
  /\ data' = [t \in DOMAIN graph |-> plan.dst[Root(graph, t)].addr]
  /\ pc' = "allocated"
  /\ UNCHANGED <<graph, heap, plan, buffer, graphs>>

\* the same graph for another batch: every size becomes some other size
Resized(f) == [t \in DOMAIN graph |-> [graph[t] EXCEPT !.nbytes = f[@]]]

NextGraph ==
  /\ graphs < MaxGraphs
  /\ pc = "allocated" \/ (pc = "failed" /\ Retry)
  /\ graph' \in IF AnyTopology THEN Leafs ELSE {Resized(f) : f \in Resizes}
  /\ IsGraph(graph')
  /\ hn' = << >> /\ talloc' = << >> /\ node' = 0 /\ upd' = 0 /\ data' = << >>
  /\ pc' = "build"
  /\ UNCHANGED <<plan, buffer, graphs>>

Next == \/ AddNode \/ AllocGraph \/ PlaceLeaf \/ PlaceNode \/ UpdateParent \/ \E got \in BOOLEAN : FinishReserve(got)
        \/ InitTensors \/ NextGraph

Spec == Init /\ [][Next]_vars

(***************************************************************************)
(* Properties                                                              *)
(***************************************************************************)
\* The free blocks are sorted, apart and aligned.
FreeListOK == BlocksOK(talloc)

\* Every address below a chunk's high-water mark is either free or belongs to
\* exactly one tensor the allocator still owns: nothing is handed out twice,
\* freed twice, or lost.
EachByteOnce ==
  \A c \in DOMAIN talloc : \A o \in 0 .. talloc[c].max_size - 1 :
    Cardinality({t \in DOMAIN hn : hn[t].allocated /\ <<c, o>> \in RangeOf(hn[t].addr, aligned(get_alloc_size(t)))})
      = IF FreeAt(talloc, <<c, o>>) THEN 0 ELSE 1

Bytes(t) == RangeOf(data[t], graph[t].nbytes)

\* No node is written over a tensor that is still to be read, or over an
\* output; only a node that works element by element is written exactly over
\* a source it is the last to read.
ValuesKept ==
  pc = "allocated" =>
    \A t, w \in Own(graph) : t < w =>
      \/ w > LastUse(graph, t)
      \/ Bytes(t) \intersect Bytes(w) = {}
      \/ /\ w = LastUse(graph, t) /\ graph[w].op = "map"
         /\ data[t] = data[w] /\ graph[t].nbytes = graph[w].nbytes

\* Whether the plan is new or an old one is kept, every tensor lies in a chunk of
\* the buffer there is, with what the backend needs beyond its data.
InsideBuffer ==
  pc = "allocated" =>
    \A t \in Own(graph) : /\ data[t].chunk \in DOMAIN buffer
                           /\ data[t].offset + get_alloc_size(t) <= buffer[data[t].chunk]
=============================================================================
