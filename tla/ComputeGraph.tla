---------------------------- MODULE ComputeGraph ----------------------------
(***************************************************************************)
(* A compute graph as ggml_gallocr sees it: the tensors in the order in    *)
(* which ggml_build_forward_expand leaves them, leafs first and sources    *)
(* before their node.  op is "leaf", "map" for what ggml_op_can_inplace    *)
(* names, "other", "view", or "none" for the nodes ggml-backend adds to    *)
(* keep their source.  A view is of no view; ext: the tensor has its       *)
(* memory already.                                                         *)
(***************************************************************************)
EXTENDS DynTallocr

Tensor(op, src, view, nbytes, extra, out) ==
  [op |-> op, src |-> src, view |-> view, nbytes |-> nbytes, extra |-> extra, ext |-> FALSE, out |-> out]

Root(g, t) == IF g[t].view = 0 THEN t ELSE g[t].view

Nodes(g) == {t \in DOMAIN g : g[t].op # "leaf"}

LeafsOf(g) == DOMAIN g \ Nodes(g)

Used(g, t) == \E n \in Nodes(g) : \E j \in DOMAIN g[n].src : g[n].src[j] = t

GGML_MAX_SRC == 10

\* no tensor is empty
Tensors == [op : {"leaf", "map", "other", "view", "none"}, src : Seq(Nat \ {0}), view : Nat,
            nbytes : Nat \ {0}, extra : Nat, ext : BOOLEAN, out : BOOLEAN]

IsGraph(g) ==
  /\ g \in Seq(Tensors)
  /\ \A t \in DOMAIN g :
       /\ Len(g[t].src) <= GGML_MAX_SRC /\ aligned(g[t].nbytes + g[t].extra) <= Endless
       /\ g[t].view < t /\ (g[t].view # 0 => g[g[t].view].view = 0)
       /\ \A j \in DOMAIN g[t].src : g[t].src[j] < t /\ g[g[t].src[j]].op # "none"
       /\ g[t].op = "leaf" => g[t].view = 0 /\ g[t].src = << >> /\ \A n \in Nodes(g) : t < n

\* the counts of children and views
Counted(g) == [t \in DOMAIN g |->
  [n_children |-> Cardinality({x \in Nodes(g) \X (1 .. GGML_MAX_SRC) :
                               x[2] \in DOMAIN g[x[1]].src /\ g[x[1]].src[x[2]] = t}),
   n_views    |-> Cardinality({x \in Nodes(g) : g[x].view = t /\ g[x].op # "none"}),
   addr |-> NoAddr, allocated |-> FALSE]]

\* the tensors that need a place of their own
Own(g) == {t \in DOMAIN g : g[t].view = 0 /\ ~g[t].ext}

\* the nodes that read t or a view of it, and the last time t is needed
Readers(g, t) == {n \in Nodes(g) : \E j \in DOMAIN g[n].src : Root(g, g[n].src[j]) = t}

LastUse(g, t) == IF \E v \in DOMAIN g : Root(g, v) = t /\ g[v].out THEN Len(g) + 1 ELSE Max(Readers(g, t) \union {t})
=============================================================================
