---------------------------- MODULE MCGraphAllocr ----------------------------
(***************************************************************************)
(* Graphs of three and of four nodes.  A tensor takes one or two aligned   *)
(* units, with or without one more for the backend; chunks hold three.     *)
(***************************************************************************)
EXTENDS GraphAllocr

Leaf(n, ext) == [Tensor("leaf", << >>, 0, n, 0, FALSE) EXCEPT !.ext = ext]

Readable(g) == {t \in DOMAIN g : g[t].op # "none"}

\* the same source twice only in graphs without a weight
Sources(g) == {<<t>> : t \in Readable(g)}
              \union {s \in Readable(g) \X Readable(g) : s[1] # s[2] \/ \A t \in DOMAIN g : ~g[t].ext}

Maps(g, outs) == {Tensor("map", s, 0, g[s[1]].nbytes, 0, o) : s \in Sources(g), o \in outs}

\* sizes: pairs of nbytes and extra
Others(g, sizes, outs) == {Tensor("other", s, 0, n[1], n[2], o) : s \in Sources(g), n \in sizes, o \in outs}

Views(g, ops) == {Tensor(op, <<t>>, Root(g, t), g[t].nbytes, 0, FALSE) : op \in ops, t \in Readable(g)}

\* outputs on the way, extra memory, dependencies, two inputs
Three(g) ==
  CASE Len(g) = 2 -> Maps(g, {FALSE}) \union Others(g, {<<3, 2>>}, {FALSE}) \union Views(g, {"view", "none"})
    [] Len(g) = 3 -> Maps(g, BOOLEAN) \union Others(g, {<<3, 0>>}, BOOLEAN) \union Views(g, {"view", "none"})
    [] Len(g) = 4 -> {t \in Maps(g, {TRUE}) \union Others(g, {<<1, 0>>}, {TRUE}) : Expanded(Append(g, t))}
    [] OTHER -> {}

\* one input and one weight that has its memory already
Four(g) ==
  CASE Len(g) < 5 -> Maps(g, {FALSE}) \union Others(g, {<<3, 0>>}, {FALSE}) \union Views(g, {"view"})
    [] Len(g) = 5 -> {t \in Maps(g, {TRUE}) : Expanded(Append(g, t))}
    [] OTHER -> {}

MCLeafs == {<<Leaf(3, FALSE), Leaf(1, FALSE)>>, <<Leaf(3, FALSE), Leaf(3, TRUE)>>}

MCNewTensor(g) == IF g[2].ext THEN Four(g) ELSE Three(g)

\* two to four nodes of one size over one input
MCInput == {<<Leaf(3, FALSE)>>}

MCPlain(g) == IF Len(g) < 5 THEN Others(g, {<<3, 0>>}, {Len(g) >= 3}) ELSE {}

\* views that are outputs and are read as well
MCOutViews(g) ==
  IF Len(g) < 5 THEN Others(g, {<<3, 0>>}, {Len(g) = 4}) \union {[v EXCEPT !.out = TRUE] : v \in Views(g, {"view"})} ELSE {}

Resize(a, b) == [n \in {1, 3} |-> IF n = 1 THEN a ELSE b]

MCResizes == {Resize(1, 1), Resize(3, 1)}
=============================================================================
