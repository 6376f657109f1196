--------------------------- MODULE MCCpuThreadpool ---------------------------
(***************************************************************************)
(* Three threads.  The graph has a multiplication, an empty node and a     *)
(* last node that is split.  With one or two active threads the four       *)
(* chunks of the multiplication are handed out, with three it is cut into  *)
(* one chunk per thread.                                                   *)
(***************************************************************************)
EXTENDS CpuThreadpool

MulMatOf(n) == [op |-> "mul_mat", chunks |-> n]
EmptyOp     == [op |-> "empty", chunks |-> 0]
SplitOp     == [op |-> "split", chunks |-> 0]

MCGraphs == {<<MulMatOf(4), EmptyOp, SplitOp>>}
=============================================================================
