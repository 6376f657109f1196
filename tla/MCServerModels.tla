--------------------------- MODULE MCServerModels ---------------------------
(* Instances of ServerModels for TLC: a thread is named for what it does.  *)
EXTENDS ServerModels

MCOp == [u \in User |->
    CASE u \in {"useA", "useB", "useA2"} -> "use"
      [] u = "peekB"                     -> "peek"
      [] u \in {"loadA", "loadB"}        -> "load"
      [] u \in {"unloadA", "unloadA2"}   -> "unload"
      [] u = "shutdown"                  -> "unload_all"]

MCTarget == [u \in User |-> IF u \in {"useB", "loadB", "peekB"} THEN "B" ELSE "A"]
=============================================================================
