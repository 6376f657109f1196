--------------------------- MODULE MCTaskService ---------------------------
(* TaskService with two requests, one of them with two jobs. *)
EXTENDS TaskService

MCOwner == [j \in Job |-> IF j \in {"j1", "j2"} THEN "r1" ELSE IF j = "j3" THEN "r2" ELSE "r3"]
=============================================================================
