----------------------- MODULE LlamaServerRefinement -----------------------
(***************************************************************************)
(* llama-server implements TaskService.  A job is a task, children         *)
(* included; it waits while its queue entry is queued, deferred or in the  *)
(* main thread's hand, and runs while it has a slot.                       *)
(***************************************************************************)
EXTENDS MCLlamaServer

(* Results of kind k for tasks of r that wait to be fetched. *)
Queued(r, k) == {i \in DOMAIN queue_results : queue_results[i].id \in ids(r) /\ queue_results[i].kind = k}

phaseOf == [r \in Reader |->
    CASE rpc[r] \in {"start", "post"} -> "new"
      [] rpc[r] = "recv" -> IF Queued(r, "error") = {} THEN "open" ELSE "failed"
      [] OTHER -> "closed"]

placeOf == [t \in Task |->
    CASE phaseOf[Owner(t)] = "new"   -> "new"
      [] InSlots(t) # {}             -> "running"
      [] Pending(Carrier(t)) > 0     -> "waiting"
      [] OTHER                       -> "gone"]

answersOf ==
    {t \in Task : /\ phaseOf[Owner(t)] \in {"open", "failed"}
                  /\ \/ t \in answered
                     \/ \E i \in Queued(Owner(t), "final") : queue_results[i].id = t}

Service == INSTANCE TaskService WITH
    Request <- Reader, Job <- Task, owner <- [t \in Task |-> Owner(t)], Capacity <- NSlots,
    phase <- phaseOf, place <- placeOf, answers <- answersOf

(* Every step of the server, whatever its threads do in between, is a step *)
(* of the service or changes nothing a client could see.                   *)
ImplementsService == Service!Spec
=============================================================================
