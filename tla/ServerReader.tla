---------------------------- MODULE ServerReader ----------------------------
(***************************************************************************)
(* The HTTP side of a request (server-queue.cpp, server_response_reader,   *)
(* and the handlers of server-context.cpp that drive it).  A reader posts  *)
(* its tasks once, fetches results until every task has sent its final     *)
(* one, an error arrives or the client is gone, and then stop()s, which    *)
(* cancels what is unfinished.  Each reader is one HTTP thread's request.  *)
(***************************************************************************)
EXTENDS ServerQueue, ServerResponse, FiniteSets

CONSTANTS
    Reader,     \* requests
    tasks,      \* [Reader -> Seq(Task)]: the tasks each request posts
    Impatient   \* readers whose client may close the connection

ids(r) == get_list_id(tasks[r])

ASSUME ReaderAssumption ==
    /\ tasks \in [Reader -> Seq(Task)]
    /\ Impatient \subseteq Reader
    /\ \A r \in Reader : tasks[r] # <<>> /\ \A t \in ToSet(tasks[r]) : ~is_child(t)
    /\ \A r \in Reader : Cardinality(ToSet(tasks[r])) = Len(tasks[r])
    /\ \A r1, r2 \in Reader : r1 # r2 => ids(r1) \cap ids(r2) = {}
    /\ Task = UNION {ids(r) : r \in Reader}

VARIABLES
    rpc,            \* where each HTTP thread is
    received_count, \* final results fetched
    cancelled,      \* stop() has given up on the tasks
    answered        \* history: tasks whose final result was fetched

readerVars == <<rpc, received_count, cancelled, answered>>

ReaderPC == {"start", "post", "recv", "stop", "stop_erase", "stop_post", "done"}

ReaderTypeOK ==
    /\ rpc \in [Reader -> ReaderPC]
    /\ received_count \in [Reader -> Nat]
    /\ cancelled \in [Reader -> BOOLEAN]
    /\ answered \subseteq Task

ReaderInit ==
    /\ rpc = [r \in Reader |-> "start"]
    /\ received_count = [r \in Reader |-> 0]
    /\ cancelled = [r \in Reader |-> FALSE]
    /\ answered = {}

Owner(t) == CHOOSE r \in Reader : t \in ids(r)

has_next(r) == ~cancelled[r] /\ received_count[r] < Cardinality(ids(r))

(* Mutant: the children's ids are not registered. *)
RegisterIds_parents(r) ==
    /\ rpc[r] = "start"
    /\ AddWaitingTaskIds(ToSet(tasks[r]))
    /\ rpc' = [rpc EXCEPT ![r] = "post"]
    /\ UNCHANGED <<queueVars, received_count, cancelled, answered>>

(* post_tasks, first half: the ids are registered before the tasks exist   *)
(* for the main thread, under the other mutex.                             *)
RegisterIds(r) ==
    /\ rpc[r] = "start"
    /\ AddWaitingTaskIds(ids(r))
    /\ rpc' = [rpc EXCEPT ![r] = "post"]
    /\ UNCHANGED <<queueVars, received_count, cancelled, answered>>

(* post_tasks, second half.  METRICS is a "high-priority task" and goes to *)
(* the front.                                                              *)
PostRequest(r) ==
    /\ rpc[r] = "post"
    /\ PostTasks(tasks[r], type[Head(tasks[r])] = "METRICS")
    /\ rpc' = [rpc EXCEPT ![r] = "recv"]
    /\ UNCHANGED <<responseVars, received_count, cancelled, answered>>

(* next: an error ends the request, the last final result completes it. *)
NextResult(r) ==
    LET i == RecvIndex(ids(r)) IN
    /\ rpc[r] = "recv"
    /\ i # 0
    /\ RecvAt(i)
    /\ LET res == queue_results[i] IN
       /\ received_count' = [received_count EXCEPT ![r] = @ + IF res.kind = "final" THEN 1 ELSE 0]
       /\ answered' = IF res.kind = "final" THEN answered \cup {res.id} ELSE answered
       /\ rpc' = [rpc EXCEPT ![r] =
                    IF res.kind = "error" \/ received_count'[r] = Cardinality(ids(r))
                    THEN "stop" ELSE "recv"]
    /\ UNCHANGED <<queueVars, cancelled>>

(* next returns nullptr: the poll timed out and the client is gone.  The   *)
(* streaming handlers also look before they call next, results or not.     *)
GiveUp(r) ==
    /\ rpc[r] = "recv"
    /\ r \in Impatient
    /\ RecvIndex(ids(r)) = 0 \/ ids(r) \cap stream # {}
    /\ rpc' = [rpc EXCEPT ![r] = "stop"]
    /\ UNCHANGED <<queueVars, responseVars, received_count, cancelled, answered>>

(* stop(), in the order of its three critical sections.  The destructor's  *)
(* second stop() finds nothing left to do.                                 *)
StopRemoveIds(r) ==
    /\ rpc[r] = "stop"
    /\ RemoveWaitingTaskIds(ids(r))
    /\ rpc' = [rpc EXCEPT ![r] = IF has_next(r) THEN "stop_erase" ELSE "done"]
    /\ UNCHANGED <<queueVars, received_count, cancelled, answered>>

StopEraseResults(r) ==
    /\ rpc[r] = "stop_erase"
    /\ RemoveWaitingTaskIdEach(ids(r))
    /\ cancelled' = [cancelled EXCEPT ![r] = TRUE]
    /\ rpc' = [rpc EXCEPT ![r] = "stop_post"]
    /\ UNCHANGED <<queueVars, received_count, answered>>

(* id_tasks is an unordered_set: the cancels come in any order. *)
StopPostCancels(r) ==
    /\ rpc[r] = "stop_post"
    /\ \E order \in SetToSeqs(ids(r)) : PostCancels(order)
    /\ rpc' = [rpc EXCEPT ![r] = "done"]
    /\ UNCHANGED <<responseVars, received_count, cancelled, answered>>

(* What the thread does by itself, GiveUp being the client's choice. *)
ReaderWork(r) ==
    \/ RegisterIds(r) \/ PostRequest(r) \/ NextResult(r)
    \/ StopRemoveIds(r) \/ StopEraseResults(r) \/ StopPostCancels(r)
=============================================================================
