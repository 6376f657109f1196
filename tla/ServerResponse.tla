--------------------------- MODULE ServerResponse ---------------------------
(***************************************************************************)
(* The result queue of llama-server (tools/server/server-queue.cpp, struct *)
(* server_response): the ids somebody waits for and the results nobody has *)
(* fetched yet.  Every operation runs under mutex_results.                 *)
(***************************************************************************)
EXTENDS ServerTask

VARIABLES
    waiting_task_ids,   \* tasks some reader waits for
    queue_results       \* results not fetched yet, oldest first

responseVars == <<waiting_task_ids, queue_results>>

(* is_error() and is_stop() are all a reader looks at. *)
Result == [id : Task, kind : {"partial", "final", "error"}]

ResponseTypeOK ==
    /\ waiting_task_ids \subseteq Task
    /\ queue_results \in Seq(Result)

ResponseInit ==
    /\ waiting_task_ids = {}
    /\ queue_results = <<>>

AddWaitingTaskIds(ids) ==
    /\ waiting_task_ids' = waiting_task_ids \cup ids
    /\ UNCHANGED queue_results

(* remove_waiting_task_ids leaves the pending results in place... *)
RemoveWaitingTaskIds(ids) ==
    /\ waiting_task_ids' = waiting_task_ids \ ids
    /\ UNCHANGED queue_results

(* ...and remove_waiting_task_id, called for every id in turn, drops them. *)
(* The ids are not waited for any more, so nothing can be sent for them    *)
(* between two of these calls.                                             *)
RemoveWaitingTaskIdEach(ids) ==
    /\ waiting_task_ids' = waiting_task_ids \ ids
    /\ queue_results' = SelectSeq(queue_results, LAMBDA res : res.id \notin ids)

(* Mutant: the result is queued whether anybody waits for it or not. *)
Send_always(t, kind) ==
    /\ queue_results' = Append(queue_results, [id |-> t, kind |-> kind])
    /\ UNCHANGED waiting_task_ids

(* send: a result nobody waits for is dropped. *)
Send(t, kind) ==
    /\ queue_results' = IF t \in waiting_task_ids
                        THEN Append(queue_results, [id |-> t, kind |-> kind])
                        ELSE queue_results
    /\ UNCHANGED waiting_task_ids

(* recv_with_timeout: the position of the oldest result for one of ids, 0  *)
(* when there is none and the caller goes on waiting.                      *)
RecvIndex(ids) == SelectInSeq(queue_results, LAMBDA res : res.id \in ids)

RecvAt(i) ==
    /\ queue_results' = RemoveAt(queue_results, i)
    /\ UNCHANGED waiting_task_ids
=============================================================================
