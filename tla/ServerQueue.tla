---------------------------- MODULE ServerQueue ----------------------------
(***************************************************************************)
(* The task queue of llama-server (tools/server/server-queue.h/.cpp,       *)
(* struct server_queue): the main queue, the deferred queue, and the       *)
(* operations on them.  Every operation runs under mutex_tasks, so each    *)
(* one is a single step.  The sleeping state and condition_tasks, which    *)
(* only matter when --sleep-idle-seconds is set, are in module             *)
(* ServerSleep.                                                            *)
(*                                                                         *)
(* A queue element is a message: a task, a CANCEL naming the task it       *)
(* targets, or a NEXT_RESPONSE.  Ids come from one counter (get_new_id,    *)
(* post), so the ids of CANCEL and NEXT_RESPONSE messages equal no task id *)
(* and are left out.                                                       *)
(***************************************************************************)
EXTENDS ServerTask

VARIABLES
    queue_tasks,            \* main queue
    queue_tasks_deferred    \* tasks waiting for a slot

queueVars == <<queue_tasks, queue_tasks_deferred>>

TaskMsg(t)   == [type |-> "TASK",   id |-> t]
CancelMsg(t) == [type |-> "CANCEL", id |-> t]
NextMsg      == [type |-> "NEXT_RESPONSE", id |-> NoTask]

Message == [type : {"TASK", "CANCEL"}, id : Task] \cup {NextMsg}

QueueTypeOK ==
    /\ queue_tasks \in Seq(Message)
    /\ queue_tasks_deferred \in Seq(Task)

QueueInit ==
    /\ queue_tasks = <<>>
    /\ queue_tasks_deferred = <<>>

(* A vector pushed element by element at the front ends up reversed. *)
PushAll(q, msgs, front) == IF front THEN Reverse(msgs) \o q ELSE q \o msgs

(* Mutant: the targets are not compared. *)
CleanMain_all(q, targets) == SelectSeq(q, LAMBDA m : m.type # "TASK")

(* cleanup_pending_task: drop the targets from both queues. *)
CleanMain(q, targets) ==
    SelectSeq(q, LAMBDA m : ~(m.type = "TASK" /\ m.id \in targets))

CleanDeferred(q, targets) == SelectSeq(q, LAMBDA t : t \notin targets)

(* post(vector, front) for the tasks of a request. *)
PostTasks(tasks, front) ==
    /\ queue_tasks' = PushAll(queue_tasks, [i \in DOMAIN tasks |-> TaskMsg(tasks[i])], front)
    /\ UNCHANGED queue_tasks_deferred

(* post(vector, front = true) for CANCEL messages: the pending targets go  *)
(* first, then the messages are pushed.                                    *)
PostCancels(targets) ==
    /\ queue_tasks' = PushAll(CleanMain(queue_tasks, ToSet(targets)),
                              [i \in DOMAIN targets |-> CancelMsg(targets[i])], TRUE)
    /\ queue_tasks_deferred' = CleanDeferred(queue_tasks_deferred, ToSet(targets))

(* post(task) of the NEXT_RESPONSE that keeps the main loop turning. *)
PostNext ==
    /\ queue_tasks' = Append(queue_tasks, NextMsg)
    /\ UNCHANGED queue_tasks_deferred

Defer(t) ==
    /\ queue_tasks_deferred' = Append(queue_tasks_deferred, t)
    /\ UNCHANGED queue_tasks

(* pop_deferred_task(id_slot): one deferred task, the first that asks for  *)
(* this very slot or else the oldest, moves to the front of the main queue.*)
DeferredFor(s) ==
    LET i == SelectInSeq(queue_tasks_deferred, LAMBDA t : id_slot[t] = s)
    IN  IF i = 0 THEN 1 ELSE i

(* Mutant: the task is not erased from the deferred queue. *)
PopDeferredTask_copies(s) ==
    IF queue_tasks_deferred = <<>>
    THEN UNCHANGED queueVars
    ELSE /\ queue_tasks' = <<TaskMsg(queue_tasks_deferred[DeferredFor(s)])>> \o queue_tasks
         /\ UNCHANGED queue_tasks_deferred

PopDeferredTask(s) ==
    IF queue_tasks_deferred = <<>>
    THEN UNCHANGED queueVars
    ELSE LET i == DeferredFor(s) IN
         /\ queue_tasks' = <<TaskMsg(queue_tasks_deferred[i])>> \o queue_tasks
         /\ queue_tasks_deferred' = RemoveAt(queue_tasks_deferred, i)

(* The main loop takes the head of the main queue. *)
TakeFront ==
    /\ queue_tasks # <<>>
    /\ queue_tasks' = Tail(queue_tasks)
    /\ UNCHANGED queue_tasks_deferred
=============================================================================
