----------------------------- MODULE ServerTask -----------------------------
(***************************************************************************)
(* What the server knows of a task (tools/server/server-task.h, struct     *)
(* server_task), reduced to the fields the scheduling reads.  A task is    *)
(* created by an HTTP thread and never changes afterwards, so its fields   *)
(* are constant functions.                                                 *)
(***************************************************************************)
EXTENDS Integers, Sequences, SequencesExt

CONSTANTS
    Task,           \* task ids
    NoTask,         \* "no task"
    type,           \* the kind of work, see TaskType
    id_slot,        \* slot asked for by an inference task, -1 for any slot
    slot_action,    \* slot a SLOT_ACTION task acts on
    child_tasks,    \* the further completions of the same prompt (n_cmpl > 1)
    n_tokens,       \* length of the prompt, 0 for an empty prompt
    lora,           \* the adapters the task asks for
    stream          \* tasks that send a partial result for every token

(* INFILL behaves as COMPLETION and RERANK as EMBEDDING.  SLOT_ACTION      *)
(* stands for SLOT_SAVE, SLOT_RESTORE and SLOT_ERASE, LORA for GET_LORA    *)
(* and SET_LORA, which like METRICS are answered at once, whatever the     *)
(* slots do.                                                               *)
TaskType == {"COMPLETION", "EMBEDDING", "SLOT_ACTION", "LORA", "METRICS"}

ASSUME TaskAssumption ==
    /\ NoTask \notin Task
    /\ type \in [Task -> TaskType]
    /\ id_slot \in [Task -> Nat \cup {-1}]
    /\ slot_action \in [Task -> Nat]
    /\ child_tasks \in [Task -> Seq(Task)]
    /\ n_tokens \in [Task -> Nat]
    /\ DOMAIN lora = Task
    /\ stream \subseteq Task

(* add_child: a child copies its parent's parameters, has no slot of its   *)
(* own choice and no children.                                             *)
ASSUME ChildAssumption ==
    \A t \in Task : \A i \in DOMAIN child_tasks[t] :
        LET c == child_tasks[t][i] IN
        /\ child_tasks[c] = <<>>
        /\ id_slot[c] = -1
        /\ type[c] = type[t] /\ n_tokens[c] = n_tokens[t] /\ lora[c] = lora[t]
        /\ \A u \in Task : c \in ToSet(child_tasks[u]) => u = t

is_parent(t) == child_tasks[t] # <<>>

is_child(t) == \E p \in Task : t \in ToSet(child_tasks[p])

id_parent(t) == CHOOSE p \in Task : t \in ToSet(child_tasks[p])

need_embd(t) == type[t] = "EMBEDDING"

(* The queue entry that carries t: a child travels inside its parent. *)
Carrier(t) == IF is_child(t) THEN id_parent(t) ELSE t

(* get_list_id: a request's ids are its tasks and all their children. *)
get_list_id(tasks) ==
    ToSet(tasks) \cup UNION {ToSet(child_tasks[t]) : t \in ToSet(tasks)}
=============================================================================
