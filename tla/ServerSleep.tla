---------------------------- MODULE ServerSleep ----------------------------
(***************************************************************************)
(* Sleeping on idle (--sleep-idle-seconds) and the end of the main loop:   *)
(* server_queue::start_loop, wait_until_no_sleep and terminate             *)
(* (tools/server/server-queue.cpp), handle_sleeping_state                  *)
(* (server-context.cpp) and the order of calls in main (server.cpp).       *)
(*                                                                         *)
(* mutex_tasks is held over each step.  condition_tasks is a wait set: a   *)
(* thread that waits is a member until it is notified, and then has to get *)
(* the mutex and test its predicate again.  Time is left out: the server   *)
(* may find that it has been idle for long enough whenever it looks.  What *)
(* a task does in the slots is in ServerContext; here it is one step.      *)
(***************************************************************************)
EXTENDS Integers

CONSTANTS
    Thread,         \* HTTP threads, each with one request
    Main,           \* the main thread
    SleepEnabled,   \* sleep_idle_seconds >= 0
    MayTerminate,   \* a signal may arrive
    QuickLock       \* a notified thread gets the mutex within the idle time

ASSUME SleepAssumption ==
    /\ Main \notin Thread
    /\ SleepEnabled \in BOOLEAN /\ MayTerminate \in BOOLEAN /\ QuickLock \in BOOLEAN

VARIABLES
    running, sleeping, req_stop_sleeping,   \* fields of server_queue
    queue_tasks,                            \* threads whose task is queued
    waiters,                                \* threads waiting on condition_tasks
    terminated,                             \* terminate() has been called
    model,                                  \* the model is loaded
    mpc, tpc                                \* where the threads are

flags == <<running, sleeping, req_stop_sleeping>>
sleepVars == <<flags, queue_tasks, waiters, terminated, model, mpc, tpc>>

SleepTypeOK ==
    /\ running \in BOOLEAN /\ sleeping \in BOOLEAN /\ req_stop_sleeping \in BOOLEAN
    /\ queue_tasks \subseteq Thread
    /\ waiters \subseteq Thread \cup {Main}
    /\ terminated \in BOOLEAN
    /\ model \in BOOLEAN
    /\ mpc \in {"begin", "take", "update", "check", "idle", "asleep", "returned"}
    /\ tpc \in [Thread -> {"start", "waiting", "use", "posted", "done"}]

(* The model is loaded and HTTP threads are admitted before start_loop. *)
SleepInit ==
    /\ running = FALSE /\ sleeping = FALSE /\ req_stop_sleeping = FALSE
    /\ queue_tasks = {} /\ waiters = {}
    /\ terminated = FALSE
    /\ model = TRUE
    /\ mpc = "begin"
    /\ tpc = [t \in Thread |-> "start"]

(* condition_tasks.notify_one wakes any one of the waiting threads: what   *)
(* the wait set may be afterwards. *)
NotifyOne == IF waiters = {} THEN {{}} ELSE {waiters \ {w} : w \in waiters}

Goto(t, pc) == tpc' = [tpc EXCEPT ![t] = pc]

-----------------------------------------------------------------------------
(* HTTP threads *)

(* Mutant: the main thread is not notified. *)
WaitUntilNoSleep_quiet(t) ==
    /\ tpc[t] = "start"
    /\ IF ~sleeping
       THEN Goto(t, "use") /\ UNCHANGED <<req_stop_sleeping, waiters>>
       ELSE /\ req_stop_sleeping' = TRUE
            /\ waiters' = waiters \cup {t}
            /\ Goto(t, "waiting")
    /\ UNCHANGED <<running, sleeping, queue_tasks, terminated, model, mpc>>

(* wait_until_no_sleep, called by create_response: the first thread that   *)
(* finds the server asleep asks it to wake up, then it waits.              *)
WaitUntilNoSleep(t) ==
    /\ tpc[t] = "start"
    /\ \/ /\ ~sleeping
          /\ Goto(t, "use") /\ UNCHANGED <<req_stop_sleeping, waiters>>
       \/ /\ sleeping /\ ~req_stop_sleeping
          /\ req_stop_sleeping' = TRUE
          /\ \E W \in NotifyOne : waiters' = W \cup {t}
          /\ Goto(t, "waiting")
       \/ /\ sleeping /\ req_stop_sleeping
          /\ waiters' = waiters \cup {t}
          /\ Goto(t, "waiting") /\ UNCHANGED req_stop_sleeping
    /\ UNCHANGED <<running, sleeping, queue_tasks, terminated, model, mpc>>

(* A notified thread tests !sleeping. *)
RecheckSleep(t) ==
    /\ tpc[t] = "waiting" /\ t \notin waiters
    /\ IF sleeping
       THEN waiters' = waiters \cup {t} /\ UNCHANGED tpc
       ELSE Goto(t, "use") /\ UNCHANGED waiters
    /\ UNCHANGED <<flags, queue_tasks, terminated, model, mpc>>

(* The handler has tokenized its prompt with the model's vocabulary and    *)
(* posts the task. *)
Post(t) ==
    /\ tpc[t] = "use"
    /\ queue_tasks' = queue_tasks \cup {t}
    /\ waiters' \in NotifyOne
    /\ Goto(t, "posted")
    /\ UNCHANGED <<flags, terminated, model, mpc>>

ThreadStep(t) == WaitUntilNoSleep(t) \/ RecheckSleep(t) \/ Post(t)

-----------------------------------------------------------------------------
(* The main thread: start_loop *)

(* running is set without a look at what happened before. *)
StartLoop ==
    /\ mpc = "begin"
    /\ running' = TRUE
    /\ mpc' = "take"
    /\ UNCHANGED <<sleeping, req_stop_sleeping, queue_tasks, waiters, terminated, model, tpc>>

(* Drain the queue, unless the loop is told to end. *)
Take ==
    /\ mpc = "take"
    /\ \/ /\ ~running
          /\ mpc' = "returned" /\ UNCHANGED <<queue_tasks, tpc>>
       \/ /\ running
          /\ \E t \in queue_tasks : queue_tasks' = queue_tasks \ {t} /\ Goto(t, "done")
          /\ UNCHANGED mpc
       \/ /\ running /\ queue_tasks = {}
          /\ mpc' = "update" /\ UNCHANGED <<queue_tasks, tpc>>
    /\ UNCHANGED <<flags, waiters, terminated, model>>

UpdateSlots ==
    /\ mpc = "update"
    /\ mpc' = "check"
    /\ UNCHANGED <<flags, queue_tasks, waiters, terminated, model, tpc>>

(* Mutant: only the end of the loop counts. *)
NewTasks_blind ==
    /\ mpc = "check" /\ ~running
    /\ mpc' = "take"
    /\ UNCHANGED <<flags, queue_tasks, waiters, terminated, model, tpc>>

(* New tasks or the end of the loop: back to the queue. *)
NewTasks ==
    /\ mpc = "check" /\ (~running \/ queue_tasks # {})
    /\ mpc' = "take"
    /\ UNCHANGED <<flags, queue_tasks, waiters, terminated, model, tpc>>

(* Not idle for long enough yet: wait_for, which may time out any time. *)
WaitForTasks ==
    /\ mpc = "check" /\ running /\ queue_tasks = {}
    /\ mpc' = "idle"
    /\ waiters' = waiters \cup {Main}
    /\ UNCHANGED <<flags, queue_tasks, terminated, model, tpc>>

IdleEnds ==
    /\ mpc = "idle"
    /\ mpc' = "check"
    /\ waiters' = waiters \ {Main}
    /\ UNCHANGED <<flags, queue_tasks, terminated, model, tpc>>

(* Idle for long enough: handle_sleeping_state(true) destroys the context. *)
FallAsleep ==
    /\ mpc = "check" /\ running /\ queue_tasks = {}
    /\ SleepEnabled
    /\ QuickLock => \A t \in Thread : tpc[t] = "waiting" => t \in waiters
    /\ sleeping' = TRUE
    /\ model' = FALSE
    /\ req_stop_sleeping' = FALSE
    /\ waiters' = waiters \cup {Main}
    /\ mpc' = "asleep"
    /\ UNCHANGED <<running, queue_tasks, terminated, tpc>>

(* Notified while asleep: end, wake up, or go on waiting.  Waking up,      *)
(* handle_sleeping_state(false) loads the model again. *)
EndAsleep ==
    /\ mpc = "asleep" /\ Main \notin waiters /\ ~running
    /\ mpc' = "take"
    /\ UNCHANGED <<flags, queue_tasks, waiters, terminated, model, tpc>>

(* Mutant: the threads that wait are told before the model is back, and    *)
(* the queue is served. *)
Awake_unloaded ==
    /\ mpc = "asleep" /\ Main \notin waiters /\ running /\ req_stop_sleeping
    /\ req_stop_sleeping' = FALSE
    /\ sleeping' = FALSE
    /\ waiters' = {}
    /\ mpc' = "take"
    /\ UNCHANGED <<running, queue_tasks, terminated, model, tpc>>

(* Mutant: sleeping is not reset. *)
Awake_sleeping ==
    /\ mpc = "asleep" /\ Main \notin waiters /\ running /\ req_stop_sleeping
    /\ req_stop_sleeping' = FALSE
    /\ model' = TRUE
    /\ waiters' = {}
    /\ mpc' = "take"
    /\ UNCHANGED <<running, sleeping, queue_tasks, terminated, tpc>>

Awake ==
    /\ mpc = "asleep" /\ Main \notin waiters /\ running /\ req_stop_sleeping
    /\ req_stop_sleeping' = FALSE
    /\ model' = TRUE
    /\ sleeping' = FALSE
    /\ waiters' = {}
    /\ mpc' = "take"
    /\ UNCHANGED <<running, queue_tasks, terminated, tpc>>

SleepOn ==
    /\ mpc = "asleep" /\ Main \notin waiters /\ running /\ ~req_stop_sleeping
    /\ waiters' = waiters \cup {Main}
    /\ UNCHANGED <<flags, queue_tasks, terminated, model, mpc, tpc>>

MainStep ==
    \/ StartLoop \/ Take \/ UpdateSlots \/ NewTasks \/ WaitForTasks \/ IdleEnds
    \/ FallAsleep \/ EndAsleep \/ Awake \/ SleepOn

(* Mutant: nobody is notified. *)
Terminate_quiet ==
    /\ MayTerminate /\ ~terminated
    /\ terminated' = TRUE
    /\ running' = FALSE
    /\ UNCHANGED <<sleeping, req_stop_sleeping, queue_tasks, waiters, model, mpc, tpc>>

(* terminate, called by the shutdown handler; the handler is in place      *)
(* before start_loop is called. *)
Terminate ==
    /\ MayTerminate /\ ~terminated
    /\ terminated' = TRUE
    /\ running' = FALSE
    /\ waiters' = {}
    /\ UNCHANGED <<sleeping, req_stop_sleeping, queue_tasks, model, mpc, tpc>>

SleepNext == MainStep \/ Terminate \/ \E t \in Thread : ThreadStep(t)

SleepSpec == SleepInit /\ [][SleepNext]_sleepVars

(* Every thread keeps running; nobody has to send a signal. *)
FairSpec ==
    /\ SleepSpec
    /\ WF_sleepVars(MainStep)
    /\ \A t \in Thread : WF_sleepVars(ThreadStep(t))

-----------------------------------------------------------------------------
(* Tasks are processed and slots updated only with the model loaded:       *)
(* however sleeping, waking up and the end of the loop interleave,         *)
(* callback_new_task and callback_update_slots never run on a destroyed    *)
(* context. *)
TasksHaveModel == mpc = "update" \/ (mpc = "take" /\ running) => model

(* "callback is called AFTER sleeping is set to true", "BEFORE sleeping is *)
(* set to false": while the loop runs, the server sleeps exactly when the  *)
(* flag says so, and the model is gone exactly then; so the assertion      *)
(* sleeping != new_state of handle_sleeping_state holds. *)
SleepsAsTold ==
    /\ running => (sleeping <=> mpc = "asleep")
    /\ sleeping <=> ~model

(* A thread never waits for the end of a sleep that is over: it is in the  *)
(* wait set only while the server sleeps. *)
WaitsForSleeper == \A t \in Thread : t \in waiters => sleeping /\ tpc[t] = "waiting"

(* "if sleeping, request exiting sleep state and wait until it is done":   *)
(* the wait comes to an end, unless the server is told to stop. *)
WaitEnds == \A t \in Thread : tpc[t] = "waiting" ~> tpc[t] # "waiting" \/ terminated

(* A task in the queue is processed, unless the server falls asleep or is  *)
(* told to stop first: no post() is missed by a loop about to wait. *)
TasksProcessedAwake ==
    \A t \in Thread : tpc[t] = "posted" ~> tpc[t] = "done" \/ sleeping \/ terminated

(* "Any new incoming task will automatically trigger the model to reload": *)
(* a task in the queue is processed, asleep or not. *)
TasksProcessed == \A t \in Thread : tpc[t] = "posted" ~> tpc[t] = "done"

(* The wait ends also when the server is told to stop while it sleeps. *)
WaitEndsAtStop == \A t \in Thread : tpc[t] = "waiting" ~> tpc[t] # "waiting"

(* The handlers are written as if the model were there after               *)
(* create_response(), "to ensure that the server_res_generator can handle  *)
(* sleeping case correctly". *)
HandlersHaveModel == \A t \in Thread : tpc[t] = "use" => model

(* A loop that is told to end returns, asleep or not. *)
LoopEnds == mpc # "begin" /\ ~running ~> mpc = "returned"

(* "this will unblock start_loop()": once terminate has been called the    *)
(* main loop returns. *)
LoopReturns == terminated ~> mpc = "returned"
=============================================================================
