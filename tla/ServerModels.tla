---------------------------- MODULE ServerModels ----------------------------
(***************************************************************************)
(* The router of llama-server (tools/server/server-models.h/.cpp, struct   *)
(* server_models): it keeps one child process per loaded model, loads a    *)
(* model when a request names it and unloads the least recently used one   *)
(* when models_max are active.                                             *)
(*                                                                         *)
(* Each instance has a managing thread, which owns a thread reading the    *)
(* child's output and one that stops the child on demand.  All share one   *)
(* mutex: every critical section is a step.  Both condition variables are  *)
(* notified, under the mutex, by whatever changes what they wait for, so   *)
(* waiting is a guard.  Ports, arguments, presets and the proxied traffic  *)
(* itself are left out.                                                    *)
(***************************************************************************)
EXTENDS Integers, FiniteSets

CONSTANTS
    Model,
    NoModel,
    User,           \* HTTP threads of the router
    op, target,     \* what each of them does, and with which model
    models_max,     \* --models-max, 0 for no limit
    TimeSteps,      \* how far the clock may move between two readings
    MaxTime,        \* bound on the clock
    ChildMayFail    \* a child process may exit of its own accord

(* "use" is a POST with, "peek" a GET without autoload; "unload_all" is    *)
(* main's last call. *)
UserOp == {"use", "peek", "load", "unload", "unload_all"}

ASSUME ModelsAssumption ==
    /\ NoModel \notin Model
    /\ op \in [User -> UserOp]
    /\ target \in [User -> Model]
    /\ models_max \in Nat
    /\ TimeSteps \subseteq Nat
    /\ MaxTime \in Nat
    /\ ChildMayFail \in BOOLEAN

VARIABLES
    status, failed,     \* meta.status, and whether meta.exit_code # 0
    last_used,          \* meta.last_used
    clock,              \* ggml_time_ms
    stopping_models,
    manager,            \* the managing thread of the instance
    stopper,            \* its stopping_thread
    child,              \* the child process
    ready_line,         \* CMD_CHILD_TO_ROUTER_READY is in its output, unread
    exit_cmd,           \* CMD_ROUTER_TO_CHILD_EXIT is in its input
    upc,                \* where each HTTP thread is
    victim              \* the model it unloads to make room

instanceVars == <<manager, stopper, child, ready_line, exit_cmd>>
metaVars == <<status, failed, last_used, clock>>
userVars == <<upc, victim>>
routerVars == <<metaVars, stopping_models, instanceVars, userVars>>

UserPC == {"start", "lru", "evict", "evict_wait", "spawn", "wait", "check", "proxy",
           "touch", "unload", "join", "ok", "error"}

RouterTypeOK ==
    /\ status \in [Model -> {"UNLOADED", "LOADING", "LOADED"}]
    /\ failed \in [Model -> BOOLEAN]
    /\ last_used \in [Model -> Nat] /\ clock \in Nat
    /\ stopping_models \subseteq Model
    /\ manager \in [Model -> {"none", "log", "join", "reap"}]
    /\ stopper \in [Model -> {"none", "wait", "grace", "done"}]
    /\ child \in [Model -> {"none", "starting", "ready", "exit0", "exit1"}]
    /\ ready_line \in [Model -> BOOLEAN]
    /\ exit_cmd \in [Model -> BOOLEAN]
    /\ upc \in [User -> UserPC]
    /\ victim \in [User -> Model \cup {NoModel}]
    /\ \A u \in User : upc[u] \in {"evict", "evict_wait"} => victim[u] \in Model

RouterInit ==
    /\ status = [m \in Model |-> "UNLOADED"]
    /\ failed = [m \in Model |-> FALSE]
    /\ last_used = [m \in Model |-> 0] /\ clock = 1
    /\ stopping_models = {}
    /\ manager = [m \in Model |-> "none"]
    /\ stopper = [m \in Model |-> "none"]
    /\ child = [m \in Model |-> "none"]
    /\ ready_line = [m \in Model |-> FALSE]
    /\ exit_cmd = [m \in Model |-> FALSE]
    /\ upc = [u \in User |-> "start"]
    /\ victim = [u \in User |-> NoModel]

is_active(m) == status[m] \in {"LOADING", "LOADED"}

is_failed(m) == status[m] = "UNLOADED" /\ failed[m]

(* A reading of the clock; it stands still at the bound. *)
ReadClock == \E d \in TimeSteps : clock' = IF clock + d <= MaxTime THEN clock + d ELSE clock

At(u, pc) == upc[u] = pc

Proceed(u, pc) == upc' = [upc EXCEPT ![u] = pc]

-----------------------------------------------------------------------------
(* HTTP threads *)

(* No request comes in once the router shuts down. *)
Listening == \A v \in User : op[v] = "unload_all" => upc[v] = "start"

(* router_validate_model, ensure_model_loaded, post_router_models_load and *)
(* _unload begin with a look at the model's status.                        *)
GetMeta(u) ==
    LET s == status[target[u]] IN
    /\ At(u, "start") /\ op[u] # "unload_all" /\ Listening
    /\ \/ op[u] = "use" /\ s = "LOADED" /\ Proceed(u, "proxy")
       \/ op[u] = "use" /\ s = "UNLOADED" /\ Proceed(u, "lru")
       \/ op[u] = "use" /\ s = "LOADING" /\ Proceed(u, "wait")
       \/ op[u] = "peek" /\ Proceed(u, IF s = "LOADED" THEN "proxy" ELSE "error")
       \/ op[u] = "load" /\ Proceed(u, IF s = "LOADED" THEN "error" ELSE "lru")
       \/ op[u] = "unload" /\ Proceed(u, IF is_active(target[u]) THEN "unload" ELSE "error")
    /\ UNCHANGED <<metaVars, stopping_models, instanceVars, victim>>

(* The active models used before now, and the oldest of them. *)
UsedBefore(now) == {m \in Model : is_active(m) /\ last_used[m] < now}

Lru(now) == {m \in UsedBefore(now) : \A n \in UsedBefore(now) : last_used[m] <= last_used[n]}

(* unload_lru, first half: count and choose.  Of two models used in the    *)
(* same millisecond the map's order decides, here either.                  *)
UnloadLru(u) ==
    /\ At(u, "lru")
    /\ IF models_max = 0
       THEN Proceed(u, "spawn") /\ UNCHANGED <<victim, clock>>
       ELSE /\ ReadClock
            /\ IF Cardinality({m \in Model : is_active(m)}) >= models_max /\ Lru(clock') # {}
               THEN /\ \E m \in Lru(clock') : victim' = [victim EXCEPT ![u] = m]
                    /\ Proceed(u, "evict")
               ELSE Proceed(u, "spawn") /\ UNCHANGED victim
    /\ UNCHANGED <<status, failed, last_used, stopping_models, instanceVars>>

(* unload: ask the stopping thread of an active model to act. *)
Unload(m) == stopping_models' = IF is_active(m) THEN stopping_models \cup {m} ELSE stopping_models

(* unload_lru, second half: unload the victim and wait until it is gone. *)
Evict(u) ==
    /\ At(u, "evict")
    /\ Unload(victim[u])
    /\ Proceed(u, "evict_wait")
    /\ UNCHANGED <<metaVars, instanceVars, victim>>

EvictWait(u) ==
    /\ At(u, "evict_wait")
    /\ status[victim[u]] = "UNLOADED"
    /\ Proceed(u, "spawn")
    /\ victim' = [victim EXCEPT ![u] = NoModel]
    /\ UNCHANGED <<metaVars, stopping_models, instanceVars>>

(* What follows load(): a request waits for the model. *)
AfterLoad(u) == IF op[u] = "use" THEN "wait" ELSE "ok"

(* load, once there is room: start the child and its threads unless the    *)
(* model is already active.  The old instance's thread is joined here,     *)
(* with the mutex held.                                                    *)
Load(u) ==
    LET m == target[u] IN
    /\ At(u, "spawn")
    /\ status[m] = "UNLOADED" /\ manager[m] = "none"
    /\ ReadClock
    /\ status' = [status EXCEPT ![m] = "LOADING"]
    /\ last_used' = [last_used EXCEPT ![m] = clock']
    /\ manager' = [manager EXCEPT ![m] = "log"]
    /\ stopper' = [stopper EXCEPT ![m] = "wait"]
    /\ child' = [child EXCEPT ![m] = "starting"]
    /\ ready_line' = [ready_line EXCEPT ![m] = FALSE]
    /\ exit_cmd' = [exit_cmd EXCEPT ![m] = FALSE]
    /\ Proceed(u, AfterLoad(u))
    /\ UNCHANGED <<failed, stopping_models, victim>>

LoadNotReady(u) ==
    /\ At(u, "spawn")
    /\ status[target[u]] # "UNLOADED"
    /\ Proceed(u, AfterLoad(u))
    /\ UNCHANGED <<metaVars, stopping_models, instanceVars, victim>>

(* No port, or the process cannot be started: load throws. *)
LoadThrows(u) ==
    /\ At(u, "spawn")
    /\ status[target[u]] = "UNLOADED"
    /\ ChildMayFail
    /\ Proceed(u, "error")
    /\ UNCHANGED <<metaVars, stopping_models, instanceVars, victim>>

(* ensure_model_loaded: wait_until_loaded, then look again. *)
WaitUntilLoaded(u) ==
    /\ At(u, "wait")
    /\ status[target[u]] # "LOADING"
    /\ Proceed(u, "check")
    /\ UNCHANGED <<metaVars, stopping_models, instanceVars, victim>>

CheckLoaded(u) ==
    /\ At(u, "check")
    /\ Proceed(u, IF is_failed(target[u]) THEN "error" ELSE "proxy")
    /\ UNCHANGED <<metaVars, stopping_models, instanceVars, victim>>

(* proxy_request: the status is checked, and last_used updated afterwards, *)
(* for a POST. *)
ProxyRequest(u) ==
    /\ At(u, "proxy")
    /\ Proceed(u, IF status[target[u]] # "LOADED" THEN "error"
               ELSE IF op[u] = "use" THEN "touch" ELSE "ok")
    /\ UNCHANGED <<metaVars, stopping_models, instanceVars, victim>>

Touch(u) ==
    /\ At(u, "touch")
    /\ ReadClock
    /\ last_used' = [last_used EXCEPT ![target[u]] = clock']
    /\ Proceed(u, "ok")
    /\ UNCHANGED <<status, failed, stopping_models, instanceVars, victim>>

(* post_router_models_unload, after its look at the status. *)
UnloadRoute(u) ==
    /\ At(u, "unload")
    /\ Unload(target[u])
    /\ Proceed(u, "ok")
    /\ UNCHANGED <<metaVars, instanceVars, victim>>

(* unload_all, when the HTTP server has stopped and its threads are gone:  *)
(* stop everything that is active, then join the managers.                 *)
UnloadAll(u) ==
    /\ At(u, "start") /\ op[u] = "unload_all"
    /\ \A v \in User : upc[v] \in {"start", "ok", "error"}
    /\ stopping_models' = stopping_models \cup {m \in Model : is_active(m)}
    /\ Proceed(u, "join")
    /\ UNCHANGED <<metaVars, instanceVars, victim>>

JoinAll(u) ==
    /\ At(u, "join")
    /\ \A m \in Model : manager[m] = "none"
    /\ Proceed(u, "ok")
    /\ UNCHANGED <<metaVars, stopping_models, instanceVars, victim>>

UserStep(u) ==
    \/ GetMeta(u) \/ UnloadLru(u) \/ Evict(u) \/ EvictWait(u)
    \/ Load(u) \/ LoadNotReady(u) \/ LoadThrows(u)
    \/ WaitUntilLoaded(u) \/ CheckLoaded(u) \/ ProxyRequest(u) \/ Touch(u)
    \/ UnloadRoute(u) \/ UnloadAll(u) \/ JoinAll(u)
-----------------------------------------------------------------------------
(* The threads of an instance *)

(* Mutant: any line of output will do. *)
ReadReady_any(m) ==
    /\ manager[m] = "log" /\ status[m] = "LOADING"
    /\ ready_line' = [ready_line EXCEPT ![m] = FALSE]
    /\ status' = [status EXCEPT ![m] = "LOADED"]
    /\ failed' = [failed EXCEPT ![m] = FALSE]
    /\ UNCHANGED <<last_used, clock, stopping_models, manager, stopper, child, exit_cmd, userVars>>

(* log_thread: the child reports that it is ready. *)
ReadReady(m) ==
    /\ manager[m] = "log" /\ ready_line[m]
    /\ ready_line' = [ready_line EXCEPT ![m] = FALSE]
    /\ status' = [status EXCEPT ![m] = "LOADED"]
    /\ failed' = [failed EXCEPT ![m] = FALSE]
    /\ UNCHANGED <<last_used, clock, stopping_models, manager, stopper, child, exit_cmd, userVars>>

(* Mutant: the status is updated before the threads are joined. *)
ChildGone_unloads(m) ==
    /\ manager[m] = "log" /\ ~ready_line[m] /\ child[m] \in {"exit0", "exit1"}
    /\ stopping_models' = stopping_models \ {m}
    /\ manager' = [manager EXCEPT ![m] = "join"]
    /\ status' = [status EXCEPT ![m] = "UNLOADED"]
    /\ UNCHANGED <<failed, last_used, clock, stopper, child, ready_line, exit_cmd, userVars>>

(* Mutant: the end of the output is not waited for. *)
ChildGone_early(m) ==
    /\ manager[m] = "log" /\ ~ready_line[m]
    /\ stopping_models' = stopping_models \ {m}
    /\ manager' = [manager EXCEPT ![m] = "join"]
    /\ UNCHANGED <<metaVars, stopper, child, ready_line, exit_cmd, userVars>>

(* log_thread ends with the child's output; the stopping thread is told. *)
ChildGone(m) ==
    /\ manager[m] = "log" /\ ~ready_line[m] /\ child[m] \in {"exit0", "exit1"}
    /\ stopping_models' = stopping_models \ {m}
    /\ manager' = [manager EXCEPT ![m] = "join"]
    /\ UNCHANGED <<metaVars, stopper, child, ready_line, exit_cmd, userVars>>

JoinStopper(m) ==
    /\ manager[m] = "join" /\ stopper[m] = "done"
    /\ manager' = [manager EXCEPT ![m] = "reap"]
    /\ UNCHANGED <<metaVars, stopping_models, stopper, child, ready_line, exit_cmd, userVars>>

(* Mutant: a child that crashed is taken for one that is starting again. *)
Reap_restart(m) ==
    /\ manager[m] = "reap"
    /\ status' = [status EXCEPT ![m] = IF child[m] = "exit1" THEN "LOADING" ELSE "UNLOADED"]
    /\ failed' = [failed EXCEPT ![m] = child[m] = "exit1"]
    /\ manager' = [manager EXCEPT ![m] = "none"]
    /\ stopper' = [stopper EXCEPT ![m] = "none"]
    /\ child' = [child EXCEPT ![m] = "none"]
    /\ UNCHANGED <<last_used, clock, stopping_models, ready_line, exit_cmd, upc, victim>>

(* The exit code is collected and the status updated: the last thing the   *)
(* managing thread does.  Its output has ended, so the child is gone and   *)
(* subprocess_join does not wait for it.                                   *)
Reap(m) ==
    /\ manager[m] = "reap"
    /\ status' = [status EXCEPT ![m] = "UNLOADED"]
    /\ failed' = [failed EXCEPT ![m] = child[m] = "exit1"]
    /\ manager' = [manager EXCEPT ![m] = "none"]
    /\ stopper' = [stopper EXCEPT ![m] = "none"]
    /\ child' = [child EXCEPT ![m] = "none"]
    /\ UNCHANGED <<last_used, clock, stopping_models, ready_line, exit_cmd, upc, victim>>

(* stopping_thread: told to stop, it writes the exit command... *)
StopChild(m) ==
    /\ stopper[m] = "wait" /\ m \in stopping_models
    /\ exit_cmd' = [exit_cmd EXCEPT ![m] = TRUE]
    /\ stopper' = [stopper EXCEPT ![m] = "grace"]
    /\ UNCHANGED <<metaVars, stopping_models, manager, child, ready_line, userVars>>

(* ...and waits until the child has stopped... *)
ChildStopped(m) ==
    /\ stopper[m] = "grace" /\ m \notin stopping_models
    /\ stopper' = [stopper EXCEPT ![m] = "done"]
    /\ UNCHANGED <<metaVars, stopping_models, manager, child, ready_line, exit_cmd, userVars>>

(* Mutant: the child is not killed. *)
StopTimeout_spares(m) ==
    /\ stopper[m] = "grace" /\ m \in stopping_models
    /\ stopper' = [stopper EXCEPT ![m] = "done"]
    /\ UNCHANGED <<metaVars, stopping_models, manager, child, ready_line, exit_cmd, userVars>>

(* ...or stop_timeout is over and it kills the child. *)
StopTimeout(m) ==
    /\ stopper[m] = "grace" /\ m \in stopping_models
    /\ stopper' = [stopper EXCEPT ![m] = "done"]
    /\ child' = [child EXCEPT ![m] = IF @ \in {"starting", "ready"} THEN "exit1" ELSE @]
    /\ UNCHANGED <<metaVars, stopping_models, manager, ready_line, exit_cmd, userVars>>

InstanceStep(m) ==
    \/ ReadReady(m) \/ ChildGone(m) \/ JoinStopper(m) \/ Reap(m)
    \/ StopChild(m) \/ ChildStopped(m) \/ StopTimeout(m)

-----------------------------------------------------------------------------
(* The child process: setup_child_server announces it and reads commands   *)
(* from then on.  It obeys the exit command or is too busy to; by itself   *)
(* it may fail to load, crash or exit.                                     *)
ChildReady(m) ==
    /\ child[m] = "starting"
    /\ child' = [child EXCEPT ![m] = "ready"]
    /\ ready_line' = [ready_line EXCEPT ![m] = TRUE]
    /\ UNCHANGED <<metaVars, stopping_models, manager, stopper, exit_cmd, userVars>>

ChildExits(m) ==
    /\ \/ child[m] = "ready" /\ exit_cmd[m] /\ child' = [child EXCEPT ![m] = "exit0"]
       \/ /\ child[m] \in {"starting", "ready"} /\ ChildMayFail
          /\ child' = [child EXCEPT ![m] = "exit1"]
    /\ UNCHANGED <<metaVars, stopping_models, manager, stopper, ready_line, exit_cmd, userVars>>

RouterNext ==
    \/ \E u \in User : UserStep(u)
    \/ \E m \in Model : InstanceStep(m) \/ ChildReady(m) \/ ChildExits(m)

RouterSpec == RouterInit /\ [][RouterNext]_routerVars

(* Threads keep running and a child finishes loading.  Nothing obliges a   *)
(* child to obey. *)
FairRouter ==
    /\ RouterSpec
    /\ \A u \in User : WF_routerVars(UserStep(u))
    /\ \A m \in Model : WF_routerVars(InstanceStep(m)) /\ WF_routerVars(ChildReady(m))

-----------------------------------------------------------------------------
(* What load() relies on when it replaces an instance with the mutex held: *)
(* "old process should have exited already", and the old managing thread   *)
(* has nothing left to do, so joining it cannot block on the mutex.        *)
OldInstanceGone ==
    \A m \in Model : status[m] = "UNLOADED" =>
        manager[m] = "none" /\ stopper[m] = "none" /\ child[m] = "none"

(* A model is reported as loaded only when the present child has announced *)
(* itself: an earlier instance's late output cannot do it.                 *)
LoadedIsReady == \A m \in Model : status[m] = "LOADED" => child[m] # "starting"

(* The model's process has exited when its status becomes UNLOADED. *)
ExitBeforeUnloaded ==
    \A m \in Model : status[m] # "UNLOADED" /\ status'[m] = "UNLOADED"
                        => child[m] \in {"exit0", "exit1"}

(* A model is never marked unloaded while its process may still run, so    *)
(* that load() never has two processes for one model.                      *)
UnloadedAfterExit == [][ExitBeforeUnloaded]_routerVars

(* A step along an arrow of the diagram in server-models.h. *)
DiagramStep ==
    \A m \in Model : status'[m] # status[m] =>
        <<status[m], status'[m]>> \in
            {<<"UNLOADED", "LOADING">>, <<"LOADING", "LOADED">>,
             <<"LOADING", "UNLOADED">>, <<"LOADED", "UNLOADED">>}

(* "UNLOADED --> LOADING --> LOADED", "failed", "unloaded": the status     *)
(* takes the transitions of the state diagram, and no other.               *)
StateDiagram == [][DiagramStep]_routerVars

(* The child has exited by itself and its managing thread joins a stopping *)
(* thread that waits for a request nobody need make. *)
Unattended(m) == manager[m] = "join" /\ stopper[m] = "wait"

(* The victim has been loaded again, and nobody asks the new instance to   *)
(* stop. *)
Reloaded(m) == manager[m] = "log" /\ m \notin stopping_models

(* Every call into the router returns, a request's and main's unload_all:  *)
(* but for children that exit by themselves and victims that come back     *)
(* nothing waits for a model for ever, and a child that does not obey is   *)
(* killed.  (A thread makes one call, so all of them return if each does.) *)
CallsReturn ==
    (\E u \in User : upc[u] # "start") ~>
        \/ \A u \in User : upc[u] \in {"start", "ok", "error"}
        \/ \E m \in Model : Unattended(m)
        \/ \E u \in User : At(u, "evict_wait") /\ Reloaded(victim[u])

(* "wait for unload to complete": waiting for the victim comes to an end.  *)
EvictionEnds == \A u \in User : upc[u] = "evict_wait" ~> upc[u] # "evict_wait"

(* "return when the model is loaded or failed to load". *)
WaitReturns == \A u \in User : upc[u] = "wait" ~> upc[u] # "wait"

(* "these functions are thread-safe": a request to unload a model concerns *)
(* the instance that was active when it was made, and no later one.        *)
NoStaleStop == \A m \in Model : status[m] = "UNLOADED" => m \notin stopping_models

(* "maximum number of models to load simultaneously". *)
WithinLimit == models_max > 0 => Cardinality({m \in Model : is_active(m)}) <= models_max
=============================================================================
