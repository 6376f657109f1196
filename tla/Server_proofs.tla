---------------------------- MODULE Server_proofs ----------------------------
(***************************************************************************)
(* Three parts of the server, for any number of requests, jobs, slots,     *)
(* models and HTTP threads: the promises of TaskService, what ServerSleep  *)
(* says of sleeping and waking up, and the router's instances of           *)
(* ServerModels.  They share no variable.                                  *)
(***************************************************************************)
EXTENDS TaskService, ServerSleep, ServerModels, TLAPS

(***************************************************************************)
(* The promises of TaskService                                             *)
(***************************************************************************)
(* The types of phase, place and answers are kept by every step. *)
THEOREM TypeCorrect == Spec => []TypeOK
<1>1. Init => TypeOK
  BY DEF Init, TypeOK
<1>2. TypeOK /\ [Next]_serviceVars => TypeOK'
  <2> SUFFICES ASSUME TypeOK, [Next]_serviceVars PROVE TypeOK'
    OBVIOUS
  <2> USE ServiceAssumption DEF TypeOK
  <2>1. ASSUME NEW r \in Request, Submit(r) PROVE TypeOK'
    BY <2>1 DEF Submit, Move
  <2>2. ASSUME NEW r \in Request, Fail(r) PROVE TypeOK'
    BY <2>2 DEF Fail
  <2>3. ASSUME NEW r \in Request, Close(r) PROVE TypeOK'
    BY <2>3 DEF Close
  <2>4. ASSUME NEW j \in Job, Answer(j) PROVE TypeOK'
    BY <2>4 DEF Answer
  <2>5. ASSUME NEW j \in Job, Finish(j) PROVE TypeOK'
    BY <2>5 DEF Finish
  <2>6. ASSUME NEW S \in SUBSET Job, Start(S) PROVE TypeOK'
    BY <2>6 DEF Start, Move
  <2>7. ASSUME NEW S \in SUBSET Job, Withdraw(S) PROVE TypeOK'
    BY <2>7 DEF Withdraw, Move
  <2>8. ASSUME NEW r \in Request, NEW S \in SUBSET Jobs(r), NEW W \in SUBSET Jobs(r),
               StartFails(r, S, W)
        PROVE TypeOK'
    BY <2>8 DEF StartFails
  <2>9. CASE UNCHANGED serviceVars
    BY <2>9 DEF serviceVars
  <2> QED
    BY <2>1, <2>2, <2>3, <2>4, <2>5, <2>6, <2>7, <2>8, <2>9 DEF Next
<1> QED
  BY <1>1, <1>2, PTL DEF Spec

(* NothingLost is not inductive by itself: that a job of a request not yet *)
(* submitted is still "new" is AnswersCurrent's part.                      *)
Kept == TypeOK /\ AnswersCurrent /\ NothingLost

(* No step of any thread breaks the correspondence between a request's     *)
(* phase, the places of its jobs and their answers.                        *)
LEMMA KeptStep == Kept /\ [Next]_serviceVars => Kept'
<1> SUFFICES ASSUME Kept, [Next]_serviceVars PROVE Kept'
  OBVIOUS
<1> USE ServiceAssumption DEF Kept, TypeOK, AnswersCurrent, NothingLost
<1>1. ASSUME NEW r \in Request, Submit(r) PROVE Kept'
  BY <1>1 DEF Submit, Move, Jobs
<1>2. ASSUME NEW r \in Request, Fail(r) PROVE Kept'
  BY <1>2 DEF Fail
<1>3. ASSUME NEW r \in Request, Close(r) PROVE Kept'
  BY <1>3 DEF Close, Jobs
<1>4. ASSUME NEW j \in Job, Answer(j) PROVE Kept'
  BY <1>4 DEF Answer
<1>5. ASSUME NEW j \in Job, Finish(j) PROVE Kept'
  BY <1>5 DEF Finish, Abandoned
<1>6. ASSUME NEW S \in SUBSET Job, Start(S) PROVE Kept'
  BY <1>6 DEF Start, Move
<1>7. ASSUME NEW S \in SUBSET Job, Withdraw(S) PROVE Kept'
  BY <1>7 DEF Withdraw, Move, Abandoned
<1>8. ASSUME NEW r \in Request, NEW S \in SUBSET Jobs(r), NEW W \in SUBSET Jobs(r),
             StartFails(r, S, W)
      PROVE Kept'
  BY <1>8 DEF StartFails, Jobs
<1>9. CASE UNCHANGED serviceVars
  BY <1>9 DEF serviceVars
<1> QED
  BY <1>1, <1>2, <1>3, <1>4, <1>5, <1>6, <1>7, <1>8, <1>9 DEF Next

(* Kept holds of every run of the service. *)
LEMMA KeptAlways == Spec => []Kept
<1>1. Init => Kept
  BY ServiceAssumption DEF Init, Kept, TypeOK, AnswersCurrent, NothingLost
<1> QED
  BY <1>1, KeptStep, PTL DEF Spec

(* Whatever the number of requests, jobs and slots, a job of an open       *)
(* request leaves the scheduler only when it has been answered.            *)
THEOREM NoJobLost == Spec => []NothingLost
<1>1. Kept => NothingLost
  BY DEF Kept
<1> QED
  BY <1>1, KeptAlways, PTL

(* Answers are kept only for requests that are still read. *)
THEOREM AnswersAreCurrent == Spec => []AnswersCurrent
<1>1. Kept => AnswersCurrent
  BY DEF Kept
<1> QED
  BY <1>1, KeptAlways, PTL

(* What is gone stays gone: no cancelled or finished task comes back, and  *)
(* no answer is taken back before the request is closed.                   *)
THEOREM JobsNeverRestart == Spec => NeverRestarted
<1>1. Kept /\ [Next]_serviceVars => [StaysGone]_serviceVars
  <2> SUFFICES ASSUME Kept, Next PROVE StaysGone
    OBVIOUS
  <2> USE ServiceAssumption DEF Kept, TypeOK, AnswersCurrent, StaysGone
  <2>1. ASSUME NEW r \in Request, Submit(r) PROVE StaysGone
    BY <2>1 DEF Submit, Move, Jobs
  <2>2. ASSUME NEW r \in Request, Fail(r) PROVE StaysGone
    BY <2>2 DEF Fail
  <2>3. ASSUME NEW r \in Request, Close(r) PROVE StaysGone
    BY <2>3 DEF Close, Jobs
  <2>4. ASSUME NEW j \in Job, Answer(j) PROVE StaysGone
    BY <2>4 DEF Answer
  <2>5. ASSUME NEW j \in Job, Finish(j) PROVE StaysGone
    BY <2>5 DEF Finish
  <2>6. ASSUME NEW S \in SUBSET Job, Start(S) PROVE StaysGone
    BY <2>6 DEF Start, Move
  <2>7. ASSUME NEW S \in SUBSET Job, Withdraw(S) PROVE StaysGone
    BY <2>7 DEF Withdraw, Move
  <2>8. ASSUME NEW r \in Request, NEW S \in SUBSET Jobs(r), NEW W \in SUBSET Jobs(r),
               StartFails(r, S, W)
        PROVE StaysGone
    BY <2>8 DEF StartFails
  <2> QED
    BY <2>1, <2>2, <2>3, <2>4, <2>5, <2>6, <2>7, <2>8 DEF Next
<1> QED
  BY <1>1, KeptAlways, PTL DEF Spec, NeverRestarted

(***************************************************************************)
(* Sleeping and waking up                                                  *)
(***************************************************************************)
(* The types of the queue's fields are kept by every step. *)
THEOREM SleepTypeCorrect == SleepSpec => []SleepTypeOK
<1>1. SleepInit => SleepTypeOK
  BY DEF SleepInit, SleepTypeOK
<1>2. SleepTypeOK /\ [SleepNext]_sleepVars => SleepTypeOK'
  <2> SUFFICES ASSUME SleepTypeOK, [SleepNext]_sleepVars PROVE SleepTypeOK'
    OBVIOUS
  <2> USE DEF SleepTypeOK, flags
  <2>1. StartLoop => SleepTypeOK'       BY DEF StartLoop
  <2>2. Take => SleepTypeOK'            BY DEF Take, Goto
  <2>3. UpdateSlots => SleepTypeOK'     BY DEF UpdateSlots
  <2>4. NewTasks => SleepTypeOK'        BY DEF NewTasks
  <2>5. WaitForTasks => SleepTypeOK'    BY DEF WaitForTasks
  <2>6. IdleEnds => SleepTypeOK'        BY DEF IdleEnds
  <2>7. FallAsleep => SleepTypeOK'      BY DEF FallAsleep
  <2>8. EndAsleep => SleepTypeOK'       BY DEF EndAsleep
  <2>9. Awake => SleepTypeOK'           BY DEF Awake
  <2>10. SleepOn => SleepTypeOK'        BY DEF SleepOn
  <2>11. Terminate => SleepTypeOK'      BY DEF Terminate
  <2>12. ASSUME NEW t \in Thread PROVE WaitUntilNoSleep(t) => SleepTypeOK'
    BY DEF WaitUntilNoSleep, NotifyOne, Goto
  <2>13. ASSUME NEW t \in Thread PROVE RecheckSleep(t) => SleepTypeOK'
    BY DEF RecheckSleep, Goto
  <2>14. ASSUME NEW t \in Thread PROVE Post(t) => SleepTypeOK'
    BY DEF Post, NotifyOne, Goto
  <2>15. UNCHANGED sleepVars => SleepTypeOK'
    BY DEF sleepVars
  <2> QED
    BY <2>1, <2>2, <2>3, <2>4, <2>5, <2>6, <2>7, <2>8, <2>9, <2>10, <2>11, <2>12, <2>13,
       <2>14, <2>15 DEF SleepNext, MainStep, ThreadStep
<1> QED
  BY <1>1, <1>2, PTL DEF SleepSpec

(* Where the main thread is tells whether the server sleeps; only a loop   *)
(* that was told to end while asleep leaves that state without waking up.  *)
LoopInv ==
    /\ sleeping <=> ~model
    /\ mpc = "asleep" => sleeping
    /\ mpc \in {"begin", "update", "check", "idle"} => ~sleeping
    /\ mpc = "take" /\ running => ~sleeping
    /\ mpc = "returned" => ~running

(* Every step keeps LoopInv. *)
LEMMA LoopStep == SleepTypeOK /\ LoopInv /\ [SleepNext]_sleepVars => LoopInv'
<1> SUFFICES ASSUME SleepTypeOK, LoopInv, [SleepNext]_sleepVars PROVE LoopInv'
  OBVIOUS
<1> USE DEF SleepTypeOK, LoopInv, flags
<1>1. StartLoop => LoopInv'       BY DEF StartLoop
<1>2. Take => LoopInv'            BY DEF Take
<1>3. UpdateSlots => LoopInv'     BY DEF UpdateSlots
<1>4. NewTasks => LoopInv'        BY DEF NewTasks
<1>5. WaitForTasks => LoopInv'    BY DEF WaitForTasks
<1>6. IdleEnds => LoopInv'        BY DEF IdleEnds
<1>7. FallAsleep => LoopInv'      BY DEF FallAsleep
<1>8. EndAsleep => LoopInv'       BY DEF EndAsleep
<1>9. Awake => LoopInv'           BY DEF Awake
<1>10. SleepOn => LoopInv'        BY DEF SleepOn
<1>11. Terminate => LoopInv'      BY DEF Terminate
<1>12. ASSUME NEW t \in Thread
       PROVE  WaitUntilNoSleep(t) \/ RecheckSleep(t) \/ Post(t) => LoopInv'
  BY DEF WaitUntilNoSleep, RecheckSleep, Post
<1>13. UNCHANGED sleepVars => LoopInv'
  BY DEF sleepVars
<1> QED
  BY <1>1, <1>2, <1>3, <1>4, <1>5, <1>6, <1>7, <1>8, <1>9, <1>10, <1>11, <1>12, <1>13
  DEF SleepNext, MainStep, ThreadStep

(* LoopInv holds of every run of the main loop. *)
THEOREM LoopKept == SleepSpec => []LoopInv
<1>1. SleepInit => LoopInv
  BY DEF SleepInit, LoopInv
<1> QED
  BY <1>1, LoopStep, SleepTypeCorrect, PTL DEF SleepSpec

(* Tasks are processed and slots updated only with the model loaded. *)
THEOREM TasksFindModel == SleepSpec => []TasksHaveModel
<1>1. LoopInv => TasksHaveModel
  BY DEF LoopInv, TasksHaveModel
<1> QED
  BY <1>1, LoopKept, PTL

(* The flag, the loop and the model agree on whether the server sleeps:    *)
(* handle_sleeping_state is called with true and false in turn. *)
THEOREM SleepAgreed == SleepSpec => []SleepsAsTold
<1>1. SleepTypeOK /\ LoopInv => SleepsAsTold
  BY DEF SleepTypeOK, LoopInv, SleepsAsTold
<1> QED
  BY <1>1, LoopKept, SleepTypeCorrect, PTL

(* An HTTP thread is in the wait set of condition_tasks only while the     *)
(* server sleeps. *)
THEOREM OnlySleepAwaited == SleepSpec => []WaitsForSleeper
<1>1. SleepInit => WaitsForSleeper
  BY DEF SleepInit, WaitsForSleeper
<1>2. SleepTypeOK /\ LoopInv /\ WaitsForSleeper /\ [SleepNext]_sleepVars => WaitsForSleeper'
  <2> SUFFICES ASSUME SleepTypeOK, LoopInv, WaitsForSleeper, [SleepNext]_sleepVars PROVE WaitsForSleeper'
    OBVIOUS
  <2> USE SleepAssumption DEF SleepTypeOK, WaitsForSleeper, flags
  <2>1. StartLoop => WaitsForSleeper'       BY DEF StartLoop
  <2>2. Take => WaitsForSleeper'
    BY DEF Take, Goto, LoopInv
  <2>3. UpdateSlots => WaitsForSleeper'     BY DEF UpdateSlots
  <2>4. NewTasks => WaitsForSleeper'        BY DEF NewTasks
  <2>5. WaitForTasks => WaitsForSleeper'    BY DEF WaitForTasks
  <2>6. IdleEnds => WaitsForSleeper'        BY DEF IdleEnds
  <2>7. FallAsleep => WaitsForSleeper'      BY DEF FallAsleep
  <2>8. EndAsleep => WaitsForSleeper'       BY DEF EndAsleep
  <2>9. Awake => WaitsForSleeper'           BY DEF Awake
  <2>10. SleepOn => WaitsForSleeper'        BY DEF SleepOn
  <2>11. Terminate => WaitsForSleeper'      BY DEF Terminate
  <2>12. ASSUME NEW t \in Thread PROVE WaitUntilNoSleep(t) => WaitsForSleeper'
    BY DEF WaitUntilNoSleep, NotifyOne, Goto
  <2>13. ASSUME NEW t \in Thread PROVE RecheckSleep(t) => WaitsForSleeper'
    BY DEF RecheckSleep, Goto
  <2>14. ASSUME NEW t \in Thread PROVE Post(t) => WaitsForSleeper'
    BY DEF Post, NotifyOne, Goto
  <2>15. UNCHANGED sleepVars => WaitsForSleeper'
    BY DEF sleepVars
  <2> QED
    BY <2>1, <2>2, <2>3, <2>4, <2>5, <2>6, <2>7, <2>8, <2>9, <2>10, <2>11, <2>12, <2>13,
       <2>14, <2>15 DEF SleepNext, MainStep, ThreadStep
<1> QED
  BY <1>1, <1>2, LoopKept, SleepTypeCorrect, PTL DEF SleepSpec

(***************************************************************************)
(* The router's instances                                                  *)
(***************************************************************************)
(* The types of the router's state are kept by every step. *)
THEOREM RouterTypeCorrect == RouterSpec => []RouterTypeOK
<1>1. RouterInit => RouterTypeOK
  BY ModelsAssumption DEF RouterInit, RouterTypeOK, UserPC
<1>2. RouterTypeOK /\ [RouterNext]_routerVars => RouterTypeOK'
  <2> SUFFICES ASSUME RouterTypeOK, [RouterNext]_routerVars PROVE RouterTypeOK'
    OBVIOUS
  <2> USE ModelsAssumption DEF RouterTypeOK, metaVars, instanceVars, userVars
  <2>1. ASSUME NEW u \in User, GetMeta(u) PROVE RouterTypeOK'
    BY <2>1 DEF GetMeta, At, Proceed, UserPC
  <2>2. ASSUME NEW u \in User, UnloadLru(u) PROVE RouterTypeOK'
    BY <2>2 DEF UnloadLru, At, Proceed, ReadClock, Lru, UsedBefore, UserPC
  <2>3. ASSUME NEW u \in User, Evict(u) PROVE RouterTypeOK'
    BY <2>3 DEF Evict, At, Proceed, Unload, UserPC
  <2>4. ASSUME NEW u \in User, EvictWait(u) PROVE RouterTypeOK'
    BY <2>4 DEF EvictWait, At, Proceed, UserPC
  <2>5. ASSUME NEW u \in User, Load(u) PROVE RouterTypeOK'
    BY <2>5 DEF Load, At, Proceed, ReadClock, AfterLoad, UserPC
  <2>6. ASSUME NEW u \in User, LoadNotReady(u) PROVE RouterTypeOK'
    BY <2>6 DEF LoadNotReady, At, Proceed, AfterLoad, UserPC
  <2>7. ASSUME NEW u \in User, LoadThrows(u) PROVE RouterTypeOK'
    BY <2>7 DEF LoadThrows, At, Proceed, UserPC
  <2>8. ASSUME NEW u \in User, WaitUntilLoaded(u) PROVE RouterTypeOK'
    BY <2>8 DEF WaitUntilLoaded, At, Proceed, UserPC
  <2>9. ASSUME NEW u \in User, CheckLoaded(u) PROVE RouterTypeOK'
    BY <2>9 DEF CheckLoaded, At, Proceed, UserPC
  <2>10. ASSUME NEW u \in User, ProxyRequest(u) PROVE RouterTypeOK'
    BY <2>10 DEF ProxyRequest, At, Proceed, UserPC
  <2>11. ASSUME NEW u \in User, Touch(u) PROVE RouterTypeOK'
    BY <2>11 DEF Touch, At, Proceed, ReadClock, UserPC
  <2>12. ASSUME NEW u \in User, UnloadRoute(u) PROVE RouterTypeOK'
    BY <2>12 DEF UnloadRoute, At, Proceed, Unload, UserPC
  <2>13. ASSUME NEW u \in User, UnloadAll(u) PROVE RouterTypeOK'
    BY <2>13 DEF UnloadAll, At, Proceed, UserPC
  <2>14. ASSUME NEW u \in User, JoinAll(u) PROVE RouterTypeOK'
    BY <2>14 DEF JoinAll, At, Proceed, UserPC
  <2>15. ASSUME NEW m \in Model, ReadReady(m) PROVE RouterTypeOK'
    BY <2>15 DEF ReadReady
  <2>16. ASSUME NEW m \in Model, ChildGone(m) PROVE RouterTypeOK'
    BY <2>16 DEF ChildGone
  <2>17. ASSUME NEW m \in Model, JoinStopper(m) PROVE RouterTypeOK'
    BY <2>17 DEF JoinStopper
  <2>18. ASSUME NEW m \in Model, Reap(m) PROVE RouterTypeOK'
    BY <2>18 DEF Reap
  <2>19. ASSUME NEW m \in Model, StopChild(m) PROVE RouterTypeOK'
    BY <2>19 DEF StopChild
  <2>20. ASSUME NEW m \in Model, ChildStopped(m) PROVE RouterTypeOK'
    BY <2>20 DEF ChildStopped
  <2>21. ASSUME NEW m \in Model, StopTimeout(m) PROVE RouterTypeOK'
    BY <2>21 DEF StopTimeout
  <2>22. ASSUME NEW m \in Model, ChildReady(m) PROVE RouterTypeOK'
    BY <2>22 DEF ChildReady
  <2>23. ASSUME NEW m \in Model, ChildExits(m) PROVE RouterTypeOK'
    BY <2>23 DEF ChildExits
  <2>24. CASE UNCHANGED routerVars
    BY <2>24 DEF routerVars
  <2> QED
    BY <2>1, <2>2, <2>3, <2>4, <2>5, <2>6, <2>7, <2>8, <2>9, <2>10, <2>11, <2>12, <2>13, <2>14, <2>15, <2>16, <2>17, <2>18, <2>19, <2>20, <2>21, <2>22, <2>23, <2>24 DEF RouterNext, UserStep, InstanceStep
<1> QED
  BY <1>1, <1>2, PTL DEF RouterSpec

(* A step of an HTTP thread starts an instance of an unloaded model, or    *)
(* leaves every instance and every status as it is.                        *)
LEMMA UserLeavesInstances ==
  ASSUME NEW u \in User, UserStep(u), RouterTypeOK
  PROVE  UNCHANGED <<status, manager, stopper, child, ready_line>> \/ Load(u)
<1> USE DEF metaVars, instanceVars
<1>1. CASE GetMeta(u)
  BY <1>1 DEF GetMeta
<1>2. CASE UnloadLru(u)
  BY <1>2 DEF UnloadLru
<1>3. CASE Evict(u)
  BY <1>3 DEF Evict
<1>4. CASE EvictWait(u)
  BY <1>4 DEF EvictWait
<1>5. CASE Load(u)
  BY <1>5
<1>6. CASE LoadNotReady(u)
  BY <1>6 DEF LoadNotReady
<1>7. CASE LoadThrows(u)
  BY <1>7 DEF LoadThrows
<1>8. CASE WaitUntilLoaded(u)
  BY <1>8 DEF WaitUntilLoaded
<1>9. CASE CheckLoaded(u)
  BY <1>9 DEF CheckLoaded
<1>10. CASE ProxyRequest(u)
  BY <1>10 DEF ProxyRequest
<1>11. CASE Touch(u)
  BY <1>11 DEF Touch
<1>12. CASE UnloadRoute(u)
  BY <1>12 DEF UnloadRoute
<1>13. CASE UnloadAll(u)
  BY <1>13 DEF UnloadAll
<1>14. CASE JoinAll(u)
  BY <1>14 DEF JoinAll
<1> QED
  BY <1>1, <1>2, <1>3, <1>4, <1>5, <1>6, <1>7, <1>8, <1>9, <1>10, <1>11, <1>12, <1>13, <1>14 DEF UserStep

(* The inductive invariant: how the status, the threads and the process of *)
(* an instance go together. *)
InstanceOrder ==
    \A m \in Model :
        /\ status[m] = "UNLOADED" <=> manager[m] = "none"
        /\ manager[m] = "none" => stopper[m] = "none" /\ child[m] = "none" /\ ~ready_line[m]
        /\ manager[m] # "none" => stopper[m] # "none" /\ child[m] # "none"
        /\ manager[m] \in {"join", "reap"} => child[m] \in {"exit0", "exit1"} /\ ~ready_line[m]
        /\ manager[m] = "reap" => stopper[m] = "done"
        /\ ready_line[m] => status[m] = "LOADING" /\ child[m] # "starting"
        /\ status[m] = "LOADED" => child[m] # "starting"

(* The threads of an instance end, and its status changes, in the order    *)
(* of the managing thread's body.                                          *)
LEMMA OrderStep ==
  ASSUME RouterTypeOK, InstanceOrder, [RouterNext]_routerVars
  PROVE  InstanceOrder'
<1> USE ModelsAssumption DEF RouterTypeOK, InstanceOrder, metaVars, instanceVars, userVars
<1>1. ASSUME NEW u \in User, UserStep(u) PROVE InstanceOrder'
  <2>1. CASE UNCHANGED <<status, manager, stopper, child, ready_line>>
    BY <2>1
  <2>2. CASE Load(u)
    BY <2>2 DEF Load
  <2> QED
    BY <1>1, <2>1, <2>2, UserLeavesInstances
<1>2. ASSUME NEW m \in Model, ReadReady(m) PROVE InstanceOrder'
  BY <1>2 DEF ReadReady
<1>3. ASSUME NEW m \in Model, ChildGone(m) PROVE InstanceOrder'
  BY <1>3 DEF ChildGone
<1>4. ASSUME NEW m \in Model, JoinStopper(m) PROVE InstanceOrder'
  BY <1>4 DEF JoinStopper
<1>5. ASSUME NEW m \in Model, Reap(m) PROVE InstanceOrder'
  BY <1>5 DEF Reap
<1>6. ASSUME NEW m \in Model, StopChild(m) PROVE InstanceOrder'
  BY <1>6 DEF StopChild
<1>7. ASSUME NEW m \in Model, ChildStopped(m) PROVE InstanceOrder'
  BY <1>7 DEF ChildStopped
<1>8. ASSUME NEW m \in Model, StopTimeout(m) PROVE InstanceOrder'
  BY <1>8 DEF StopTimeout
<1>9. ASSUME NEW m \in Model, ChildReady(m) PROVE InstanceOrder'
  BY <1>9 DEF ChildReady
<1>10. ASSUME NEW m \in Model, ChildExits(m) PROVE InstanceOrder'
  BY <1>10 DEF ChildExits
<1>11. CASE UNCHANGED routerVars
  BY <1>11 DEF routerVars
<1> HIDE DEF RouterTypeOK, InstanceOrder
<1> QED
  BY <1>1, <1>2, <1>3, <1>4, <1>5, <1>6, <1>7, <1>8, <1>9, <1>10, <1>11 DEF RouterNext, InstanceStep

(* The order of an instance's threads holds of every run of the router. *)
THEOREM OrderKept == RouterSpec => []InstanceOrder
<1>1. RouterInit => InstanceOrder
  BY DEF RouterInit, InstanceOrder
<1> QED
  BY <1>1, OrderStep, RouterTypeCorrect, PTL DEF RouterSpec

(* load() finds the process, the managing thread and the stopping thread   *)
(* of an unloaded model gone: joining the thread under the mutex is safe.  *)
THEOREM OldInstanceIsGone == RouterSpec => []OldInstanceGone
<1>1. InstanceOrder => OldInstanceGone
  BY DEF InstanceOrder, OldInstanceGone
<1> QED
  BY <1>1, OrderKept, PTL

(* A model's status is LOADED only once its present child has announced    *)
(* itself.                                                                 *)
THEOREM LoadedAreReady == RouterSpec => []LoadedIsReady
<1>1. InstanceOrder => LoadedIsReady
  BY DEF InstanceOrder, LoadedIsReady
<1> QED
  BY <1>1, OrderKept, PTL

(* The status of a model leaves LOADING or LOADED for UNLOADED only after  *)
(* its process has exited, and moves only along the state diagram.         *)
LEMMA StatusStep ==
  ASSUME RouterTypeOK, InstanceOrder, [RouterNext]_routerVars
  PROVE  ExitBeforeUnloaded /\ DiagramStep
<1> USE DEF RouterTypeOK, InstanceOrder, ExitBeforeUnloaded, DiagramStep,
            metaVars, instanceVars, userVars
<1>1. ASSUME NEW u \in User, UserStep(u) PROVE ExitBeforeUnloaded /\ DiagramStep
  <2>1. CASE UNCHANGED <<status, manager, stopper, child, ready_line>>
    BY <2>1
  <2>2. CASE Load(u)
    BY <2>2, ModelsAssumption DEF Load
  <2> QED
    BY <1>1, <2>1, <2>2, UserLeavesInstances
<1>2. ASSUME NEW m \in Model, ReadReady(m) PROVE ExitBeforeUnloaded /\ DiagramStep
  BY <1>2 DEF ReadReady
<1>3. ASSUME NEW m \in Model, Reap(m) PROVE ExitBeforeUnloaded /\ DiagramStep
  BY <1>3 DEF Reap
<1>4. CASE UNCHANGED status
  BY <1>4
<1> QED
  BY <1>1, <1>2, <1>3, <1>4
  DEF RouterNext, InstanceStep, ChildGone, JoinStopper, StopChild, ChildStopped, StopTimeout,
      ChildReady, ChildExits, routerVars

(* No model is marked unloaded while its process may still run. *)
THEOREM UnloadsAfterExit == RouterSpec => UnloadedAfterExit
BY StatusStep, OrderKept, RouterTypeCorrect, PTL DEF RouterSpec, UnloadedAfterExit

(* The status follows the state diagram of server-models.h. *)
THEOREM FollowsDiagram == RouterSpec => StateDiagram
BY StatusStep, OrderKept, RouterTypeCorrect, PTL DEF RouterSpec, StateDiagram
=============================================================================
