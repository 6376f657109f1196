---------------------------- MODULE TaskService ----------------------------
(***************************************************************************)
(* What llama-server promises its clients, without queues, messages and    *)
(* rounds: a request submits its jobs together, every job waits, runs on   *)
(* one of Capacity slots and is gone afterwards, and while nobody has      *)
(* given up on the request a job is gone only when it has been answered.   *)
(* LlamaServer implements this specification (see LlamaServerRefinement).  *)
(***************************************************************************)
EXTENDS Integers, FiniteSets

CONSTANTS
    Request,
    Job,        \* a task of the server
    owner,      \* the request of each job
    Capacity    \* number of slots

ASSUME ServiceAssumption ==
    /\ owner \in [Job -> Request]
    /\ IsFiniteSet(Job)
    /\ Capacity \in Nat

VARIABLES
    phase,      \* of a request: new, open, failed (an error is on its way), closed
    place,      \* of a job: new, waiting, running, gone
    answers     \* jobs of open or failed requests with a final result

serviceVars == <<phase, place, answers>>

Jobs(r) == {j \in Job : owner[j] = r}

Running == {j \in Job : place[j] = "running"}

(* Nobody will wait for the answer of j any more. *)
Abandoned(j) == phase[owner[j]] \in {"failed", "closed"}

Init ==
    /\ phase = [r \in Request |-> "new"]
    /\ place = [j \in Job |-> "new"]
    /\ answers = {}

Move(S, to) == [j \in Job |-> IF j \in S THEN to ELSE place[j]]

(* post_tasks: the jobs of a request are queued together. *)
Submit(r) ==
    /\ phase[r] = "new"
    /\ phase' = [phase EXCEPT ![r] = "open"]
    /\ place' = Move(Jobs(r), "waiting")
    /\ UNCHANGED answers

(* Mutant: a job may start twice. *)
Start_again(S) ==
    /\ \A j \in S : place[j] \in {"waiting", "gone"}
    /\ Cardinality(Running \cup S) <= Capacity
    /\ place' = Move(S, "running")
    /\ UNCHANGED <<phase, answers>>

(* A task starts, with its children, when there are slots for all of them. *)
Start(S) ==
    /\ \A j \in S : place[j] = "waiting"
    /\ Cardinality(Running \cup S) <= Capacity
    /\ place' = Move(S, "running")
    /\ UNCHANGED <<phase, answers>>

(* A task that cannot start, or cannot be carried out at once, fails its   *)
(* request: S did start, W did not.                                        *)
StartFails(r, S, W) ==
    /\ \A j \in S \cup W : place[j] = "waiting" /\ owner[j] = r
    /\ S \cap W = {}
    /\ Cardinality(Running \cup S) <= Capacity
    /\ phase' = [phase EXCEPT ![r] = IF @ = "open" THEN "failed" ELSE @]
    /\ place' = [j \in Job |-> IF j \in S THEN "running" ELSE IF j \in W THEN "gone" ELSE place[j]]
    /\ UNCHANGED answers

(* The final result; what needs no slot is gone with it. *)
Answer(j) ==
    /\ phase[owner[j]] \in {"open", "failed"}
    /\ place[j] \in {"waiting", "running"}
    /\ j \notin answers
    /\ answers' = answers \cup {j}
    /\ place' = [place EXCEPT ![j] = IF @ = "waiting" THEN "gone" ELSE @]
    /\ UNCHANGED phase

(* An error ends the whole request. *)
Fail(r) ==
    /\ phase[r] = "open"
    /\ phase' = [phase EXCEPT ![r] = "failed"]
    /\ UNCHANGED <<place, answers>>

(* Mutant: the slot may be freed at any time. *)
Finish_anytime(j) ==
    /\ place[j] = "running"
    /\ place' = [place EXCEPT ![j] = "gone"]
    /\ UNCHANGED <<phase, answers>>

(* The slot is freed. *)
Finish(j) ==
    /\ place[j] = "running"
    /\ j \in answers \/ Abandoned(j)
    /\ place' = [place EXCEPT ![j] = "gone"]
    /\ UNCHANGED <<phase, answers>>

(* Cancelled before they started. *)
Withdraw(S) ==
    /\ \A j \in S : place[j] = "waiting" /\ Abandoned(j)
    /\ place' = Move(S, "gone")
    /\ UNCHANGED <<phase, answers>>

(* The reader has all it waited for, or an error, or its client is gone. *)
Close(r) ==
    /\ phase[r] \in {"open", "failed"}
    /\ phase' = [phase EXCEPT ![r] = "closed"]
    /\ answers' = answers \ Jobs(r)
    /\ UNCHANGED place

Next ==
    \/ \E r \in Request : Submit(r) \/ Fail(r) \/ Close(r)
    \/ \E j \in Job : Answer(j) \/ Finish(j)
    \/ \E S \in SUBSET Job : Start(S) \/ Withdraw(S)
    \/ \E r \in Request : \E S, W \in SUBSET Jobs(r) : StartFails(r, S, W)

Spec == Init /\ [][Next]_serviceVars

-----------------------------------------------------------------------------
TypeOK ==
    /\ phase \in [Request -> {"new", "open", "failed", "closed"}]
    /\ place \in [Job -> {"new", "waiting", "running", "gone"}]
    /\ answers \subseteq Job

(* A job of an open request that has left the scheduler has been answered: *)
(* server_queue and the slots never lose a task.                           *)
NothingLost == \A j \in Job : phase[owner[j]] = "open" /\ place[j] = "gone" => j \in answers

(* Jobs enter the scheduler with their request, and answers are kept only  *)
(* for requests somebody still reads.                                      *)
AnswersCurrent ==
    /\ \A j \in Job : place[j] = "new" <=> phase[owner[j]] = "new"
    /\ \A j \in answers : /\ phase[owner[j]] \in {"open", "failed"}
                          /\ place[j] \in {"running", "gone"}

(* A job that is gone never runs again, and an answer is taken back only   *)
(* when its request is closed.                                             *)
StaysGone ==
    \A j \in Job : /\ place[j] = "gone" => place'[j] = "gone"
                   /\ j \in answers => j \in answers' \/ phase'[owner[j]] = "closed"

(* Every step of the service respects that: no cancelled or finished task  *)
(* of server_queue comes back to life.                                     *)
NeverRestarted == [][StaysGone]_serviceVars
=============================================================================
