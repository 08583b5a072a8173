----------------------------- MODULE TaskControl -----------------------------
(***************************************************************************)
(* start_task, stop_task and remove_task on one task: TaskManager's entry  *)
(* for it, the mutex mu_, the shared_ptr to its executor, and the executor *)
(* itself (GraphExecutor), called by the client threads of the management  *)
(* socket, and by main through startAll and stopAll.                       *)
(*                                                                         *)
(* start and stop write the entry's state under mu_ but call the executor  *)
(* after releasing it; removeTask calls it while holding mu_.  Whoever     *)
(* drops the last reference to the executor runs its destructor, which is  *)
(* stop().                                                                 *)
(***************************************************************************)
EXTENDS GraphExecutor

VARIABLES
    entry,  \* the state in entries_[task], or Absent
    mu,     \* the client holding mu_ across a step, or NoOne
    op      \* the TaskManager operation each client is in

tvars == <<vars, entry, mu, op>>

Running == "Running"
Stopped == "Stopped"
Absent  == "Absent"
NoOne   == "NoOne"
\* loadAll has built the task; main is about to call startAll.
ControlInit ==
    /\ Init
    /\ entry = Stopped
    /\ mu = NoOne
    /\ op = [c \in Controllers |-> "none"]

\* Clients that hold a copy of the shared_ptr to the executor.
Holders == {c \in Controllers : op[c] \in {"start", "stop"}}

\* c is inside operation o and calls the executor's f.
CallExecutor(c, o, f) ==
    /\ op' = [op EXCEPT ![c] = o]
    /\ Goto(c, f, {})

execRest == <<running, queue, stopped, stageUp, workerThreads, gen, runs>>

-----------------------------------------------------------------------------
\* TaskManager::start up to the unlock; a task that is already Running, or
\* absent, is left alone and the call returns.
StartTask(c) ==
    /\ op[c] = "none"
    /\ mu = NoOne
    /\ entry = Stopped
    /\ StartAllowed
    /\ entry' = Running
    /\ CallExecutor(c, "start", "start")
    /\ UNCHANGED <<mu, execRest, workVars, ownVars>>

\* TaskManager::stop up to the unlock.
StopTask(c) ==
    /\ op[c] = "none"
    /\ mu = NoOne
    /\ entry = Running
    /\ entry' = Stopped
    /\ CallExecutor(c, "stop", "stop")
    /\ UNCHANGED <<mu, execRest, workVars, ownVars>>

\* TaskManager::removeTask: a Running task is stopped first, under mu_.
RemoveTask(c) ==
    /\ op[c] = "none"
    /\ mu = NoOne
    /\ entry # Absent
    /\ mu' = c
    /\ IF entry = Running
       THEN CallExecutor(c, "remove", "stop")
       ELSE op' = [op EXCEPT ![c] = "remove"] /\ UNCHANGED <<call, todo>>
    /\ UNCHANGED <<entry, execRest, workVars, ownVars>>

\* entries_.erase(it): the executor dies here unless a client still holds it.
EraseEntry(c) ==
    /\ op[c] = "remove"
    /\ call[c] = Idle
    /\ entry' = Absent
    /\ IF Holders = {}
       THEN CallExecutor(c, "destroy", "stop") /\ UNCHANGED mu
       ELSE /\ op' = [op EXCEPT ![c] = "none"]
            /\ mu' = NoOne
            /\ UNCHANGED <<call, todo>>
    /\ UNCHANGED <<execRest, workVars, ownVars>>

\* Mutant: the executor is kept by a plain pointer, nobody destroys it.
DropReferenceOnly(c) ==
    /\ op[c] \in {"start", "stop"}
    /\ call[c] = Idle
    /\ op' = [op EXCEPT ![c] = "none"]
    /\ UNCHANGED <<entry, mu, call, todo, execRest, workVars, ownVars>>

\* The executor's start() or stop() has returned; the client's copy of the
\* shared_ptr goes out of scope and may be the last.
DropReference(c) ==
    /\ op[c] \in {"start", "stop"}
    /\ call[c] = Idle
    /\ IF entry = Absent /\ Holders = {c}
       THEN CallExecutor(c, "destroy", "stop")
       ELSE op' = [op EXCEPT ![c] = "none"] /\ UNCHANGED <<call, todo>>
    /\ UNCHANGED <<entry, mu, execRest, workVars, ownVars>>

\* The destructor has run; removeTask also lets go of mu_.
Destroyed(c) ==
    /\ op[c] = "destroy"
    /\ call[c] = Idle
    /\ op' = [op EXCEPT ![c] = "none"]
    /\ mu' = IF mu = c THEN NoOne ELSE mu
    /\ UNCHANGED <<entry, call, todo, execRest, workVars, ownVars>>

TaskStep(c) ==
    \/ EraseEntry(c) \/ DropReference(c) \/ Destroyed(c)
    \/ ControllerStep(c) /\ UNCHANGED <<entry, mu, op>>

Step(t) == WorkerStep(t) /\ UNCHANGED <<entry, mu, op>>

\* The threads of a stage.
StageStep ==
    /\ \/ \E s \in Keepers \X StageThreads : OwnThreadStep(s)
       \/ \E n \in Keepers : AnswerLost(n)
    /\ UNCHANGED <<entry, mu, op>>

ControlNext ==
    \/ \E c \in Controllers : StartTask(c) \/ StopTask(c) \/ RemoveTask(c) \/ TaskStep(c)
    \/ \E t \in Threads : Step(t)
    \/ StageStep

ControlFairness ==
    /\ \A c \in Controllers : WF_tvars(TaskStep(c))
    /\ \A t \in Threads : WF_tvars(Step(t))
    /\ \A s \in Keepers \X StageThreads :
          WF_tvars(AnswerPush(s) /\ UNCHANGED <<entry, mu, op>>)

ControlSpec == ControlInit /\ [][ControlNext]_tvars /\ ControlFairness

-----------------------------------------------------------------------------
\* worker_threads_ has no lock.  A start() that appends to it while a stop()
\* walks it is a data race, after which nothing can be said of the process:
\* the runs with two clients follow a behaviour up to such a moment only.
NoDataRace == \A c, d \in Controllers : ~(call[c] = "spawn" /\ call[d] = "join")

Quiet == \A c \in Controllers : op[c] = "none"

\* A removed task does not run once every operation has returned, even when
\* its removal raced with a start that had already taken the executor out of
\* entries_: whoever drops the last reference stops it.
RemovedIsDead == Quiet /\ entry = Absent => ~running

\* Every management operation returns: the join inside removeTask cannot wait
\* for anyone who waits for mu_.
OperationsReturn == \A c \in Controllers : op[c] # "none" ~> op[c] = "none"
=============================================================================
