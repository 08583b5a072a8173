-------------------------- MODULE TaskControlProofs --------------------------
(***************************************************************************)
(* What TaskManager promises about a task, for every pipeline graph.       *)
(*                                                                         *)
(* RemovedIsDead holds for any number of client threads: it rests on who   *)
(* holds a reference to the executor, and not on how far start() and       *)
(* stop() have got when they overlap.                                      *)
(***************************************************************************)
EXTENDS TaskControl, GraphExecutorProofs

\* Behaviours of TaskControl without its fairness.
ControlSafety == ControlInit /\ [][ControlNext]_tvars

Ops == {"none", "start", "stop", "remove", "destroy"}

\* Where a client can be in the executor, by the operation it is in.
ControlShape ==
    /\ op \in [Controllers -> Ops]
    /\ call \in [Controllers -> Calls]
    /\ \A c \in Controllers : call[c] \in {"start", "reopen", "spawn"} => op[c] = "start"
    /\ \A c \in Controllers : op[c] = "none" => call[c] = Idle

\* c runs, or is about to run, the stop() of the executor's destructor.
Destroying(c) == op[c] = "destroy" /\ call[c] = "stop"

\* An executor that runs without an entry is held by a client, or somebody is
\* about to stop it.
HeldOrStopped ==
    entry = Absent /\ running =>
        \E c \in Controllers : c \in Holders \/ Destroying(c)

RefInv == ControlShape /\ HeldOrStopped

-----------------------------------------------------------------------------
\* What every step of start() and stop() does to the caller's place, and to
\* running_: only start() sets it, only the first step of stop() clears it.
LEMMA ControllerMoves ==
  ASSUME NEW c \in Controllers, ControllerStep(c), ControlShape
  PROVE  /\ \E p \in Calls : call' = [call EXCEPT ![c] = p]
         /\ call'[c] \in {"start", "reopen", "spawn"} => call[c] \in {"start", "reopen", "spawn"}
         /\ call[c] # Idle
         /\ running' => (running /\ call[c] # "stop") \/ call[c] = "start"
<1>. USE DEF ControlShape, Calls, Idle
<1>1. CASE StartBegin(c)
  BY <1>1 DEF StartBegin, Goto
<1>2. CASE ReopenEdge(c)
  BY <1>2 DEF ReopenEdge, Goto, Did
<1>3. CASE SpawnWorker(c)
  BY <1>3 DEF SpawnWorker, Goto, Did
<1>4. CASE StopBegin(c)
  BY <1>4 DEF StopBegin, Goto
<1>5. CASE StopEdge(c)
  BY <1>5 DEF StopEdge, Goto, Did
<1>6. CASE JoinWorkers(c)
  BY <1>6 DEF JoinWorkers, Goto
<1>7. CASE ReleaseStage(c)
  BY <1>7 DEF ReleaseStage, Goto, Did
<1>. QED
  BY <1>1, <1>2, <1>3, <1>4, <1>5, <1>6, <1>7 DEF ControllerStep

\* The operations of TaskManager keep RefInv: an entry is erased, and a
\* reference dropped, only with somebody left to stop the executor.
LEMMA ManagerKeepsRefInv ==
  ASSUME RefInv, NEW c \in Controllers,
         StartTask(c) \/ StopTask(c) \/ RemoveTask(c)
           \/ EraseEntry(c) \/ DropReference(c) \/ Destroyed(c)
  PROVE  RefInv'
<1>. USE DEF RefInv, ControlShape, Calls, Idle, Ops
<1>1. UNCHANGED running
  BY DEF StartTask, StopTask, RemoveTask, EraseEntry, DropReference, Destroyed, execRest
<1>2. CASE StartTask(c)
  <2>1. entry' = Running /\ ControlShape'
    BY <1>2 DEF StartTask, CallExecutor, Goto
  <2>. QED
    BY <2>1 DEF HeldOrStopped, Running, Absent
<1>3. CASE StopTask(c)
  <2>1. entry' = Stopped /\ ControlShape'
    BY <1>3 DEF StopTask, CallExecutor, Goto
  <2>. QED
    BY <2>1 DEF HeldOrStopped, Stopped, Absent
<1>4. CASE RemoveTask(c)
  <2>1. entry' # Absent /\ ControlShape'
    BY <1>4 DEF RemoveTask, CallExecutor, Goto
  <2>. QED
    BY <2>1 DEF HeldOrStopped
<1>5. CASE EraseEntry(c)
  <2>1. ControlShape'
    BY <1>5 DEF EraseEntry, CallExecutor, Goto
  <2>2. CASE Holders = {}
    <3>1. op'[c] = "destroy" /\ call'[c] = "stop"
      BY <1>5, <2>2 DEF EraseEntry, CallExecutor, Goto
    <3>. QED
      BY <2>1, <3>1 DEF HeldOrStopped, Destroying
  <2>3. CASE Holders # {}
    <3>1. PICK d \in Controllers : op[d] \in {"start", "stop"}
      BY <2>3 DEF Holders
    <3>2. op'[d] = op[d]
      BY <1>5, <2>3, <3>1 DEF EraseEntry
    <3>. QED
      BY <2>1, <3>1, <3>2 DEF HeldOrStopped, Holders
  <2>. QED
    BY <2>2, <2>3
<1>6. CASE DropReference(c)
  <2>1. ControlShape' /\ UNCHANGED entry
    BY <1>6 DEF DropReference, CallExecutor, Goto
  <2>2. CASE entry = Absent /\ Holders = {c}
    <3>1. op'[c] = "destroy" /\ call'[c] = "stop"
      BY <1>6, <2>2 DEF DropReference, CallExecutor, Goto
    <3>. QED
      BY <2>1, <3>1 DEF HeldOrStopped, Destroying
  <2>3. CASE entry = Absent /\ Holders # {c}
    <3>1. PICK d \in Controllers : op[d] \in {"start", "stop"} /\ d # c
      BY <1>6, <2>3 DEF Holders, DropReference
    <3>2. op'[d] = op[d]
      BY <1>6, <2>3, <3>1 DEF DropReference
    <3>. QED
      BY <2>1, <3>1, <3>2 DEF HeldOrStopped, Holders
  <2>. QED
    BY <2>1, <2>2, <2>3 DEF HeldOrStopped
<1>7. CASE Destroyed(c)
  <2>1. /\ ControlShape' /\ UNCHANGED <<entry, call>>
        /\ op[c] = "destroy" /\ call[c] = Idle
        /\ \A d \in Controllers : d # c => op'[d] = op[d]
    BY <1>7 DEF Destroyed
  <2>2. HeldOrStopped'
    BY <1>1, <2>1 DEF HeldOrStopped, Holders, Destroying
  <2>. QED
    BY <2>1, <2>2
<1>. QED
  BY <1>2, <1>3, <1>4, <1>5, <1>6, <1>7

\* RefInv is an invariant, for any number of clients.
LEMMA RefInvariant == ControlSafety => []RefInv
<1>1. ControlInit => RefInv
  BY DEF ControlInit, Init, RefInv, ControlShape, HeldOrStopped, Calls, Ops, Idle
<1>2. RefInv /\ [ControlNext]_tvars => RefInv'
  <2>. SUFFICES ASSUME RefInv, [ControlNext]_tvars PROVE RefInv'
    OBVIOUS
  <2>1. ASSUME NEW c \in Controllers, ControllerStep(c) /\ UNCHANGED <<entry, mu, op>>
        PROVE  RefInv'
    <3>. USE DEF RefInv, ControlShape
    <3>1. PICK p \in Calls : call' = [call EXCEPT ![c] = p]
      BY <2>1, ControllerMoves
    <3>2. op[c] # "none" /\ (call'[c] \in {"start", "reopen", "spawn"} => op[c] = "start")
      BY <2>1, ControllerMoves
    <3>3. ControlShape'
      BY <2>1, <3>1, <3>2
    <3>4. ASSUME entry' = Absent, running'
          PROVE  \E d \in Controllers : op'[d] \in {"start", "stop"} \/ Destroying(d)'
      <4>1. CASE call[c] = "start"
        BY <2>1, <4>1
      <4>2. CASE running /\ call[c] # "stop"
        <5>1. PICK d \in Controllers : d \in Holders \/ Destroying(d)
          BY <2>1, <3>4, <4>2 DEF HeldOrStopped
        <5>2. CASE d \in Holders
          BY <2>1, <5>2 DEF Holders
        <5>3. CASE Destroying(d)
          BY <2>1, <3>1, <4>2, <5>3 DEF Destroying
        <5>. QED
          BY <5>1, <5>2, <5>3
      <4>. QED
        BY <2>1, <3>4, <4>1, <4>2, ControllerMoves
    <3>. QED
      BY <3>3, <3>4 DEF HeldOrStopped, Holders
  <2>2. ASSUME NEW t \in Threads, Step(t)
        PROVE  RefInv'
    <3>1. UNCHANGED <<entry, op, running, call>>
      BY <2>2 DEF Step, WorkerStep, Check, Poll, ProcessSilently, ProcessKeeps, ProcessEmits,
                  Emit, execVars
    <3>. QED
      BY <3>1 DEF RefInv, ControlShape, HeldOrStopped, Holders, Destroying
  <2>3. CASE UNCHANGED tvars
    BY <2>3 DEF tvars, vars, execVars, RefInv, ControlShape, HeldOrStopped, Holders, Destroying
  <2>4. CASE StageStep
    <3>1. UNCHANGED <<entry, op, running, call>>
      BY <2>4 DEF StageStep, OwnThreadStep, AnswerBegin, AnswerPush, AnswerLost, execVars
    <3>. QED
      BY <3>1 DEF RefInv, ControlShape, HeldOrStopped, Holders, Destroying
  <2>. QED
    BY <2>1, <2>2, <2>3, <2>4, ManagerKeepsRefInv DEF ControlNext, TaskStep
<1>. QED
  BY <1>1, <1>2, PTL DEF ControlSafety

\* A removed task is stopped once every operation has returned, for any number
\* of clients that start, stop and remove it at the same time: whoever drops
\* the last reference to the executor stops it (TaskManager.cpp, removeTask).
THEOREM RemovedTaskIsDead == ControlSafety => []RemovedIsDead
<1>1. RefInv => RemovedIsDead
  BY DEF RefInv, HeldOrStopped, RemovedIsDead, Quiet, Holders, Destroying
<1>. QED
  BY <1>1, RefInvariant, PTL

-----------------------------------------------------------------------------
\* A step of TaskControl is a step of the executor or leaves it alone: the
\* manager calls start() and stop() only from clients that are in neither.
LEMMA ControlStepIsExecutorStep ==
  ASSUME RefInv, [ControlNext]_tvars
  PROVE  [Next]_vars
<1>. USE DEF RefInv, ControlShape
<1>1. ASSUME NEW c \in Controllers, StartTask(c) \/ StopTask(c) \/ RemoveTask(c)
      PROVE  [Next]_vars
  <2>1. call[c] = Idle
    BY <1>1 DEF StartTask, StopTask, RemoveTask
  <2>2. CASE StartTask(c)
    BY <2>1, <2>2 DEF StartTask, CallExecutor, execRest, Call, Next
  <2>3. CASE StopTask(c)
    BY <2>1, <2>3 DEF StopTask, CallExecutor, execRest, Call, Next
  <2>4. CASE RemoveTask(c)
    BY <2>1, <2>4 DEF RemoveTask, CallExecutor, execRest, Call, Next, vars, execVars, workVars, ownVars
  <2>. QED
    BY <1>1, <2>2, <2>3, <2>4
<1>2. ASSUME NEW c \in Controllers, EraseEntry(c) \/ DropReference(c) \/ Destroyed(c)
      PROVE  [Next]_vars
  <2>1. CASE EraseEntry(c)
    BY <2>1 DEF EraseEntry, CallExecutor, execRest, Call, Next, vars, execVars, workVars, ownVars
  <2>2. CASE DropReference(c)
    BY <2>2 DEF DropReference, CallExecutor, execRest, Call, Next, vars, execVars, workVars, ownVars
  <2>3. CASE Destroyed(c)
    BY <2>3 DEF Destroyed, execRest, vars, execVars, workVars, ownVars
  <2>. QED
    BY <1>2, <2>1, <2>2, <2>3
<1>3. ASSUME NEW c \in Controllers, ControllerStep(c)
      PROVE  Next
  BY <1>3 DEF Next
<1>4. ASSUME NEW t \in Threads, Step(t)
      PROVE  Next
  BY <1>4 DEF Step, Next
<1>5. UNCHANGED tvars => UNCHANGED vars
  BY DEF tvars
<1>6. StageStep => Next
  BY DEF StageStep, Next
<1>. QED
  BY <1>1, <1>2, <1>3, <1>4, <1>5, <1>6 DEF ControlNext, TaskStep

\* TaskManager drives its executor as GraphExecutor expects: whatever the
\* clients do, the executor's part of a behaviour is one of GraphExecutor.
THEOREM ControlImplementsExecutor == ControlSafety => Init /\ [][Next]_vars
<1>1. ControlInit => Init
  BY DEF ControlInit
<1>2. RefInv /\ [ControlNext]_tvars => [Next]_vars
  BY ControlStepIsExecutorStep
<1>. QED
  BY <1>1, <1>2, RefInvariant, PTL DEF ControlSafety
=============================================================================
