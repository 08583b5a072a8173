------------------------- MODULE GraphExecutorProofs -------------------------
(***************************************************************************)
(* What GraphExecutor promises when its start() and stop() are called by   *)
(* one thread, proved for every graph, every drop policy and capacity, and *)
(* any number of runs and events.  (With two, a stop() that overtakes a    *)
(* start() finds no worker to join and releases stages that start() then   *)
(* takes into use.)                                                        *)
(*                                                                         *)
(* The argument: a live worker is always in worker_threads_ and its stage  *)
(* is up; so when stop() has joined, nobody is alive, and nobody becomes   *)
(* alive while the stages are released because the only thread that could  *)
(* spawn a worker is the one that releases.                                *)
(*                                                                         *)
(* EventsStayApart adds to it what every node has passed on: a node that   *)
(* emits has one worker and one edge to take from, so what its worker      *)
(* holds is newer than all it has pushed, and what its stage keeps is      *)
(* neither on its way nor pushed.                                          *)
(*                                                                         *)
(* ExecutorTyped, at the end, holds for any number of calling threads.     *)
(***************************************************************************)
EXTENDS GraphExecutor, FiniteSetTheorems, TLAPS

\* The part of TypeOK that the argument needs.
Shape ==
    /\ running \in BOOLEAN
    /\ stageUp \in [Nodes -> BOOLEAN]
    /\ call \in [Controllers -> Calls]
    /\ todo \in [Controllers -> SUBSET (Edges \cup Nodes)]
    /\ pc \in [Threads -> Places]
    /\ DOMAIN kept = Nodes
    /\ DOMAIN answer = Nodes \X StageThreads

Quiescent == \A t \in Threads : ~Alive(t)
AllDown   == \A n \in Nodes : ~stageUp[n]

\* A live worker will be joined, and its stage is up.
LiveIsKnown == \A t \in Threads : Alive(t) => t \in workerThreads /\ stageUp[Node(t)]

\* A stage that has been released keeps nothing, and none of its threads emits.
ReleasedIsIdle ==
    \A n \in Nodes : ~stageUp[n] =>
        kept[n] = {} /\ \A w \in StageThreads : answer[<<n, w>>] = NoAnswer

\* What holds at each place of start() and stop().
Progress(c) ==
    /\ call[c] \in {"reopen", "spawn"} => running
    /\ call[c] \in {"edges", "join", "release"} => ~running
    /\ call[c] \in {Idle, "start", "stop"} /\ ~running =>
           Quiescent /\ AllDown /\ workerThreads = {}
    /\ call[c] = "reopen" => Quiescent
    /\ call[c] = "spawn" => \A t \in Threads : Alive(t) => Node(t) \notin todo[c]
    /\ call[c] = "release" => /\ Quiescent /\ workerThreads = {}
                              /\ \A n \in Nodes : stageUp[n] => n \in todo[c]

Inv ==
    /\ Shape
    /\ LiveIsKnown
    /\ OneWorkerPerNode
    /\ ReleasedIsIdle
    /\ \A c \in Controllers : Progress(c)

-----------------------------------------------------------------------------
\* Inv holds before the first start(): no worker exists and every stage is down.
LEMMA InitInv == Init => Inv
<1>. SUFFICES ASSUME Init PROVE Inv
  OBVIOUS
<1>1. Shape
  BY DEF Init, Shape, Calls, Places, Idle
<1>2. Quiescent /\ AllDown
  BY DEF Init, Quiescent, AllDown, Alive
<1>3. LiveIsKnown /\ OneWorkerPerNode /\ ReleasedIsIdle
  BY <1>2 DEF Quiescent, LiveIsKnown, OneWorkerPerNode, ReleasedIsIdle, Init
<1>4. \A c \in Controllers : call[c] = Idle
  BY DEF Init
<1>5. \A c \in Controllers : Progress(c)
  BY <1>2, <1>4 DEF Init, Progress, Idle
<1>. QED
  BY <1>1, <1>3, <1>5 DEF Inv

\* A worker thread never makes a thread alive, and touches neither the stages
\* nor the control of the executor (runNodeWorker and emitToDownstream).
LEMMA WorkerKeepsInv ==
  ASSUME Inv, NEW t \in Threads, WorkerStep(t)
  PROVE  Inv'
<1>1. /\ UNCHANGED <<running, stageUp, workerThreads, call, todo>>
      /\ \E p \in Places : pc' = [pc EXCEPT ![t] = p]
      /\ Alive(t)
      /\ UNCHANGED answer
      /\ kept' = kept \/ kept' = [kept EXCEPT ![Node(t)] = kept[Node(t)] \cup {event[t]}]
  BY DEF WorkerStep, Check, Poll, ProcessSilently, ProcessKeeps, ProcessEmits, Emit, Move,
         execVars, ownVars, Places, Alive
<1>2. Shape'
  BY <1>1 DEF Inv, Shape
<1>7. ReleasedIsIdle'
  <2>1. \A n \in Nodes : n # Node(t) => kept'[n] = kept[n]
    BY <1>1 DEF Inv, Shape
  <2>2. stageUp[Node(t)]
    BY <1>1 DEF Inv, LiveIsKnown
  <2>. QED
    BY <1>1, <2>1, <2>2 DEF Inv, ReleasedIsIdle
<1>3. \A u \in Threads : Alive(u)' => Alive(u)
  BY <1>1 DEF Inv, Shape, Alive
<1>4. LiveIsKnown' /\ OneWorkerPerNode'
  BY <1>1, <1>3 DEF Inv, LiveIsKnown, OneWorkerPerNode
<1>5. Quiescent => Quiescent'
  BY <1>3 DEF Quiescent
<1>6. ASSUME NEW c \in Controllers
      PROVE  Progress(c)'
  BY <1>1, <1>3, <1>5 DEF Inv, Progress, AllDown
<1>. QED
  BY <1>2, <1>4, <1>6, <1>7 DEF Inv

\* The threads of a stage emit while the stage is up (onInferResult).
LEMMA OwnThreadKeepsInv ==
  ASSUME Inv, (\E s \in Keepers \X StageThreads : OwnThreadStep(s)) \/ (\E n \in Keepers : AnswerLost(n))
  PROVE  Inv'
<1>1. UNCHANGED <<running, stageUp, workerThreads, call, todo, pc>>
  BY DEF OwnThreadStep, AnswerBegin, AnswerPush, AnswerLost, execVars, workVars
<1>2. (DOMAIN kept = Nodes)' /\ (DOMAIN answer = Nodes \X StageThreads)'
  BY DEF OwnThreadStep, AnswerBegin, AnswerPush, AnswerLost, Inv, Shape
<1>3. ReleasedIsIdle'
  <2>1. ASSUME NEW s \in Keepers \X StageThreads, AnswerBegin(s) PROVE ReleasedIsIdle'
    <3>1. PICK n \in Keepers, w \in StageThreads : s = <<n, w>>
      OBVIOUS
    <3>2. /\ stageUp[n] /\ n \in Nodes /\ s[1] = n
          /\ \A r \in Nodes \X StageThreads : r # s => answer'[r] = answer[r]
          /\ \A m \in Nodes : m # n => kept'[m] = kept[m]
      BY <2>1, <3>1, GraphAssumption DEF AnswerBegin, Inv, Shape
    <3>. QED
      BY <1>1, <3>1, <3>2 DEF Inv, ReleasedIsIdle
  <2>2. ASSUME NEW s \in Keepers \X StageThreads, AnswerPush(s) PROVE ReleasedIsIdle'
    <3>1. PICK n \in Keepers, w \in StageThreads : s = <<n, w>>
      OBVIOUS
    <3>2. n \in Nodes /\ stageUp[n]
      BY <2>2, <3>1, GraphAssumption DEF AnswerPush, Inv, ReleasedIsIdle
    <3>3. kept' = kept /\ \A r \in Nodes \X StageThreads : r # s => answer'[r] = answer[r]
      BY <2>2 DEF AnswerPush, Inv, Shape
    <3>. QED
      BY <1>1, <3>1, <3>2, <3>3 DEF Inv, ReleasedIsIdle
  <2>3. ASSUME NEW n \in Keepers, AnswerLost(n) PROVE ReleasedIsIdle'
    BY <1>1, <2>3 DEF AnswerLost, Inv, Shape, ReleasedIsIdle
  <2>. QED
    BY <2>1, <2>2, <2>3 DEF OwnThreadStep
<1>. QED
  BY <1>1, <1>2, <1>3 DEF Inv, Shape, LiveIsKnown, OneWorkerPerNode, Progress, Quiescent, AllDown, Alive

\* Every step of start(), stop() and of the calls to them keeps Inv, as long
\* as only one thread makes them.
LEMMA ControllerKeepsInv ==
  ASSUME NEW main, Controllers = {main}, Inv, Call(main) \/ ControllerStep(main)
  PROVE  Inv'
<1>. USE DEF Inv, Shape
<1>6. ReleasedIsIdle' /\ (DOMAIN kept = Nodes)' /\ (DOMAIN answer = Nodes \X StageThreads)'
  <2>1. CASE ~ReleaseStage(main)
    <3>1. /\ UNCHANGED <<kept, answer>>
          /\ stageUp' = stageUp \/ \E n : stageUp' = [stageUp EXCEPT ![n] = TRUE]
      BY <2>1 DEF Call, ControllerStep, StartBegin, ReopenEdge, SpawnWorker, StopBegin, StopEdge,
                  JoinWorkers, ownVars
    <3>. QED
      BY <3>1 DEF ReleasedIsIdle
  <2>2. CASE ReleaseStage(main)
    BY <2>2 DEF ReleaseStage, ReleasedIsIdle
  <2>. QED
    BY <2>1, <2>2
<1>1. CASE Call(main) \/ StartBegin(main) \/ StopBegin(main)
  <2>1. /\ UNCHANGED <<stageUp, workerThreads, pc>>
        /\ running' \in BOOLEAN
        /\ \E p \in Calls, items \in SUBSET (Edges \cup Nodes) : Goto(main, p, items)
    BY <1>1 DEF Call, StartBegin, StopBegin, workVars, Calls, Idle
  <2>2. Shape'
    BY <1>6, <2>1 DEF Goto
  <2>3. LiveIsKnown' /\ OneWorkerPerNode'
    BY <2>1 DEF LiveIsKnown, OneWorkerPerNode, Alive
  <2>4. (Quiescent => Quiescent') /\ (AllDown => AllDown')
    BY <2>1 DEF Quiescent, AllDown, Alive
  <2>5. Progress(main)'
    <3>1. CASE Call(main)
      BY <3>1, <2>4 DEF Call, Goto, Progress, Calls, Idle
    <3>2. CASE StartBegin(main)
      BY <3>2, <2>4 DEF StartBegin, Goto, Progress, Calls, Idle
    <3>3. CASE StopBegin(main)
      BY <3>3, <2>4 DEF StopBegin, Goto, Progress, Calls, Idle
    <3>. QED
      BY <1>1, <3>1, <3>2, <3>3
  <2>. QED
    BY <1>6, <2>2, <2>3, <2>5
<1>2. CASE ReopenEdge(main) \/ StopEdge(main)
  <2>1. /\ UNCHANGED <<running, stageUp, workerThreads, pc>>
        /\ \E p \in Calls, items \in SUBSET (Edges \cup Nodes) : Goto(main, p, items)
    BY <1>2 DEF ReopenEdge, StopEdge, Did, workVars, Calls, Idle
  <2>2. Shape'
    BY <1>6, <2>1 DEF Goto
  <2>3. LiveIsKnown' /\ OneWorkerPerNode'
    BY <2>1 DEF LiveIsKnown, OneWorkerPerNode, Alive
  <2>4. Quiescent => Quiescent'
    BY <2>1 DEF Quiescent, Alive
  <2>5. Progress(main)'
    <3>1. CASE ReopenEdge(main)
      <4>1. Quiescent' /\ running'
        BY <3>1, <2>1, <2>4 DEF ReopenEdge, Progress
      <4>2. call'[main] \in {"reopen", "spawn"}
        BY <3>1 DEF ReopenEdge, Did, Goto
      <4>. QED
        BY <4>1, <4>2 DEF Progress, Quiescent, Idle
    <3>2. CASE StopEdge(main)
      <4>1. ~running'
        BY <3>2, <2>1 DEF StopEdge, Progress
      <4>2. call'[main] \in {"edges", "join"}
        BY <3>2 DEF StopEdge, Did, Goto
      <4>. QED
        BY <4>1, <4>2 DEF Progress, Idle
    <3>. QED
      BY <1>2, <3>1, <3>2
  <2>. QED
    BY <1>6, <2>2, <2>3, <2>5
<1>3. CASE SpawnWorker(main)
  <2>1. CASE todo[main] = {} /\ Goto(main, Idle, {}) /\ UNCHANGED <<stageUp, workerThreads, pc>>
    <3>1. UNCHANGED running
      BY <1>3 DEF SpawnWorker
    <3>2. Shape'
      BY <1>6, <2>1, <3>1 DEF Goto, Calls, Idle
    <3>3. LiveIsKnown' /\ OneWorkerPerNode'
      BY <2>1 DEF LiveIsKnown, OneWorkerPerNode, Alive
    <3>4. Progress(main)'
      BY <1>3, <2>1, <3>1 DEF SpawnWorker, Goto, Progress, Calls, Idle
    <3>. QED
      BY <1>6, <3>2, <3>3, <3>4
  <2>2. ASSUME NEW n \in todo[main],
               stageUp' = [stageUp EXCEPT ![n] = TRUE],
               workerThreads' = workerThreads \cup {<<n, gen[main]>>},
               pc' = [pc EXCEPT ![<<n, gen[main]>>] = "check"],
               Did(main, n)
        PROVE  Inv'
    <3>1. call[main] = "spawn" /\ UNCHANGED running
      BY <1>3 DEF SpawnWorker
    <3>2. Shape'
      BY <1>6, <2>2, <3>1 DEF Did, Goto, Calls, Places
    <3>3. \A t \in Threads : Alive(t)' => Alive(t) \/ t = <<n, gen[main]>>
      BY <2>2 DEF Alive
    <3>4. \A t \in Threads : Alive(t) => Node(t) # n
      BY <3>1, <2>2 DEF Progress
    <3>5. \A t \in Threads : Node(t) \in Nodes
      BY DEF Threads, Node
    <3>6. LiveIsKnown'
      BY <2>2, <3>3, <3>5 DEF LiveIsKnown, Node
    <3>7. OneWorkerPerNode'
      BY <3>3, <3>4 DEF OneWorkerPerNode, Node
    <3>8. todo'[main] = todo[main] \ {n} /\ call'[main] = "spawn"
      BY <2>2, <3>1 DEF Did, Goto
    <3>9. Progress(main)'
      BY <3>1, <3>3, <3>4, <3>8 DEF Progress, Node, Idle
    <3>. QED
      BY <1>6, <3>2, <3>6, <3>7, <3>9
  <2>. QED
    BY <1>3, <2>1, <2>2 DEF SpawnWorker
<1>4. CASE JoinWorkers(main)
  <2>1. /\ UNCHANGED <<running, stageUp, pc>>
        /\ Goto(main, "release", Nodes)
    BY <1>4 DEF JoinWorkers, workVars
  <2>2. Shape'
    BY <1>6, <2>1 DEF Goto, Calls
  <2>3. Quiescent
    BY <1>4 DEF JoinWorkers, Quiescent, LiveIsKnown, Alive
  <2>4. Quiescent'
    BY <2>1, <2>3 DEF Quiescent, Alive
  <2>5. LiveIsKnown' /\ OneWorkerPerNode'
    BY <2>4 DEF Quiescent, LiveIsKnown, OneWorkerPerNode
  <2>6. Progress(main)'
    BY <1>4, <2>1, <2>4 DEF JoinWorkers, Goto, Progress, Calls, Idle
  <2>. QED
    BY <1>6, <2>2, <2>5, <2>6
<1>5. CASE ReleaseStage(main)
  <2>1. /\ call[main] = "release"
        /\ UNCHANGED <<running, workerThreads, pc>>
        /\ \E p \in Calls, items \in SUBSET (Edges \cup Nodes) : Goto(main, p, items)
        /\ stageUp' \in [Nodes -> BOOLEAN]
    BY <1>5 DEF ReleaseStage, Did, workVars, Calls, Idle
  <2>2. Shape'
    BY <1>6, <2>1 DEF Goto
  <2>3. Quiescent
    BY <2>1 DEF Progress
  <2>4. Quiescent'
    BY <2>1, <2>3 DEF Quiescent, Alive
  <2>5. LiveIsKnown' /\ OneWorkerPerNode'
    BY <2>4 DEF Quiescent, LiveIsKnown, OneWorkerPerNode
  <2>6. /\ ~running' /\ workerThreads' = {}
        /\ \A n \in Nodes : stageUp[n] => n \in todo[main]
    BY <2>1 DEF Progress
  <2>7. CASE todo[main] = {} /\ Goto(main, Idle, {}) /\ UNCHANGED <<stageUp, kept>>
    <3>1. call'[main] = Idle
      BY <2>7 DEF Goto
    <3>2. AllDown'
      BY <2>6, <2>7 DEF AllDown
    <3>. QED
      BY <1>6, <2>2, <2>4, <2>5, <2>6, <3>1, <3>2 DEF Progress, Idle
  <2>8. ASSUME NEW n \in todo[main], stageUp' = [stageUp EXCEPT ![n] = FALSE], Did(main, n)
        PROVE  Inv'
    <3>1. call'[main] = "release" /\ todo'[main] = todo[main] \ {n}
      BY <2>1, <2>8 DEF Did, Goto
    <3>2. \A k \in Nodes : stageUp'[k] => k \in todo'[main]
      BY <2>6, <2>8, <3>1
    <3>. QED
      BY <1>6, <2>2, <2>4, <2>5, <2>6, <3>1, <3>2 DEF Progress, Idle
  <2>. QED
    BY <1>5, <2>7, <2>8 DEF ReleaseStage
<1>. QED
  BY <1>1, <1>2, <1>3, <1>4, <1>5 DEF ControllerStep

\* Inv is an invariant of the executor under one controller; no fairness is
\* needed.
LEMMA ExecutorInv ==
  ASSUME NEW CONSTANT main, Controllers = {main}
  PROVE  Init /\ [][Next]_vars => []Inv
<1>1. Inv /\ [Next]_vars => Inv'
  <2>. SUFFICES ASSUME Inv, [Next]_vars PROVE Inv'
    OBVIOUS
  <2>1. CASE \E t \in Threads : WorkerStep(t)
    BY <2>1, WorkerKeepsInv
  <2>2. CASE \E c \in Controllers : Call(c) \/ ControllerStep(c)
    BY <2>2, ControllerKeepsInv
  <2>3. CASE UNCHANGED vars
    BY <2>3 DEF vars, execVars, workVars, ownVars, Inv, Shape, LiveIsKnown, OneWorkerPerNode,
                ReleasedIsIdle, Progress, Quiescent, AllDown, Alive
  <2>. QED
    BY <2>1, <2>2, <2>3, OwnThreadKeepsInv DEF Next
<1>. QED
  BY <1>1, InitInv, PTL

\* With one controlling thread, no worker is ever inside process() of a stage
\* that stop() has released, whatever the graph (GraphExecutor.cpp:74-80).
THEOREM ReleaseWaitsForWorkers ==
  ASSUME NEW CONSTANT main, Controllers = {main}
  PROVE  Spec => []ProcessOnlyWhileHeld
<1>1. Inv => ProcessOnlyWhileHeld
  BY DEF Inv, LiveIsKnown, ProcessOnlyWhileHeld, InsideProcess, Alive
<1>. QED
  BY <1>1, ExecutorInv, PTL DEF Spec

\* With one controlling thread, no node ever has two workers, however often
\* the executor is stopped and started.
THEOREM SingleWorkerPerNode ==
  ASSUME NEW CONSTANT main, Controllers = {main}
  PROVE  Spec => []OneWorkerPerNode
<1>1. Inv => OneWorkerPerNode
  BY DEF Inv
<1>. QED
  BY <1>1, ExecutorInv, PTL DEF Spec

\* With one controlling thread, an executor whose calls have returned and
\* that does not run has no worker left, no thread of a stage that emits, and
\* every stage released.
THEOREM StopLeavesNothing ==
  ASSUME NEW CONSTANT main, Controllers = {main}
  PROVE  Spec => []StoppedIsClean
<1>1. Inv => StoppedIsClean
  BY DEF Inv, Shape, Progress, StoppedIsClean, Quiescent, AllDown, ReleasedIsIdle
<1>. QED
  BY <1>1, ExecutorInv, PTL DEF Spec

-----------------------------------------------------------------------------
(* What the edges hand over.  Where every node that passes events on takes *)
(* them from one edge, and no edge is listed twice, everything that has    *)
(* gone down an edge was given to its node once: in order if no stage with *)
(* threads of its own is above, and in any order below one.                *)

\* No edge is listed twice, and a node that emits is a source or has a single
\* incoming edge: no two paths meet before a node that emits.
SinglePath ==
    /\ \A n, m \in Nodes : \A i \in DOMAIN Outgoing[n], j \in DOMAIN Outgoing[m] :
           Outgoing[n][i] = Outgoing[m][j] => n = m /\ i = j
    /\ \A n \in Nodes \ Sources : Outgoing[n] # <<>> => Len(Incoming[n]) = 1

Items(s) == {s[i] : i \in DOMAIN s}

\* y may come after x on the edge e.
Precedes(e, x, y) == x # y /\ (InOrderEdge(e) => x < y)
Chain(e, s) == \A i, j \in DOMAIN s : i < j => Precedes(e, s[i], s[j])

\* What has been pushed to e, without what DropOldest has lost.
Pushed(e) == Items(delivered[e]) \cup Items(queue[e])
Below(e, x) == \A y \in Pushed(e) : Precedes(e, y, x)

InOrder(e) ==
    /\ Chain(e, delivered[e]) /\ Chain(e, queue[e])
    /\ \A x \in Items(delivered[e]), y \in Items(queue[e]) : Precedes(e, x, y)

EventTypes ==
    /\ queue \in [Edges -> Seq(Nat)]
    /\ delivered \in [Edges -> Seq(Nat)]
    /\ event \in [Threads -> Nat]
    /\ emitted \in Nat
    /\ idx \in [Threads -> [pop : Nat, push : Nat]]
    /\ kept \in [Nodes -> SUBSET Nat]
    /\ answer \in [Nodes \X StageThreads -> [event : Nat, push : Nat]]

\* Everything the node n has pushed is one of the source's events so far, or
\* was delivered to it.
Upstream(n, x) ==
    IF n \in Sources THEN x \in 0..emitted ELSE x \in Items(delivered[Incoming[n][1]])

\* x may go to every edge of n from the i-th on.
NewToEdges(n, x, i) ==
    \A j \in DOMAIN Outgoing[n] : i <= j => Below(Outgoing[n][j], x)

\* Everything on an edge came down the graph.
FromUpstream ==
    \A n \in Nodes : \A j \in DOMAIN Outgoing[n] : \A x \in Pushed(Outgoing[n][j]) : Upstream(n, x)

\* The stage of n has not got x.
NotWithStage(n, x) ==
    n \in Keepers =>
        x \notin kept[n] /\ \A w \in StageThreads : answer[<<n, w>>] = NoAnswer \/ answer[<<n, w>>].event # x

\* What a worker holds came down the graph too, and is nowhere else yet.
HoldsNew(t) ==
    /\ pc[t] = "poll" => idx[t].pop # 0
    /\ pc[t] = "process" /\ Node(t) \notin Sources /\ Outgoing[Node(t)] # <<>> =>
          /\ Upstream(Node(t), event[t]) /\ NewToEdges(Node(t), event[t], 1)
          /\ NotWithStage(Node(t), event[t])
    /\ pc[t] = "emit" =>
          /\ idx[t].push \in DOMAIN Outgoing[Node(t)] /\ Node(t) \notin Keepers
          /\ Upstream(Node(t), event[t]) /\ NewToEdges(Node(t), event[t], idx[t].push)

\* So is what a stage keeps for its threads, and what they emit.
KeptNew(n) ==
    \A x \in kept[n] :
        /\ Upstream(n, x) /\ NewToEdges(n, x, 1)
        /\ \A w \in StageThreads : answer[<<n, w>>] = NoAnswer \/ answer[<<n, w>>].event # x

AnswerNew(n, w) ==
    answer[<<n, w>>] # NoAnswer =>
        LET a == answer[<<n, w>>] IN
        /\ a.push \in DOMAIN Outgoing[n]
        /\ Upstream(n, a.event) /\ NewToEdges(n, a.event, a.push)
        /\ \A v \in StageThreads : v # w =>
              answer[<<n, v>>] = NoAnswer \/ answer[<<n, v>>].event # a.event

StagesNew ==
    \A n \in Keepers :
        (Outgoing[n] # <<>> => KeptNew(n)) /\ \A w \in StageThreads : AnswerNew(n, w)

Ordered ==
    /\ EventTypes
    /\ \A e \in Edges : InOrder(e)
    /\ FromUpstream
    /\ \A t \in Threads : HoldsNew(t)
    /\ StagesNew

\* An item that may come after the others goes to the end.
LEMMA AppendItem ==
  ASSUME NEW e, NEW s \in Seq(Nat), NEW x \in Nat, Chain(e, s), \A y \in Items(s) : Precedes(e, y, x)
  PROVE  Append(s, x) \in Seq(Nat) /\ Chain(e, Append(s, x)) /\ Items(Append(s, x)) = Items(s) \cup {x}
<1>. DEFINE r == Append(s, x)
<1>1. /\ r \in Seq(Nat) /\ Len(s) \in Nat /\ DOMAIN s = 1..Len(s) /\ DOMAIN r = 1..(Len(s) + 1)
      /\ r[Len(s) + 1] = x /\ \A i \in 1..Len(s) : r[i] = s[i]
  OBVIOUS
<1>. HIDE DEF r
<1>2. \A i \in DOMAIN r : (i \in DOMAIN s /\ r[i] = s[i]) \/ (i = Len(s) + 1 /\ r[i] = x)
  BY <1>1
<1>3. Chain(e, r)
  <2>. SUFFICES ASSUME NEW i \in DOMAIN r, NEW j \in DOMAIN r, i < j PROVE Precedes(e, r[i], r[j])
    BY DEF Chain
  <2>1. i \in DOMAIN s /\ r[i] = s[i] /\ s[i] \in Items(s)
    BY <1>1, <1>2 DEF Items
  <2>. QED
    BY <1>2, <2>1 DEF Chain
<1>4. Items(r) = Items(s) \cup {x}
  BY <1>1, <1>2 DEF Items
<1>. QED
  BY <1>1, <1>3, <1>4 DEF r

\* The head of a chain comes before the rest of it.
LEMMA HeadItem ==
  ASSUME NEW e, NEW s \in Seq(Nat), s # <<>>, Chain(e, s)
  PROVE  /\ Tail(s) \in Seq(Nat) /\ Chain(e, Tail(s)) /\ Head(s) \in Nat
         /\ Items(s) = Items(Tail(s)) \cup {Head(s)} /\ \A y \in Items(Tail(s)) : Precedes(e, Head(s), y)
<1>. DEFINE r == Tail(s)
            h == Head(s)
<1>1. /\ r \in Seq(Nat) /\ h \in Nat /\ Len(s) \in Nat \ {0} /\ DOMAIN s = 1..Len(s) /\ DOMAIN r = 1..(Len(s) - 1)
      /\ h = s[1] /\ \A i \in 1..(Len(s) - 1) : r[i] = s[i + 1]
  OBVIOUS
<1>. HIDE DEF r, h
<1>2. 1 \in DOMAIN s /\ \A i \in DOMAIN r : i + 1 \in DOMAIN s /\ r[i] = s[i + 1]
  BY <1>1
<1>3. \A j \in DOMAIN s : j = 1 \/ (j - 1 \in DOMAIN r /\ s[j] = r[j - 1])
  <2>. TAKE j \in DOMAIN s
  <2>. SUFFICES ASSUME j # 1 PROVE j - 1 \in DOMAIN r /\ s[j] = r[j - 1]
    OBVIOUS
  <2>1. PICK i : i = j - 1
    OBVIOUS
  <2>2. i \in DOMAIN r /\ i + 1 = j
    BY <1>1, <2>1
  <2>3. r[i] = s[i + 1]
    BY <1>2, <2>2
  <2>. QED
    BY <2>1, <2>2, <2>3
<1>4. Chain(e, r)
  <2>. SUFFICES ASSUME NEW i \in DOMAIN r, NEW j \in DOMAIN r, i < j PROVE Precedes(e, r[i], r[j])
    BY DEF Chain
  <2>1. i + 1 \in DOMAIN s /\ j + 1 \in DOMAIN s /\ i + 1 < j + 1
    BY <1>1, <1>2
  <2>2. Precedes(e, s[i + 1], s[j + 1])
    BY <2>1 DEF Chain
  <2>. QED
    BY <1>2, <2>2
<1>5. Items(s) = Items(r) \cup {h}
  <2>1. ASSUME NEW i \in DOMAIN r PROVE r[i] \in Items(s)
    BY <1>2 DEF Items
  <2>2. h \in Items(s)
    BY <1>1, <1>2 DEF Items
  <2>3. ASSUME NEW j \in DOMAIN s PROVE s[j] \in Items(r) \cup {h}
    BY <1>1, <1>3 DEF Items
  <2>. QED
    BY <2>1, <2>2, <2>3 DEF Items
<1>6. \A y \in Items(r) : Precedes(e, h, y)
  <2>. SUFFICES ASSUME NEW i \in DOMAIN r PROVE Precedes(e, h, r[i])
    BY DEF Items
  <2>1. i + 1 \in DOMAIN s /\ 1 < i + 1
    BY <1>1, <1>2
  <2>2. Precedes(e, s[1], s[i + 1])
    BY <1>2, <2>1 DEF Chain
  <2>. QED
    BY <1>1, <1>2, <2>2
<1>. QED
  BY <1>1, <1>4, <1>5, <1>6 DEF r, h

\* An edge of a stage with threads of its own is not in order, and an edge that
\* is in order is fed by such edges only.
LEMMA InOrderAbove ==
  ASSUME NEW n \in Nodes, NEW j \in DOMAIN Outgoing[n], InOrderEdge(Outgoing[n][j])
  PROVE  n \notin Keepers /\ \A i \in DOMAIN Incoming[n] : InOrderEdge(Incoming[n][i])
<1>1. PICK below \in SUBSET Edges : Closed(below) /\ Outgoing[n][j] \notin below
  BY DEF InOrderEdge
<1>2. n \notin Keepers /\ \A i \in DOMAIN Incoming[n] : Incoming[n][i] \notin below
  BY <1>1 DEF Closed
<1>. QED
  BY <1>1, <1>2 DEF InOrderEdge

\* A step that leaves what has been pushed as it is.
LEMMA EdgesStay ==
  ASSUME Ordered, \A e \in Edges : Pushed(e)' = Pushed(e),
         \A n \in Nodes : \A x : Outgoing[n] # <<>> /\ Upstream(n, x) => Upstream(n, x)'
  PROVE  /\ FromUpstream'
         /\ \A n \in Nodes : \A x, i : NewToEdges(n, x, i) => NewToEdges(n, x, i)'
<1>1. \A n \in Nodes : \A j \in DOMAIN Outgoing[n] : Outgoing[n][j] \in Edges /\ Outgoing[n] # <<>>
  BY GraphAssumption
<1>2. FromUpstream'
  <2>. SUFFICES ASSUME NEW n \in Nodes, NEW j \in DOMAIN Outgoing[n], NEW x \in Pushed(Outgoing[n][j])'
                PROVE  Upstream(n, x)'
    BY DEF FromUpstream
  <2>1. x \in Pushed(Outgoing[n][j])
    BY <1>1
  <2>. QED
    BY <1>1, <2>1 DEF Ordered, FromUpstream
<1>3. ASSUME NEW n \in Nodes, NEW x, NEW i, NewToEdges(n, x, i) PROVE NewToEdges(n, x, i)'
  BY <1>1, <1>3 DEF NewToEdges, Below
<1>. QED
  BY <1>2, <1>3

\* A step that leaves the stages alone, and the edges of the nodes in M too.
LEMMA HoldersStay ==
  ASSUME Ordered, UNCHANGED <<kept, answer>>,
         \A n \in Nodes : \A x : Outgoing[n] # <<>> /\ Upstream(n, x) => Upstream(n, x)',
         NEW M \in SUBSET Nodes,
         \A n \in M : \A x, i : NewToEdges(n, x, i) => NewToEdges(n, x, i)'
  PROVE  /\ Keepers \subseteq M => StagesNew'
         /\ \A u \in Threads :
               Node(u) \in M /\ pc'[u] = pc[u] /\ idx'[u] = idx[u] /\ event'[u] = event[u] => HoldsNew(u)'
<1>1. ASSUME Keepers \subseteq M, NEW n \in Keepers, Outgoing[n] # <<>> PROVE KeptNew(n)'
  <2>1. KeptNew(n)
    BY <1>1 DEF Ordered, StagesNew
  <2>. QED
    BY <1>1, <2>1 DEF KeptNew
<1>2. ASSUME Keepers \subseteq M, NEW n \in Keepers, NEW w \in StageThreads PROVE AnswerNew(n, w)'
  <2>. SUFFICES ASSUME answer[<<n, w>>] # NoAnswer PROVE AnswerNew(n, w)'
    BY DEF AnswerNew
  <2>1. PICK a : a = answer[<<n, w>>]
    OBVIOUS
  <2>2. /\ a.push \in DOMAIN Outgoing[n] /\ Upstream(n, a.event) /\ NewToEdges(n, a.event, a.push)
        /\ \A v \in StageThreads : v # w =>
              answer[<<n, v>>] = NoAnswer \/ answer[<<n, v>>].event # a.event
    BY <1>2, <2>1 DEF Ordered, StagesNew, AnswerNew
  <2>3. Upstream(n, a.event)' /\ NewToEdges(n, a.event, a.push)'
    BY <1>2, <2>2
  <2>4. a = answer'[<<n, w>>]
    BY <2>1
  <2>. QED
    BY <2>2, <2>3, <2>4 DEF AnswerNew
<1>3. ASSUME NEW u \in Threads, Node(u) \in M, pc'[u] = pc[u], idx'[u] = idx[u], event'[u] = event[u]
      PROVE  HoldsNew(u)'
  <2>1. PICK x : x = event[u]
    OBVIOUS
  <2>2. HoldsNew(u) /\ x = event'[u]
    BY <1>3, <2>1 DEF Ordered
  <2>3. Outgoing[Node(u)] # <<>> /\ Upstream(Node(u), x) => Upstream(Node(u), x)'
    BY <1>3
  <2>4. \A i : NewToEdges(Node(u), x, i) => NewToEdges(Node(u), x, i)'
    BY <1>3
  <2>5. NotWithStage(Node(u), x) => NotWithStage(Node(u), x)'
    BY DEF NotWithStage
  <2>6. \A j \in DOMAIN Outgoing[Node(u)] : Outgoing[Node(u)] # <<>>
    BY <1>3, GraphAssumption
  <2>7. pc[u] = "process" /\ Node(u) \notin Sources /\ Outgoing[Node(u)] # <<>> =>
          Upstream(Node(u), x)' /\ NewToEdges(Node(u), x, 1)' /\ NotWithStage(Node(u), x)'
    BY <2>1, <2>2, <2>3, <2>4, <2>5 DEF HoldsNew
  <2>8. pc[u] = "emit" =>
          /\ idx[u].push \in DOMAIN Outgoing[Node(u)] /\ Node(u) \notin Keepers
          /\ Upstream(Node(u), x)' /\ NewToEdges(Node(u), x, idx[u].push)'
    <3>. SUFFICES ASSUME pc[u] = "emit"
                  PROVE  /\ idx[u].push \in DOMAIN Outgoing[Node(u)] /\ Node(u) \notin Keepers
                         /\ Upstream(Node(u), x)' /\ NewToEdges(Node(u), x, idx[u].push)'
      OBVIOUS
    <3>0. PICK i : i = idx[u].push
      OBVIOUS
    <3>1. /\ i \in DOMAIN Outgoing[Node(u)] /\ Node(u) \notin Keepers
          /\ Upstream(Node(u), x) /\ NewToEdges(Node(u), x, i)
      BY <2>1, <2>2, <3>0 DEF HoldsNew
    <3>2. Outgoing[Node(u)] # <<>>
      BY <2>6, <3>1
    <3>3. Upstream(Node(u), x)' /\ NewToEdges(Node(u), x, i)'
      BY <2>3, <2>4, <3>1, <3>2
    <3>4. idx'[u].push = i
      BY <1>3, <3>0
    <3>. QED
      BY <3>0, <3>1, <3>3, <3>4
  <2>9. (pc[u] = "poll" => idx[u].pop # 0)
    BY <2>2 DEF HoldsNew
  <2>. QED
    BY <1>3, <2>2, <2>7, <2>8, <2>9 DEF HoldsNew
<1>. QED
  BY <1>1, <1>2, <1>3 DEF StagesNew

\* A push puts the event behind all that went before it on the edge.
LEMMA PushInOrder ==
  ASSUME Ordered, NEW e \in Edges, NEW x \in Nat, Below(e, x),
         queue' = [queue EXCEPT ![e] = PushBack(queue[e], x, Capacity)], UNCHANGED delivered
  PROVE  /\ queue' \in [Edges -> Seq(Nat)]
         /\ \A d \in Edges : InOrder(d)'
         /\ Pushed(e)' \subseteq Pushed(e) \cup {x}
         /\ \A d \in Edges : d # e => Pushed(d)' = Pushed(d)
<1>. DEFINE q == queue[e]
            s == IF Full(q, Capacity) THEN Tail(q) ELSE q
<1>1. q \in Seq(Nat) /\ Chain(e, q) /\ \A y \in Items(q) : Precedes(e, y, x)
  BY DEF Ordered, EventTypes, InOrder, Below, Pushed
<1>2. s \in Seq(Nat) /\ Chain(e, s) /\ Items(s) \subseteq Items(q)
  <2>1. CASE Full(q, Capacity)
    <3>1. q # <<>>
      BY <2>1, GraphAssumption DEF Full
    <3>. HIDE DEF q
    <3>. QED
      BY <1>1, <2>1, <3>1, HeadItem
  <2>2. CASE ~Full(q, Capacity)
    BY <1>1, <2>2
  <2>. QED
    BY <2>1, <2>2
<1>3. queue'[e] = Append(s, x) /\ \A d \in Edges : d # e => queue'[d] = queue[d]
  BY DEF PushBack, Ordered, EventTypes
<1>. HIDE DEF q, s
<1>4. Append(s, x) \in Seq(Nat) /\ Chain(e, Append(s, x)) /\ Items(Append(s, x)) = Items(s) \cup {x}
  BY <1>1, <1>2, AppendItem
<1>5. queue' \in [Edges -> Seq(Nat)]
  BY <1>3, <1>4 DEF Ordered, EventTypes
<1>6. Items(queue'[e]) \subseteq Items(queue[e]) \cup {x}
  BY <1>2, <1>3, <1>4 DEF q
<1>7. Pushed(e)' \subseteq Pushed(e) \cup {x}
  BY <1>6 DEF Pushed
<1>8. \A d \in Edges : d # e => Pushed(d)' = Pushed(d)
  BY <1>3 DEF Pushed
<1>9. \A d \in Edges : d # e => InOrder(d)'
  BY <1>3 DEF Ordered, InOrder
<1>10. InOrder(e)'
  <2>1. Chain(e, delivered'[e]) /\ Chain(e, queue'[e])
    BY <1>3, <1>4 DEF Ordered, InOrder
  <2>2. \A y \in Items(delivered'[e]), z \in Items(queue'[e]) : Precedes(e, y, z)
    BY <1>6 DEF Ordered, InOrder, Below, Pushed
  <2>. QED
    BY <2>1, <2>2 DEF InOrder
<1>. QED
  BY <1>5, <1>7, <1>8, <1>9, <1>10

\* What a push of x to the i-th edge of n, new there, leaves as it was.
LEMMA PushKeeps ==
  ASSUME SinglePath, Ordered, NEW n \in Nodes, NEW i \in DOMAIN Outgoing[n], NEW x \in Nat,
         Upstream(n, x), Below(Outgoing[n][i], x), PushTo(Outgoing[n][i], x),
         UNCHANGED <<delivered, emitted>>
  PROVE  /\ queue' \in [Edges -> Seq(Nat)]
         /\ \A d \in Edges : InOrder(d)'
         /\ FromUpstream'
         /\ \A m, y : Upstream(m, y) => Upstream(m, y)'
         /\ \A m \in Nodes \ {n} : \A y, k : NewToEdges(m, y, k) => NewToEdges(m, y, k)'
         /\ \A y, k : n \in Keepers /\ y # x /\ NewToEdges(n, y, k) => NewToEdges(n, y, k)'
         /\ NewToEdges(n, x, i) => NewToEdges(n, x, i + 1)'
<1>1. PICK e \in Edges : e = Outgoing[n][i]
  BY GraphAssumption
<1>2. /\ \A m \in Nodes : \A j \in DOMAIN Outgoing[m] : Outgoing[m][j] \in Edges
      /\ Outgoing[n] \in Seq(Edges) /\ i \in Nat
  BY GraphAssumption
<1>3. /\ queue' \in [Edges -> Seq(Nat)] /\ \A d \in Edges : InOrder(d)'
      /\ Pushed(e)' \subseteq Pushed(e) \cup {x}
      /\ \A d \in Edges : d # e => Pushed(d)' = Pushed(d)
  <2>1. CASE queue' = queue
    BY <2>1 DEF Ordered, EventTypes, InOrder, Pushed
  <2>2. CASE queue' = [queue EXCEPT ![e] = PushBack(queue[e], x, Capacity)]
    BY <1>1, <2>2, PushInOrder
  <2>. QED
    BY <1>1, <2>1, <2>2 DEF PushTo
<1>4. \A m, y : Upstream(m, y) => Upstream(m, y)'
  BY DEF Upstream
<1>5. \A m \in Nodes : \A j \in DOMAIN Outgoing[m] : Outgoing[m][j] = e => m = n /\ j = i
  BY <1>1 DEF SinglePath
<1>6. FromUpstream'
  <2>. SUFFICES ASSUME NEW m \in Nodes, NEW j \in DOMAIN Outgoing[m], NEW y \in Pushed(Outgoing[m][j])'
                PROVE  Upstream(m, y)'
    BY DEF FromUpstream
  <2>1. Upstream(m, y)
    <3>1. CASE y \in Pushed(Outgoing[m][j])
      BY <3>1 DEF Ordered, FromUpstream
    <3>2. CASE y \notin Pushed(Outgoing[m][j])
      <4>1. Outgoing[m][j] = e
        BY <1>2, <1>3, <3>2
      <4>2. m = n /\ y = x
        BY <1>3, <1>5, <3>2, <4>1
      <4>. QED
        BY <4>2
    <3>. QED
      BY <3>1, <3>2
  <2>. QED
    BY <1>4, <2>1
<1>7. ASSUME NEW m \in Nodes \ {n}, NEW y, NEW k, NewToEdges(m, y, k) PROVE NewToEdges(m, y, k)'
  <2>1. \A j \in DOMAIN Outgoing[m] : Pushed(Outgoing[m][j])' = Pushed(Outgoing[m][j])
    BY <1>2, <1>3, <1>5, <1>7
  <2>. QED
    BY <1>7, <2>1 DEF NewToEdges, Below
<1>8. ASSUME NEW y, NEW k, n \in Keepers, y # x, NewToEdges(n, y, k) PROVE NewToEdges(n, y, k)'
  <2>. SUFFICES ASSUME NEW j \in DOMAIN Outgoing[n], k <= j, NEW z \in Pushed(Outgoing[n][j])'
                PROVE  Precedes(Outgoing[n][j], z, y)
    BY DEF NewToEdges, Below
  <2>1. CASE z = x
    BY <1>8, <2>1, InOrderAbove DEF Precedes
  <2>2. CASE z \in Pushed(Outgoing[n][j])
    BY <1>8, <2>2 DEF NewToEdges, Below
  <2>. QED
    BY <1>2, <1>3, <2>1, <2>2
<1>9. ASSUME NewToEdges(n, x, i) PROVE NewToEdges(n, x, i + 1)'
  <2>. SUFFICES ASSUME NEW j \in DOMAIN Outgoing[n], i + 1 <= j PROVE Below(Outgoing[n][j], x)'
    BY DEF NewToEdges
  <2>1. j \in Nat /\ i <= j /\ j # i
    BY <1>2
  <2>2. Outgoing[n][j] # e
    BY <1>5, <2>1
  <2>3. Pushed(Outgoing[n][j])' = Pushed(Outgoing[n][j])
    BY <1>2, <1>3, <2>2
  <2>. QED
    BY <1>9, <2>1, <2>3 DEF NewToEdges, Below
<1>. QED
  BY <1>3, <1>4, <1>6, <1>7, <1>8, <1>9

\* A worker passes events on in the order they came, or hands them to its stage.
LEMMA WorkerKeepsOrder ==
  ASSUME SinglePath, Shape, OneWorkerPerNode, Ordered, NEW t \in Threads, WorkerStep(t)
  PROVE  Ordered'
<1>. DEFINE n == Node(t)
            x == event[t]
<1>1. /\ pc \in [Threads -> Places] /\ n \in Nodes /\ x \in Nat
      /\ event \in [Threads -> Nat] /\ idx \in [Threads -> [pop : Nat, push : Nat]]
      /\ emitted \in Nat /\ queue \in [Edges -> Seq(Nat)] /\ delivered \in [Edges -> Seq(Nat)]
      /\ kept \in [Nodes -> SUBSET Nat]
      /\ answer \in [Nodes \X StageThreads -> [event : Nat, push : Nat]]
  BY DEF Ordered, EventTypes, Shape, Threads, Node
<1>2. /\ Outgoing[n] \in Seq(Edges) /\ Incoming[n] \in Seq(Edges)
      /\ Keepers \subseteq Nodes /\ \A u \in Threads : Node(u) \in Nodes
  BY <1>1, GraphAssumption DEF Threads, Node
<1>3. /\ HoldsNew(t)
      /\ \A m \in Nodes : \A j \in DOMAIN Outgoing[m] : Outgoing[m][j] \in Edges
  BY GraphAssumption DEF Ordered
<1>. HIDE DEF n
<1>4. ASSUME NEW place, NEW a \in Nat, NEW b \in Nat, Move(t, place, a, b)
      PROVE  /\ idx' \in [Threads -> [pop : Nat, push : Nat]]
             /\ pc'[t] = place /\ idx'[t].pop = a /\ idx'[t].push = b
             /\ \A u \in Threads : u # t => pc'[u] = pc[u] /\ idx'[u] = idx[u]
  BY <1>1, <1>4 DEF Move
<1>5. ASSUME NEW y \in Nat, event' = [event EXCEPT ![t] = y]
      PROVE  /\ event' \in [Threads -> Nat] /\ event'[t] = y
             /\ \A u \in Threads : u # t => event'[u] = event[u]
  BY <1>1, <1>5
\* A step that takes nothing from an edge, and puts nothing there.
<1>6. ASSUME UNCHANGED <<queue, delivered, kept, answer>>, EventTypes', emitted' >= emitted, HoldsNew(t)',
             \A u \in Threads : u # t => pc'[u] = pc[u] /\ idx'[u] = idx[u] /\ event'[u] = event[u]
      PROVE  Ordered'
  <2>1. \A e \in Edges : Pushed(e)' = Pushed(e) /\ InOrder(e)'
    BY <1>6 DEF Ordered, InOrder, Pushed
  <2>2. \A m \in Nodes : \A y : Outgoing[m] # <<>> /\ Upstream(m, y) => Upstream(m, y)'
    <3>. SUFFICES ASSUME NEW m \in Nodes, NEW y, Outgoing[m] # <<>>, Upstream(m, y) PROVE Upstream(m, y)'
      OBVIOUS
    <3>1. \A z \in 0..emitted : z \in 0..emitted'
      BY <1>1, <1>6 DEF EventTypes
    <3>. QED
      BY <1>6, <3>1 DEF Upstream
  <2>3. FromUpstream' /\ \A m \in Nodes : \A y, i : NewToEdges(m, y, i) => NewToEdges(m, y, i)'
    BY <2>1, <2>2, EdgesStay
  <2>4. StagesNew' /\ \A u \in Threads : u # t => HoldsNew(u)'
    BY <1>2, <1>6, <2>2, <2>3, HoldersStay
  <2>. QED
    BY <1>6, <2>1, <2>3, <2>4 DEF Ordered
<1>7. CASE Check(t)
  <2>1. \/ Move(t, "exited", 0, 0)
        \/ n \in Sources /\ Move(t, "process", 0, 0)
        \/ Move(t, "poll", 1, 0)
    BY <1>7 DEF Check, n
  <2>2. event' = [event EXCEPT ![t] = 0] /\ UNCHANGED <<queue, delivered, emitted, kept, answer>>
    BY <1>7 DEF Check, execVars, ownVars, NoEvent
  <2>3. HoldsNew(t)'
    BY <1>4, <2>1 DEF HoldsNew, n
  <2>4. EventTypes' /\ emitted' >= emitted
    <3>1. event' \in [Threads -> Nat]
      BY <1>5, <2>2
    <3>2. idx' \in [Threads -> [pop : Nat, push : Nat]]
      BY <1>4, <2>1
    <3>. QED
      BY <1>1, <2>2, <3>1, <3>2 DEF EventTypes
  <2>5. \A u \in Threads : u # t => pc'[u] = pc[u] /\ idx'[u] = idx[u] /\ event'[u] = event[u]
    BY <1>4, <1>5, <2>1, <2>2
  <2>. QED
    BY <1>6, <2>2, <2>3, <2>4, <2>5
<1>8. CASE ProcessSilently(t)
  <2>1. /\ Move(t, "poll", idx[t].pop + 1, 0) /\ UNCHANGED <<queue, delivered, emitted, event, kept, answer>>
        /\ idx[t].pop + 1 \in Nat /\ idx[t].pop + 1 # 0
    BY <1>1, <1>8 DEF ProcessSilently, execVars, ownVars
  <2>2. HoldsNew(t)'
    BY <1>4, <2>1 DEF HoldsNew
  <2>3. EventTypes' /\ emitted' >= emitted
    BY <1>1, <1>4, <2>1 DEF EventTypes
  <2>4. \A u \in Threads : u # t => pc'[u] = pc[u] /\ idx'[u] = idx[u] /\ event'[u] = event[u]
    BY <1>4, <2>1
  <2>. QED
    BY <1>6, <2>1, <2>2, <2>3, <2>4
<1>9. CASE ProcessEmits(t)
  <2>1. /\ pc[t] = "process" /\ Outgoing[n] # <<>> /\ Move(t, "emit", idx[t].pop, 1) /\ n \notin Keepers
        /\ UNCHANGED <<queue, delivered, kept, answer>> /\ idx[t].pop \in Nat
        /\ \/ /\ n \in Sources /\ emitted' = emitted + 1
              /\ event' = [event EXCEPT ![t] = emitted + 1]
           \/ n \notin Sources /\ UNCHANGED <<emitted, event>>
    BY <1>1, <1>9 DEF ProcessEmits, execVars, ownVars, n
  <2>2. EventTypes' /\ emitted' >= emitted
    BY <1>1, <1>4, <1>5, <2>1 DEF EventTypes
  <2>3. \A u \in Threads : u # t => pc'[u] = pc[u] /\ idx'[u] = idx[u] /\ event'[u] = event[u]
    BY <1>1, <1>4, <1>5, <2>1
  <2>4. pc'[t] = "emit" /\ idx'[t].push = 1
    BY <1>4, <2>1
  <2>5. 1 \in DOMAIN Outgoing[n]
    BY <1>2, <2>1
  <2>6. Upstream(n, event[t])' /\ \A j \in DOMAIN Outgoing[n] : Below(Outgoing[n][j], event'[t])
    <3>1. CASE n \in Sources
      <4>1. event'[t] = emitted + 1 /\ emitted' = emitted + 1
        BY <1>1, <1>5, <2>1, <3>1
      <4>2. \A j \in DOMAIN Outgoing[n] : \A y \in Pushed(Outgoing[n][j]) : y \in Nat /\ y <= emitted
        BY <1>1, <1>3, <3>1 DEF Ordered, FromUpstream, Upstream, Pushed, Items
      <4>3. Upstream(n, event[t])'
        BY <1>1, <3>1, <4>1 DEF Upstream
      <4>4. \A j \in DOMAIN Outgoing[n] : Below(Outgoing[n][j], emitted + 1)
        <5>. SUFFICES ASSUME NEW j \in DOMAIN Outgoing[n], NEW y \in Pushed(Outgoing[n][j])
                      PROVE  Precedes(Outgoing[n][j], y, emitted + 1)
          BY DEF Below
        <5>1. y \in Nat /\ y <= emitted /\ emitted \in Nat
          BY <1>1, <4>2
        <5>2. y < emitted + 1 /\ y # emitted + 1
          BY <5>1
        <5>. QED
          BY <5>2 DEF Precedes
      <4>. QED
        BY <4>1, <4>3, <4>4
    <3>2. CASE n \notin Sources
      <4>1. event' = event
        BY <2>1, <3>2
      <4>2. Upstream(n, x) /\ NewToEdges(n, x, 1)
        BY <1>3, <2>1, <3>2 DEF HoldsNew, n
      <4>3. Upstream(n, event[t])'
        BY <2>1, <3>2, <4>1, <4>2 DEF Upstream
      <4>4. \A j \in DOMAIN Outgoing[n] : 1 <= j
        BY <1>2
      <4>. QED
        BY <4>1, <4>2, <4>3, <4>4 DEF NewToEdges
    <3>. QED
      BY <3>1, <3>2
  <2>7. NewToEdges(n, event[t], 1)'
    BY <2>1, <2>6 DEF NewToEdges, Below, Pushed
  <2>8. HoldsNew(t)'
    BY <2>1, <2>4, <2>5, <2>6, <2>7 DEF HoldsNew, n
  <2>. QED
    BY <1>6, <2>1, <2>2, <2>3, <2>8
<1>10. CASE Poll(t)
  <2>1. PICK i \in Nat : i = idx[t].pop /\ i # 0 /\ i + 1 \in Nat /\ i + 1 # 0 /\ pc[t] = "poll"
    BY <1>1, <1>3, <1>10 DEF Poll, HoldsNew
  <2>0. UNCHANGED <<emitted, kept, answer>>
    BY <1>10 DEF Poll, ownVars
  <2>2. CASE Move(t, "check", 0, 0) /\ UNCHANGED <<queue, event, delivered>>
    <3>1. HoldsNew(t)'
      BY <1>4, <2>2 DEF HoldsNew
    <3>2. EventTypes' /\ emitted' >= emitted
      BY <1>1, <1>4, <2>0, <2>2 DEF EventTypes
    <3>3. \A u \in Threads : u # t => pc'[u] = pc[u] /\ idx'[u] = idx[u] /\ event'[u] = event[u]
      BY <1>4, <2>2
    <3>. QED
      BY <1>6, <2>0, <2>2, <3>1, <3>2, <3>3
  <2>3. CASE Move(t, "poll", i + 1, 0) /\ UNCHANGED <<queue, event, delivered>>
    <3>1. HoldsNew(t)'
      BY <1>4, <2>1, <2>3 DEF HoldsNew
    <3>2. EventTypes' /\ emitted' >= emitted
      BY <1>1, <1>4, <2>0, <2>1, <2>3 DEF EventTypes
    <3>3. \A u \in Threads : u # t => pc'[u] = pc[u] /\ idx'[u] = idx[u] /\ event'[u] = event[u]
      BY <1>4, <2>1, <2>3
    <3>. QED
      BY <1>6, <2>0, <2>3, <3>1, <3>2, <3>3
  <2>4. CASE /\ ~(i > Len(Incoming[n])) /\ queue[Incoming[n][i]] # <<>>
             /\ event' = [event EXCEPT ![t] = Head(queue[Incoming[n][i]])]
             /\ queue' = [queue EXCEPT ![Incoming[n][i]] = Tail(@)]
             /\ delivered' = [delivered EXCEPT ![Incoming[n][i]] = Append(@, Head(queue[Incoming[n][i]]))]
             /\ Move(t, "process", i, 0)
    <3>0. Incoming[n][i] \in Edges
      BY <1>2, <2>1, <2>4
    <3>1. PICK d, h, r, s : d = Incoming[n][i] /\ h = Head(queue[d]) /\ r = Tail(queue[d]) /\ s = Append(delivered[d], h)
      OBVIOUS
    <3>2. /\ r \in Seq(Nat) /\ Chain(d, r) /\ h \in Nat
          /\ Items(queue[d]) = Items(r) \cup {h} /\ \A y \in Items(r) : Precedes(d, h, y)
      BY <1>1, <2>4, <3>0, <3>1, HeadItem DEF Ordered, InOrder
    <3>3. \A y \in Items(delivered[d]) : Precedes(d, y, h)
      BY <3>0, <3>1, <3>2 DEF Ordered, InOrder
    <3>4. s \in Seq(Nat) /\ Chain(d, s) /\ Items(s) = Items(delivered[d]) \cup {h}
      <4>1. delivered[d] \in Seq(Nat) /\ Chain(d, delivered[d])
        BY <1>1, <3>0, <3>1 DEF Ordered, InOrder
      <4>2. h \in Nat
        BY <3>2
      <4>3. /\ Append(delivered[d], h) \in Seq(Nat) /\ Chain(d, Append(delivered[d], h))
            /\ Items(Append(delivered[d], h)) = Items(delivered[d]) \cup {h}
        BY <3>3, <4>1, <4>2, AppendItem, Zenon
      <4>. QED
        BY <3>1, <4>3
    <3>5. /\ queue'[d] = r /\ delivered'[d] = s
          /\ \A e \in Edges : e # d => queue'[e] = queue[e] /\ delivered'[e] = delivered[e]
          /\ queue' \in [Edges -> Seq(Nat)] /\ delivered' \in [Edges -> Seq(Nat)]
      BY <1>1, <2>4, <3>0, <3>1, <3>2, <3>4
    <3>7. /\ event' \in [Threads -> Nat] /\ event'[t] = h
          /\ \A u \in Threads : u # t => event'[u] = event[u]
      BY <1>5, <2>4, <3>1, <3>2
    <3>8. /\ idx' \in [Threads -> [pop : Nat, push : Nat]] /\ pc'[t] = "process"
          /\ \A u \in Threads : u # t => pc'[u] = pc[u] /\ idx'[u] = idx[u]
      BY <1>4, <2>4
    <3>9. \A e \in Edges : Pushed(e)' = Pushed(e) /\ Items(delivered[e]) \subseteq Items(delivered'[e])
      BY <3>2, <3>4, <3>5 DEF Pushed
    <3>10. \A e \in Edges : InOrder(e)'
      <4>1. InOrder(d)'
        <5>1. \A y \in Items(delivered[d]), z \in Items(r) : Precedes(d, y, z)
          BY <3>0, <3>1, <3>2 DEF InOrder, Ordered
        <5>2. \A y \in Items(s), z \in Items(r) : Precedes(d, y, z)
          BY <3>2, <3>4, <5>1
        <5>. QED
          BY <3>2, <3>4, <3>5, <5>2 DEF InOrder
      <4>2. \A e \in Edges : e # d => InOrder(e)'
        BY <3>5 DEF InOrder, Ordered
      <4>. QED
        BY <4>1, <4>2
    <3>11. \A m \in Nodes \ Sources : Outgoing[m] # <<>> => Len(Incoming[m]) = 1 /\ Incoming[m][1] \in Edges
      BY GraphAssumption DEF SinglePath
    <3>12. \A m \in Nodes : \A y : Outgoing[m] # <<>> /\ Upstream(m, y) => Upstream(m, y)'
      <4>. SUFFICES ASSUME NEW m \in Nodes, NEW y, Outgoing[m] # <<>>, Upstream(m, y) PROVE Upstream(m, y)'
        OBVIOUS
      <4>. QED
        BY <2>0, <3>9, <3>11 DEF Upstream
    <3>14. FromUpstream' /\ \A m \in Nodes : \A y, k : NewToEdges(m, y, k) => NewToEdges(m, y, k)'
      BY <3>9, <3>12, EdgesStay
    <3>15. StagesNew' /\ \A u \in Threads : u # t => HoldsNew(u)'
      BY <1>2, <2>0, <3>7, <3>8, <3>12, <3>14, HoldersStay
    <3>16. HoldsNew(t)'
      <4>. SUFFICES ASSUME n \notin Sources, Outgoing[n] # <<>>
                    PROVE  Upstream(n, event[t])' /\ NewToEdges(n, event[t], 1)' /\ NotWithStage(n, event[t])'
        BY <3>8 DEF HoldsNew, n
      <4>0. Len(Incoming[n]) = 1
        BY <1>1, <3>11
      <4>1. i = 1 /\ d = Incoming[n][1] /\ 1 \in DOMAIN Incoming[n]
        <5>1. ~(i > 1) /\ i \in Nat /\ i # 0
          BY <2>1, <2>4, <4>0
        <5>2. i = 1
          BY <5>1
        <5>. QED
          BY <1>2, <3>1, <4>0, <5>2
      <4>2. Upstream(n, event[t])'
        BY <3>4, <3>5, <3>7, <4>1 DEF Upstream
      <4>3. \A y : Upstream(n, y) => y \in Items(delivered[d])
        BY <4>1 DEF Upstream
      <4>4. \A j \in DOMAIN Outgoing[n] : \A y \in Pushed(Outgoing[n][j])' : Precedes(Outgoing[n][j], y, h)
        <5>. SUFFICES ASSUME NEW j \in DOMAIN Outgoing[n], NEW y \in Pushed(Outgoing[n][j])'
                      PROVE  Precedes(Outgoing[n][j], y, h)
          OBVIOUS
        <5>1. y \in Pushed(Outgoing[n][j])
          BY <1>1, <1>3, <3>9
        <5>2. Precedes(d, y, h)
          BY <1>1, <3>3, <4>3, <5>1 DEF Ordered, FromUpstream
        <5>3. InOrderEdge(Outgoing[n][j]) => InOrderEdge(d)
          BY <1>1, <4>1, InOrderAbove
        <5>. QED
          BY <5>2, <5>3 DEF Precedes
      <4>5. NewToEdges(n, event[t], 1)'
        BY <3>7, <4>4 DEF NewToEdges, Below
      <4>6. NotWithStage(n, event[t])'
        <5>1. ASSUME n \in Keepers PROVE KeptNew(n) /\ \A w \in StageThreads : AnswerNew(n, w)
          BY <5>1 DEF Ordered, StagesNew
        <5>2. ~Upstream(n, h)
          BY <3>3, <4>3 DEF Precedes
        <5>3. NotWithStage(n, h)
          BY <5>1, <5>2 DEF NotWithStage, KeptNew, AnswerNew
        <5>. QED
          BY <2>0, <3>7, <5>3 DEF NotWithStage
      <4>. QED
        BY <4>2, <4>5, <4>6
    <3>17. EventTypes'
      BY <1>1, <2>0, <3>5, <3>7, <3>8 DEF EventTypes
    <3>. QED
      BY <3>10, <3>14, <3>15, <3>16, <3>17 DEF Ordered
  <2>. QED
    BY <1>10, <2>1, <2>2, <2>3, <2>4 DEF Poll, n
<1>11. CASE Emit(t)
  <2>1. PICK i : i = idx[t].push
    OBVIOUS
  <2>2. /\ pc[t] = "emit" /\ UNCHANGED <<event, emitted, delivered, kept, answer>>
        /\ PushTo(Outgoing[n][i], x)
        /\ \/ Move(t, "poll", idx[t].pop + 1, 0)
           \/ i # Len(Outgoing[n]) /\ Move(t, "emit", idx[t].pop, i + 1)
    BY <1>11, <2>1 DEF Emit, ownVars, n
  <2>3. i \in Nat /\ i \in DOMAIN Outgoing[n] /\ Upstream(n, x) /\ NewToEdges(n, x, i) /\ n \notin Keepers
    BY <1>1, <1>3, <2>1, <2>2 DEF HoldsNew, n
  <2>4. Below(Outgoing[n][i], x)
    BY <2>3 DEF NewToEdges
  <2>5. /\ queue' \in [Edges -> Seq(Nat)]
        /\ \A d \in Edges : InOrder(d)'
        /\ FromUpstream'
        /\ \A m, y : Upstream(m, y) => Upstream(m, y)'
        /\ \A m \in Nodes \ {n} : \A y, k : NewToEdges(m, y, k) => NewToEdges(m, y, k)'
        /\ NewToEdges(n, x, i + 1)'
    BY <1>1, <2>2, <2>3, <2>4, PushKeeps
  <2>6. idx[t].pop \in Nat /\ idx[t].pop + 1 \in Nat /\ idx[t].pop + 1 # 0 /\ i + 1 \in Nat
    BY <1>1, <2>3
  <2>7. /\ idx' \in [Threads -> [pop : Nat, push : Nat]]
        /\ \A u \in Threads : u # t => pc'[u] = pc[u] /\ idx'[u] = idx[u]
        /\ \/ pc'[t] = "poll" /\ idx'[t].pop # 0
           \/ pc'[t] = "emit" /\ idx'[t].push = i + 1 /\ i # Len(Outgoing[n])
    BY <1>4, <2>2, <2>6
  <2>8. StagesNew' /\ \A u \in Threads : u # t /\ Node(u) # n => HoldsNew(u)'
    <3>1. Keepers \subseteq Nodes \ {n}
      BY <1>2, <2>3
    <3>2. \A m \in Nodes : \A y : Outgoing[m] # <<>> /\ Upstream(m, y) => Upstream(m, y)'
      BY <2>5
    <3>3. /\ Keepers \subseteq Nodes \ {n} => StagesNew'
          /\ \A u \in Threads : Node(u) \in Nodes \ {n} /\ pc'[u] = pc[u] /\ idx'[u] = idx[u] /\ event'[u] = event[u]
                => HoldsNew(u)'
      BY <2>2, <2>5, <3>2, HoldersStay
    <3>. QED
      BY <1>2, <2>2, <2>7, <3>1, <3>3
  <2>9. ASSUME NEW u \in Threads, u # t, Node(u) = n PROVE HoldsNew(u)'
    <3>1. pc'[u] \notin {"process", "emit"} /\ pc'[u] = pc[u] /\ idx'[u] = idx[u]
      BY <2>2, <2>7, <2>9 DEF OneWorkerPerNode, Alive, n
    <3>. QED
      BY <3>1 DEF Ordered, HoldsNew
  <2>12. HoldsNew(t)'
    <3>1. CASE pc'[t] = "poll" /\ idx'[t].pop # 0
      BY <3>1 DEF HoldsNew
    <3>2. CASE pc'[t] = "emit" /\ idx'[t].push = i + 1 /\ i # Len(Outgoing[n])
      <4>1. i + 1 \in DOMAIN Outgoing[n]
        BY <1>2, <2>3, <3>2
      <4>2. event'[t] = x /\ Upstream(n, x)'
        BY <2>2, <2>3, <2>5
      <4>3. Upstream(n, event[t])' /\ NewToEdges(n, event[t], i + 1)'
        BY <2>2, <2>3, <2>5, <4>2 DEF Upstream
      <4>. QED
        BY <2>3, <3>2, <4>1, <4>3 DEF HoldsNew, n
    <3>. QED
      BY <2>7, <3>1, <3>2
  <2>13. EventTypes'
    BY <1>1, <2>2, <2>5, <2>7 DEF EventTypes
  <2>. QED
    BY <2>5, <2>8, <2>9, <2>12, <2>13 DEF Ordered
<1>12. CASE ProcessKeeps(t)
  <2>1. /\ pc[t] = "process" /\ n \in Keepers /\ n \notin Sources
        /\ kept' = [kept EXCEPT ![n] = kept[n] \cup {x}]
        /\ Move(t, "poll", idx[t].pop + 1, 0)
        /\ UNCHANGED <<queue, delivered, emitted, event, answer>>
        /\ idx[t].pop + 1 \in Nat /\ idx[t].pop + 1 # 0
    BY <1>1, <1>12, GraphAssumption DEF ProcessKeeps, execVars, n
  <2>2. EventTypes'
    BY <1>1, <1>4, <2>1 DEF EventTypes
  <2>3. /\ \A m \in Nodes : m # n => kept'[m] = kept[m]
        /\ kept'[n] = kept[n] \cup {x}
        /\ \A u \in Threads : u # t => pc'[u] = pc[u] /\ idx'[u] = idx[u]
        /\ pc'[t] = "poll" /\ idx'[t].pop # 0
    BY <1>1, <1>4, <2>1
  <2>4. /\ \A e \in Edges : InOrder(e)'
        /\ \A m, y : Upstream(m, y) => Upstream(m, y)'
        /\ \A m, y, k : NewToEdges(m, y, k) => NewToEdges(m, y, k)'
    BY <2>1 DEF Ordered, InOrder, Upstream, NewToEdges, Below, Pushed
  <2>5. FromUpstream'
    BY <2>1 DEF Ordered, FromUpstream, Upstream, Pushed
  <2>6. ASSUME NEW u \in Threads PROVE HoldsNew(u)'
    <3>1. CASE u = t
      BY <2>3, <3>1 DEF HoldsNew
    <3>2. CASE u # t
      <4>1. PICK y : y = event[u]
        OBVIOUS
      <4>2. HoldsNew(u) /\ y = event'[u] /\ pc'[u] = pc[u] /\ idx'[u] = idx[u] /\ Node(u) \in Nodes
        BY <1>2, <2>1, <2>3, <3>2, <4>1 DEF Ordered
      <4>3. pc[u] \in {"process", "emit"} => Node(u) # n
        BY <2>1, <3>2 DEF OneWorkerPerNode, Alive, n
      <4>4. Node(u) # n /\ NotWithStage(Node(u), y) => NotWithStage(Node(u), y)'
        BY <2>1, <2>3, <4>2 DEF NotWithStage
      <4>5. pc[u] = "process" /\ Node(u) \notin Sources /\ Outgoing[Node(u)] # <<>> =>
              Upstream(Node(u), y)' /\ NewToEdges(Node(u), y, 1)' /\ NotWithStage(Node(u), y)'
        BY <2>4, <4>1, <4>2, <4>3, <4>4 DEF HoldsNew
      <4>6. pc[u] = "emit" =>
              /\ idx[u].push \in DOMAIN Outgoing[Node(u)] /\ Node(u) \notin Keepers
              /\ Upstream(Node(u), y)' /\ NewToEdges(Node(u), y, idx[u].push)'
        BY <2>4, <4>1, <4>2 DEF HoldsNew
      <4>. QED
        BY <4>2, <4>5, <4>6 DEF HoldsNew
    <3>. QED
      BY <3>1, <3>2
  <2>7. ASSUME NEW m \in Keepers, Outgoing[m] # <<>> PROVE KeptNew(m)'
    <3>1. KeptNew(m) /\ m \in Nodes
      BY <1>2, <2>7 DEF Ordered, StagesNew
    <3>2. CASE m # n
      BY <2>1, <2>3, <2>4, <3>1, <3>2 DEF KeptNew
    <3>3. CASE m = n
      <4>1. Upstream(n, x) /\ NewToEdges(n, x, 1) /\ NotWithStage(n, x)
        BY <1>3, <2>1, <2>7, <3>3 DEF HoldsNew, n
      <4>2. \A y \in kept'[n] : y = x \/ y \in kept[n]
        BY <2>3
      <4>3. \A y \in kept'[n] : /\ Upstream(n, y) /\ NewToEdges(n, y, 1)
                                /\ \A w \in StageThreads : answer[<<n, w>>] = NoAnswer \/ answer[<<n, w>>].event # y
        BY <2>1, <3>1, <3>3, <4>1, <4>2 DEF KeptNew, NotWithStage
      <4>. QED
        BY <2>1, <2>4, <3>3, <4>3 DEF KeptNew
    <3>. QED
      BY <3>2, <3>3
  <2>8. ASSUME NEW m \in Keepers, NEW w \in StageThreads PROVE AnswerNew(m, w)'
    <3>. SUFFICES ASSUME answer[<<m, w>>] # NoAnswer PROVE AnswerNew(m, w)'
      BY <2>1 DEF AnswerNew
    <3>1. PICK a : a = answer[<<m, w>>]
      OBVIOUS
    <3>2. /\ a.push \in DOMAIN Outgoing[m] /\ Upstream(m, a.event) /\ NewToEdges(m, a.event, a.push)
          /\ \A v \in StageThreads : v # w =>
                answer[<<m, v>>] = NoAnswer \/ answer[<<m, v>>].event # a.event
      BY <3>1 DEF Ordered, StagesNew, AnswerNew
    <3>3. Upstream(m, a.event)' /\ NewToEdges(m, a.event, a.push)'
      BY <2>4, <3>2
    <3>4. a = answer'[<<m, w>>] /\ answer' = answer
      BY <2>1, <3>1
    <3>. QED
      BY <3>2, <3>3, <3>4 DEF AnswerNew
  <2>. QED
    BY <2>2, <2>4, <2>5, <2>6, <2>7, <2>8 DEF Ordered, StagesNew
<1>. QED
  BY <1>7, <1>8, <1>9, <1>10, <1>11, <1>12 DEF WorkerStep

\* A step that leaves the edges and the workers' places alone, or sends a worker
\* to the top of its loop, and at most makes a stage keep less.
LEMMA StagesKeepLess ==
  ASSUME Ordered, UNCHANGED <<queue, delivered, emitted, event, idx, answer>>,
         kept' \in [Nodes -> SUBSET Nat], \A n \in Nodes : kept'[n] \subseteq kept[n],
         \A t \in Threads : pc'[t] = pc[t] \/ pc'[t] = "check"
  PROVE  Ordered'
<1>1. /\ EventTypes' /\ \A e \in Edges : InOrder(e)'
      /\ \A n, x : Upstream(n, x) => Upstream(n, x)'
      /\ \A n, x, i : NewToEdges(n, x, i) => NewToEdges(n, x, i)'
  BY DEF Ordered, EventTypes, InOrder, Upstream, NewToEdges, Below, Pushed
<1>2. FromUpstream'
  BY DEF Ordered, FromUpstream, Upstream, Pushed
<1>3. /\ Keepers \subseteq Nodes /\ \A t \in Threads : Node(t) \in Nodes
  BY GraphAssumption DEF Threads, Node
<1>4. ASSUME NEW t \in Threads PROVE HoldsNew(t)'
  <2>1. CASE pc'[t] = "check"
    BY <2>1 DEF HoldsNew
  <2>2. CASE pc'[t] = pc[t]
    <3>1. HoldsNew(t) /\ \A x : NotWithStage(Node(t), x) => NotWithStage(Node(t), x)'
      BY <1>3 DEF Ordered, NotWithStage
    <3>2. PICK x, i : x = event[t] /\ i = idx[t].push
      OBVIOUS
    <3>3. x = event'[t] /\ i = idx'[t].push /\ idx'[t].pop = idx[t].pop
      BY <3>2
    <3>4. /\ pc[t] = "process" /\ Node(t) \notin Sources /\ Outgoing[Node(t)] # <<>> =>
               Upstream(Node(t), x)' /\ NewToEdges(Node(t), x, 1)' /\ NotWithStage(Node(t), x)'
          /\ pc[t] = "emit" => Upstream(Node(t), x)' /\ NewToEdges(Node(t), x, i)'
      BY <1>1, <3>1, <3>2 DEF HoldsNew
    <3>. QED
      BY <2>2, <3>1, <3>2, <3>3, <3>4 DEF HoldsNew
  <2>. QED
    BY <2>1, <2>2
<1>5. ASSUME NEW n \in Keepers, Outgoing[n] # <<>> PROVE KeptNew(n)'
  BY <1>1, <1>3, <1>5 DEF Ordered, StagesNew, KeptNew
<1>6. ASSUME NEW n \in Keepers, NEW w \in StageThreads PROVE AnswerNew(n, w)'
  <2>1. PICK a : a = answer[<<n, w>>]
    OBVIOUS
  <2>2. a # NoAnswer =>
          /\ a.push \in DOMAIN Outgoing[n] /\ Upstream(n, a.event)' /\ NewToEdges(n, a.event, a.push)'
          /\ \A v \in StageThreads : v # w => answer[<<n, v>>] = NoAnswer \/ answer[<<n, v>>].event # a.event
    BY <1>1, <2>1 DEF Ordered, StagesNew, AnswerNew
  <2>3. a = answer'[<<n, w>>]
    BY <2>1
  <2>. QED
    BY <2>2, <2>3 DEF AnswerNew
<1>. QED
  BY <1>1, <1>2, <1>4, <1>5, <1>6 DEF Ordered, StagesNew

\* start() and stop() touch no event but those a stage drops when it stops.
LEMMA ControllerKeepsOrder ==
  ASSUME Shape, Ordered, NEW c, Call(c) \/ ControllerStep(c)
  PROVE  Ordered'
<1>1. UNCHANGED <<queue, delivered, emitted, event, idx, answer>>
  BY DEF Call, ControllerStep, StartBegin, ReopenEdge, SpawnWorker, StopBegin, StopEdge,
         JoinWorkers, ReleaseStage, workVars, ownVars
<1>2. kept' = kept \/ \E n : kept' = [kept EXCEPT ![n] = {}]
  BY DEF Call, ControllerStep, StartBegin, ReopenEdge, SpawnWorker, StopBegin, StopEdge,
         JoinWorkers, ReleaseStage, ownVars
<1>3. kept \in [Nodes -> SUBSET Nat]
  BY DEF Ordered, EventTypes
<1>4. kept' \in [Nodes -> SUBSET Nat] /\ \A n \in Nodes : kept'[n] \subseteq kept[n]
  BY <1>2, <1>3
<1>5. \A t \in Threads : pc'[t] = pc[t] \/ pc'[t] = "check"
  <2>1. CASE SpawnWorker(c)
    BY <2>1 DEF SpawnWorker, Shape
  <2>2. CASE ~SpawnWorker(c)
    BY <2>2 DEF Call, ControllerStep, StartBegin, ReopenEdge, StopBegin, StopEdge,
         JoinWorkers, ReleaseStage, workVars
  <2>. QED
    BY <2>1, <2>2
<1>. QED
  BY <1>1, <1>4, <1>5, StagesKeepLess

\* A thread of a stage takes an event from those kept, and emits it.
LEMMA OwnThreadKeepsOrder ==
  ASSUME SinglePath, Ordered,
         (\E s \in Keepers \X StageThreads : OwnThreadStep(s)) \/ (\E n \in Keepers : AnswerLost(n))
  PROVE  Ordered'
<1>1. /\ kept \in [Nodes -> SUBSET Nat] /\ answer \in [Nodes \X StageThreads -> [event : Nat, push : Nat]]
      /\ Keepers \subseteq Nodes /\ \A t \in Threads : Node(t) \in Nodes
  BY GraphAssumption DEF Ordered, EventTypes, Threads, Node
<1>2. ASSUME NEW n \in Keepers, AnswerLost(n) PROVE Ordered'
  <2>1. UNCHANGED <<queue, delivered, emitted, event, idx, answer, pc>>
    BY <1>2 DEF AnswerLost, execVars, workVars
  <2>2. kept' \in [Nodes -> SUBSET Nat] /\ \A m \in Nodes : kept'[m] \subseteq kept[m]
    BY <1>1, <1>2 DEF AnswerLost
  <2>. QED
    BY <2>1, <2>2, StagesKeepLess
<1>3. ASSUME NEW n \in Keepers, NEW w \in StageThreads, AnswerBegin(<<n, w>>) PROVE Ordered'
  <2>. DEFINE s == <<n, w>>
  <2>1. /\ UNCHANGED <<queue, delivered, emitted, event, idx, pc>>
        /\ answer[s] = NoAnswer /\ Outgoing[n] # <<>> /\ n \in Nodes
    BY <1>1, <1>3 DEF AnswerBegin, execVars, workVars
  <2>2. PICK x \in kept[n] : /\ answer' = [answer EXCEPT ![s] = [event |-> x, push |-> 1]]
                             /\ kept' = [kept EXCEPT ![n] = kept[n] \ {x}]
    BY <1>3 DEF AnswerBegin
  <2>. HIDE DEF s
  <2>3. /\ x \in Nat /\ kept'[n] = kept[n] \ {x} /\ \A m \in Nodes : m # n => kept'[m] = kept[m]
        /\ s \in Nodes \X StageThreads /\ answer'[s] = [event |-> x, push |-> 1] /\ answer'[s] # NoAnswer
        /\ \A r \in Nodes \X StageThreads : r # s => answer'[r] = answer[r]
        /\ kept' \in [Nodes -> SUBSET Nat] /\ answer' \in [Nodes \X StageThreads -> [event : Nat, push : Nat]]
    BY <1>1, <1>3, <2>1, <2>2 DEF s, NoAnswer
  <2>4. /\ EventTypes' /\ \A e \in Edges : InOrder(e)'
        /\ \A m, y : Upstream(m, y) => Upstream(m, y)'
        /\ \A m, y, i : NewToEdges(m, y, i) => NewToEdges(m, y, i)'
    BY <2>1, <2>3 DEF Ordered, EventTypes, InOrder, Upstream, NewToEdges, Below, Pushed
  <2>5. FromUpstream'
    BY <2>1 DEF Ordered, FromUpstream, Upstream, Pushed
  <2>6. /\ KeptNew(n) /\ 1 \in DOMAIN Outgoing[n]
        /\ \A m \in Keepers, v \in StageThreads : AnswerNew(m, v)
    BY <2>1, GraphAssumption DEF Ordered, StagesNew
  <2>7. ASSUME NEW m \in Nodes, NEW y, NotWithStage(m, y) PROVE NotWithStage(m, y)'
    <3>1. CASE m # n
      <4>1. \A v \in StageThreads : answer'[<<m, v>>] = answer[<<m, v>>]
        BY <2>3, <3>1 DEF s
      <4>. QED
        BY <2>3, <2>7, <3>1, <4>1 DEF NotWithStage
    <3>2. CASE m = n
      <4>1. y # x /\ y \notin kept[n]
        BY <2>2, <2>7, <3>2 DEF NotWithStage
      <4>2. \A v \in StageThreads : v # w => answer'[<<n, v>>] = answer[<<n, v>>]
        BY <2>1, <2>3 DEF s
      <4>3. answer'[<<n, w>>].event = x
        BY <2>3 DEF s
      <4>. QED
        BY <2>3, <2>7, <3>2, <4>1, <4>2, <4>3 DEF NotWithStage
    <3>. QED
      BY <3>1, <3>2
  <2>8. ASSUME NEW t \in Threads PROVE HoldsNew(t)'
    <3>1. PICK y, i : y = event[t] /\ i = idx[t].push
      OBVIOUS
    <3>2. HoldsNew(t) /\ y = event'[t] /\ i = idx'[t].push /\ Node(t) \in Nodes
      BY <1>1, <2>1, <3>1 DEF Ordered
    <3>3. /\ pc[t] = "process" /\ Node(t) \notin Sources /\ Outgoing[Node(t)] # <<>> =>
               Upstream(Node(t), y)' /\ NewToEdges(Node(t), y, 1)' /\ NotWithStage(Node(t), y)'
          /\ pc[t] = "emit" => Upstream(Node(t), y)' /\ NewToEdges(Node(t), y, i)'
      BY <2>4, <2>7, <3>1, <3>2 DEF HoldsNew
    <3>. QED
      BY <2>1, <3>1, <3>2, <3>3 DEF HoldsNew
  <2>9. ASSUME NEW m \in Keepers, Outgoing[m] # <<>> PROVE KeptNew(m)'
    <3>1. KeptNew(m) /\ m \in Nodes
      BY <1>1, <2>9 DEF Ordered, StagesNew
    <3>2. CASE m # n
      <4>1. \A v \in StageThreads : answer'[<<m, v>>] = answer[<<m, v>>]
        BY <2>3, <3>1, <3>2 DEF s
      <4>. QED
        BY <2>3, <2>4, <3>1, <3>2, <4>1 DEF KeptNew
    <3>3. CASE m = n
      <4>1. \A v \in StageThreads : v # w => answer'[<<n, v>>] = answer[<<n, v>>]
        BY <2>1, <2>3 DEF s
      <4>2. answer'[<<n, w>>].event = x
        BY <2>3 DEF s
      <4>3. \A y \in kept'[n] : y \in kept[n] /\ y # x
        BY <2>3
      <4>. QED
        BY <2>4, <3>1, <3>3, <4>1, <4>2, <4>3 DEF KeptNew
    <3>. QED
      BY <3>2, <3>3
  <2>10. ASSUME NEW m \in Keepers, NEW v \in StageThreads PROVE AnswerNew(m, v)'
    <3>1. CASE m = n /\ v = w
      <4>1. Upstream(n, x)' /\ NewToEdges(n, x, 1)'
        BY <2>2, <2>4, <2>6 DEF KeptNew
      <4>2. \A u \in StageThreads : u # w => answer'[<<n, u>>] = answer[<<n, u>>]
        BY <2>1, <2>3 DEF s
      <4>3. \A u \in StageThreads : u # w => answer'[<<n, u>>] = NoAnswer \/ answer'[<<n, u>>].event # x
        BY <2>2, <2>6, <4>2 DEF KeptNew
      <4>4. answer'[<<n, w>>].event = x /\ answer'[<<n, w>>].push = 1
        BY <2>3 DEF s
      <4>. QED
        BY <2>6, <3>1, <4>1, <4>3, <4>4 DEF AnswerNew
    <3>2. CASE ~(m = n /\ v = w)
      <4>0. answer'[<<m, v>>] = answer[<<m, v>>] /\ m \in Nodes
        BY <1>1, <2>3, <3>2 DEF s
      <4>. SUFFICES ASSUME answer[<<m, v>>] # NoAnswer PROVE AnswerNew(m, v)'
        BY <4>0 DEF AnswerNew
      <4>1. PICK a : a = answer[<<m, v>>]
        OBVIOUS
      <4>2. /\ a.push \in DOMAIN Outgoing[m] /\ Upstream(m, a.event) /\ NewToEdges(m, a.event, a.push)
            /\ \A u \in StageThreads : u # v =>
                  answer[<<m, u>>] = NoAnswer \/ answer[<<m, u>>].event # a.event
        BY <2>6, <4>1 DEF AnswerNew
      <4>3. Upstream(m, a.event)' /\ NewToEdges(m, a.event, a.push)' /\ a = answer'[<<m, v>>]
        BY <2>4, <4>0, <4>1, <4>2
      <4>4. ASSUME NEW u \in StageThreads, u # v
            PROVE  answer'[<<m, u>>] = NoAnswer \/ answer'[<<m, u>>].event # a.event
        <5>1. CASE m = n /\ u = w
          <6>1. a.event # x
            BY <2>2, <2>6, <4>1, <5>1 DEF KeptNew
          <6>. QED
            BY <2>3, <5>1, <6>1 DEF s
        <5>2. CASE ~(m = n /\ u = w)
          <6>1. answer'[<<m, u>>] = answer[<<m, u>>]
            BY <2>3, <4>0, <5>2 DEF s
          <6>. QED
            BY <4>2, <4>4, <6>1
        <5>. QED
          BY <5>1, <5>2
      <4>. QED
        BY <4>2, <4>3, <4>4 DEF AnswerNew
    <3>. QED
      BY <3>1, <3>2
  <2>. QED
    BY <2>4, <2>5, <2>8, <2>9, <2>10 DEF Ordered, StagesNew
<1>4. ASSUME NEW n \in Keepers, NEW w \in StageThreads, AnswerPush(<<n, w>>) PROVE Ordered'
  <2>. DEFINE s == <<n, w>>
  <2>1. PICK x, i : x = answer[s].event /\ i = answer[s].push
    OBVIOUS
  <2>2. /\ answer[s] # NoAnswer /\ PushTo(Outgoing[n][i], x) /\ n \in Nodes
        /\ UNCHANGED <<delivered, emitted, event, idx, pc, kept>>
        /\ answer' = [answer EXCEPT ![s] =
              IF i = Len(Outgoing[n]) THEN NoAnswer ELSE [answer[s] EXCEPT !.push = i + 1]]
    BY <1>1, <1>4, <2>1 DEF AnswerPush, workVars
  <2>3. /\ s \in Nodes \X StageThreads /\ x \in Nat /\ i \in Nat /\ Outgoing[n] \in Seq(Edges)
        /\ answer[s] \in [event : Nat, push : Nat]
    BY <1>1, <1>4, <2>1, <2>2, GraphAssumption
  <2>4. /\ i \in DOMAIN Outgoing[n] /\ Upstream(n, x) /\ NewToEdges(n, x, i)
        /\ \A v \in StageThreads : v # w => answer[<<n, v>>] = NoAnswer \/ answer[<<n, v>>].event # x
    BY <1>4, <2>1, <2>2 DEF Ordered, StagesNew, AnswerNew
  <2>5. Below(Outgoing[n][i], x) /\ Outgoing[n] # <<>>
    BY <2>3, <2>4 DEF NewToEdges
  <2>6. /\ queue' \in [Edges -> Seq(Nat)]
        /\ \A d \in Edges : InOrder(d)'
        /\ FromUpstream'
        /\ \A m, y : Upstream(m, y) => Upstream(m, y)'
        /\ \A m \in Nodes \ {n} : \A y, k : NewToEdges(m, y, k) => NewToEdges(m, y, k)'
        /\ \A y, k : y # x /\ NewToEdges(n, y, k) => NewToEdges(n, y, k)'
        /\ NewToEdges(n, x, i + 1)'
    BY <1>4, <2>2, <2>3, <2>4, <2>5, PushKeeps
  <2>. HIDE DEF s
  <2>7. /\ answer' \in [Nodes \X StageThreads -> [event : Nat, push : Nat]]
        /\ \A r \in Nodes \X StageThreads : r # s => answer'[r] = answer[r]
        /\ \/ answer'[s] = NoAnswer
           \/ i # Len(Outgoing[n]) /\ answer'[s].event = x /\ answer'[s].push = i + 1
    <3>1. NoAnswer \in [event : Nat, push : Nat]
      BY DEF NoAnswer, NoEvent
    <3>2. /\ [answer[s] EXCEPT !.push = i + 1] \in [event : Nat, push : Nat]
          /\ [answer[s] EXCEPT !.push = i + 1].event = x /\ [answer[s] EXCEPT !.push = i + 1].push = i + 1
      BY <2>1, <2>3
    <3>. QED
      BY <1>1, <2>2, <2>3, <3>1, <3>2
  <2>8. EventTypes'
    BY <2>2, <2>6, <2>7 DEF Ordered, EventTypes
  <2>9. \A v \in StageThreads : \A y :
          answer[<<n, v>>] = NoAnswer \/ answer[<<n, v>>].event # y =>
          answer'[<<n, v>>] = NoAnswer \/ answer'[<<n, v>>].event # y
    <3>. SUFFICES ASSUME NEW v \in StageThreads, NEW y, answer[<<n, v>>] = NoAnswer \/ answer[<<n, v>>].event # y
                  PROVE  answer'[<<n, v>>] = NoAnswer \/ answer'[<<n, v>>].event # y
      OBVIOUS
    <3>1. CASE v = w
      BY <2>1, <2>2, <2>7, <3>1 DEF s
    <3>2. CASE v # w
      BY <2>2, <2>7, <3>2 DEF s
    <3>. QED
      BY <3>1, <3>2
  <2>10. \A m \in Nodes \ {n}, v \in StageThreads : answer'[<<m, v>>] = answer[<<m, v>>]
    BY <2>7 DEF s
  <2>11. ASSUME NEW m \in Nodes, NEW y, NotWithStage(m, y) PROVE NotWithStage(m, y)'
    <3>1. CASE m # n
      BY <2>2, <2>10, <2>11, <3>1 DEF NotWithStage
    <3>2. CASE m = n
      BY <1>4, <2>2, <2>9, <2>11, <3>2 DEF NotWithStage
    <3>. QED
      BY <3>1, <3>2
  <2>12. ASSUME NEW t \in Threads PROVE HoldsNew(t)'
    <3>1. PICK y, k : y = event[t] /\ k = idx[t].push
      OBVIOUS
    <3>2. HoldsNew(t) /\ y = event'[t] /\ k = idx'[t].push /\ Node(t) \in Nodes
      BY <1>1, <2>2, <3>1 DEF Ordered
    <3>3. ASSUME pc[t] = "process", Node(t) \notin Sources, Outgoing[Node(t)] # <<>>
          PROVE  Upstream(Node(t), y)' /\ NewToEdges(Node(t), y, 1)' /\ NotWithStage(Node(t), y)'
      <4>1. Upstream(Node(t), y) /\ NewToEdges(Node(t), y, 1) /\ NotWithStage(Node(t), y)
        BY <3>1, <3>2, <3>3 DEF HoldsNew
      <4>2. Node(t) = n => y # x
        BY <1>4, <2>1, <2>2, <4>1 DEF NotWithStage, s
      <4>. QED
        BY <2>6, <2>11, <3>2, <4>1, <4>2
    <3>4. ASSUME pc[t] = "emit"
          PROVE  Upstream(Node(t), y)' /\ NewToEdges(Node(t), y, k)'
      <4>1. Upstream(Node(t), y) /\ NewToEdges(Node(t), y, k) /\ Node(t) \notin Keepers
        BY <3>1, <3>2, <3>4 DEF HoldsNew
      <4>. QED
        BY <1>4, <2>6, <3>2, <4>1
    <3>. QED
      BY <2>2, <3>1, <3>2, <3>3, <3>4 DEF HoldsNew
  <2>13. ASSUME NEW m \in Keepers, Outgoing[m] # <<>> PROVE KeptNew(m)'
    <3>1. KeptNew(m) /\ m \in Nodes
      BY <1>1, <2>13 DEF Ordered, StagesNew
    <3>2. CASE m # n
      BY <2>2, <2>6, <2>10, <3>1, <3>2 DEF KeptNew
    <3>3. CASE m = n
      <4>1. \A y \in kept[n] : y # x
        BY <1>4, <2>1, <2>2, <3>1, <3>3 DEF KeptNew, s
      <4>. QED
        BY <2>2, <2>6, <2>9, <3>1, <3>3, <4>1 DEF KeptNew
    <3>. QED
      BY <3>2, <3>3
  <2>14. ASSUME NEW m \in Keepers, NEW v \in StageThreads PROVE AnswerNew(m, v)'
    <3>1. CASE m = n /\ v = w
      <4>. SUFFICES ASSUME answer'[s] # NoAnswer PROVE AnswerNew(n, w)'
        BY <3>1 DEF AnswerNew, s
      <4>1. i # Len(Outgoing[n]) /\ answer'[<<n, w>>].event = x /\ answer'[<<n, w>>].push = i + 1
        BY <2>7 DEF s
      <4>2. i + 1 \in DOMAIN Outgoing[n]
        BY <2>3, <2>4, <4>1
      <4>3. \A u \in StageThreads : u # w => answer'[<<n, u>>] = NoAnswer \/ answer'[<<n, u>>].event # x
        BY <2>4, <2>9
      <4>4. Upstream(n, x)' /\ NewToEdges(n, x, i + 1)'
        BY <2>4, <2>6
      <4>. QED
        BY <4>1, <4>2, <4>3, <4>4 DEF AnswerNew
    <3>2. CASE ~(m = n /\ v = w)
      <4>0. answer'[<<m, v>>] = answer[<<m, v>>] /\ m \in Nodes
        BY <1>1, <2>7, <3>2 DEF s
      <4>. SUFFICES ASSUME answer[<<m, v>>] # NoAnswer PROVE AnswerNew(m, v)'
        BY <4>0 DEF AnswerNew
      <4>1. PICK a : a = answer[<<m, v>>]
        OBVIOUS
      <4>2. /\ a.push \in DOMAIN Outgoing[m] /\ Upstream(m, a.event) /\ NewToEdges(m, a.event, a.push)
            /\ \A u \in StageThreads : u # v =>
                  answer[<<m, u>>] = NoAnswer \/ answer[<<m, u>>].event # a.event
        BY <4>1 DEF Ordered, StagesNew, AnswerNew
      <4>3. m = n => a.event # x
        BY <2>4, <3>2, <4>1
      <4>4. Upstream(m, a.event)' /\ NewToEdges(m, a.event, a.push)' /\ a = answer'[<<m, v>>]
        BY <2>6, <4>0, <4>1, <4>2, <4>3
      <4>5. \A u \in StageThreads : u # v =>
              answer'[<<m, u>>] = NoAnswer \/ answer'[<<m, u>>].event # a.event
        BY <2>9, <2>10, <4>0, <4>2
      <4>. QED
        BY <4>2, <4>4, <4>5 DEF AnswerNew
    <3>. QED
      BY <3>1, <3>2
  <2>. QED
    BY <2>6, <2>8, <2>12, <2>13, <2>14 DEF Ordered, StagesNew
<1>. QED
  BY <1>2, <1>3, <1>4 DEF OwnThreadStep

\* Ordered is an invariant of the executor under one controller.
LEMMA OrderedInvariant ==
  ASSUME NEW CONSTANT main, Controllers = {main}, SinglePath
  PROVE  Spec => []Ordered
<1>1. Init => Ordered
  <2>. SUFFICES ASSUME Init PROVE Ordered
    OBVIOUS
  <2>1. EventTypes
    BY DEF Init, EventTypes, NoEvent, NoAnswer
  <2>2. \A e \in Edges : Items(queue[e]) = {} /\ Items(delivered[e]) = {} /\ InOrder(e)
    BY DEF Init, Items, InOrder, Chain
  <2>3. \A n \in Nodes : \A j \in DOMAIN Outgoing[n] : Outgoing[n][j] \in Edges
    BY GraphAssumption
  <2>4. FromUpstream
    BY <2>2, <2>3 DEF FromUpstream, Pushed
  <2>5. \A t \in Threads : HoldsNew(t)
    BY DEF Init, HoldsNew
  <2>6. StagesNew
    <3>1. \A n \in Keepers : kept[n] = {} /\ \A w \in StageThreads : answer[<<n, w>>] = NoAnswer
      BY GraphAssumption DEF Init
    <3>. QED
      BY <3>1 DEF StagesNew, KeptNew, AnswerNew
  <2>. QED
    BY <2>1, <2>2, <2>4, <2>5, <2>6 DEF Ordered
<1>2. Inv /\ Ordered /\ [Next]_vars => Ordered'
  <2>. SUFFICES ASSUME Inv, Ordered, [Next]_vars PROVE Ordered'
    OBVIOUS
  <2>1. CASE \E t \in Threads : WorkerStep(t)
    BY <2>1, WorkerKeepsOrder DEF Inv
  <2>2. CASE \E c \in Controllers : Call(c) \/ ControllerStep(c)
    BY <2>2, ControllerKeepsOrder DEF Inv
  <2>3. CASE UNCHANGED vars
    <3>1. UNCHANGED <<queue, delivered, emitted, event, idx, pc, kept, answer>>
      BY <2>3 DEF vars, execVars, workVars, ownVars
    <3>2. kept \in [Nodes -> SUBSET Nat]
      BY DEF Ordered, EventTypes
    <3>. QED
      BY <3>1, <3>2, StagesKeepLess
  <2>. QED
    BY <2>1, <2>2, <2>3, OwnThreadKeepsOrder DEF Next
<1>. QED
  BY <1>1, <1>2, ExecutorInv, PTL DEF Spec

\* With one controlling thread, and in a graph where no two paths meet before a
\* node that emits, every edge above the stages with threads of their own hands
\* over its events in the order of their making, for every drop policy and
\* capacity, across stops and restarts (EdgeQueue.cpp; GraphExecutor.cpp,
\* runNodeWorker and emitToDownstream).
THEOREM EventsStayInOrder ==
  ASSUME NEW CONSTANT main, Controllers = {main}, SinglePath
  PROVE  Spec => []EdgeOrder
<1>1. Ordered => EdgeOrder
  BY DEF Ordered, InOrder, Chain, Precedes, EdgeOrder
<1>. QED
  BY <1>1, OrderedInvariant, PTL

\* In the same graphs no edge, below such a stage or not, hands over an event
\* twice, with any number of threads in each of those stages that emit in any
\* order (InferEngineWorkerStage.cpp, process and onInferResult).
THEOREM EventsStayApart ==
  ASSUME NEW CONSTANT main, Controllers = {main}, SinglePath
  PROVE  Spec => []DeliveredOnce
<1>1. Ordered => DeliveredOnce
  <2>. SUFFICES ASSUME Ordered, NEW e \in Edges, NEW i \in DOMAIN delivered[e], NEW j \in DOMAIN delivered[e],
                       delivered[e][i] = delivered[e][j]
                PROVE  i = j
    BY DEF DeliveredOnce
  <2>1. delivered[e] \in Seq(Nat) /\ i \in Nat /\ j \in Nat
    BY DEF Ordered, EventTypes
  <2>2. ~(i < j) /\ ~(j < i)
    BY DEF Ordered, InOrder, Chain, Precedes
  <2>. QED
    BY <2>1, <2>2
<1>. QED
  BY <1>1, OrderedInvariant, PTL


-----------------------------------------------------------------------------
(* Type correctness, which does not depend on who calls start() and        *)
(* stop().                                                                 *)

\* What the loops of start() and stop() go over, and which run a controller
\* that spawns workers is in.
LoopTypes(c) ==
    /\ call[c] \in {"reopen", "edges"} => todo[c] \subseteq Edges
    /\ call[c] \in {"spawn", "release"} => todo[c] \subseteq Nodes
    /\ call[c] \in {"reopen", "spawn"} => gen[c] \in 1..MaxRuns

Starting == {c \in Controllers : call[c] = "start"}

\* Every start() that was allowed finds a run to begin.
Budget == runs + Cardinality(Starting) <= MaxRuns

\* The loop indices of a worker are those of edges, and it passes on an event.
PlaceTypes(t) ==
    /\ pc[t] = "poll" => idx[t].pop # 0
    /\ pc[t] = "process" /\ Node(t) \notin Sources => event[t] \in 1..MaxEvents
    /\ pc[t] = "emit" => idx[t].push \in DOMAIN Outgoing[Node(t)] /\ event[t] \in 1..MaxEvents

\* So are those of a thread of a stage.
AnswerTypes ==
    \A s \in Nodes \X StageThreads : answer[s] # NoAnswer =>
        answer[s].push \in DOMAIN Outgoing[s[1]] /\ answer[s].event \in 1..MaxEvents

Typed ==
    /\ TypeOK
    /\ AnswerTypes
    /\ \A c \in Controllers : LoopTypes(c)
    /\ Budget
    /\ \A t \in Threads : PlaceTypes(t)

\* A controller goes from one loop to another.
LEMMA GotoTyped ==
  ASSUME Typed, NEW c \in Controllers, NEW next \in Calls, NEW items \in SUBSET (Edges \cup Nodes),
         Goto(c, next, items), gen' \in [Controllers -> 0..MaxRuns],
         \A d \in Controllers : d # c => gen'[d] = gen[d],
         next \in {"reopen", "edges"} => items \subseteq Edges,
         next \in {"spawn", "release"} => items \subseteq Nodes,
         next \in {"reopen", "spawn"} => gen'[c] \in 1..MaxRuns
  PROVE  /\ call' \in [Controllers -> Calls]
         /\ todo' \in [Controllers -> SUBSET (Edges \cup Nodes)]
         /\ \A d \in Controllers : LoopTypes(d)'
<1>. USE DEF Typed, TypeOK
<1>1. /\ call' \in [Controllers -> Calls] /\ todo' \in [Controllers -> SUBSET (Edges \cup Nodes)]
      /\ call'[c] = next /\ todo'[c] = items
      /\ \A d \in Controllers : d # c => call'[d] = call[d] /\ todo'[d] = todo[d]
  BY DEF Goto
<1>2. ASSUME NEW d \in Controllers PROVE LoopTypes(d)'
  BY <1>1, <1>2 DEF LoopTypes
<1>. QED
  BY <1>1, <1>2

\* Starting loses a member or stays the same, unless a call of start() begins.
LEMMA BudgetKept ==
  ASSUME Typed, IsFiniteSet(Controllers), runs' = runs, Starting' \subseteq Starting
  PROVE  Budget'
<1>1. IsFiniteSet(Starting)
  BY FS_Subset DEF Starting
<1>2. Cardinality(Starting') <= Cardinality(Starting) /\ Cardinality(Starting) \in Nat /\ Cardinality(Starting') \in Nat
  BY <1>1, FS_Subset, FS_CardinalityType
<1>. QED
  BY <1>2, GraphAssumption DEF Typed, TypeOK, Budget

\* start() and stop().
LEMMA ControllerTyped ==
  ASSUME Typed, IsFiniteSet(Controllers), NEW c \in Controllers, Call(c) \/ ControllerStep(c)
  PROVE  Typed'
<1>1. /\ running \in BOOLEAN /\ stopped \in [Edges -> BOOLEAN] /\ stageUp \in [Nodes -> BOOLEAN]
      /\ workerThreads \subseteq Threads /\ call \in [Controllers -> Calls]
      /\ todo \in [Controllers -> SUBSET (Edges \cup Nodes)]
      /\ gen \in [Controllers -> 0..MaxRuns] /\ runs \in 0..MaxRuns /\ pc \in [Threads -> Places]
      /\ MaxRuns \in Nat
      /\ LoopTypes(c)
  BY GraphAssumption DEF Typed, TypeOK
<1>2. IsFiniteSet(Starting) /\ Cardinality(Starting) \in Nat
  BY FS_Subset, FS_CardinalityType DEF Starting
<1>3. ASSUME NEW next \in Calls, NEW items, Goto(c, next, items)
      PROVE  Starting' = IF next = "start" THEN Starting \cup {c} ELSE Starting \ {c}
  BY <1>1, <1>3 DEF Goto, Starting
<1>14. kept \in [Nodes -> SUBSET (1..MaxEvents)] /\ answer \in [Nodes \X StageThreads -> [event : 0..MaxEvents, push : Nat]]
  BY DEF Typed, TypeOK
<1>15. /\ answer' = answer /\ kept' \in [Nodes -> SUBSET (1..MaxEvents)] /\ AnswerTypes'
  <2>1. answer' = answer /\ (kept' = kept \/ \E n : kept' = [kept EXCEPT ![n] = {}])
    BY DEF Call, ControllerStep, StartBegin, ReopenEdge, SpawnWorker, StopBegin, StopEdge,
           JoinWorkers, ReleaseStage, ownVars
  <2>. QED
    BY <1>14, <2>1 DEF Typed, AnswerTypes
<1>4. ASSUME UNCHANGED <<queue, idx, event, emitted, delivered>>, pc' = pc
      PROVE  /\ queue' \in [Edges -> Seq(1..MaxEvents)] /\ pc' \in [Threads -> Places]
             /\ idx' \in [Threads -> [pop : Nat, push : Nat]] /\ event' \in [Threads -> 0..MaxEvents]
             /\ emitted' \in 0..MaxEvents /\ delivered' \in [Edges -> Seq(1..MaxEvents)]
             /\ \A t \in Threads : PlaceTypes(t)'
  BY <1>4 DEF Typed, TypeOK, PlaceTypes
\* A step that changes, beside the place of c, only flags of edges or stages.
<1>5. ASSUME NEW next \in Calls \ {"start"}, NEW items \in SUBSET (Edges \cup Nodes), Goto(c, next, items),
             UNCHANGED <<queue, workVars, gen, runs>>,
             running' \in BOOLEAN, stopped' \in [Edges -> BOOLEAN], stageUp' \in [Nodes -> BOOLEAN],
             workerThreads' \subseteq Threads,
             next \in {"reopen", "edges"} => items \subseteq Edges,
             next \in {"spawn", "release"} => items \subseteq Nodes,
             next \in {"reopen", "spawn"} => gen[c] \in 1..MaxRuns
      PROVE  Typed'
  <2>1. /\ call' \in [Controllers -> Calls] /\ todo' \in [Controllers -> SUBSET (Edges \cup Nodes)]
        /\ \A d \in Controllers : LoopTypes(d)'
    BY <1>1, <1>5, GotoTyped
  <2>2. Budget'
    BY <1>3, <1>5, BudgetKept
  <2>. QED
    BY <1>1, <1>4, <1>5, <1>14, <1>15, <2>1, <2>2 DEF Typed, TypeOK, workVars
<1>6. CASE Call(c)
  <2>1. CASE Goto(c, "start", {}) /\ StartAllowed
    <3>1. /\ UNCHANGED <<running, queue, stopped, stageUp, workerThreads, gen, runs, workVars>>
          /\ "start" \in Calls
      BY <1>6 DEF Call, Calls
    <3>2. /\ call' \in [Controllers -> Calls] /\ todo' \in [Controllers -> SUBSET (Edges \cup Nodes)]
          /\ \A d \in Controllers : LoopTypes(d)'
      BY <1>1, <2>1, <3>1, GotoTyped
    <3>3. Budget'
      <4>1. c \notin Starting
        BY <1>6 DEF Call, Starting, Idle
      <4>2. Cardinality(Starting') = Cardinality(Starting) + 1
        BY <1>2, <1>3, <2>1, <3>1, <4>1, FS_AddElement
      <4>3. runs + Cardinality(Starting) < MaxRuns
        BY <2>1 DEF StartAllowed, Starting
      <4>. QED
        BY <1>1, <1>2, <3>1, <4>2, <4>3 DEF Budget
    <3>. QED
      BY <1>1, <1>4, <1>14, <1>15, <3>1, <3>2, <3>3 DEF Typed, TypeOK, workVars
  <2>2. CASE Goto(c, "stop", {})
    BY <1>1, <1>5, <1>6, <2>2 DEF Call, Calls
  <2>. QED
    BY <1>6, <2>1, <2>2 DEF Call
<1>7. CASE StartBegin(c)
  <2>1. CASE running
    BY <1>1, <1>5, <1>7, <2>1 DEF StartBegin, Calls, Idle
  <2>2. CASE ~running
    <3>1. /\ UNCHANGED <<queue, stopped, stageUp, workerThreads, workVars>> /\ running' = TRUE
          /\ runs' = runs + 1 /\ gen' = [gen EXCEPT ![c] = runs + 1] /\ Goto(c, "reopen", Edges)
          /\ "reopen" \in Calls /\ c \in Starting
      BY <1>7, <2>2 DEF StartBegin, Calls, Starting
    <3>2. Starting' = Starting \ {c}
      BY <1>3, <3>1
    <3>3. Cardinality(Starting') = Cardinality(Starting) - 1 /\ Cardinality(Starting') \in Nat
      BY <1>2, <3>1, <3>2, FS_RemoveElement, FS_CardinalityType
    <3>4. runs + Cardinality(Starting) <= MaxRuns
      BY DEF Typed, Budget
    <3>5. runs' \in 1..MaxRuns /\ Budget'
      BY <1>1, <1>2, <3>1, <3>3, <3>4 DEF Budget
    <3>6. gen' \in [Controllers -> 0..MaxRuns] /\ gen'[c] \in 1..MaxRuns
          /\ \A d \in Controllers : d # c => gen'[d] = gen[d]
      BY <1>1, <3>1, <3>5
    <3>7. /\ call' \in [Controllers -> Calls] /\ todo' \in [Controllers -> SUBSET (Edges \cup Nodes)]
          /\ \A d \in Controllers : LoopTypes(d)'
      BY <1>1, <3>1, <3>6, GotoTyped
    <3>. QED
      BY <1>1, <1>4, <1>14, <1>15, <3>1, <3>5, <3>6, <3>7 DEF Typed, TypeOK, workVars
  <2>. QED
    BY <2>1, <2>2
<1>8. CASE ReopenEdge(c)
  BY <1>1, <1>5, <1>8 DEF ReopenEdge, Did, LoopTypes, Calls
<1>9. CASE StopBegin(c)
  BY <1>1, <1>5, <1>9 DEF StopBegin, Calls, Idle
<1>10. CASE StopEdge(c)
  BY <1>1, <1>5, <1>10 DEF StopEdge, Did, LoopTypes, Calls
<1>11. CASE JoinWorkers(c)
  BY <1>1, <1>5, <1>11 DEF JoinWorkers, Calls
<1>12. CASE ReleaseStage(c)
  BY <1>1, <1>5, <1>12 DEF ReleaseStage, Did, LoopTypes, Calls, Idle
<1>13. CASE SpawnWorker(c)
  <2>1. CASE todo[c] = {} /\ Goto(c, Idle, {}) /\ UNCHANGED <<stageUp, workerThreads, pc>>
    BY <1>1, <1>5, <1>13, <2>1 DEF SpawnWorker, Calls, Idle, workVars
  <2>2. ASSUME NEW n \in todo[c], stageUp' = [stageUp EXCEPT ![n] = TRUE],
               workerThreads' = workerThreads \cup {<<n, gen[c]>>},
               pc' = [pc EXCEPT ![<<n, gen[c]>>] = "check"], Did(c, n)
        PROVE  Typed'
    <3>1. /\ call[c] = "spawn" /\ "spawn" \in Calls /\ n \in Nodes /\ gen[c] \in 1..MaxRuns
          /\ todo[c] \subseteq Nodes
          /\ UNCHANGED <<running, queue, stopped, gen, runs, idx, event, emitted, delivered>>
      BY <1>1, <1>13 DEF SpawnWorker, LoopTypes, Calls
    <3>2. <<n, gen[c]>> \in Threads
      BY <3>1 DEF Threads
    <3>3. /\ workerThreads' \subseteq Threads /\ stageUp' \in [Nodes -> BOOLEAN]
          /\ pc' \in [Threads -> Places] /\ \A t \in Threads : pc'[t] = pc[t] \/ pc'[t] = "check"
      BY <1>1, <2>2, <3>1, <3>2 DEF Places
    <3>4. \A t \in Threads : PlaceTypes(t)'
      BY <3>1, <3>3 DEF Typed, PlaceTypes
    <3>5. Goto(c, "spawn", todo[c] \ {n})
      BY <2>2, <3>1 DEF Did
    <3>6. /\ call' \in [Controllers -> Calls] /\ todo' \in [Controllers -> SUBSET (Edges \cup Nodes)]
          /\ \A d \in Controllers : LoopTypes(d)'
      BY <1>1, <3>1, <3>5, GotoTyped
    <3>7. Budget'
      BY <1>3, <3>1, <3>5, BudgetKept
    <3>. QED
      BY <1>1, <1>14, <1>15, <3>1, <3>3, <3>4, <3>6, <3>7 DEF Typed, TypeOK
  <2>. QED
    BY <1>13, <2>1, <2>2 DEF SpawnWorker
<1>. QED
  BY <1>6, <1>7, <1>8, <1>9, <1>10, <1>11, <1>12, <1>13 DEF ControllerStep

\* The queue after a push holds events.
LEMMA PushBackTyped ==
  ASSUME NEW S, NEW q \in Seq(S), NEW x \in S
  PROVE  PushBack(q, x, Capacity) \in Seq(S)
<1>1. CASE Full(q, Capacity)
  <2>1. q # <<>>
    BY <1>1, GraphAssumption DEF Full
  <2>2. Tail(q) \in Seq(S)
    BY <2>1
  <2>. QED
    BY <1>1, <2>2 DEF PushBack
<1>2. CASE ~Full(q, Capacity)
  BY <1>2 DEF PushBack
<1>. QED
  BY <1>1, <1>2

\* The parts of a queue that holds events.
LEMMA PopTyped ==
  ASSUME NEW S, NEW q \in Seq(S), q # <<>>
  PROVE  Head(q) \in S /\ Tail(q) \in Seq(S)
  OBVIOUS

\* runNodeWorker.
LEMMA WorkerTyped ==
  ASSUME Typed, NEW t \in Threads, WorkerStep(t)
  PROVE  Typed'
<1>. DEFINE n == Node(t)
<1>1. /\ queue \in [Edges -> Seq(1..MaxEvents)] /\ delivered \in [Edges -> Seq(1..MaxEvents)]
      /\ pc \in [Threads -> Places] /\ idx \in [Threads -> [pop : Nat, push : Nat]]
      /\ event \in [Threads -> 0..MaxEvents] /\ emitted \in 0..MaxEvents /\ MaxEvents \in Nat
      /\ PlaceTypes(t)
  BY GraphAssumption DEF Typed, TypeOK
<1>2. n \in Nodes /\ Outgoing[n] \in Seq(Edges) /\ Incoming[n] \in Seq(Edges)
  BY GraphAssumption DEF Threads, Node
<1>. HIDE DEF n
<1>3. ASSUME NEW place \in Places, NEW a \in Nat, NEW b \in Nat, Move(t, place, a, b)
      PROVE  /\ idx' \in [Threads -> [pop : Nat, push : Nat]] /\ pc' \in [Threads -> Places]
             /\ pc'[t] = place /\ idx'[t].pop = a /\ idx'[t].push = b
             /\ \A u \in Threads : u # t => pc'[u] = pc[u] /\ idx'[u] = idx[u]
  BY <1>1, <1>3 DEF Move
\* What is left to show of a step of t.
<1>4. ASSUME UNCHANGED <<running, stopped, stageUp, workerThreads, call, todo, gen, runs>>,
             NEW place \in Places, NEW a \in Nat, NEW b \in Nat, Move(t, place, a, b),
             queue' \in [Edges -> Seq(1..MaxEvents)], delivered' \in [Edges -> Seq(1..MaxEvents)],
             event' \in [Threads -> 0..MaxEvents], emitted' \in 0..MaxEvents,
             kept' \in [Nodes -> SUBSET (1..MaxEvents)],
             \A u \in Threads : u # t => event'[u] = event[u],
             place = "poll" => a # 0,
             place = "process" /\ n \notin Sources => event'[t] \in 1..MaxEvents,
             place = "emit" => b \in DOMAIN Outgoing[n] /\ event'[t] \in 1..MaxEvents
      PROVE  Typed'
  <2>1. \A u \in Threads : PlaceTypes(u)'
    <3>1. PlaceTypes(t)'
      BY <1>3, <1>4 DEF PlaceTypes, n
    <3>2. ASSUME NEW u \in Threads, u # t PROVE PlaceTypes(u)'
      BY <1>3, <1>4, <3>2 DEF Typed, PlaceTypes
    <3>. QED
      BY <3>1, <3>2
  <2>2. Budget' /\ \A c \in Controllers : LoopTypes(c)'
    BY <1>4 DEF Typed, Budget, LoopTypes, Starting
  <2>3. answer' = answer /\ AnswerTypes'
    BY DEF WorkerStep, Check, Poll, ProcessSilently, ProcessKeeps, ProcessEmits, Emit, ownVars,
           Typed, AnswerTypes
  <2>. QED
    BY <1>3, <1>4, <2>1, <2>2, <2>3 DEF Typed, TypeOK
<1>5. Places = {"none", "check", "poll", "process", "emit", "exited"} /\ 0 \in Nat /\ 1 \in Nat
  BY DEF Places
<1>6. idx[t].pop \in Nat /\ idx[t].push \in Nat /\ event[t] \in 0..MaxEvents /\ idx[t].pop + 1 \in Nat \ {0}
  BY <1>1
<1>12. kept \in [Nodes -> SUBSET (1..MaxEvents)] /\ (~ProcessKeeps(t) => kept' = kept)
  BY DEF WorkerStep, Check, Poll, ProcessSilently, ProcessEmits, Emit, ownVars, Typed, TypeOK
<1>13. CASE ProcessKeeps(t)
  <2>1. /\ UNCHANGED <<running, stopped, stageUp, workerThreads, call, todo, gen, runs>>
        /\ UNCHANGED <<queue, delivered, emitted, event>> /\ Move(t, "poll", idx[t].pop + 1, 0)
        /\ kept' = [kept EXCEPT ![n] = kept[n] \cup {event[t]}] /\ pc[t] = "process" /\ n \notin Sources
    BY <1>13, GraphAssumption DEF ProcessKeeps, execVars, n
  <2>2. kept' \in [Nodes -> SUBSET (1..MaxEvents)]
    BY <1>1, <1>2, <1>12, <2>1 DEF PlaceTypes, n
  <2>. QED
    BY <1>1, <1>4, <1>5, <1>6, <2>1, <2>2
<1>. SUFFICES ASSUME ~ProcessKeeps(t) PROVE Typed'
  BY <1>13
<1>14. kept' \in [Nodes -> SUBSET (1..MaxEvents)]
  BY <1>12
<1>7. CASE Check(t)
  <2>1. /\ UNCHANGED <<running, stopped, stageUp, workerThreads, call, todo, gen, runs>>
        /\ UNCHANGED <<queue, delivered, emitted>> /\ event' = [event EXCEPT ![t] = 0]
        /\ \/ Move(t, "exited", 0, 0)
           \/ n \in Sources /\ Move(t, "process", 0, 0)
           \/ Move(t, "poll", 1, 0)
    BY <1>7 DEF Check, execVars, NoEvent, n
  <2>2. /\ event' \in [Threads -> 0..MaxEvents] /\ \A u \in Threads : u # t => event'[u] = event[u]
        /\ queue' \in [Edges -> Seq(1..MaxEvents)] /\ delivered' \in [Edges -> Seq(1..MaxEvents)]
        /\ emitted' \in 0..MaxEvents
    BY <1>1, <2>1
  <2>3. CASE Move(t, "exited", 0, 0)
    BY <1>4, <1>5, <1>14, <2>1, <2>2, <2>3
  <2>4. CASE n \in Sources /\ Move(t, "process", 0, 0)
    BY <1>4, <1>5, <1>14, <2>1, <2>2, <2>4
  <2>5. CASE Move(t, "poll", 1, 0)
    <3>1. "poll" \in Places /\ "poll" # "process" /\ "poll" # "emit" /\ 1 \in Nat /\ 1 # 0
      BY <1>5
    <3>. QED
      BY <1>4, <1>14, <2>1, <2>2, <2>5, <3>1
  <2>. QED
    BY <2>1, <2>3, <2>4, <2>5
<1>8. CASE ProcessSilently(t)
  <2>1. /\ UNCHANGED <<running, stopped, stageUp, workerThreads, call, todo, gen, runs>>
        /\ UNCHANGED <<queue, delivered, emitted, event>> /\ Move(t, "poll", idx[t].pop + 1, 0)
    BY <1>8 DEF ProcessSilently, execVars
  <2>. QED
    BY <1>1, <1>4, <1>5, <1>14, <1>6, <2>1
<1>9. CASE ProcessEmits(t)
  <2>1. /\ UNCHANGED <<running, stopped, stageUp, workerThreads, call, todo, gen, runs>>
        /\ UNCHANGED <<queue, delivered>> /\ Move(t, "emit", idx[t].pop, 1)
        /\ pc[t] = "process" /\ Outgoing[n] # <<>>
        /\ \/ /\ n \in Sources /\ emitted < MaxEvents /\ emitted' = emitted + 1
              /\ event' = [event EXCEPT ![t] = emitted + 1]
           \/ n \notin Sources /\ UNCHANGED <<emitted, event>>
    BY <1>9 DEF ProcessEmits, execVars, n
  <2>2. 1 \in DOMAIN Outgoing[n]
    BY <1>2, <2>1
  <2>3. /\ event' \in [Threads -> 0..MaxEvents] /\ emitted' \in 0..MaxEvents /\ event'[t] \in 1..MaxEvents
        /\ \A u \in Threads : u # t => event'[u] = event[u]
    <3>1. CASE n \in Sources
      <4>1. emitted' = emitted + 1 /\ event' = [event EXCEPT ![t] = emitted + 1] /\ emitted < MaxEvents
        BY <2>1, <3>1
      <4>2. emitted + 1 \in 1..MaxEvents /\ emitted + 1 \in 0..MaxEvents
        BY <1>1, <4>1
      <4>. QED
        BY <1>1, <4>1, <4>2
    <3>2. CASE n \notin Sources
      <4>1. event[t] \in 1..MaxEvents
        BY <1>1, <2>1, <3>2 DEF PlaceTypes, n
      <4>. QED
        BY <1>1, <2>1, <3>2, <4>1
    <3>. QED
      BY <3>1, <3>2
  <2>. QED
    BY <1>1, <1>4, <1>5, <1>14, <1>6, <2>1, <2>2, <2>3
<1>10. CASE Poll(t)
  <2>. DEFINE i == idx[t].pop
              e == Incoming[n][i]
  <2>1. UNCHANGED <<running, stopped, stageUp, workerThreads, call, todo, gen, runs, emitted>> /\ i # 0
    BY <1>1, <1>10 DEF Poll, PlaceTypes
  <2>2. CASE i > Len(Incoming[n])
    BY <1>1, <1>4, <1>5, <1>14, <1>10, <2>1, <2>2 DEF Poll, n
  <2>3. CASE ~(i > Len(Incoming[n])) /\ queue[e] = <<>>
    BY <1>1, <1>4, <1>5, <1>14, <1>6, <1>10, <2>1, <2>3 DEF Poll, n
  <2>4. CASE ~(i > Len(Incoming[n])) /\ queue[e] # <<>>
    <3>1. /\ event' = [event EXCEPT ![t] = Head(queue[e])] /\ queue' = [queue EXCEPT ![e] = Tail(queue[e])]
          /\ delivered' = [delivered EXCEPT ![e] = Append(delivered[e], Head(queue[e]))]
          /\ Move(t, "process", i, 0)
      BY <1>10, <2>4 DEF Poll, n
    <3>2. e \in Edges
      BY <1>2, <1>6, <2>1, <2>4
    <3>. HIDE DEF e
    <3>3. queue[e] \in Seq(1..MaxEvents) /\ delivered[e] \in Seq(1..MaxEvents)
      BY <1>1, <3>2
    <3>4. Head(queue[e]) \in 1..MaxEvents /\ Tail(queue[e]) \in Seq(1..MaxEvents)
      BY <2>4, <3>3, PopTyped
    <3>5. Append(delivered[e], Head(queue[e])) \in Seq(1..MaxEvents)
      BY <3>3, <3>4
    <3>6. /\ event' \in [Threads -> 0..MaxEvents] /\ event'[t] \in 1..MaxEvents
          /\ \A u \in Threads : u # t => event'[u] = event[u]
          /\ queue' \in [Edges -> Seq(1..MaxEvents)] /\ delivered' \in [Edges -> Seq(1..MaxEvents)]
      BY <1>1, <3>1, <3>2, <3>4, <3>5
    <3>. QED
      BY <1>1, <1>4, <1>5, <1>14, <1>6, <2>1, <3>1, <3>6
  <2>. QED
    BY <2>2, <2>3, <2>4
<1>11. CASE Emit(t)
  <2>. DEFINE i == idx[t].push
              e == Outgoing[n][i]
  <2>1. /\ UNCHANGED <<running, stopped, stageUp, workerThreads, call, todo, gen, runs, event, emitted, delivered>>
        /\ i \in DOMAIN Outgoing[n] /\ event[t] \in 1..MaxEvents
        /\ (queue' = queue \/ queue' = [queue EXCEPT ![e] = PushBack(queue[e], event[t], Capacity)])
        /\ \/ Move(t, "poll", idx[t].pop + 1, 0)
           \/ i # Len(Outgoing[n]) /\ Move(t, "emit", idx[t].pop, i + 1)
    BY <1>1, <1>11 DEF Emit, PushTo, PlaceTypes, n
  <2>2. e \in Edges /\ i + 1 \in Nat /\ (i # Len(Outgoing[n]) => i + 1 \in DOMAIN Outgoing[n])
    BY <1>2, <1>6, <2>1
  <2>3. queue' \in [Edges -> Seq(1..MaxEvents)]
    <3>. HIDE DEF e
    <3>1. PushBack(queue[e], event[t], Capacity) \in Seq(1..MaxEvents)
      BY <1>1, <2>1, <2>2, PushBackTyped
    <3>. QED
      BY <1>1, <2>1, <2>2, <3>1
  <2>. QED
    BY <1>1, <1>4, <1>5, <1>14, <1>6, <2>1, <2>2, <2>3
<1>. QED
  BY <1>7, <1>8, <1>9, <1>10, <1>11 DEF WorkerStep

\* The threads of a stage.
LEMMA OwnThreadTyped ==
  ASSUME Typed, (\E s \in Keepers \X StageThreads : OwnThreadStep(s)) \/ (\E n \in Keepers : AnswerLost(n))
  PROVE  Typed'
<1>1. /\ UNCHANGED <<running, stopped, stageUp, workerThreads, call, todo, gen, runs, workVars>>
      /\ UNCHANGED <<pc, idx, event, emitted, delivered>>
  BY DEF OwnThreadStep, AnswerBegin, AnswerPush, AnswerLost, execVars, workVars
<1>2. /\ kept \in [Nodes -> SUBSET (1..MaxEvents)] /\ queue \in [Edges -> Seq(1..MaxEvents)]
      /\ answer \in [Nodes \X StageThreads -> [event : 0..MaxEvents, push : Nat]]
      /\ AnswerTypes /\ Keepers \subseteq Nodes /\ MaxEvents \in Nat
  BY GraphAssumption DEF Typed, TypeOK
\* What is left to show of such a step.
<1>3. ASSUME kept' \in [Nodes -> SUBSET (1..MaxEvents)], queue' \in [Edges -> Seq(1..MaxEvents)],
             answer' \in [Nodes \X StageThreads -> [event : 0..MaxEvents, push : Nat]], AnswerTypes'
      PROVE  Typed'
  <2>1. Budget' /\ \A c \in Controllers : LoopTypes(c)'
    BY <1>1 DEF Typed, Budget, LoopTypes, Starting
  <2>2. \A t \in Threads : PlaceTypes(t)'
    BY <1>1 DEF Typed, PlaceTypes
  <2>. QED
    BY <1>1, <1>3, <2>1, <2>2 DEF Typed, TypeOK
<1>4. ASSUME NEW n \in Keepers, AnswerLost(n) PROVE Typed'
  <2>1. UNCHANGED <<answer, queue>> /\ kept' \in [Nodes -> SUBSET (1..MaxEvents)]
    BY <1>2, <1>4 DEF AnswerLost, execVars
  <2>. QED
    BY <1>2, <1>3, <2>1 DEF AnswerTypes
<1>5. ASSUME NEW n \in Keepers, NEW w \in StageThreads, AnswerBegin(<<n, w>>) PROVE Typed'
  <2>1. PICK x \in kept[n] : /\ answer' = [answer EXCEPT ![<<n, w>>] = [event |-> x, push |-> 1]]
                             /\ kept' = [kept EXCEPT ![n] = kept[n] \ {x}]
    BY <1>5 DEF AnswerBegin
  <2>2. x \in 1..MaxEvents /\ x \in 0..MaxEvents /\ queue' = queue /\ Outgoing[n] # <<>>
    BY <1>2, <1>5, <2>1 DEF AnswerBegin, execVars
  <2>3. 1 \in DOMAIN Outgoing[n]
    BY <1>2, <2>2, GraphAssumption
  <2>4. /\ kept' \in [Nodes -> SUBSET (1..MaxEvents)]
        /\ answer' \in [Nodes \X StageThreads -> [event : 0..MaxEvents, push : Nat]]
    BY <1>2, <2>1, <2>2
  <2>5. AnswerTypes'
    BY <1>2, <2>1, <2>2, <2>3 DEF AnswerTypes
  <2>. QED
    BY <1>2, <1>3, <2>2, <2>4, <2>5
<1>6. ASSUME NEW n \in Keepers, NEW w \in StageThreads, AnswerPush(<<n, w>>) PROVE Typed'
  <2>1. PICK s, x, i, e : s = <<n, w>> /\ x = answer[s].event /\ i = answer[s].push /\ e = Outgoing[n][i]
    OBVIOUS
  <2>2. /\ kept' = kept /\ s[1] = n /\ s \in Nodes \X StageThreads /\ answer[s] # NoAnswer
        /\ queue' = queue \/ queue' = [queue EXCEPT ![e] = PushBack(queue[e], x, Capacity)]
        /\ answer' = [answer EXCEPT ![s] =
              IF i = Len(Outgoing[n]) THEN NoAnswer ELSE [answer[s] EXCEPT !.push = i + 1]]
    BY <1>2, <1>6, <2>1 DEF AnswerPush, PushTo
  <2>3. x \in 1..MaxEvents /\ i \in DOMAIN Outgoing[n] /\ Outgoing[n] \in Seq(Edges) /\ n \in Nodes
    BY <1>2, <2>1, <2>2, GraphAssumption DEF AnswerTypes
  <2>4. e \in Edges /\ i \in Nat /\ (i # Len(Outgoing[n]) => i + 1 \in DOMAIN Outgoing[n])
    BY <2>1, <2>3
  <2>5. queue' \in [Edges -> Seq(1..MaxEvents)]
    <3>1. PushBack(queue[e], x, Capacity) \in Seq(1..MaxEvents)
      BY <1>2, <2>3, <2>4, PushBackTyped
    <3>. QED
      BY <1>2, <2>2, <2>4, <3>1
  <2>6. PICK a : a = IF i = Len(Outgoing[n]) THEN NoAnswer ELSE [answer[s] EXCEPT !.push = i + 1]
    OBVIOUS
  <2>7. /\ a \in [event : 0..MaxEvents, push : Nat]
        /\ a # NoAnswer => a.push \in DOMAIN Outgoing[n] /\ a.event = x
    <3>1. answer[s] \in [event : 0..MaxEvents, push : Nat] /\ NoAnswer \in [event : 0..MaxEvents, push : Nat]
      BY <1>2, <2>2 DEF NoAnswer, NoEvent
    <3>. QED
      BY <2>1, <2>4, <2>6, <3>1
  <2>8. /\ answer' \in [Nodes \X StageThreads -> [event : 0..MaxEvents, push : Nat]]
        /\ answer'[s] = a /\ \A r \in Nodes \X StageThreads : r # s => answer'[r] = answer[r]
    BY <1>2, <2>2, <2>6, <2>7
  <2>9. AnswerTypes'
    BY <1>2, <2>2, <2>3, <2>7, <2>8 DEF AnswerTypes
  <2>. QED
    BY <1>2, <1>3, <2>2, <2>5, <2>8, <2>9
<1>. QED
  BY <1>4, <1>5, <1>6 DEF OwnThreadStep

\* Type correctness, for any number of threads that call start() and stop() at
\* the same time: every worker that is spawned belongs to a run, no index of its
\* loops leaves the list of edges it goes over, and what it pushes is an event
\* (GraphExecutor.cpp, start, runNodeWorker and emitToDownstream).
THEOREM ExecutorTyped ==
  ASSUME IsFiniteSet(Controllers)
  PROVE  Spec => []TypeOK
<1>1. Init => Typed
  <2>. SUFFICES ASSUME Init PROVE Typed
    OBVIOUS
  <2>1. TypeOK
    <3>1. <<>> \in Seq(1..MaxEvents) /\ 0 \in 0..MaxEvents /\ 0 \in 0..MaxRuns
      BY GraphAssumption
    <3>2. Idle \in Calls /\ "none" \in Places /\ [pop |-> 0, push |-> 0] \in [pop : Nat, push : Nat]
      BY DEF Idle, Calls, Places
    <3>. QED
      BY <3>1, <3>2 DEF Init, TypeOK, NoEvent, NoAnswer
  <2>2. Starting = {}
    BY DEF Init, Starting, Idle
  <2>3. Budget
    BY <2>2, FS_EmptySet, GraphAssumption DEF Init, Budget
  <2>4. \A c \in Controllers : LoopTypes(c)
    BY DEF Init, LoopTypes, Idle
  <2>5. \A t \in Threads : PlaceTypes(t)
    BY DEF Init, PlaceTypes
  <2>6. AnswerTypes
    BY DEF Init, AnswerTypes
  <2>. QED
    BY <2>1, <2>3, <2>4, <2>5, <2>6 DEF Typed
<1>2. Typed /\ [Next]_vars => Typed'
  <2>. SUFFICES ASSUME Typed, [Next]_vars PROVE Typed'
    OBVIOUS
  <2>1. CASE UNCHANGED vars
    BY <2>1 DEF vars, execVars, workVars, ownVars, Typed, TypeOK, LoopTypes, Budget, Starting, PlaceTypes,
                AnswerTypes
  <2>. QED
    BY <2>1, ControllerTyped, WorkerTyped, OwnThreadTyped DEF Next
<1>. QED
  BY <1>1, <1>2, PTL DEF Spec, Typed
=============================================================================
