---------------------------- MODULE GraphExecutor ----------------------------
(***************************************************************************)
(* The executor of one pipeline DAG: a stage and a worker thread per node, *)
(* an EdgeQueue per edge, and the threads that call start() and stop().    *)
(*                                                                         *)
(* A stage is abstracted to whether its resources are held (between        *)
(* stage->start() and stage->stop()) and to a process() that takes some    *)
(* time and emits at most one event for each event it is given; a source   *)
(* makes new events out of ticks.  Events are numbered by the sources.     *)
(*                                                                         *)
(* A stage with threads of its own (infer.engine) emits nothing inside     *)
(* process(): it keeps the event, and one of its threads emits it later,   *)
(* in any order, or never.  InferStage has the stage in detail.            *)
(*                                                                         *)
(* onGraphExecutorDraining() sets flags inside stages only and has no      *)
(* effect here: the edges are stopped by then.                             *)
(***************************************************************************)
EXTENDS EdgeQueueOps, FiniteSets

CONSTANTS
    Nodes,        \* cfg_.nodes
    Sources,      \* the nodes whose stage isSource()
    Keepers,      \* the nodes whose stage emits from threads of its own
    StageThreads, \* the threads each of those stages has
    Edges,        \* cfg_.edges
    Incoming,     \* incoming_edge_keys_: node -> sequence of its edges
    Outgoing,     \* outgoing_: node -> sequence of its edges
    Capacity,     \* EdgeConfig::capacity, the same for every edge here
    DropPolicy,   \* EdgeConfig::drop_policy, the same for every edge here
    Controllers,  \* threads that call start() and stop()
    MaxRuns,      \* bound: number of start() calls that find running_ false
    MaxEvents     \* bound: number of events the sources emit

ASSUME GraphAssumption ==
    /\ Sources \subseteq Nodes
    /\ Keepers \subseteq Nodes \ Sources
    /\ Incoming \in [Nodes -> Seq(Edges)]
    /\ Outgoing \in [Nodes -> Seq(Edges)]
    /\ Capacity \in Nat \ {0}
    /\ DropPolicy \in EdgeDropPolicies
    /\ MaxRuns \in Nat
    /\ MaxEvents \in Nat

VARIABLES
    running,        \* running_
    queue,          \* queue_ of each edge
    stopped,        \* stopped_ of each edge
    stageUp,        \* stage resources held, per node
    workerThreads,  \* worker_threads_: threads a stop() will join
    call,           \* where each controller is inside start() or stop()
    todo,           \* what is left of the loop each controller is in
    gen,            \* the run a controller inside start() spawns workers for
    runs,           \* number of runs started
    pc,             \* where each worker thread is in runNodeWorker
    idx,            \* the incoming edge (pop) or outgoing edge (push) it is at
    event,          \* the event it is processing; NoEvent is a source's tick
    emitted,        \* number of events the sources have made
    delivered,      \* history: the events popped from each edge, in order
    kept,           \* the events a stage keeps for its threads
    answer          \* the event a thread of a stage emits, and the edge it is at

execVars == <<running, queue, stopped, stageUp, workerThreads, call, todo, gen, runs>>
workVars == <<pc, idx, event, emitted, delivered>>
ownVars  == <<kept, answer>>
vars     == <<execVars, workVars, ownVars>>

\* A worker thread is named by its node and by the run that spawned it.
Threads == Nodes \X (1..MaxRuns)
Node(t) == t[1]
NoEvent == 0
NoAnswer == [event |-> NoEvent, push |-> 0]

Idle == "idle"
Calls == {Idle, "start", "reopen", "spawn", "stop", "edges", "join", "release"}
Places == {"none", "check", "poll", "process", "emit", "exited"}

TypeOK ==
    /\ running \in BOOLEAN
    /\ queue \in [Edges -> Seq(1..MaxEvents)]
    /\ stopped \in [Edges -> BOOLEAN]
    /\ stageUp \in [Nodes -> BOOLEAN]
    /\ workerThreads \subseteq Threads
    /\ call \in [Controllers -> Calls]
    /\ todo \in [Controllers -> SUBSET (Edges \cup Nodes)]
    /\ gen \in [Controllers -> 0..MaxRuns]
    /\ runs \in 0..MaxRuns
    /\ pc \in [Threads -> Places]
    /\ idx \in [Threads -> [pop : Nat, push : Nat]]
    /\ event \in [Threads -> 0..MaxEvents]
    /\ emitted \in 0..MaxEvents
    /\ delivered \in [Edges -> Seq(1..MaxEvents)]
    /\ kept \in [Nodes -> SUBSET (1..MaxEvents)]
    /\ answer \in [Nodes \X StageThreads -> [event : 0..MaxEvents, push : Nat]]

Init ==
    /\ running = FALSE
    /\ queue = [e \in Edges |-> <<>>]
    /\ stopped = [e \in Edges |-> FALSE]
    /\ stageUp = [n \in Nodes |-> FALSE]
    /\ workerThreads = {}
    /\ call = [c \in Controllers |-> Idle]
    /\ todo = [c \in Controllers |-> {}]
    /\ gen = [c \in Controllers |-> 0]
    /\ runs = 0
    /\ pc = [t \in Threads |-> "none"]
    /\ idx = [t \in Threads |-> [pop |-> 0, push |-> 0]]
    /\ event = [t \in Threads |-> NoEvent]
    /\ emitted = 0
    /\ delivered = [e \in Edges |-> <<>>]
    /\ kept = [n \in Nodes |-> {}]
    /\ answer = [s \in Nodes \X StageThreads |-> NoAnswer]

-----------------------------------------------------------------------------
(* start() and stop(), one step for each pass of their loops.  The loops   *)
(* go over unordered_maps: any order.                                      *)

\* c goes on to the loop `next' over `items', or returns.
Goto(c, next, items) ==
    /\ call' = [call EXCEPT ![c] = next]
    /\ todo' = [todo EXCEPT ![c] = items]

\* c has done one item of its loop.
Did(c, item) == Goto(c, call[c], todo[c] \ {item})

\* Mutant: start() does not look at what running_ was.
StartBeginAgain(c) ==
    /\ call[c] = "start"
    /\ running' = TRUE
    /\ runs' = runs + 1
    /\ gen' = [gen EXCEPT ![c] = runs + 1]
    /\ Goto(c, "reopen", Edges)
    /\ UNCHANGED <<queue, stopped, stageUp, workerThreads, workVars, ownVars>>

\* if (running_.exchange(true)) return;
StartBegin(c) ==
    /\ call[c] = "start"
    /\ running' = TRUE
    /\ IF running
       THEN Goto(c, Idle, {}) /\ UNCHANGED <<gen, runs>>
       ELSE /\ runs' = runs + 1
            /\ gen' = [gen EXCEPT ![c] = runs + 1]
            /\ Goto(c, "reopen", Edges)
    /\ UNCHANGED <<queue, stopped, stageUp, workerThreads, workVars, ownVars>>

ReopenEdge(c) ==
    /\ call[c] = "reopen"
    /\ \/ \E e \in todo[c] :
             stopped' = [stopped EXCEPT ![e] = FALSE] /\ Did(c, e)
       \/ todo[c] = {} /\ Goto(c, "spawn", Nodes) /\ UNCHANGED stopped
    /\ UNCHANGED <<running, queue, stageUp, workerThreads, gen, runs, workVars, ownVars>>

\* stage->start(); worker_threads_.emplace_back(...)
SpawnWorker(c) ==
    /\ call[c] = "spawn"
    /\ \/ \E n \in todo[c] :
             /\ stageUp' = [stageUp EXCEPT ![n] = TRUE]
             /\ workerThreads' = workerThreads \cup {<<n, gen[c]>>}
             /\ pc' = [pc EXCEPT ![<<n, gen[c]>>] = "check"]
             /\ Did(c, n)
       \/ todo[c] = {} /\ Goto(c, Idle, {}) /\ UNCHANGED <<stageUp, workerThreads, pc>>
    /\ UNCHANGED <<running, queue, stopped, gen, runs, idx, event, emitted, delivered, ownVars>>

\* if (!running_.exchange(false)) return;
StopBegin(c) ==
    /\ call[c] = "stop"
    /\ running' = FALSE
    /\ IF running THEN Goto(c, "edges", Edges) ELSE Goto(c, Idle, {})
    /\ UNCHANGED <<queue, stopped, stageUp, workerThreads, gen, runs, workVars, ownVars>>

StopEdge(c) ==
    /\ call[c] = "edges"
    /\ \/ \E e \in todo[c] :
             stopped' = [stopped EXCEPT ![e] = TRUE] /\ Did(c, e)
       \/ todo[c] = {} /\ Goto(c, "join", {}) /\ UNCHANGED stopped
    /\ UNCHANGED <<running, queue, stageUp, workerThreads, gen, runs, workVars, ownVars>>

\* Mutant: stop() releases the stages without waiting for the workers.
JoinNobody(c) ==
    /\ call[c] = "join"
    /\ workerThreads' = {}
    /\ Goto(c, "release", Nodes)
    /\ UNCHANGED <<running, queue, stopped, stageUp, gen, runs, workVars, ownVars>>

\* Mutant: stop() returns after the join and leaves the stages started.
JoinAndReturn(c) ==
    /\ call[c] = "join"
    /\ \A t \in workerThreads : pc[t] = "exited"
    /\ workerThreads' = {}
    /\ Goto(c, Idle, {})
    /\ UNCHANGED <<running, queue, stopped, stageUp, gen, runs, workVars, ownVars>>

\* Join every worker, then worker_threads_.clear().
JoinWorkers(c) ==
    /\ call[c] = "join"
    /\ \A t \in workerThreads : pc[t] = "exited"
    /\ workerThreads' = {}
    /\ Goto(c, "release", Nodes)
    /\ UNCHANGED <<running, queue, stopped, stageUp, gen, runs, workVars, ownVars>>

\* stage->stop(): a stage joins its own threads and forgets what it kept.
ReleaseStage(c) ==
    /\ call[c] = "release"
    /\ \/ \E n \in todo[c] :
             /\ \A w \in StageThreads : answer[<<n, w>>] = NoAnswer
             /\ stageUp' = [stageUp EXCEPT ![n] = FALSE]
             /\ kept' = [kept EXCEPT ![n] = {}]
             /\ Did(c, n)
       \/ todo[c] = {} /\ Goto(c, Idle, {}) /\ UNCHANGED <<stageUp, kept>>
    /\ UNCHANGED <<running, queue, stopped, workerThreads, gen, runs, workVars, answer>>

ControllerStep(c) ==
    \/ StartBegin(c) \/ ReopenEdge(c) \/ SpawnWorker(c)
    \/ StopBegin(c) \/ StopEdge(c) \/ JoinWorkers(c) \/ ReleaseStage(c)

-----------------------------------------------------------------------------
(* runNodeWorker and emitToDownstream.                                     *)

Move(t, place, pop, push) ==
    /\ pc' = [pc EXCEPT ![t] = place]
    /\ idx' = [idx EXCEPT ![t] = [pop |-> pop, push |-> push]]

\* Mutant: the worker keeps going until its source has nothing left to do.
CheckIgnoresStop(t) ==
    /\ pc[t] = "check"
    /\ IF Node(t) \in Sources
       THEN Move(t, "process", 0, 0)
       ELSE Move(t, "poll", 1, 0)
    /\ event' = [event EXCEPT ![t] = NoEvent]
    /\ UNCHANGED <<execVars, emitted, delivered, ownVars>>

\* while (running_.load()); a source then gets its tick.
Check(t) ==
    /\ pc[t] = "check"
    /\ IF ~running THEN Move(t, "exited", 0, 0)
       ELSE IF Node(t) \in Sources THEN Move(t, "process", 0, 0)
       ELSE Move(t, "poll", 1, 0)
    /\ event' = [event EXCEPT ![t] = NoEvent]
    /\ UNCHANGED <<execVars, emitted, delivered, ownVars>>

\* Mutant: the event is looked at and left on the edge.
PollPeeks(t) ==
    /\ pc[t] = "poll"
    /\ LET i == idx[t].pop IN
       IF i > Len(Incoming[Node(t)])
       THEN Move(t, "check", 0, 0) /\ UNCHANGED <<event, delivered>>
       ELSE LET e == Incoming[Node(t)][i] IN
            IF queue[e] = <<>>
            THEN Move(t, "poll", i + 1, 0) /\ UNCHANGED <<event, delivered>>
            ELSE /\ event' = [event EXCEPT ![t] = Head(queue[e])]
                 /\ delivered' = [delivered EXCEPT ![e] = Append(@, Head(queue[e]))]
                 /\ Move(t, "process", i, 0)
    /\ UNCHANGED <<execVars, emitted, ownVars>>

\* q->pop(event, 20) on each incoming edge in turn.  The wait of pop is the
\* worker not taking this step.
Poll(t) ==
    /\ pc[t] = "poll"
    /\ LET i == idx[t].pop IN
       IF i > Len(Incoming[Node(t)])
       THEN Move(t, "check", 0, 0) /\ UNCHANGED <<queue, event, delivered>>
       ELSE LET e == Incoming[Node(t)][i] IN
            IF queue[e] = <<>>
            THEN Move(t, "poll", i + 1, 0) /\ UNCHANGED <<queue, event, delivered>>
            ELSE /\ event' = [event EXCEPT ![t] = Head(queue[e])]
                 /\ queue' = [queue EXCEPT ![e] = Tail(@)]
                 /\ delivered' = [delivered EXCEPT ![e] = Append(@, Head(queue[e]))]
                 /\ Move(t, "process", i, 0)
    /\ UNCHANGED <<running, stopped, stageUp, workerThreads, call, todo, gen, runs, emitted,
                   ownVars>>

\* stage->process() returns without having emitted.
ProcessSilently(t) ==
    /\ pc[t] = "process"
    /\ Move(t, "poll", idx[t].pop + 1, 0)
    /\ UNCHANGED <<execVars, event, emitted, delivered, ownVars>>

\* stage->process() keeps the event for the threads of the stage.
ProcessKeeps(t) ==
    /\ pc[t] = "process"
    /\ Node(t) \in Keepers
    /\ kept' = [kept EXCEPT ![Node(t)] = @ \cup {event[t]}]
    /\ Move(t, "poll", idx[t].pop + 1, 0)
    /\ UNCHANGED <<execVars, event, emitted, delivered, answer>>

\* stage->process() calls emit, a source with a new event.
ProcessEmits(t) ==
    /\ pc[t] = "process"
    /\ Node(t) \notin Keepers
    /\ Outgoing[Node(t)] # <<>>
    /\ IF Node(t) \in Sources
       THEN /\ emitted < MaxEvents
            /\ emitted' = emitted + 1
            /\ event' = [event EXCEPT ![t] = emitted + 1]
       ELSE UNCHANGED <<emitted, event>>
    /\ Move(t, "emit", idx[t].pop, 1)
    /\ UNCHANGED <<execVars, delivered, ownVars>>

\* One pass of emitToDownstream's loop: push x to the edge e, whatever push
\* returns.  A push that waits under Block is the thread staying here; it may
\* also find the edge full until its 100 ms are over.
PushTo(e, x) ==
    \/ /\ ~stopped[e]
       /\ Full(queue[e], Capacity) => DropPolicy = DropOldest
       /\ queue' = [queue EXCEPT ![e] = PushBack(@, x, Capacity)]
    \/ /\ stopped[e] \/ (Full(queue[e], Capacity) /\ DropPolicy # DropOldest)
       /\ UNCHANGED queue

\* A worker emits from inside process().
Emit(t) ==
    /\ pc[t] = "emit"
    /\ LET i == idx[t].push IN
       /\ PushTo(Outgoing[Node(t)][i], event[t])
       /\ IF i = Len(Outgoing[Node(t)])
          THEN Move(t, "poll", idx[t].pop + 1, 0)
          ELSE Move(t, "emit", idx[t].pop, i + 1)
    /\ UNCHANGED <<running, stopped, stageUp, workerThreads, call, todo, gen, runs,
                   event, emitted, delivered, ownVars>>

WorkerStep(t) ==
    \/ Check(t) \/ Poll(t)
    \/ ProcessSilently(t) \/ ProcessKeeps(t) \/ ProcessEmits(t) \/ Emit(t)

-----------------------------------------------------------------------------
(* The threads of a stage, s = <<node, thread>>.                           *)

\* The batch of an event is dropped, or its entry evicted: nothing is emitted.
AnswerLost(n) ==
    /\ \E x \in kept[n] : kept' = [kept EXCEPT ![n] = @ \ {x}]
    /\ UNCHANGED <<execVars, workVars, answer>>

\* Mutant: the entry of an answered event is left in place.
AnswerKeepsEntry(s) ==
    /\ stageUp[s[1]]
    /\ answer[s] = NoAnswer
    /\ Outgoing[s[1]] # <<>>
    /\ \E x \in kept[s[1]] : answer' = [answer EXCEPT ![s] = [event |-> x, push |-> 1]]
    /\ UNCHANGED <<execVars, workVars, kept>>

\* A thread has the answer for one of the events and calls the emit of that
\* event, whichever of them was first.
AnswerBegin(s) ==
    /\ stageUp[s[1]]
    /\ answer[s] = NoAnswer
    /\ Outgoing[s[1]] # <<>>
    /\ \E x \in kept[s[1]] :
          /\ answer' = [answer EXCEPT ![s] = [event |-> x, push |-> 1]]
          /\ kept' = [kept EXCEPT ![s[1]] = @ \ {x}]
    /\ UNCHANGED <<execVars, workVars>>

\* emitToDownstream, called by a thread of the stage.
AnswerPush(s) ==
    /\ answer[s] # NoAnswer
    /\ LET i == answer[s].push IN
       /\ PushTo(Outgoing[s[1]][i], answer[s].event)
       /\ answer' = [answer EXCEPT ![s] =
             IF i = Len(Outgoing[s[1]]) THEN NoAnswer ELSE [@ EXCEPT !.push = i + 1]]
    /\ UNCHANGED <<running, stopped, stageUp, workerThreads, call, todo, gen, runs,
                   workVars, kept>>

OwnThreadStep(s) == AnswerBegin(s) \/ AnswerPush(s)

-----------------------------------------------------------------------------
\* Room within the bound for one more call of start().
StartAllowed == runs + Cardinality({c \in Controllers : call[c] = "start"}) < MaxRuns

\* A controller calls start() or stop().
Call(c) ==
    /\ call[c] = Idle
    /\ \/ StartAllowed /\ Goto(c, "start", {})
       \/ Goto(c, "stop", {})
    /\ UNCHANGED <<running, queue, stopped, stageUp, workerThreads, gen, runs, workVars, ownVars>>

Next ==
    \/ \E c \in Controllers : Call(c) \/ ControllerStep(c)
    \/ \E t \in Threads : WorkerStep(t)
    \/ \E s \in Keepers \X StageThreads : OwnThreadStep(s)
    \/ \E n \in Keepers : AnswerLost(n)

\* Threads are scheduled, process() returns, pop and push time out.
Fairness ==
    /\ \A c \in Controllers : WF_vars(ControllerStep(c))
    /\ \A t \in Threads : WF_vars(WorkerStep(t))
    /\ \A s \in Keepers \X StageThreads : WF_vars(AnswerPush(s))

Spec == Init /\ [][Next]_vars /\ Fairness

-----------------------------------------------------------------------------
InsideProcess(t) == pc[t] \in {"process", "emit"}
Alive(t) == pc[t] \notin {"none", "exited"}

\* No worker is inside stage->process() of a stage whose resources have been
\* released: the comments of GraphExecutor::stop at lines 74 and 79.
ProcessOnlyWhileHeld == \A t \in Threads : InsideProcess(t) => stageUp[Node(t)]

\* A node never has two live worker threads: stages keep unguarded state that
\* process() relies on a single caller for.
OneWorkerPerNode ==
    \A t, u \in Threads : Node(t) = Node(u) /\ Alive(t) /\ Alive(u) => t = u

\* When start() and stop() have returned and the executor does not run, no
\* worker is left, no thread of a stage is emitting, and every stage has been
\* released.
StoppedIsClean ==
    (\A c \in Controllers : call[c] = Idle) /\ ~running
        => /\ \A t \in Threads : ~Alive(t)
           /\ \A s \in Nodes \X StageThreads : answer[s] = NoAnswer
           /\ \A n \in Nodes : ~stageUp[n] /\ kept[n] = {}

\* The edges below a set of edges, or below a stage that emits from threads of
\* its own.
Closed(below) ==
    \A n \in Nodes :
        n \in Keepers \/ (\E i \in DOMAIN Incoming[n] : Incoming[n][i] \in below)
            => \A j \in DOMAIN Outgoing[n] : Outgoing[n][j] \in below

\* An edge that no event reaches through such a stage.
InOrderEdge(e) == \E below \in SUBSET Edges : Closed(below) /\ e \notin below

\* An edge above every stage with threads of its own hands over its events in
\* the order of their making, across stops and restarts: what a stop leaves on
\* an edge comes before what the next run puts there.  (In the graph checked,
\* every node that emits lies on one path from the source only.)
EdgeOrder ==
    \A e \in Edges : InOrderEdge(e) => \A i, j \in DOMAIN delivered[e] :
        i < j => delivered[e][i] < delivered[e][j]

\* Below such a stage the order is free, but no edge hands over an event twice
\* although two threads of the stage and the worker of its node take events
\* from one another, and stops and restarts cut them short.
DeliveredOnce ==
    \A e \in Edges : \A i, j \in DOMAIN delivered[e] :
        delivered[e][i] = delivered[e][j] => i = j
=============================================================================
