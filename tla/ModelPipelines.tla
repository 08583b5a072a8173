---------------------------- MODULE ModelPipelines ----------------------------
(***************************************************************************)
(* The path without pipelines and tasks: ModelManager loads, swaps and     *)
(* unloads models; each has a BatchScheduler that takes frames out of the  *)
(* buffers of a StreamPool, a group of workers and, in cascade, a second   *)
(* group.  Their threads hold plain references to each other's objects.    *)
(*                                                                         *)
(* mu_ is held while a pipeline starts, so starting one is a step; it is   *)
(* not held while one stops.  The manager has no destructor of its own:    *)
(* the members of what is loaded go in the reverse of their order.  A      *)
(* group has one worker here.                                              *)
(***************************************************************************)
EXTENDS Integers, Sequences, FiniteSets, FiniteSetsExt

CONSTANTS
    Models,         \* ids
    Cameras,        \* stream ids
    Managers,       \* threads that call the ModelManager
    MaxPipelines,   \* bound: pipelines ever started
    PoolLimit,      \* max_streams_
    BatchSize,      \* batch_size
    Preferred,      \* preferred_batch_sizes
    BufferLen,      \* kFrameBufferCapacity
    MaxQueue,       \* InferWorker::kMaxQueueSize
    MaxInputs       \* bound: streams added and frames decoded

ASSUME PipelineAssumption == MaxPipelines \in Nat

Pipes == 1..MaxPipelines
targets == IF Preferred = {} THEN {BatchSize} ELSE Preferred
maxBs == Max(targets)
PipeParts == {"scheduler", "group", "secondary"}
FrameKinds == {"cpu", "gpu"}

VARIABLES
    entry,      \* entries_: the pipeline of a model, 0 if none
    started,    \* pipelines started so far
    modelOf,    \* the model in a pipeline's configuration
    cascaded,   \* pipelines with a secondary model
    lives,      \* objects of a pipeline that exist: its parts, "publishers", and
                \* "router" for router and merger
    closing,    \* the manager is being destroyed
    runs,       \* a part's thread: "off" | "idle" | "scanning" | "busy" | "exited"
    flagged,    \* <<pipeline, part>> whose stop_flag_ is set
    tearing,    \* what a manager is stopping: [pipe, part], pipe 0 if nothing
    served,     \* the pool: the model of a stream, "none" if there is no stream
    inputs,     \* streams added and frames decoded so far
    frames,     \* its FrameBuffer: kinds of the frames in it
    known,      \* model_streams of a scheduler, refreshed now and then
    got,        \* buf: the stream whose buffer a scheduler points to, "none", "freed"
    batch,      \* the batch a scheduler is filling
    queue       \* batches waiting for a group, crops waiting for a secondary one

managerVars   == <<entry, started, modelOf, cascaded, lives, closing, tearing>>
streamVars    == <<served, frames, inputs>>
scanVars      == <<known, got, batch>>
pipelineVars  == <<managerVars, runs, flagged, streamVars, scanVars, queue>>

NoQueue == [group |-> 0, secondary |-> 0]

PipelinesInit ==
    /\ entry = [m \in Models |-> 0] /\ started = 0 /\ cascaded = {}
    /\ modelOf = [p \in Pipes |-> "none"]
    /\ lives = [p \in Pipes |-> {}] /\ closing = FALSE
    /\ runs = [p \in Pipes |-> [x \in PipeParts |-> "off"]]
    /\ flagged = {}
    /\ tearing = [c \in Managers |-> [pipe |-> 0, part |-> "scheduler"]]
    /\ served = [s \in Cameras |-> "none"] /\ frames = [s \in Cameras |-> <<>>]
    /\ inputs = 0
    /\ known = [p \in Pipes |-> {}] /\ got = [p \in Pipes |-> "none"]
    /\ batch = [p \in Pipes |-> <<>>]
    /\ queue = [p \in Pipes |-> NoQueue]

-----------------------------------------------------------------------------
(* ModelManager.                                                           *)

free(c) == tearing[c].pipe = 0

\* startPipeline: merger, publishers and secondary workers, the router, the
\* group and last the scheduler.  The entry of m gets a pipeline for model n.
startPipeline(m, n, inCascade) ==
    /\ started < MaxPipelines
    /\ started' = started + 1
    /\ entry' = [entry EXCEPT ![m] = started']
    /\ modelOf' = [modelOf EXCEPT ![started'] = n]
    /\ LET parts == IF inCascade THEN PipeParts ELSE PipeParts \ {"secondary"}
       IN  /\ lives' = [lives EXCEPT ![started'] =
                          IF inCascade THEN parts \cup {"publishers", "router"} ELSE parts]
           /\ runs' = [runs EXCEPT ![started'] =
                         [x \in PipeParts |-> IF x \in parts THEN "idle" ELSE "off"]]
    /\ cascaded' = IF inCascade THEN cascaded \cup {started'} ELSE cascaded

\* A backend cannot load its model: what was started is stopped and
\* destroyed again before the exception leaves.
startThrows ==
    UNCHANGED <<entry, started, modelOf, cascaded, lives, runs>>

managerRest == <<flagged, streamVars, scanVars, queue>>

\* load, and swap of a model that is not there; nothing if it is READY.
Load(c, m) ==
    /\ free(c) /\ ~closing /\ entry[m] = 0
    /\ \/ \E inCascade \in BOOLEAN : startPipeline(m, m, inCascade)
       \/ startThrows
    /\ UNCHANGED <<closing, tearing, managerRest>>

\* unload: the entry goes at once, its pipeline is stopped afterwards.
Unload(c, m) ==
    /\ free(c) /\ ~closing /\ entry[m] # 0
    /\ entry' = [entry EXCEPT ![m] = 0]
    /\ tearing' = [tearing EXCEPT ![c].pipe = entry[m]]
    /\ UNCHANGED <<started, modelOf, cascaded, lives, closing, runs, managerRest>>

\* Mutant: the old pipeline is given up before the new one has started.
SwapGivesUpFirst(c, m, n) ==
    /\ free(c) /\ ~closing /\ entry[m] # 0
    /\ \/ \E inCascade \in BOOLEAN : startPipeline(m, n, inCascade)
       \/ startThrows
    /\ tearing' = [tearing EXCEPT ![c].pipe = entry[m]]
    /\ UNCHANGED <<closing, managerRest>>

\* swap: the new pipeline starts beside the old one and takes its place.  If
\* it does not start, the old one stays.  The new configuration may be one of
\* another model: its pipeline is kept under the old name.
Swap(c, m, n) ==
    /\ free(c) /\ ~closing /\ entry[m] # 0
    /\ \/ /\ \E inCascade \in BOOLEAN : startPipeline(m, n, inCascade)
          /\ tearing' = [tearing EXCEPT ![c].pipe = entry[m]]
       \/ startThrows /\ UNCHANGED tearing
    /\ UNCHANGED <<closing, managerRest>>

\* Mutant: the cascade goes before the secondary workers.
NextPartTooFew(x) == IF x = "scheduler" THEN "group" ELSE "rest"

\* stopPipeline_unlocked: scheduler, primary workers, secondary workers; the
\* rest is destroyed last.
NextPart(x) ==
    CASE x = "scheduler" -> "group"
      [] x = "group"     -> "secondary"
      [] x = "secondary" -> "rest"

\* The members of a ModelEntry in the reverse order of their declaration; each
\* group and the scheduler stop in their destructor.
NextMember(x) ==
    CASE x = "publishers" -> "secondary"
      [] x = "secondary"  -> "router"
      [] x = "router"     -> "scheduler"
      [] x = "scheduler"  -> "group"
      [] x = "group"      -> "rest"

\* ~ModelManager, which is implicit: one entry after the other is destroyed, by
\* a thread that is the only one left to call the manager.
DropEntry(c, m) ==
    /\ entry[m] # 0 /\ \A d \in Managers : free(d)
    /\ closing' = TRUE
    /\ entry' = [entry EXCEPT ![m] = 0]
    /\ tearing' = [tearing EXCEPT ![c] = [pipe |-> entry[m], part |-> "publishers"]]
    /\ UNCHANGED <<started, modelOf, cascaded, lives, runs, managerRest>>

\* A member without a thread is destroyed.
FreeMember(c) ==
    LET p == tearing[c].pipe  x == tearing[c].part IN
    /\ ~free(c) /\ x \in {"publishers", "router"}
    /\ lives' = [lives EXCEPT ![p] = @ \ {x}]
    /\ tearing' = [tearing EXCEPT ![c].part = NextMember(x)]
    /\ UNCHANGED <<entry, started, modelOf, cascaded, closing, runs, managerRest>>

\* stop() of a part: the flag, ...
StopPart(c) ==
    LET p == tearing[c].pipe  x == tearing[c].part IN
    /\ ~free(c) /\ x \in PipeParts /\ <<p, x>> \notin flagged
    /\ flagged' = flagged \cup {<<p, x>>}
    /\ UNCHANGED <<managerVars, runs, streamVars, scanVars, queue>>

\* ... then the join.  A destructor also destroys it.
JoinPart(c) ==
    LET p == tearing[c].pipe  x == tearing[c].part IN
    /\ ~free(c) /\ x \in PipeParts /\ <<p, x>> \in flagged
    /\ runs[p][x] \in {"off", "exited"}
    /\ tearing' = [tearing EXCEPT ![c].part = IF closing THEN NextMember(x) ELSE NextPart(x)]
    /\ lives' = IF closing THEN [lives EXCEPT ![p] = @ \ {x}] ELSE lives
    /\ UNCHANGED <<entry, started, modelOf, cascaded, closing, runs, managerRest>>

\* The parameters of stopPipeline_unlocked, or the last members of the entry,
\* go out of scope.
DestroyPipeline(c) ==
    LET p == tearing[c].pipe IN
    /\ ~free(c) /\ tearing[c].part = "rest"
    /\ lives' = [lives EXCEPT ![p] = {}]
    /\ flagged' = {f \in flagged : f[1] # p}
    /\ known' = [known EXCEPT ![p] = {}]
    /\ batch' = [batch EXCEPT ![p] = <<>>]
    /\ queue' = [queue EXCEPT ![p] = NoQueue]
    /\ tearing' = [tearing EXCEPT ![c] = [pipe |-> 0, part |-> "scheduler"]]
    /\ UNCHANGED <<entry, started, modelOf, cascaded, closing, runs, streamVars, got>>

-----------------------------------------------------------------------------
(* StreamPool and FrameBuffer.                                             *)

streamRest == <<managerVars, runs, flagged, known, batch, queue>>

\* addStream; an id that exists is skipped, one too many throws.
AddStream(s, m) ==
    /\ served[s] = "none"
    /\ Cardinality({x \in Cameras : served[x] # "none"}) < PoolLimit
    /\ inputs < MaxInputs /\ inputs' = inputs + 1
    /\ served' = [served EXCEPT ![s] = m]
    /\ UNCHANGED <<streamRest, got, frames>>

\* removeStream, stopAll: the decoder is joined and the buffer goes, whoever
\* points to it.
RemoveStream(s) ==
    /\ served[s] # "none"
    /\ served' = [served EXCEPT ![s] = "none"]
    /\ frames' = [frames EXCEPT ![s] = <<>>]
    /\ got' = [p \in Pipes |-> IF got[p] = s THEN "freed" ELSE got[p]]
    /\ UNCHANGED <<streamRest, inputs>>

\* FrameBuffer::push: a full buffer refuses the new frame.
PushFrame(s, kind) ==
    /\ served[s] # "none" /\ Len(frames[s]) < BufferLen
    /\ inputs < MaxInputs /\ inputs' = inputs + 1
    /\ frames' = [frames EXCEPT ![s] = Append(@, kind)]
    /\ UNCHANGED <<streamRest, got, served>>

-----------------------------------------------------------------------------
(* BatchScheduler::scheduleLoop.                                           *)

scanning(p) == runs[p]["scheduler"] = "scanning"

\* activeStreams, and of these the ones getStreamModelId says are the model's.
activeStreams(m) == {s \in Cameras : served[s] = m}

\* The head of the loop: the flag, and from time to time a new list.
RefreshStreams(p) ==
    /\ runs[p]["scheduler"] = "idle" /\ <<p, "scheduler">> \notin flagged
    /\ runs' = [runs EXCEPT ![p]["scheduler"] = "scanning"]
    /\ \/ known' = [known EXCEPT ![p] = activeStreams(modelOf[p])]
       \/ known[p] # {} /\ UNCHANGED known
    /\ UNCHANGED <<managerVars, flagged, streamVars, got, batch, queue>>

\* getBuffer: the pool's lock is held for the look-up only.  (That a stream is
\* visited once in a round is left out.)
GetBuffer(p, s) ==
    /\ scanning(p) /\ got[p] = "none"
    /\ s \in known[p] /\ served[s] # "none"
    /\ Len(batch[p]) < maxBs
    /\ got' = [got EXCEPT ![p] = s]
    /\ UNCHANGED <<managerVars, runs, flagged, streamVars, known, batch, queue>>

\* A frame of another kind than the batch is dropped.
Collected(p, kind) ==
    IF batch[p] # <<>> /\ Head(batch[p]) # kind THEN batch
    ELSE [batch EXCEPT ![p] = Append(@, kind)]

\* pop and what follows.  Two schedulers in one ring may both get the frame;
\* in a buffer that was freed anything may be found.
PopFrame(p) ==
    LET s == got[p] IN
    /\ scanning(p) /\ s # "none"
    /\ got' = [got EXCEPT ![p] = "none"]
    /\ \/ /\ s = "freed"
          /\ batch' \in {batch} \cup {Collected(p, kind) : kind \in FrameKinds}
          /\ UNCHANGED frames
       \/ s # "freed" /\ frames[s] = <<>> /\ UNCHANGED <<batch, frames>>
       \/ /\ s # "freed" /\ frames[s] # <<>>
          /\ batch' = Collected(p, Head(frames[s]))
          /\ \/ frames' = [frames EXCEPT ![s] = Tail(@)]
             \/ (\E q \in Pipes : q # p /\ got[q] = s) /\ UNCHANGED frames
    /\ UNCHANGED <<managerVars, runs, flagged, served, inputs, known, queue>>

\* A preferred size is reached or the deadline has passed: the callback.
FlushBatch(p) ==
    /\ scanning(p) /\ got[p] = "none" /\ batch[p] # <<>>
    /\ runs' = [runs EXCEPT ![p]["scheduler"] = "busy"]
    /\ UNCHANGED <<managerVars, flagged, streamVars, scanVars, queue>>

\* Otherwise a short sleep and the next round.
NextRound(p) ==
    /\ scanning(p) /\ got[p] = "none" /\ \A n \in targets : Len(batch[p]) < n
    /\ runs' = [runs EXCEPT ![p]["scheduler"] = "idle"]
    /\ UNCHANGED <<managerVars, flagged, streamVars, scanVars, queue>>

\* The callback: InferWorkerGroup::enqueue; a full queue drops the batch.
Enqueued(p, x) == [queue EXCEPT ![p][x] = IF @ < MaxQueue THEN @ + 1 ELSE @]
DeliverBatch(p) ==
    /\ runs[p]["scheduler"] = "busy"
    /\ runs' = [runs EXCEPT ![p]["scheduler"] = "idle"]
    /\ queue' = Enqueued(p, "group")
    /\ batch' = [batch EXCEPT ![p] = <<>>]
    /\ UNCHANGED <<managerVars, flagged, streamVars, known, got>>

-----------------------------------------------------------------------------
(* The workers.                                                            *)

workerRest == <<managerVars, flagged, streamVars, scanVars>>

TakeBatch(p, x) ==
    /\ x # "scheduler"
    /\ runs[p][x] = "idle" /\ <<p, x>> \notin flagged
    /\ queue[p][x] > 0
    /\ runs' = [runs EXCEPT ![p][x] = "busy"]
    /\ queue' = [queue EXCEPT ![p][x] = @ - 1]
    /\ UNCHANGED workerRest

\* Results are published; those of a primary model are routed, and their
\* crops given to the secondary group.
PublishBatch(p, x) ==
    /\ x # "scheduler"
    /\ runs[p][x] = "busy"
    /\ runs' = [runs EXCEPT ![p][x] = "idle"]
    /\ queue' = IF x = "group" /\ p \in cascaded THEN Enqueued(p, "secondary") ELSE queue
    /\ UNCHANGED workerRest

\* A loop sees its stop flag.
LoopExits(p, x) ==
    /\ runs[p][x] = "idle" /\ <<p, x>> \in flagged
    /\ runs' = [runs EXCEPT ![p][x] = "exited"]
    /\ UNCHANGED <<workerRest, queue>>

PipelinesNext ==
    \/ \E c \in Managers :
         \/ \E m \in Models : Load(c, m) \/ Unload(c, m) \/ DropEntry(c, m)
         \/ \E m, n \in Models : Swap(c, m, n)
         \/ StopPart(c) \/ JoinPart(c) \/ FreeMember(c) \/ DestroyPipeline(c)
    \/ \E s \in Cameras :
         \/ \E m \in Models : AddStream(s, m)
         \/ RemoveStream(s)
         \/ \E kind \in FrameKinds : PushFrame(s, kind)
    \/ \E p \in Pipes :
         \/ RefreshStreams(p)
         \/ \E s \in Cameras : GetBuffer(p, s)
         \/ PopFrame(p) \/ FlushBatch(p) \/ DeliverBatch(p) \/ NextRound(p)
         \/ \E x \in PipeParts : TakeBatch(p, x) \/ PublishBatch(p, x) \/ LoopExits(p, x)

-----------------------------------------------------------------------------
\* The router, merger and publishers of a cascade and its secondary workers are
\* there for the workers that call them until they have stopped.
CascadeThere(p) ==
    /\ p \in cascaded /\ runs[p]["group"] = "busy" => {"router", "secondary"} \subseteq lives[p]
    /\ runs[p]["secondary"] = "busy" => {"publishers", "router"} \subseteq lives[p]

\* What a thread refers to is there: its own object, and the group the
\* scheduler's callback points to, through load, swap, unload and the
\* destruction of the manager; and what the workers of a cascade call, as long
\* as the manager is not destroyed with pipelines in it.
UsedIsAlive ==
    \A p \in Pipes :
        /\ \A x \in PipeParts : runs[p][x] \notin {"off", "exited"} => x \in lives[p]
        /\ runs[p]["scheduler"] = "busy" => "group" \in lives[p]
        /\ closing \/ CascadeThere(p)

\* A model that is listed is served by a pipeline nobody is stopping, through
\* every swap, the ones that fail or change the model's id included; a pipeline
\* that is not listed any more is being taken down by exactly one thread.
ServedThroughSwap ==
    /\ \A m \in Models : entry[m] # 0 =>
         /\ \A x \in PipeParts : <<entry[m], x>> \notin flagged
         /\ \A c \in Managers : tearing[c].pipe # entry[m]
    /\ \A p \in 1..started : lives[p] # {} /\ (\A m \in Models : entry[m] # p) =>
         Cardinality({c \in Managers : tearing[c].pipe = p}) = 1
=============================================================================
