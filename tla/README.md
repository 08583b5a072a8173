# A TLA+ verification project for inference-server

`inferenced` is a C++ service that decodes video streams, runs neural networks
on the frames and publishes the detections.  A *task* binds a source to a
*pipeline*, a directed graph of *stages*; each node of the graph has a thread,
each edge a bounded queue.  Tasks, sources, pipelines and models can be changed
while the service runs, over a Unix socket, and the changes are kept in a file
beside the configuration.

The modules here model the control of that program (every state change, guard,
early return and error path, in their order) and abstract its data: a frame is
a stream, a number and a connection, a configuration item is a model value.
Lines quoted below are lines of the repository (`src/...` there is the
directory `src/src/...` seen from the project root).

Contents: [inventory](#1-inventory), [modules and code](#2-modules-and-the-code-they-model),
[runs](#3-what-tlc-checks), [proofs](#4-what-is-proved),
[disagreements found](#5-where-the-code-and-its-documents-disagree),
[not modelled](#6-what-is-not-modelled), [plan](#7-plan).


## 1. Inventory

| part | state | operations | interacts with |
|---|---|---|---|
| Edge queues, `EdgeQueue.cpp` | `queue_`, `stopped_`, a condition variable | push (block for 100 ms, drop newest, drop oldest), pop with time-out, stop, reopen | node threads of the executor |
| Graph executor, `GraphExecutor.cpp` | `running_`, stages, edges, `worker_threads_` | start, stop, the loop of a node thread, fan-out | stages (start, process, drain, stop), edges |
| Task lifecycle, `TaskManager.cpp` | `entries_` with the state and a shared executor | start, stop, removeTask, startAll, stopAll | client threads call it; it calls the executor, partly outside `mu_` |
| Task registry, `TaskManager.cpp`, `RuntimeState.cpp` | `cfg_`, the delta `runtime_state_`, its file | add, remove, update of sources, pipelines, tasks; load and unload of models; persist; load and apply at start | the socket, the file system |
| Infer stage, `InferEngineWorkerStage.cpp`, `InferWorker.cpp`, `InferWorkerGroup.cpp`, `BatchPolicy.h` | `pending_events_`, `inflight_`, worker queues, worker states, batch policy | process, flush thread, sweep, enqueue, worker loop, recovery, start, drain, stop | node thread, flush thread, one thread per worker, backends, cascade |
| Cascade, `CascadeRouter.cpp`, `ResultMerger.cpp`, `AttributePublisher.cpp` | results that wait for attributes, with a deadline | route, registerPrimary, addAttribute, flushExpired | infer workers of several models, publisher |
| Sources and decoder, `SourceRtspStage.cpp`, `SourceFileStage.cpp`, `FFmpegDecoder.cpp`, `StreamHealthRegistry.cpp`, `GpuDeviceAllocator.cpp` | frame queue, `frame_seq_`, connection state, failure counts, device loads | decode loop with reconnect and back-off, health transitions, choice and fallback of the decoder | decoder thread, node thread, management queries |
| Ascend decoder, `DVPPDecoder.cpp`, `DvppOutputPool.cpp` | channel, output pools, `frame_seq_`, failure count | start with a timed wait, reconnect loop, submit, callbacks, clean-up, stop | driver threads, source stage, frames downstream |
| SAHI, `SahiSchedulerStage.cpp`, `SahiMergeStage.cpp`, `SahiRoiRegistry.cpp` | per-stream counters, tiles in progress per frame, regions found last | schedule, merge, sweep | each other through the graph and the registry |
| Publishers, `RedisPublisher.cpp`, `KafkaPublisher.cpp`, `GrpcPublisher.cpp`, `MultiPublisher.cpp` | queue, stop flag, subscribers | publish, flush, publish loop, destruction, subscription | stages, network |
| Archive, `FrameArchiver.cpp`, `FrameRetentionGc.cpp`, `FrameLayout.h` | task queue, a tree of directories by day, hour and minute | submit, archive workers, collection by age | stages, file system |
| Video outputs, `DrawAndStreamStage.cpp`, `SinkFfplayStage.cpp`, `AscendVencFfmpegMuxWriter.cpp` | frame queue, what the output has opened, back-off | process, worker loop, open with rollback, write, drain, stop | node thread, executor, child processes, encoder callbacks |
| Management socket and process, `UnixSocketServer.cpp`, `main.cpp` | client threads, shutdown flag | accept, dispatch, stop; start-up and shutdown order | everything |
| Configuration, `Config.cpp` | none | load, scan the model repository, validate, look up | registry |
| Backends and buffer pools, `TRTBackend.cpp`, `AscendBackend.cpp`, `OnnxBackend.cpp`, `GpuBufferPool.cpp`, `AscendBufferPool.cpp` | handles, pool slots, device streams | loadModel, infer, unloadModel | infer workers, device |
| Model manager, `ModelManager.cpp`, `BatchScheduler.cpp`, `StreamPool.cpp`, `FrameBuffer.cpp` | a pipeline per model, buffers per stream | load, swap, unload, batching | worker groups, cascade |
| Tracker, output decoders, kernels, metrics, logging, stage factory, Go side-car | counters, tensors | | see section 6 |

What makes it hard:

* **Concurrency.** A task has one thread per node, a flush thread, a thread per
  infer worker and a decoder thread; several clients may start, stop and remove
  the same task, and start() and stop() run outside the manager's lock.
* **Ordering.** Workers answer out of order; results are matched to frames
  through a map that is swept by time.
* **Failure.** Faults of a device with recovery and giving up, memory pressure
  with re-queueing, start() that throws half-way, saves that fail, restarts from
  whatever the file holds.
* **Time-outs and bounds.** Edges that block for at most 100 ms, batches sent by
  a deadline, entries evicted after 5 s, queues that drop when full.
* **Life cycle.** A stop has to wait for every thread that may be inside a
  stage, must not hang on any of them, and a later start reuses the queues.

What each part has to guarantee:

* *edges*: never above capacity, first in first out, nothing is lost except
  where the policy says so, nothing enters after stop, every push returns;
* *executor*: a stage is released only after its thread has left it, one thread
  per node, nothing left after stop, order on the edges above a stage that answers
  from threads of its own, and no event twice anywhere, across restarts;
* *lifecycle*: a removed task is dead, every operation returns;
* *registry*: references are intact, the recorded delta leads back to the
  configuration in memory, ids are unique;
* *infer stage*: a result meets its own frame, at most once, never before the
  frame is on record; no frame is held for ever; stop ends and leaves nothing;
* *cascade and SAHI*: the parts of a result are put together from answers to its
  own crops or tiles, once;
* *sources and decoders*: the health reported is the decoder's, buffers are
  accounted for, stop joins;
* *publishers, archive, outputs*: what was accepted is sent, what is fresh is
  kept, an output is whole or gone;
* *process, backends, models*: nothing is used after its destruction, calls of
  infer() do not see each other, a model is served through a swap.

The list `hazards` in `PROJECT.json` names the lines where these can go wrong,
with the properties that would show it.


## 2. Modules and the code they model

`PROJECT.json` maps every definition to its lines.

**`EdgeQueueOps`** holds what the executor needs of an edge as operators:
the policies, `Full`, and what a push that is admitted does to the deque.

**`EdgeQueue`** is one edge with any number of producers and consumers.  A call
of push or pop is one step when it does not wait, and three otherwise: it begins
to wait (the mutex is released), anything may happen, it returns with the mutex
taken again, after a notification or after the time-out.  The configuration is
chosen in the initial state.  `accepted`, `left` and `evicted` are history.

**`GraphExecutor`** is one executor over a graph given by constants.  A
controller inside start() or stop() takes one step for each pass of its loops;
the maps are unordered, so the passes come in any order.  A node thread is named
by its node and its run, so that threads of two runs can coexist; its places
are the test of `running_`, the poll of the next incoming edge, process() and
the push to the next outgoing edge.  A push that waits is the thread staying
where it is; the step then finds room, or gives up with the edge still full (its
100 ms are over) or stopped.  A stage with threads of its own (`Keepers`; in the code
`infer.engine`) emits nothing inside process(): it keeps the event, and any of its
threads takes one, in any order, and pushes it to the edges below (`AnswerBegin`,
`AnswerPush`), until the stage's stop() joins them.

**`TaskControl`** extends `GraphExecutor` by TaskManager's start, stop and
removeTask.  `mu` is the manager's lock: removeTask holds it over the whole
stop of the executor, start and stop release it before they call the executor.
`op` says which reference a client holds; the executor dies when the entry is
gone and the last holder returns (`DropReference`, `Destroyed`).

**`TaskRegistry`** is the configuration in memory, the delta and its file.  A
configuration maps every kind and id to the sequence of items with that id,
because the code keeps vectors and nothing in their type excludes a second item
of the same id.  Every mutator is an action, with its early returns as guards,
its rebuilding of executors, and the save at its end, which may fail before the
temporary file is opened (the file stays), or while it is written (the file is
`Torn`).  `Exit` and `Boot` are the end of the process and its next start.

**`InferStage`** is the stage `infer.engine` with its worker group.  Two threads
send batches, the node thread ("graph") and the flush thread: both extract a
batch, record its frames in `inflight`, choose a worker and push to its queue,
and everything between these steps interleaves.  A worker's places are waiting,
inferring, putting back, recovering, looking for the entry of the next result
and emitting it.  Time is abstracted to two actions: `DeadlinePasses` makes the
batch deadline be over, `EntriesAge` makes entries old enough for the sweep.
A frame carries its connection: the decoder numbers frames from 0 after every
reconnect.  A new start of the task is a new connection as well.

**`BoundedChannel`** says what an edge promises, without threads, waits or
mutex: items enter once, while the channel is open, where there is room or the
oldest may go, and leave in order.  `EdgeQueue` instantiates it with a mapping
(`held <- queue`, `entered` and `dropped` from its history) and implements it.

**`StreamSource`** is a source stage with FFmpeg: start (which device, which
decoder), the decode thread (begin, open, read, decode, end of stream, back-off,
leave), the health registry it reports to and the frame queue of the stage.
An open or a read succeeds, fails, or ends as the network pleases.  Two stages
may share a source; the registry has one entry for both.

**`DvppDecoder`** is the Ascend decoder: the starting thread with its timed wait,
the decode thread with its connections, the hardware that answers or loses a
packet, callbacks with and without the scaler, the pools, and the frames that
downstream still holds.  The destruction of a channel waits for the callbacks it owes
or fails; when it fails the clean-up goes on as in the code, and what is owed can
come late (`late`).  With `Cann6` callbacks run only while the decode thread is in its
packet loop, which is where it calls aclrtProcessReport.

**`Publishers`** has the condition variable of Redis as a set of waiters, so that
a lost notification can be seen, the timed wait of Kafka, the subscribers of gRPC
and the main thread that flushes and destroys them.

**`Cascade`** is the router and the merger: a primary thread registers a result
with the number of its crops and sends them one by one; answers come, get lost or
come after the deadline.

**`Sahi`** is the scheduler and the merge stage for one stream: which pass a frame
gets, its tiles along one axis (the grid is a product of two such sets), answers
in any order, sweeps, suppression and the regions that feed back into the next
frame.  A camera that is opened again numbers its frames from 0, so that two frames
can have one key; `cut` tells them apart.

**`FrameArchive`** has the archive threads and the collector on one tree.  Every
directory level, the temporary file, the rename, and every removal is a step.

**`VideoOutput`** is one sink of three kinds.  `Parts` lists what open() acquires;
each is a step that may fail.  Every clean-up is a list of handles in the order in
which the code looks at them: `rollbackOpen` with the encoder's part, `close` with its
early return, what open() does itself where it does not call rollbackOpen
(`OnFailure`: a runtime that cannot be acquired, ffplay that cannot be launched) and
`closeFfplay`; each handle that is set is freed in a step of its own.  The thread tests
its predicate and waits in two steps; frames are queued under the mutex in between or
not, stop() notifies without it.

**`ProcessLifecycle`** is main() from the signal on, with the accept loop and
client threads that still serve requests.

**`ConfigValidation`** is loadConfig and validateAppConfig on configurations given
as records; the search for cycles visits one node per step, in any order, as the
hash map yields them.

**`Backend`** is one backend of three kinds.  infer() queues work on device streams
that run on their own; a call that fails or times out leaves its work there.  TensorRT
runs with enqueueV3 or with executeV2 (`asyncRun`), Ascend with AIPP or without
(`aipp`: without it frames of the decoder go the way of pictures on the host, of which
there are none).  A copy to the host that outlives its call writes freed memory; the
next call may have been given that memory for its pictures (`Lands`).

**`ModelPipelines`** is the model manager with the scheduler, the workers and the
stream pool behind it, all of which hold plain references to one another.  getBuffer
and pop are two steps, between which the stream may be removed or another scheduler
pop from the same ring; what a pop then yields is left open.  `DropEntry` begins the
implicit destruction of the manager, which frees the members of an entry in the
reverse of their order (`NextMember`).

**`MCEndpoints`** and **`MCServices`** put modules that share no state side by side: a
variable `part` says which of them a behaviour is about and the others keep their
initial state, so the states add up instead of multiplying.  `MCServices` looks at the
model manager twice, with streams and one model (`OneModel`), and with two threads,
two models and no stream (`NoStream`).

In each module, a definition commented *Mutant* is a plausible mistake in the
code that the property named beside it in `PROJECT.json` detects; no
specification uses it.

### Abstractions worth knowing

* A stage emits nothing or one event for each event it is given, inside process() or
  later; a stage that emits several (tiles) is in `Sahi`.
* The start of a stage in `GraphExecutor` does not fail; that it may throw for
  `infer.engine` is in `InferStage` (`StartThrows`, `AbandonStart`).
* `TaskControl` is about one task.  The operations of two tasks share only `mu_`.
* `TaskRegistry` treats each management operation as atomic, as the code does by
  holding `mu_`; `StartStop` is its only operation that does not, and it
  changes nothing but the state of an entry.
* In `Sahi` a lost tile is one that never arrives; `Cascade` loses crops by an
  action.
* `ModelPipelines` starts a pipeline in one step because `mu_` is held meanwhile,
  and stops one in many because it is not.  A group has one worker there.
* A pool slot, a picture or a frame that the code may use after it was freed is
  modelled by an arbitrary outcome of that use, and the behaviour goes on.


## 3. What TLC checks

| run | instance | shows |
|---|---|---|
| `edge_queue` | two producers, a consumer, capacities 1 and 2, all policies, four events | order and no silent loss, every push returns, the edge implements `BoundedChannel` |
| `executor` | source with fan-out, a middle node that answers from two threads of its own, sink on two edges; capacity 1, blocking; two runs, two events | release after the last worker, one worker per node, clean stop, order above the middle node, no event twice on any edge |
| `task_control_one_client` | a chain of three nodes, the middle one with a thread of its own; one client, two runs | every operation returns |
| `task_control_two_clients` | source and sink, two clients (symmetric) | a removed task is dead |
| `registry_fresh` | nothing in the YAML; two pipelines, tasks and models, one failed save | references, delta |
| `registry_yaml` | a task, its source, pipeline and model in the YAML | ids survive a restart |
| `infer_workers` | two workers on two devices, batches of two, queue of one, three frames | results and frames |
| `infer_lifecycle` | one worker, two runs, one reconnect | stop ends and is clean, no frame is held for ever |
| `endpoints` | a camera and a clip; a DVPP decoder of CANN 7 with two slots and two connections; the publishers with three results and two subscribers | true health, slots accounted for, nothing left in a publisher's queue, no write to a finished call, every stop and flush returns |
| `services` | cascade: two results of up to three crops, two threads; slicing: three frames of width 2, 4 or 6, tiles of 3, reconnects at any time; archive: two frames, five minutes, days of four; three kinds of sink; two management clients; every graph of three nodes and up to three edges; three backends, two calls; model manager: one stream with a frame through two pipelines in cascade, and two threads with two models and three pipelines; 1.6 million states | merged results are exact, tiles cover and results are of one frame number, fresh frames survive, outputs are whole or gone and no frame is slept on, nothing is used after destruction, verdicts on configurations are right, calls of infer() are isolated, what a thread of a pipeline refers to is there, a model is served through every swap |
| `infer_reconnect` | one worker, one reconnect | violation, see 5.1 |
| `dvpp_frame_memory` | `endpoints` | violation, see 5.2 |

**Bounds.**  Capacity 1 with two events is the smallest instance in which an edge
is full, a producer waits and a stop finds both; two runs are the smallest in
which something of a run survives into the next.  Two clients are enough for a
start, a stop and a removal to overlap pairwise.  Two ids of each kind let an
operation concern an id that another item does or does not use.  With batches of
two and three frames there is a full batch and a batch sent by the deadline;
with two workers and queues of one, batches overtake each other, wait and are
dropped.  Two opens that fail bring a stream from its threshold to FAILED, and five
opens in all let it drop and recover before that.  Two connections of the DVPP
decoder are one that ends, poisoned or not, and one after it that meets what it left.  A frame of width 2 is
smaller than a tile, 4 needs two tiles with the last one pushed back, 6 needs more
than a frame may have.  In the archive five minutes are enough for a minute, an
hour and a day to become too old while a frame is still being written.  Two calls of
infer() let the second meet what the first left behind.  Two
inputs of the model manager are a stream and a frame, which passes through every
thread of a pipeline and may be taken by the schedulers of two; three pipelines are
one for each of two models and one that takes the place of either.  Two frames with the same number need one reconnect, and
three frames leave one of another number beside them.  The bounds `MaxEvents`,
`MaxRuns`, `MaxCopies`, `MaxFailures`, `MaxSeq`, `MaxConn`, `MaxStarts`, `MaxOpens`,
`MaxConnections`, `MaxResults`, `MaxFrames`, `MaxShots`, `MaxTime`, `MaxShown`,
`MaxSinkStarts`, `MaxRequests`, `MaxCalls`, `MaxLoads`, `MaxPipelines` and `MaxInputs`
appear in guards only.

`MCTaskControl_two.cfg` uses the constraint `NoDataRace`: it leaves out the states in
which one client appends to `worker_threads_` while another iterates over it, where the
behaviour of the C++ program is undefined.

**Fairness** is weak fairness of each thread, which the scheduler of the
operating system gives to a thread that is ready to run.  For `EdgeQueue` it
includes the return of a timed wait.  For `InferStage` it includes the passing of
the deadline and the ageing of entries (the clock), and assumes that calls of the
backend return.  For the sources it is the decode thread (a back-off ends, an open
or a read returns because FFmpeg's interrupt callback bounds them) and the join;
for DVPP also that threads of the driver answer or discard each packet, which
`aclvdecDestroyChannel` waits for, as they do from CANN 7 on (for CANN 6 see section
5); for the publishers their threads and the timed
wait of Kafka.  `services` assumes none.  No fairness is assumed of new frames, of
clients, or of the mutual order of threads; nothing is strongly fair.

**Deadlock** is checked where the system always has a step.  The other
configurations say `CHECK_DEADLOCK FALSE` because a bounded run ends: all runs
used up, all frames sent, or nothing left to fail.


## 4. What is proved

38 theorems in eight modules.  They hold for every value of the constants that
satisfies the named assumptions of the modules: positive capacities, batch sizes
and thresholds (`CapacitiesAssumption`, `StageAssumption`, `SourceAssumption`,
`DvppAssumption`, `BackendAssumption`, `SahiAssumption`, `ArchiveAssumption`), edges
that join nodes (`GraphAssumption`), a YAML whose tasks refer to its own sources and
pipelines (`BaseAssumption`), configurations whose sections are finite lists
(`ConfigsAssumption`), and names that do not clash (`ProcAssumption`).  TLC
evaluates all of them on the runs.  A theorem that needs more says so in its own
ASSUME, and the reason is given here.  None uses fairness: where a module's `Spec`
has it, the proof drops it, and the other modules are taken as `Init /\ [][Next]_vars`.

* **`EdgeQueueProofs`**: `EdgeQueueBounded`, `EdgeQueueFifo`,
  `EdgeQueueStopIsFirm`, `EdgeQueueAcceptedOnce`, for any number of threads,
  capacity and policy, and from them `EdgeQueueImplementsChannel`: the initial state
  maps to one of `BoundedChannel`, and every step to one of its steps or a stutter.
  The bound is inductive only with what a waiting producer may do: it re-tests the
  deque when it returns.  That an event enters once needs that numbers still to be
  pushed, and those of waiting producers, differ from all accepted ones.
* **`GraphExecutorProofs`**, assuming one controlling thread
  (`Controllers = {main}`): `ReleaseWaitsForWorkers`, `SingleWorkerPerNode`,
  `StopLeavesNothing`, for every graph, policy and number of runs.  The
  invariant is the conjunction of `Shape` (what the controller's place says about
  its loop), `LiveIsKnown` (a live thread is in `worker_threads_`, so a join will
  wait for it), `OneWorkerPerNode` and `Progress` (in each place, which stages are
  up and which threads can be alive).  With two controllers the first theorem is
  false: a stop that overtakes a start joins nobody (section 5).
  `EventsStayInOrder` (`EdgeOrder`) and `EventsStayApart` (`DeliveredOnce`) also assume
  `SinglePath`: no edge is listed twice at its node, and a node that emits takes from one
  edge.  Where two paths meet before such a node, the two copies of an event arrive as
  the paths please, and the node passes on both.  The order is claimed for the edges
  above the stages that answer from threads of their own, which complete out of order
  (`docs/iterations.md:492`); that an edge hands over nothing twice, for the edges below
  them too.  The invariant `Ordered` says that what a worker holds is newer than
  everything its node has pushed, because it came off the node's only edge after all of
  that did and no second worker of the node can hold an older one, and that what such a
  stage keeps is neither in the hands of one of its threads nor pushed.
    `ExecutorTyped` (`TypeOK`) needs neither, only
  finitely many controllers: with overlapping calls too, a worker is spawned for a run
  that was begun, its indices stay within its lists of edges, and it pushes events.
* **`TaskControlProofs`**, which reuses the executor's invariant.
  `RemovedTaskIsDead` holds for any number of clients that start, stop and remove
  one task at the same time: `HeldOrStopped` says that the executor is kept by the
  registry, by an operation under way, or stopped by whoever dropped the last
  reference.  `ControlImplementsExecutor` is the refinement: whatever the clients do, the
  executor's part of a behaviour is one of `GraphExecutor`.
* **`TaskRegistryProofs`**.  Assuming that the YAML defines nothing
  (`Base = NoConfig`): `ReferencesStayIntact`, `RecordIsComplete`,
  `ExecutorsMatchTasks`, `IdsAreUnique`.  The invariant says that the delta is a
  good state (each id at most once, tasks refer to recorded sources and
  pipelines), that the configuration *is* what the delta adds, that the file is
  torn or a good state, and that entries match tasks.  The file has to be part of
  it: a restart makes it the state.  With items in the YAML all four are false
  (an update of a YAML item is not recorded, section 5).  What remains true with any
  YAML is `RestartKeepsIds`: the ids that a restart from the state in memory would
  configure are those that are configured, though not their contents (`IdsInv`; of
  the file it needs only that it is some state or torn, since Boot makes both
  the configuration and the state from it).  `RegistryTyped`
  (`TypeOK`) holds for any YAML.
* **`InferStageProofs`**: `TypeCorrect`, `StopIsClean` and `EmittedAtMostOnce` without
  any assumption beyond the module's, and `ResultsMeetTheirFrames` and
  `NoResultBeforeRecord` assuming that no stream reconnects (`MaxConn = 0`; the first
  of them is refuted otherwise by `infer_reconnect`).
  `StopIsClean` rests on `Phases`, which says for every place of start() and stop()
  which threads can still run and which containers can still be filled.
  `ResultsMeetTheirFrames` rests on `Matching`: batches under way are not empty, a
  publishing worker is at a frame of its batch, entries are filed under the key of
  their frame and are taken out by it, and so every emitted pair has equal keys;
  without reconnects, equal keys are equal frames.
  `EmittedAtMostOnce` follows the *event* of a frame: it is in one place only, among
  `pending_events_`, the batch of a sender, the in-flight map, a worker's hand and
  what was emitted (`OnePlace`), and every move takes it out of the old one.
  `NoResultBeforeRecord` follows the *result* that is due for it, which is a second
  thing in another place: the batch is recorded before it is handed on, and while
  the result is due its entry can only have been swept, replaced by another batch or
  cleared by stop() (`Awaited`).
* **`EndpointsProofs`**.  *Publishers*: `RedisSendsAll`, from the balance that what
  the queue took is what was sent, is queued, and is in the thread's hand;
  `GrpcWritesToServed`, because the calls publish() goes through are listed, and
  listed ones are served.  *DVPP*: `NoSlotLeaks`, from
  `Account` (the slots in use of the current pool are those with the hardware, those
  it will not answer for, and those of frames downstream, and no slot is two of these) and `Drainage` (in which places of the
  decode thread a channel exists and a slot is in use); frames of an earlier
  connection, those of callbacks that come after a failed destruction too (`LateShape`),
  are told apart by its number.  *Sources*: `HealthIsTrue`, for stages
  that share their source with nobody, as the property itself says; `Truthful` says for each
  place of the decoder what the registry can report, the back-off included, and that a
  stream about to be opened is called STREAMING only if it is a file that loops or is
  being stopped.
* **`ServicesProofs`**.  `ShutdownIsSafe`: `Tracked` says that a client thread that
  exists is in the server's list, so that the join that precedes destruction waits for
  it, and `Intact` which objects are left in each phase.  `OutputWholeOrGone`: while an output
  is being opened, what it holds is a prefix of the parts in the order of opening; each
  of the clean-ups lists every handle that can be set where it is called (`Frees`),
  before those it was made on.
  `RetentionIsKept`: the collector's cutoff is at most the present minus the age,
  and time only grows, so what it judged expired stays expired during its walk; and
  a frame is in the directories of its own minute.  `MergeExact`, assuming that
  results have different keys (`KeysDiffer`: the code looks them up by stream and
  frame number, which repeat after a reconnect): a result that was routed waits or is
  published and never both, with answers to its own crops.  `TilesAlwaysCover`, for any width, stride and cap, assuming
  that the overlap is not negative: the code does not reject a negative ratio
  (`SahiConfig`), and with one the stride exceeds the tile.  `MergedWholeOnce`, reconnects
  included: an entry has answers to tiles of frames with its number that are not on
  their way any more, and no answer is in two results, or in one and in an entry; with
  one frame of a number, the answers counted are those to all its tiles.  `VerdictAlwaysRight`: the search for a cycle, on every graph.  `Searched`
  says of some set of nodes that they are the visited ones, ranked so that each edge
  into one of them leads forward, and that the counts kept for the others are their
  edges from nodes not visited.  When nothing is ready, the ranks are an order of the
  whole graph, or else no order exists: of the nodes left, the first in it would have
  no edge from another one left, and be ready.  Models of the repository enter with the
  cascades and devices their files name.
* **`ModelsProofs`**.  `UsedStaysAlive` and `AlwaysServed`, for any number of managers,
  models, streams and pipelines: a listed pipeline is whole (`Whole`), one that is not
  listed is being taken down by exactly one manager (`OneOwner`), and what that one
  has passed is joined (`Joined`), in the order of stopPipeline_unlocked or, in a manager
  that is being destroyed, of the members.  In that second order a thread keeps its own
  object and the scheduler its group, but the workers of a cascade lose what they call:
  `UsedIsAlive` leaves that out (`closing`), and section 5 says more.
  `CallsStayIsolated`, for any pool and set of compiled batch sizes: an operation
  queued on a stream carries the call it was queued by; `Flight` says, for each place
  of infer(), which operations of the call are still queued in front of the one that
  reads, so that the rows handed back were written for this call although other
  calls' remains are on the device.  The one thing it cannot exclude is that a copy which
  outlived its call came down on the pictures of this one (`intact`, section 5).

Only model-checked or left open:

* everything under fairness (`PushTerminates`, `OperationsReturn`, `StopReturns`,
  `PendingDrains`, `InflightDrains`, `StopJoinsDecoder`, `DvppStopReturns`,
  `FlushReturns`), because the prover handles neither fairness nor ENABLED;
* what the assumptions above exclude: several controllers of an executor, YAML items,
  reconnects (there the runs show what holds and what does not).


## 5. Where the code and its documents disagree

5.1 and 5.2 are runs in which TLC finds the stated property violated;
`PROJECT.json` quotes the statement.

1. **Results and frames after a reconnect** (`infer_reconnect`).  Frame numbers
   start again from 0, and a result that was under way is attached to the new
   frame of the same number.
2. **DVPP frames that outlive their pool** (`dvpp_frame_memory`).  `Types.h:93` says
   that `frame_ref` keeps the buffer alive.  The buffer belongs to a pool that the
   decoder destroys at the end of a connection, with frames still downstream.

Seen while modelling, without a run of their own:

* **Task control.**  `start` and `stop` of one task by two clients: stop() finds
  `running_` set, joins no thread because none has been spawned, and releases
  stages while start() goes on (`GraphExecutor.cpp:79`: "Safe to release stage
  resources now that no worker thread is running.").  TLC shows it with
  `ProcessOnlyWhileHeld` as an invariant of `MCTaskControl_two.cfg`.  For the same reason
  the state that list_tasks reports may be set by a start after the stop that really
  came last, and a task may be removed whose threads another client is just starting:
  neither is claimed.
* `updatePipeline` and `updateTask` of items from the YAML change the
  configuration and not the delta; after a restart the old item is back.
* A save is not atomic when the write fails: `RuntimeState.cpp:289` does not test
  the stream before it renames.
* `addTask` tests for a duplicate among entries only.  A YAML task that could
  not be built at start has no entry, and a second task with its id is accepted
  (`TaskManager.cpp:467`; `ITaskManager.h:84`: "all return false on conflict").
* `unloadModel` says "Check no running task uses this model (via pipeline infer.engine
  node)." (`TaskManager.cpp:509`) and looks at the first such node of a pipeline only
  (`:516`, `findInferModelId`): the model of a second one is unloaded while its task
  runs.  `registry_fresh` has such pipelines.
* `BatchPolicy::current_max` is lowered under memory pressure and reported, but
  no batch is ever cut to it (`InferWorker.cpp:279`; `BatchPolicy.h:15`:
  "current allowed maximum batch size").
* A fault of type OOM goes through recovery like every other and its batch is
  lost (`InferWorker.cpp:288`; `InferWorker.h:34`: "same as pressure (engine still
  alive)").
* `InferEngineWorkerStage.h:84` says that entries are never evicted early; a
  recovery may take 1 + 2 + 4 s, longer than `kInflightStaleMs`, while the next
  batch waits in the queue.
* **Cascade.**  Overdue results are looked for only when a worker has finished another
  frame, so a stream that goes quiet keeps its last one.
* **SAHI.**  `docs/iterations.md:814` says that the result of the complete frame is put
  out once all tiles have arrived.  Tiles are gathered under stream and number
  (`SahiMergeStage.cpp:100`), and the decoder starts the numbers again from 0 when it
  reconnects (`FFmpegDecoder.cpp:493`): tiles of two frames can meet in one entry, and
  the result is of neither.  `MergedOnce` says what remains true.
  `docs/iterations.md:815` says that on `stale_timeout_ms` the tiles that are there are
  put out by force; sweepStale (`SahiMergeStage.cpp:66`) logs and erases them, which is
  what `Sahi` does.
* **DVPP.**  "Destroy channel first so no more callbacks can fire before we reset the
  pool." and "destroyChannel() above has drained all pending callbacks."
  (`DVPPDecoder.cpp:845`, `:848`): a destruction that fails is only logged (`:200-203`),
  the clean-up goes on, and callbacks may still come (`LateCallback`).  On CANN 6,
  going by the comments (`:824-827`, `:844`), the thread that waits in destroyChannel
  is the one that would have to dispatch the callbacks waited for, so that stop() does
  not return, which `IStreamDecoder.h:19` says it does: with `Cann6 = TRUE`,
  `MCEndpoints.cfg` violates `DvppStopReturns`.
* **Sources.**  Failures counted before the first connection are kept when it
  succeeds (`StreamHealthRegistry.cpp:68`).  Two tasks with one source share a health
  entry (`SourceRtspStage.cpp:44`): the one that stops marks the other's stream.
* **Publishers.**  The destructor of the Redis publisher sets its flag without the
  mutex (`RedisPublisher.cpp:55`); a thread between its test and its wait misses the
  notification and is joined for ever.  flush() returns while the last result is
  still being sent.  Results still in the Kafka queue at destruction are dropped.
* **Archive.**  Two tasks with the same stream id write the same temporary name.
* **Video outputs.**  stop() notifies without the mutex (`DrawAndStreamStage.cpp:111`),
  with the same lost wakeup; ffplay resets its back-off as soon as it is launched;
  a picture whose encoding timed out is not given back.
* **Process.**  A client that says nothing keeps `UnixSocketServer::stop()` in its
  join; a start_task after stopAll() starts a task that runs until the manager is
  destroyed; a second line in the same packet waits for the next packet
  (`UnixSocketServer.cpp:104`); an exception in a client thread ends the process;
  `add_pipeline` does not go through `validatePipelineGraphs`.
* **Backends.**  A loadModel that throws leaves its context, streams and pool
  behind, because unloadModel returns early without `loaded_`; the memory-pressure
  exception of the Ascend backend is not the one `InferWorker.cpp:277` catches; an
  Ascend time-out frees host memory that a queued copy still writes
  (`AscendBackend.cpp:362`), and the next call may have been given that memory for its
  pictures (`:297`): without its premise `intact`, `CallsIsolated` is violated; the ONNX backend takes batches of one and nothing clamps
  to it.  A second caller of `AscendProcessRuntime::acquire` returns before
  the first has finished initialising.
* **Model manager.**  "workers may call AttributePublisher::publish() right up to
  stop(), so they must not be destroyed before workers halt" (`ModelManager.h:86-89`).
  The manager has no destructor of its own: one that goes with pipelines loaded frees
  the members of each entry in the reverse of their order (`:40-52`), the publishers
  first.  Without `closing`, `UsedIsAlive` is violated.  During a swap two schedulers
  consume one buffer, which `FrameBuffer.h:9` calls "single-consumer", and a scheduler
  keeps a plain pointer to a buffer after the pool's lock (`BatchScheduler.cpp:85`); both
  are in the model (`PopFrame`), and nothing is claimed of the frames that come of it.
  `FrameBuffer.h:11` says that the oldest frame is dropped; push refuses the newest.


## 6. What is not modelled

* *Output decoders, CUDA kernels, drawing, the tracker's association*: arithmetic
  on tensors and boxes without control state.
* *Metrics and logging*: counters without influence on control.
* *Stage factory*: a table from types to constructors; that building a task may
  throw is in `TaskRegistry`.
* *Codecs, encoders, drivers, Redis and Kafka clients*: external; a call succeeds,
  fails, or answers later.
* *Text*: YAML, JSON and messages are the values they carry.
* *InferEngineStage*: a synchronous stage of the older path that `main` does not
  construct.
* *Go side-car and command line*: programs of their own that reach the service
  through the management socket only.


## 7. Plan

Done: edges with their abstract channel, executor, task lifecycle composed with the
executor, registry, infer stage, cascade, sources and both decoders, SAHI,
publishers, archive, video outputs, configuration, process lifecycle, backends and
the model manager; every safety property that a passing run checks is a theorem too.

The suite is kept to a dozen runs, one for each question; parts that share nothing
share a run.

Theorems worth having next:

1. What still holds where two paths of a graph meet: each event at most once per path.
2. For streams that reconnect: a result that goes to another frame at least has that
   frame's key, so streams never mix.

Models worth extending: the tracker's map of streams, several consumers of
`AscendProcessRuntime`, and `InferStage` between the SAHI stages.
