------------------------------ MODULE InferStage ------------------------------
(***************************************************************************)
(* The infer.engine stage: InferEngineWorkerStage with its InferWorkerGroup *)
(* of InferWorkers.                                                        *)
(*                                                                         *)
(* The node's graph thread calls process(), which gathers frames into a    *)
(* batch; a flush thread sends a batch that has waited too long and evicts *)
(* the entries whose result never came.  Whoever sends a batch first       *)
(* records its frames in inflight_ and then, without a lock, hands the     *)
(* batch to a worker's bounded queue.  A worker thread infers a batch and  *)
(* publishes one result per frame; onInferResult() finds the frame again   *)
(* by its key, the pair of stream_id and frame_seq, and emits it.          *)
(*                                                                         *)
(* GraphExecutor runs start(), onGraphExecutorDraining() and stop(), the   *)
(* last one only after the node's graph thread has been joined (theorem    *)
(* ReleaseWaitsForWorkers of GraphExecutorProofs).                         *)
(*                                                                         *)
(* Steady-clock time is two flags: the batch deadline has passed, and an   *)
(* entry is older than inflight_stale_.  The cascade is not modelled: a    *)
(* worker publishes every result itself.                                   *)
(***************************************************************************)
EXTENDS Integers, Sequences, Bags, FiniteSetsExt

CONSTANTS
    N,                 \* number of workers (models[].instance_count)
    Device,            \* worker -> its device_id
    Streams,           \* stream ids
    StreamDevice,      \* stream -> device its frames are on
    Memory,            \* "cpu", "gpu" or "ascend": where frames are
    BatchSize,         \* models[].batch_size
    KMaxQueueSize,     \* kMaxQueueSize of a worker (32 in the code)
    Faults,            \* GpuFaultTypes the backend may throw
    MaxTier,           \* BatchPolicy's largest current_max (16 in the code)
    RestoreThreshold,  \* kRestoreThreshold (120 in the code)
    MaxSeq,            \* bound: largest frame_seq of a connection
    MaxConn,           \* bound: number of reconnects of a stream
    MaxRuns            \* bound: number of start() calls

Workers == 0..N-1

ASSUME StageAssumption ==
    /\ N \in Nat \ {0}
    /\ Device \in [Workers -> Nat]
    /\ StreamDevice \in [Streams -> Nat]
    /\ Memory \in {"cpu", "gpu", "ascend"}
    /\ {BatchSize, KMaxQueueSize, MaxTier, RestoreThreshold} \subseteq Nat \ {0}
    /\ {MaxSeq, MaxConn, MaxRuns} \subseteq Nat

VARIABLES
    source,    \* per stream, the frame_seq and connection of its next frame
    pending,   \* pending_events_
    deadline,  \* now >= batch_deadline_
    sender,    \* graph thread and flush thread inside process() or flushLoop()
    inflight,  \* inflight_: key -> the frame and whether its entry is stale
    rr,        \* round_robin_idx_ modulo N
    queue,     \* queue_ of each worker
    state,     \* state_ of each worker
    loaded,    \* each backend has its model loaded
    stopFlag,  \* stop_flag_ of each worker
    policy,    \* batch_policy_ of each worker
    work,      \* where each worker thread is in workerLoop()
    draining,  \* draining_
    flushStop, \* flush_stop_
    ctl,       \* where GraphExecutor is between start() and the end of stop()
    runs,      \* number of start() calls
    emitted,   \* history: bag of <<frame, frame the result was inferred from>>
    gone,      \* history: frames whose entry was evicted, replaced or cleared
    orphans    \* history: frames whose result found no entry

stageVars  == <<pending, deadline, sender, inflight>>
groupVars  == <<rr, queue, state, loaded, stopFlag, policy, work>>
ctlVars    == <<draining, flushStop, ctl, runs>>
histVars   == <<emitted, gone, orphans>>
vars == <<source, stageVars, groupVars, ctlVars, histVars>>

\* A frame is told apart by the connection it was decoded on; the key the
\* stage looks it up by is not.
Frames == [stream : Streams, seq : 0..MaxSeq, conn : 0..MaxConn]
Keys   == Streams \X (0..MaxSeq)
Key(f) == <<f.stream, f.seq>>

Senders    == {"graph", "flush"}
Idle       == [pc |-> "idle", batch |-> <<>>, to |-> 0]
Off        == [pc |-> "off", batch |-> <<>>, at |-> 0, entry |-> <<>>, fault |-> "none"]
Wait       == [Off EXCEPT !.pc = "wait"]
FullPolicy == [max |-> MaxTier, streak |-> 0]

SenderRecords ==
    [pc : {"idle", "wait", "insert", "route", "push", "sweep"},
     batch : Seq(Frames), to : Workers]
WorkRecords ==
    [pc : {"off", "wait", "infer", "requeue", "recover", "publish", "emit"},
     batch : Seq(Frames), at : Nat, entry : Seq(Frames), fault : Faults \cup {"none"}]
CtlRecords ==
    [pc : {"stopped", "running", "failed", "draining", "joinFlush", "signal", "join"},
     w : 0..N]
Policies == [max : 1..MaxTier, streak : 0..RestoreThreshold-1]
Entries  == [frame : Frames, stale : BOOLEAN]

TypeOK ==
    /\ source \in [Streams -> [seq : 0..MaxSeq+1, conn : 0..MaxConn]]
    /\ pending \in Seq(Frames)
    /\ deadline \in BOOLEAN
    /\ sender \in [Senders -> SenderRecords]
    /\ DOMAIN inflight \subseteq Keys
    /\ inflight \in [DOMAIN inflight -> Entries]
    /\ rr \in Workers
    /\ queue \in [Workers -> Seq(Seq(Frames))]
    /\ state \in [Workers -> {"RUNNING", "RECOVERING", "STOPPED"}]
    /\ loaded \in [Workers -> BOOLEAN]
    /\ stopFlag \in [Workers -> BOOLEAN]
    /\ policy \in [Workers -> Policies]
    /\ work \in [Workers -> WorkRecords]
    /\ draining \in BOOLEAN
    /\ flushStop \in BOOLEAN
    /\ ctl \in CtlRecords
    /\ runs \in 0..MaxRuns

Init ==
    /\ source = [s \in Streams |-> [seq |-> 0, conn |-> 0]]
    /\ pending = <<>>
    /\ deadline = FALSE
    /\ sender = [p \in Senders |-> Idle]
    /\ inflight = <<>>
    /\ rr = 0
    /\ queue = [w \in Workers |-> <<>>]
    /\ state = [w \in Workers |-> "RUNNING"]
    /\ loaded = [w \in Workers |-> FALSE]
    /\ stopFlag = [w \in Workers |-> FALSE]
    /\ policy = [w \in Workers |-> FullPolicy]
    /\ work = [w \in Workers |-> Off]
    /\ draining = FALSE
    /\ flushStop = FALSE
    /\ ctl = [pc |-> "stopped", w |-> 0]
    /\ runs = 0
    /\ emitted = EmptyBag
    /\ gone = {}
    /\ orphans = {}

-----------------------------------------------------------------------------
(* Gathering frames and sending batches. *)

MaxPending == 2 * Max({2, BatchSize})

\* std::deque push_back under the bound of max_pending_.
AddPending(f) ==
    Append(IF Len(pending) >= MaxPending THEN Tail(pending) ELSE pending, f)

\* extractBatch: p hands over the front of q, and the deadline is renewed.
ExtractBatch(p, q) ==
    LET n == Min({Len(q), BatchSize})
    IN  /\ pending' = SubSeq(q, n + 1, Len(q))
        /\ sender' = [sender EXCEPT ![p] =
                         [pc |-> "insert", batch |-> SubSeq(q, 1, n), to |-> 0]]
        /\ deadline' = FALSE

\* The critical section of process(), with q what pending_events_ has become.
Gather(q) ==
    \/ /\ q # <<>>
       /\ Len(q) >= BatchSize \/ deadline
       /\ ExtractBatch("graph", q)
    \/ /\ q = <<>> \/ (Len(q) < BatchSize /\ ~deadline)
       /\ pending' = q
       /\ UNCHANGED <<deadline, sender>>

GraphThreadRuns == ctl.pc \in {"running", "draining"} /\ sender["graph"].pc = "idle"

\* process() of an event that carries the next frame of stream s.
ProcessFrame(s) ==
    /\ GraphThreadRuns
    /\ source[s].seq <= MaxSeq
    /\ Gather(AddPending([stream |-> s, seq |-> source[s].seq, conn |-> source[s].conn]))
    /\ source' = [source EXCEPT ![s].seq = @ + 1]
    /\ UNCHANGED <<inflight, groupVars, ctlVars, histVars>>

\* process() of an event without a frame: it may still send a batch.
ProcessNoFrame ==
    /\ GraphThreadRuns
    /\ Gather(pending)
    /\ UNCHANGED <<source, inflight, groupVars, ctlVars, histVars>>

\* Mutants: the flush thread copies the batch but leaves it in the deque; it
\* never looks at the deadline; it goes back to sleep without the sweep.
FlushWakeCopies ==
    /\ sender["flush"].pc = "wait" /\ ~flushStop
    /\ pending # <<>> /\ deadline
    /\ sender' = [sender EXCEPT !["flush"] =
                     [pc |-> "insert", batch |-> pending, to |-> 0]]
    /\ deadline' = FALSE
    /\ UNCHANGED <<source, pending, inflight, groupVars, ctlVars, histVars>>

FlushWakeNoTimer ==
    /\ sender["flush"].pc = "wait"
    /\ sender' = [sender EXCEPT !["flush"] =
                     IF flushStop THEN Idle ELSE [@ EXCEPT !.pc = "sweep"]]
    /\ UNCHANGED <<source, pending, deadline, inflight, groupVars, ctlVars, histVars>>

FlushWakeOnTraffic ==
    /\ sender["flush"].pc = "wait"
    /\ \/ /\ flushStop
          /\ sender' = [sender EXCEPT !["flush"] = Idle]
          /\ UNCHANGED <<pending, deadline>>
       \/ /\ ~flushStop
          /\ pending # <<>> /\ deadline
          /\ ExtractBatch("flush", pending)
    /\ UNCHANGED <<source, inflight, groupVars, ctlVars, histVars>>

\* One turn of flushLoop() up to the unlock of pending_mutex_.
FlushWake ==
    /\ sender["flush"].pc = "wait"
    /\ \/ /\ flushStop
          /\ sender' = [sender EXCEPT !["flush"] = Idle]
          /\ UNCHANGED <<pending, deadline>>
       \/ /\ ~flushStop
          /\ pending # <<>> /\ deadline
          /\ ExtractBatch("flush", pending)
       \/ /\ ~flushStop
          /\ pending = <<>> \/ ~deadline
          /\ sender' = [sender EXCEPT !["flush"].pc = "sweep"]
          /\ UNCHANGED <<pending, deadline>>
    /\ UNCHANGED <<source, inflight, groupVars, ctlVars, histVars>>

BatchFrames(b) == {b[i] : i \in 1..Len(b)}

\* Mutants: every entry gets the batch's last event; the map is replaced.
InsertInflightLastEvent(p) ==
    LET b == sender[p].batch
        new == {Key(f) : f \in BatchFrames(b)}
    IN  /\ sender[p].pc = "insert"
        /\ inflight' = [k \in new \cup DOMAIN inflight |->
               IF k \in new THEN [frame |-> b[Len(b)], stale |-> FALSE] ELSE inflight[k]]
        /\ sender' = [sender EXCEPT ![p].pc = "route"]
        /\ UNCHANGED <<source, pending, deadline, groupVars, ctlVars, histVars>>

InsertInflightReplaces(p) ==
    LET b == sender[p].batch
    IN  /\ sender[p].pc = "insert"
        /\ inflight' = [k \in {Key(f) : f \in BatchFrames(b)} |->
               [frame |-> CHOOSE f \in BatchFrames(b) : Key(f) = k, stale |-> FALSE]]
        /\ sender' = [sender EXCEPT ![p].pc = "route"]
        /\ UNCHANGED <<source, pending, deadline, groupVars, ctlVars, histVars>>

\* flushToWorkers under inflight_mutex_: the last frame of a key wins.
InsertInflight(p) ==
    LET b == sender[p].batch
        last(k) == b[Max({i \in 1..Len(b) : Key(b[i]) = k})]
        new == {Key(f) : f \in BatchFrames(b)}
    IN  /\ sender[p].pc = "insert"
        /\ inflight' = [k \in new \cup DOMAIN inflight |->
               IF k \in new THEN [frame |-> last(k), stale |-> FALSE] ELSE inflight[k]]
        /\ gone' = gone \cup {inflight[k].frame : k \in new \cap DOMAIN inflight}
        /\ sender' = [sender EXCEPT ![p].pc = "route"]
        /\ UNCHANGED <<source, pending, deadline, groupVars, ctlVars, emitted, orphans>>

\* What p does once flushToWorkers returns.
Sent(p) == [Idle EXCEPT !.pc = IF p = "flush" THEN "sweep" ELSE "idle"]

\* InferWorkerGroup::enqueue: the first worker from rr on, in round-robin
\* order, among the ones a batch may go to; {} when it is dropped.
RoundRobin(S) ==
    IF S = {} THEN {}
    ELSE {(rr + Min({i \in Workers : (rr + i) % N \in S})) % N}

Target(b) ==
    LET inState(s) == {w \in Workers : state[w] = s}
        near == {w \in inState("RUNNING") : Device[w] = StreamDevice[b[1].stream]}
    IN  RoundRobin(IF Memory = "ascend" THEN near
                   ELSE IF Memory = "gpu" /\ near # {} THEN near
                   ELSE IF inState("RUNNING") # {} THEN inState("RUNNING")
                   ELSE inState("RECOVERING"))

Route(p) ==
    /\ sender[p].pc = "route"
    /\ rr' = (rr + 1) % N
    /\ \/ \E w \in Target(sender[p].batch) :
              sender' = [sender EXCEPT ![p].pc = "push", ![p].to = w]
       \/ /\ Target(sender[p].batch) = {}
          /\ sender' = [sender EXCEPT ![p] = Sent(p)]
    /\ UNCHANGED <<source, pending, deadline, inflight, queue, state, loaded,
                   stopFlag, policy, work, ctlVars, histVars>>

\* InferWorker::enqueue: dropped when the worker is STOPPED or its queue full.
Enqueue(p) ==
    LET w == sender[p].to
    IN  /\ sender[p].pc = "push"
        /\ queue' = IF state[w] = "STOPPED" \/ Len(queue[w]) >= KMaxQueueSize
                    THEN queue
                    ELSE [queue EXCEPT ![w] = Append(@, sender[p].batch)]
        /\ sender' = [sender EXCEPT ![p] = Sent(p)]
        /\ UNCHANGED <<source, pending, deadline, inflight, rr, state, loaded,
                       stopFlag, policy, work, ctlVars, histVars>>

\* sweepStaleInflightLocked, at the end of every turn of flushLoop().
Sweep ==
    LET fresh == {k \in DOMAIN inflight : ~inflight[k].stale}
    IN  /\ sender["flush"].pc = "sweep"
        /\ inflight' = [k \in fresh |-> inflight[k]]
        /\ gone' = gone \cup {inflight[k].frame : k \in DOMAIN inflight \ fresh}
        /\ sender' = [sender EXCEPT !["flush"].pc = "wait"]
        /\ UNCHANGED <<source, pending, deadline, groupVars, ctlVars, emitted, orphans>>

\* The clock reaches batch_deadline_.
DeadlinePasses ==
    /\ ~deadline
    /\ deadline' = TRUE
    /\ UNCHANGED <<source, pending, sender, inflight, groupVars, ctlVars, histVars>>

\* inflight_stale_ goes by: what is in inflight_ now is old when next looked at.
EntriesAge ==
    /\ \E k \in DOMAIN inflight : ~inflight[k].stale
    /\ inflight' = [k \in DOMAIN inflight |-> [inflight[k] EXCEPT !.stale = TRUE]]
    /\ UNCHANGED <<source, pending, deadline, sender, groupVars, ctlVars, histVars>>

-----------------------------------------------------------------------------
(* A worker thread. *)

\* Mutant: stop_flag_ is only looked at by the wait.
LoopTopForever(w) == work' = [work EXCEPT ![w] = Wait]

\* The worker is done with its batch and is back at the loop's test.
LoopTop(w) == work' = [work EXCEPT ![w] = IF stopFlag[w] THEN Off ELSE Wait]

\* The wait returns with a batch, or it times out and finds stop_flag_ set.
Dequeue(w) ==
    /\ work[w].pc = "wait"
    /\ queue[w] # <<>>
    /\ work' = [work EXCEPT ![w].pc = "infer", ![w].batch = Head(queue[w])]
    /\ queue' = [queue EXCEPT ![w] = Tail(@)]
    /\ UNCHANGED <<source, stageVars, rr, state, loaded, stopFlag, policy, ctlVars, histVars>>

WorkerExits(w) ==
    /\ work[w].pc = "wait"
    /\ stopFlag[w]
    /\ work' = [work EXCEPT ![w] = Off]
    /\ UNCHANGED <<source, stageVars, rr, queue, state, loaded, stopFlag, policy,
                   ctlVars, histVars>>

\* backend_->infer and decoder_->decode succeed.
InferSucceeds(w) ==
    /\ work[w].pc = "infer"
    /\ loaded[w]
    /\ work' = [work EXCEPT ![w].pc = "publish", ![w].at = 1]
    /\ UNCHANGED <<source, stageVars, rr, queue, state, loaded, stopFlag, policy,
                   ctlVars, histVars>>

\* BatchPolicy::onOOM.
OnOOM(p) == [max |-> Max({1, p.max \div 2}), streak |-> 0]

\* BatchPolicy::onSuccess.
OnSuccess(p) ==
    IF p.streak + 1 >= RestoreThreshold
    THEN [max |-> Min({MaxTier, p.max * 2}), streak |-> 0]
    ELSE [p EXCEPT !.streak = @ + 1]

\* GpuMemoryPressureException: lower the tier, sleep, put the batch back.
MemoryPressure(w) ==
    /\ work[w].pc = "infer"
    /\ loaded[w]
    /\ policy' = [policy EXCEPT ![w] = OnOOM(@)]
    /\ work' = [work EXCEPT ![w].pc = "requeue"]
    /\ UNCHANGED <<source, stageVars, rr, queue, state, loaded, stopFlag, ctlVars, histVars>>

\* enqueueHead.
EnqueueHead(w) ==
    /\ work[w].pc = "requeue"
    /\ queue' = IF Len(queue[w]) >= KMaxQueueSize THEN queue
                ELSE [queue EXCEPT ![w] = <<work[w].batch>> \o @]
    /\ LoopTop(w)
    /\ UNCHANGED <<source, stageVars, rr, state, loaded, stopFlag, policy, ctlVars, histVars>>

\* GpuFaultException of fault_type t: recoverFromFault begins, whatever t is,
\* and the batch is lost.
GpuFault(w, t) ==
    /\ work[w].pc = "infer"
    /\ loaded[w]
    /\ state' = [state EXCEPT ![w] = "RECOVERING"]
    /\ work' = [work EXCEPT ![w] = [Off EXCEPT !.pc = "recover", !.fault = t]]
    /\ UNCHANGED <<source, stageVars, rr, queue, loaded, stopFlag, policy, ctlVars, histVars>>

\* Any other exception (a model that is not loaded, say), or a decode result of
\* the wrong size: the batch is lost.
InferThrows(w) ==
    /\ work[w].pc = "infer"
    /\ LoopTop(w)
    /\ UNCHANGED <<source, stageVars, rr, queue, state, loaded, stopFlag, policy,
                   ctlVars, histVars>>

Attempts == 3

\* One attempt of recoverFromFault to unload and load the model.
RecoverAttempt(w) ==
    /\ work[w].pc = "recover"
    /\ \/ /\ loaded' = [loaded EXCEPT ![w] = TRUE]
          /\ state' = [state EXCEPT ![w] = "RUNNING"]
          /\ LoopTop(w)
       \/ /\ loaded' = [loaded EXCEPT ![w] = FALSE]
          /\ work[w].at + 1 < Attempts
          /\ work' = [work EXCEPT ![w].at = @ + 1]
          /\ UNCHANGED state
       \/ /\ loaded' = [loaded EXCEPT ![w] = FALSE]
          /\ work[w].at + 1 >= Attempts
          /\ state' = [state EXCEPT ![w] = "STOPPED"]
          /\ LoopTop(w)
    /\ UNCHANGED <<source, stageVars, rr, queue, stopFlag, policy, ctlVars, histVars>>

\* The worker goes on to the batch's next frame, or finishes the batch.
NextResult(w) ==
    IF work[w].at < Len(work[w].batch)
    THEN /\ work' = [work EXCEPT ![w].pc = "publish", ![w].at = @ + 1, ![w].entry = <<>>]
         /\ UNCHANGED policy
    ELSE /\ LoopTop(w)
         /\ policy' = [policy EXCEPT ![w] = OnSuccess(@)]

\* onInferResult under inflight_mutex_.
TakeEntry(w) ==
    LET f == work[w].batch[work[w].at]
        k == Key(f)
    IN  /\ work[w].pc = "publish"
        /\ \/ /\ k \in DOMAIN inflight
              /\ inflight' = [j \in DOMAIN inflight \ {k} |-> inflight[j]]
              /\ work' = [work EXCEPT ![w].pc = "emit", ![w].entry = <<inflight[k].frame>>]
              /\ UNCHANGED <<policy, orphans>>
           \/ /\ k \notin DOMAIN inflight
              /\ orphans' = orphans \cup {f}
              /\ NextResult(w)
              /\ UNCHANGED <<inflight>>
        /\ UNCHANGED <<source, pending, deadline, sender, rr, queue, state, loaded,
                       stopFlag, ctlVars, emitted, gone>>

\* onInferResult after the unlock: emit, unless the graph is draining.
Emit(w) ==
    /\ work[w].pc = "emit"
    /\ emitted' = IF draining THEN emitted
                  ELSE emitted (+) SetToBag({<<work[w].entry[1], work[w].batch[work[w].at]>>})
    /\ NextResult(w)
    /\ UNCHANGED <<source, stageVars, rr, queue, state, loaded, stopFlag,
                   ctlVars, gone, orphans>>

-----------------------------------------------------------------------------
(* GraphExecutor and the stream source. *)

\* The model loads on the workers S; the ones that were started wait for work.
StartWorkers(S) ==
    /\ loaded' = [w \in Workers |-> w \in S \/ loaded[w]]
    /\ stopFlag' = [w \in Workers |-> w \notin S /\ stopFlag[w]]
    /\ work' = [w \in Workers |-> IF w \in S THEN Wait ELSE work[w]]
    /\ draining' = FALSE
    /\ flushStop' = FALSE
    /\ runs' = runs + 1

\* The source stages start again too: their frames are numbered from 0.
NewConnections ==
    IF runs = 0 THEN UNCHANGED source
    ELSE /\ \A s \in Streams : source[s].conn < MaxConn
         /\ source' = [s \in Streams |-> [seq |-> 0, conn |-> source[s].conn + 1]]

Start ==
    /\ ctl.pc = "stopped"
    /\ runs < MaxRuns
    /\ NewConnections
    /\ StartWorkers(Workers)
    /\ sender' = [sender EXCEPT !["flush"].pc = "wait"]
    /\ ctl' = [ctl EXCEPT !.pc = "running"]
    /\ UNCHANGED <<pending, deadline, inflight, rr, queue, state, policy, histVars>>

\* loadModel throws on worker v: start() is left there, with no flush thread.
StartThrows(v) ==
    /\ ctl.pc = "stopped"
    /\ runs < MaxRuns
    /\ NewConnections
    /\ StartWorkers(0..v-1)
    /\ ctl' = [ctl EXCEPT !.pc = "failed"]
    /\ UNCHANGED <<stageVars, rr, queue, state, policy, histVars>>

\* onGraphExecutorDraining(), from GraphExecutor::stop().
Drain ==
    /\ ctl.pc = "running"
    /\ draining' = TRUE
    /\ ctl' = [ctl EXCEPT !.pc = "draining"]
    /\ UNCHANGED <<source, stageVars, groupVars, flushStop, runs, histVars>>

\* The same after start() threw: the node's graph thread was never spawned.
AbandonStart ==
    /\ ctl.pc = "failed"
    /\ draining' = TRUE
    /\ flushStop' = TRUE
    /\ ctl' = [ctl EXCEPT !.pc = "joinFlush"]
    /\ UNCHANGED <<source, stageVars, groupVars, runs, histVars>>

\* The graph thread has been joined; stop() asks the flush thread to end.
StopFlush ==
    /\ ctl.pc = "draining"
    /\ sender["graph"].pc = "idle"
    /\ flushStop' = TRUE
    /\ ctl' = [ctl EXCEPT !.pc = "joinFlush"]
    /\ UNCHANGED <<source, stageVars, groupVars, draining, runs, histVars>>

\* Mutant: the flush thread is not joined.
ClearPendingEarly ==
    /\ ctl.pc = "joinFlush"
    /\ pending' = <<>>
    /\ ctl' = [pc |-> "signal", w |-> 0]
    /\ UNCHANGED <<source, deadline, sender, inflight, groupVars, draining, flushStop,
                   runs, histVars>>

\* The flush thread has been joined; pending_events_ is cleared.
ClearPending ==
    /\ ctl.pc = "joinFlush"
    /\ sender["flush"].pc = "idle"
    /\ pending' = <<>>
    /\ ctl' = [pc |-> "signal", w |-> 0]
    /\ UNCHANGED <<source, deadline, sender, inflight, groupVars, draining, flushStop,
                   runs, histVars>>

\* InferWorker::stop() of the workers, one after the other.
SignalWorker ==
    /\ ctl.pc = "signal"
    /\ ctl.w < N
    /\ stopFlag' = [stopFlag EXCEPT ![ctl.w] = TRUE]
    /\ ctl' = [ctl EXCEPT !.pc = "join"]
    /\ UNCHANGED <<source, stageVars, rr, queue, state, loaded, policy, work,
                   draining, flushStop, runs, histVars>>

JoinWorker ==
    /\ ctl.pc = "join"
    /\ ctl.w < N
    /\ work[ctl.w].pc = "off"
    /\ loaded' = [loaded EXCEPT ![ctl.w] = FALSE]
    /\ ctl' = [pc |-> "signal", w |-> ctl.w + 1]
    /\ UNCHANGED <<source, stageVars, rr, queue, state, stopFlag, policy, work,
                   draining, flushStop, runs, histVars>>

\* The end of stop(): inflight_ is cleared.
ClearInflight ==
    /\ ctl = [pc |-> "signal", w |-> N]
    /\ inflight' = <<>>
    /\ gone' = gone \cup {inflight[k].frame : k \in DOMAIN inflight}
    /\ ctl' = [pc |-> "stopped", w |-> 0]
    /\ UNCHANGED <<source, pending, deadline, sender, groupVars, draining, flushStop,
                   runs, emitted, orphans>>

\* The decoder opens the stream again: frame_seq_ starts from 0.
Reconnect(s) ==
    /\ ctl.pc = "running"
    /\ source[s].conn < MaxConn
    /\ source' = [source EXCEPT ![s] = [seq |-> 0, conn |-> @.conn + 1]]
    /\ UNCHANGED <<stageVars, groupVars, ctlVars, histVars>>

-----------------------------------------------------------------------------
Process == ProcessNoFrame \/ \E s \in Streams : ProcessFrame(s)

SendBatch(p) == InsertInflight(p) \/ Route(p) \/ Enqueue(p)

FlushLoop == FlushWake \/ SendBatch("flush") \/ Sweep

WorkerLoop(w) ==
    \/ Dequeue(w) \/ WorkerExits(w)
    \/ InferSucceeds(w) \/ MemoryPressure(w) \/ InferThrows(w)
    \/ \E t \in Faults : GpuFault(w, t)
    \/ EnqueueHead(w) \/ RecoverAttempt(w) \/ TakeEntry(w) \/ Emit(w)

Stop == StopFlush \/ ClearPending \/ SignalWorker \/ JoinWorker \/ ClearInflight

Next ==
    \/ Process
    \/ SendBatch("graph")
    \/ FlushLoop
    \/ \E w \in Workers : WorkerLoop(w)
    \/ DeadlinePasses
    \/ EntriesAge
    \/ Start
    \/ \E w \in Workers : StartThrows(w)
    \/ Drain
    \/ AbandonStart
    \/ Stop
    \/ \E s \in Streams : Reconnect(s)

\* Threads run, calls into the backend return, the clock advances; nothing
\* obliges a frame to come or the executor to start or stop.
Fairness ==
    /\ WF_vars(SendBatch("graph"))
    /\ WF_vars(FlushLoop)
    /\ \A w \in Workers : WF_vars(WorkerLoop(w))
    /\ WF_vars(DeadlinePasses)
    /\ WF_vars(EntriesAge)
    /\ WF_vars(Stop)

Spec == Init /\ [][Next]_vars
FairSpec == Spec /\ Fairness

-----------------------------------------------------------------------------
(* Properties. *)

\* Every event emitted carries the result inferred from its own frame, whatever
\* the order in which workers finish: the key (stream_id, frame_seq) identifies
\* the frame.
ResultMatchesFrame == \A p \in BagToSet(emitted) : p[1] = p[2]

\* A frame is emitted at most once, however its batch was sent, re-queued under
\* memory pressure or answered late.
EmittedOnce ==
    \A p, q \in BagToSet(emitted) : emitted[p] = 1 /\ (p[1] = q[1] => p = q)

\* onInferResult finds no entry only if the entry was evicted, replaced or
\* cleared: no worker is ever faster than the recording of the frame.
NoPrematureResult == orphans \subseteq gone

\* When stop() has returned no thread of the stage runs, no model is loaded and
\* neither pending_events_ nor inflight_ holds a frame.
StopLeavesNothing ==
    ctl.pc = "stopped" =>
        /\ pending = <<>> /\ DOMAIN inflight = {}
        /\ \A p \in Senders : sender[p].pc = "idle"
        /\ \A w \in Workers : work[w].pc = "off" /\ ~loaded[w]

\* No frame waits in pending_events_ for ever, even if no other frame follows.
PendingDrains == (pending # <<>>) ~> (pending = <<>>)

\* No entry stays in inflight_ for ever, even if its batch was dropped and the
\* stream has gone quiet.
InflightDrains ==
    \A k \in Keys : (k \in DOMAIN inflight) ~> (k \notin DOMAIN inflight)

\* A stop of the executor gets through the stage: the flush thread and every
\* worker can be joined, also from recovery and from constant memory pressure.
StopReturns == (ctl.pc = "draining") ~> (ctl.pc = "stopped")
=============================================================================
