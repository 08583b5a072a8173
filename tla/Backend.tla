------------------------------- MODULE Backend -------------------------------
(***************************************************************************)
(* The inference backends behind IInferBackend: TRTBackend, AscendBackend  *)
(* and OnnxBackend with their buffer pools, as the one thread that owns a  *)
(* backend drives it (InferWorker): load, infer, unload and reload.        *)
(*                                                                         *)
(* The device is asynchronous.  A stream is a queue of operations that run *)
(* in order, whenever the device likes; two streams are ordered only by an *)
(* event.  A tensor is a row per picture; a row names the call and the     *)
(* picture it was computed from.                                           *)
(***************************************************************************)
EXTENDS Integers, Sequences, FiniteSets, SequencesExt, FiniteSetsExt

CONSTANTS
    PoolSlots,   \* buffer_pool_size
    Compiled,    \* the batch sizes of om_paths
    MaxBatch,    \* max_batch_size_, the largest of them
    MaxCalls,    \* bound: calls of infer()
    MaxLoads     \* bound: calls of loadModel()

ASSUME BackendAssumption ==
    /\ PoolSlots # {} /\ {"frame", "tmp"} \cap PoolSlots = {}
    /\ MaxBatch \in Compiled /\ Compiled \subseteq 1..MaxBatch

VARIABLES
    engine,      \* "trt" | "ascend" | "onnx"
    aipp,        \* aipp_enabled_: the Ascend model takes the frames of the decoder
    asyncRun,    \* TensorRT is a version with enqueueV3
    modelLoaded, \* loaded_
    owned,       \* handles the members of the backend refer to
    leaked,      \* handles no member refers to any more
    loads,       \* loadModel calls so far
    call,        \* number of the running or last infer()
    request,     \* its batch: [size, onDevice], and (history) whether host_input held
                 \*   its pictures and nothing else was written there: [intact]
    step,        \* "idle" | "acquired" | "packed" | "staged" | "executing" | "copying"
    slot,        \* its slot of the pool
    lent,        \* slots with in_use set
    staging,     \* host_input: the input of the Ascend host path, on its way to the slot
    tensorIn,    \* input memory: the slots, a DVPP frame's own, the D2D buffer "tmp"
    tensorOut,   \* output memory of the slots
    preStream,   \* preprocess_stream_
    inferStream, \* infer_stream_, AscendBackend::stream_
    event,       \* the last call whose preprocess_done_ has been reached
    host,        \* the output vector on the host
    answer       \* the last output handed to the worker: [call, size, rows, intact]

modelVars   == <<modelLoaded, owned, leaked, loads>>
callVarsB   == <<call, request, step, slot, lent, staging>>
deviceVars  == <<tensorIn, tensorOut, preStream, inferStream, event>>
backendVars == <<engine, aipp, asyncRun, modelVars, callVarsB, deviceVars, host, answer>>

Rows  == 1..MaxBatch
Blank == [r \in Rows |-> <<0, 0>>]
NoRequest == [size |-> 1, onDevice |-> FALSE, intact |-> TRUE]

BackendInit ==
    /\ engine \in {"trt", "ascend", "onnx"}
    /\ aipp \in BOOLEAN /\ (aipp => engine = "ascend")
    /\ asyncRun \in BOOLEAN /\ (~asyncRun => engine = "trt")
    /\ modelLoaded = FALSE /\ owned = {} /\ leaked = {}
    /\ loads = 0
    /\ call = 0 /\ request = NoRequest
    /\ step = "idle" /\ slot = "tmp" /\ lent = {} /\ staging = Blank
    /\ tensorIn = [s \in PoolSlots \cup {"frame", "tmp"} |-> Blank]
    /\ tensorOut = [s \in PoolSlots |-> Blank]
    /\ preStream = <<>> /\ inferStream = <<>> /\ event = 0
    /\ host = Blank
    /\ answer = [call |-> 0, size |-> 0, rows |-> <<>>, intact |-> TRUE]

-----------------------------------------------------------------------------
(* Loading.  Members that own their object release it when they are        *)
(* replaced; the other handles are plain pointers.                         *)

TrtHandles    == <<"engine", "context", "buffers", "preStream", "inferStream", "event">>
AscendHandles == <<"runtime", "context", "stream", "models", "buffers">>
OnnxHandles   == <<"session", "names">>
Owning == {"engine", "session", "names"} \cup IF engine = "trt" THEN {"context"} ELSE {}

Handles ==
    CASE engine = "trt"    -> TrtHandles
      [] engine = "ascend" -> AscendHandles
      [] engine = "onnx"   -> OnnxHandles

\* GpuBufferPool::init, AscendBufferPool::init: memory for every slot, none in use.
poolInit == lent' = {} /\ tensorIn' = [s \in DOMAIN tensorIn |-> Blank]
                       /\ tensorOut' = [s \in PoolSlots |-> Blank]

\* loadModel overwrites what a failed load before it had got.
loadModel ==
    /\ step = "idle" /\ ~modelLoaded
    /\ loads < MaxLoads
    /\ loads' = loads + 1
    /\ leaked' = leaked \cup (owned \ Owning)
    /\ modelLoaded' = TRUE /\ owned' = ToSet(Handles)
    /\ poolInit
    /\ UNCHANGED <<engine, aipp, asyncRun, call, request, step, slot,
                   staging, preStream, inferStream, event, host, answer>>

\* A step of it throws; what it got before stays, and loaded_ is still false.
loadModelThrows ==
    /\ step = "idle" /\ ~modelLoaded
    /\ loads < MaxLoads
    /\ loads' = loads + 1
    /\ leaked' = leaked \cup (owned \ Owning)
    /\ \E n \in 0..Len(Handles) : owned' = ToSet(SubSeq(Handles, 1, n))
    /\ UNCHANGED <<engine, aipp, asyncRun, modelLoaded, callVarsB, deviceVars, host, answer>>

\* What the three unloadModel give back.
TrtReleased    == {"event", "preStream", "inferStream", "buffers", "context", "engine"}
AscendReleased == {"buffers", "models", "stream", "context", "runtime"}
OnnxReleased   == {"session", "names"}
Released ==
    CASE engine = "trt"    -> TrtReleased
      [] engine = "ascend" -> AscendReleased
      [] engine = "onnx"   -> OnnxReleased

\* GpuBufferPool::reset, AscendBufferPool::reset: the slots go, in use or not.
poolReset == lent' = {}

\* unloadModel: nothing at all unless loaded.  Freeing CUDA memory first waits
\* for the device.
unloadModel ==
    /\ step = "idle" /\ modelLoaded
    /\ modelLoaded' = FALSE
    /\ owned' = owned \ Released
    /\ poolReset
    /\ preStream' = <<>> /\ inferStream' = <<>>
    /\ UNCHANGED <<engine, aipp, asyncRun, leaked, loads, call, request, step, slot,
                   staging, tensorIn, tensorOut, event, host, answer>>

-----------------------------------------------------------------------------
(* infer().                                                                *)

\* The smallest compiled batch that holds the request; TensorRT and ONNX
\* run it as it is.
modelRows == IF engine = "ascend" THEN Min({b \in Compiled : b >= request.size})
             ELSE request.size

\* The host writes the pictures it has and leaves the rows behind them; the
\* Ascend paths write a whole batch, padded with zeros.
preprocessCPU(n, before) == [r \in Rows |-> IF r <= n THEN <<call, r>> ELSE before[r]]
padded(n) == preprocessCPU(n, Blank)

\* GpuBufferPool::acquire, AscendBufferPool::acquire: any free slot, a weak
\* compare-and-swap may pass one over.
acquireSlot(s) == s \notin lent /\ lent' = lent \cup {s}
releaseSlot == lent' = lent \ {slot}

\* The call is over: its locals are gone, the slot goes back, the D2D buffer
\* is freed.
CallOver ==
    /\ step' = "idle"
    /\ releaseSlot
    /\ request' = NoRequest /\ slot' = "tmp" /\ host' = Blank /\ staging' = Blank
    /\ tensorIn' = [tensorIn EXCEPT !["tmp"] = Blank, !["frame"] = Blank]
    /\ UNCHANGED <<engine, aipp, asyncRun, modelVars, call>>

\* A CUDA or ACL call fails, or an ACL stream is not done in time: whatever
\* is queued stays queued.  SlotGuard or the catch block releases the slot.
Throw ==
    /\ step # "idle"
    /\ CallOver
    /\ UNCHANGED <<tensorOut, preStream, inferStream, event, answer>>

\* infer() up to the slot.  A batch above the largest, memory pressure and a
\* pool that stays exhausted for 5 ms throw before anything has changed.
Infer(size, onDevice) ==
    /\ step = "idle" /\ modelLoaded /\ engine # "onnx"
    /\ call < MaxCalls
    /\ call' = call + 1
    /\ request' = [size |-> size, onDevice |-> onDevice, intact |-> TRUE]
    /\ step' = "acquired"
    /\ \E s \in PoolSlots : acquireSlot(s) /\ slot' = s
    /\ UNCHANGED <<engine, aipp, asyncRun, modelVars, staging, deviceVars, host, answer>>

\* OnnxBackend::infer takes one picture at a time and is synchronous.
InferOnnx ==
    /\ step = "idle" /\ modelLoaded /\ engine = "onnx"
    /\ call < MaxCalls
    /\ call' = call + 1
    /\ answer' = [call |-> call', size |-> 1, rows |-> <<<<call', 1>>>>, intact |-> TRUE]
    /\ UNCHANGED <<engine, aipp, asyncRun, modelVars, request, step, slot, lent, staging, deviceVars, host>>

\* What the operators below leave alone.
ownRest  == <<engine, aipp, asyncRun, modelVars, call, slot, lent, answer>>
callRest == <<ownRest, request, staging>>

\* preprocessGPU: a kernel per frame, of which the launch of any may fail,
\* then the event.
kernel(r) == [op |-> "preprocess", slot |-> slot, row |-> r, value |-> <<call, r>>]
PreprocessGPU ==
    /\ engine = "trt" /\ request.onDevice /\ step = "acquired"
    /\ \/ /\ preStream' = preStream \o [r \in 1..request.size |-> kernel(r)]
                          \o <<[op |-> "record", call |-> call]>>
          /\ step' = "staged"
          /\ UNCHANGED <<callRest, tensorIn, tensorOut, inferStream, event, host>>
       \/ \E k \in 1..request.size :
            /\ preStream' = preStream \o [r \in 1..k |-> kernel(r)]
            /\ CallOver
            /\ UNCHANGED <<tensorOut, inferStream, event, answer>>

wait    == [op |-> "wait", call |-> call]
execute(from) == [op |-> "execute", slot |-> slot, from |-> from, rows |-> modelRows]
copyOut == [op |-> "copy", slot |-> slot, call |-> call]

\* Mutant: the second stream does not wait for the first.
InferGPUUnordered ==
    /\ engine = "trt" /\ request.onDevice /\ step = "staged" /\ asyncRun
    /\ inferStream' = inferStream \o <<execute(slot), copyOut>>
    /\ step' = "copying"
    /\ UNCHANGED <<callRest, tensorIn, tensorOut, preStream, event, host>>

\* inferGPU after the kernels: wait for the event, run, copy, all queued.
InferGPU ==
    /\ engine = "trt" /\ request.onDevice /\ step = "staged" /\ asyncRun
    /\ inferStream' = inferStream \o <<wait, execute(slot), copyOut>>
    /\ step' = "copying"
    /\ UNCHANGED <<callRest, tensorIn, tensorOut, preStream, event, host>>

\* Without enqueueV3: executeV2 runs on the default stream, behind all that is
\* queued on both, and is over when it returns; only the copy is queued.
InferGPUV2 ==
    /\ engine = "trt" /\ request.onDevice /\ step = "staged" /\ ~asyncRun
    /\ preStream = <<>> /\ inferStream = <<>>
    /\ tensorOut' = [tensorOut EXCEPT ![slot] = tensorIn[slot]]
    /\ inferStream' = <<copyOut>>
    /\ step' = "copying"
    /\ UNCHANGED <<callRest, tensorIn, preStream, event, host>>

\* The CPU path copies with cudaMemcpy, which waits for both streams.
StageCPU ==
    /\ engine = "trt" /\ ~request.onDevice /\ step = "acquired"
    /\ preStream = <<>> /\ inferStream = <<>>
    /\ tensorIn' = [tensorIn EXCEPT ![slot] = preprocessCPU(request.size, @)]
    /\ step' = "staged"
    /\ UNCHANGED <<callRest, tensorOut, preStream, inferStream, event, host>>

\* executeV2 and the copy back are synchronous.
ExecuteV2 ==
    /\ engine = "trt" /\ ~request.onDevice /\ step = "staged"
    /\ preStream = <<>> /\ inferStream = <<>>
    /\ tensorOut' = [tensorOut EXCEPT ![slot] = tensorIn[slot]]
    /\ host' = tensorOut'[slot]
    /\ step' = "copying"
    /\ UNCHANGED <<callRest, tensorIn, preStream, inferStream, event>>

\* The ways in of AscendBackend.  Frames of the decoder go to a model with
\* AIPP as they are (one frame, model of one) or through the concatenation
\* buffer; all else goes through the slot, filled from the host.
inputPtr == IF ~request.onDevice \/ ~aipp THEN slot
            ELSE IF modelRows = 1 THEN "frame" ELSE "tmp"

\* Path A.  The buffer is padded with zeros up to the model's batch.
StageAscend ==
    /\ engine = "ascend" /\ step = "acquired" /\ inputPtr # slot
    /\ tensorIn' = [tensorIn EXCEPT ![inputPtr] = padded(request.size)]
    /\ step' = "staged"
    /\ UNCHANGED <<callRest, tensorOut, preStream, inferStream, event, host>>

\* Paths B and C: host_input, zeros and the pictures.  A batch of the decoder
\* has none on the host; what is read then is undefined.
PackAscend ==
    /\ engine = "ascend" /\ step = "acquired" /\ inputPtr = slot
    /\ staging' = IF request.onDevice THEN Blank ELSE padded(request.size)
    /\ request' = [request EXCEPT !.intact = ~request.onDevice]
    /\ step' = "packed"
    /\ UNCHANGED <<ownRest, deviceVars, host>>

\* aclrtMemcpy to the slot, at once; it does not wait for the stream.
UploadAscend ==
    /\ step = "packed"
    /\ tensorIn' = [tensorIn EXCEPT ![slot] = staging]
    /\ step' = "staged"
    /\ UNCHANGED <<callRest, tensorOut, preStream, inferStream, event, host>>

\* aclmdlExecuteAsync.
ExecuteAscend ==
    /\ engine = "ascend" /\ step = "staged"
    /\ inferStream' = Append(inferStream, execute(inputPtr))
    /\ step' = "executing"
    /\ UNCHANGED <<callRest, tensorIn, tensorOut, preStream, event, host>>

\* The stream is synchronised in time; aclrtMemcpyAsync.
CopyAscend ==
    /\ engine = "ascend" /\ step = "executing" /\ inferStream = <<>>
    /\ inferStream' = <<copyOut>>
    /\ step' = "copying"
    /\ UNCHANGED <<callRest, tensorIn, tensorOut, preStream, event, host>>

\* The host has the output: the first rows of it, as many as were asked for.
Answer ==
    /\ step = "copying" /\ inferStream = <<>>
    /\ CallOver
    /\ answer' = [call |-> call, size |-> request.size,
                  rows |-> [r \in 1..request.size |-> host[r]], intact |-> request.intact]
    /\ UNCHANGED <<tensorOut, preStream, inferStream, event>>

\* TensorRT's watchdog looks at the clock when all is done, and may refuse it.
checkInferTimeout ==
    /\ engine = "trt" /\ step = "copying" /\ inferStream = <<>>
    /\ CallOver
    /\ UNCHANGED <<tensorOut, preStream, inferStream, event, answer>>

-----------------------------------------------------------------------------
(* The device.                                                             *)

ownDevRest == <<engine, aipp, asyncRun, modelVars, call, step, slot, lent, answer>>
deviceRest == <<ownDevRest, request, staging>>

Preprocess ==
    /\ preStream # <<>>
    /\ preStream' = Tail(preStream)
    /\ LET o == Head(preStream) IN
         IF o.op = "record"
         THEN event' = o.call /\ UNCHANGED tensorIn
         ELSE tensorIn' = [tensorIn EXCEPT ![o.slot][o.row] = o.value] /\ UNCHANGED event
    /\ UNCHANGED <<deviceRest, tensorOut, inferStream, host>>

\* A copy writes the host vector of its call.  When that call is over the vector
\* is freed memory, which host_input of the next call may have been given: its
\* pictures are overwritten with an output.
Lands(o) ==
    \/ /\ o.call = call /\ step # "idle"
       /\ host' = tensorOut[o.slot] /\ UNCHANGED <<request, staging>>
    \/ ~(o.call = call /\ step # "idle") /\ UNCHANGED <<host, request, staging>>
    \/ /\ o.call # call /\ step = "packed"
       /\ staging' = [r \in Rows |-> <<o.call, 0>>]
       /\ request' = [request EXCEPT !.intact = FALSE]
       /\ UNCHANGED host

Run ==
    /\ inferStream # <<>>
    /\ inferStream' = Tail(inferStream)
    /\ LET o == Head(inferStream) IN
         \/ o.op = "wait" /\ event >= o.call /\ UNCHANGED <<tensorOut, host, request, staging>>
         \/ /\ o.op = "execute"
            /\ tensorOut' = [tensorOut EXCEPT ![o.slot] =
                  [r \in Rows |-> IF r <= o.rows THEN tensorIn[o.from][r] ELSE tensorOut[o.slot][r]]]
            /\ UNCHANGED <<host, request, staging>>
         \/ o.op = "copy" /\ Lands(o) /\ UNCHANGED tensorOut
    /\ UNCHANGED <<ownDevRest, tensorIn, preStream, event>>

BackendNext ==
    \/ loadModel \/ loadModelThrows \/ unloadModel
    \/ \E size \in 1..MaxBatch, onDevice \in BOOLEAN : Infer(size, onDevice)
    \/ InferOnnx
    \/ PreprocessGPU \/ InferGPU \/ InferGPUV2 \/ StageCPU \/ ExecuteV2
    \/ StageAscend \/ PackAscend \/ UploadAscend \/ ExecuteAscend \/ CopyAscend
    \/ Answer \/ checkInferTimeout \/ Throw
    \/ Preprocess \/ Run

-----------------------------------------------------------------------------
\* Calls do not see each other, but for host_input.  What infer() hands back is
\* the inference of its own pictures, row by row, whatever earlier calls left
\* queued on the device or in the slots when they failed or ran out of time,
\* unless a copy left behind came down on the pictures before they were
\* uploaded, or there were none; and every way out of a call gives its slot
\* back, so that failures never wear the pool out.
CallsIsolated ==
    /\ answer.intact => answer.rows = [r \in 1..answer.size |-> <<answer.call, r>>]
    /\ step = "idle" => lent = {}
=============================================================================
