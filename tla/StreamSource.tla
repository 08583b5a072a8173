---------------------------- MODULE StreamSource ----------------------------
(***************************************************************************)
(* Source stages (source.rtsp, source.file), the FFmpegDecoder thread      *)
(* behind each of them, the process-wide StreamHealthRegistry it reports   *)
(* to, and the GpuDeviceAllocator that hardware decoding draws from.       *)
(*                                                                         *)
(* A stage's start and stop come from its executor, one at a time.  What   *)
(* FFmpeg does is a choice: an open or a read succeeds or not, and every   *)
(* blocking call returns, since the interrupt callback breaks it off at    *)
(* the deadline it was armed with.  Health is kept per source id; several  *)
(* stages may share one, each with a decoder of its own.                   *)
(***************************************************************************)
EXTENDS Integers, Sequences, FiniteSets

CONSTANTS
    Stages,
    SourceOf,           \* stage -> source id
    Kind,               \* stage -> "rtsp" | "file"
    Loop,               \* stage -> loop_file
    UseHwdec,           \* stage -> use_hwdec_ and an allocator is there
    UseDvpp,            \* stage -> use_ascend_dvpp_
    Devices,            \* CUDA device ids
    DegradedThreshold,
    MaxReconnectAttempts, \* 0: never give up
    SampleInterval,
    TimeBased,          \* stage -> sampling_mode is time_based
    MaxQueueSize,
    MaxSeq, MaxStarts, MaxOpens  \* bounds

ASSUME SourceAssumption ==
    /\ DegradedThreshold \in Nat \ {0}
    /\ MaxReconnectAttempts \in Nat
    /\ SampleInterval \in Nat \ {0}
    /\ MaxQueueSize \in Nat \ {0}
    /\ Devices \subseteq Nat /\ Devices # {}
    /\ Kind \in [Stages -> {"rtsp", "file"}]

VARIABLES
    up,        \* stage -> running_
    feeder,    \* stage -> which decoder it started: "none" | "ffmpeg" | "dvpp"
    device,    \* stage -> cuda_device_id_, meaningful while it holds one
    load,      \* device -> streams on it (GpuDeviceAllocator::devices_)
    decoder,   \* stage -> its thread: "off" | "begin" | "open" | "read" | "packet" | "backoff" | "leave" | "done"
    stopFlag,  \* stage -> stop_flag_
    frameSeq,  \* stage -> frame_seq_
    frames,    \* stage -> queue_, frame numbers only
    health,    \* source -> [state, failures]
    starts, opens  \* bounds

stageVars  == <<up, feeder, device, load>>
sourceVars == <<stageVars, decoder, stopFlag, frameSeq, frames, health, starts, opens>>

Sources == {SourceOf[s] : s \in Stages}

SourceInit ==
    /\ up = [s \in Stages |-> FALSE]
    /\ feeder = [s \in Stages |-> "none"]
    /\ device = [s \in Stages |-> 0]
    /\ load = [d \in Devices |-> 0]
    /\ decoder = [s \in Stages |-> "off"]
    /\ stopFlag = [s \in Stages |-> FALSE]
    /\ frameSeq = [s \in Stages |-> 0]
    /\ frames = [s \in Stages |-> <<>>]
    /\ health = [c \in Sources |-> [state |-> "STOPPED", failures |-> 0]]
    /\ starts = 0
    /\ opens = 0

-----------------------------------------------------------------------------
(* StreamHealthRegistry: what each report does to an entry.  FAILED is     *)
(* left by onStreamAdded only.                                             *)

onStreamAdded(h) == [state |-> "CONNECTING", failures |-> 0]

onStreamOpened(h) ==
    IF h.state = "CONNECTING" THEN [h EXCEPT !.state = "STREAMING"] ELSE h

onStreamDropped(h) ==
    IF h.state \in {"STREAMING", "CONNECTING"} THEN [h EXCEPT !.state = "RECONNECTING"] ELSE h

onReconnectFailed(h) ==
    IF h.state = "FAILED" THEN h
    ELSE LET n == h.failures + 1 IN
         [failures |-> n,
          state |-> CASE MaxReconnectAttempts > 0 /\ n >= MaxReconnectAttempts -> "FAILED"
                      [] n >= DegradedThreshold -> "DEGRADED"
                      [] OTHER -> h.state]

\* Mutant: only RECONNECTING is taken back to STREAMING.
ForgetsDegraded(h) ==
    IF h.state = "RECONNECTING" THEN [state |-> "STREAMING", failures |-> 0] ELSE h

onReconnectSucceeded(h) ==
    IF h.state = "FAILED" THEN h ELSE [state |-> "STREAMING", failures |-> 0]

onStreamRemoved(h) ==
    IF h.state = "FAILED" THEN h ELSE [h EXCEPT !.state = "STOPPED"]

\* getHealth(id).state
StateOf(s) == health[SourceOf[s]].state

\* s reports f(its entry).
Report(s, h) == health' = [health EXCEPT ![SourceOf[s]] = h]

Goto(s, p) == decoder' = [decoder EXCEPT ![s] = p]

-----------------------------------------------------------------------------
(* The stages, called by their executor.                                   *)

\* GpuDeviceAllocator::acquire: the first least loaded device.
Acquired == CHOOSE d \in Devices : \A e \in Devices :
                load[d] < load[e] \/ (load[d] = load[e] /\ d <= e)

\* decoder_.start with a device of its own when it decodes in hardware.
StartFFmpeg(s) ==
    /\ feeder' = [feeder EXCEPT ![s] = "ffmpeg"]
    /\ stopFlag' = [stopFlag EXCEPT ![s] = FALSE]
    /\ Goto(s, "begin")
    /\ IF UseHwdec[s]
       THEN /\ device' = [device EXCEPT ![s] = Acquired]
            /\ load' = [load EXCEPT ![Acquired] = @ + 1]
       ELSE UNCHANGED <<device, load>>

\* DVPPDecoder::start has answered and running() is TRUE; no device is taken.
StartDvpp(s) ==
    /\ UseDvpp[s]
    /\ feeder' = [feeder EXCEPT ![s] = "dvpp"]
    /\ UNCHANGED <<device, load, stopFlag, decoder>>

\* start(): a DVPP decoder that does not come up is dropped again and the
\* stage falls back to FFmpeg.
StageStart(s) ==
    /\ ~up[s] /\ feeder[s] = "none"
    /\ starts < MaxStarts
    /\ starts' = starts + 1
    /\ up' = [up EXCEPT ![s] = TRUE]
    /\ StartDvpp(s) \/ StartFFmpeg(s)
    /\ UNCHANGED <<frameSeq, frames, health, opens>>

\* stop() up to the join: running_ falls, the decoder is told to leave.
StageStop(s) ==
    /\ up[s]
    /\ up' = [up EXCEPT ![s] = FALSE]
    /\ stopFlag' = [stopFlag EXCEPT ![s] = feeder[s] = "ffmpeg"]
    /\ UNCHANGED <<feeder, device, load, decoder, frameSeq, frames, health, starts, opens>>

\* stop() from the join on.  A device is given back only by the stage that
\* took one: the DVPP path returns before it.
StageStopped(s) ==
    /\ ~up[s] /\ feeder[s] # "none"
    /\ feeder[s] = "ffmpeg" => decoder[s] = "done"
    /\ feeder' = [feeder EXCEPT ![s] = "none"]
    /\ Goto(s, "off")
    /\ load' = IF feeder[s] = "ffmpeg" /\ UseHwdec[s]
               THEN [load EXCEPT ![device[s]] = IF @ > 0 THEN @ - 1 ELSE 0]
               ELSE load
    /\ UNCHANGED <<up, device, stopFlag, frameSeq, frames, health, starts, opens>>

\* process(): the oldest frame goes to the stage's edges.
Process(s) ==
    /\ frames[s] # <<>>
    /\ frames' = [frames EXCEPT ![s] = Tail(@)]
    /\ UNCHANGED <<stageVars, decoder, stopFlag, frameSeq, health, starts, opens>>

-----------------------------------------------------------------------------
(* decodeLoop of stage s.                                                  *)

threadRest == <<stageVars, stopFlag, frames, starts>>

\* Mutant: the thread clears the flag when it begins, and with it a stop()
\* that came in between.
BeginClearsFlag(s) ==
    /\ decoder[s] = "begin"
    /\ Report(s, onStreamAdded(health[SourceOf[s]]))
    /\ stopFlag' = [stopFlag EXCEPT ![s] = FALSE]
    /\ Goto(s, "open")
    /\ UNCHANGED <<stageVars, frames, starts, frameSeq, opens>>

Begin(s) ==
    /\ decoder[s] = "begin"
    /\ Report(s, onStreamAdded(health[SourceOf[s]]))
    /\ Goto(s, "open")
    /\ UNCHANGED <<threadRest, frameSeq, opens>>

\* while (!stop_flag_), seen at the head of the loop or inside a back-off.
SeesStop(s) ==
    /\ decoder[s] \in {"open", "backoff"}
    /\ stopFlag[s]
    /\ Goto(s, "leave")
    /\ UNCHANGED <<threadRest, frameSeq, health, opens>>

\* openStream fails: a file is given up at once; a stream is counted and
\* tried again after a back-off, until the registry calls it FAILED.
OpenFails(s) ==
    /\ decoder[s] = "open" /\ ~stopFlag[s]
    /\ opens < MaxOpens /\ opens' = opens + 1
    /\ IF Kind[s] = "file"
       THEN Goto(s, "leave") /\ UNCHANGED health
       ELSE LET h == onReconnectFailed(health[SourceOf[s]]) IN
            /\ Report(s, h)
            /\ Goto(s, IF h.state = "FAILED" THEN "leave" ELSE "backoff")
    /\ UNCHANGED <<threadRest, frameSeq>>

\* openStream succeeds: the first open and a later one report differently;
\* frames are numbered from 0 again.
OpenSucceeds(s) ==
    /\ decoder[s] = "open" /\ ~stopFlag[s]
    /\ opens < MaxOpens /\ opens' = opens + 1
    /\ LET h == health[SourceOf[s]] IN
       Report(s, IF h.state = "CONNECTING" THEN onStreamOpened(h) ELSE onReconnectSucceeded(h))
    /\ frameSeq' = [frameSeq EXCEPT ![s] = 0]
    /\ Goto(s, "read")
    /\ UNCHANGED threadRest

\* The loop of readAndDecode tests stop_flag_, then blocks in av_read_frame.
ReadPacket(s) ==
    /\ decoder[s] = "read" /\ ~stopFlag[s]
    /\ Goto(s, "packet")
    /\ UNCHANGED <<threadRest, frameSeq, health, opens>>

\* shouldEmit: every SampleInterval-th frame, or the first one after a gap.
Emits(s) == IF TimeBased[s] THEN BOOLEAN ELSE {frameSeq[s] % SampleInterval = 0}

\* A packet yields a frame, or nothing.  The callback drops the oldest frame
\* when the stage's queue is full.
Decoded(s) ==
    /\ decoder[s] = "packet"
    /\ Goto(s, "read")
    /\ \/ /\ frameSeq[s] < MaxSeq
          /\ frameSeq' = [frameSeq EXCEPT ![s] = @ + 1]
          /\ \E emit \in Emits(s) :
               frames' = IF ~emit THEN frames
                         ELSE [frames EXCEPT ![s] =
                                 Append(IF Len(@) >= MaxQueueSize THEN Tail(@) ELSE @, frameSeq[s])]
       \/ UNCHANGED <<frameSeq, frames>>
    /\ UNCHANGED <<stageVars, stopFlag, starts, health, opens>>

\* readAndDecode returns, with reason, and closeStream follows.  Files end
\* here unless they loop; a stream that was not stopped has been dropped.
ReadEnds(s, reason) ==
    /\ \/ decoder[s] = "packet" /\ reason \in {"EndOfFile", "Error"}
       \/ decoder[s] = "read" /\ stopFlag[s] /\ reason = "FramesOk"
    /\ CASE Kind[s] = "file" ->
              /\ Goto(s, IF reason = "EndOfFile" /\ Loop[s] /\ ~stopFlag[s]
                         THEN "open" ELSE "leave")
              /\ UNCHANGED health
         [] Kind[s] = "rtsp" /\ ~stopFlag[s] ->
              /\ Report(s, onStreamDropped(health[SourceOf[s]]))
              /\ Goto(s, "backoff")
         [] Kind[s] = "rtsp" /\ stopFlag[s] ->
              Goto(s, "open") /\ UNCHANGED health
    /\ UNCHANGED <<threadRest, frameSeq, opens>>

\* waitForOrStop reaches its deadline.
BackoffEnds(s) ==
    /\ decoder[s] = "backoff" /\ ~stopFlag[s]
    /\ Goto(s, "open")
    /\ UNCHANGED <<threadRest, frameSeq, health, opens>>

\* The thread's last step.
Leave(s) ==
    /\ decoder[s] = "leave"
    /\ Report(s, onStreamRemoved(health[SourceOf[s]]))
    /\ Goto(s, "done")
    /\ UNCHANGED <<threadRest, frameSeq, opens>>

DecoderStep(s) ==
    \/ Begin(s) \/ SeesStop(s) \/ OpenFails(s) \/ OpenSucceeds(s) \/ ReadPacket(s)
    \/ Decoded(s) \/ BackoffEnds(s) \/ Leave(s)
    \/ \E r \in {"EndOfFile", "Error", "FramesOk"} : ReadEnds(s, r)

SourceNext == \E s \in Stages :
    StageStart(s) \/ StageStop(s) \/ StageStopped(s) \/ Process(s) \/ DecoderStep(s)

\* The decode thread and the executor that waits for it are scheduled.
SourceFairness == \A s \in Stages :
    WF_sourceVars(DecoderStep(s)) /\ WF_sourceVars(StageStopped(s))

-----------------------------------------------------------------------------
\* No other stage has the same source.
Alone(s) == \A r \in Stages : SourceOf[r] = SourceOf[s] => r = s

\* What list_sources and the metrics say of a stream is where its decoder
\* is, through every sequence of drops, failed and successful reconnects:
\* frames flow only in STREAMING, a back-off never looks like STREAMING, a
\* thread that is gone has left STOPPED or FAILED behind, and FAILED is said
\* only of a stream whose decoder has given up.
HealthTellsTruth == \A s \in Stages : Alone(s) =>
    /\ decoder[s] \in {"read", "packet"} => StateOf(s) = "STREAMING"
    /\ decoder[s] = "backoff" => StateOf(s) \in {"CONNECTING", "RECONNECTING", "DEGRADED"}
    /\ decoder[s] = "done" => StateOf(s) \in {"STOPPED", "FAILED"}
    /\ StateOf(s) = "FAILED" => decoder[s] \in {"off", "begin", "leave", "done"}

\* stop() comes back: wherever the decode thread is when it is told to stop,
\* in a back-off, an open, a read or about to begin, it is joined.
StopJoinsDecoder == \A s \in Stages :
    feeder[s] # "none" /\ ~up[s] ~> feeder[s] = "none"
=============================================================================
