---------------------------- MODULE VideoOutput -----------------------------
(***************************************************************************)
(* One video sink: DrawAndStreamStage, writing to an ffmpeg process or     *)
(* through the Ascend encoder (AscendVencFfmpegMuxWriter), or              *)
(* SinkFfplayStage.  The pipeline thread queues frames; the sink's own     *)
(* thread opens the output, writes, and backs off when that fails; the     *)
(* executor drains, stops and restarts the stage.                          *)
(*                                                                         *)
(* stop() sets its flag and notifies without the mutex the thread holds    *)
(* while it decides to wait.                                               *)
(***************************************************************************)
EXTENDS Integers, Sequences, FiniteSetsExt

CONSTANTS
    SinkCapacity,   \* queue_capacity
    MaxDelay,       \* reconnect_max_ms over reconnect_initial_ms, a power of 2
    MaxShown,       \* bound: frames given to the sink
    MaxSinkStarts   \* bound: starts of the stage

VARIABLES
    kind,      \* "ffmpeg" | "venc" | "ffplay"; fixed
    dropOldest,\* drop_policy; fixed
    running,   \* running_
    suppress,  \* suppress_output_reopen_
    stopping,  \* a stop() that has cleared running_ and joins
    starts,    \* starts so far
    shown,     \* frames given so far
    squeue,    \* queue_
    sink,      \* the thread: "none" | "top" | "lock" | "tested" | "wait" | "ensure"
               \*   | "open" | "write" | "encode" | "undo"
    notified,  \* the waiting thread has been notified
    held,      \* the handles of the writer that are set
    undo,      \* the clean-up at work: handles in the order they are looked at
    then,      \* what comes after it: "open" | "close" | "note" | "none"
    pictures,  \* device pictures of frames sent to the encoder and not given back
    delay,     \* reconnect_delay_ms_ over reconnect_initial_ms
    backoff    \* next_reconnect_at_ is in the future

sinkVars == <<kind, dropOldest, running, suppress, stopping, starts, shown, squeue,
              sink, notified, held, undo, then, pictures, delay, backoff>>

\* What open() acquires, in order; ffplay's "file" is its "fd" with a buffer.
Parts == [ffmpeg |-> <<"pipe">>,
          venc   |-> <<"pipe", "runtime", "context", "stream", "buffer", "desc", "channel">>,
          ffplay |-> <<"fd", "child", "file">>]
Complete == {Parts[kind][i] : i \in DOMAIN Parts[kind]}
isOpened == Parts[kind][Len(Parts[kind])] \in held

\* What a handle was made on, and must not outlive.
Bases(p) == CASE p = "context" -> {"runtime"}
              [] p \in {"stream", "buffer", "desc"} -> {"context"}
              [] p = "channel" -> {"desc", "buffer"}
              [] p = "file" -> {"fd"}
              [] OTHER -> {}

VideoInit ==
    /\ kind \in DOMAIN Parts /\ dropOldest \in BOOLEAN
    /\ running = FALSE /\ suppress = FALSE /\ stopping = FALSE
    /\ starts = 0 /\ shown = 0 /\ squeue = <<>>
    /\ sink = "none" /\ notified = FALSE
    /\ held = {} /\ undo = <<>> /\ then = "none" /\ pictures = 0
    /\ delay = 1 /\ backoff = FALSE

outputRest == <<held, undo, then, pictures, delay, backoff>>

-----------------------------------------------------------------------------
(* The executor and the pipeline thread.                                   *)

\* start(): the stream sink forgets its delay, ffplay keeps it.
StartSink ==
    /\ ~running /\ ~stopping /\ starts < MaxSinkStarts
    /\ running' = TRUE /\ suppress' = FALSE /\ starts' = starts + 1
    /\ sink' = "top"
    /\ IF kind = "ffplay" THEN UNCHANGED <<delay, backoff>>
       ELSE delay' = 1 /\ backoff' = FALSE
    /\ UNCHANGED <<kind, dropOldest, stopping, shown, squeue, notified, held, undo, then, pictures>>

\* onGraphExecutorDraining.
Draining ==
    /\ running /\ ~suppress
    /\ suppress' = TRUE /\ notified' = (sink = "wait")
    /\ UNCHANGED <<kind, dropOldest, running, stopping, starts, shown, squeue, sink,
                   outputRest>>

\* Mutant: enqueue does not take the mutex.
ShowUnlocked ==
    /\ shown < MaxShown
    /\ shown' = shown + 1
    /\ squeue' = IF running THEN Append(squeue, shown') ELSE squeue
    /\ notified' = (notified \/ sink = "wait")
    /\ UNCHANGED <<kind, dropOldest, running, suppress, stopping, starts, sink, outputRest>>

\* process and enqueue, under the mutex; a full queue drops one end.
Show ==
    /\ shown < MaxShown /\ sink # "tested"
    /\ shown' = shown + 1
    /\ LET full == Len(squeue) >= SinkCapacity IN
       IF ~running \/ (full /\ ~dropOldest) THEN UNCHANGED <<squeue, notified>>
       ELSE /\ squeue' = Append(IF full THEN Tail(squeue) ELSE squeue, shown')
            /\ notified' = (notified \/ sink = "wait")
    /\ UNCHANGED <<kind, dropOldest, running, suppress, stopping, starts, sink, outputRest>>

\* stop() up to the join; ffplay is told to terminate.
StopSink ==
    /\ running
    /\ running' = FALSE /\ stopping' = TRUE
    /\ suppress' = (suppress \/ kind = "ffplay")
    /\ notified' = (sink = "wait")
    /\ UNCHANGED <<kind, dropOldest, starts, shown, squeue, sink, outputRest>>

\* The join returns and the queue is cleared.
SinkStopped ==
    /\ stopping /\ sink = "none"
    /\ stopping' = FALSE /\ squeue' = <<>>
    /\ UNCHANGED <<kind, dropOldest, running, suppress, starts, shown, sink, notified,
                   outputRest>>

-----------------------------------------------------------------------------
(* The thread: runWorker.                                                  *)

callerRest == <<kind, dropOldest, running, suppress, stopping, starts, shown>>
threadRest == <<callerRest, squeue, notified>>

\* Mutant: the runtime is not given back.
RollbackKeepsRuntime == <<"pipe", "channel", "desc", "buffer", "stream", "context">>

\* The handles in the order a clean-up looks at them; one that is set is freed.
rollbackOpen == <<"pipe", "channel", "desc", "buffer", "stream", "context", "runtime">>
closeFfplay == <<"file", "child">>
close ==
    CASE kind = "ffmpeg" -> <<"pipe">>
      [] kind = "ffplay" -> closeFfplay
      [] kind = "venc"   -> IF ~isOpened /\ held \cap {"pipe", "desc", "context"} = {} THEN <<>>
                            ELSE rollbackOpen

\* What open() itself gives back when it does not get handle p.  aclrtSetDevice
\* and the setters of the channel fail like the handle that comes next.
OnFailure(p) ==
    CASE p = "runtime" -> <<"pipe">>
      [] p = "child" -> <<"fd">>
      [] p = "file" -> <<"fd", "child">>
      [] p \in {"context", "stream", "buffer", "desc", "channel"} -> rollbackOpen
      [] OTHER -> <<>>

\* Start the clean-up list, and go on with next when it is done.
Cleanup(list, next) == sink' = "undo" /\ undo' = list /\ then' = next

\* The loop condition; a thread that leaves the loop closes its output.
Loop ==
    /\ sink = "top"
    /\ IF running THEN sink' = "lock" /\ UNCHANGED <<undo, then>> ELSE Cleanup(close, "none")
    /\ UNCHANGED <<threadRest, held, pictures, delay, backoff>>

\* With the mutex, what wait's predicate says.  The next frame, drawn on; one
\* without an image is skipped.
Decide ==
    /\ sink = "lock"
    /\ \/ /\ squeue # <<>> /\ sink' \in {"ensure", "top"} /\ squeue' = Tail(squeue)
          /\ UNCHANGED <<undo, then>>
       \/ /\ squeue = <<>> /\ running
          /\ sink' = "tested" /\ UNCHANGED <<squeue, undo, then>>
       \/ squeue = <<>> /\ ~running /\ Cleanup(close, "none") /\ UNCHANGED squeue
    /\ UNCHANGED <<callerRest, notified, held, pictures, delay, backoff>>

Sleep ==
    /\ sink = "tested"
    /\ sink' = "wait" /\ notified' = FALSE
    /\ UNCHANGED <<callerRest, outputRest, squeue>>

Wake ==
    /\ sink = "wait" /\ notified
    /\ sink' = "lock" /\ notified' = FALSE
    /\ UNCHANGED <<callerRest, outputRest, squeue>>

\* ensureWriterOpened, ensureFfplayOpened up to the attempt; open() of a stream
\* writer begins with a close().
Ensure ==
    /\ sink = "ensure"
    /\ IF isOpened THEN sink' = "write" /\ UNCHANGED <<undo, then>>
       ELSE IF suppress \/ backoff THEN sink' = "top" /\ UNCHANGED <<undo, then>>
       ELSE IF kind = "ffplay" THEN sink' = "open" /\ UNCHANGED <<undo, then>>
       ELSE Cleanup(close, "open")
    /\ UNCHANGED <<threadRest, held, pictures, delay, backoff>>

\* onStreamFailure, onFfplayFailure: the back-off.
NoteFailure ==
    IF suppress THEN UNCHANGED <<delay, backoff>>
    ELSE /\ backoff' = TRUE
         /\ delay' = Min({2 * delay, MaxDelay})

\* An output is open; only ffplay takes that for a success.
OutputOpened ==
    IF kind = "ffplay" THEN delay' = 1 ELSE UNCHANGED delay

\* open() acquires the next handle, or fails and cleans up after itself; a
\* failed open() of a stream writer is followed by a close().
OpenPart ==
    LET p == Parts[kind][Cardinality(held) + 1] IN
    /\ sink = "open"
    /\ \/ /\ held' = held \cup {p}
          /\ IF held' = Complete THEN sink' = "write" /\ OutputOpened
             ELSE UNCHANGED <<sink, delay>>
          /\ UNCHANGED <<undo, then, backoff>>
       \/ /\ Cleanup(OnFailure(p), IF kind = "ffplay" THEN "note" ELSE "close")
          /\ UNCHANGED <<held, delay, backoff>>
    /\ UNCHANGED <<threadRest, pictures>>

\* The clean-up frees the next handle that is set; fclose closes the fd too, and
\* the channel is looked at only with its descriptor there.
Undo ==
    /\ sink = "undo"
    /\ \E i \in DOMAIN undo :
         /\ undo[i] \in held /\ \A j \in 1..(i - 1) : undo[j] \notin held
         /\ undo[i] = "channel" => "desc" \in held
         /\ held' = held \ (IF undo[i] = "file" THEN {"file", "fd"} ELSE {undo[i]})
    /\ UNCHANGED <<threadRest, sink, undo, then, pictures, delay, backoff>>

\* The clean-up is through.
Undone ==
    /\ sink = "undo" /\ \A i \in DOMAIN undo : undo[i] \notin held
    /\ \/ then = "close" /\ Cleanup(close, "note") /\ UNCHANGED <<delay, backoff>>
       \/ then = "note" /\ sink' = "top" /\ NoteFailure /\ UNCHANGED <<undo, then>>
       \/ then \in {"open", "none"} /\ sink' = then /\ UNCHANGED <<undo, then, delay, backoff>>
    /\ UNCHANGED <<threadRest, held, pictures>>

\* A frame went out: only now does the stream sink reset its delay.
FrameOut ==
    /\ sink' = "top"
    /\ IF kind = "ffplay" THEN UNCHANGED delay ELSE delay' = 1
    /\ UNCHANGED <<undo, then, backoff>>

FrameFails == Cleanup(close, "note") /\ UNCHANGED <<delay, backoff>>

\* write(): to a pipe, or a picture sent to the encoder.
SendFrame ==
    /\ sink = "write"
    /\ \/ kind # "venc" /\ FrameOut /\ UNCHANGED pictures
       \/ kind = "venc" /\ sink' = "encode" /\ pictures' = pictures + 1
          /\ UNCHANGED <<undo, then, delay, backoff>>
       \/ FrameFails /\ UNCHANGED pictures
    /\ UNCHANGED <<threadRest, held>>

\* onVencCallback gives the picture back, or two seconds pass without it.
Encoded ==
    /\ sink = "encode"
    /\ \/ FrameOut /\ pictures' = pictures - 1
       \/ FrameFails /\ UNCHANGED pictures
    /\ UNCHANGED <<threadRest, held>>

BackoffOver ==
    /\ backoff
    /\ backoff' = FALSE
    /\ UNCHANGED <<threadRest, sink, held, undo, then, pictures, delay>>

SinkThread ==
    Loop \/ Decide \/ Sleep \/ Wake \/ Ensure \/ OpenPart \/ Undo \/ Undone \/ SendFrame \/ Encoded

VideoNext == StartSink \/ Draining \/ Show \/ StopSink \/ SinkStopped \/ SinkThread \/ BackoffOver

-----------------------------------------------------------------------------
\* Every clean-up there is (open()'s own at each of its steps, close() with its
\* early return, ffplay's two) frees a handle only after those made on it, and
\* together they leave nothing: between two frames the output is whole or gone,
\* and a stopped sink holds none.
OutputIsWholeOrGone ==
    /\ \A p \in held : Bases(p) \subseteq held
    /\ sink \notin {"open", "undo"} => held \in {{}, Complete}
    /\ sink = "none" => held = {}

\* The thread does not wait, un-notified, with a frame in its queue: the frame
\* cannot come between the test of the predicate and the wait.
NoFrameSleptOn == sink = "wait" /\ squeue # <<>> => notified
=============================================================================
