----------------------------- MODULE DvppDecoder -----------------------------
(***************************************************************************)
(* DVPPDecoder, the hardware decoder of the Ascend build: the source stage *)
(* that starts and stops it, its decode thread, the output pools of one    *)
(* connection, and the frames that hold a slot of a pool downstream.       *)
(*                                                                         *)
(* The hardware is a choice: a call fails or not; a packet sent is decoded *)
(* and called back once, or silently discarded.  Destroying the channel    *)
(* blocks until the callbacks still owed have run, or fails and leaves     *)
(* them owed.  CANN 7 calls back on a thread of the driver; before CANN 7  *)
(* callbacks are dispatched by the decode thread itself, in the            *)
(* aclrtProcessReport of its packet loop and nowhere else.                 *)
(***************************************************************************)
EXTENDS Integers, FiniteSets

CONSTANTS
    Slots,          \* DvppOutputPool::slots
    Cann6,          \* CANN_VERSION_MAJOR < 7
    KMaxConsecutiveFailures,
    MaxConnections  \* bound

ASSUME DvppAssumption ==
    Slots # {} /\ Cann6 \in BOOLEAN /\ KMaxConsecutiveFailures \in Nat \ {0}

VARIABLES
    caller,      \* the stage: "idle" | "starting" | "up" | "stopping"
    thread,      \* decodeLoop: "off" | "top" | "pools" | "packets" | "cleanup" | "sleep" | "done"
    dstop,       \* stop_flag_
    drunning,    \* running_
    first,       \* first_connect
    channel,     \* channel_desc_ is set
    conn,        \* connections so far; names the pools of the current one
    vpc,         \* vpc_enabled_: pictures are resized into a second pool
    live,        \* connections whose pool memory is allocated
    inUse,       \* in_use flags of the current output pool
    vpcInUse,    \* and of the current VPC pool
    inflight,    \* slots whose packet the hardware has and will call back
    lost,        \* slots whose packet it discarded without a callback
    late,        \* callbacks owed by channels that could not be destroyed: [conn, slot]
    failures,    \* consecutive_failures
    held         \* frames downstream: [conn, slot], the slot of the last pool

callVars  == <<caller, dstop>>
connVars  == <<conn, vpc, live, channel>>
poolVars  == <<inUse, vpcInUse, inflight, lost, late>>
dvppVars  == <<callVars, thread, drunning, first, connVars, poolVars,
               failures, held>>

DvppInit ==
    /\ caller = "idle" /\ thread = "off"
    /\ dstop = FALSE /\ drunning = FALSE
    /\ first = TRUE /\ channel = FALSE
    /\ conn = 0 /\ vpc = FALSE /\ live = {}
    /\ inUse = {} /\ vpcInUse = {} /\ inflight = {} /\ lost = {} /\ late = {}
    /\ failures = 0
    /\ held = {}

-----------------------------------------------------------------------------
(* The stage's thread.                                                     *)

\* start(): spawn the thread, wait for its first result.
DvppStart ==
    /\ caller = "idle" /\ conn < MaxConnections
    /\ caller' = "starting"
    /\ thread' = "top"
    /\ dstop' = FALSE /\ first' = TRUE
    /\ UNCHANGED <<drunning, connVars, poolVars, failures, held>>

\* start() returns, answered by the thread or after 15 s; SourceRtspStage looks at running()
\* and resets a decoder that does not run, which stops and joins it.
DvppStartReturns ==
    /\ caller = "starting"
    /\ caller' = IF drunning THEN "up" ELSE "stopping"
    /\ dstop' = ~drunning
    /\ UNCHANGED <<thread, drunning, first, connVars, poolVars, failures, held>>

DvppStop ==
    /\ caller = "up"
    /\ caller' = "stopping" /\ dstop' = TRUE
    /\ UNCHANGED <<thread, drunning, first, connVars, poolVars, failures, held>>

DvppJoined ==
    /\ caller = "stopping" /\ thread = "done"
    /\ caller' = "idle" /\ thread' = "off" /\ drunning' = FALSE
    /\ UNCHANGED <<dstop, first, connVars, poolVars, failures, held>>

-----------------------------------------------------------------------------
(* decodeLoop.                                                             *)

loopRest == <<callVars, held>>

\* DvppOutputPool: acquire waits 200 ms for one of these; release; destroy,
\* which frees the memory of the slots in use too.
acquire(used) == Slots \ used
release(used, s) == used \ {s}
destroyPools ==
    /\ live' = live \ {conn}
    /\ inUse' = {} /\ vpcInUse' = {} /\ lost' = {}

\* initChannel: stream, descriptor and channel, or none of them.
initChannel == ~channel /\ channel' = TRUE

\* destroyChannel: aclvdecDestroyChannel blocks until no callback is owed, or
\* fails, which is logged, and the callbacks stay owed.
destroyChannel ==
    /\ channel' = FALSE
    /\ inflight' = {}
    /\ \/ inflight = {} /\ UNCHANGED late
       \/ late' = late \cup [conn : {conn}, slot : inflight]

\* decodeLoop returns; before the first success StartupFailGuard wakes start().
Return ==
    /\ thread' = "done"
    /\ UNCHANGED <<first, connVars, poolVars, failures>>

\* The head of the reconnect loop, or the test after a connection's cleanup.
LoopEnds ==
    /\ thread = "top" /\ dstop
    /\ drunning' = FALSE
    /\ Return
    /\ UNCHANGED loopRest

\* No device, no context; or a picture size or codec the hardware cannot
\* take, now or after a reconnect.  running_ is left as it is.
Unusable ==
    /\ thread = "top" /\ ~dstop
    /\ Return
    /\ UNCHANGED <<loopRest, drunning>>

\* Opening the stream or its channel fails: for good at the first connect,
\* with another try afterwards.
ConnectFails ==
    /\ thread = "top" /\ ~dstop
    /\ IF first THEN Return
       ELSE thread' = "sleep" /\ UNCHANGED <<first, connVars, poolVars, failures>>
    /\ UNCHANGED <<loopRest, drunning>>

\* Open, geometry, channel and bit-stream filter; pictures are resized when
\* their size is not the one wanted.  The first success answers
\* start(), before the pools are there.
Connect ==
    /\ thread = "top" /\ ~dstop
    /\ conn < MaxConnections
    /\ conn' = conn + 1
    /\ vpc' \in BOOLEAN
    /\ initChannel
    /\ thread' = "pools"
    /\ first' = FALSE
    /\ drunning' = IF first THEN TRUE ELSE drunning
    /\ UNCHANGED <<loopRest, live, poolVars, failures>>

\* Both pools, the scaler and the frame configuration are there.
PoolsReady ==
    /\ thread = "pools"
    /\ thread' = "packets"
    /\ live' = live \cup {conn}
    /\ inUse' = {} /\ vpcInUse' = {} /\ inflight' = {} /\ lost' = {}
    /\ failures' = 0
    /\ UNCHANGED <<loopRest, conn, vpc, channel, late, drunning, first>>

\* One of them is not: the channel goes; memory that init had got before it
\* failed, and the pools when the frame configuration fails, stay allocated.
PoolsFail ==
    /\ thread = "pools"
    /\ thread' = "sleep"
    /\ destroyChannel
    /\ live' \in {live, live \cup {conn}}
    /\ UNCHANGED <<loopRest, conn, vpc, inUse, vpcInUse, lost, failures, drunning, first>>

\* The packet loop sees the stop flag, or the stream ends.
PacketsEnd ==
    /\ thread = "packets"
    /\ thread' = "cleanup"
    /\ UNCHANGED <<loopRest, connVars, poolVars, failures, drunning, first>>

\* submitToDvpp; packets before the first key frame are skipped and failed
\* reads repeated without any effect.  A pool without a free slot drops the
\* packet and counts as success.
Submit ==
    /\ thread = "packets" /\ ~dstop
    /\ failures' = 0
    /\ IF inUse = Slots
       THEN UNCHANGED <<inUse, inflight>>
       ELSE \E s \in acquire(inUse) :
              inUse' = inUse \cup {s} /\ inflight' = inflight \cup {s}
    /\ UNCHANGED <<loopRest, connVars, vpcInUse, lost, late, thread, drunning, first>>

\* Mutant: the slot is not given back when the bit stream cannot be copied.
SubmitFailsKeepsSlot ==
    /\ thread = "packets" /\ ~dstop /\ inUse # Slots
    /\ \E s \in Slots \ inUse : inUse' = inUse \cup {s}
    /\ failures' = failures + 1
    /\ thread' = IF failures + 1 >= KMaxConsecutiveFailures THEN "cleanup" ELSE thread
    /\ UNCHANGED <<loopRest, connVars, vpcInUse, inflight, lost, late, drunning, first>>

\* malloc, copy, descriptor or send fails and the slot is given back, or the
\* bit-stream filter yields nothing; too many failures in a row and the
\* channel counts as poisoned.
SubmitFails ==
    /\ thread = "packets" /\ ~dstop
    /\ failures' = failures + 1
    /\ thread' = IF failures' >= KMaxConsecutiveFailures THEN "cleanup" ELSE thread
    /\ UNCHANGED <<loopRest, connVars, poolVars, drunning, first>>

\* Mutant: clean-up waits until every slot is back.
CleanupAwaitsSlots ==
    /\ thread = "cleanup" /\ inUse = {}
    /\ destroyChannel
    /\ destroyPools
    /\ thread' = IF failures >= KMaxConsecutiveFailures /\ ~dstop THEN "sleep" ELSE "done"
    /\ drunning' = (thread' = "sleep" /\ drunning)
    /\ UNCHANGED <<loopRest, conn, vpc, first, failures>>

\* The channel goes, then both pools.  Only a poisoned channel leads to a
\* reconnect.
Cleanup ==
    /\ thread = "cleanup"
    /\ destroyChannel
    /\ destroyPools
    /\ thread' = IF failures >= KMaxConsecutiveFailures /\ ~dstop THEN "sleep" ELSE "done"
    /\ drunning' = (thread' = "sleep" /\ drunning)
    /\ UNCHANGED <<loopRest, conn, vpc, first, failures>>

\* sleep_for(reconnect_delay_ms), without a look at the stop flag.
Awake ==
    /\ thread = "sleep"
    /\ thread' = "top"
    /\ UNCHANGED <<loopRest, connVars, poolVars, failures, drunning, first>>

-----------------------------------------------------------------------------
(* The hardware and the frames downstream.                                 *)

cbRest == <<callVars, thread, drunning, first, connVars, failures>>

\* onDecoded without VPC: the frame takes the slot along, or there is no
\* picture and deleting the context returns it.
CallbackDirect(s) ==
    \/ held' = held \cup {[conn |-> conn, slot |-> s]} /\ UNCHANGED <<inUse, vpcInUse>>
    \/ inUse' = release(inUse, s) /\ UNCHANGED <<vpcInUse, held>>

\* onDecoded with VPC: the decoded slot is returned whatever happens; the
\* frame holds a slot of the second pool, unless there is none or the resize
\* fails.
CallbackVpc(s) ==
    /\ inUse' = release(inUse, s)
    /\ \/ \E v \in acquire(vpcInUse) :
            /\ vpcInUse' = vpcInUse \cup {v}
            /\ held' = held \cup {[conn |-> conn, slot |-> v]}
       \/ UNCHANGED <<vpcInUse, held>>

onDecoded(s) ==
    /\ s \in inflight
    /\ Cann6 => thread = "packets"
    /\ inflight' = inflight \ {s}
    /\ IF vpc THEN CallbackVpc(s) ELSE CallbackDirect(s)
    /\ UNCHANGED <<cbRest, lost, late>>

\* The hardware discards a packet it cannot decode and never calls back.
Discard(s) ==
    /\ s \in inflight
    /\ inflight' = inflight \ {s}
    /\ lost' = lost \cup {s}
    /\ UNCHANGED <<cbRest, inUse, vpcInUse, late, held>>

\* A callback of a channel that is gone: the context it brings along has its
\* own reference to the pools, which have been destroyed; a frame that comes
\* of it goes to the stage like any other.
LateCallback(x) ==
    /\ x \in late
    /\ Cann6 => thread = "packets"
    /\ late' = late \ {x}
    /\ held' \in {held, held \cup {x}}
    /\ UNCHANGED <<cbRest, inUse, vpcInUse, inflight, lost>>

\* The last reference to a frame goes: its slot returns to the pool it is
\* of, which may be gone.
FrameReleased(f) ==
    /\ f \in held
    /\ held' = held \ {f}
    /\ IF f.conn # conn THEN UNCHANGED <<inUse, vpcInUse>>
       ELSE IF vpc THEN vpcInUse' = release(vpcInUse, f.slot) /\ UNCHANGED inUse
       ELSE inUse' = release(inUse, f.slot) /\ UNCHANGED vpcInUse
    /\ UNCHANGED <<cbRest, inflight, lost, late>>

DvppThread ==
    \/ LoopEnds \/ Unusable \/ ConnectFails \/ Connect \/ PoolsReady \/ PoolsFail
    \/ PacketsEnd \/ Submit \/ SubmitFails \/ Cleanup \/ Awake

DvppNext ==
    \/ DvppStart \/ DvppStartReturns \/ DvppStop \/ DvppJoined \/ DvppThread
    \/ \E s \in Slots : onDecoded(s) \/ Discard(s)
    \/ \E x \in late : LateCallback(x)
    \/ \E f \in held : FrameReleased(f)

\* The thread runs, but nobody can count on a blocked destroy to fail; the
\* packet loop tests the stop flag after every packet or failed read; what the
\* hardware has decoded is called back, where callbacks are dispatched at all;
\* start() waits 15 s at most.
DvppFairness ==
    /\ WF_dvppVars(DvppThread /\ UNCHANGED late)
    /\ WF_dvppVars(DvppStartReturns) /\ WF_dvppVars(DvppJoined)
    /\ \A s \in Slots : WF_dvppVars(onDecoded(s))

-----------------------------------------------------------------------------
\* A slot is busy exactly while somebody has it: the hardware, a frame
\* downstream, or a packet the hardware lost.  No error path keeps one and
\* none is handed out twice, over restarts and reconnects.
SlotsAccounted == conn \in live =>
    LET frames == {f.slot : f \in {g \in held : g.conn = conn}}
        decoded == inflight \cup lost
    IN  IF vpc THEN inUse = decoded /\ vpcInUse = frames
        ELSE inUse = decoded \cup frames /\ decoded \cap frames = {}

\* What Types.h says of AscendBuffer::frame_ref: it keeps the DVPP buffer
\* alive as long as a frame has it.
FrameKeepsBufferAlive == \A f \in held : f.conn \in live

\* A stage that stops, or falls back after a failed or late start, gets its
\* thread joined ("Signal the decode loop to stop; blocks until thread exits",
\* IStreamDecoder.h), although the thread may be blocked in the destroying of
\* its channel.
DvppStopReturns == caller = "stopping" ~> caller = "idle"
=============================================================================
