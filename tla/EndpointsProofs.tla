--------------------------- MODULE EndpointsProofs ---------------------------
(***************************************************************************)
(* What is proved of the sources, of the DVPP decoder and of the           *)
(* publishers, for every number of stages, slots, subscribers and results. *)
(* Fairness plays no part: each component is taken as its initial states   *)
(* and its steps.                                                          *)
(***************************************************************************)
EXTENDS StreamSource, DvppDecoder, Publishers, TLAPS

PubSafety    == PubInit /\ [][PubNext]_pubVars
DvppSafety   == DvppInit /\ [][DvppNext]_dvppVars
SourceSafety == SourceInit /\ [][SourceNext]_sourceVars

-----------------------------------------------------------------------------
(* Publishers.                                                             *)

RedisLoops == {"off", "lock", "tested", "wait", "send", "relock", "done"}

\* The result the Redis thread has popped and not sent yet.
InHand == IF rloop = "send" THEN 1 ELSE 0

\* Everything the Redis queue took is sent, in the thread's hand or queued;
\* the thread leaves only after stop, when nobody publishes any more.
RedisInv ==
    /\ given \in Nat /\ rtaken \in Nat /\ rsent \in Nat
    /\ rqueue \in Seq(Nat) /\ rloop \in RedisLoops
    /\ rtaken = rsent + Len(rqueue) + InHand
    /\ main = "off" => rloop = "off"
    /\ rstop => main \in {"stop", "join", "end"}
    /\ rloop = "done" => rstop /\ rqueue = <<>>

\* Who is written to is in the list, and who is in the list is still served.
GrpcInv ==
    /\ handler \in [Subscribers -> {"none", "serving", "returned"}]
    /\ listed \subseteq Subscribers
    /\ writing \subseteq listed
    /\ \A s \in listed : handler[s] = "serving"

\* publish() appends one result, or drops it.
LEMMA PublishKeepsRedisInv ==
  ASSUME RedisInv, Publish
  PROVE  RedisInv'
<1>. USE DEF RedisInv, Publish, InHand
<1>1. given' \in Nat /\ UNCHANGED <<rloop, rstop, rsent, main>>
  OBVIOUS
<1>2. CASE UNCHANGED <<rqueue, rtaken, waiting>>
  BY <1>1, <1>2
<1>3. CASE rqueue' = Append(rqueue, given') /\ rtaken' = rtaken + 1
  <2>1. rqueue' \in Seq(Nat) /\ Len(rqueue') = Len(rqueue) + 1
    BY <1>1, <1>3
  <2>2. rloop # "done" /\ main # "off"
    OBVIOUS
  <2>. QED
    BY <1>1, <1>3, <2>1, <2>2
<1>. QED
  BY <1>2, <1>3 DEF PublishRedis

\* A pass of publishLoop moves at most one result, from the queue to the hand
\* or from the hand to Redis.
LEMMA LoopKeepsRedisInv ==
  ASSUME RedisInv, RedisLoop
  PROVE  RedisInv'
<1>. USE DEF RedisInv, InHand, RedisLoops
<1>1. ASSUME rqueue # <<>>, Take, rloop # "send",
             UNCHANGED <<given, rtaken, rsent, rstop, main>>, rloop # "off"
      PROVE  RedisInv'
  <2>1. rqueue' \in Seq(Nat) /\ Len(rqueue) = Len(rqueue') + 1 /\ rloop' = "send"
    BY <1>1 DEF Take
  <2>. QED
    BY <1>1, <2>1
<1>2. ASSUME Drained, rloop # "send", UNCHANGED <<given, rtaken, rsent, rstop, main>>, rloop # "off"
      PROVE  RedisInv'
  BY <1>2 DEF Drained
<1>3. CASE LoopTests
  <2>1. UNCHANGED <<given, rtaken, rsent, rstop, main>> /\ rloop = "lock"
    BY <1>3 DEF LoopTests, redisRest
  <2>2. CASE rqueue = <<>> /\ ~rstop
    BY <1>3, <2>1, <2>2 DEF LoopTests
  <2>3. CASE ~(rqueue = <<>> /\ ~rstop)
    BY <1>1, <1>2, <1>3, <2>1, <2>3 DEF LoopTests
  <2>. QED
    BY <2>2, <2>3
<1>4. CASE LoopWaits
  BY <1>4 DEF LoopWaits, redisRest
<1>5. CASE LoopWakes
  BY <1>5 DEF LoopWakes, redisRest
<1>6. CASE LoopSends
  BY <1>6 DEF LoopSends, redisRest
<1>7. CASE LoopRelocks
  BY <1>1, <1>2, <1>7 DEF LoopRelocks, redisRest
<1>. QED
  BY <1>3, <1>4, <1>5, <1>6, <1>7 DEF RedisLoop

\* RedisInv holds throughout, whatever the other publishers do.
LEMMA RedisInvariant == PubSafety => []RedisInv
<1>1. PubInit => RedisInv
  BY DEF PubInit, RedisInv, InHand, RedisLoops
<1>2. RedisInv /\ [PubNext]_pubVars => RedisInv'
  <2>. SUFFICES ASSUME RedisInv, [PubNext]_pubVars PROVE RedisInv'
    OBVIOUS
  <2>. USE DEF RedisInv, InHand, RedisLoops
  <2>1. CASE Construct
    BY <2>1 DEF Construct
  <2>2. CASE Flush \/ SetStop \/ NotifyStop \/ JoinLoops
    BY <2>2 DEF Flush, SetStop, NotifyStop, JoinLoops, mainRest
  <2>3. CASE KafkaLoop
    BY <2>3 DEF KafkaLoop, KafkaTop, KafkaWaitEnds, KafkaProduces, kafkaRest, redisVars
  <2>4. CASE \E s \in Subscribers : Subscribe(s) \/ Write(s) \/ EndCall(s)
    BY <2>4 DEF Subscribe, Write, EndCall, grpcRest, redisVars
  <2>5. CASE UNCHANGED pubVars
    BY <2>5 DEF pubVars, redisVars
  <2>. HIDE DEF RedisInv
  <2>. QED
    BY <2>1, <2>2, <2>3, <2>4, <2>5, PublishKeepsRedisInv, LoopKeepsRedisInv DEF PubNext
<1>. QED
  BY <1>1, <1>2, PTL DEF PubSafety

\* RedisPublisher's thread leaves nothing behind that its queue accepted,
\* however the destructor's flag falls between its steps and whatever the
\* capacity (RedisPublisher.cpp, publishLoop).
THEOREM RedisSendsAll == PubSafety => []NothingLeftBehind
<1>1. RedisInv => NothingLeftBehind
  BY DEF RedisInv, NothingLeftBehind, InHand
<1>. QED
  BY <1>1, RedisInvariant, PTL

\* GrpcPublisher writes only to calls that are still being served: a handler
\* leaves the list under the mutex that publish() holds while it goes
\* through it (GrpcPublisher.cpp, publish and Subscribe).
THEOREM GrpcWritesToServed == PubSafety => []NoWriteAfterReturn
<1>1. PubInit => GrpcInv
  BY DEF PubInit, GrpcInv
<1>2. GrpcInv /\ [PubNext]_pubVars => GrpcInv'
  <2>. SUFFICES ASSUME GrpcInv, [PubNext]_pubVars PROVE GrpcInv'
    OBVIOUS
  <2>. USE DEF GrpcInv
  <2>1. CASE Publish
    BY <2>1 DEF Publish, PublishGrpc
  <2>2. ASSUME NEW s \in Subscribers, Subscribe(s)
        PROVE  GrpcInv'
    BY <2>2 DEF Subscribe
  <2>3. ASSUME NEW s \in Subscribers, Write(s)
        PROVE  GrpcInv'
    BY <2>3 DEF Write
  <2>4. ASSUME NEW s \in Subscribers, EndCall(s)
        PROVE  GrpcInv'
    BY <2>4 DEF EndCall
  <2>5. CASE RedisLoop
    BY <2>5 DEF RedisLoop, LoopTests, LoopWaits, LoopWakes, LoopSends, LoopRelocks, redisRest, grpcVars
  <2>6. CASE Construct \/ KafkaLoop \/ Flush \/ SetStop \/ NotifyStop \/ JoinLoops
    BY <2>6 DEF Construct, KafkaLoop, KafkaTop, KafkaWaitEnds, KafkaProduces, kafkaRest,
                Flush, SetStop, NotifyStop, JoinLoops, mainRest, grpcVars
  <2>7. CASE UNCHANGED pubVars
    BY <2>7 DEF pubVars, grpcVars
  <2>. QED
    BY <2>1, <2>2, <2>3, <2>4, <2>5, <2>6, <2>7 DEF PubNext
<1>3. GrpcInv => NoWriteAfterReturn
  BY DEF GrpcInv, NoWriteAfterReturn
<1>. QED
  BY <1>1, <1>2, <1>3, PTL DEF PubSafety

-----------------------------------------------------------------------------
(* DVPPDecoder.                                                            *)

DecodeThread == {"off", "top", "pools", "packets", "cleanup", "sleep", "done"}

\* The decode thread is where a connection's pools are in use.
Decoding == thread \in {"packets", "cleanup"}

\* Which connection the frames downstream and the allocated memory are of.
\* Until the pools of a connection are ready no frame is of it, even when its
\* memory has already been got.
PoolShape ==
    /\ conn \in Nat /\ vpc \in BOOLEAN
    /\ thread \in DecodeThread
    /\ held \subseteq [conn : Nat, slot : Slots]
    /\ \A f \in held : f.conn <= conn
    /\ \A k \in live : k \in Nat /\ k <= conn
    /\ thread = "pools" => conn \notin live
    /\ Decoding => conn \in live
    /\ thread = "pools" \/ (conn \in live /\ ~Decoding) => \A f \in held : f.conn # conn

\* Between connections nothing is in use and nothing is with the hardware.
Drainage ==
    /\ ~Decoding => inUse = {} /\ vpcInUse = {} /\ inflight = {} /\ lost = {}
    /\ inflight \cap lost = {}
    /\ channel => Decoding \/ thread = "pools"
    /\ caller = "idle" => thread = "off"

\* The slots the frames downstream hold of the current connection.
FrameSlots == {f.slot : f \in {g \in held : g.conn = conn}}

\* SlotsAccounted, in terms of FrameSlots.
Account == conn \in live =>
    IF vpc THEN inUse = inflight \cup lost /\ vpcInUse = FrameSlots
    ELSE inUse = inflight \cup lost \cup FrameSlots /\ (inflight \cup lost) \cap FrameSlots = {}

SlotInv == PoolShape /\ Drainage /\ Account

\* Callbacks owed by a channel that could not be destroyed are of connections
\* whose pools are gone.
LateShape ==
    /\ inflight \subseteq Slots
    /\ late \subseteq [conn : Nat, slot : Slots]
    /\ \A x \in late : x.conn <= conn
    /\ thread = "pools" \/ conn \in live => \A x \in late : x.conn # conn

\* Steps of the stage and of the decode thread that touch no slot.
LEMMA NoSlotTouched ==
  ASSUME SlotInv,
         \/ DvppStart \/ DvppStartReturns \/ DvppStop \/ DvppJoined
         \/ LoopEnds \/ Unusable \/ ConnectFails \/ PacketsEnd \/ SubmitFails \/ Awake
         \/ UNCHANGED dvppVars
  PROVE  SlotInv'
<1>1. UNCHANGED <<connVars, poolVars, held>>
  BY DEF DvppStart, DvppStartReturns, DvppStop, DvppJoined, LoopEnds, Unusable, ConnectFails,
         PacketsEnd, SubmitFails, Awake, Return, loopRest, dvppVars
<1>2. /\ thread' \in DecodeThread
      /\ Decoding' <=> Decoding
      /\ (thread = "pools") <=> (thread' = "pools")
      /\ caller' = "idle" => thread' = "off"
  BY DEF DvppStart, DvppStartReturns, DvppStop, DvppJoined, LoopEnds, Unusable, ConnectFails,
         PacketsEnd, SubmitFails, Awake, Return, loopRest, callVars, dvppVars,
         SlotInv, PoolShape, Drainage, Decoding, DecodeThread
<1>3. PoolShape' /\ Drainage'
  BY <1>1, <1>2 DEF SlotInv, PoolShape, Drainage, connVars, poolVars
<1>4. Account'
  BY <1>1 DEF SlotInv, Account, FrameSlots, connVars, poolVars
<1>. QED
  BY <1>3, <1>4 DEF SlotInv

\* A connection is opened, gets its pools or not, and is taken down again.
LEMMA ConnectionSteps ==
  ASSUME SlotInv, Connect \/ PoolsReady \/ PoolsFail \/ Cleanup
  PROVE  SlotInv'
<1>. USE DEF SlotInv, PoolShape, Drainage, Decoding, DecodeThread, loopRest, callVars,
             destroyChannel, destroyPools, poolVars
<1>1. CASE Connect
  <2>1. PoolShape' /\ Drainage' /\ conn' \notin live'
    BY <1>1 DEF Connect, initChannel
  <2>. QED
    BY <2>1 DEF Account
<1>2. CASE PoolsReady
  <2>1. PoolShape' /\ Drainage'
    BY <1>2 DEF PoolsReady
  <2>2. /\ {g \in held' : g.conn = conn'} = {} /\ inUse' = {} /\ vpcInUse' = {}
        /\ inflight' = {} /\ lost' = {}
    BY <1>2 DEF PoolsReady
  <2>3. Account'
    BY <2>2 DEF Account, FrameSlots
  <2>. QED
    BY <2>1, <2>3
<1>3. CASE PoolsFail
  <2>1. PoolShape' /\ Drainage'
    BY <1>3 DEF PoolsFail
  <2>2. /\ {g \in held' : g.conn = conn'} = {} /\ inUse' = {} /\ vpcInUse' = {}
        /\ inflight' = {} /\ lost' = {}
    BY <1>3 DEF PoolsFail
  <2>3. Account'
    BY <2>2 DEF Account, FrameSlots
  <2>. QED
    BY <2>1, <2>3
<1>4. CASE Cleanup
  <2>1. PoolShape' /\ Drainage' /\ conn' \notin live'
    BY <1>4 DEF Cleanup
  <2>. QED
    BY <2>1 DEF Account
<1>. QED
  BY <1>1, <1>2, <1>3, <1>4

\* A new frame adds its slot to those the frames hold.
LEMMA FrameTaken ==
  ASSUME PoolShape, UNCHANGED conn, NEW s \in Slots,
         held' = held \cup {[conn |-> conn, slot |-> s]}
  PROVE  FrameSlots' = FrameSlots \cup {s}
<1>. DEFINE new == [conn |-> conn, slot |-> s]
<1>1. new.conn = conn /\ new.slot = s
  OBVIOUS
<1>. HIDE DEF new
<1>2. held' = held \cup {new}
  BY DEF new
<1>3. {g \in held' : g.conn = conn} = {g \in held : g.conn = conn} \cup {new}
  BY <1>1, <1>2
<1>. QED
  BY <1>1, <1>3 DEF FrameSlots

\* A released frame takes its slot away: a slot of a connection is in one
\* frame only.
LEMMA FrameGone ==
  ASSUME PoolShape, UNCHANGED conn, NEW f \in held, held' = held \ {f}
  PROVE  FrameSlots' = IF f.conn = conn THEN FrameSlots \ {f.slot} ELSE FrameSlots
<1>. USE DEF PoolShape, FrameSlots
<1>1. \A g \in held : g.conn = f.conn /\ g.slot = f.slot => g = f
  OBVIOUS
<1>2. CASE f.conn = conn
  <2>1. ASSUME NEW x \in FrameSlots'
        PROVE  x \in FrameSlots \ {f.slot}
    BY <1>1, <1>2, <2>1
  <2>2. ASSUME NEW x \in FrameSlots \ {f.slot}
        PROVE  x \in FrameSlots'
    BY <1>2, <2>2
  <2>. QED
    BY <1>2, <2>1, <2>2
<1>3. CASE f.conn # conn
  BY <1>3
<1>. QED
  BY <1>2, <1>3

\* submitToDvpp takes a free slot, and hands it to the hardware.
LEMMA SubmitTakesOne ==
  ASSUME SlotInv, Submit
  PROVE  SlotInv'
<1>. USE DEF SlotInv, Drainage, Decoding
<1>1. /\ UNCHANGED <<caller, thread, conn, vpc, live, channel, vpcInUse, lost, held>>
      /\ thread = "packets"
  BY DEF Submit, loopRest, callVars, connVars
<1>2. PoolShape'
  BY <1>1 DEF PoolShape
<1>3. FrameSlots' = FrameSlots
  BY <1>1 DEF FrameSlots
<1>4. CASE UNCHANGED <<inUse, inflight>>
  BY <1>1, <1>2, <1>3, <1>4 DEF Account
<1>5. ASSUME NEW s \in Slots \ inUse, inUse' = inUse \cup {s}, inflight' = inflight \cup {s}
      PROVE  SlotInv'
  <2>1. s \notin lost /\ (vpc \/ s \notin FrameSlots)
    BY <1>1, <1>5 DEF PoolShape, Account
  <2>2. Drainage'
    BY <1>1, <1>5, <2>1
  <2>3. Account'
    BY <1>1, <1>3, <1>5, <2>1 DEF PoolShape, Account
  <2>. QED
    BY <1>2, <2>2, <2>3
<1>. QED
  BY <1>4, <1>5 DEF Submit, acquire

\* The hardware discards a packet: its slot stays taken.
LEMMA DiscardKeepsSlot ==
  ASSUME SlotInv, NEW s \in Slots, Discard(s)
  PROVE  SlotInv'
<1>. USE DEF SlotInv, Drainage, Decoding
<1>1. /\ UNCHANGED <<caller, thread, conn, vpc, live, channel, inUse, vpcInUse, held>>
      /\ s \in inflight /\ inflight' = inflight \ {s} /\ lost' = lost \cup {s}
  BY DEF Discard, cbRest, callVars, connVars
<1>2. PoolShape'
  BY <1>1 DEF PoolShape
<1>3. FrameSlots' = FrameSlots
  BY <1>1 DEF FrameSlots
<1>4. Drainage'
  BY <1>1
<1>5. inflight' \cup lost' = inflight \cup lost
  BY <1>1
<1>6. Account'
  BY <1>1, <1>3, <1>5 DEF Account
<1>. QED
  BY <1>2, <1>4, <1>6

\* onDecoded moves the slot to a frame, or back to its pool.
LEMMA CallbackMovesSlot ==
  ASSUME SlotInv, NEW s \in Slots, onDecoded(s)
  PROVE  SlotInv'
<1>. USE DEF SlotInv, Drainage, Decoding
<1>1. /\ UNCHANGED <<caller, thread, conn, vpc, live, channel, lost>>
      /\ s \in inflight /\ inflight' = inflight \ {s}
      /\ s \notin lost /\ Decoding /\ conn \in live
  BY DEF onDecoded, cbRest, callVars, connVars, PoolShape
<1>2. ASSUME NEW v \in Slots, held' = held \cup {[conn |-> conn, slot |-> v]}
      PROVE  PoolShape' /\ FrameSlots' = FrameSlots \cup {v}
  <2>1. [conn |-> conn, slot |-> v] \in [conn : Nat, slot : Slots]
    BY DEF PoolShape
  <2>2. PoolShape'
    BY <1>1, <1>2, <2>1 DEF PoolShape
  <2>. QED
    BY <1>1, <1>2, <2>2, FrameTaken
<1>3. ASSUME UNCHANGED held
      PROVE  PoolShape' /\ FrameSlots' = FrameSlots
  BY <1>1, <1>3 DEF PoolShape, FrameSlots
<1>4. Drainage'
  BY <1>1
<1>5. CASE vpc
  <2>1. inUse' = inUse \ {s} /\ inUse' = inflight' \cup lost'
    BY <1>1, <1>5 DEF onDecoded, CallbackVpc, release, Account
  <2>2. CASE UNCHANGED <<vpcInUse, held>>
    BY <1>1, <1>3, <1>4, <1>5, <2>1, <2>2 DEF Account
  <2>3. ASSUME NEW v \in Slots \ vpcInUse, vpcInUse' = vpcInUse \cup {v},
               held' = held \cup {[conn |-> conn, slot |-> v]}
        PROVE  SlotInv'
    <3>1. PoolShape' /\ FrameSlots' = FrameSlots \cup {v}
      BY <1>2, <2>3
    <3>. QED
      BY <1>1, <1>4, <1>5, <2>1, <2>3, <3>1 DEF Account
  <2>. QED
    BY <1>5, <2>2, <2>3 DEF onDecoded, CallbackVpc, acquire
<1>6. CASE ~vpc
  <2>1. s \notin FrameSlots /\ s \in inUse
    BY <1>1, <1>6 DEF Account
  <2>2. CASE held' = held \cup {[conn |-> conn, slot |-> s]} /\ UNCHANGED inUse
    <3>1. PoolShape' /\ FrameSlots' = FrameSlots \cup {s}
      BY <1>2, <2>2
    <3>. QED
      BY <1>1, <1>4, <1>6, <2>1, <2>2, <3>1 DEF Account
  <2>3. CASE inUse' = inUse \ {s} /\ UNCHANGED held
    BY <1>1, <1>3, <1>4, <1>6, <2>1, <2>3 DEF Account
  <2>. QED
    BY <1>6, <2>2, <2>3 DEF onDecoded, CallbackDirect, release
<1>. QED
  BY <1>5, <1>6

\* A frame's slot returns to the pool of its own connection, if that is still
\* the current one.
LEMMA ReleaseReturnsSlot ==
  ASSUME SlotInv, NEW f \in held, FrameReleased(f)
  PROVE  SlotInv'
<1>. USE DEF SlotInv, Drainage, Decoding
<1>1. /\ UNCHANGED <<caller, thread, conn, vpc, live, channel, inflight, lost>>
      /\ held' = held \ {f}
  BY DEF FrameReleased, cbRest, callVars, connVars
<1>2. PoolShape'
  BY <1>1 DEF PoolShape
<1>3. FrameSlots' = IF f.conn = conn THEN FrameSlots \ {f.slot} ELSE FrameSlots
  BY <1>1, FrameGone
<1>4. CASE f.conn # conn
  <2>1. UNCHANGED <<inUse, vpcInUse>>
    BY <1>4 DEF FrameReleased
  <2>. QED
    BY <1>1, <1>2, <1>3, <1>4, <2>1 DEF Account
<1>5. CASE f.conn = conn
  <2>1. /\ inUse' = IF vpc THEN inUse ELSE inUse \ {f.slot}
        /\ vpcInUse' = IF vpc THEN vpcInUse \ {f.slot} ELSE vpcInUse
    BY <1>5 DEF FrameReleased, release
  <2>2. f.slot \in FrameSlots
    BY <1>5 DEF FrameSlots
  <2>3. Drainage'
    BY <1>1, <2>1
  <2>4. Account'
    BY <1>1, <1>3, <1>5, <2>1, <2>2 DEF Account
  <2>. QED
    BY <1>2, <2>3, <2>4
<1>. QED
  BY <1>4, <1>5

\* A late callback is of a connection that is over: its frame takes no slot of
\* the pools in use.
LEMMA LateTakesNoSlot ==
  ASSUME SlotInv, LateShape, NEW x \in late, LateCallback(x)
  PROVE  SlotInv'
<1>. USE DEF SlotInv, Drainage, Decoding
<1>1. /\ UNCHANGED <<caller, thread, conn, vpc, live, channel, inUse, vpcInUse, inflight, lost>>
      /\ held' = held \/ held' = held \cup {x}
  BY DEF LateCallback, cbRest, callVars, connVars
<1>2. x \in [conn : Nat, slot : Slots] /\ x.conn <= conn
  BY DEF LateShape
<1>3. thread = "pools" \/ conn \in live => x.conn # conn
  BY DEF LateShape
<1>4. PoolShape' /\ Drainage'
  BY <1>1, <1>2, <1>3 DEF PoolShape
<1>5. ASSUME conn \in live PROVE FrameSlots' = FrameSlots
  <2>1. {g \in held' : g.conn = conn} = {g \in held : g.conn = conn}
    BY <1>1, <1>3, <1>5
  <2>. QED
    BY <1>1, <2>1 DEF FrameSlots
<1>6. Account'
  BY <1>1, <1>5 DEF Account
<1>. QED
  BY <1>4, <1>6

\* Every step keeps what is known of the late callbacks.
LEMMA LateKept ==
  ASSUME SlotInv, LateShape, [DvppNext]_dvppVars
  PROVE  LateShape'
<1>1. CASE \/ DvppStart \/ DvppStartReturns \/ DvppStop \/ DvppJoined
           \/ LoopEnds \/ Unusable \/ ConnectFails \/ PacketsEnd \/ SubmitFails \/ Awake
           \/ UNCHANGED dvppVars
  <2>1. UNCHANGED <<conn, live, inflight, late>> /\ (thread' = "pools" => thread = "pools")
    BY <1>1 DEF DvppStart, DvppStartReturns, DvppStop, DvppJoined, LoopEnds, Unusable, ConnectFails,
           PacketsEnd, SubmitFails, Awake, Return, loopRest, callVars, connVars, poolVars, dvppVars
  <2>. QED
    BY <2>1 DEF LateShape
<1>2. CASE Connect
  <2>1. /\ conn \in Nat /\ conn' = conn + 1 /\ UNCHANGED <<live, inflight, late>>
    BY <1>2 DEF Connect, poolVars, SlotInv, PoolShape
  <2>. QED
    BY <2>1 DEF LateShape
<1>3. CASE PoolsReady
  <2>1. thread = "pools" /\ UNCHANGED <<conn, late>> /\ inflight' = {}
    BY <1>3 DEF PoolsReady
  <2>. QED
    BY <2>1 DEF LateShape
<1>4. CASE PoolsFail
  <2>1. inflight = {}
    BY <1>4 DEF PoolsFail, SlotInv, Drainage, Decoding
  <2>2. /\ thread = "pools" /\ UNCHANGED conn /\ inflight' = {}
        /\ late' = late \/ late' = late \cup [conn : {conn}, slot : inflight]
    BY <1>4 DEF PoolsFail, destroyChannel
  <2>3. [conn : {conn}, slot : inflight] = {}
    BY <2>1
  <2>4. late' = late
    BY <2>2, <2>3
  <2>. QED
    BY <2>2, <2>4 DEF LateShape
<1>5. CASE Cleanup
  <2>1. /\ thread' # "pools" /\ UNCHANGED conn /\ inflight' = {} /\ live' = live \ {conn}
        /\ late' = late \/ late' = late \cup [conn : {conn}, slot : inflight]
        /\ conn \in Nat
    BY <1>5 DEF Cleanup, destroyChannel, destroyPools, SlotInv, PoolShape
  <2>2. \A x \in late' : x \in [conn : Nat, slot : Slots] /\ x.conn <= conn
    BY <2>1 DEF LateShape
  <2>. QED
    BY <2>1, <2>2 DEF LateShape
<1>6. CASE Submit
  <2>1. UNCHANGED <<conn, live, late, thread>>
    BY <1>6 DEF Submit, connVars
  <2>2. inflight' = inflight \/ \E s \in Slots : inflight' = inflight \cup {s}
    BY <1>6 DEF Submit, acquire
  <2>. QED
    BY <2>1, <2>2 DEF LateShape
<1>7. ASSUME NEW s \in Slots, onDecoded(s) \/ Discard(s) PROVE LateShape'
  <2>1. UNCHANGED <<conn, live, late, thread>> /\ inflight' = inflight \ {s}
    BY <1>7 DEF onDecoded, Discard, cbRest, connVars
  <2>. QED
    BY <2>1 DEF LateShape
<1>8. ASSUME NEW x \in late, LateCallback(x) PROVE LateShape'
  <2>1. UNCHANGED <<conn, live, inflight, thread>> /\ late' = late \ {x}
    BY <1>8 DEF LateCallback, cbRest, connVars
  <2>. QED
    BY <2>1 DEF LateShape
<1>9. ASSUME NEW f \in held, FrameReleased(f) PROVE LateShape'
  <2>1. UNCHANGED <<conn, live, inflight, late, thread>>
    BY <1>9 DEF FrameReleased, cbRest, connVars
  <2>. QED
    BY <2>1 DEF LateShape
<1>. QED
  BY <1>1, <1>2, <1>3, <1>4, <1>5, <1>6, <1>7, <1>8, <1>9 DEF DvppNext, DvppThread

DvppInv == SlotInv /\ LateShape

\* DvppInv holds throughout, over any number of connections.
LEMMA DvppInvariant == DvppSafety => []DvppInv
<1>1. DvppInit => DvppInv
  <2>. SUFFICES ASSUME DvppInit PROVE DvppInv
    OBVIOUS
  <2>1. PoolShape
    BY DEF DvppInit, PoolShape, Decoding, DecodeThread
  <2>2. Drainage
    BY DEF DvppInit, Drainage, Decoding
  <2>3. Account
    BY DEF DvppInit, Account
  <2>4. LateShape
    BY DEF DvppInit, LateShape
  <2>. QED
    BY <2>1, <2>2, <2>3, <2>4 DEF DvppInv, SlotInv
<1>2. DvppInv /\ [DvppNext]_dvppVars => DvppInv'
  <2>1. DvppInv /\ [DvppNext]_dvppVars => SlotInv'
    BY NoSlotTouched, ConnectionSteps, SubmitTakesOne, DiscardKeepsSlot, CallbackMovesSlot,
       ReleaseReturnsSlot, LateTakesNoSlot DEF DvppInv, DvppNext, DvppThread
  <2>. QED
    BY <2>1, LateKept DEF DvppInv
<1>. QED
  BY <1>1, <1>2, PTL DEF DvppSafety

\* No slot of a DVPP pool is lost on an error path or handed out twice, over
\* any number of restarts, reconnects and frames still held downstream
\* (DVPPDecoder.cpp, submitToDvpp and onDecoded).
THEOREM NoSlotLeaks == DvppSafety => []SlotsAccounted
<1>1. DvppInv => SlotsAccounted
  BY DEF DvppInv, SlotInv, Account, FrameSlots, SlotsAccounted
<1>. QED
  BY <1>1, DvppInvariant, PTL

-----------------------------------------------------------------------------
(* FFmpegDecoder and the stream health registry.                           *)

HealthStates == {"STOPPED", "CONNECTING", "STREAMING", "RECONNECTING", "DEGRADED", "FAILED"}
Connecting   == {"CONNECTING", "RECONNECTING", "DEGRADED"}

SourceShape ==
    /\ feeder \in [Stages -> {"none", "ffmpeg", "dvpp"}]
    /\ decoder \in [Stages -> {"off", "begin", "open", "read", "packet", "backoff", "leave", "done"}]
    /\ stopFlag \in [Stages -> BOOLEAN]
    /\ health \in [Sources -> [state : HealthStates, failures : Nat]]

\* Where the decoder of a stage with a source of its own can be.  A stream
\* about to be opened may still be called STREAMING only if it is a file that
\* loops, or if stop has been asked for, in which case it is not opened.
Truthful(s) ==
    /\ feeder[s] # "ffmpeg" => decoder[s] = "off"
    /\ decoder[s] \in {"read", "packet"} => StateOf(s) = "STREAMING"
    /\ decoder[s] = "backoff" => StateOf(s) \in Connecting
    /\ decoder[s] = "open" => StateOf(s) \in Connecting \cup {"STREAMING"}
    /\ decoder[s] = "open" /\ Kind[s] = "rtsp" /\ ~stopFlag[s] => StateOf(s) \in Connecting
    /\ decoder[s] = "done" => StateOf(s) \in {"STOPPED", "FAILED"}
    /\ StateOf(s) = "FAILED" => decoder[s] \in {"off", "begin", "leave", "done"}

SourceInv == SourceShape /\ \A s \in Stages : Alone(s) => Truthful(s)

\* A step of another stage leaves a stage with a source of its own alone.
LEMMA OthersDoNotReport ==
  ASSUME SourceInv, NEW r \in Stages, NEW s \in Stages, s # r, Alone(s),
         StageStart(r) \/ StageStop(r) \/ StageStopped(r) \/ Process(r) \/ DecoderStep(r)
  PROVE  Truthful(s)'
<1>1. SourceOf[r] # SourceOf[s]
  BY DEF Alone
<1>2. /\ feeder'[s] = feeder[s] /\ decoder'[s] = decoder[s] /\ stopFlag'[s] = stopFlag[s]
      /\ health'[SourceOf[s]] = health[SourceOf[s]]
  <2>. USE DEF SourceInv, SourceShape, Goto, Report, stageVars, threadRest
  <2>1. SourceOf[s] \in Sources
    BY DEF Sources
  <2>2. CASE StageStart(r)
    BY <2>2 DEF StageStart, StartDvpp, StartFFmpeg
  <2>3. CASE StageStop(r)
    BY <2>3 DEF StageStop
  <2>4. CASE StageStopped(r)
    BY <2>4 DEF StageStopped
  <2>5. CASE Process(r)
    BY <2>5 DEF Process
  <2>6. CASE Begin(r) \/ SeesStop(r) \/ ReadPacket(r) \/ BackoffEnds(r) \/ Leave(r)
    BY <1>1, <2>1, <2>6 DEF Begin, SeesStop, ReadPacket, BackoffEnds, Leave
  <2>7. CASE OpenFails(r) \/ OpenSucceeds(r)
    BY <1>1, <2>1, <2>7 DEF OpenFails, OpenSucceeds
  <2>8. CASE Decoded(r)
    BY <2>8 DEF Decoded
  <2>9. ASSUME NEW why, ReadEnds(r, why)
        PROVE  /\ feeder'[s] = feeder[s] /\ decoder'[s] = decoder[s]
               /\ stopFlag'[s] = stopFlag[s] /\ health'[SourceOf[s]] = health[SourceOf[s]]
    BY <1>1, <2>1, <2>9, SourceAssumption DEF ReadEnds
  <2>. QED
    BY <2>2, <2>3, <2>4, <2>5, <2>6, <2>7, <2>8, <2>9 DEF DecoderStep
<1>. QED
  BY <1>2 DEF SourceInv, Truthful, StateOf

\* The registry's reports stay within its states.
LEMMA ReportsAreHealth ==
  ASSUME NEW h \in [state : HealthStates, failures : Nat]
  PROVE  /\ onStreamAdded(h) \in [state : HealthStates, failures : Nat]
         /\ onStreamOpened(h) \in [state : HealthStates, failures : Nat]
         /\ onStreamDropped(h) \in [state : HealthStates, failures : Nat]
         /\ onReconnectFailed(h) \in [state : HealthStates, failures : Nat]
         /\ onReconnectSucceeded(h) \in [state : HealthStates, failures : Nat]
         /\ onStreamRemoved(h) \in [state : HealthStates, failures : Nat]
<1>. USE DEF HealthStates
<1>1. onStreamAdded(h) \in [state : HealthStates, failures : Nat]
  BY DEF onStreamAdded
<1>2. onStreamOpened(h) \in [state : HealthStates, failures : Nat]
  BY DEF onStreamOpened
<1>3. onStreamDropped(h) \in [state : HealthStates, failures : Nat]
  BY DEF onStreamDropped
<1>4. onReconnectFailed(h) \in [state : HealthStates, failures : Nat]
  BY DEF onReconnectFailed
<1>5. onReconnectSucceeded(h) \in [state : HealthStates, failures : Nat]
  BY DEF onReconnectSucceeded
<1>6. onStreamRemoved(h) \in [state : HealthStates, failures : Nat]
  BY DEF onStreamRemoved
<1>. QED
  BY <1>1, <1>2, <1>3, <1>4, <1>5, <1>6

\* A report to the registry keeps its type and gives the stage its new state.
LEMMA ReportWorks ==
  ASSUME SourceShape, NEW s \in Stages, NEW h \in [state : HealthStates, failures : Nat],
         Report(s, h)
  PROVE  /\ health' \in [Sources -> [state : HealthStates, failures : Nat]]
         /\ StateOf(s)' = h.state
BY DEF SourceShape, Report, StateOf, Sources

\* The steps of the executor's start() and stop() in a stage.
LEMMA StageKeepsTruth ==
  ASSUME SourceInv, NEW s \in Stages,
         StageStart(s) \/ StageStop(s) \/ StageStopped(s) \/ Process(s)
  PROVE  SourceShape' /\ (Alone(s) => Truthful(s)')
<1>. USE DEF SourceInv, SourceShape, Truthful, StateOf, Goto, stageVars
<1>1. CASE StageStart(s)
  BY <1>1 DEF StageStart, StartDvpp, StartFFmpeg
<1>2. CASE StageStop(s)
  BY <1>2 DEF StageStop
<1>3. CASE StageStopped(s)
  BY <1>3 DEF StageStopped
<1>4. CASE Process(s)
  BY <1>4 DEF Process
<1>. QED
  BY <1>1, <1>2, <1>3, <1>4

\* The steps of decodeLoop, each with what it reports.
LEMMA DecoderKeepsTruth ==
  ASSUME SourceInv, NEW s \in Stages, DecoderStep(s)
  PROVE  SourceShape' /\ (Alone(s) => Truthful(s)')
<1>. DEFINE h == health[SourceOf[s]]
<1>1. h \in [state : HealthStates, failures : Nat] /\ StateOf(s) = h.state
  BY DEF SourceInv, SourceShape, Sources, StateOf
<1>2. UNCHANGED <<feeder, stopFlag>>
  BY DEF DecoderStep, Begin, SeesStop, OpenFails, OpenSucceeds, ReadPacket, Decoded, ReadEnds,
         BackoffEnds, Leave, threadRest, stageVars
<1>3. \A p : Goto(s, p) => decoder'[s] = p
  BY DEF SourceInv, SourceShape, Goto
<1>4. ASSUME NEW p \in {"open", "read", "packet", "backoff", "leave", "done"}, Goto(s, p),
             health' \in [Sources -> [state : HealthStates, failures : Nat]]
      PROVE  SourceShape'
  BY <1>2, <1>4 DEF SourceInv, SourceShape, Goto
<1>. USE DEF Connecting
<1>5. CASE Begin(s)
  <2>1. /\ Goto(s, "open") /\ decoder[s] = "begin"
        /\ Report(s, onStreamAdded(h))
    BY <1>5 DEF Begin
  <2>2. /\ health' \in [Sources -> [state : HealthStates, failures : Nat]]
        /\ StateOf(s)' = "CONNECTING"
    BY <1>1, <2>1, ReportsAreHealth, ReportWorks DEF SourceInv, onStreamAdded
  <2>3. SourceShape'
    BY <1>4, <2>1, <2>2
  <2>. QED
    BY <1>2, <1>3, <2>1, <2>2, <2>3 DEF SourceInv, Truthful
<1>6. CASE SeesStop(s) \/ ReadPacket(s) \/ BackoffEnds(s) \/ Decoded(s)
  <2>1. /\ UNCHANGED health /\ StateOf(s)' = StateOf(s)
        /\ \E p \in {"open", "read", "packet", "backoff", "leave", "done"} : Goto(s, p)
    BY <1>6 DEF SeesStop, ReadPacket, BackoffEnds, Decoded, StateOf
  <2>2. SourceShape'
    BY <1>4, <2>1 DEF SourceInv, SourceShape
  <2>3. \/ decoder[s] \in {"open", "backoff"} /\ decoder'[s] = "leave" /\ stopFlag[s]
        \/ decoder[s] \in {"read", "packet"} /\ decoder'[s] \in {"read", "packet"}
        \/ decoder[s] = "backoff" /\ decoder'[s] = "open"
    BY <1>3, <1>6 DEF SeesStop, ReadPacket, BackoffEnds, Decoded
  <2>. QED
    BY <1>2, <2>1, <2>2, <2>3 DEF SourceInv, Truthful
<1>7. CASE OpenFails(s)
  <2>1. CASE Kind[s] = "file"
    <3>1. UNCHANGED health /\ Goto(s, "leave") /\ decoder[s] = "open"
      BY <1>7, <2>1 DEF OpenFails
    <3>2. SourceShape' /\ StateOf(s)' = StateOf(s)
      BY <1>4, <3>1 DEF SourceInv, SourceShape, StateOf
    <3>. QED
      BY <1>2, <1>3, <3>1, <3>2 DEF SourceInv, Truthful
  <2>2. CASE Kind[s] # "file"
    <3>. DEFINE n == onReconnectFailed(h)
    <3>1. /\ Report(s, n) /\ decoder[s] = "open" /\ ~stopFlag[s] /\ Kind[s] = "rtsp"
          /\ Goto(s, IF n.state = "FAILED" THEN "leave" ELSE "backoff")
      BY <1>7, <2>2, SourceAssumption DEF OpenFails
    <3>2. n \in [state : HealthStates, failures : Nat]
      BY <1>1, ReportsAreHealth
    <3>3. /\ health' \in [Sources -> [state : HealthStates, failures : Nat]]
          /\ StateOf(s)' = n.state
      BY <3>1, <3>2, ReportWorks DEF SourceInv
    <3>4. h.state \in Connecting => n.state \in Connecting \cup {"FAILED"}
      BY <1>1, SourceAssumption DEF onReconnectFailed
    <3>5. SourceShape'
      BY <1>4, <3>1, <3>3
    <3>6. decoder'[s] = IF n.state = "FAILED" THEN "leave" ELSE "backoff"
      BY <1>3, <3>1
    <3>. HIDE DEF n, h
    <3>. QED
      BY <1>1, <1>2, <3>1, <3>3, <3>4, <3>5, <3>6 DEF SourceInv, Truthful
  <2>. QED
    BY <2>1, <2>2
<1>8. CASE OpenSucceeds(s)
  <2>. DEFINE n == IF h.state = "CONNECTING" THEN onStreamOpened(h) ELSE onReconnectSucceeded(h)
  <2>1. Report(s, n) /\ decoder[s] = "open" /\ Goto(s, "read")
    BY <1>8 DEF OpenSucceeds
  <2>2. n \in [state : HealthStates, failures : Nat]
    BY <1>1, ReportsAreHealth
  <2>3. /\ health' \in [Sources -> [state : HealthStates, failures : Nat]]
        /\ StateOf(s)' = n.state
    BY <2>1, <2>2, ReportWorks DEF SourceInv
  <2>4. h.state \in Connecting \cup {"STREAMING"} => n.state = "STREAMING"
    BY <1>1 DEF onStreamOpened, onReconnectSucceeded
  <2>5. SourceShape'
    BY <1>4, <2>1, <2>3
  <2>6. decoder'[s] = "read"
    BY <1>3, <2>1
  <2>. HIDE DEF n, h
  <2>. QED
    BY <1>1, <1>2, <2>1, <2>3, <2>4, <2>5, <2>6 DEF SourceInv, Truthful
<1>9. ASSUME NEW why, ReadEnds(s, why)
      PROVE  SourceShape' /\ (Alone(s) => Truthful(s)')
  <2>1. decoder[s] \in {"read", "packet"}
    BY <1>9 DEF ReadEnds
  <2>2. CASE UNCHANGED health /\ (Goto(s, "open") \/ Goto(s, "leave"))
    <3>1. SourceShape' /\ StateOf(s)' = StateOf(s)
      BY <1>4, <2>2 DEF SourceInv, SourceShape, StateOf
    <3>2. decoder'[s] = "leave" \/ (decoder'[s] = "open" /\ (Kind[s] = "file" \/ stopFlag[s]))
      <4>1. decoder'[s] \in {"open", "leave"}
        BY <1>3, <2>2
      <4>2. CASE Kind[s] = "file" \/ stopFlag[s]
        BY <4>1, <4>2
      <4>3. CASE Kind[s] = "rtsp" /\ ~stopFlag[s]
        BY <1>3, <1>9, <4>1, <4>3 DEF ReadEnds
      <4>. QED
        BY <4>2, <4>3, SourceAssumption
    <3>. QED
      BY <1>2, <2>1, <3>1, <3>2 DEF SourceInv, Truthful
  <2>3. CASE Report(s, onStreamDropped(h)) /\ Goto(s, "backoff")
    <3>1. /\ health' \in [Sources -> [state : HealthStates, failures : Nat]]
          /\ StateOf(s)' = onStreamDropped(h).state
      BY <1>1, <2>3, ReportsAreHealth, ReportWorks DEF SourceInv
    <3>2. SourceShape'
      BY <1>4, <2>3, <3>1
    <3>3. h.state = "STREAMING" => onStreamDropped(h).state = "RECONNECTING"
      BY <1>1 DEF onStreamDropped
    <3>. QED
      BY <1>1, <1>2, <1>3, <2>1, <2>3, <3>1, <3>2, <3>3 DEF SourceInv, Truthful
  <2>. QED
    BY <1>9, <2>2, <2>3, SourceAssumption DEF ReadEnds
<1>10. CASE Leave(s)
  <2>1. Report(s, onStreamRemoved(h)) /\ Goto(s, "done") /\ decoder[s] = "leave"
    BY <1>10 DEF Leave
  <2>2. /\ health' \in [Sources -> [state : HealthStates, failures : Nat]]
        /\ StateOf(s)' \in {"STOPPED", "FAILED"}
    BY <1>1, <2>1, ReportsAreHealth, ReportWorks DEF SourceInv, onStreamRemoved
  <2>3. SourceShape'
    BY <1>4, <2>1, <2>2
  <2>. QED
    BY <1>2, <1>3, <2>1, <2>2, <2>3 DEF SourceInv, Truthful
<1>. QED
  BY <1>5, <1>6, <1>7, <1>8, <1>9, <1>10 DEF DecoderStep

\* For any number of stages and sources, thresholds and attempts: the state
\* StreamHealthRegistry reports of a stream is where its decoder is, unless
\* two stages share the source (FFmpegDecoder.cpp, decodeLoop).
THEOREM HealthIsTrue == SourceSafety => []HealthTellsTruth
<1>1. SourceInit => SourceInv
  BY DEF SourceInit, SourceInv, SourceShape, Truthful, StateOf, Sources, HealthStates
<1>2. SourceInv /\ [SourceNext]_sourceVars => SourceInv'
  <2>. SUFFICES ASSUME SourceInv, [SourceNext]_sourceVars PROVE SourceInv'
    OBVIOUS
  <2>1. ASSUME NEW r \in Stages,
               StageStart(r) \/ StageStop(r) \/ StageStopped(r) \/ Process(r) \/ DecoderStep(r)
        PROVE  SourceInv'
    <3>1. SourceShape' /\ (Alone(r) => Truthful(r)')
      BY <2>1, StageKeepsTruth, DecoderKeepsTruth
    <3>2. ASSUME NEW s \in Stages, Alone(s), s # r
          PROVE  Truthful(s)'
      BY <2>1, <3>2, OthersDoNotReport
    <3>. QED
      BY <3>1, <3>2 DEF SourceInv, Alone
  <2>2. CASE UNCHANGED sourceVars
    BY <2>2 DEF sourceVars, stageVars, SourceInv, SourceShape, Truthful, StateOf, Alone
  <2>. QED
    BY <2>1, <2>2 DEF SourceNext
<1>3. SourceInv => HealthTellsTruth
  BY DEF SourceInv, Truthful, HealthTellsTruth, Connecting
<1>. QED
  BY <1>1, <1>2, <1>3, PTL DEF SourceSafety
=============================================================================
