----------------------------- MODULE Publishers -----------------------------
(***************************************************************************)
(* RedisPublisher and KafkaPublisher, each a bounded queue drained by a    *)
(* thread, behind MultiPublisher and the sink stages that call publish();  *)
(* the main thread that flushes and destroys them; and GrpcPublisher with  *)
(* the handler thread of each subscriber.                                  *)
(*                                                                         *)
(* The Redis queue has one condition variable for its own thread and for   *)
(* flush().  A notification wakes who is waiting at that moment and is     *)
(* lost on a thread that is about to wait; publish() and flush() exclude   *)
(* that moment by the mutex, the destructor does not take it.              *)
(***************************************************************************)
EXTENDS Integers, Sequences

CONSTANTS
    Capacity,     \* queue_capacity of both queues
    MaxResults,   \* bound: results given to publish()
    Subscribers   \* gRPC handler threads

VARIABLES
    given,    \* results given to publish() so far
    rqueue,   \* RedisPublisher::queue_
    rloop,    \* its thread: "off" | "lock" | "tested" | "wait" | "send" | "relock" | "done"
    waiting,  \* who waits on cv_, not notified yet: "loop", "main"
    rstop,    \* stop_flag_ of both publishers
    rtaken,   \* results accepted by the Redis queue
    rsent,    \* results the thread has sent, or failed to send
    kqueue, kloop,  \* KafkaPublisher: queue_, thread "off" | "top" | "wait" | "send" | "done"
    main,     \* "off" | "run" | "flush" | "flushed" | "stop" | "join" | "end"
    handler,  \* subscriber -> "none" | "serving" | "returned"
    listed,   \* subscribers_
    active,   \* subscribers whose active flag is set
    writing   \* subscribers publish() has still to write to; lock held if not {}

redisVars == <<rqueue, rloop, waiting, rtaken, rsent>>
kafkaVars == <<kqueue, kloop>>
grpcVars  == <<handler, listed, active, writing>>
pubVars   == <<given, redisVars, rstop, kafkaVars, main, grpcVars>>

PubInit ==
    /\ given = 0
    /\ rqueue = <<>> /\ rloop = "off" /\ waiting = {} /\ rstop = FALSE
    /\ rtaken = 0 /\ rsent = 0
    /\ kqueue = <<>> /\ kloop = "off"
    /\ main = "off"
    /\ handler = [s \in Subscribers |-> "none"]
    /\ listed = {} /\ active = {} /\ writing = {}

\* The Redis thread gives up the mutex in every state but this one.
MutexFree == rloop # "tested"

\* notify_one: somebody, if anybody waits.
NotifyOne == IF waiting = {} THEN UNCHANGED waiting
             ELSE \E t \in waiting : waiting' = waiting \ {t}

\* Mutant: the waiters are not told.
NotifyNobody == UNCHANGED waiting

NotifyAll == waiting' = {}

-----------------------------------------------------------------------------
\* buildPublisherRegistry: the constructors start the two threads.
Construct ==
    /\ main = "off"
    /\ main' = "run" /\ rloop' = "lock" /\ kloop' = "top"
    /\ UNCHANGED <<given, rqueue, waiting, rtaken, rsent, rstop, kqueue, grpcVars>>

PublishRedis(r) ==
    IF Len(rqueue) >= Capacity THEN UNCHANGED <<rqueue, rtaken, waiting>>
    ELSE rqueue' = Append(rqueue, r) /\ rtaken' = rtaken + 1 /\ NotifyOne

PublishKafka(r) ==
    kqueue' = IF Len(kqueue) >= Capacity THEN kqueue ELSE Append(kqueue, r)

\* gRPC takes its lock and begins to go through the subscribers that are active
\* and want the stream; without one it removes the inactive at once.
PublishGrpc ==
    \E wanted \in SUBSET (listed \cap active) :
        writing' = wanted /\ listed' = IF wanted = {} THEN listed \cap active ELSE listed

\* SinkKafkaStage::process and MultiPublisher::publish hand a result to each
\* publisher; a full queue drops it.  A task that a client starts after
\* stopAll() publishes until the TaskManager is destroyed, after the flush.
Publish ==
    /\ main \in {"run", "flush", "flushed"} /\ given < MaxResults
    /\ MutexFree /\ writing = {}
    /\ given' = given + 1
    /\ PublishRedis(given') /\ PublishKafka(given') /\ PublishGrpc
    /\ UNCHANGED <<rloop, rstop, rsent, kloop, main, handler, active>>

-----------------------------------------------------------------------------
(* RedisPublisher::publishLoop.                                            *)

redisRest == <<given, rstop, kafkaVars, main, grpcVars>>

\* Pops the head, unlocks, wakes flush().
Take == rqueue' = Tail(rqueue) /\ rloop' = "send" /\ NotifyAll

\* Mutant: the thread leaves on stop without emptying its queue.
LeaveOnStop ==
    /\ rqueue = <<>> \/ rstop
    /\ NotifyAll
    /\ rloop' = IF rstop THEN "done" ELSE "lock"
    /\ UNCHANGED rqueue

\* The queue is empty: flush() is told, and the thread leaves if stopped.
Drained ==
    /\ rqueue = <<>>
    /\ NotifyAll
    /\ rloop' = IF rstop THEN "done" ELSE "lock"
    /\ UNCHANGED rqueue

\* With the mutex: the predicate of wait, and the pass that follows it.
LoopTests ==
    /\ rloop = "lock"
    /\ IF rqueue = <<>> /\ ~rstop
       THEN rloop' = "tested" /\ UNCHANGED <<rqueue, waiting>>
       ELSE Drained \/ (rqueue # <<>> /\ Take)
    /\ UNCHANGED <<redisRest, rtaken, rsent>>

\* wait releases the mutex and joins the waiters.
LoopWaits ==
    /\ rloop = "tested"
    /\ rloop' = "wait"
    /\ waiting' = waiting \cup {"loop"}
    /\ UNCHANGED <<redisRest, rqueue, rtaken, rsent>>

LoopWakes ==
    /\ rloop = "wait" /\ "loop" \notin waiting
    /\ rloop' = "lock"
    /\ UNCHANGED <<redisRest, rqueue, waiting, rtaken, rsent>>

\* xadd, which may fail, outside the lock.
LoopSends ==
    /\ rloop = "send"
    /\ rloop' = "relock"
    /\ rsent' = rsent + 1
    /\ UNCHANGED <<redisRest, rqueue, waiting, rtaken>>

LoopRelocks ==
    /\ rloop = "relock"
    /\ Drained \/ (rqueue # <<>> /\ Take)
    /\ UNCHANGED <<redisRest, rtaken, rsent>>

RedisLoop == LoopTests \/ LoopWaits \/ LoopWakes \/ LoopSends \/ LoopRelocks

-----------------------------------------------------------------------------
(* KafkaPublisher::publishLoop: a timed wait, and results still queued     *)
(* when the flag is seen are not sent.                                     *)

kafkaRest == <<given, redisVars, rstop, main, grpcVars>>

KafkaTop ==
    /\ kloop = "top"
    /\ kloop' = IF rstop THEN "done" ELSE "wait"
    /\ UNCHANGED <<kafkaRest, kqueue>>

KafkaWaitEnds ==
    /\ kloop = "wait"
    /\ IF kqueue = <<>> THEN kloop' = "top" /\ UNCHANGED kqueue
       ELSE kloop' = "send" /\ kqueue' = Tail(kqueue)
    /\ UNCHANGED kafkaRest

KafkaProduces ==
    /\ kloop = "send"
    /\ kloop' = "top"
    /\ UNCHANGED <<kafkaRest, kqueue>>

KafkaLoop == KafkaTop \/ KafkaWaitEnds \/ KafkaProduces

-----------------------------------------------------------------------------
(* main: flush() on every publisher, then their destructors.  For Kafka    *)
(* flush() drains librdkafka only.                                         *)

mainRest == <<given, rqueue, rloop, rtaken, rsent, kafkaVars, grpcVars>>

\* flush(): main waits unless the queue is empty.
Flush ==
    /\ main \in {"run", "flush"} /\ MutexFree
    /\ main = "flush" => "main" \notin waiting
    /\ IF rqueue = <<>> \/ rstop
       THEN main' = "flushed" /\ UNCHANGED waiting
       ELSE main' = "flush" /\ waiting' = waiting \cup {"main"}
    /\ UNCHANGED <<mainRest, rstop>>

\* ~RedisPublisher, ~KafkaPublisher: the flag, without the mutex ...
SetStop ==
    /\ main = "flushed"
    /\ main' = "stop" /\ rstop' = TRUE
    /\ UNCHANGED <<mainRest, waiting>>

\* ... then the notification ...
NotifyStop ==
    /\ main = "stop"
    /\ main' = "join" /\ NotifyAll
    /\ UNCHANGED <<mainRest, rstop>>

\* ... then the joins.
JoinLoops ==
    /\ main = "join" /\ rloop = "done" /\ kloop = "done"
    /\ main' = "end"
    /\ UNCHANGED <<mainRest, waiting, rstop>>

-----------------------------------------------------------------------------
(* GrpcPublisher.                                                          *)

grpcRest == <<given, redisVars, rstop, kafkaVars, main>>

\* Subscribe enters the list; the handler thread then polls.
Subscribe(s) ==
    /\ main # "off" /\ handler[s] = "none" /\ writing = {}
    /\ handler' = [handler EXCEPT ![s] = "serving"]
    /\ listed' = listed \cup {s} /\ active' = active \cup {s}
    /\ UNCHANGED <<grpcRest, writing>>

\* publish(), holding mu_, writes to the next subscriber; one that is gone
\* loses its flag.  After the last one the inactive are removed.
Write(s) ==
    /\ s \in writing
    /\ writing' = writing \ {s}
    /\ active' \in {active, active \ {s}}
    /\ listed' = IF writing' = {} THEN listed \cap active' ELSE listed
    /\ UNCHANGED <<grpcRest, handler>>

\* Mutant: a handler whose client cancelled returns without leaving the list.
EndCallListed(s) ==
    /\ handler[s] = "serving"
    /\ handler' = [handler EXCEPT ![s] = "returned"]
    /\ UNCHANGED <<grpcRest, listed, active, writing>>

\* The client cancels, a write has failed or the server stops: the handler
\* takes mu_, leaves the list and returns, which ends its writer.
EndCall(s) ==
    /\ handler[s] = "serving" /\ writing = {}
    /\ handler' = [handler EXCEPT ![s] = "returned"]
    /\ listed' = listed \ {s}
    /\ UNCHANGED <<grpcRest, active, writing>>

PubNext ==
    \/ Construct \/ Publish \/ RedisLoop \/ KafkaLoop
    \/ Flush \/ SetStop \/ NotifyStop \/ JoinLoops
    \/ \E s \in Subscribers : Subscribe(s) \/ Write(s) \/ EndCall(s)

\* The publish threads run, timed waits end, and a thread of the process that
\* holds or wants a mutex gets on.
PubFairness ==
    /\ WF_pubVars(RedisLoop) /\ WF_pubVars(KafkaLoop)
    /\ WF_pubVars(main = "flush" /\ Flush)
    /\ \A s \in Subscribers : WF_pubVars(Write(s))

-----------------------------------------------------------------------------
\* flush() returns although it shares one condition variable with the thread
\* it waits for and publish() wakes only one of the two.
FlushReturns == main = "flush" ~> main # "flush"

\* A Redis thread that has left has sent, or tried to send, everything its
\* queue ever accepted.
NothingLeftBehind == rloop = "done" => rqueue = <<>> /\ rsent = rtaken

\* publish() never writes through the ServerWriter of a call that has
\* returned, whichever of the two ends the subscription.
NoWriteAfterReturn == \A s \in writing : handler[s] = "serving"
=============================================================================
