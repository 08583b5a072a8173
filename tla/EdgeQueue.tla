------------------------------ MODULE EdgeQueue ------------------------------
(***************************************************************************)
(* One EdgeQueue of a pipeline graph: the bounded FIFO between two nodes,  *)
(* shared by the threads that push (the upstream node's worker and the     *)
(* callback threads of its stage), the threads that pop, and the thread    *)
(* that stops and reopens it.                                              *)
(*                                                                         *)
(* push and pop hold mu_ except inside cv_.wait_for, so each is one step,  *)
(* or two when it waits: the step that blocks and the step that returns.   *)
(* wait_for evaluates its predicate under mu_ when it returns, whether a   *)
(* notification, a spurious wakeup or the timeout ended the wait; so a     *)
(* waiting thread goes on if the predicate holds and gives up if it does   *)
(* not, at any moment.                                                     *)
(***************************************************************************)
EXTENDS EdgeQueueOps

CONSTANTS
    Producers,   \* threads that call push
    Consumers,   \* threads that call pop
    Capacities,  \* the values EdgeConfig::capacity may have
    MaxEvents    \* bound: number of push calls

ASSUME CapacitiesAssumption == Capacities \subseteq Nat \ {0}
ASSUME MaxEventsAssumption  == MaxEvents \in Nat

VARIABLES
    cfg,       \* cfg_: capacity and drop_policy, fixed by the constructor
    queue,     \* queue_: event ids, oldest first
    stopped,   \* stopped_
    pushing,   \* pushing[p]: the event p is blocked on in push, or NoEvent
    popping,   \* the consumers blocked in pop
    offered,   \* history: number of push calls; the n-th pushes event n
    accepted,  \* history: events whose push returned true, in that order
    left,      \* history: events taken off the front of the queue, in order
    evicted    \* history: those of left that push itself discarded

vars == <<cfg, queue, stopped, pushing, popping, offered, accepted, left, evicted>>

Events  == 1..MaxEvents
NoEvent == 0

EdgeConfigs == [capacity : Capacities, drop_policy : EdgeDropPolicies]

TypeOK ==
    /\ cfg \in EdgeConfigs
    /\ queue \in Seq(Events)
    /\ stopped \in BOOLEAN
    /\ pushing \in [Producers -> Events \cup {NoEvent}]
    /\ popping \subseteq Consumers
    /\ offered \in 0..MaxEvents
    /\ accepted \in Seq(Events)
    /\ left \in Seq(Events)
    /\ evicted \subseteq Events

Init ==
    /\ cfg \in EdgeConfigs
    /\ queue = <<>>
    /\ stopped = FALSE
    /\ pushing = [p \in Producers |-> NoEvent]
    /\ popping = {}
    /\ offered = 0
    /\ accepted = <<>>
    /\ left = <<>>
    /\ evicted = {}

-----------------------------------------------------------------------------
QueueFull == Full(queue, cfg.capacity)

\* queue_.push_back(event); cv_.notify_all(); return true.  A full queue gets
\* here only under DropOldest, and gives up its oldest event.
Accept(event) ==
    /\ queue' = PushBack(queue, event, cfg.capacity)
    /\ accepted' = Append(accepted, event)
    /\ left' = IF QueueFull THEN Append(left, Head(queue)) ELSE left
    /\ evicted' = IF QueueFull THEN evicted \cup {Head(queue)} ELSE evicted

\* return false
Refuse == UNCHANGED <<queue, accepted, left, evicted>>

\* A call of push that returns without waiting.
Push(p) ==
    /\ pushing[p] = NoEvent
    /\ offered < MaxEvents
    /\ offered' = offered + 1
    /\ \/ /\ stopped
          /\ Refuse
       \/ /\ ~stopped
          /\ QueueFull => cfg.drop_policy = DropOldest
          /\ Accept(offered + 1)
       \/ /\ ~stopped
          /\ QueueFull
          /\ cfg.drop_policy = DropNewest
          /\ Refuse
    /\ UNCHANGED <<cfg, stopped, pushing, popping>>

\* A call of push that finds the queue full under Block and waits.
PushWait(p) ==
    /\ pushing[p] = NoEvent
    /\ offered < MaxEvents
    /\ ~stopped
    /\ QueueFull
    /\ cfg.drop_policy = Block
    /\ offered' = offered + 1
    /\ pushing' = [pushing EXCEPT ![p] = offered + 1]
    /\ Refuse
    /\ UNCHANGED <<cfg, stopped, popping>>

\* Mutant: the woken producer appends without looking at the size again.
PushReturnNoRecheck(p) ==
    /\ pushing[p] # NoEvent
    /\ queue' = Append(queue, pushing[p])
    /\ accepted' = Append(accepted, pushing[p])
    /\ pushing' = [pushing EXCEPT ![p] = NoEvent]
    /\ UNCHANGED <<cfg, stopped, popping, offered, left, evicted>>

\* Mutant: wait instead of wait_for, no timeout.
PushReturnUntimed(p) ==
    /\ pushing[p] # NoEvent
    /\ stopped \/ ~QueueFull
    /\ IF stopped THEN Refuse ELSE Accept(pushing[p])
    /\ pushing' = [pushing EXCEPT ![p] = NoEvent]
    /\ UNCHANGED <<cfg, stopped, popping, offered>>

\* The wait of push ends: with room and not stopped the event goes in, else
\* (stopped, or 100 ms have passed without room) push returns false.
PushReturn(p) ==
    /\ pushing[p] # NoEvent
    /\ IF ~stopped /\ ~QueueFull THEN Accept(pushing[p]) ELSE Refuse
    /\ pushing' = [pushing EXCEPT ![p] = NoEvent]
    /\ UNCHANGED <<cfg, stopped, popping, offered>>

\* Mutant: pop_back instead of pop_front.
TakeNewest ==
    /\ queue # <<>>
    /\ queue' = SubSeq(queue, 1, Len(queue) - 1)
    /\ left' = Append(left, queue[Len(queue)])

\* event = queue_.front(); queue_.pop_front(); cv_.notify_all(); return true
Take ==
    /\ queue # <<>>
    /\ queue' = Tail(queue)
    /\ left' = Append(left, Head(queue))

\* A call of pop that finds an event: it does not look at stopped_, so a
\* stopped queue can still be drained.
Pop(c) ==
    /\ c \notin popping
    /\ Take
    /\ UNCHANGED <<cfg, stopped, pushing, popping, offered, accepted, evicted>>

\* A call of pop that finds the queue empty and open, and waits.
PopWait(c) ==
    /\ c \notin popping
    /\ queue = <<>>
    /\ ~stopped
    /\ popping' = popping \cup {c}
    /\ UNCHANGED <<cfg, queue, stopped, pushing, offered, accepted, left, evicted>>

\* The wait of pop ends: an event if there is one, else (stopped, or wait_ms
\* have passed) pop returns false.
PopReturn(c) ==
    /\ c \in popping
    /\ popping' = popping \ {c}
    /\ Take \/ (queue = <<>> /\ UNCHANGED <<queue, left>>)
    /\ UNCHANGED <<cfg, stopped, pushing, offered, accepted, evicted>>

\* GraphExecutor::stop stops every edge, GraphExecutor::start reopens it.
\* Neither clears queue_.
Stop ==
    /\ stopped' = TRUE
    /\ UNCHANGED <<cfg, queue, pushing, popping, offered, accepted, left, evicted>>

Reopen ==
    /\ stopped' = FALSE
    /\ UNCHANGED <<cfg, queue, pushing, popping, offered, accepted, left, evicted>>

Next ==
    \/ \E p \in Producers : Push(p) \/ PushWait(p) \/ PushReturn(p)
    \/ \E c \in Consumers : Pop(c) \/ PopWait(c) \/ PopReturn(c)
    \/ Stop
    \/ Reopen

\* wait_for always returns: after 100 ms in push, after wait_ms in pop.
Fairness ==
    /\ \A p \in Producers : WF_vars(PushReturn(p))
    /\ \A c \in Consumers : WF_vars(PopReturn(c))

Spec == Init /\ [][Next]_vars /\ Fairness

-----------------------------------------------------------------------------
\* The queue never holds more than its capacity, although any number of
\* producers may be waiting for the same free place (EdgeQueue::push, 14-25).
Bounded == Len(queue) <= cfg.capacity

\* The queue is a FIFO that neither invents nor loses an event: what push
\* accepted is exactly what has left by the front followed by what is still
\* queued, in the order of acceptance, across waits, stops and reopens.
FifoNoLoss == accepted = left \o queue

\* An accepted event is discarded only under DropOldest; under the other two
\* policies whatever leaves the queue was handed to a consumer.
OnlyDropOldestDiscards == cfg.drop_policy # DropOldest => evicted = {}

\* No event enters the queue twice, whichever of the two paths it took.
AcceptedOnce == \A i, j \in DOMAIN accepted : accepted[i] = accepted[j] => i = j

\* Nothing enters a stopped queue, not even the event of a producer that was
\* already waiting when the executor stopped the edge and then got room
\* (line 22, the second look at stopped_).
NothingEntersWhileStopped == [][stopped => accepted' = accepted]_vars

\* The queue is the bounded channel of BoundedChannel, whatever the threads at
\* its ends do: an event enters at most once, only while the edge is open and
\* only into a free place or, under DropOldest, over the oldest event; events
\* leave in order; and none is dropped by another policy.
Channel == INSTANCE BoundedChannel WITH
    Items   <- Events,
    Confs   <- EdgeConfigs,
    conf    <- cfg,
    open    <- ~stopped,
    held    <- queue,
    entered <- {accepted[i] : i \in DOMAIN accepted},
    dropped <- evicted

ImplementsChannel == Channel!Spec

\* No push stays blocked, whether or not anyone ever pops (the 100 ms limit).
PushTerminates == \A p \in Producers : pushing[p] # NoEvent ~> pushing[p] = NoEvent
=============================================================================
