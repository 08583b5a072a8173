--------------------------- MODULE EdgeQueueProofs ---------------------------
(***************************************************************************)
(* Safety of EdgeQueue for any number of threads, any capacities and any   *)
(* number of push calls.                                                   *)
(***************************************************************************)
EXTENDS EdgeQueue, TLAPS

\* What the waiting producers hold: an event already offered, not yet accepted,
\* and held by one producer only.  AcceptedOnce is not inductive without it.
WaitersHoldFreshEvents ==
    /\ \A i \in DOMAIN accepted : accepted[i] <= offered
    /\ \A p \in Producers : pushing[p] <= offered
    /\ \A p \in Producers, i \in DOMAIN accepted : pushing[p] # accepted[i]
    /\ \A p, q \in Producers : p # q /\ pushing[p] # NoEvent => pushing[p] # pushing[q]

\* Typing and capacity.
Shape == TypeOK /\ Bounded

-----------------------------------------------------------------------------
\* Appending then concatenating is concatenating then appending.
LEMMA ConcatAppend ==
    ASSUME NEW S, NEW s \in Seq(S), NEW t \in Seq(S), NEW e \in S
    PROVE  s \o Append(t, e) = Append(s \o t, e)
OBVIOUS

\* Moving the head of t to the end of s does not change s followed by t.
LEMMA MoveHead ==
    ASSUME NEW S, NEW s \in Seq(S), NEW t \in Seq(S), t # <<>>
    PROVE  Append(s, Head(t)) \o Tail(t) = s \o t
OBVIOUS

\* The two together: the head moves over and e comes in behind.
LEMMA SlideWindow ==
    ASSUME NEW S, NEW s \in Seq(S), NEW t \in Seq(S), t # <<>>, NEW e \in S
    PROVE  Append(s, Head(t)) \o Append(Tail(t), e) = Append(s \o t, e)
<1>1. Append(s, Head(t)) \in Seq(S) /\ Tail(t) \in Seq(S)
  OBVIOUS
<1>2. Append(s, Head(t)) \o Append(Tail(t), e) = Append(Append(s, Head(t)) \o Tail(t), e)
  BY <1>1, ConcatAppend
<1>3. QED
  BY <1>2, MoveHead

\* Capacities and event numbers stay in range.
LEMMA Ranges ==
    /\ \A c \in EdgeConfigs : c.capacity \in Nat \ {0}
    /\ \A n \in 0..MaxEvents : n < MaxEvents => n + 1 \in Events /\ n + 1 \in 0..MaxEvents
<1>1. ASSUME NEW c \in EdgeConfigs PROVE c.capacity \in Nat \ {0}
  BY CapacitiesAssumption DEF EdgeConfigs
<1>2. ASSUME NEW n \in 0..MaxEvents, n < MaxEvents
      PROVE  n + 1 \in Events /\ n + 1 \in 0..MaxEvents
  BY <1>2, MaxEventsAssumption DEF Events
<1>3. QED
  BY <1>1, <1>2

\* What an accepted push does to the queue and to the histories.
LEMMA AcceptStep ==
    ASSUME Shape, NEW e \in Events, Accept(e)
    PROVE  /\ queue' \in Seq(Events) /\ accepted' \in Seq(Events)
           /\ left' \in Seq(Events) /\ evicted' \subseteq Events
           /\ Len(queue') <= cfg.capacity
           /\ accepted' = Append(accepted, e)
           /\ left' \o queue' = Append(left \o queue, e)
           /\ evicted' # evicted => QueueFull
<1> USE DEF Shape, TypeOK, Bounded
<1>0. cfg.capacity \in Nat \ {0}
  BY Ranges
<1>1. CASE QueueFull
  <2>1. queue # <<>> /\ Len(queue) = cfg.capacity
    BY <1>0, <1>1 DEF QueueFull, Full
  <2>2. /\ Head(queue) \in Events /\ Tail(queue) \in Seq(Events)
        /\ Len(Tail(queue)) = Len(queue) - 1
    BY <2>1
  <2>3. /\ queue' = Append(Tail(queue), e) /\ accepted' = Append(accepted, e)
        /\ left' = Append(left, Head(queue)) /\ evicted' = evicted \cup {Head(queue)}
    BY <1>1 DEF Accept, PushBack, QueueFull
  <2>4. /\ queue' \in Seq(Events) /\ accepted' \in Seq(Events)
        /\ left' \in Seq(Events) /\ evicted' \subseteq Events
    BY <2>2, <2>3
  <2>5. Append(left, Head(queue)) \o Append(Tail(queue), e) = Append(left \o queue, e)
    BY <2>1, SlideWindow
  <2>6. Len(queue') <= cfg.capacity
    BY <1>0, <2>1, <2>2, <2>3
  <2>7. QED
    BY <1>1, <2>3, <2>4, <2>5, <2>6
<1>2. CASE ~QueueFull
  <2>1. /\ queue' = Append(queue, e) /\ accepted' = Append(accepted, e)
        /\ left' = left /\ evicted' = evicted
    BY <1>2 DEF Accept, PushBack, QueueFull
  <2>2. left' \o queue' = Append(left \o queue, e)
    BY <2>1, ConcatAppend
  <2>3. Len(queue') <= cfg.capacity
    BY <1>0, <1>2, <2>1 DEF QueueFull, Full
  <2>4. QED
    BY <2>1, <2>2, <2>3
<1>3. QED
  BY <1>1, <1>2

\* What a successful pop does.
LEMMA TakeStep ==
    ASSUME Shape, Take
    PROVE  /\ queue' \in Seq(Events) /\ left' \in Seq(Events)
           /\ Len(queue') <= cfg.capacity
           /\ left' \o queue' = left \o queue
<1> USE DEF Shape, TypeOK, Bounded
<1>1. /\ queue # <<>> /\ queue' = Tail(queue) /\ left' = Append(left, Head(queue))
  BY DEF Take
<1>2. /\ Head(queue) \in Events /\ Tail(queue) \in Seq(Events)
      /\ Len(Tail(queue)) = Len(queue) - 1
  BY <1>1
<1>3. cfg.capacity \in Nat
  BY Ranges
<1>4. left' \o queue' = left \o queue
  BY <1>1, MoveHead
<1>5. QED
  BY <1>1, <1>2, <1>3, <1>4

\* Every step keeps the types, and the number of queued events within capacity.
LEMMA ShapeStep == Shape /\ [Next]_vars => Shape'
<1> SUFFICES ASSUME Shape, [Next]_vars PROVE Shape'
  OBVIOUS
<1>1. ASSUME NEW p \in Producers, Push(p) PROVE Shape'
  <2>1. offered + 1 \in Events /\ offered' \in 0..MaxEvents
    BY <1>1, Ranges DEF Push, Shape, TypeOK
  <2>2. QED
    BY <1>1, <2>1, AcceptStep DEF Push, Refuse, Shape, TypeOK, Bounded
<1>2. ASSUME NEW p \in Producers, PushWait(p) PROVE Shape'
  BY <1>2, Ranges DEF PushWait, Refuse, Shape, TypeOK, Bounded
<1>3. ASSUME NEW p \in Producers, PushReturn(p) PROVE Shape'
  <2>1. pushing[p] \in Events
    BY <1>3 DEF PushReturn, Shape, TypeOK
  <2>2. QED
    BY <1>3, <2>1, AcceptStep DEF PushReturn, Refuse, Shape, TypeOK, Bounded
<1>4. ASSUME NEW c \in Consumers, Pop(c) PROVE Shape'
  BY <1>4, TakeStep DEF Pop, Shape, TypeOK, Bounded
<1>5. ASSUME NEW c \in Consumers, PopWait(c) PROVE Shape'
  BY <1>5 DEF PopWait, Shape, TypeOK, Bounded
<1>6. ASSUME NEW c \in Consumers, PopReturn(c) PROVE Shape'
  <2>1. CASE Take
    BY <1>6, <2>1, TakeStep DEF PopReturn, Shape, TypeOK, Bounded
  <2>2. CASE UNCHANGED <<queue, left>>
    BY <1>6, <2>2 DEF PopReturn, Shape, TypeOK, Bounded
  <2>3. QED
    BY <1>6, <2>1, <2>2 DEF PopReturn
<1>7. CASE Stop
  BY <1>7 DEF Stop, Shape, TypeOK, Bounded
<1>8. CASE Reopen
  BY <1>8 DEF Reopen, Shape, TypeOK, Bounded
<1>9. CASE UNCHANGED vars
  BY <1>9 DEF vars, Shape, TypeOK, Bounded
<1>10. QED
  BY <1>1, <1>2, <1>3, <1>4, <1>5, <1>6, <1>7, <1>8, <1>9 DEF Next

\* A new queue has the shape.
LEMMA ShapeInit == Init => Shape
<1> SUFFICES ASSUME Init PROVE Shape
  OBVIOUS
<1>1. cfg.capacity \in Nat /\ 0 \in 0..MaxEvents
  BY Ranges, MaxEventsAssumption DEF Init
<1>2. Bounded
  BY <1>1 DEF Init, Bounded
<1>3. pushing \in [Producers -> Events \cup {NoEvent}]
  BY DEF Init
<1>4. /\ <<>> \in Seq(Events)
      /\ {} \subseteq Consumers /\ {} \subseteq Events
  OBVIOUS
<1>5. TypeOK
  BY <1>1, <1>3, <1>4 DEF Init, TypeOK
<1>6. QED
  BY <1>2, <1>5 DEF Shape

\* Type correctness and the capacity bound: however many producers wait for
\* the same free place, push never lets the deque grow beyond cfg_.capacity.
THEOREM EdgeQueueBounded == Spec => [](TypeOK /\ Bounded)
<1>1. QED
  BY ShapeInit, ShapeStep, PTL DEF Spec, Shape

-----------------------------------------------------------------------------
\* How a step changes the histories: an event comes in, or not; and whether one
\* comes in or one leaves, left followed by queue stays what was accepted.
LEMMA HistoryStep ==
    ASSUME Shape, [Next]_vars
    PROVE  \/ /\ accepted' = accepted
              /\ left' \o queue' = left \o queue
              /\ evicted' = evicted
           \/ /\ ~stopped
              /\ \E e \in Events : /\ accepted' = Append(accepted, e)
                                  /\ left' \o queue' = Append(left \o queue, e)
              /\ evicted' # evicted => cfg.drop_policy = DropOldest
<1>1. ASSUME NEW p \in Producers, Push(p), Accept(offered + 1), ~stopped,
             QueueFull => cfg.drop_policy = DropOldest
      PROVE  /\ \E e \in Events : /\ accepted' = Append(accepted, e)
                                 /\ left' \o queue' = Append(left \o queue, e)
             /\ evicted' # evicted => cfg.drop_policy = DropOldest
  <2>1. offered + 1 \in Events
    BY <1>1, Ranges DEF Push, Shape, TypeOK
  <2>2. QED
    BY <1>1, <2>1, AcceptStep
<1>2. CASE \E p \in Producers : Push(p)
  BY <1>1, <1>2 DEF Push, Refuse
<1>3. CASE \E p \in Producers : PushWait(p)
  BY <1>3 DEF PushWait, Refuse
<1>4. ASSUME NEW p \in Producers, PushReturn(p), ~stopped, ~QueueFull
      PROVE  /\ \E e \in Events : /\ accepted' = Append(accepted, e)
                                 /\ left' \o queue' = Append(left \o queue, e)
             /\ evicted' = evicted
  <2>1. pushing[p] \in Events
    BY <1>4 DEF PushReturn, Shape, TypeOK
  <2>2. QED
    BY <1>4, <2>1, AcceptStep DEF PushReturn
<1>5. CASE \E p \in Producers : PushReturn(p)
  BY <1>4, <1>5 DEF PushReturn, Refuse
<1>6. CASE \E c \in Consumers : Pop(c)
  BY <1>6, TakeStep DEF Pop
<1>7. CASE \E c \in Consumers : PopWait(c)
  BY <1>7 DEF PopWait
<1>8. CASE \E c \in Consumers : PopReturn(c)
  BY <1>8, TakeStep DEF PopReturn
<1>9. CASE Stop \/ Reopen \/ UNCHANGED vars
  BY <1>9 DEF Stop, Reopen, vars
<1>10. QED
  BY <1>2, <1>3, <1>5, <1>6, <1>7, <1>8, <1>9 DEF Next

\* The configuration of an edge never changes.
LEMMA CfgFixed == [Next]_vars => cfg' = cfg
BY DEF Next, vars, Push, PushWait, PushReturn, Pop, PopWait, PopReturn, Stop, Reopen

\* FifoNoLoss and OnlyDropOldestDiscards hold in every reachable state: what
\* push accepted leaves by the front, in order, and only DropOldest throws an
\* accepted event away, however waits, timeouts, stops and reopens interleave.
THEOREM EdgeQueueFifo == Spec => [](FifoNoLoss /\ OnlyDropOldestDiscards)
<1>1. Init => FifoNoLoss /\ OnlyDropOldestDiscards
  BY DEF Init, FifoNoLoss, OnlyDropOldestDiscards
<1>2. Shape /\ FifoNoLoss /\ OnlyDropOldestDiscards /\ [Next]_vars
      => (FifoNoLoss /\ OnlyDropOldestDiscards)'
  BY HistoryStep, CfgFixed DEF FifoNoLoss, OnlyDropOldestDiscards
<1>3. QED
  BY <1>1, <1>2, ShapeInit, ShapeStep, PTL DEF Spec

\* No push succeeds on a stopped edge, a push that was waiting included.
THEOREM EdgeQueueStopIsFirm == Spec => NothingEntersWhileStopped
<1>1. Shape /\ [Next]_vars => [stopped => accepted' = accepted]_vars
  BY HistoryStep
<1>2. QED
  BY <1>1, ShapeInit, ShapeStep, PTL DEF Spec, NothingEntersWhileStopped

-----------------------------------------------------------------------------
\* A waiting producer's event is fresh, and stays the only one of its number.
LEMMA FreshStep ==
    ASSUME Shape, WaitersHoldFreshEvents, AcceptedOnce, [Next]_vars
    PROVE  WaitersHoldFreshEvents' /\ AcceptedOnce'
<1> USE DEF WaitersHoldFreshEvents, AcceptedOnce, NoEvent
<1>0. Events \subseteq Nat \ {0}
  BY MaxEventsAssumption DEF Events
<1>1. /\ offered \in Nat /\ accepted \in Seq(Events)
      /\ pushing \in [Producers -> Events \cup {0}]
      /\ \A p \in Producers : pushing[p] \in Nat
      /\ \A i \in DOMAIN accepted : accepted[i] \in Nat /\ accepted[i] # 0
  <2>1. /\ offered \in 0..MaxEvents /\ accepted \in Seq(Events)
        /\ pushing \in [Producers -> Events \cup {0}]
    BY DEF Shape, TypeOK
  <2>2. \A i \in DOMAIN accepted : accepted[i] \in Events
    BY <2>1
  <2>3. offered \in Nat
    BY <2>1, MaxEventsAssumption
  <2>4. ASSUME NEW p \in Producers PROVE pushing[p] \in Nat
    <3>1. pushing[p] \in Events \cup {0}
      BY <2>1
    <3>2. Events \subseteq Nat /\ 0 \in Nat
      BY MaxEventsAssumption DEF Events
    <3>3. QED
      BY ONLY <3>1, <3>2
  <2>5. QED
    BY <1>0, <2>1, <2>2, <2>3, <2>4
<1>2. ASSUME NEW e, accepted' = Append(accepted, e)
      PROVE  /\ DOMAIN accepted' = 1..(Len(accepted) + 1)
             /\ DOMAIN accepted = 1..Len(accepted)
             /\ \A i \in DOMAIN accepted : accepted'[i] = accepted[i]
             /\ accepted'[Len(accepted) + 1] = e
  BY <1>1, <1>2
<1>3. CASE \E p \in Producers : Push(p)
  <2>1. offered' = offered + 1 /\ pushing' = pushing
    BY <1>3 DEF Push
  <2>2. CASE accepted' = accepted
    BY <1>1, <2>1, <2>2
  <2>3. CASE accepted' = Append(accepted, offered + 1)
    BY <1>1, <1>2, <2>1, <2>3
  <2>4. QED
    BY <1>3, <2>2, <2>3 DEF Push, Accept, Refuse
<1>4. CASE \E p \in Producers : PushWait(p)
  BY <1>1, <1>4 DEF PushWait, Refuse
<1>5. ASSUME NEW p \in Producers, PushReturn(p)
      PROVE  WaitersHoldFreshEvents' /\ AcceptedOnce'
  <2>1. offered' = offered /\ pushing' = [pushing EXCEPT ![p] = 0] /\ pushing[p] # 0
    BY <1>5 DEF PushReturn
  <2>2. CASE accepted' = accepted
    BY <1>1, <2>1, <2>2
  <2>3. CASE accepted' = Append(accepted, pushing[p])
    BY <1>1, <1>2, <2>1, <2>3
  <2>4. QED
    BY <1>5, <2>2, <2>3 DEF PushReturn, Accept, Refuse
<1>6. CASE UNCHANGED <<accepted, offered, pushing>>
  BY <1>6
<1>7. QED
  BY <1>3, <1>4, <1>5, <1>6
     DEF Next, vars, Pop, PopWait, PopReturn, Stop, Reopen

\* No event gets into the edge twice, although a push that waits enters by
\* another path than one that does not.
THEOREM EdgeQueueAcceptedOnce == Spec => []AcceptedOnce
<1>1. Init => WaitersHoldFreshEvents /\ AcceptedOnce
  BY DEF Init, WaitersHoldFreshEvents, AcceptedOnce, NoEvent
<1>2. Shape /\ WaitersHoldFreshEvents /\ AcceptedOnce /\ [Next]_vars
      => WaitersHoldFreshEvents' /\ AcceptedOnce'
  BY FreshStep
<1>3. QED
  BY <1>1, <1>2, ShapeInit, ShapeStep, PTL DEF Spec

-----------------------------------------------------------------------------
\* The events that have entered, after one more and after none.
LEMMA EnteredStep ==
    ASSUME NEW e, accepted \in Seq(Events), accepted' = Append(accepted, e)
    PROVE  {accepted'[i] : i \in DOMAIN accepted'} = {accepted[i] : i \in DOMAIN accepted} \cup {e}
<1>1. /\ DOMAIN accepted' = DOMAIN accepted \cup {Len(accepted) + 1}
      /\ \A i \in DOMAIN accepted : accepted'[i] = accepted[i]
      /\ accepted'[Len(accepted) + 1] = e
  OBVIOUS
<1>2. QED
  BY ONLY <1>1

\* A push that is accepted on an open edge is a step of the channel.
LEMMA AcceptEnters ==
    ASSUME Shape, NEW e \in Events, Accept(e), ~stopped,
           UNCHANGED <<cfg, stopped>>,
           QueueFull => cfg.drop_policy = DropOldest,
           \A i \in DOMAIN accepted : accepted[i] # e
    PROVE  Channel!Enter(e)
<1>1. /\ cfg.capacity \in Nat /\ queue \in Seq(Events) /\ Len(queue) <= cfg.capacity
      /\ accepted \in Seq(Events)
  BY Ranges DEF Shape, TypeOK, Bounded
<1>2. {accepted'[i] : i \in DOMAIN accepted'} = {accepted[i] : i \in DOMAIN accepted} \cup {e}
  BY <1>1, EnteredStep DEF Accept
<1>3. e \notin {accepted[i] : i \in DOMAIN accepted}
  OBVIOUS
<1>4. CASE QueueFull
  <2>1. Len(queue) = cfg.capacity
    BY <1>1, <1>4 DEF QueueFull, Full
  <2>2. queue' = Append(Tail(queue), e) /\ evicted' = evicted \cup {Head(queue)}
    BY <1>4 DEF Accept, PushBack, QueueFull
  <2>3. cfg.drop_policy = "drop_oldest"
    BY <1>4 DEF DropOldest
  <2>4. QED
    BY <1>2, <1>3, <2>1, <2>2, <2>3 DEF Channel!Enter
<1>5. CASE ~QueueFull
  <2>1. Len(queue) < cfg.capacity
    BY <1>1, <1>5 DEF QueueFull, Full
  <2>2. queue' = Append(queue, e) /\ evicted' = evicted
    BY <1>5 DEF Accept, PushBack, QueueFull
  <2>3. QED
    BY <1>2, <1>3, <2>1, <2>2 DEF Channel!Enter
<1>6. QED
  BY <1>4, <1>5

\* Every step of the queue is a step of the channel, or the channel stutters.
LEMMA ChannelStep ==
    ASSUME Shape, WaitersHoldFreshEvents, [Next]_vars
    PROVE  [Channel!Next]_(Channel!channelVars)
<1>0. /\ offered \in 0..MaxEvents /\ pushing \in [Producers -> Events \cup {NoEvent}]
      /\ accepted \in Seq(Events)
  BY DEF Shape, TypeOK
<1>a. ASSUME UNCHANGED <<cfg, stopped, queue, accepted, evicted>>
      PROVE  UNCHANGED Channel!channelVars
  BY <1>a DEF Channel!channelVars
<1>b. ASSUME Take, UNCHANGED <<cfg, stopped, accepted, evicted>>
      PROVE  Channel!Next
  BY <1>b DEF Take, Channel!Next, Channel!Leave
<1>1. ASSUME NEW p \in Producers, Push(p)
      PROVE  [Channel!Next]_(Channel!channelVars)
  <2>1. CASE Refuse
    BY <1>1, <2>1, <1>a DEF Push, Refuse
  <2>2. CASE ~Refuse
    <3>1. /\ ~stopped /\ Accept(offered + 1) /\ UNCHANGED <<cfg, stopped>>
          /\ QueueFull => cfg.drop_policy = DropOldest
      BY <1>1, <2>2 DEF Push
    <3>2. offered + 1 \in Events
      BY <1>0, <1>1, Ranges DEF Push
    <3>3. ASSUME NEW i \in DOMAIN accepted PROVE accepted[i] # offered + 1
      <4>1. accepted[i] <= offered
        BY DEF WaitersHoldFreshEvents
      <4>2. accepted[i] \in Nat /\ offered \in Nat
        BY <1>0, MaxEventsAssumption DEF Events
      <4>3. QED
        BY <4>1, <4>2
    <3>4. PICK e \in Events : e = offered + 1
      BY <3>2
    <3>5. Accept(e) /\ \A i \in DOMAIN accepted : accepted[i] # e
      BY <3>1, <3>3, <3>4 DEF Accept
    <3>6. Channel!Enter(e)
      BY <3>1, <3>5, AcceptEnters
    <3>7. QED
      BY <3>6 DEF Channel!Next
  <2>3. QED
    BY <2>1, <2>2
<1>2. ASSUME NEW p \in Producers, PushWait(p)
      PROVE  [Channel!Next]_(Channel!channelVars)
  BY <1>2, <1>a DEF PushWait, Refuse
<1>3. ASSUME NEW p \in Producers, PushReturn(p)
      PROVE  [Channel!Next]_(Channel!channelVars)
  <2>1. CASE Refuse
    BY <1>3, <2>1, <1>a DEF PushReturn, Refuse
  <2>2. CASE ~Refuse
    <3>1. ~stopped /\ ~QueueFull /\ Accept(pushing[p]) /\ UNCHANGED <<cfg, stopped>>
      BY <1>3, <2>2 DEF PushReturn
    <3>2. pushing[p] \in Events
      BY <1>0, <1>3 DEF PushReturn
    <3>3. \A i \in DOMAIN accepted : accepted[i] # pushing[p]
      BY DEF WaitersHoldFreshEvents
    <3>4. PICK e \in Events : e = pushing[p]
      BY <3>2
    <3>5. Accept(e) /\ \A i \in DOMAIN accepted : accepted[i] # e
      BY <3>1, <3>3, <3>4 DEF Accept
    <3>6. Channel!Enter(e)
      BY <3>1, <3>5, AcceptEnters
    <3>7. QED
      BY <3>6 DEF Channel!Next
  <2>3. QED
    BY <2>1, <2>2
<1>4. ASSUME NEW c \in Consumers, Pop(c) \/ PopWait(c) \/ PopReturn(c)
      PROVE  [Channel!Next]_(Channel!channelVars)
  BY <1>4, <1>a, <1>b DEF Pop, PopWait, PopReturn
<1>5. ASSUME Stop \/ Reopen
      PROVE  Channel!Next
  BY <1>5 DEF Stop, Reopen, Channel!Next, Channel!OpenOrClose
<1>6. ASSUME UNCHANGED vars
      PROVE  UNCHANGED Channel!channelVars
  BY <1>6, <1>a DEF vars
<1>7. QED
  BY <1>1, <1>2, <1>3, <1>4, <1>5, <1>6 DEF Next

\* The edge with its threads, waits, timeouts and stops implements the bounded
\* channel, for any number of threads and any capacity.
THEOREM EdgeQueueImplementsChannel == Spec => ImplementsChannel
<1>1. Init => Channel!Init
  <2>1. ASSUME Init PROVE {accepted[i] : i \in DOMAIN accepted} = {}
    BY <2>1 DEF Init
  <2>2. QED
    BY <2>1 DEF Init, Channel!Init
<1>2. Init => WaitersHoldFreshEvents /\ AcceptedOnce
  BY DEF Init, WaitersHoldFreshEvents, AcceptedOnce, NoEvent
<1>3. Shape /\ WaitersHoldFreshEvents /\ AcceptedOnce /\ [Next]_vars
      => WaitersHoldFreshEvents' /\ AcceptedOnce'
  BY FreshStep
<1>4. Shape /\ WaitersHoldFreshEvents /\ [Next]_vars => [Channel!Next]_(Channel!channelVars)
  BY ChannelStep
<1>5. QED
  BY <1>1, <1>2, <1>3, <1>4, ShapeInit, ShapeStep, PTL DEF Spec, ImplementsChannel, Channel!Spec
=============================================================================
