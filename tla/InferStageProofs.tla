--------------------------- MODULE InferStageProofs ---------------------------
(***************************************************************************)
(* What the infer stage promises for any number of workers, streams and    *)
(* frames, any batch size and queue bound, and any devices.                *)
(*                                                                         *)
(* StopIsClean: stop() ends its threads in an order, the graph thread (by  *)
(* GraphExecutor), the flush thread, the workers; a thread that has ended  *)
(* stays ended until the next start(), so each later phase of stop() knows *)
(* all the earlier threads gone, and what they alone could fill stays      *)
(* empty.                                                                  *)
(*                                                                         *)
(* ResultsMeetTheirFrames: an entry is always filed under the key of its   *)
(* frame, so what a result finds has the key of the frame it was inferred  *)
(* from; without a reconnect or a restart the key determines the frame.    *)
(*                                                                         *)
(* EmittedAtMostOnce: the event of a frame is in one place only, wherever  *)
(* it is on its way from pending_events_ to the next stage, and a place it *)
(* leaves keeps no copy.                                                   *)
(*                                                                         *)
(* NoResultBeforeRecord: each frame gets one result, so while that result  *)
(* is due nobody but the flush thread or another batch can have taken the  *)
(* entry that was recorded before the batch was handed on.                 *)
(***************************************************************************)
EXTENDS InferStage, SequenceTheorems, WellFoundedInduction, TLAPS

-----------------------------------------------------------------------------
(* Minima and maxima. *)

Less == {ss \in Nat \X Nat : ss[1] < ss[2]}

\* The order of the naturals, as a set of pairs, is well-founded.
LEMMA LessWellFounded == IsWellFoundedOn(Less, Nat)
<1>1. Less = OpToRel(<, Nat)
  BY Zenon DEF Less, OpToRel
<1>. QED
  BY <1>1, NatLessThanWellFounded, Zenon

\* What a minimal element for Less is.
LEMMA NotLess ==
  ASSUME NEW x \in Nat, NEW y \in Nat, ~(<<y, x>> \in Less)
  PROVE  x <= y
<1>1. <<y, x>> \in Nat \X Nat /\ <<y, x>>[1] = y /\ <<y, x>>[2] = x
  OBVIOUS
<1>2. ~(y < x)
  BY <1>1 DEF Less
<1>. QED
  BY <1>2

\* A nonempty set of naturals has a least element, and Min is it.
LEMMA MinNat ==
  ASSUME NEW T \in SUBSET Nat, T # {}
  PROVE  Min(T) \in T /\ \A y \in T : Min(T) <= y
<1>1. PICK x \in T : \A y \in T : ~(<<y, x>> \in Less)
  BY LessWellFounded, WFMin
<1>2. \A y \in T : x <= y
  BY <1>1, NotLess
<1>. QED
  BY <1>2 DEF Min

\* A nonempty set of positions up to n has a greatest element, and Max is it.
LEMMA MaxPosition ==
  ASSUME NEW n \in Nat, NEW T \in SUBSET (1..n), T # {}
  PROVE  Max(T) \in T /\ \A y \in T : Max(T) >= y
<1>. DEFINE U == {n - i : i \in T}
<1>1. U \in SUBSET Nat /\ U # {}
  <2>1. \A i \in T : n - i \in Nat
    OBVIOUS
  <2>. QED
    BY <2>1
<1>2. PICK x \in U : \A y \in U : ~(<<y, x>> \in Less)
  BY <1>1, LessWellFounded, WFMin
<1>3. \A y \in U : x <= y
  BY <1>1, <1>2, NotLess
<1>4. PICK m \in T : x = n - m
  OBVIOUS
<1>5. \A y \in T : m >= y
  <2>. TAKE y \in T
  <2>1. n - y \in U
    OBVIOUS
  <2>2. n - m <= n - y
    BY <2>1, <1>3, <1>4
  <2>. QED
    BY <2>2
<1>. QED
  BY <1>5 DEF Max

\* Min and Max of two naturals.
LEMMA MinMaxPair ==
  ASSUME NEW a \in Nat, NEW b \in Nat
  PROVE  /\ Min({a, b}) = IF a <= b THEN a ELSE b
         /\ Max({a, b}) = IF a >= b THEN a ELSE b
<1>1. Min({a, b}) \in {a, b} /\ \A y \in {a, b} : Min({a, b}) <= y
  BY MinNat
<1>2. \E x \in {a, b} : \A y \in {a, b} : x >= y
  OBVIOUS
<1>3. Max({a, b}) \in {a, b} /\ \A y \in {a, b} : Max({a, b}) >= y
  BY <1>2 DEF Max
<1>. QED
  BY <1>1, <1>3

-----------------------------------------------------------------------------
(* Types. *)

\* What the proofs use of the assumption on the constants.
LEMMA ConstantTypes ==
  /\ N \in Nat \ {0} /\ 0 \in Workers
  /\ BatchSize \in Nat \ {0} /\ KMaxQueueSize \in Nat \ {0}
  /\ MaxTier \in Nat \ {0} /\ RestoreThreshold \in Nat \ {0}
  /\ MaxSeq \in Nat /\ MaxConn \in Nat /\ MaxRuns \in Nat
BY StageAssumption DEF Workers

\* The front and the rest of a sequence.
LEMMA FrontAndRest ==
  ASSUME NEW S, NEW q \in Seq(S), NEW n \in Nat, n <= Len(q)
  PROVE  /\ SubSeq(q, 1, n) \in Seq(S) /\ SubSeq(q, n + 1, Len(q)) \in Seq(S)
         /\ Len(SubSeq(q, 1, n)) = n /\ Len(SubSeq(q, n + 1, Len(q))) = Len(q) - n
<1>1. SubSeq(q, 1, n) \in Seq(S)
  BY SMT
<1>2. SubSeq(q, n + 1, Len(q)) \in Seq(S)
  BY SMT
<1>3. Len(SubSeq(q, 1, n)) = n
  BY SMT
<1>4. Len(SubSeq(q, n + 1, Len(q))) = Len(q) - n
  BY SMT
<1>. QED
  BY <1>1, <1>2, <1>3, <1>4

\* extractBatch() takes a front of the deque that is not empty if the deque is
\* not, and leaves the rest.
LEMMA ExtractFacts ==
  ASSUME NEW S, NEW q \in Seq(S), q # <<>>,
         NEW n, n = Min({Len(q), BatchSize})
  PROVE  /\ n \in Nat \ {0} /\ n <= Len(q) /\ n <= BatchSize
         /\ n < BatchSize => n = Len(q)
         /\ SubSeq(q, 1, n) \in Seq(S) /\ Len(SubSeq(q, 1, n)) = n
         /\ SubSeq(q, n + 1, Len(q)) \in Seq(S)
         /\ Len(SubSeq(q, n + 1, Len(q))) = Len(q) - n
<1>1. Len(q) \in Nat \ {0}
  BY EmptySeq, LenProperties
<1>2. n = IF Len(q) <= BatchSize THEN Len(q) ELSE BatchSize
  BY <1>1, ConstantTypes, MinMaxPair
<1>3. n \in Nat \ {0} /\ n <= Len(q) /\ n <= BatchSize /\ (n < BatchSize => n = Len(q))
  BY <1>1, <1>2, ConstantTypes
<1>4. n \in Nat /\ n <= Len(q)
  BY <1>3
<1>. QED
  BY <1>3, <1>4, FrontAndRest

\* extractBatch() keeps the types of what it changes.
LEMMA ExtractType ==
  ASSUME TypeOK, NEW p \in Senders, NEW q \in Seq(Frames), q # <<>>, ExtractBatch(p, q)
  PROVE  /\ pending' \in Seq(Frames)
         /\ sender' \in [Senders -> SenderRecords]
         /\ deadline' \in BOOLEAN
<1>. DEFINE n == Min({Len(q), BatchSize})
<1>1. SubSeq(q, 1, n) \in Seq(Frames) /\ SubSeq(q, n + 1, Len(q)) \in Seq(Frames)
  BY ExtractFacts
<1>2. [pc |-> "insert", batch |-> SubSeq(q, 1, n), to |-> 0] \in SenderRecords
  BY <1>1, ConstantTypes DEF SenderRecords
<1>. QED
  BY <1>1, <1>2 DEF ExtractBatch, TypeOK

\* process() up to the unlock keeps types.
LEMMA GatherType ==
  ASSUME TypeOK, NEW q \in Seq(Frames), Gather(q)
  PROVE  /\ pending' \in Seq(Frames)
         /\ sender' \in [Senders -> SenderRecords]
         /\ deadline' \in BOOLEAN
<1>1. CASE q # <<>> /\ ExtractBatch("graph", q)
  BY <1>1, ExtractType DEF Senders
<1>2. CASE pending' = q /\ UNCHANGED <<deadline, sender>>
  BY <1>2 DEF TypeOK
<1>. QED
  BY <1>1, <1>2 DEF Gather

\* The deque after a frame has been added to it.
LEMMA AddPendingType ==
  ASSUME TypeOK, NEW f \in Frames
  PROVE  AddPending(f) \in Seq(Frames)
<1>1. Len(pending) \in Nat
  BY LenProperties DEF TypeOK
<1>2. MaxPending \in Nat \ {0}
  <2>1. Max({2, BatchSize}) = IF 2 >= BatchSize THEN 2 ELSE BatchSize
    BY ConstantTypes, MinMaxPair
  <2>. QED
    BY <2>1, ConstantTypes DEF MaxPending
<1>3. Len(pending) >= MaxPending => Tail(pending) \in Seq(Frames)
  BY <1>1, <1>2, EmptySeq, HeadTailProperties DEF TypeOK
<1>. QED
  BY <1>3 DEF AddPending, TypeOK

\* flushToWorkers() records frames under their own keys.
LEMMA InsertFacts ==
  ASSUME NEW b \in Seq(Frames), NEW k \in {Key(f) : f \in BatchFrames(b)}
  PROVE  LET last == b[Max({i \in 1..Len(b) : Key(b[i]) = k})]
         IN  last \in Frames /\ Key(last) = k /\ k \in Keys
<1>. DEFINE T == {i \in 1..Len(b) : Key(b[i]) = k}
<1>1. Len(b) \in Nat
  OBVIOUS
<1>2. PICK i \in 1..Len(b) : k = Key(b[i])
  BY DEF BatchFrames
<1>3. T \in SUBSET (1..Len(b)) /\ T # {}
  BY <1>2
<1>. HIDE DEF T
<1>4. Max(T) \in T
  BY <1>1, <1>3, MaxPosition
<1>5. Max(T) \in 1..Len(b) /\ Key(b[Max(T)]) = k
  BY <1>4 DEF T
<1>6. b[Max(T)] \in Frames
  BY <1>5
<1>7. k \in Keys
  BY <1>5, <1>6 DEF Key, Keys, Frames
<1>. QED
  BY <1>5, <1>6, <1>7 DEF T

\* Round-robin ends at a worker of the set it was given.
LEMMA RoundRobinInside ==
  ASSUME TypeOK, NEW S \in SUBSET Workers
  PROVE  RoundRobin(S) \subseteq S
<1>. SUFFICES ASSUME S # {} PROVE RoundRobin(S) \subseteq S
  BY DEF RoundRobin
<1>. DEFINE T == {i \in Workers : (rr + i) % N \in S}
<1>1. T \subseteq Nat
  BY DEF Workers
<1>2. T # {}
  <2>1. PICK w \in S : TRUE
    OBVIOUS
  <2>2. w \in 0..N-1 /\ rr \in 0..N-1 /\ N \in Nat \ {0}
    BY ConstantTypes DEF TypeOK, Workers
  <2>3. CASE w >= rr
    <3>1. w - rr \in Workers /\ rr + (w - rr) = w /\ w % N = w
      BY <2>2, <2>3 DEF Workers
    <3>. QED
      BY <3>1
  <2>4. CASE w < rr
    <3>1. N + w - rr \in Workers /\ rr + (N + w - rr) = N + w
      BY <2>2, <2>4 DEF Workers
    <3>2. (N + w) % N = w
      BY <2>2
    <3>. QED
      BY <3>1, <3>2
  <2>. QED
    BY <2>2, <2>3, <2>4
<1>. HIDE DEF T
<1>3. Min(T) \in T
  BY <1>1, <1>2, MinNat
<1>4. (rr + Min(T)) % N \in S
  BY <1>3 DEF T
<1>. QED
  BY <1>4 DEF RoundRobin, T

\* The records that threads return to.
LEMMA RestRecords ==
  /\ Idle \in SenderRecords
  /\ Off \in WorkRecords /\ Wait \in WorkRecords
  /\ FullPolicy \in Policies
  /\ \A p \in Senders : Sent(p) \in SenderRecords
<1>1. Idle \in SenderRecords
  BY ConstantTypes DEF Idle, SenderRecords
<1>2. \A p \in Senders : Sent(p) \in SenderRecords
  BY <1>1 DEF Sent, SenderRecords
<1>3. Off \in WorkRecords
  BY DEF Off, WorkRecords
<1>4. Wait \in WorkRecords
  BY <1>3 DEF Wait, WorkRecords
<1>5. FullPolicy \in Policies
  BY ConstantTypes DEF FullPolicy, Policies
<1>. QED
  BY <1>1, <1>2, <1>3, <1>4, <1>5

\* BatchPolicy stays within its tiers.
LEMMA PolicyType ==
  ASSUME NEW x \in Policies
  PROVE  OnOOM(x) \in Policies /\ OnSuccess(x) \in Policies
<1>. DEFINE h == x.max \div 2
            d == x.max * 2
<1>1. x.max \in 1..MaxTier /\ x.streak \in 0..RestoreThreshold-1
  BY DEF Policies
<1>2. h \in Nat /\ h <= MaxTier /\ d \in Nat \ {0}
  BY <1>1, ConstantTypes
<1>. HIDE DEF h, d
<1>3. Max({1, h}) = IF 1 >= h THEN 1 ELSE h
  BY <1>2, MinMaxPair
<1>4. Min({MaxTier, d}) = IF MaxTier <= d THEN MaxTier ELSE d
  BY <1>2, ConstantTypes, MinMaxPair
<1>5. Max({1, h}) \in 1..MaxTier /\ Min({MaxTier, d}) \in 1..MaxTier
  BY <1>2, <1>3, <1>4, ConstantTypes
<1>6. 0 \in 0..RestoreThreshold-1
  BY ConstantTypes
<1>7. OnOOM(x) \in Policies
  BY <1>5, <1>6 DEF OnOOM, Policies, h
<1>8. CASE x.streak + 1 >= RestoreThreshold
  BY <1>5, <1>6, <1>7, <1>8 DEF OnSuccess, Policies, d
<1>9. CASE ~(x.streak + 1 >= RestoreThreshold)
  <2>1. x.streak + 1 \in 0..RestoreThreshold-1
    BY <1>1, <1>9, ConstantTypes
  <2>2. OnSuccess(x) = [x EXCEPT !.streak = x.streak + 1]
    BY <1>9 DEF OnSuccess
  <2>. QED
    BY <1>7, <2>1, <2>2 DEF Policies
<1>. QED
  BY <1>7, <1>8, <1>9

\* A worker going back to the top of its loop, or to its next result.
LEMMA LoopTopType ==
  ASSUME TypeOK, NEW w \in Workers, LoopTop(w)
  PROVE  work' \in [Workers -> WorkRecords]
BY RestRecords DEF LoopTop, TypeOK

\* Going on to the next frame, or ending the batch, keeps the records typed.
LEMMA NextResultType ==
  ASSUME TypeOK, NEW w \in Workers, NextResult(w)
  PROVE  work' \in [Workers -> WorkRecords] /\ policy' \in [Workers -> Policies]
<1>1. CASE work[w].at < Len(work[w].batch)
  <2>. DEFINE r == [work[w] EXCEPT !.pc = "publish", !.at = @ + 1, !.entry = <<>>]
  <2>1. work' = [work EXCEPT ![w] = r] /\ policy' = policy
    BY <1>1 DEF NextResult, TypeOK
  <2>2. work[w] \in WorkRecords /\ work[w].at + 1 \in Nat /\ <<>> \in Seq(Frames)
    BY DEF TypeOK, WorkRecords
  <2>3. r \in WorkRecords
    BY <2>2 DEF WorkRecords
  <2>. HIDE DEF r
  <2>. QED
    BY <2>1, <2>3 DEF TypeOK
<1>2. CASE ~(work[w].at < Len(work[w].batch))
  <2>1. LoopTop(w) /\ policy' = [policy EXCEPT ![w] = OnSuccess(policy[w])]
    BY <1>2 DEF NextResult
  <2>2. OnSuccess(policy[w]) \in Policies
    BY PolicyType DEF TypeOK
  <2>3. work' \in [Workers -> WorkRecords]
    BY <2>1, LoopTopType
  <2>. QED
    BY <2>1, <2>2, <2>3 DEF TypeOK
<1>. QED
  BY <1>1, <1>2

\* The initial state is well typed.
LEMMA InitType == Init => TypeOK
<1>. SUFFICES ASSUME Init PROVE TypeOK
  OBVIOUS
<1>1. sender \in [Senders -> SenderRecords] /\ work \in [Workers -> WorkRecords]
      /\ policy \in [Workers -> Policies]
  BY RestRecords DEF Init
<1>2. DOMAIN inflight = {} /\ inflight \in [DOMAIN inflight -> Entries]
  BY DEF Init
<1>3. source \in [Streams -> [seq : 0..MaxSeq+1, conn : 0..MaxConn]] /\ rr \in Workers
      /\ runs \in 0..MaxRuns /\ ctl \in CtlRecords
  BY ConstantTypes DEF Init, CtlRecords
<1>4. pending \in Seq(Frames) /\ queue \in [Workers -> Seq(Seq(Frames))]
  BY DEF Init
<1>5. /\ state \in [Workers -> {"RUNNING", "RECOVERING", "STOPPED"}]
      /\ loaded \in [Workers -> BOOLEAN] /\ stopFlag \in [Workers -> BOOLEAN]
      /\ deadline \in BOOLEAN /\ draining \in BOOLEAN /\ flushStop \in BOOLEAN
  BY DEF Init
<1>. QED
  BY <1>1, <1>2, <1>3, <1>4, <1>5 DEF TypeOK

\* The graph thread and the flush thread keep types.
LEMMA SendersKeepType ==
  ASSUME TypeOK, Process \/ SendBatch("graph") \/ FlushLoop
  PROVE  TypeOK'
<1>1. CASE ProcessNoFrame
  <2>1. pending \in Seq(Frames)
    BY DEF TypeOK
  <2>. QED
    BY <2>1, <1>1, GatherType DEF ProcessNoFrame, TypeOK, groupVars, ctlVars, histVars
<1>2. ASSUME NEW s \in Streams, ProcessFrame(s) PROVE TypeOK'
  <2>. DEFINE f == [stream |-> s, seq |-> source[s].seq, conn |-> source[s].conn]
  <2>1. source[s].seq \in 0..MaxSeq /\ source[s].conn \in 0..MaxConn
    BY <1>2, ConstantTypes DEF ProcessFrame, TypeOK
  <2>2. AddPending(f) \in Seq(Frames)
    BY <2>1, AddPendingType DEF Frames
  <2>3. Gather(AddPending(f))
    BY <1>2 DEF ProcessFrame
  <2>4. source' \in [Streams -> [seq : 0..MaxSeq+1, conn : 0..MaxConn]]
    <3>1. source[s].seq + 1 \in 0..MaxSeq+1
      BY <2>1, ConstantTypes
    <3>. QED
      BY <1>2, <2>1, <3>1 DEF ProcessFrame, TypeOK
  <2>. HIDE DEF f
  <2>5. /\ pending' \in Seq(Frames) /\ sender' \in [Senders -> SenderRecords]
        /\ deadline' \in BOOLEAN
    BY <2>2, <2>3, GatherType
  <2>. QED
    BY <1>2, <2>4, <2>5 DEF ProcessFrame, TypeOK, groupVars, ctlVars, histVars
<1>3. CASE FlushWake
  <2>1. /\ pending' \in Seq(Frames) /\ sender' \in [Senders -> SenderRecords]
        /\ deadline' \in BOOLEAN
    <3>1. CASE pending # <<>> /\ ExtractBatch("flush", pending)
      <4>1. pending \in Seq(Frames) /\ "flush" \in Senders
        BY DEF TypeOK, Senders
      <4>. QED
        BY <3>1, <4>1, ExtractType
    <3>2. CASE /\ sender' = [sender EXCEPT !["flush"] = Idle]
               /\ UNCHANGED <<pending, deadline>>
      BY <3>2, RestRecords DEF TypeOK
    <3>3. CASE /\ sender' = [sender EXCEPT !["flush"].pc = "sweep"]
               /\ UNCHANGED <<pending, deadline>>
      BY <3>3 DEF TypeOK, SenderRecords
    <3>. QED
      BY <1>3, <3>1, <3>2, <3>3 DEF FlushWake
  <2>. QED
    BY <1>3, <2>1 DEF FlushWake, TypeOK, groupVars, ctlVars, histVars
<1>4. CASE Sweep
  <2>1. sender' \in [Senders -> SenderRecords]
    <3>1. sender' = [sender EXCEPT !["flush"].pc = "wait"]
      BY <1>4 DEF Sweep
    <3>. QED
      BY <3>1 DEF TypeOK, SenderRecords
  <2>2. DOMAIN inflight' \subseteq Keys /\ inflight' \in [DOMAIN inflight' -> Entries]
    BY <1>4 DEF Sweep, TypeOK
  <2>. QED
    BY <1>4, <2>1, <2>2 DEF Sweep, TypeOK, groupVars, ctlVars
<1>5. ASSUME NEW p \in Senders, InsertInflight(p) PROVE TypeOK'
  <2>. DEFINE b == sender[p].batch
              last(k) == b[Max({i \in 1..Len(b) : Key(b[i]) = k})]
              new == {Key(f) : f \in BatchFrames(b)}
  <2>1. b \in Seq(Frames)
    BY DEF TypeOK, SenderRecords
  <2>2. \A k \in new : last(k) \in Frames /\ k \in Keys
    BY <2>1, InsertFacts
  <2>3. sender' \in [Senders -> SenderRecords]
    <3>1. sender' = [sender EXCEPT ![p].pc = "route"]
      BY <1>5 DEF InsertInflight
    <3>. QED
      BY <3>1 DEF TypeOK, SenderRecords
  <2>4. inflight' = [k \in new \cup DOMAIN inflight |->
           IF k \in new THEN [frame |-> last(k), stale |-> FALSE] ELSE inflight[k]]
    BY <1>5 DEF InsertInflight
  <2>. HIDE DEF b, last, new
  <2>5. \A k \in new : [frame |-> last(k), stale |-> FALSE] \in Entries
    BY <2>2 DEF Entries
  <2>6. DOMAIN inflight' \subseteq Keys /\ inflight' \in [DOMAIN inflight' -> Entries]
    BY <2>2, <2>4, <2>5 DEF TypeOK
  <2>. QED
    BY <1>5, <2>3, <2>6 DEF InsertInflight, TypeOK, groupVars, ctlVars
<1>6. ASSUME NEW p \in Senders, Route(p) PROVE TypeOK'
  <2>1. Target(sender[p].batch) \subseteq Workers
    BY RoundRobinInside DEF Target
  <2>2. sender' \in [Senders -> SenderRecords]
    <3>1. ASSUME NEW w \in Target(sender[p].batch),
                 sender' = [sender EXCEPT ![p].pc = "push", ![p].to = w]
          PROVE  sender' \in [Senders -> SenderRecords]
      <4>. DEFINE r == [sender[p] EXCEPT !.pc = "push", !.to = w]
      <4>1. w \in Workers /\ sender[p] \in SenderRecords
        BY <2>1 DEF TypeOK
      <4>2. r \in SenderRecords
        BY <4>1 DEF SenderRecords
      <4>3. sender' = [sender EXCEPT ![p] = r]
        BY <3>1 DEF TypeOK
      <4>. HIDE DEF r
      <4>. QED
        BY <4>2, <4>3 DEF TypeOK
    <3>2. CASE sender' = [sender EXCEPT ![p] = Sent(p)]
      BY <3>2, RestRecords DEF TypeOK
    <3>. QED
      BY <1>6, <3>1, <3>2 DEF Route
  <2>3. rr' \in Workers
    BY <1>6, ConstantTypes DEF Route, TypeOK, Workers
  <2>. QED
    BY <1>6, <2>2, <2>3 DEF Route, TypeOK, ctlVars, histVars
<1>7. ASSUME NEW p \in Senders, Enqueue(p) PROVE TypeOK'
  <2>1. sender' \in [Senders -> SenderRecords]
    BY <1>7, RestRecords DEF Enqueue, TypeOK
  <2>2. sender[p].to \in Workers /\ sender[p].batch \in Seq(Frames)
    BY DEF TypeOK, SenderRecords
  <2>3. queue[sender[p].to] \in Seq(Seq(Frames))
    BY <2>2 DEF TypeOK
  <2>4. Append(queue[sender[p].to], sender[p].batch) \in Seq(Seq(Frames))
    BY <2>2, <2>3
  <2>5. queue' \in [Workers -> Seq(Seq(Frames))]
    BY <1>7, <2>2, <2>4 DEF Enqueue, TypeOK
  <2>. QED
    BY <1>7, <2>1, <2>5 DEF Enqueue, TypeOK, ctlVars, histVars
<1>. QED
  BY <1>1, <1>2, <1>3, <1>4, <1>5, <1>6, <1>7 DEF Process, SendBatch, FlushLoop, Senders

\* A worker thread keeps types.
LEMMA WorkersKeepType ==
  ASSUME TypeOK, NEW w \in Workers, WorkerLoop(w)
  PROVE  TypeOK'
<1>. USE DEF stageVars, ctlVars, histVars
<1>0. work[w] \in WorkRecords /\ work[w].batch \in Seq(Frames)
  BY DEF TypeOK, WorkRecords
<1>1. CASE Dequeue(w)
  <2>. DEFINE r == [work[w] EXCEPT !.pc = "infer", !.batch = Head(queue[w])]
  <2>1. Head(queue[w]) \in Seq(Frames) /\ Tail(queue[w]) \in Seq(Seq(Frames))
    BY <1>1, HeadTailProperties DEF Dequeue, TypeOK
  <2>2. r \in WorkRecords
    BY <1>0, <2>1 DEF WorkRecords
  <2>3. work' = [work EXCEPT ![w] = r] /\ queue' = [queue EXCEPT ![w] = Tail(queue[w])]
    BY <1>1 DEF Dequeue, TypeOK
  <2>. HIDE DEF r
  <2>. QED
    BY <1>1, <2>1, <2>2, <2>3 DEF Dequeue, TypeOK
<1>2. CASE WorkerExits(w)
  BY <1>2, RestRecords DEF WorkerExits, TypeOK
<1>3. CASE InferSucceeds(w)
  <2>. DEFINE r == [work[w] EXCEPT !.pc = "publish", !.at = 1]
  <2>1. r \in WorkRecords
    BY <1>0 DEF WorkRecords
  <2>2. work' = [work EXCEPT ![w] = r]
    BY <1>3 DEF InferSucceeds, TypeOK
  <2>. HIDE DEF r
  <2>. QED
    BY <1>3, <2>1, <2>2 DEF InferSucceeds, TypeOK
<1>4. CASE MemoryPressure(w)
  <2>1. [work[w] EXCEPT !.pc = "requeue"] \in WorkRecords
    BY <1>0 DEF WorkRecords
  <2>2. work' \in [Workers -> WorkRecords]
    BY <1>4, <2>1 DEF MemoryPressure, TypeOK
  <2>3. policy' \in [Workers -> Policies]
    BY <1>4, PolicyType DEF MemoryPressure, TypeOK
  <2>. QED
    BY <1>4, <2>2, <2>3 DEF MemoryPressure, TypeOK
<1>5. CASE InferThrows(w)
  BY <1>5, LoopTopType DEF InferThrows, TypeOK
<1>6. ASSUME NEW t \in Faults, GpuFault(w, t) PROVE TypeOK'
  <2>1. [Off EXCEPT !.pc = "recover", !.fault = t] \in WorkRecords
    <3>1. Off \in WorkRecords
      BY RestRecords
    <3>. QED
      BY <3>1 DEF WorkRecords
  <2>2. work' \in [Workers -> WorkRecords]
    BY <1>6, <2>1 DEF GpuFault, TypeOK
  <2>. QED
    BY <1>6, <2>2 DEF GpuFault, TypeOK
<1>7. CASE EnqueueHead(w)
  <2>1. <<work[w].batch>> \o queue[w] \in Seq(Seq(Frames))
    BY <1>0 DEF TypeOK
  <2>2. queue' \in [Workers -> Seq(Seq(Frames))]
    BY <1>7, <2>1 DEF EnqueueHead, TypeOK
  <2>. QED
    BY <1>7, <2>2, LoopTopType DEF EnqueueHead, TypeOK
<1>8. CASE RecoverAttempt(w)
  <2>1. CASE LoopTop(w)
    BY <1>8, <2>1, LoopTopType DEF RecoverAttempt, TypeOK
  <2>2. CASE work' = [work EXCEPT ![w].at = @ + 1] /\ UNCHANGED state
    <3>1. [work[w] EXCEPT !.at = @ + 1] \in WorkRecords
      BY <1>0 DEF WorkRecords
    <3>2. work' \in [Workers -> WorkRecords]
      BY <2>2, <3>1 DEF TypeOK
    <3>. QED
      BY <1>8, <2>2, <3>2 DEF RecoverAttempt, TypeOK
  <2>. QED
    BY <1>8, <2>1, <2>2 DEF RecoverAttempt
<1>9. CASE TakeEntry(w)
  <2>. DEFINE k == Key(work[w].batch[work[w].at])
  <2>1. CASE k \in DOMAIN inflight
    <3>. DEFINE r == [work[w] EXCEPT !.pc = "emit", !.entry = <<inflight[k].frame>>]
    <3>1. /\ inflight' = [j \in DOMAIN inflight \ {k} |-> inflight[j]]
          /\ policy' = policy
      BY <1>9, <2>1 DEF TakeEntry
    <3>2. work' = [work EXCEPT ![w] = r]
      BY <1>9, <2>1 DEF TakeEntry, TypeOK
    <3>3. inflight[k].frame \in Frames
      BY <2>1 DEF TypeOK, Entries
    <3>4. r \in WorkRecords
      <4>. DEFINE e == <<inflight[k].frame>>
      <4>1. e \in Seq(Frames)
        BY <3>3
      <4>. HIDE DEF e
      <4>2. [work[w] EXCEPT !.pc = "emit", !.entry = e] \in WorkRecords
        BY <1>0, <4>1 DEF WorkRecords
      <4>. QED
        BY <4>2 DEF e
    <3>. HIDE DEF r, k
    <3>5. work' \in [Workers -> WorkRecords]
      BY <3>2, <3>4 DEF TypeOK
    <3>6. DOMAIN inflight' \subseteq Keys /\ inflight' \in [DOMAIN inflight' -> Entries]
      BY <3>1 DEF TypeOK
    <3>. QED
      BY <1>9, <3>1, <3>5, <3>6 DEF TakeEntry, TypeOK
  <2>2. CASE k \notin DOMAIN inflight
    <3>1. NextResult(w) /\ inflight' = inflight
      BY <1>9, <2>2 DEF TakeEntry
    <3>. QED
      BY <1>9, <3>1, NextResultType DEF TakeEntry, TypeOK
  <2>. QED
    BY <2>1, <2>2
<1>10. CASE Emit(w)
  BY <1>10, NextResultType DEF Emit, TypeOK
<1>. QED
  BY <1>1, <1>2, <1>3, <1>4, <1>5, <1>6, <1>7, <1>8, <1>9, <1>10 DEF WorkerLoop

\* start(), draining and stop(), time and the sources keep types.
LEMMA ControlKeepsType ==
  ASSUME TypeOK,
         \/ DeadlinePasses \/ EntriesAge \/ Start \/ Drain \/ AbandonStart \/ Stop
         \/ \E w \in Workers : StartThrows(w)
         \/ \E s \in Streams : Reconnect(s)
  PROVE  TypeOK'
<1>. USE DEF stageVars, groupVars, ctlVars, histVars
<1>1. CASE DeadlinePasses
  BY <1>1 DEF DeadlinePasses, TypeOK
<1>2. CASE EntriesAge
  <2>1. DOMAIN inflight' \subseteq Keys /\ inflight' \in [DOMAIN inflight' -> Entries]
    BY <1>2 DEF EntriesAge, TypeOK, Entries
  <2>. QED
    BY <1>2, <2>1 DEF EntriesAge, TypeOK
<1>3. ASSUME NEW S \in SUBSET Workers, StartWorkers(S), runs < MaxRuns
      PROVE  /\ loaded' \in [Workers -> BOOLEAN] /\ stopFlag' \in [Workers -> BOOLEAN]
             /\ work' \in [Workers -> WorkRecords] /\ runs' \in 0..MaxRuns
             /\ draining' \in BOOLEAN /\ flushStop' \in BOOLEAN
  <2>1. work' \in [Workers -> WorkRecords]
    BY <1>3, RestRecords DEF StartWorkers, TypeOK
  <2>2. loaded' \in [Workers -> BOOLEAN] /\ stopFlag' \in [Workers -> BOOLEAN]
    BY <1>3 DEF StartWorkers, TypeOK
  <2>3. runs' \in 0..MaxRuns
    BY <1>3, ConstantTypes DEF StartWorkers, TypeOK
  <2>. QED
    BY <1>3, <2>1, <2>2, <2>3 DEF StartWorkers
<1>4. ASSUME NewConnections
      PROVE  source' \in [Streams -> [seq : 0..MaxSeq+1, conn : 0..MaxConn]]
  <2>1. CASE runs = 0
    BY <1>4, <2>1 DEF NewConnections, TypeOK
  <2>2. CASE runs # 0
    <3>1. \A s \in Streams : source[s].conn + 1 \in 0..MaxConn
      <4>. TAKE s \in Streams
      <4>1. source[s].conn \in 0..MaxConn /\ source[s].conn < MaxConn
        BY <1>4, <2>2 DEF NewConnections, TypeOK
      <4>. QED
        BY <4>1, ConstantTypes
    <3>2. 0 \in 0..MaxSeq+1
      BY ConstantTypes
    <3>. QED
      BY <1>4, <2>2, <3>1, <3>2 DEF NewConnections
  <2>. QED
    BY <2>1, <2>2
<1>5. CASE Start
  <2>1. sender' \in [Senders -> SenderRecords]
    BY <1>5 DEF Start, TypeOK, SenderRecords
  <2>2. ctl' \in CtlRecords
    BY <1>5 DEF Start, TypeOK, CtlRecords
  <2>. QED
    BY <1>3, <1>4, <1>5, <2>1, <2>2 DEF Start, TypeOK
<1>6. ASSUME NEW v \in Workers, StartThrows(v) PROVE TypeOK'
  <2>1. 0..v-1 \in SUBSET Workers
    <3>1. v \in Nat /\ v <= N - 1 /\ N \in Nat
      BY ConstantTypes DEF Workers
    <3>2. \A i \in 0..v-1 : i \in 0..N-1
      BY <3>1
    <3>. QED
      BY <3>2 DEF Workers
  <2>2. ctl' \in CtlRecords
    BY <1>6 DEF StartThrows, TypeOK, CtlRecords
  <2>. QED
    BY <1>3, <1>4, <1>6, <2>1, <2>2 DEF StartThrows, TypeOK
<1>7. CASE Drain
  BY <1>7 DEF Drain, TypeOK, CtlRecords
<1>8. CASE AbandonStart
  BY <1>8 DEF AbandonStart, TypeOK, CtlRecords
<1>9. CASE StopFlush
  BY <1>9 DEF StopFlush, TypeOK, CtlRecords
<1>10. CASE ClearPending
  <2>1. pending' \in Seq(Frames)
    BY <1>10 DEF ClearPending
  <2>2. ctl' \in CtlRecords
    BY <1>10, ConstantTypes DEF ClearPending, CtlRecords
  <2>. QED
    BY <1>10, <2>1, <2>2 DEF ClearPending, TypeOK
<1>11. CASE SignalWorker
  BY <1>11 DEF SignalWorker, TypeOK, CtlRecords
<1>12. CASE JoinWorker
  <2>1. ctl.w \in 0..N /\ loaded' \in [Workers -> BOOLEAN]
    BY <1>12 DEF JoinWorker, TypeOK, CtlRecords
  <2>2. ctl.w + 1 \in 0..N
    BY <1>12, <2>1, ConstantTypes DEF JoinWorker
  <2>. QED
    BY <1>12, <2>1, <2>2 DEF JoinWorker, TypeOK, CtlRecords
<1>13. CASE ClearInflight
  <2>1. inflight' = <<>> /\ DOMAIN inflight' = {}
    BY <1>13 DEF ClearInflight
  <2>2. inflight' \in [DOMAIN inflight' -> Entries]
    BY <2>1
  <2>3. ctl' \in CtlRecords
    BY <1>13, ConstantTypes DEF ClearInflight, CtlRecords
  <2>. QED
    BY <1>13, <2>1, <2>2, <2>3 DEF ClearInflight, TypeOK
<1>14. ASSUME NEW s \in Streams, Reconnect(s) PROVE TypeOK'
  <2>a. source[s] \in [seq : 0..MaxSeq+1, conn : 0..MaxConn]
    BY DEF TypeOK
  <2>b. source[s].conn < MaxConn
    BY <1>14 DEF Reconnect
  <2>c. source[s].conn \in 0..MaxConn
    BY <2>a
  <2>1. source[s].conn + 1 \in 0..MaxConn /\ 0 \in 0..MaxSeq+1
    BY <2>b, <2>c, ConstantTypes
  <2>2. source' \in [Streams -> [seq : 0..MaxSeq+1, conn : 0..MaxConn]]
    BY <1>14, <2>1 DEF Reconnect, TypeOK
  <2>. QED
    BY <1>14, <2>2 DEF Reconnect, TypeOK
<1>. QED
  BY <1>1, <1>2, <1>5, <1>6, <1>7, <1>8, <1>9, <1>10, <1>11, <1>12, <1>13, <1>14 DEF Stop

\* Every step keeps types.
LEMMA NextType == TypeOK /\ [Next]_vars => TypeOK'
<1>. SUFFICES ASSUME TypeOK, [Next]_vars PROVE TypeOK'
  OBVIOUS
<1>1. CASE Process \/ SendBatch("graph") \/ FlushLoop
  BY <1>1, SendersKeepType
<1>2. CASE \E w \in Workers : WorkerLoop(w)
  BY <1>2, WorkersKeepType
<1>3. CASE \/ DeadlinePasses \/ EntriesAge \/ Start \/ Drain \/ AbandonStart \/ Stop
           \/ \E w \in Workers : StartThrows(w)
           \/ \E s \in Streams : Reconnect(s)
  BY <1>3, ControlKeepsType
<1>4. CASE UNCHANGED vars
  BY <1>4 DEF vars, stageVars, groupVars, ctlVars, histVars, TypeOK
<1>. QED
  BY <1>1, <1>2, <1>3, <1>4 DEF Next

\* The stage's state is well typed in every behaviour: batches, queues and the
\* in-flight map hold frames only, and routing only ever names a worker.
THEOREM TypeCorrect == Spec => []TypeOK
BY InitType, NextType, PTL DEF Spec

-----------------------------------------------------------------------------
(* stop() leaves nothing. *)

Ended(w) == work[w].pc = "off" /\ ~loaded[w]

\* Which threads have ended in which phase of start() and stop().
Phases ==
    /\ ctl.pc \in {"stopped", "failed", "joinFlush", "signal", "join"} =>
           sender["graph"].pc = "idle"
    /\ ctl.pc \in {"stopped", "failed", "signal", "join"} =>
           sender["flush"].pc = "idle" /\ pending = <<>>
    /\ ctl.pc \in {"signal", "join"} => \A v \in Workers : v < ctl.w => Ended(v)
    /\ ctl.pc = "stopped" => DOMAIN inflight = {} /\ \A v \in Workers : Ended(v)

\* Before the first start() nothing runs.
LEMMA InitPhases == Init => Phases
BY DEF Init, Phases, Ended, Idle, Off, Senders

\* The sending threads: one that has ended takes no step.
LEMMA SendersKeepPhases ==
  ASSUME TypeOK, Phases, Process \/ SendBatch("graph") \/ FlushLoop
  PROVE  Phases'
<1>. USE DEF groupVars, ctlVars
<1>1. CASE Process
  <2>1. ctl.pc \in {"running", "draining"} /\ UNCHANGED ctl
    BY <1>1 DEF Process, ProcessNoFrame, ProcessFrame, GraphThreadRuns
  <2>. QED
    BY <2>1 DEF Phases
<1>2. CASE SendBatch("graph")
  <2>1. sender["graph"].pc # "idle" /\ UNCHANGED ctl
    BY <1>2 DEF SendBatch, InsertInflight, Route, Enqueue
  <2>2. ctl.pc \in {"running", "draining"}
    BY <2>1 DEF Phases, TypeOK, CtlRecords
  <2>. QED
    BY <2>1, <2>2 DEF Phases
<1>3. CASE FlushLoop
  <2>1. sender["flush"].pc # "idle" /\ UNCHANGED ctl
    BY <1>3 DEF FlushLoop, FlushWake, Sweep, SendBatch, InsertInflight, Route, Enqueue
  <2>2. ctl.pc \in {"running", "draining", "joinFlush"}
    BY <2>1 DEF Phases, TypeOK, CtlRecords
  <2>3. sender'["graph"] = sender["graph"]
    <3>1. CASE FlushWake
      BY <3>1 DEF FlushWake, ExtractBatch, TypeOK, Senders
    <3>2. CASE Sweep
      BY <3>2 DEF Sweep, TypeOK, Senders
    <3>3. CASE InsertInflight("flush")
      BY <3>3 DEF InsertInflight, TypeOK, Senders
    <3>4. CASE Route("flush")
      BY <3>4 DEF Route, TypeOK, Senders
    <3>5. CASE Enqueue("flush")
      BY <3>5 DEF Enqueue, TypeOK, Senders
    <3>. QED
      BY <1>3, <3>1, <3>2, <3>3, <3>4, <3>5 DEF FlushLoop, SendBatch
  <2>. QED
    BY <2>1, <2>2, <2>3 DEF Phases
<1>. QED
  BY <1>1, <1>2, <1>3

\* A worker thread that runs is not among the ended ones, and changes nothing of
\* the others.
LEMMA WorkersKeepPhases ==
  ASSUME TypeOK, Phases, NEW w \in Workers, WorkerLoop(w)
  PROVE  Phases'
<1>. USE DEF stageVars, ctlVars
<1>1. work[w].pc # "off" /\ UNCHANGED <<pending, sender, ctl>>
  BY Zenon DEF WorkerLoop, Dequeue, WorkerExits, InferSucceeds, MemoryPressure, InferThrows,
         GpuFault, EnqueueHead, RecoverAttempt, TakeEntry, Emit
<1>2. \A v \in Workers \ {w} : work'[v] = work[v] /\ loaded'[v] = loaded[v]
  <2>1. CASE Dequeue(w) \/ WorkerExits(w) \/ InferSucceeds(w) \/ MemoryPressure(w)
    BY <2>1 DEF Dequeue, WorkerExits, InferSucceeds, MemoryPressure, TypeOK
  <2>2. CASE InferThrows(w) \/ EnqueueHead(w) \/ RecoverAttempt(w)
    BY <2>2 DEF InferThrows, EnqueueHead, RecoverAttempt, LoopTop, TypeOK
  <2>3. ASSUME NEW t \in Faults, GpuFault(w, t)
        PROVE  \A v \in Workers \ {w} : work'[v] = work[v] /\ loaded'[v] = loaded[v]
    BY <2>3 DEF GpuFault, TypeOK
  <2>4. CASE TakeEntry(w)
    BY <2>4 DEF TakeEntry, NextResult, LoopTop, TypeOK
  <2>5. CASE Emit(w)
    BY <2>5 DEF Emit, NextResult, LoopTop, TypeOK
  <2>. QED
    BY <2>1, <2>2, <2>3, <2>4, <2>5 DEF WorkerLoop
<1>3. ~Ended(w)
  BY <1>1 DEF Ended
<1>4. \A v \in Workers : Ended(v) => Ended(v)'
  BY <1>2, <1>3 DEF Ended
<1>5. ctl.pc # "stopped"
  BY <1>3 DEF Phases
<1>. QED
  BY <1>1, <1>4, <1>5 DEF Phases

\* The steps of start() and stop() go from phase to phase.
LEMMA ControlKeepsPhases ==
  ASSUME TypeOK, Phases,
         \/ DeadlinePasses \/ EntriesAge \/ Start \/ Drain \/ AbandonStart \/ Stop
         \/ \E w \in Workers : StartThrows(w)
         \/ \E s \in Streams : Reconnect(s)
  PROVE  Phases'
<1>. USE DEF stageVars, groupVars, ctlVars
<1>1. CASE DeadlinePasses
  BY <1>1 DEF DeadlinePasses, Phases, Ended
<1>2. CASE EntriesAge
  BY <1>2 DEF EntriesAge, Phases, Ended
<1>3. CASE Start
  <2>1. ctl'.pc = "running"
    BY <1>3 DEF Start, TypeOK, CtlRecords
  <2>. QED
    BY <2>1 DEF Phases
<1>4. ASSUME NEW v \in Workers, StartThrows(v) PROVE Phases'
  <2>1. ctl'.pc = "failed" /\ ctl.pc = "stopped" /\ UNCHANGED <<pending, sender>>
    BY <1>4 DEF StartThrows, TypeOK, CtlRecords
  <2>. QED
    BY <2>1 DEF Phases
<1>5. CASE Drain
  <2>1. ctl'.pc = "draining"
    BY <1>5 DEF Drain, TypeOK, CtlRecords
  <2>. QED
    BY <2>1 DEF Phases
<1>6. CASE AbandonStart \/ StopFlush
  <2>1. ctl'.pc = "joinFlush" /\ sender["graph"].pc = "idle" /\ UNCHANGED sender
    BY <1>6 DEF AbandonStart, StopFlush, TypeOK, CtlRecords, Phases
  <2>. QED
    BY <2>1 DEF Phases
<1>7. CASE ClearPending
  <2>1. /\ ctl'.pc = "signal" /\ ctl'.w = 0 /\ pending' = <<>> /\ UNCHANGED sender
        /\ sender["flush"].pc = "idle" /\ sender["graph"].pc = "idle"
    BY <1>7 DEF ClearPending, Phases
  <2>2. \A v \in Workers : ~(v < 0)
    BY DEF Workers
  <2>. QED
    BY <2>1, <2>2 DEF Phases
<1>8. CASE SignalWorker
  <2>1. /\ ctl'.pc = "join" /\ ctl'.w = ctl.w /\ ctl.pc = "signal"
        /\ UNCHANGED <<pending, sender, work, loaded>>
    BY <1>8 DEF SignalWorker, TypeOK, CtlRecords
  <2>. QED
    BY <2>1 DEF Phases, Ended
<1>9. CASE JoinWorker
  <2>1. /\ ctl'.pc = "signal" /\ ctl'.w = ctl.w + 1 /\ ctl.pc = "join"
        /\ UNCHANGED <<pending, sender, work>> /\ work[ctl.w].pc = "off"
        /\ ctl.w \in Workers
        /\ loaded' = [loaded EXCEPT ![ctl.w] = FALSE]
    BY <1>9, ConstantTypes DEF JoinWorker, TypeOK, CtlRecords, Workers
  <2>2. \A v \in Workers : v < ctl.w => Ended(v)
    BY <2>1 DEF Phases
  <2>3. \A v \in Workers : v < ctl.w + 1 => v < ctl.w \/ v = ctl.w
    BY <2>1, ConstantTypes DEF Workers
  <2>4. \A v \in Workers : v < ctl.w + 1 => Ended(v)'
    BY <2>1, <2>2, <2>3 DEF Ended, TypeOK
  <2>. QED
    BY <2>1, <2>4 DEF Phases
<1>10. CASE ClearInflight
  <2>1. /\ ctl'.pc = "stopped" /\ ctl.pc = "signal" /\ ctl.w = N /\ DOMAIN inflight' = {}
        /\ UNCHANGED <<pending, sender, work, loaded>>
    BY <1>10 DEF ClearInflight
  <2>2. \A v \in Workers : v < N
    BY ConstantTypes DEF Workers
  <2>. QED
    BY <2>1, <2>2 DEF Phases, Ended
<1>11. ASSUME NEW s \in Streams, Reconnect(s) PROVE Phases'
  BY <1>11 DEF Reconnect, Phases, Ended
<1>. QED
  BY <1>1, <1>2, <1>3, <1>4, <1>5, <1>6, <1>7, <1>8, <1>9, <1>10, <1>11 DEF Stop

\* When stop() of the infer stage has returned, no thread of it runs, no model
\* is loaded, and neither pending_events_ nor inflight_ holds a frame; also
\* after a start() that threw half-way.
THEOREM StopIsClean == Spec => []StopLeavesNothing
<1>1. TypeOK /\ Phases /\ [Next]_vars => Phases'
  <2>. SUFFICES ASSUME TypeOK, Phases, [Next]_vars PROVE Phases'
    OBVIOUS
  <2>1. CASE Process \/ SendBatch("graph") \/ FlushLoop
    BY <2>1, SendersKeepPhases
  <2>2. CASE \E w \in Workers : WorkerLoop(w)
    BY <2>2, WorkersKeepPhases
  <2>3. CASE \/ DeadlinePasses \/ EntriesAge \/ Start \/ Drain \/ AbandonStart \/ Stop
             \/ \E w \in Workers : StartThrows(w)
             \/ \E s \in Streams : Reconnect(s)
    BY <2>3, ControlKeepsPhases
  <2>4. CASE UNCHANGED vars
    BY <2>4 DEF vars, stageVars, groupVars, ctlVars, Phases, Ended
  <2>. QED
    BY <2>1, <2>2, <2>3, <2>4 DEF Next
<1>2. Phases => StopLeavesNothing
  BY DEF Phases, StopLeavesNothing, Ended, Senders
<1>. QED
  BY InitPhases, TypeCorrect, <1>1, <1>2, PTL DEF Spec

-----------------------------------------------------------------------------
(* A result meets its own frame. *)

\* A batch on its way is never empty.
BatchesFull ==
    /\ \A p \in Senders : sender[p].pc \in {"insert", "route", "push"} => sender[p].batch # <<>>
    /\ \A w \in Workers : \A i \in 1..Len(queue[w]) : queue[w][i] # <<>>
    /\ \A w \in Workers : work[w].pc \in {"infer", "requeue"} => work[w].batch # <<>>

\* A worker that publishes is at a frame of its batch.
AtAFrame ==
    \A w \in Workers : work[w].pc \in {"publish", "emit"} => work[w].at \in 1..Len(work[w].batch)

\* Entries are filed under their key, and taken out by it.
FiledByKey ==
    /\ \A k \in DOMAIN inflight : Key(inflight[k].frame) = k
    /\ \A w \in Workers : work[w].pc = "emit" =>
           work[w].entry # <<>> /\ Key(work[w].entry[1]) = Key(work[w].batch[work[w].at])

\* The history: a result and the frame it is emitted with have the same key.
EmittedByKey ==
    \A p \in DOMAIN emitted : p[1] \in Frames /\ p[2] \in Frames /\ Key(p[1]) = Key(p[2])

Matching == BatchesFull /\ AtAFrame /\ FiledByKey /\ EmittedByKey

\* Nothing is in flight before the first start().
LEMMA InitMatching == Init => Matching
<1>. SUFFICES ASSUME Init PROVE Matching
  OBVIOUS
<1>1. BatchesFull
  BY DEF Init, BatchesFull, Idle, Off
<1>2. AtAFrame
  BY DEF Init, AtAFrame, Off
<1>3. FiledByKey
  BY DEF Init, FiledByKey, Off
<1>4. EmittedByKey
  BY DEF Init, EmittedByKey, EmptyBag, SetToBag
<1>. QED
  BY <1>1, <1>2, <1>3, <1>4 DEF Matching

\* A front extractBatch() cuts off is not empty.
LEMMA FrontIsFull ==
  ASSUME NEW q \in Seq(Frames), q # <<>>
  PROVE  SubSeq(q, 1, Min({Len(q), BatchSize})) # <<>>
<1>. DEFINE n == Min({Len(q), BatchSize})
<1>1. n \in Nat \ {0}
  BY ExtractFacts
<1>2. n <= Len(q)
  BY ExtractFacts
<1>. HIDE DEF n
<1>3. Len(SubSeq(q, 1, n)) # 0
  BY <1>1, <1>2, SMT
<1>4. SubSeq(q, 1, n) # <<>>
  <2>1. SUFFICES ASSUME SubSeq(q, 1, n) = <<>> PROVE FALSE
    OBVIOUS
  <2>2. Len(SubSeq(q, 1, n)) = Len(<<>>)
    BY <2>1, Zenon
  <2>3. Len(<<>>) = 0
    OBVIOUS
  <2>. QED
    BY <1>3, <2>2, <2>3, Zenon
<1>. QED
  BY <1>4 DEF n

\* The batch extractBatch() hands over is not empty.
LEMMA ExtractFull ==
  ASSUME TypeOK, BatchesFull, NEW p \in Senders, NEW q \in Seq(Frames), q # <<>>,
         ExtractBatch(p, q), UNCHANGED <<queue, work>>
  PROVE  BatchesFull'
<1>. DEFINE b == SubSeq(q, 1, Min({Len(q), BatchSize}))
<1>1. b # <<>>
  BY FrontIsFull
<1>2. sender' = [sender EXCEPT ![p] = [pc |-> "insert", batch |-> b, to |-> 0]]
  BY DEF ExtractBatch
<1>. HIDE DEF b
<1>. QED
  BY <1>1, <1>2 DEF BatchesFull, TypeOK

\* The sending threads hand on full batches and file frames under their keys.
LEMMA SendersKeepMatching ==
  ASSUME TypeOK, Matching, Process \/ SendBatch("graph") \/ FlushLoop
  PROVE  Matching'
<1>. USE DEF histVars
<1>1. UNCHANGED <<work, emitted>>
  BY DEF Process, ProcessNoFrame, ProcessFrame, SendBatch, FlushLoop, FlushWake, Sweep,
         InsertInflight, Route, Enqueue, groupVars
<1>2. AtAFrame' /\ EmittedByKey'
  BY <1>1 DEF Matching, AtAFrame, EmittedByKey
<1>3. ASSUME NEW q \in Seq(Frames), Gather(q), UNCHANGED queue PROVE BatchesFull'
  <2>1. CASE q # <<>> /\ ExtractBatch("graph", q)
    BY <1>1, <1>3, <2>1, ExtractFull DEF Matching, Senders
  <2>2. CASE UNCHANGED sender
    BY <1>1, <1>3, <2>2 DEF Matching, BatchesFull
  <2>. QED
    BY <1>3, <2>1, <2>2 DEF Gather
<1>4. CASE Process
  <2>1. UNCHANGED <<queue, inflight>>
    BY <1>4 DEF Process, ProcessNoFrame, ProcessFrame, groupVars
  <2>2. \E q \in Seq(Frames) : Gather(q)
    <3>1. CASE ProcessNoFrame
      BY <3>1 DEF ProcessNoFrame, TypeOK
    <3>2. ASSUME NEW s \in Streams, ProcessFrame(s) PROVE \E q \in Seq(Frames) : Gather(q)
      <4>. DEFINE f == [stream |-> s, seq |-> source[s].seq, conn |-> source[s].conn]
      <4>1. source[s].seq \in 0..MaxSeq /\ source[s].conn \in 0..MaxConn
        BY <3>2, ConstantTypes DEF ProcessFrame, TypeOK
      <4>2. f \in Frames
        BY <4>1 DEF Frames
      <4>3. Gather(AddPending(f))
        BY <3>2 DEF ProcessFrame
      <4>. HIDE DEF f
      <4>. QED
        BY <4>2, <4>3, AddPendingType
    <3>. QED
      BY <1>4, <3>1, <3>2 DEF Process
  <2>. QED
    BY <1>1, <1>2, <1>3, <2>1, <2>2 DEF Matching, FiledByKey
<1>5. CASE FlushWake
  <2>1. UNCHANGED <<queue, inflight>>
    BY <1>5 DEF FlushWake, groupVars
  <2>2. BatchesFull'
    <3>1. CASE pending # <<>> /\ ExtractBatch("flush", pending)
      <4>1. pending \in Seq(Frames) /\ "flush" \in Senders
        BY DEF TypeOK, Senders
      <4>. QED
        BY <1>1, <2>1, <3>1, <4>1, ExtractFull DEF Matching
    <3>2. CASE sender' = [sender EXCEPT !["flush"] = Idle]
      BY <1>1, <2>1, <3>2 DEF Matching, BatchesFull, TypeOK, Idle
    <3>3. CASE sender' = [sender EXCEPT !["flush"].pc = "sweep"]
      BY <1>1, <2>1, <3>3 DEF Matching, BatchesFull, TypeOK, SenderRecords
    <3>. QED
      BY <1>5, <3>1, <3>2, <3>3 DEF FlushWake
  <2>. QED
    BY <1>1, <1>2, <2>1, <2>2 DEF Matching, FiledByKey
<1>6. CASE Sweep
  <2>1. /\ sender' = [sender EXCEPT !["flush"].pc = "wait"] /\ UNCHANGED queue
        /\ inflight' = [k \in {j \in DOMAIN inflight : ~inflight[j].stale} |-> inflight[k]]
    BY <1>6 DEF Sweep, groupVars
  <2>2. BatchesFull'
    BY <1>1, <2>1 DEF Matching, BatchesFull, TypeOK, SenderRecords
  <2>3. FiledByKey'
    BY <1>1, <2>1 DEF Matching, FiledByKey
  <2>. QED
    BY <1>2, <2>2, <2>3 DEF Matching
<1>7. ASSUME NEW p \in Senders, InsertInflight(p) PROVE Matching'
  <2>. DEFINE b == sender[p].batch
              last(k) == b[Max({i \in 1..Len(b) : Key(b[i]) = k})]
              new == {Key(f) : f \in BatchFrames(b)}
  <2>1. b \in Seq(Frames)
    BY DEF TypeOK, SenderRecords
  <2>2. \A k \in new : Key(last(k)) = k
    BY <2>1, InsertFacts
  <2>3. inflight' = [k \in new \cup DOMAIN inflight |->
           IF k \in new THEN [frame |-> last(k), stale |-> FALSE] ELSE inflight[k]]
    BY <1>7 DEF InsertInflight
  <2>4. /\ sender' = [sender EXCEPT ![p].pc = "route"] /\ UNCHANGED queue
        /\ sender[p].pc = "insert"
    BY <1>7 DEF InsertInflight, groupVars
  <2>5. BatchesFull'
    BY <1>1, <2>4 DEF Matching, BatchesFull, TypeOK, SenderRecords
  <2>. HIDE DEF b, last, new
  <2>6. \A k \in DOMAIN inflight' : Key(inflight'[k].frame) = k
    BY <2>2, <2>3 DEF Matching, FiledByKey
  <2>7. FiledByKey'
    BY <1>1, <2>6 DEF Matching, FiledByKey
  <2>. QED
    BY <1>2, <2>5, <2>7 DEF Matching
<1>8. ASSUME NEW p \in Senders, Route(p) PROVE Matching'
  <2>1. sender[p].pc = "route" /\ UNCHANGED <<queue, inflight>>
    BY <1>8 DEF Route
  <2>2. BatchesFull'
    <3>1. ASSUME NEW w, sender' = [sender EXCEPT ![p].pc = "push", ![p].to = w]
          PROVE  BatchesFull'
      <4>1. \A r \in Senders : sender'[r].batch = sender[r].batch
        BY <3>1 DEF TypeOK, SenderRecords
      <4>2. \A r \in Senders \ {p} : sender'[r].pc = sender[r].pc
        BY <3>1 DEF TypeOK, SenderRecords
      <4>. QED
        BY <1>1, <2>1, <4>1, <4>2 DEF Matching, BatchesFull
    <3>2. CASE sender' = [sender EXCEPT ![p] = Sent(p)]
      BY <1>1, <2>1, <3>2 DEF Matching, BatchesFull, TypeOK, Sent, Idle
    <3>. QED
      BY <1>8, <3>1, <3>2 DEF Route
  <2>. QED
    BY <1>1, <1>2, <2>1, <2>2 DEF Matching, FiledByKey
<1>9. ASSUME NEW p \in Senders, Enqueue(p) PROVE Matching'
  <2>. DEFINE to == sender[p].to
              b == sender[p].batch
  <2>1. /\ sender[p].pc = "push" /\ UNCHANGED inflight
        /\ sender' = [sender EXCEPT ![p] = Sent(p)]
        /\ queue' = queue \/ queue' = [queue EXCEPT ![to] = Append(queue[to], b)]
    BY <1>9 DEF Enqueue
  <2>2. \A r \in Senders : sender'[r].pc \in {"insert", "route", "push"} => sender'[r].batch # <<>>
    BY <2>1 DEF Matching, BatchesFull, TypeOK, Sent, Idle
  <2>3. b # <<>> /\ b \in Seq(Frames) /\ to \in Workers
    BY <2>1 DEF Matching, BatchesFull, TypeOK, SenderRecords
  <2>. HIDE DEF b, to
  <2>4. \A w \in Workers : \A i \in 1..Len(queue'[w]) : queue'[w][i] # <<>>
    <3>1. CASE queue' = queue
      BY <3>1 DEF Matching, BatchesFull
    <3>2. CASE queue' = [queue EXCEPT ![to] = Append(queue[to], b)]
      <4>1. queue[to] \in Seq(Seq(Frames))
        BY <2>3 DEF TypeOK
      <4>2. \A i \in 1..Len(queue[to]) : queue[to][i] # <<>>
        BY <2>3 DEF Matching, BatchesFull
      <4>3. \A i \in 1..Len(Append(queue[to], b)) : Append(queue[to], b)[i] # <<>>
        BY <2>3, <4>1, <4>2
      <4>. QED
        BY <3>2, <2>3, <4>3 DEF Matching, BatchesFull, TypeOK
    <3>. QED
      BY <2>1, <3>1, <3>2
  <2>5. BatchesFull'
    BY <1>1, <2>2, <2>4 DEF Matching, BatchesFull
  <2>. QED
    BY <1>1, <1>2, <2>1, <2>5 DEF Matching, FiledByKey
<1>. QED
  BY <1>4, <1>5, <1>6, <1>7, <1>8, <1>9 DEF Process, SendBatch, FlushLoop, Senders

\* A worker back at the top of its loop has neither batch nor entry.
LEMMA LoopTopMatching ==
  ASSUME TypeOK, Matching, NEW w \in Workers, LoopTop(w), UNCHANGED <<sender, inflight>>,
         \A v \in Workers : \A i \in 1..Len(queue'[v]) : queue'[v][i] # <<>>
  PROVE  BatchesFull' /\ AtAFrame' /\ FiledByKey'
<1>1. work'[w].pc \in {"off", "wait"}
  BY DEF LoopTop, TypeOK, Off, Wait
<1>2. \A v \in Workers \ {w} : work'[v] = work[v]
  BY DEF LoopTop, TypeOK
<1>3. BatchesFull'
  BY <1>1, <1>2 DEF Matching, BatchesFull
<1>4. AtAFrame'
  BY <1>1, <1>2 DEF Matching, AtAFrame
<1>5. FiledByKey'
  BY <1>1, <1>2 DEF Matching, FiledByKey
<1>. QED
  BY <1>3, <1>4, <1>5

\* So does the step to the next result keep the invariant, with whatever has
\* been taken out of inflight_.
LEMMA NextResultMatching ==
  ASSUME TypeOK, Matching, NEW w \in Workers, NextResult(w), UNCHANGED <<sender, inflight, queue>>,
         work[w].pc \in {"publish", "emit"}
  PROVE  BatchesFull' /\ AtAFrame' /\ FiledByKey'
<1>1. CASE work[w].at < Len(work[w].batch)
  <2>1. /\ work'[w].pc = "publish" /\ work'[w].at = work[w].at + 1
        /\ work'[w].batch = work[w].batch
        /\ \A v \in Workers \ {w} : work'[v] = work[v]
    BY <1>1 DEF NextResult, TypeOK, WorkRecords
  <2>2. work[w].at \in 1..Len(work[w].batch) /\ work[w].batch \in Seq(Frames)
    BY DEF Matching, AtAFrame, TypeOK, WorkRecords
  <2>3. work'[w].at \in 1..Len(work'[w].batch)
    BY <1>1, <2>1, <2>2
  <2>4. BatchesFull'
    BY <2>1 DEF Matching, BatchesFull
  <2>5. AtAFrame'
    BY <2>1, <2>3 DEF Matching, AtAFrame
  <2>6. FiledByKey'
    BY <2>1 DEF Matching, FiledByKey
  <2>. QED
    BY <2>4, <2>5, <2>6
<1>2. CASE ~(work[w].at < Len(work[w].batch))
  <2>1. LoopTop(w)
    BY <1>2 DEF NextResult
  <2>2. \A v \in Workers : \A i \in 1..Len(queue'[v]) : queue'[v][i] # <<>>
    BY DEF Matching, BatchesFull
  <2>. QED
    BY <2>1, <2>2, LoopTopMatching
<1>. QED
  BY <1>1, <1>2

\* A worker infers full batches and emits what it took out under the same key.
LEMMA WorkersKeepMatching ==
  ASSUME TypeOK, Matching, NEW w \in Workers, WorkerLoop(w)
  PROVE  Matching'
<1>. USE DEF stageVars, histVars
<1>0. /\ UNCHANGED sender
      /\ \A v \in Workers : \A i \in 1..Len(queue[v]) : queue[v][i] # <<>>
  BY Zenon DEF WorkerLoop, Dequeue, WorkerExits, InferSucceeds, MemoryPressure, InferThrows,
         GpuFault, EnqueueHead, RecoverAttempt, TakeEntry, Emit, Matching, BatchesFull
<1>1. CASE Dequeue(w)
  <2>1. /\ queue[w] # <<>> /\ queue[w] \in Seq(Seq(Frames))
        /\ queue' = [queue EXCEPT ![w] = Tail(queue[w])]
        /\ UNCHANGED <<inflight, emitted>>
    BY <1>1 DEF Dequeue, TypeOK
  <2>2. /\ work'[w].pc = "infer" /\ work'[w].batch = Head(queue[w])
        /\ \A v \in Workers \ {w} : work'[v] = work[v]
    BY <1>1 DEF Dequeue, TypeOK, WorkRecords
  <2>3. Head(queue[w]) # <<>>
    BY <1>0, <2>1
  <2>4. \A i \in 1..Len(Tail(queue[w])) : Tail(queue[w])[i] # <<>>
    BY <1>0, <2>1
  <2>5. \A v \in Workers : \A i \in 1..Len(queue'[v]) : queue'[v][i] # <<>>
    BY <1>0, <2>1, <2>4 DEF TypeOK
  <2>6. BatchesFull'
    BY <1>0, <2>2, <2>3, <2>5 DEF Matching, BatchesFull
  <2>7. AtAFrame' /\ FiledByKey' /\ EmittedByKey'
    BY <2>1, <2>2 DEF Matching, AtAFrame, FiledByKey, EmittedByKey
  <2>. QED
    BY <2>6, <2>7 DEF Matching
<1>2. CASE WorkerExits(w)
  <2>1. /\ work'[w].pc = "off" /\ \A v \in Workers \ {w} : work'[v] = work[v]
        /\ UNCHANGED <<inflight, emitted, queue>>
    BY <1>2 DEF WorkerExits, TypeOK, Off
  <2>. QED
    BY <1>0, <2>1 DEF Matching, BatchesFull, AtAFrame, FiledByKey, EmittedByKey
<1>3. CASE InferSucceeds(w)
  <2>1. /\ work[w].pc = "infer" /\ work'[w].pc = "publish" /\ work'[w].at = 1
        /\ work'[w].batch = work[w].batch
        /\ \A v \in Workers \ {w} : work'[v] = work[v]
        /\ UNCHANGED <<inflight, emitted, queue>>
    BY <1>3 DEF InferSucceeds, TypeOK, WorkRecords
  <2>2. work[w].batch # <<>> /\ work[w].batch \in Seq(Frames)
    BY <2>1 DEF Matching, BatchesFull, TypeOK, WorkRecords
  <2>3. 1 \in 1..Len(work[w].batch)
    BY <2>2
  <2>4. AtAFrame'
    BY <2>1, <2>3 DEF Matching, AtAFrame
  <2>5. BatchesFull'
    BY <1>0, <2>1 DEF Matching, BatchesFull
  <2>6. FiledByKey' /\ EmittedByKey'
    BY <2>1 DEF Matching, FiledByKey, EmittedByKey
  <2>. QED
    BY <2>4, <2>5, <2>6 DEF Matching
<1>4. CASE MemoryPressure(w)
  <2>1. /\ work[w].pc = "infer" /\ work'[w].pc = "requeue" /\ work'[w].batch = work[w].batch
        /\ \A v \in Workers \ {w} : work'[v] = work[v]
        /\ UNCHANGED <<inflight, emitted, queue>>
    BY <1>4 DEF MemoryPressure, TypeOK, WorkRecords
  <2>2. BatchesFull'
    BY <1>0, <2>1 DEF Matching, BatchesFull
  <2>. QED
    BY <2>1, <2>2 DEF Matching, AtAFrame, FiledByKey, EmittedByKey
<1>5. CASE InferThrows(w)
  <2>1. LoopTop(w) /\ UNCHANGED <<inflight, emitted, queue>>
    BY <1>5 DEF InferThrows
  <2>. QED
    BY <1>0, <2>1, LoopTopMatching DEF Matching, EmittedByKey
<1>6. ASSUME NEW t \in Faults, GpuFault(w, t) PROVE Matching'
  <2>1. /\ work'[w].pc = "recover" /\ \A v \in Workers \ {w} : work'[v] = work[v]
        /\ UNCHANGED <<inflight, emitted, queue>>
    BY <1>6 DEF GpuFault, TypeOK, Off
  <2>. QED
    BY <1>0, <2>1 DEF Matching, BatchesFull, AtAFrame, FiledByKey, EmittedByKey
<1>7. CASE EnqueueHead(w)
  <2>. DEFINE b == work[w].batch
  <2>1. /\ LoopTop(w) /\ UNCHANGED <<inflight, emitted>> /\ work[w].pc = "requeue"
        /\ queue' = queue \/ queue' = [queue EXCEPT ![w] = <<b>> \o queue[w]]
    BY <1>7 DEF EnqueueHead
  <2>2. b # <<>> /\ b \in Seq(Frames) /\ queue[w] \in Seq(Seq(Frames))
    BY <2>1 DEF Matching, BatchesFull, TypeOK, WorkRecords
  <2>. HIDE DEF b
  <2>3. \A i \in 1..Len(<<b>> \o queue[w]) : (<<b>> \o queue[w])[i] # <<>>
    <3>1. Len(<<b>>) = 1 /\ <<b>>[1] = b /\ <<b>> \in Seq(Seq(Frames))
      BY <2>2
    <3>2. \A i \in 1..Len(queue[w]) : queue[w][i] # <<>>
      BY <1>0
    <3>. TAKE i \in 1..Len(<<b>> \o queue[w])
    <3>3. CASE i = 1
      BY <2>2, <3>1, <3>3
    <3>4. CASE i # 1
      <4>1. i - 1 \in 1..Len(queue[w]) /\ (<<b>> \o queue[w])[i] = queue[w][i - 1]
        BY <2>2, <3>1, <3>4
      <4>. QED
        BY <3>2, <4>1
    <3>. QED
      BY <3>3, <3>4
  <2>4. \A v \in Workers : \A i \in 1..Len(queue'[v]) : queue'[v][i] # <<>>
    BY <1>0, <2>1, <2>3 DEF TypeOK
  <2>. QED
    BY <1>0, <2>1, <2>4, LoopTopMatching DEF Matching, EmittedByKey
<1>8. CASE RecoverAttempt(w)
  <2>1. UNCHANGED <<inflight, emitted, queue>> /\ work[w].pc = "recover"
    BY <1>8 DEF RecoverAttempt
  <2>2. CASE LoopTop(w)
    BY <1>0, <2>1, <2>2, LoopTopMatching DEF Matching, EmittedByKey
  <2>3. CASE work' = [work EXCEPT ![w].at = @ + 1]
    <3>1. work'[w].pc = "recover" /\ \A v \in Workers \ {w} : work'[v] = work[v]
      BY <2>1, <2>3 DEF TypeOK, WorkRecords
    <3>. QED
      BY <1>0, <2>1, <3>1 DEF Matching, BatchesFull, AtAFrame, FiledByKey, EmittedByKey
  <2>. QED
    BY <1>8, <2>2, <2>3 DEF RecoverAttempt
<1>9. CASE TakeEntry(w)
  <2>. DEFINE k == Key(work[w].batch[work[w].at])
  <2>1. work[w].pc = "publish" /\ UNCHANGED <<queue, emitted>>
    BY <1>9 DEF TakeEntry
  <2>2. CASE k \in DOMAIN inflight
    <3>1. inflight' = [j \in DOMAIN inflight \ {k} |-> inflight[j]]
      BY <1>9, <2>2 DEF TakeEntry
    <3>2. /\ work'[w].pc = "emit" /\ work'[w].entry = <<inflight[k].frame>>
          /\ work'[w].batch = work[w].batch /\ work'[w].at = work[w].at
          /\ \A v \in Workers \ {w} : work'[v] = work[v]
      BY <1>9, <2>2 DEF TakeEntry, TypeOK, WorkRecords
    <3>3. Key(inflight[k].frame) = k
      BY <2>2 DEF Matching, FiledByKey
    <3>4. work'[w].entry # <<>> /\ work'[w].entry[1] = inflight[k].frame
      BY <3>2
    <3>5. BatchesFull'
      BY <1>0, <2>1, <3>2 DEF Matching, BatchesFull
    <3>6. AtAFrame'
      BY <2>1, <3>2 DEF Matching, AtAFrame
    <3>7. \A j \in DOMAIN inflight' : Key(inflight'[j].frame) = j
      BY <3>1 DEF Matching, FiledByKey
    <3>8. FiledByKey'
      BY <3>2, <3>3, <3>4, <3>7 DEF Matching, FiledByKey
    <3>. QED
      BY <2>1, <3>5, <3>6, <3>8 DEF Matching, EmittedByKey
  <2>3. CASE k \notin DOMAIN inflight
    <3>1. NextResult(w) /\ UNCHANGED inflight
      BY <1>9, <2>3 DEF TakeEntry
    <3>. QED
      BY <1>0, <2>1, <3>1, NextResultMatching DEF Matching, EmittedByKey
  <2>. QED
    BY <2>2, <2>3
<1>10. CASE Emit(w)
  <2>. DEFINE x == <<work[w].entry[1], work[w].batch[work[w].at]>>
  <2>1. work[w].pc = "emit" /\ NextResult(w) /\ UNCHANGED <<inflight, queue>>
    BY <1>10 DEF Emit
  <2>2. work[w].entry[1] \in Frames /\ work[w].batch[work[w].at] \in Frames
    <3>1. work[w].entry \in Seq(Frames) /\ work[w].batch \in Seq(Frames)
      BY DEF TypeOK, WorkRecords
    <3>2. work[w].entry # <<>> /\ work[w].at \in 1..Len(work[w].batch)
      BY <2>1 DEF Matching, FiledByKey, AtAFrame
    <3>. QED
      BY <3>1, <3>2
  <2>3. Key(work[w].entry[1]) = Key(work[w].batch[work[w].at])
    BY <2>1 DEF Matching, FiledByKey
  <2>4. x[1] \in Frames /\ x[2] \in Frames /\ Key(x[1]) = Key(x[2])
    BY <2>2, <2>3
  <2>5. emitted' = emitted \/ emitted' = emitted (+) SetToBag({x})
    BY <1>10 DEF Emit
  <2>. HIDE DEF x
  <2>6. DOMAIN emitted' \subseteq DOMAIN emitted \cup {x}
    <3>1. DOMAIN (emitted (+) SetToBag({x})) = DOMAIN emitted \cup {x}
      BY DEF (+), SetToBag
    <3>. QED
      BY <2>5, <3>1
  <2>7. EmittedByKey'
    BY <2>4, <2>6 DEF Matching, EmittedByKey
  <2>. QED
    BY <1>0, <2>1, <2>7, NextResultMatching DEF Matching
<1>. QED
  BY <1>1, <1>2, <1>3, <1>4, <1>5, <1>6, <1>7, <1>8, <1>9, <1>10 DEF WorkerLoop

\* start(), stop(), time and the sources file nothing; a worker that is started
\* has no batch.
LEMMA ControlKeepsMatching ==
  ASSUME TypeOK, Matching,
         \/ DeadlinePasses \/ EntriesAge \/ Start \/ Drain \/ AbandonStart \/ Stop
         \/ \E w \in Workers : StartThrows(w)
         \/ \E s \in Streams : Reconnect(s)
  PROVE  Matching'
<1>. USE DEF stageVars, groupVars, histVars
<1>1. UNCHANGED <<queue, emitted>>
  BY DEF DeadlinePasses, EntriesAge, Start, Drain, AbandonStart, Stop, StopFlush,
         ClearPending, SignalWorker, JoinWorker, ClearInflight, StartThrows, Reconnect
<1>2. \A w \in Workers : work'[w] = work[w] \/ work'[w] = Wait
  BY DEF DeadlinePasses, EntriesAge, Start, Drain, AbandonStart, Stop, StopFlush,
         ClearPending, SignalWorker, JoinWorker, ClearInflight, StartThrows, Reconnect,
         StartWorkers
<1>3. \A w \in Workers : work'[w] = work[w] \/ work'[w].pc = "wait"
  BY <1>2 DEF Wait, Off
<1>4. \A p \in Senders : sender'[p] = sender[p] \/ sender'[p].pc = "wait"
  <2>1. CASE Start
    BY <2>1 DEF Start, TypeOK, SenderRecords
  <2>2. CASE UNCHANGED sender
    BY <2>2
  <2>. QED
    BY <2>1, <2>2 DEF DeadlinePasses, EntriesAge, Drain, AbandonStart, Stop, StopFlush,
       ClearPending, SignalWorker, JoinWorker, ClearInflight, StartThrows, Reconnect
<1>5. \A k \in DOMAIN inflight' : k \in DOMAIN inflight /\ inflight'[k].frame = inflight[k].frame
  <2>1. CASE EntriesAge
    BY <2>1 DEF EntriesAge, TypeOK, Entries
  <2>2. CASE ClearInflight
    BY <2>2 DEF ClearInflight
  <2>3. CASE UNCHANGED inflight
    BY <2>3
  <2>. QED
    BY <2>1, <2>2, <2>3 DEF DeadlinePasses, Start, Drain, AbandonStart, Stop, StopFlush,
       ClearPending, SignalWorker, JoinWorker, StartThrows, Reconnect
<1>6. BatchesFull'
  BY <1>1, <1>3, <1>4 DEF Matching, BatchesFull
<1>7. AtAFrame'
  BY <1>3 DEF Matching, AtAFrame
<1>8. FiledByKey'
  BY <1>3, <1>5 DEF Matching, FiledByKey
<1>9. EmittedByKey'
  BY <1>1 DEF Matching, EmittedByKey
<1>. QED
  BY <1>6, <1>7, <1>8, <1>9 DEF Matching

\* A result is only ever emitted with a frame of its own stream and number.
LEMMA NextMatching == TypeOK /\ Matching /\ [Next]_vars => Matching'
<1>. SUFFICES ASSUME TypeOK, Matching, [Next]_vars PROVE Matching'
  OBVIOUS
<1>1. CASE Process \/ SendBatch("graph") \/ FlushLoop
  BY <1>1, SendersKeepMatching
<1>2. CASE \E w \in Workers : WorkerLoop(w)
  BY <1>2, WorkersKeepMatching
<1>3. CASE \/ DeadlinePasses \/ EntriesAge \/ Start \/ Drain \/ AbandonStart \/ Stop
           \/ \E w \in Workers : StartThrows(w)
           \/ \E s \in Streams : Reconnect(s)
  BY <1>3, ControlKeepsMatching
<1>4. CASE UNCHANGED vars
  BY <1>4 DEF vars, stageVars, groupVars, histVars, Matching, BatchesFull, AtAFrame,
     FiledByKey, EmittedByKey
<1>. QED
  BY <1>1, <1>2, <1>3, <1>4 DEF Next

\* As long as no stream reconnects and the task is not restarted, every event
\* emitted carries the result of its own frame, whatever workers, devices, queue
\* bounds, faults, evictions and drops there are.
THEOREM ResultsMeetTheirFrames ==
  ASSUME MaxConn = 0
  PROVE  Spec => []ResultMatchesFrame
<1>1. Matching => ResultMatchesFrame
  <2>. SUFFICES ASSUME Matching, NEW p \in DOMAIN emitted PROVE p[1] = p[2]
    BY DEF ResultMatchesFrame, BagToSet
  <2>1. p[1] \in Frames /\ p[2] \in Frames /\ Key(p[1]) = Key(p[2])
    BY DEF Matching, EmittedByKey
  <2>2. p[1].stream = p[2].stream /\ p[1].seq = p[2].seq
    BY <2>1 DEF Key
  <2>3. p[1].conn = 0 /\ p[2].conn = 0
    BY <2>1 DEF Frames
  <2>. QED
    BY <2>1, <2>2, <2>3 DEF Frames
<1>. QED
  BY InitMatching, NextMatching, TypeCorrect, <1>1, PTL DEF Spec

-----------------------------------------------------------------------------
(* Events.  The event of a frame moves from pending_events_ to a batch     *)
(* about to be recorded, to inflight_, to the worker that has a result for *)
(* it, and out; a copy never stays behind.                                 *)

\* The source has numbered f.
Created(f) ==
    /\ f \in Frames
    /\ \/ f.conn < source[f.stream].conn
       \/ f.conn = source[f.stream].conn /\ f.seq < source[f.stream].seq

EventKinds == {"pending", "graph", "flush", "filed", "work", "done"}

\* The event of f is at the place of kind k (with worker w, of its own).
EventAt(k, w, f) ==
    \/ k = "pending" /\ f \in BatchFrames(pending)
    \/ k \in Senders /\ sender[k].pc = "insert" /\ f \in BatchFrames(sender[k].batch)
    \/ k = "filed" /\ \E j \in DOMAIN inflight : inflight[j].frame = f
    \/ k = "work" /\ work[w].pc = "emit" /\ work[w].entry[1] = f
    \/ k = "done" /\ \E p \in DOMAIN emitted : p[1] = f

Injective(s) == \A i, j \in 1..Len(s) : s[i] = s[j] => i = j

EventsCreated == \A k \in EventKinds, w \in Workers : \A f : EventAt(k, w, f) => Created(f)

OnePlace ==
    \A k, l \in EventKinds, w, u \in Workers : \A f :
        EventAt(k, w, f) /\ EventAt(l, u, f) => k = l /\ (k = "work" => w = u)

SingleInBag ==
    \A p, q \in DOMAIN emitted : emitted[p] = 1 /\ (p[1] = q[1] => p = q)

Once == EventsCreated /\ OnePlace /\ Injective(pending) /\ SingleInBag

\* Splitting a sequence splits its elements.
LEMMA SplitFacts ==
  ASSUME NEW q \in Seq(Frames), NEW n \in Nat, n <= Len(q), Injective(q)
  PROVE  LET a == SubSeq(q, 1, n)
             b == SubSeq(q, n + 1, Len(q))
         IN  /\ BatchFrames(a) \subseteq BatchFrames(q) /\ BatchFrames(b) \subseteq BatchFrames(q)
             /\ BatchFrames(a) \cap BatchFrames(b) = {}
             /\ Injective(a) /\ Injective(b)
<1>. DEFINE a == SubSeq(q, 1, n)
            b == SubSeq(q, n + 1, Len(q))
<1>1. Len(q) \in Nat /\ Len(a) = n /\ Len(b) = Len(q) - n
  BY FrontAndRest
<1>2. \A i \in 1..Len(a) : i \in 1..Len(q) /\ a[i] = q[i]
  BY <1>1
<1>3. \A i \in 1..Len(b) : n + i \in 1..Len(q) /\ b[i] = q[n + i]
  BY <1>1
<1>. HIDE DEF a, b
<1>4. BatchFrames(a) \subseteq BatchFrames(q) /\ BatchFrames(b) \subseteq BatchFrames(q)
  BY <1>2, <1>3 DEF BatchFrames
<1>5. BatchFrames(a) \cap BatchFrames(b) = {}
  <2>. SUFFICES ASSUME NEW i \in 1..Len(a), NEW j \in 1..Len(b), a[i] = b[j] PROVE FALSE
    BY DEF BatchFrames
  <2>1. i = n + j
    BY <1>2, <1>3 DEF Injective
  <2>. QED
    BY <1>1, <2>1
<1>6. Injective(a)
  BY <1>2 DEF Injective
<1>7. Injective(b)
  BY <1>1, <1>3 DEF Injective
<1>. QED
  BY <1>4, <1>5, <1>6, <1>7 DEF a, b

\* A frame is added behind the others, at the cost of the oldest.
LEMMA AddPendingFacts ==
  ASSUME TypeOK, Injective(pending), NEW f \in Frames, f \notin BatchFrames(pending)
  PROVE  /\ AddPending(f) \in Seq(Frames) /\ Injective(AddPending(f))
         /\ BatchFrames(AddPending(f)) \subseteq BatchFrames(pending) \cup {f}
<1>. DEFINE s == IF Len(pending) >= MaxPending THEN Tail(pending) ELSE pending
<1>0. MaxPending \in Nat \ {0}
  <2>1. Max({2, BatchSize}) = IF 2 >= BatchSize THEN 2 ELSE BatchSize
    BY ConstantTypes, MinMaxPair
  <2>. QED
    BY <2>1, ConstantTypes DEF MaxPending
<1>1. pending \in Seq(Frames) /\ Len(pending) \in Nat
  BY DEF TypeOK
<1>2. s \in Seq(Frames) /\ Injective(s) /\ BatchFrames(s) \subseteq BatchFrames(pending)
  <2>1. CASE ~(Len(pending) >= MaxPending)
    BY <1>1, <2>1
  <2>2. CASE Len(pending) >= MaxPending
    <3>1. pending # <<>>
      BY <1>0, <1>1, <2>2, EmptySeq
    <3>2. s \in Seq(Frames) /\ Len(s) = Len(pending) - 1
      BY <1>1, <2>2, <3>1
    <3>3. \A i \in 1..Len(s) : i + 1 \in 1..Len(pending) /\ s[i] = pending[i + 1]
      BY <1>1, <2>2, <3>1
    <3>. HIDE DEF s
    <3>. QED
      BY <3>2, <3>3 DEF Injective, BatchFrames
  <2>. QED
    BY <2>1, <2>2
<1>3. AddPending(f) = Append(s, f)
  BY DEF AddPending
<1>. HIDE DEF s
<1>. DEFINE t == Append(s, f)
<1>4. /\ t \in Seq(Frames) /\ Len(s) \in Nat /\ Len(t) = Len(s) + 1
      /\ \A i \in 1..Len(s) : t[i] = s[i]
      /\ t[Len(s) + 1] = f
  BY <1>2
<1>5. \A i \in 1..Len(s) : s[i] # f
  BY <1>2 DEF BatchFrames
<1>. HIDE DEF t
<1>6. \A i \in 1..Len(t) : i \in 1..Len(s) \/ i = Len(s) + 1
  BY <1>4
<1>7. Injective(t)
  BY <1>2, <1>4, <1>5, <1>6 DEF Injective
<1>8. BatchFrames(t) \subseteq BatchFrames(s) \cup {f}
  BY <1>4, <1>6 DEF BatchFrames
<1>. QED
  BY <1>2, <1>3, <1>4, <1>7, <1>8 DEF t

\* A step that moves events from one place to another, or makes new ones,
\* leaves each in one place.
LEMMA EventMoves ==
  ASSUME EventsCreated, OnePlace,
         NEW a \in EventKinds, NEW b \in EventKinds, a # b, NEW v \in Workers, NEW G, \A g \in G : ~Created(g),
         \A k \in EventKinds, w \in Workers : \A f : EventAt(k, w, f)' =>
            \/ EventAt(k, w, f)
            \/ k = b /\ (k = "work" => w = v) /\ EventAt(a, v, f)
            \/ k \in {a, b} /\ "work" \notin {a, b} /\ f \in G,
         \A f : ~(EventAt(a, v, f)' /\ EventAt(b, v, f)'),
         \A k \in EventKinds, w, u \in Workers : \A f : k # "work" => (EventAt(k, w, f)' <=> EventAt(k, u, f)')
  PROVE  OnePlace'
<1>. SUFFICES ASSUME NEW k \in EventKinds, NEW l \in EventKinds, NEW w \in Workers, NEW u \in Workers,
                     NEW f, EventAt(k, w, f)', EventAt(l, u, f)'
              PROVE  k = l /\ (k = "work" => w = u)
  BY DEF OnePlace
<1>1. CASE f \in G
  <2>1. \A m \in EventKinds, x \in Workers : ~EventAt(m, x, f)
    BY <1>1 DEF EventsCreated
  <2>2. k \in {a, b} /\ l \in {a, b} /\ "work" \notin {a, b}
    BY <2>1
  <2>3. EventAt(k, v, f)' /\ EventAt(l, v, f)'
    BY <2>2
  <2>. QED
    BY <2>2, <2>3
<1>2. CASE f \notin G
  <2>1. CASE EventAt(k, w, f) /\ EventAt(l, u, f)
    BY <2>1 DEF OnePlace
  <2>2. CASE k = b /\ (k = "work" => w = v) /\ EventAt(a, v, f)
    <3>1. CASE EventAt(l, u, f)
      <4>1. l = a /\ (l = "work" => u = v)
        BY <2>2, <3>1 DEF OnePlace
      <4>2. EventAt(a, v, f)' /\ EventAt(b, v, f)'
        BY <2>2, <4>1
      <4>. QED
        BY <4>2
    <3>2. CASE l = b /\ (l = "work" => u = v)
      BY <2>2, <3>2
    <3>. QED
      BY <1>2, <3>1, <3>2
  <2>3. CASE EventAt(k, w, f) /\ l = b /\ (l = "work" => u = v) /\ EventAt(a, v, f)
    <3>1. k = a /\ (k = "work" => w = v)
      BY <2>3 DEF OnePlace
    <3>2. EventAt(a, v, f)' /\ EventAt(b, v, f)'
      BY <2>3, <3>1
    <3>. QED
      BY <3>2
  <2>. QED
    BY <1>2, <2>1, <2>2, <2>3
<1>. QED
  BY <1>1, <1>2

\* Only the worker's own place depends on the worker.
LEMMA PlaceOfNoWorker ==
  /\ \A k \in EventKinds, w, u \in Workers : \A f : k # "work" => (EventAt(k, w, f) <=> EventAt(k, u, f))
  /\ \A k \in EventKinds, w, u \in Workers : \A f : k # "work" => (EventAt(k, w, f)' <=> EventAt(k, u, f)')
  BY DEF EventAt

\* A step that moves nothing.
LEMMA EventsStay ==
  ASSUME OnePlace, EventsCreated, \A f : Created(f) => Created(f)',
         \A k \in EventKinds, w \in Workers : \A f : EventAt(k, w, f)' => EventAt(k, w, f)
  PROVE  OnePlace' /\ EventsCreated'
<1>1. OnePlace'
  BY DEF OnePlace
<1>2. EventsCreated'
  BY DEF EventsCreated
<1>. QED
  BY <1>1, <1>2

\* extractBatch(): the events of the batch leave the deque.
LEMMA ExtractKeepsOnce ==
  ASSUME TypeOK, Once, NEW p \in Senders, NEW q \in Seq(Frames), q # <<>>, Injective(q),
         NEW G, \A g \in G : ~Created(g), BatchFrames(q) \subseteq BatchFrames(pending) \cup G,
         ExtractBatch(p, q), UNCHANGED <<inflight, work, emitted>>, sender[p].pc # "insert"
  PROVE  /\ OnePlace' /\ Injective(pending)'
         /\ \A k \in EventKinds, w \in Workers : \A f : EventAt(k, w, f)' =>
               f \in G \/ \E l \in EventKinds : EventAt(l, w, f)
<1>. DEFINE n == Min({Len(q), BatchSize})
            front == SubSeq(q, 1, n)
            rest == SubSeq(q, n + 1, Len(q))
<1>1. n \in Nat /\ n <= Len(q)
  BY ExtractFacts
<1>2. /\ BatchFrames(front) \subseteq BatchFrames(q) /\ BatchFrames(rest) \subseteq BatchFrames(q)
      /\ BatchFrames(front) \cap BatchFrames(rest) = {} /\ Injective(rest)
  BY <1>1, SplitFacts
<1>3. /\ pending' = rest
      /\ sender' = [sender EXCEPT ![p] = [pc |-> "insert", batch |-> front, to |-> 0]]
  BY DEF ExtractBatch
<1>. HIDE DEF n, front, rest
<1>4. /\ sender'[p].pc = "insert" /\ sender'[p].batch = front
      /\ \A r \in Senders : r # p => sender'[r] = sender[r]
  BY <1>3 DEF TypeOK
<1>5. \A w \in Workers : \A f : EventAt("pending", w, f)' => f \in BatchFrames(rest)
  BY <1>3 DEF EventAt, Senders
<1>6. \A w \in Workers : \A f : EventAt(p, w, f)' => f \in BatchFrames(front)
  BY <1>4 DEF EventAt, Senders
<1>7. ASSUME NEW k \in EventKinds, NEW w \in Workers, NEW f, k # p, k # "pending", EventAt(k, w, f)'
      PROVE  EventAt(k, w, f)
  BY <1>4, <1>7 DEF EventAt, Senders
<1>8. \A w \in Workers : \A f : f \in BatchFrames(q) => f \in G \/ EventAt("pending", w, f)
  BY DEF EventAt
<1>9. PICK v \in Workers : TRUE
  BY ConstantTypes
<1>10. p \in EventKinds /\ "pending" \in EventKinds /\ p # "pending" /\ p # "work"
  BY DEF Senders, EventKinds
<1>11. ASSUME NEW k \in EventKinds, NEW w \in Workers, NEW f, EventAt(k, w, f)'
       PROVE  \/ EventAt(k, w, f)
              \/ k = p /\ (k = "work" => w = v) /\ EventAt("pending", v, f)
              \/ k \in {"pending", p} /\ "work" \notin {"pending", p} /\ f \in G
  <2>1. CASE k = "pending"
    BY <1>2, <1>5, <1>8, <1>10, <1>11, <2>1
  <2>2. CASE k = p
    BY <1>2, <1>6, <1>8, <1>10, <1>11, <2>2
  <2>3. CASE k # p /\ k # "pending"
    BY <1>7, <1>11, <2>3
  <2>. QED
    BY <2>1, <2>2, <2>3
<1>12. \A f : ~(EventAt("pending", v, f)' /\ EventAt(p, v, f)')
  BY <1>2, <1>5, <1>6
<1>13. OnePlace'
  <2>1. \A k \in EventKinds, w \in Workers : \A f : EventAt(k, w, f)' =>
           \/ EventAt(k, w, f)
           \/ k = p /\ (k = "work" => w = v) /\ EventAt("pending", v, f)
           \/ k \in {"pending", p} /\ "work" \notin {"pending", p} /\ f \in G
    BY <1>11
  <2>2. EventsCreated /\ OnePlace
    BY DEF Once
  <2>3. \A k \in EventKinds, w, u \in Workers : \A f : k # "work" => (EventAt(k, w, f)' <=> EventAt(k, u, f)')
    BY PlaceOfNoWorker
  <2>4. p \in EventKinds /\ "pending" \in EventKinds /\ "pending" # p /\ \A g \in G : ~Created(g)
    BY <1>10
  <2>. QED
    BY <1>9, <1>12, <2>1, <2>2, <2>3, <2>4, EventMoves, ZenonT(40)
<1>14. Injective(pending)'
  BY <1>2, <1>3 DEF Injective
<1>15. \A k \in EventKinds, w \in Workers : \A f : EventAt(k, w, f)' =>
          f \in G \/ \E l \in EventKinds : EventAt(l, w, f)
  BY <1>10, <1>11, PlaceOfNoWorker
<1>. QED
  BY <1>13, <1>14, <1>15

\* process() puts a new event behind the others or takes the front off.
LEMMA GatherKeepsOnce ==
  ASSUME TypeOK, Once, NEW q \in Seq(Frames), Injective(q),
         NEW G, \A g \in G : ~Created(g), BatchFrames(q) \subseteq BatchFrames(pending) \cup G,
         Gather(q), UNCHANGED <<inflight, work, emitted>>, sender["graph"].pc = "idle"
  PROVE  /\ OnePlace' /\ Injective(pending)'
         /\ \A k \in EventKinds, w \in Workers : \A f : EventAt(k, w, f)' =>
               f \in G \/ \E l \in EventKinds : EventAt(l, w, f)
<1>1. CASE q # <<>> /\ ExtractBatch("graph", q)
  BY <1>1, ExtractKeepsOnce DEF Senders
<1>2. CASE pending' = q /\ UNCHANGED <<deadline, sender>>
  <2>1. ASSUME NEW k \in EventKinds, NEW w \in Workers, NEW f, EventAt(k, w, f)'
        PROVE  EventAt(k, w, f) \/ (k = "pending" /\ f \in G)
    <3>1. CASE k = "pending"
      BY <1>2, <2>1, <3>1 DEF EventAt, Senders
    <3>2. CASE k # "pending"
      BY <1>2, <2>1, <3>2 DEF EventAt, Senders
    <3>. QED
      BY <3>1, <3>2
  <2>2. OnePlace'
    <3>. SUFFICES ASSUME NEW k \in EventKinds, NEW l \in EventKinds, NEW w \in Workers,
                         NEW u \in Workers, NEW f, EventAt(k, w, f)', EventAt(l, u, f)'
                  PROVE  k = l /\ (k = "work" => w = u)
      BY DEF OnePlace
    <3>1. CASE f \in G
      <4>1. \A m \in EventKinds, x \in Workers : ~EventAt(m, x, f)
        BY <3>1 DEF Once, EventsCreated
      <4>. QED
        BY <2>1, <4>1
    <3>2. CASE f \notin G
      BY <2>1, <3>2 DEF Once, OnePlace
    <3>. QED
      BY <3>1, <3>2
  <2>3. Injective(pending)'
    BY <1>2 DEF Injective
  <2>. QED
    BY <2>1, <2>2, <2>3
<1>. QED
  BY <1>1, <1>2 DEF Gather

\* Who changes the numbering of the sources.
LEMMA SourceSteps ==
  ASSUME [Next]_vars
  PROVE  \/ UNCHANGED source \/ NewConnections
         \/ \E s \in Streams : ProcessFrame(s) \/ Reconnect(s)
<1>1. CASE UNCHANGED vars
  BY <1>1 DEF vars
<1>2. CASE Process
  BY <1>2 DEF Process, ProcessNoFrame
<1>3. CASE SendBatch("graph") \/ SendBatch("flush")
  BY <1>3 DEF SendBatch, InsertInflight, Route, Enqueue
<1>4. CASE FlushLoop
  BY <1>3, <1>4 DEF FlushLoop, FlushWake, Sweep
<1>5. ASSUME NEW w \in Workers, WorkerLoop(w) PROVE UNCHANGED source
  BY <1>5, Zenon DEF WorkerLoop, Dequeue, WorkerExits, InferSucceeds, MemoryPressure, InferThrows,
     GpuFault, EnqueueHead, RecoverAttempt, TakeEntry, Emit
<1>6. CASE DeadlinePasses \/ EntriesAge \/ Drain \/ AbandonStart \/ Stop
  BY <1>6 DEF DeadlinePasses, EntriesAge, Drain, AbandonStart, Stop, StopFlush, ClearPending,
     SignalWorker, JoinWorker, ClearInflight
<1>7. CASE Start \/ \E w \in Workers : StartThrows(w)
  BY <1>7 DEF Start, StartThrows
<1>. QED
  BY <1>1, <1>2, <1>3, <1>4, <1>5, <1>6, <1>7 DEF Next

\* What the sources have numbered stays numbered.
LEMMA CreatedStays ==
  ASSUME TypeOK, [Next]_vars, NEW f, Created(f)
  PROVE  Created(f)'
<1>. DEFINE s == f.stream
<1>0. s \in Streams /\ f.seq \in 0..MaxSeq /\ f.conn \in 0..MaxConn /\ MaxSeq \in Nat /\ MaxConn \in Nat
  BY ConstantTypes DEF Created, Frames
<1>1. source[s].seq \in 0..MaxSeq+1 /\ source[s].conn \in 0..MaxConn
  BY <1>0 DEF TypeOK
<1>2. CASE source'[s] = source[s]
  BY <1>2 DEF Created
<1>3. CASE source'[s].seq = source[s].seq + 1 /\ source'[s].conn = source[s].conn
  BY <1>0, <1>1, <1>3 DEF Created
<1>4. CASE source'[s].conn = source[s].conn + 1
  BY <1>0, <1>1, <1>4 DEF Created
<1>. HIDE DEF s
<1>5. CASE UNCHANGED source
  BY <1>2, <1>5
<1>6. ASSUME NEW r \in Streams, ProcessFrame(r) PROVE Created(f)'
  <2>1. \/ source'[s] = source[s]
        \/ source'[s].seq = source[s].seq + 1 /\ source'[s].conn = source[s].conn
    BY <1>0, <1>6 DEF ProcessFrame, TypeOK
  <2>. QED
    BY <1>2, <1>3, <2>1
<1>7. CASE NewConnections
  <2>1. source'[s] = source[s] \/ source'[s].conn = source[s].conn + 1
    BY <1>0, <1>7 DEF NewConnections
  <2>. QED
    BY <1>2, <1>4, <2>1
<1>8. ASSUME NEW r \in Streams, Reconnect(r) PROVE Created(f)'
  <2>1. source'[s] = source[s] \/ source'[s].conn = source[s].conn + 1
    BY <1>0, <1>8 DEF Reconnect, TypeOK
  <2>. QED
    BY <1>2, <1>4, <2>1
<1>. QED
  BY <1>5, <1>6, <1>7, <1>8, SourceSteps

\* The graph thread and the flush thread keep each event in one place.
LEMMA SendersKeepOnce ==
  ASSUME TypeOK, Matching, Once, [Next]_vars, Process \/ SendBatch("graph") \/ FlushLoop
  PROVE  Once'
<1>. USE DEF groupVars, histVars
<1>1. UNCHANGED <<work, emitted>>
  BY DEF Process, ProcessNoFrame, ProcessFrame, SendBatch, FlushLoop, FlushWake, Sweep,
         InsertInflight, Route, Enqueue
<1>2. \A f : Created(f) => Created(f)'
  BY CreatedStays
<1>3. SingleInBag'
  BY <1>1 DEF Once, SingleInBag
<1>4. ASSUME NEW s \in Streams, ProcessFrame(s) PROVE Once'
  <2>1. PICK g : g = [stream |-> s, seq |-> source[s].seq, conn |-> source[s].conn]
    OBVIOUS
  <2>2. source[s].seq \in 0..MaxSeq /\ source[s].conn \in 0..MaxConn
    BY <1>4, ConstantTypes DEF ProcessFrame, TypeOK
  <2>3. g \in Frames /\ g.stream = s /\ g.seq = source[s].seq /\ g.conn = source[s].conn
    BY <2>1, <2>2 DEF Frames
  <2>4. ~Created(g)
    BY <2>2, <2>3, ConstantTypes DEF Created
  <2>5. g \notin BatchFrames(pending)
    BY <2>4, ConstantTypes DEF Once, EventsCreated, EventAt, EventKinds
  <2>6. /\ Gather(AddPending(g)) /\ UNCHANGED inflight /\ sender["graph"].pc = "idle"
        /\ source' = [source EXCEPT ![s].seq = @ + 1]
    BY <1>4, <2>1 DEF ProcessFrame, GraphThreadRuns
  <2>7. /\ AddPending(g) \in Seq(Frames) /\ Injective(AddPending(g))
        /\ BatchFrames(AddPending(g)) \subseteq BatchFrames(pending) \cup {g}
    BY <2>3, <2>5, AddPendingFacts DEF Once
  <2>8. PICK q : q = AddPending(g)
    OBVIOUS
  <2>9. /\ OnePlace' /\ Injective(pending)'
        /\ \A k \in EventKinds, w \in Workers : \A f : EventAt(k, w, f)' =>
              f \in {g} \/ \E l \in EventKinds : EventAt(l, w, f)
    BY <1>1, <2>4, <2>6, <2>7, <2>8, GatherKeepsOnce
  <2>10. Created(g)'
    <3>1. source'[s].seq = source[s].seq + 1 /\ source'[s].conn = source[s].conn
      BY <2>6 DEF TypeOK
    <3>. QED
      BY <2>2, <2>3, <3>1 DEF Created
  <2>11. EventsCreated'
    BY <1>2, <2>9, <2>10 DEF Once, EventsCreated
  <2>. QED
    BY <1>3, <2>9, <2>11 DEF Once
<1>5. CASE ProcessNoFrame
  <2>1. Gather(pending) /\ UNCHANGED inflight /\ sender["graph"].pc = "idle" /\ pending \in Seq(Frames)
    BY <1>5 DEF ProcessNoFrame, GraphThreadRuns, TypeOK
  <2>2. PICK q : q = pending
    OBVIOUS
  <2>0. PICK G : G = {}
    OBVIOUS
  <2>3. q \in Seq(Frames) /\ Injective(q) /\ BatchFrames(q) \subseteq BatchFrames(pending) \cup G /\ Gather(q)
    BY <2>1, <2>2 DEF Once
  <2>4. \A g \in G : ~Created(g)
    BY <2>0
  <2>5. /\ OnePlace' /\ Injective(pending)'
        /\ \A k \in EventKinds, w \in Workers : \A f : EventAt(k, w, f)' =>
              f \in G \/ \E l \in EventKinds : EventAt(l, w, f)
    BY <1>1, <2>1, <2>3, <2>4, GatherKeepsOnce
  <2>6. EventsCreated'
    BY <1>2, <2>0, <2>5 DEF Once, EventsCreated
  <2>. QED
    BY <1>3, <2>5, <2>6 DEF Once
<1>6. CASE FlushWake
  <2>1. sender["flush"].pc = "wait" /\ UNCHANGED inflight
    BY <1>6 DEF FlushWake
  <2>2. CASE pending # <<>> /\ ExtractBatch("flush", pending)
    <3>1. PICK q : q = pending
      OBVIOUS
    <3>0. PICK G : G = {}
      OBVIOUS
    <3>2. /\ q \in Seq(Frames) /\ Injective(q) /\ BatchFrames(q) \subseteq BatchFrames(pending) \cup G
          /\ q # <<>> /\ ExtractBatch("flush", q) /\ "flush" \in Senders /\ sender["flush"].pc # "insert"
      BY <2>1, <2>2, <3>1 DEF Once, TypeOK, Senders
    <3>3. \A g \in G : ~Created(g)
      BY <3>0
    <3>4. /\ OnePlace' /\ Injective(pending)'
          /\ \A k \in EventKinds, w \in Workers : \A f : EventAt(k, w, f)' =>
                f \in G \/ \E l \in EventKinds : EventAt(l, w, f)
      BY <1>1, <2>1, <3>2, <3>3, ExtractKeepsOnce
    <3>5. EventsCreated'
      BY <1>2, <3>0, <3>4 DEF Once, EventsCreated
    <3>. QED
      BY <1>3, <3>4, <3>5 DEF Once
  <2>3. CASE /\ UNCHANGED pending
             /\ \/ sender' = [sender EXCEPT !["flush"] = Idle]
                \/ sender' = [sender EXCEPT !["flush"].pc = "sweep"]
    <3>1. sender'["flush"].pc # "insert" /\ sender'["graph"] = sender["graph"]
      BY <2>3 DEF TypeOK, SenderRecords, Senders, Idle
    <3>2. \A k \in EventKinds, w \in Workers : \A f : EventAt(k, w, f)' => EventAt(k, w, f)
      BY <1>1, <2>1, <2>3, <3>1 DEF EventAt, Senders
    <3>3. OnePlace' /\ EventsCreated'
      BY <1>2, <3>2, EventsStay DEF Once
    <3>. QED
      BY <1>3, <2>3, <3>3 DEF Once, Injective
  <2>. QED
    BY <1>6, <2>2, <2>3 DEF FlushWake
<1>7. CASE Sweep
  <2>1. /\ UNCHANGED pending /\ sender' = [sender EXCEPT !["flush"].pc = "wait"]
        /\ \A j \in DOMAIN inflight' : j \in DOMAIN inflight /\ inflight'[j] = inflight[j]
    BY <1>7 DEF Sweep
  <2>2. sender'["flush"].pc # "insert" /\ sender'["graph"] = sender["graph"]
    BY <2>1 DEF TypeOK, SenderRecords, Senders
  <2>3. \A k \in EventKinds, w \in Workers : \A f : EventAt(k, w, f)' => EventAt(k, w, f)
    BY <1>1, <2>1, <2>2 DEF EventAt, Senders
  <2>4. OnePlace' /\ EventsCreated'
    BY <1>2, <2>3, EventsStay DEF Once
  <2>. QED
    BY <1>3, <2>1, <2>4 DEF Once, Injective
<1>8. ASSUME NEW p \in Senders, Route(p) \/ Enqueue(p) PROVE Once'
  <2>1. UNCHANGED <<pending, inflight>>
    BY <1>8 DEF Route, Enqueue
  <2>2. sender'[p].pc # "insert" /\ \A r \in Senders : r # p => sender'[r] = sender[r]
    BY <1>8 DEF Route, Enqueue, TypeOK, SenderRecords, Sent, Idle
  <2>3. \A k \in EventKinds, w \in Workers : \A f : EventAt(k, w, f)' => EventAt(k, w, f)
    BY <1>1, <2>1, <2>2 DEF EventAt
  <2>4. OnePlace' /\ EventsCreated'
    BY <1>2, <2>3, EventsStay DEF Once
  <2>. QED
    BY <1>3, <2>1, <2>4 DEF Once, Injective
<1>9. ASSUME NEW p \in Senders, InsertInflight(p) PROVE Once'
  <2>. DEFINE b == sender[p].batch
              last(j) == b[Max({i \in 1..Len(b) : Key(b[i]) = j})]
              new == {Key(f) : f \in BatchFrames(b)}
  <2>1. /\ sender[p].pc = "insert" /\ UNCHANGED pending
        /\ inflight' = [j \in new \cup DOMAIN inflight |->
               IF j \in new THEN [frame |-> last(j), stale |-> FALSE] ELSE inflight[j]]
        /\ sender' = [sender EXCEPT ![p].pc = "route"]
    BY <1>9 DEF InsertInflight
  <2>2. sender'[p].pc # "insert" /\ \A r \in Senders : r # p => sender'[r] = sender[r]
    BY <2>1 DEF TypeOK, SenderRecords
  <2>3. b \in Seq(Frames)
    BY DEF TypeOK, SenderRecords
  <2>4. \A j \in new : last(j) \in BatchFrames(b)
    <3>. SUFFICES ASSUME NEW j \in new PROVE last(j) \in BatchFrames(b)
      OBVIOUS
    <3>. DEFINE T == {i \in 1..Len(b) : Key(b[i]) = j}
    <3>1. Len(b) \in Nat
      BY <2>3
    <3>2. T \in SUBSET (1..Len(b)) /\ T # {}
      BY DEF BatchFrames
    <3>. HIDE DEF T
    <3>3. Max(T) \in 1..Len(b)
      BY <3>1, <3>2, MaxPosition
    <3>. QED
      BY <3>3 DEF T, BatchFrames
  <2>5. \A j \in DOMAIN inflight' :
           \/ inflight'[j].frame \in BatchFrames(b)
           \/ j \in DOMAIN inflight /\ inflight'[j] = inflight[j]
    BY <2>1, <2>4
  <2>. HIDE DEF b, last, new
  <2>6. PICK v \in Workers : TRUE
    BY ConstantTypes
  <2>7. p \in EventKinds /\ "filed" \in EventKinds /\ p # "filed" /\ p # "work"
    BY DEF Senders, EventKinds
  <2>8. \A w \in Workers : \A f : f \in BatchFrames(b) => EventAt(p, w, f)
    BY <2>1 DEF EventAt, b
  <2>9. ASSUME NEW k \in EventKinds, NEW w \in Workers, NEW f, EventAt(k, w, f)'
        PROVE  EventAt(k, w, f) \/ (k = "filed" /\ EventAt(p, v, f))
    <3>1. CASE k = "filed"
      <4>1. PICK j \in DOMAIN inflight' : inflight'[j].frame = f
        BY <2>9, <3>1 DEF EventAt, Senders
      <4>. QED
        BY <2>5, <2>8, <3>1, <4>1 DEF EventAt
    <3>2. CASE k # "filed"
      BY <1>1, <2>1, <2>2, <2>9, <3>2 DEF EventAt
    <3>. QED
      BY <3>1, <3>2
  <2>10. \A f : ~EventAt(p, v, f)'
    BY <2>2 DEF EventAt, Senders
  <2>11. PICK G : G = {}
    OBVIOUS
  <2>12. OnePlace'
    <3>1. \A k \in EventKinds, w \in Workers : \A f : EventAt(k, w, f)' =>
             \/ EventAt(k, w, f)
             \/ k = "filed" /\ (k = "work" => w = v) /\ EventAt(p, v, f)
             \/ k \in {p, "filed"} /\ "work" \notin {p, "filed"} /\ f \in G
      BY <2>9
    <3>2. EventsCreated /\ OnePlace /\ \A g \in G : ~Created(g)
      BY <2>11 DEF Once
    <3>3. \A f : ~(EventAt(p, v, f)' /\ EventAt("filed", v, f)')
      BY <2>10
    <3>4. \A k \in EventKinds, w, u \in Workers : \A f : k # "work" => (EventAt(k, w, f)' <=> EventAt(k, u, f)')
      BY PlaceOfNoWorker
    <3>. QED
      BY <2>6, <2>7, <3>1, <3>2, <3>3, <3>4, EventMoves
  <2>13. EventsCreated'
    BY <1>2, <2>7, <2>9 DEF Once, EventsCreated
  <2>. QED
    BY <1>3, <2>1, <2>12, <2>13 DEF Once, Injective
<1>. QED
  BY <1>4, <1>5, <1>6, <1>7, <1>8, <1>9 DEF Process, SendBatch, FlushLoop, Senders

\* A worker takes an event out of inflight_ and sends it on once.
LEMMA WorkersKeepOnce ==
  ASSUME TypeOK, Matching, Once, [Next]_vars, NEW w \in Workers, WorkerLoop(w)
  PROVE  Once'
<1>. USE DEF stageVars, histVars
<1>1. UNCHANGED <<pending, sender>>
  BY Zenon DEF WorkerLoop, Dequeue, WorkerExits, InferSucceeds, MemoryPressure, InferThrows,
         GpuFault, EnqueueHead, RecoverAttempt, TakeEntry, Emit
<1>2. \A f : Created(f) => Created(f)'
  BY CreatedStays
<1>3. Injective(pending)'
  BY <1>1 DEF Once, Injective
<1>4. \A u \in Workers \ {w} : work'[u] = work[u]
  BY Zenon DEF WorkerLoop, Dequeue, WorkerExits, InferSucceeds, MemoryPressure, InferThrows, LoopTop,
         GpuFault, EnqueueHead, RecoverAttempt, TakeEntry, Emit, NextResult, TypeOK
<1>5. NextResult(w) \/ LoopTop(w) => work'[w].pc # "emit"
  BY DEF NextResult, LoopTop, TypeOK, WorkRecords, Off, Wait
<1>6. ASSUME work'[w].pc # "emit", UNCHANGED <<inflight, emitted>> PROVE Once'
  <2>1. \A k \in EventKinds, u \in Workers : \A f : EventAt(k, u, f)' => EventAt(k, u, f)
    BY <1>1, <1>4, <1>6 DEF EventAt
  <2>2. OnePlace' /\ EventsCreated'
    BY <1>2, <2>1, EventsStay DEF Once
  <2>3. SingleInBag'
    BY <1>6 DEF Once, SingleInBag
  <2>. QED
    BY <1>3, <2>2, <2>3 DEF Once
<1>7. CASE \/ Dequeue(w) \/ WorkerExits(w) \/ InferSucceeds(w) \/ MemoryPressure(w) \/ InferThrows(w)
           \/ \E t \in Faults : GpuFault(w, t)
           \/ EnqueueHead(w) \/ RecoverAttempt(w)
  <2>1. UNCHANGED <<inflight, emitted>>
    BY <1>7, Zenon DEF Dequeue, WorkerExits, InferSucceeds, MemoryPressure, InferThrows,
         GpuFault, EnqueueHead, RecoverAttempt
  <2>2. work'[w].pc # "emit"
    <3>1. CASE LoopTop(w)
      BY <1>5, <3>1
    <3>2. CASE Dequeue(w)
      BY <3>2 DEF Dequeue, TypeOK, WorkRecords
    <3>3. CASE WorkerExits(w)
      BY <3>3 DEF WorkerExits, TypeOK, Off
    <3>4. CASE InferSucceeds(w)
      BY <3>4 DEF InferSucceeds, TypeOK, WorkRecords
    <3>5. CASE MemoryPressure(w)
      BY <3>5 DEF MemoryPressure, TypeOK, WorkRecords
    <3>6. CASE \E t \in Faults : GpuFault(w, t)
      BY <3>6 DEF GpuFault, TypeOK, Off
    <3>7. CASE work[w].pc = "recover" /\ work' = [work EXCEPT ![w].at = @ + 1]
      BY <3>7 DEF TypeOK, WorkRecords
    <3>. QED
      BY <1>7, <3>1, <3>2, <3>3, <3>4, <3>5, <3>6, <3>7 DEF InferThrows, EnqueueHead, RecoverAttempt
  <2>. QED
    BY <1>6, <2>1, <2>2
<1>8. CASE TakeEntry(w)
  <2>1. PICK j : j = Key(work[w].batch[work[w].at])
    OBVIOUS
  <2>2. UNCHANGED emitted
    BY <1>8 DEF TakeEntry
  <2>3. CASE j \notin DOMAIN inflight
    <3>1. NextResult(w) /\ UNCHANGED inflight
      BY <1>8, <2>1, <2>3 DEF TakeEntry
    <3>. QED
      BY <1>5, <1>6, <2>2, <3>1
  <2>4. CASE j \in DOMAIN inflight
    <3>1. PICK e : e = inflight[j].frame
      OBVIOUS
    <3>2. inflight' = [i \in DOMAIN inflight \ {j} |-> inflight[i]]
      BY <1>8, <2>1, <2>4 DEF TakeEntry
    <3>3. work'[w].entry = <<e>>
      BY <1>8, <2>1, <2>4, <3>1 DEF TakeEntry, TypeOK, WorkRecords
    <3>4. work'[w].entry[1] = e
      BY <3>3
    <3>5. EventAt("filed", w, e)
      BY <2>4, <3>1 DEF EventAt
    <3>6. \A f : ~(EventAt("filed", w, f)' /\ EventAt("work", w, f)')
      <4>1. \A f : EventAt("work", w, f)' => f = e
        BY <3>4 DEF EventAt, Senders
      <4>2. \A i \in DOMAIN inflight' : i \in DOMAIN inflight /\ i # j /\ inflight'[i] = inflight[i]
        BY <3>2
      <4>3. \A i \in DOMAIN inflight' : Key(inflight'[i].frame) # Key(e)
        BY <2>4, <3>1, <4>2 DEF Matching, FiledByKey
      <4>4. ~EventAt("filed", w, e)'
        BY <4>3 DEF EventAt, Senders
      <4>. QED
        BY <4>1, <4>4
    <3>7. ASSUME NEW k \in EventKinds, NEW u \in Workers, NEW f, EventAt(k, u, f)'
          PROVE  EventAt(k, u, f) \/ (k = "work" /\ u = w /\ EventAt("filed", w, f))
      <4>1. CASE k = "work"
        BY <1>4, <3>4, <3>5, <3>7, <4>1 DEF EventAt, Senders
      <4>2. CASE k = "filed"
        BY <3>2, <3>7, <4>2 DEF EventAt, Senders
      <4>3. CASE k \notin {"work", "filed"}
        BY <1>1, <2>2, <3>7, <4>3 DEF EventAt
      <4>. QED
        BY <4>1, <4>2, <4>3
    <3>8. OnePlace'
      <4>0. PICK G : G = {}
        OBVIOUS
      <4>1. \A k \in EventKinds, u \in Workers : \A f : EventAt(k, u, f)' =>
               \/ EventAt(k, u, f)
               \/ k = "work" /\ (k = "work" => u = w) /\ EventAt("filed", w, f)
               \/ k \in {"filed", "work"} /\ "work" \notin {"filed", "work"} /\ f \in G
        BY <3>7
      <4>2. EventsCreated /\ OnePlace /\ \A g \in G : ~Created(g)
        BY <4>0 DEF Once
      <4>3. "filed" \in EventKinds /\ "work" \in EventKinds /\ "filed" # "work"
        BY DEF EventKinds
      <4>4. \A k \in EventKinds, u, x \in Workers : \A f : k # "work" => (EventAt(k, u, f)' <=> EventAt(k, x, f)')
        BY PlaceOfNoWorker
      <4>. QED
        BY <3>6, <4>1, <4>2, <4>3, <4>4, EventMoves
    <3>9. EventsCreated'
      <4>1. "filed" \in EventKinds
        BY DEF EventKinds
      <4>. QED
        BY <1>2, <3>7, <4>1 DEF Once, EventsCreated
    <3>10. SingleInBag'
      BY <2>2 DEF Once, SingleInBag
    <3>. QED
      BY <1>3, <3>8, <3>9, <3>10 DEF Once
  <2>. QED
    BY <2>3, <2>4
<1>9. CASE Emit(w)
  <2>1. PICK e, x : e = work[w].entry[1] /\ x = <<e, work[w].batch[work[w].at]>>
    OBVIOUS
  <2>2. work[w].pc = "emit" /\ work'[w].pc # "emit" /\ UNCHANGED inflight
    BY <1>5, <1>9 DEF Emit
  <2>3. CASE UNCHANGED emitted
    BY <1>6, <2>2, <2>3
  <2>4. CASE emitted' = emitted (+) SetToBag({x})
    <3>1. EventAt("work", w, e) /\ x[1] = e
      BY <2>1, <2>2 DEF EventAt
    <3>2. \A p \in DOMAIN emitted : p[1] # e
      <4>1. "work" \in EventKinds /\ "done" \in EventKinds
        BY DEF EventKinds
      <4>2. ~EventAt("done", w, e)
        BY <3>1, <4>1 DEF Once, OnePlace
      <4>. QED
        BY <4>2 DEF EventAt
    <3>3. x \notin DOMAIN emitted
      BY <3>1, <3>2
    <3>4. /\ DOMAIN emitted' = DOMAIN emitted \cup {x}
          /\ \A p \in DOMAIN emitted' : emitted'[p] =
                (IF p \in DOMAIN emitted THEN emitted[p] ELSE 0) + (IF p \in {x} THEN 1 ELSE 0)
      BY <2>4 DEF (+), SetToBag
    <3>5. emitted'[x] = 1 /\ \A p \in DOMAIN emitted : emitted'[p] = 1
      BY <3>3, <3>4 DEF Once, SingleInBag
    <3>6. SingleInBag'
      BY <3>1, <3>2, <3>4, <3>5 DEF Once, SingleInBag
    <3>7. ASSUME NEW k \in EventKinds, NEW u \in Workers, NEW f, EventAt(k, u, f)'
          PROVE  EventAt(k, u, f) \/ (k = "done" /\ EventAt("work", w, f))
      <4>1. CASE k = "done"
        BY <3>1, <3>4, <3>7, <4>1 DEF EventAt, Senders
      <4>2. CASE k # "done"
        BY <1>1, <1>4, <2>2, <3>7, <4>2 DEF EventAt
      <4>. QED
        BY <4>1, <4>2
    <3>8. \A f : ~(EventAt("work", w, f)' /\ EventAt("done", w, f)')
      BY <2>2 DEF EventAt, Senders
    <3>9. OnePlace'
      <4>0. PICK G : G = {}
        OBVIOUS
      <4>1. \A k \in EventKinds, u \in Workers : \A f : EventAt(k, u, f)' =>
               \/ EventAt(k, u, f)
               \/ k = "done" /\ (k = "work" => u = w) /\ EventAt("work", w, f)
               \/ k \in {"work", "done"} /\ "work" \notin {"work", "done"} /\ f \in G
        BY <3>7
      <4>2. EventsCreated /\ OnePlace /\ \A g \in G : ~Created(g)
        BY <4>0 DEF Once
      <4>3. "done" \in EventKinds /\ "work" \in EventKinds /\ "work" # "done"
        BY DEF EventKinds
      <4>4. \A k \in EventKinds, u, y \in Workers : \A f : k # "work" => (EventAt(k, u, f)' <=> EventAt(k, y, f)')
        BY PlaceOfNoWorker
      <4>. QED
        BY <3>8, <4>1, <4>2, <4>3, <4>4, EventMoves
    <3>10. EventsCreated'
      <4>1. "work" \in EventKinds
        BY DEF EventKinds
      <4>. QED
        BY <1>2, <3>7, <4>1 DEF Once, EventsCreated
    <3>. QED
      BY <1>3, <3>6, <3>9, <3>10 DEF Once
  <2>. QED
    BY <1>9, <2>1, <2>3, <2>4 DEF Emit
<1>. QED
  BY <1>7, <1>8, <1>9 DEF WorkerLoop

\* start(), stop(), time and the sources move no event.
LEMMA ControlKeepsOnce ==
  ASSUME TypeOK, Once, [Next]_vars,
         \/ DeadlinePasses \/ EntriesAge \/ Start \/ Drain \/ AbandonStart \/ Stop
         \/ \E w \in Workers : StartThrows(w)
         \/ \E s \in Streams : Reconnect(s)
         \/ UNCHANGED vars
  PROVE  Once'
<1>. USE DEF stageVars, groupVars, histVars
<1>1. UNCHANGED emitted
  BY DEF DeadlinePasses, EntriesAge, Start, Drain, AbandonStart, Stop, StopFlush, vars,
         ClearPending, SignalWorker, JoinWorker, ClearInflight, StartThrows, Reconnect
<1>2. \A w \in Workers : work'[w] = work[w] \/ work'[w].pc = "wait"
  <2>1. \A w \in Workers : work'[w] = work[w] \/ work'[w] = Wait
    BY DEF DeadlinePasses, EntriesAge, Start, Drain, AbandonStart, Stop, StopFlush, vars,
           ClearPending, SignalWorker, JoinWorker, ClearInflight, StartThrows, Reconnect,
           StartWorkers
  <2>. QED
    BY <2>1 DEF Wait, Off
<1>3. \A p \in Senders : sender'[p] = sender[p] \/ sender'[p].pc = "wait"
  <2>1. CASE Start
    BY <2>1 DEF Start, TypeOK, SenderRecords
  <2>2. CASE UNCHANGED sender
    BY <2>2
  <2>. QED
    BY <2>1, <2>2 DEF DeadlinePasses, EntriesAge, Drain, AbandonStart, Stop, StopFlush, vars,
       ClearPending, SignalWorker, JoinWorker, ClearInflight, StartThrows, Reconnect
<1>4. \A k \in DOMAIN inflight' : k \in DOMAIN inflight /\ inflight'[k].frame = inflight[k].frame
  <2>1. CASE EntriesAge
    BY <2>1 DEF EntriesAge, TypeOK, Entries
  <2>2. CASE ClearInflight
    BY <2>2 DEF ClearInflight
  <2>3. CASE UNCHANGED inflight
    BY <2>3
  <2>. QED
    BY <2>1, <2>2, <2>3 DEF DeadlinePasses, Start, Drain, AbandonStart, Stop, StopFlush, vars,
       ClearPending, SignalWorker, JoinWorker, StartThrows, Reconnect
<1>5. pending' = pending \/ pending' = <<>>
  BY DEF DeadlinePasses, EntriesAge, Start, Drain, AbandonStart, Stop, StopFlush, vars,
         ClearPending, SignalWorker, JoinWorker, ClearInflight, StartThrows, Reconnect
<1>6. Injective(pending)' /\ BatchFrames(pending)' \subseteq BatchFrames(pending)
  BY <1>5 DEF Once, Injective, BatchFrames
<1>7. ASSUME NEW k \in EventKinds, NEW w \in Workers, NEW f, EventAt(k, w, f)'
      PROVE  EventAt(k, w, f)
  <2>1. CASE k = "filed"
    BY <1>4, <1>7, <2>1 DEF EventAt, Senders
  <2>2. CASE k # "filed"
    BY <1>1, <1>2, <1>3, <1>6, <1>7, <2>2 DEF EventAt
  <2>. QED
    BY <2>1, <2>2
<1>8. OnePlace' /\ EventsCreated'
  BY <1>7, CreatedStays, EventsStay DEF Once
<1>9. SingleInBag'
  BY <1>1 DEF Once, SingleInBag
<1>. QED
  BY <1>6, <1>8, <1>9 DEF Once

\* Every frame is emitted at most once, for any number of workers, streams,
\* reconnects and restarts, whichever of the graph thread and the flush thread
\* sent its batch, and however often the batch was put back under memory
\* pressure (InferEngineWorkerStage.cpp, onInferResult; InferWorker.cpp).
THEOREM EmittedAtMostOnce == Spec => []EmittedOnce
<1>1. Init => Once
  <2>. SUFFICES ASSUME Init PROVE Once
    OBVIOUS
  <2>1. /\ pending = <<>> /\ DOMAIN inflight = {} /\ DOMAIN emitted = {}
        /\ \A p \in Senders : sender[p].pc = "idle"
        /\ \A w \in Workers : work[w].pc = "off"
    BY DEF Init, Idle, Off, EmptyBag, SetToBag
  <2>2. BatchFrames(pending) = {} /\ Injective(pending)
    BY <2>1 DEF BatchFrames, Injective
  <2>3. \A k \in EventKinds, w \in Workers : \A f : ~EventAt(k, w, f)
    BY <2>1, <2>2 DEF EventAt
  <2>. QED
    BY <2>1, <2>2, <2>3 DEF Once, EventsCreated, OnePlace, SingleInBag
<1>2. TypeOK /\ Matching /\ Once /\ [Next]_vars => Once'
  <2>. SUFFICES ASSUME TypeOK, Matching, Once, [Next]_vars PROVE Once'
    OBVIOUS
  <2>1. CASE Process \/ SendBatch("graph") \/ FlushLoop
    BY <2>1, SendersKeepOnce
  <2>2. CASE \E w \in Workers : WorkerLoop(w)
    BY <2>2, WorkersKeepOnce
  <2>3. CASE \/ DeadlinePasses \/ EntriesAge \/ Start \/ Drain \/ AbandonStart \/ Stop
             \/ \E w \in Workers : StartThrows(w)
             \/ \E s \in Streams : Reconnect(s)
             \/ UNCHANGED vars
    BY <2>3, ControlKeepsOnce
  <2>. QED
    BY <2>1, <2>2, <2>3 DEF Next
<1>3. Once => EmittedOnce
  BY DEF Once, SingleInBag, EmittedOnce, BagToSet
<1>. QED
  BY <1>1, <1>2, <1>3, InitMatching, NextMatching, TypeCorrect, PTL DEF Spec

-----------------------------------------------------------------------------
(* Results.  The frames of a batch move with it from pending_events_ to a  *)
(* sender, to a worker's queue (and back to it under memory pressure) and  *)
(* to the worker; each gets one result.  From the recording of the batch   *)
(* on, a frame whose result is due is in inflight_ or has been taken out   *)
(* of it by somebody else than a result.                                   *)

ResultKinds == {"pending", "graph", "flush", "queue", "work"}
Own == {"queue", "work"}

QueuedFrames(q) == UNION {BatchFrames(q[i]) : i \in 1..Len(q)}

\* The frames of a worker's batch that its results are still due for.
Due(r) ==
    IF r.pc \in {"infer", "requeue"} THEN BatchFrames(r.batch)
    ELSE IF r.pc = "publish" THEN {r.batch[i] : i \in r.at..Len(r.batch)}
    ELSE IF r.pc = "emit" THEN {r.batch[i] : i \in (r.at + 1)..Len(r.batch)}
    ELSE {}

\* Frames in the hands of a thread that sends batches.
Sending(r) == IF r.pc \in {"insert", "route", "push"} THEN BatchFrames(r.batch) ELSE {}

ResultAt(k, w, f) ==
    \/ k = "pending" /\ f \in BatchFrames(pending)
    \/ k \in Senders /\ f \in Sending(sender[k])
    \/ k = "queue" /\ f \in QueuedFrames(queue[w])
    \/ k = "work" /\ f \in Due(work[w])

DistinctQueue(q) ==
    /\ \A i \in 1..Len(q) : Injective(q[i])
    /\ \A i, j \in 1..Len(q) : i # j => BatchFrames(q[i]) \cap BatchFrames(q[j]) = {}

\* Nowhere is a frame twice in one place.
Distinct ==
    /\ Injective(pending)
    /\ \A p \in Senders : sender[p].pc \in {"insert", "route", "push"} => Injective(sender[p].batch)
    /\ \A w \in Workers : DistinctQueue(queue[w])
    /\ \A w \in Workers : work[w].pc \in {"infer", "requeue", "publish", "emit"} => Injective(work[w].batch)

ResultsCreated == \A k \in ResultKinds, w \in Workers : \A f : ResultAt(k, w, f) => Created(f)

OneResult ==
    \A k, l \in ResultKinds, w, u \in Workers : \A f :
        ResultAt(k, w, f) /\ ResultAt(l, u, f) => k = l /\ (k \in Own => w = u)

\* f is in inflight_, or was dropped from it.
Recorded(f) ==
    \/ f \in gone
    \/ Key(f) \in DOMAIN inflight /\ inflight[Key(f)].frame = f

Awaited ==
    \A k \in ResultKinds, w \in Workers : \A f :
        /\ ResultAt(k, w, f) /\ k # "pending"
        /\ k \in Senders => sender[k].pc # "insert"
        => Recorded(f)

Results == Distinct /\ ResultsCreated /\ OneResult /\ Awaited /\ orphans \subseteq gone

\* A batch joins a queue that holds none of its frames, at the back or at the
\* front.
LEMMA QueueBack ==
  ASSUME NEW q \in Seq(Seq(Frames)), NEW b \in Seq(Frames), DistinctQueue(q), Injective(b),
         BatchFrames(b) \cap QueuedFrames(q) = {}
  PROVE  /\ DistinctQueue(Append(q, b))
         /\ QueuedFrames(Append(q, b)) \subseteq QueuedFrames(q) \cup BatchFrames(b)
<1>. DEFINE r == Append(q, b)
<1>1. /\ Len(q) \in Nat /\ Len(r) = Len(q) + 1 /\ r[Len(q) + 1] = b
      /\ \A i \in 1..Len(q) : r[i] = q[i]
  OBVIOUS
<1>. HIDE DEF r
<1>2. \A i \in 1..Len(r) : (i \in 1..Len(q) /\ r[i] = q[i]) \/ (i = Len(q) + 1 /\ r[i] = b)
  BY <1>1
<1>3. \A i \in 1..Len(q) : BatchFrames(b) \cap BatchFrames(q[i]) = {}
  BY DEF QueuedFrames
<1>4. \A i \in 1..Len(r) : Injective(r[i])
  BY <1>2 DEF DistinctQueue
<1>5. \A i, j \in 1..Len(r) : i # j => BatchFrames(r[i]) \cap BatchFrames(r[j]) = {}
  BY <1>2, <1>3 DEF DistinctQueue
<1>6. QueuedFrames(r) \subseteq QueuedFrames(q) \cup BatchFrames(b)
  BY <1>2 DEF QueuedFrames
<1>. QED
  BY <1>4, <1>5, <1>6 DEF DistinctQueue, r

\* The same at the front, where enqueueHead() puts a batch back.
LEMMA QueueFront ==
  ASSUME NEW q \in Seq(Seq(Frames)), NEW b \in Seq(Frames), DistinctQueue(q), Injective(b),
         BatchFrames(b) \cap QueuedFrames(q) = {}
  PROVE  /\ DistinctQueue(<<b>> \o q)
         /\ QueuedFrames(<<b>> \o q) \subseteq QueuedFrames(q) \cup BatchFrames(b)
<1>. DEFINE r == <<b>> \o q
<1>0. <<b>> \in Seq(Seq(Frames)) /\ Len(<<b>>) = 1 /\ <<b>>[1] = b
  OBVIOUS
<1>1. /\ Len(q) \in Nat /\ Len(r) = Len(q) + 1 /\ r[1] = b
      /\ \A i \in 1..Len(q) : r[i + 1] = q[i]
  BY <1>0
<1>. HIDE DEF r
<1>2. \A i \in 1..Len(r) : (i - 1 \in 1..Len(q) /\ r[i] = q[i - 1]) \/ (i = 1 /\ r[i] = b)
  <2>. TAKE i \in 1..Len(r)
  <2>1. i = 1 \/ i - 1 \in 1..Len(q)
    BY <1>1
  <2>2. ASSUME i - 1 \in 1..Len(q) PROVE r[i] = q[i - 1]
    <3>1. PICK j : j = i - 1
      OBVIOUS
    <3>2. j + 1 = i
      BY <3>1
    <3>3. j \in 1..Len(q)
      BY <2>2, <3>1
    <3>4. r[j + 1] = q[j]
      BY <1>1, <3>3
    <3>. QED
      BY <3>1, <3>2, <3>4
  <2>. QED
    BY <1>1, <2>1, <2>2
<1>3. \A i \in 1..Len(q) : BatchFrames(b) \cap BatchFrames(q[i]) = {}
  BY DEF QueuedFrames
<1>4. \A i \in 1..Len(r) : Injective(r[i])
  BY <1>2 DEF DistinctQueue
<1>5. ASSUME NEW i \in 1..Len(r), NEW j \in 1..Len(r), i # j
      PROVE  BatchFrames(r[i]) \cap BatchFrames(r[j]) = {}
  <2>1. CASE i = 1
    <3>1. j - 1 \in 1..Len(q) /\ r[j] = q[j - 1] /\ r[i] = b
      BY <1>1, <1>2, <1>5, <2>1
    <3>. QED
      BY <1>3, <3>1
  <2>2. CASE j = 1
    <3>1. i - 1 \in 1..Len(q) /\ r[i] = q[i - 1] /\ r[j] = b
      BY <1>1, <1>2, <1>5, <2>2
    <3>. QED
      BY <1>3, <3>1
  <2>3. CASE i # 1 /\ j # 1
    <3>1. /\ i - 1 \in 1..Len(q) /\ r[i] = q[i - 1] /\ j - 1 \in 1..Len(q) /\ r[j] = q[j - 1]
          /\ i - 1 # j - 1
      BY <1>2, <1>5, <2>3
    <3>. QED
      BY <3>1 DEF DistinctQueue
  <2>. QED
    BY <2>1, <2>2, <2>3
<1>6. QueuedFrames(r) \subseteq QueuedFrames(q) \cup BatchFrames(b)
  <2>. SUFFICES ASSUME NEW i \in 1..Len(r), NEW f \in BatchFrames(r[i])
                PROVE  f \in QueuedFrames(q) \cup BatchFrames(b)
    BY DEF QueuedFrames
  <2>. QED
    BY <1>2 DEF QueuedFrames
<1>. QED
  BY <1>4, <1>5, <1>6 DEF DistinctQueue, r

\* The head of a queue and the rest have no frame in common.
LEMMA QueueHead ==
  ASSUME NEW q \in Seq(Seq(Frames)), q # <<>>, DistinctQueue(q)
  PROVE  /\ DistinctQueue(Tail(q)) /\ Injective(Head(q))
         /\ QueuedFrames(Tail(q)) \subseteq QueuedFrames(q) /\ BatchFrames(Head(q)) \subseteq QueuedFrames(q)
         /\ BatchFrames(Head(q)) \cap QueuedFrames(Tail(q)) = {}
<1>. DEFINE t == Tail(q)
            h == Head(q)
<1>1. /\ Len(q) \in Nat \ {0} /\ Len(t) = Len(q) - 1 /\ h = q[1]
      /\ \A i \in 1..(Len(q) - 1) : t[i] = q[i + 1]
  OBVIOUS
<1>. HIDE DEF t, h
<1>2. 1 \in 1..Len(q) /\ \A i \in 1..Len(t) : i + 1 \in 1..Len(q) /\ i + 1 # 1 /\ t[i] = q[i + 1]
  BY <1>1
<1>3. \A i \in 1..Len(t) : Injective(t[i])
  BY <1>2 DEF DistinctQueue
<1>4. \A i, j \in 1..Len(t) : i # j => BatchFrames(t[i]) \cap BatchFrames(t[j]) = {}
  <2>. TAKE i, j \in 1..Len(t)
  <2>1. i # j => i + 1 # j + 1
    BY <1>1
  <2>. QED
    BY <1>2, <2>1 DEF DistinctQueue
<1>5. Injective(h) /\ BatchFrames(h) \subseteq QueuedFrames(q)
  BY <1>1, <1>2 DEF DistinctQueue, QueuedFrames
<1>6. QueuedFrames(t) \subseteq QueuedFrames(q)
  BY <1>2 DEF QueuedFrames
<1>7. BatchFrames(h) \cap QueuedFrames(t) = {}
  <2>. SUFFICES ASSUME NEW i \in 1..Len(t), NEW f \in BatchFrames(h), f \in BatchFrames(t[i])
                PROVE  FALSE
    BY DEF QueuedFrames
  <2>1. BatchFrames(q[1]) \cap BatchFrames(q[i + 1]) = {}
    BY <1>2 DEF DistinctQueue
  <2>. QED
    BY <1>1, <1>2, <2>1
<1>. QED
  BY <1>3, <1>4, <1>5, <1>6, <1>7 DEF DistinctQueue, t, h

\* A step that moves frames from one place to another, or has new ones, leaves
\* each in one place.
LEMMA ResultMoves ==
  ASSUME ResultsCreated, OneResult,
         NEW a \in ResultKinds, NEW b \in ResultKinds, a # b, NEW v \in Workers,
         NEW G, \A g \in G : ~Created(g),
         \A k \in ResultKinds, w \in Workers : \A f : ResultAt(k, w, f)' =>
            \/ ResultAt(k, w, f)
            \/ k = b /\ (k \in Own => w = v) /\ ResultAt(a, v, f)
            \/ k \in {a, b} /\ a \notin Own /\ b \notin Own /\ f \in G,
         \A f : ~(ResultAt(a, v, f)' /\ ResultAt(b, v, f)'),
         \A k \in ResultKinds, w, u \in Workers : \A f : k \notin Own => (ResultAt(k, w, f)' <=> ResultAt(k, u, f)')
  PROVE  OneResult'
<1>. SUFFICES ASSUME NEW k \in ResultKinds, NEW l \in ResultKinds, NEW w \in Workers, NEW u \in Workers,
                     NEW f, ResultAt(k, w, f)', ResultAt(l, u, f)'
              PROVE  k = l /\ (k \in Own => w = u)
  BY DEF OneResult
<1>1. CASE f \in G
  <2>1. \A m \in ResultKinds, x \in Workers : ~ResultAt(m, x, f)
    BY <1>1 DEF ResultsCreated
  <2>2. k \in {a, b} /\ l \in {a, b} /\ a \notin Own /\ b \notin Own
    BY <2>1
  <2>3. ResultAt(k, v, f)' /\ ResultAt(l, v, f)'
    BY <2>2
  <2>. QED
    BY <2>2, <2>3
<1>2. CASE f \notin G
  <2>1. CASE ResultAt(k, w, f) /\ ResultAt(l, u, f)
    BY <2>1 DEF OneResult
  <2>2. CASE k = b /\ (k \in Own => w = v) /\ ResultAt(a, v, f)
    <3>1. CASE ResultAt(l, u, f)
      <4>1. l = a /\ (l \in Own => u = v)
        BY <2>2, <3>1 DEF OneResult
      <4>2. ResultAt(a, v, f)' /\ ResultAt(b, v, f)'
        BY <2>2, <4>1
      <4>. QED
        BY <4>2
    <3>2. CASE l = b /\ (l \in Own => u = v)
      BY <2>2, <3>2
    <3>. QED
      BY <1>2, <3>1, <3>2
  <2>3. CASE ResultAt(k, w, f) /\ l = b /\ (l \in Own => u = v) /\ ResultAt(a, v, f)
    <3>1. k = a /\ (k \in Own => w = v)
      BY <2>3 DEF OneResult
    <3>2. ResultAt(a, v, f)' /\ ResultAt(b, v, f)'
      BY <2>3, <3>1
    <3>. QED
      BY <3>2
  <2>. QED
    BY <1>2, <2>1, <2>2, <2>3
<1>. QED
  BY <1>1, <1>2

\* Only the places of workers depend on the worker.
LEMMA ResultOfNoWorker ==
  /\ \A k \in ResultKinds, w, u \in Workers : \A f : k \notin Own => (ResultAt(k, w, f) <=> ResultAt(k, u, f))
  /\ \A k \in ResultKinds, w, u \in Workers : \A f : k \notin Own => (ResultAt(k, w, f)' <=> ResultAt(k, u, f)')
  BY DEF ResultAt, Own

\* A step that moves no frame.
LEMMA ResultsStay ==
  ASSUME OneResult, ResultsCreated, \A f : Created(f) => Created(f)',
         \A k \in ResultKinds, w \in Workers : \A f : ResultAt(k, w, f)' => ResultAt(k, w, f)
  PROVE  OneResult' /\ ResultsCreated'
<1>1. OneResult'
  BY DEF OneResult
<1>2. ResultsCreated'
  BY DEF ResultsCreated
<1>. QED
  BY <1>1, <1>2

\* What is dropped from inflight_ is remembered.
LEMMA RecordedStays ==
  ASSUME NEW f, Recorded(f), gone \subseteq gone',
         \A j \in DOMAIN inflight :
            \/ inflight[j].frame \in gone'
            \/ j \in DOMAIN inflight' /\ inflight'[j].frame = inflight[j].frame
  PROVE  Recorded(f)'
  BY DEF Recorded, Key

\* From one place into a worker's queue or the worker's hands.
LEMMA ResultsHandedOn ==
  ASSUME OneResult, NEW a \in ResultKinds, NEW b \in Own, a # b, NEW v \in Workers,
         \A k \in ResultKinds, w \in Workers : \A f : ResultAt(k, w, f)' =>
            ResultAt(k, w, f) \/ (k = b /\ w = v /\ ResultAt(a, v, f)),
         \A f : ~(ResultAt(a, v, f)' /\ ResultAt(b, v, f)')
  PROVE  OneResult'
<1>. SUFFICES ASSUME NEW k \in ResultKinds, NEW l \in ResultKinds, NEW w \in Workers, NEW u \in Workers,
                     NEW f, ResultAt(k, w, f)', ResultAt(l, u, f)'
              PROVE  k = l /\ (k \in Own => w = u)
  BY DEF OneResult
<1>1. \A m \in ResultKinds, x \in Workers : m \notin Own => (ResultAt(m, x, f)' <=> ResultAt(m, v, f)')
  BY ResultOfNoWorker
<1>2. CASE ResultAt(k, w, f) /\ ResultAt(l, u, f)
  BY <1>2 DEF OneResult
<1>3. CASE k = b /\ w = v /\ ResultAt(a, v, f)
  <2>1. CASE ResultAt(l, u, f)
    <3>1. l = a /\ (l \in Own => u = v)
      BY <1>3, <2>1 DEF OneResult
    <3>2. ResultAt(a, v, f)' /\ ResultAt(b, v, f)'
      BY <1>1, <1>3, <3>1
    <3>. QED
      BY <3>2
  <2>. QED
    BY <1>3, <2>1
<1>4. CASE ResultAt(k, w, f) /\ l = b /\ u = v /\ ResultAt(a, v, f)
  <2>1. k = a /\ (k \in Own => w = v)
    BY <1>4 DEF OneResult
  <2>2. ResultAt(a, v, f)' /\ ResultAt(b, v, f)'
    BY <1>1, <1>4, <2>1
  <2>. QED
    BY <2>2
<1>. QED
  BY <1>2, <1>3, <1>4

\* From the deque, where there may be new ones, into the hands of a sender.
LEMMA ResultsExtracted ==
  ASSUME ResultsCreated, OneResult, NEW p \in Senders, NEW v \in Workers,
         NEW G, \A g \in G : ~Created(g),
         \A k \in ResultKinds, w \in Workers : \A f : ResultAt(k, w, f)' =>
            \/ ResultAt(k, w, f)
            \/ k = p /\ ResultAt("pending", v, f)
            \/ k \in {"pending", p} /\ f \in G,
         \A f : ~(ResultAt("pending", v, f)' /\ ResultAt(p, v, f)')
  PROVE  OneResult'
<1>1. p \in ResultKinds /\ "pending" \in ResultKinds /\ "pending" # p /\ p \notin Own /\ "pending" \notin Own
  BY DEF Senders, ResultKinds, Own
<1>2. \A k \in ResultKinds, w \in Workers : \A f : ResultAt(k, w, f)' =>
         \/ ResultAt(k, w, f)
         \/ k = p /\ (k \in Own => w = v) /\ ResultAt("pending", v, f)
         \/ k \in {"pending", p} /\ "pending" \notin Own /\ p \notin Own /\ f \in G
  BY <1>1
<1>3. \A k \in ResultKinds, w, u \in Workers : \A f : k \notin Own => (ResultAt(k, w, f)' <=> ResultAt(k, u, f)')
  BY ResultOfNoWorker
<1>. QED
  BY <1>1, <1>2, <1>3, ResultMoves

\* extractBatch(): the frames of the batch leave the deque.
LEMMA ExtractKeepsResults ==
  ASSUME TypeOK, Results, NEW p \in Senders, NEW q \in Seq(Frames), q # <<>>, Injective(q),
         NEW G, \A g \in G : ~Created(g), BatchFrames(q) \subseteq BatchFrames(pending) \cup G,
         ExtractBatch(p, q), UNCHANGED <<inflight, queue, work, gone, orphans>>,
         sender[p].pc \notin {"insert", "route", "push"},
         \A f : Created(f) => Created(f)', \A g \in G : Created(g)'
  PROVE  Results'
<1>. DEFINE n == Min({Len(q), BatchSize})
            front == SubSeq(q, 1, n)
            rest == SubSeq(q, n + 1, Len(q))
<1>1. n \in Nat /\ n <= Len(q)
  BY ExtractFacts
<1>2. /\ BatchFrames(front) \subseteq BatchFrames(q) /\ BatchFrames(rest) \subseteq BatchFrames(q)
      /\ BatchFrames(front) \cap BatchFrames(rest) = {} /\ Injective(front) /\ Injective(rest)
  BY <1>1, SplitFacts
<1>3. /\ pending' = rest
      /\ sender' = [sender EXCEPT ![p] = [pc |-> "insert", batch |-> front, to |-> 0]]
  BY DEF ExtractBatch
<1>. HIDE DEF n, front, rest
<1>4. /\ sender'[p].pc = "insert" /\ sender'[p].batch = front
      /\ \A r \in Senders : r # p => sender'[r] = sender[r]
  BY <1>3 DEF TypeOK
<1>5. \A w \in Workers : \A f : ResultAt("pending", w, f)' => f \in BatchFrames(rest)
  BY <1>3 DEF ResultAt, Senders
<1>6. \A w \in Workers : \A f : ResultAt(p, w, f)' => f \in BatchFrames(front)
  BY <1>4 DEF ResultAt, Senders, Sending
<1>7. ASSUME NEW k \in ResultKinds, NEW w \in Workers, NEW f, k # p, k # "pending", ResultAt(k, w, f)'
      PROVE  ResultAt(k, w, f)
  BY <1>4, <1>7 DEF ResultAt, Senders
<1>8. \A w \in Workers : \A f : f \in BatchFrames(q) => f \in G \/ ResultAt("pending", w, f)
  BY DEF ResultAt
<1>9. PICK v \in Workers : TRUE
  BY ConstantTypes
<1>10. p \in ResultKinds /\ "pending" \in ResultKinds /\ p # "pending" /\ p \notin Own /\ "pending" \notin Own
  BY DEF Senders, ResultKinds, Own
<1>11. ASSUME NEW k \in ResultKinds, NEW w \in Workers, NEW f, ResultAt(k, w, f)'
       PROVE  \/ ResultAt(k, w, f)
              \/ k = p /\ (k \in Own => w = v) /\ ResultAt("pending", v, f)
              \/ k \in {"pending", p} /\ "pending" \notin Own /\ p \notin Own /\ f \in G
  <2>1. CASE k = "pending"
    BY <1>2, <1>5, <1>8, <1>10, <1>11, <2>1
  <2>2. CASE k = p
    BY <1>2, <1>6, <1>8, <1>10, <1>11, <2>2
  <2>3. CASE k # p /\ k # "pending"
    BY <1>7, <1>11, <2>3
  <2>. QED
    BY <2>1, <2>2, <2>3
<1>12. \A f : ~(ResultAt("pending", v, f)' /\ ResultAt(p, v, f)')
  BY <1>2, <1>5, <1>6
<1>13. OneResult'
  <2>1. \A k \in ResultKinds, w \in Workers : \A f : ResultAt(k, w, f)' =>
           \/ ResultAt(k, w, f)
           \/ k = p /\ ResultAt("pending", v, f)
           \/ k \in {"pending", p} /\ f \in G
    BY <1>11
  <2>2. ResultsCreated /\ OneResult
    BY DEF Results
  <2>. QED
    BY <1>12, <2>1, <2>2, ResultsExtracted
<1>14. Distinct'
  <2>1. Injective(pending)'
    BY <1>2, <1>3 DEF Injective
  <2>2. \A r \in Senders : sender'[r].pc \in {"insert", "route", "push"} => Injective(sender'[r].batch)
    BY <1>2, <1>4 DEF Results, Distinct
  <2>3. /\ \A w \in Workers : DistinctQueue(queue'[w])
        /\ \A w \in Workers : work'[w].pc \in {"infer", "requeue", "publish", "emit"} => Injective(work'[w].batch)
    BY DEF Results, Distinct
  <2>. QED
    BY <2>1, <2>2, <2>3 DEF Distinct
<1>15. ResultsCreated'
  <2>1. \A k \in ResultKinds, w \in Workers : \A f : ResultAt(k, w, f)' =>
           f \in G \/ \E l \in ResultKinds : ResultAt(l, w, f)
    BY <1>10, <1>11, ResultOfNoWorker
  <2>. QED
    BY <2>1 DEF Results, ResultsCreated
<1>16. Awaited'
  <2>. SUFFICES ASSUME NEW k \in ResultKinds, NEW w \in Workers, NEW f, ResultAt(k, w, f)', k # "pending",
                       k \in Senders => sender'[k].pc # "insert"
                PROVE  Recorded(f)'
    BY DEF Awaited
  <2>1. k # p
    BY <1>4
  <2>2. ResultAt(k, w, f) /\ (k \in Senders => sender[k].pc # "insert")
    BY <1>4, <1>7, <2>1
  <2>3. Recorded(f)
    BY <2>2 DEF Results, Awaited
  <2>. QED
    BY <2>3 DEF Recorded
<1>. QED
  BY <1>13, <1>14, <1>15, <1>16 DEF Results

\* process() puts a new frame behind the others or takes the front off.
LEMMA GatherKeepsResults ==
  ASSUME TypeOK, Results, NEW q \in Seq(Frames), Injective(q),
         NEW G, \A g \in G : ~Created(g), BatchFrames(q) \subseteq BatchFrames(pending) \cup G,
         Gather(q), UNCHANGED <<inflight, queue, work, gone, orphans>>, sender["graph"].pc = "idle",
         \A f : Created(f) => Created(f)', \A g \in G : Created(g)'
  PROVE  Results'
<1>1. CASE q # <<>> /\ ExtractBatch("graph", q)
  BY <1>1, ExtractKeepsResults DEF Senders
<1>2. CASE pending' = q /\ UNCHANGED <<deadline, sender>>
  <2>1. ASSUME NEW k \in ResultKinds, NEW w \in Workers, NEW f, ResultAt(k, w, f)'
        PROVE  ResultAt(k, w, f) \/ (k = "pending" /\ f \in G)
    <3>1. CASE k = "pending"
      BY <1>2, <2>1, <3>1 DEF ResultAt, Senders
    <3>2. CASE k # "pending"
      BY <1>2, <2>1, <3>2 DEF ResultAt, Senders
    <3>. QED
      BY <3>1, <3>2
  <2>2. OneResult'
    <3>. SUFFICES ASSUME NEW k \in ResultKinds, NEW l \in ResultKinds, NEW w \in Workers,
                         NEW u \in Workers, NEW f, ResultAt(k, w, f)', ResultAt(l, u, f)'
                  PROVE  k = l /\ (k \in Own => w = u)
      BY DEF OneResult
    <3>1. CASE f \in G
      <4>1. \A m \in ResultKinds, x \in Workers : ~ResultAt(m, x, f)
        BY <3>1 DEF Results, ResultsCreated
      <4>2. k = "pending" /\ l = "pending" /\ "pending" \notin Own
        BY <2>1, <4>1 DEF Own
      <4>. QED
        BY <4>2
    <3>2. CASE f \notin G
      BY <2>1, <3>2 DEF Results, OneResult
    <3>. QED
      BY <3>1, <3>2
  <2>3. Distinct'
    <3>1. Injective(pending)'
      BY <1>2 DEF Injective
    <3>2. \A r \in Senders : sender'[r].pc \in {"insert", "route", "push"} => Injective(sender'[r].batch)
      BY <1>2 DEF Results, Distinct
    <3>3. /\ \A w \in Workers : DistinctQueue(queue'[w])
          /\ \A w \in Workers : work'[w].pc \in {"infer", "requeue", "publish", "emit"} => Injective(work'[w].batch)
      BY DEF Results, Distinct
    <3>. QED
      BY <3>1, <3>2, <3>3 DEF Distinct
  <2>4. ResultsCreated'
    BY <2>1 DEF Results, ResultsCreated
  <2>5. Awaited'
    BY <1>2, <2>1 DEF Results, Awaited, Recorded
  <2>. QED
    BY <2>2, <2>3, <2>4, <2>5 DEF Results
<1>. QED
  BY <1>1, <1>2 DEF Gather

\* A step that moves no frame and drops from inflight_ only what it remembers.
LEMMA NothingMoves ==
  ASSUME Results, Distinct', \A f : Created(f) => Created(f)',
         \A k \in ResultKinds, w \in Workers : \A f : ResultAt(k, w, f)' => ResultAt(k, w, f),
         \A k \in Senders : sender[k].pc = "insert" => sender'[k].pc = "insert" \/ Sending(sender'[k]) = {},
         gone \subseteq gone', orphans' \subseteq orphans \cup gone',
         \A j \in DOMAIN inflight :
            \/ inflight[j].frame \in gone'
            \/ j \in DOMAIN inflight' /\ inflight'[j].frame = inflight[j].frame
  PROVE  Results'
<1>1. OneResult' /\ ResultsCreated'
  BY ResultsStay DEF Results
<1>2. Awaited'
  <2>. SUFFICES ASSUME NEW k \in ResultKinds, NEW w \in Workers, NEW f, ResultAt(k, w, f)', k # "pending",
                       k \in Senders => sender'[k].pc # "insert"
                PROVE  Recorded(f)'
    BY DEF Awaited
  <2>1. k \in Senders => sender[k].pc # "insert"
    <3>. SUFFICES ASSUME k \in Senders, sender[k].pc = "insert" PROVE FALSE
      OBVIOUS
    <3>1. Sending(sender'[k]) = {}
      OBVIOUS
    <3>2. f \in Sending(sender'[k])
      BY DEF ResultAt, Senders
    <3>. QED
      BY <3>1, <3>2
  <2>2. Recorded(f)
    BY <2>1 DEF Results, Awaited
  <2>. QED
    BY <2>2, RecordedStays
<1>3. orphans' \subseteq gone'
  BY DEF Results
<1>. QED
  BY <1>1, <1>2, <1>3 DEF Results

\* Without a second connection the key determines the frame.
LEMMA KeyIsFrame ==
  ASSUME MaxConn = 0, NEW f \in Frames, NEW g \in Frames, Key(f) = Key(g)
  PROVE  f = g
<1>1. f.stream = g.stream /\ f.seq = g.seq
  BY DEF Key
<1>2. f.conn = 0 /\ g.conn = 0
  BY DEF Frames
<1>. QED
  BY <1>1, <1>2 DEF Frames

\* The graph thread and the flush thread record the frames of a batch before
\* they hand it on.
LEMMA SendersKeepResults ==
  ASSUME MaxConn = 0, TypeOK, Matching, Results, [Next]_vars, Process \/ SendBatch("graph") \/ FlushLoop
  PROVE  Results'
<1>. USE DEF groupVars, histVars
<1>1. UNCHANGED <<work, orphans>>
  BY DEF Process, ProcessNoFrame, ProcessFrame, SendBatch, FlushLoop, FlushWake, Sweep,
         InsertInflight, Route, Enqueue
<1>2. \A f : Created(f) => Created(f)'
  BY CreatedStays
<1>3. \A w \in Workers : work'[w].pc \in {"infer", "requeue", "publish", "emit"} => Injective(work'[w].batch)
  BY <1>1 DEF Results, Distinct
<1>4. ASSUME NEW s \in Streams, ProcessFrame(s) PROVE Results'
  <2>1. PICK g : g = [stream |-> s, seq |-> source[s].seq, conn |-> source[s].conn]
    OBVIOUS
  <2>2. source[s].seq \in 0..MaxSeq /\ source[s].conn \in 0..MaxConn
    BY <1>4, ConstantTypes DEF ProcessFrame, TypeOK
  <2>3. g \in Frames /\ g.stream = s /\ g.seq = source[s].seq /\ g.conn = source[s].conn
    BY <2>1, <2>2 DEF Frames
  <2>4. ~Created(g)
    BY <2>2, <2>3, ConstantTypes DEF Created
  <2>5. g \notin BatchFrames(pending)
    BY <2>4, ConstantTypes DEF Results, ResultsCreated, ResultAt, ResultKinds
  <2>6. /\ Gather(AddPending(g)) /\ UNCHANGED <<inflight, queue, gone>> /\ sender["graph"].pc = "idle"
        /\ source' = [source EXCEPT ![s].seq = @ + 1]
    BY <1>4, <2>1 DEF ProcessFrame, GraphThreadRuns
  <2>7. /\ AddPending(g) \in Seq(Frames) /\ Injective(AddPending(g))
        /\ BatchFrames(AddPending(g)) \subseteq BatchFrames(pending) \cup {g}
    BY <2>3, <2>5, AddPendingFacts DEF Results, Distinct
  <2>8. PICK q, G : q = AddPending(g) /\ G = {g}
    OBVIOUS
  <2>9. Created(g)'
    <3>1. source'[s].seq = source[s].seq + 1 /\ source'[s].conn = source[s].conn
      BY <2>6 DEF TypeOK
    <3>. QED
      BY <2>2, <2>3, <3>1 DEF Created
  <2>10. /\ q \in Seq(Frames) /\ Injective(q) /\ BatchFrames(q) \subseteq BatchFrames(pending) \cup G
         /\ Gather(q)
    BY <2>6, <2>7, <2>8
  <2>11. (\A x \in G : ~Created(x)) /\ \A x \in G : Created(x)'
    BY <2>4, <2>8, <2>9
  <2>. QED
    BY <1>1, <1>2, <2>6, <2>10, <2>11, GatherKeepsResults
<1>5. CASE ProcessNoFrame
  <2>1. /\ Gather(pending) /\ UNCHANGED <<inflight, queue, gone>> /\ sender["graph"].pc = "idle"
        /\ pending \in Seq(Frames)
    BY <1>5 DEF ProcessNoFrame, GraphThreadRuns, TypeOK
  <2>2. PICK q, G : q = pending /\ G = {}
    OBVIOUS
  <2>3. /\ q \in Seq(Frames) /\ Injective(q) /\ BatchFrames(q) \subseteq BatchFrames(pending) \cup G
        /\ Gather(q)
    BY <2>1, <2>2 DEF Results, Distinct
  <2>4. (\A x \in G : ~Created(x)) /\ \A x \in G : Created(x)'
    BY <2>2
  <2>. QED
    BY <1>1, <1>2, <2>1, <2>3, <2>4, GatherKeepsResults
<1>6. CASE FlushWake
  <2>1. sender["flush"].pc = "wait" /\ UNCHANGED <<inflight, queue, gone>>
    BY <1>6 DEF FlushWake
  <2>2. CASE pending # <<>> /\ ExtractBatch("flush", pending)
    <3>1. PICK q, G : q = pending /\ G = {}
      OBVIOUS
    <3>2. /\ q \in Seq(Frames) /\ Injective(q) /\ BatchFrames(q) \subseteq BatchFrames(pending) \cup G
          /\ q # <<>> /\ ExtractBatch("flush", q) /\ "flush" \in Senders
          /\ sender["flush"].pc \notin {"insert", "route", "push"}
      BY <2>1, <2>2, <3>1 DEF Results, Distinct, TypeOK, Senders
    <3>3. (\A x \in G : ~Created(x)) /\ \A x \in G : Created(x)'
      BY <3>1
    <3>. QED
      BY <1>1, <1>2, <2>1, <3>2, <3>3, ExtractKeepsResults
  <2>3. CASE /\ UNCHANGED pending
             /\ \/ sender' = [sender EXCEPT !["flush"] = Idle]
                \/ sender' = [sender EXCEPT !["flush"].pc = "sweep"]
    <3>1. sender'["flush"].pc \in {"idle", "sweep"} /\ sender'["graph"] = sender["graph"]
      BY <2>3 DEF TypeOK, SenderRecords, Senders, Idle
    <3>2. Sending(sender'["flush"]) = {}
      BY <3>1 DEF Sending
    <3>3. \A k \in ResultKinds, w \in Workers : \A f : ResultAt(k, w, f)' => ResultAt(k, w, f)
      BY <1>1, <2>1, <2>3, <3>1, <3>2 DEF ResultAt, Senders
    <3>4. Distinct'
      <4>1. \A r \in Senders : sender'[r].pc \in {"insert", "route", "push"} => Injective(sender'[r].batch)
        BY <3>1 DEF Results, Distinct, Senders
      <4>2. Injective(pending') /\ \A w \in Workers : DistinctQueue(queue'[w])
        BY <2>1, <2>3 DEF Results, Distinct
      <4>. QED
        BY <1>3, <4>1, <4>2 DEF Distinct
    <3>5. \A k \in Senders : sender[k].pc = "insert" => sender'[k].pc = "insert" \/ Sending(sender'[k]) = {}
      BY <3>1, <3>2 DEF Senders
    <3>. QED
      BY <1>1, <1>2, <2>1, <3>3, <3>4, <3>5, NothingMoves
  <2>. QED
    BY <1>6, <2>2, <2>3 DEF FlushWake
<1>7. CASE Sweep
  <2>1. /\ UNCHANGED <<pending, queue>> /\ sender' = [sender EXCEPT !["flush"].pc = "wait"]
        /\ gone \subseteq gone'
        /\ \A j \in DOMAIN inflight :
              \/ inflight[j].frame \in gone'
              \/ j \in DOMAIN inflight' /\ inflight'[j].frame = inflight[j].frame
    BY <1>7 DEF Sweep
  <2>2. sender'["flush"].pc = "wait" /\ sender'["graph"] = sender["graph"]
    BY <2>1 DEF TypeOK, SenderRecords, Senders
  <2>3. Sending(sender'["flush"]) = {}
    BY <2>2 DEF Sending
  <2>4. \A k \in ResultKinds, w \in Workers : \A f : ResultAt(k, w, f)' => ResultAt(k, w, f)
    BY <1>1, <2>1, <2>2, <2>3 DEF ResultAt, Senders
  <2>5. Distinct'
    <3>1. \A r \in Senders : sender'[r].pc \in {"insert", "route", "push"} => Injective(sender'[r].batch)
      BY <2>2 DEF Results, Distinct, Senders
    <3>2. Injective(pending') /\ \A w \in Workers : DistinctQueue(queue'[w])
      BY <2>1 DEF Results, Distinct
    <3>. QED
      BY <1>3, <3>1, <3>2 DEF Distinct
  <2>6. \A k \in Senders : sender[k].pc = "insert" => sender'[k].pc = "insert" \/ Sending(sender'[k]) = {}
    BY <2>2, <2>3 DEF Senders
  <2>. QED
    BY <1>1, <1>2, <2>1, <2>4, <2>5, <2>6, NothingMoves
<1>8. ASSUME NEW p \in Senders, Route(p) PROVE Results'
  <2>1. sender[p].pc = "route" /\ UNCHANGED <<pending, inflight, queue, gone>>
    BY <1>8 DEF Route
  <2>2. /\ \A r \in Senders : r # p => sender'[r] = sender[r]
        /\ \/ sender'[p].pc = "push" /\ sender'[p].batch = sender[p].batch
           \/ sender'[p].pc \in {"idle", "sweep"}
    BY <1>8 DEF Route, TypeOK, SenderRecords, Sent, Idle
  <2>3. Sending(sender'[p]) \subseteq Sending(sender[p])
    BY <2>1, <2>2 DEF Sending
  <2>4. \A k \in ResultKinds, w \in Workers : \A f : ResultAt(k, w, f)' => ResultAt(k, w, f)
    BY <1>1, <2>1, <2>2, <2>3 DEF ResultAt
  <2>5. Distinct'
    <3>1. \A r \in Senders : sender'[r].pc \in {"insert", "route", "push"} => Injective(sender'[r].batch)
      BY <2>1, <2>2 DEF Results, Distinct
    <3>2. Injective(pending') /\ \A w \in Workers : DistinctQueue(queue'[w])
      BY <2>1 DEF Results, Distinct
    <3>. QED
      BY <1>3, <3>1, <3>2 DEF Distinct
  <2>6. \A k \in Senders : sender[k].pc = "insert" => sender'[k].pc = "insert" \/ Sending(sender'[k]) = {}
    BY <2>1, <2>2
  <2>. QED
    BY <1>1, <1>2, <2>1, <2>4, <2>5, <2>6, NothingMoves
<1>9. ASSUME NEW p \in Senders, Enqueue(p) PROVE Results'
  <2>1. PICK to, b : to = sender[p].to /\ b = sender[p].batch
    OBVIOUS
  <2>2. /\ sender[p].pc = "push" /\ UNCHANGED <<pending, inflight, gone>>
        /\ queue' = queue \/ queue' = [queue EXCEPT ![to] = Append(queue[to], b)]
    BY <1>9, <2>1 DEF Enqueue
  <2>3. /\ \A r \in Senders : r # p => sender'[r] = sender[r]
        /\ sender'[p].pc \in {"idle", "sweep"}
    BY <1>9 DEF Enqueue, TypeOK, SenderRecords, Sent, Idle
  <2>4. Sending(sender'[p]) = {} /\ Sending(sender[p]) = BatchFrames(b) /\ Injective(b)
    BY <2>1, <2>2, <2>3 DEF Sending, Results, Distinct
  <2>5. b \in Seq(Frames) /\ to \in Workers /\ queue[to] \in Seq(Seq(Frames))
    BY <2>1 DEF TypeOK, SenderRecords
  <2>6. p \in ResultKinds /\ "queue" \in ResultKinds /\ p # "queue" /\ p \notin Own /\ "queue" \in Own
    BY DEF Senders, ResultKinds, Own
  <2>7. BatchFrames(b) \cap QueuedFrames(queue[to]) = {}
    <3>1. \A f \in BatchFrames(b) : ResultAt(p, to, f)
      BY <2>4 DEF ResultAt
    <3>2. \A f \in QueuedFrames(queue[to]) : ResultAt("queue", to, f)
      BY DEF ResultAt
    <3>. QED
      BY <2>5, <2>6, <3>1, <3>2 DEF Results, OneResult
  <2>8. DistinctQueue(queue[to])
    BY <2>5 DEF Results, Distinct
  <2>9. /\ DistinctQueue(Append(queue[to], b))
        /\ QueuedFrames(Append(queue[to], b)) \subseteq QueuedFrames(queue[to]) \cup BatchFrames(b)
    BY <2>4, <2>5, <2>7, <2>8, QueueBack
  <2>10. /\ DistinctQueue(queue'[to]) /\ QueuedFrames(queue'[to]) \subseteq QueuedFrames(queue[to]) \cup BatchFrames(b)
         /\ \A w \in Workers : w # to => queue'[w] = queue[w]
    BY <2>2, <2>5, <2>8, <2>9 DEF TypeOK
  <2>11. ASSUME NEW k \in ResultKinds, NEW w \in Workers, NEW f, ResultAt(k, w, f)'
         PROVE  ResultAt(k, w, f) \/ (k = "queue" /\ w = to /\ ResultAt(p, to, f))
    <3>1. CASE k = "queue"
      <4>1. f \in QueuedFrames(queue'[w])
        BY <2>11, <3>1 DEF ResultAt, Senders
      <4>2. CASE w = to
        BY <2>4, <2>10, <3>1, <4>1, <4>2 DEF ResultAt
      <4>3. CASE w # to
        BY <2>10, <3>1, <4>1, <4>3 DEF ResultAt
      <4>. QED
        BY <4>2, <4>3
    <3>2. CASE k # "queue"
      BY <1>1, <2>2, <2>3, <2>4, <2>11, <3>2 DEF ResultAt
    <3>. QED
      BY <3>1, <3>2
  <2>12. OneResult'
    <3>1. \A k \in ResultKinds, w \in Workers : \A f : ResultAt(k, w, f)' =>
             ResultAt(k, w, f) \/ (k = "queue" /\ w = to /\ ResultAt(p, to, f))
      BY <2>11
    <3>2. \A f : ~(ResultAt(p, to, f)' /\ ResultAt("queue", to, f)')
      BY <2>4 DEF ResultAt, Senders
    <3>3. OneResult
      BY DEF Results
    <3>. QED
      BY <2>5, <2>6, <3>1, <3>2, <3>3, ResultsHandedOn
  <2>13. ResultsCreated'
    BY <1>2, <2>5, <2>6, <2>11 DEF Results, ResultsCreated
  <2>14. Distinct'
    <3>1. \A r \in Senders : sender'[r].pc \in {"insert", "route", "push"} => Injective(sender'[r].batch)
      BY <2>3 DEF Results, Distinct
    <3>2. Injective(pending') /\ \A w \in Workers : DistinctQueue(queue'[w])
      BY <2>2, <2>10 DEF Results, Distinct
    <3>. QED
      BY <1>3, <3>1, <3>2 DEF Distinct
  <2>15. Awaited'
    <3>. SUFFICES ASSUME NEW k \in ResultKinds, NEW w \in Workers, NEW f, ResultAt(k, w, f)', k # "pending",
                         k \in Senders => sender'[k].pc # "insert"
                  PROVE  Recorded(f)'
      BY DEF Awaited
    <3>1. Recorded(f)
      <4>1. CASE ResultAt(k, w, f)
        <5>1. k \in Senders => sender[k].pc # "insert"
          BY <2>2, <2>3
        <5>. QED
          BY <4>1, <5>1 DEF Results, Awaited
      <4>2. CASE ResultAt(p, to, f)
        <5>1. p # "pending"
          BY DEF Senders
        <5>. QED
          BY <2>2, <2>5, <2>6, <4>2, <5>1 DEF Results, Awaited
      <4>. QED
        BY <2>11, <4>1, <4>2
    <3>. QED
      BY <2>2, <3>1 DEF Recorded
  <2>. QED
    BY <1>1, <2>2, <2>12, <2>13, <2>14, <2>15 DEF Results
<1>10. ASSUME NEW p \in Senders, InsertInflight(p) PROVE Results'
  <2>. DEFINE b == sender[p].batch
              last(j) == b[Max({i \in 1..Len(b) : Key(b[i]) = j})]
              new == {Key(f) : f \in BatchFrames(b)}
  <2>1. /\ sender[p].pc = "insert" /\ UNCHANGED <<pending, queue>>
        /\ inflight' = [j \in new \cup DOMAIN inflight |->
               IF j \in new THEN [frame |-> last(j), stale |-> FALSE] ELSE inflight[j]]
        /\ gone' = gone \cup {inflight[j].frame : j \in new \cap DOMAIN inflight}
        /\ sender' = [sender EXCEPT ![p].pc = "route"]
    BY <1>10 DEF InsertInflight
  <2>2. /\ sender'[p].pc = "route" /\ sender'[p].batch = b
        /\ \A r \in Senders : r # p => sender'[r] = sender[r]
    BY <2>1 DEF TypeOK, SenderRecords
  <2>3. b \in Seq(Frames)
    BY DEF TypeOK, SenderRecords
  <2>4. \A f \in BatchFrames(b) : f \in Frames /\ Key(f) \in new
    BY <2>3 DEF BatchFrames
  <2>5. \A f \in BatchFrames(b) : last(Key(f)) = f
    <3>. TAKE f \in BatchFrames(b)
    <3>1. last(Key(f)) \in Frames /\ Key(last(Key(f))) = Key(f)
      BY <2>3, <2>4, InsertFacts
    <3>. HIDE DEF last
    <3>. QED
      BY <1>10, <2>4, <3>1, KeyIsFrame
  <2>6. /\ \A f \in BatchFrames(b) : Key(f) \in DOMAIN inflight' /\ inflight'[Key(f)].frame = f
        /\ \A j \in DOMAIN inflight :
              \/ inflight[j].frame \in gone'
              \/ j \in DOMAIN inflight' /\ inflight'[j].frame = inflight[j].frame
        /\ gone \subseteq gone'
    BY <2>1, <2>4, <2>5
  <2>. HIDE DEF b, last, new
  <2>7. \A k \in ResultKinds, w \in Workers : \A f : ResultAt(k, w, f)' => ResultAt(k, w, f)
    <3>1. Sending(sender'[p]) = Sending(sender[p])
      BY <2>1, <2>2 DEF Sending, b
    <3>. QED
      BY <1>1, <2>1, <2>2, <3>1 DEF ResultAt
  <2>8. OneResult' /\ ResultsCreated'
    BY <1>2, <2>7, ResultsStay DEF Results
  <2>9. Distinct'
    <3>1. \A r \in Senders : sender'[r].pc \in {"insert", "route", "push"} => Injective(sender'[r].batch)
      BY <2>1, <2>2 DEF Results, Distinct, b
    <3>2. Injective(pending') /\ \A w \in Workers : DistinctQueue(queue'[w])
      BY <2>1 DEF Results, Distinct
    <3>. QED
      BY <1>3, <3>1, <3>2 DEF Distinct
  <2>10. Awaited'
    <3>. SUFFICES ASSUME NEW k \in ResultKinds, NEW w \in Workers, NEW f, ResultAt(k, w, f)', k # "pending",
                         k \in Senders => sender'[k].pc # "insert"
                  PROVE  Recorded(f)'
      BY DEF Awaited
    <3>1. CASE k = p
      <4>1. f \in BatchFrames(b)
        BY <2>2, <3>1 DEF ResultAt, Senders, Sending
      <4>. QED
        BY <2>6, <4>1 DEF Recorded, Key
    <3>2. CASE k # p
      <4>1. ResultAt(k, w, f) /\ (k \in Senders => sender[k].pc # "insert")
        BY <2>2, <2>7, <3>2
      <4>2. Recorded(f)
        BY <4>1 DEF Results, Awaited
      <4>. QED
        BY <2>6, <4>2, RecordedStays
    <3>. QED
      BY <3>1, <3>2
  <2>11. orphans' \subseteq gone'
    BY <1>1, <2>6 DEF Results
  <2>. QED
    BY <2>8, <2>9, <2>10, <2>11 DEF Results
<1>. QED
  BY <1>4, <1>5, <1>6, <1>7, <1>8, <1>9, <1>10 DEF Process, SendBatch, FlushLoop, Senders

\* The frames a worker still owes results for after the one it is at.
LEMMA DueFacts ==
  ASSUME TypeOK, NEW w \in Workers, AtAFrame, work[w].pc \in {"publish", "emit"}
  PROVE  LET b == work[w].batch
             i == work[w].at
         IN  /\ i \in Nat /\ Len(b) \in Nat /\ i \in 1..Len(b) /\ b[i] \in Frames
             /\ (i + 1)..Len(b) \subseteq i..Len(b) /\ i \in i..Len(b)
             /\ \A j \in (i + 1)..Len(b) : j \in 1..Len(b) /\ j # i
<1>1. work[w].batch \in Seq(Frames) /\ work[w].at \in 1..Len(work[w].batch)
  BY DEF TypeOK, WorkRecords, AtAFrame
<1>. QED
  BY <1>1

\* The worker owes fewer results once it goes on.
LEMMA NextResultDue ==
  ASSUME TypeOK, AtAFrame, NEW w \in Workers, work[w].pc \in {"publish", "emit"}, NextResult(w)
  PROVE  /\ Due(work'[w]) \subseteq Due(work[w])
         /\ work'[w].pc \in {"infer", "requeue", "publish", "emit"} => work'[w].batch = work[w].batch
<1>. DEFINE b == work[w].batch
            i == work[w].at
<1>1. i \in Nat /\ (i + 1)..Len(b) \subseteq i..Len(b)
  BY DueFacts
<1>2. CASE i < Len(b)
  <2>1. work'[w].pc = "publish" /\ work'[w].at = i + 1 /\ work'[w].batch = b
    BY <1>2 DEF NextResult, TypeOK, WorkRecords
  <2>2. Due(work'[w]) = {b[j] : j \in (i + 1)..Len(b)}
    BY <2>1 DEF Due
  <2>3. {b[j] : j \in (i + 1)..Len(b)} \subseteq Due(work[w])
    BY <1>1 DEF Due
  <2>. QED
    BY <2>1, <2>2, <2>3
<1>3. CASE ~(i < Len(b))
  <2>1. work'[w].pc \in {"off", "wait"}
    BY <1>3 DEF NextResult, LoopTop, TypeOK, Off, Wait
  <2>. QED
    BY <2>1 DEF Due
<1>. QED
  BY <1>2, <1>3

\* A worker's step gives out results, or loses some.
LEMMA WorkerOwesLess ==
  ASSUME Results, \A f : Created(f) => Created(f)', NEW w \in Workers,
         UNCHANGED <<pending, sender, queue, gone, inflight>>, orphans' \subseteq orphans \cup gone',
         \A u \in Workers \ {w} : work'[u] = work[u],
         Due(work'[w]) \subseteq Due(work[w]),
         work'[w].pc \in {"infer", "requeue", "publish", "emit"} =>
            /\ work[w].pc \in {"infer", "requeue", "publish", "emit"}
            /\ work'[w].batch = work[w].batch
  PROVE  Results'
<1>1. \A k \in ResultKinds, u \in Workers : \A f : ResultAt(k, u, f)' => ResultAt(k, u, f)
  BY DEF ResultAt
<1>2. Distinct'
  <2>1. \A u \in Workers : work'[u].pc \in {"infer", "requeue", "publish", "emit"} => Injective(work'[u].batch)
    BY DEF Results, Distinct
  <2>2. Injective(pending') /\ \A u \in Workers : DistinctQueue(queue'[u])
    BY DEF Results, Distinct
  <2>3. \A p \in Senders : sender'[p].pc \in {"insert", "route", "push"} => Injective(sender'[p].batch)
    BY DEF Results, Distinct
  <2>. QED
    BY <2>1, <2>2, <2>3 DEF Distinct
<1>3. \A k \in Senders : sender[k].pc = "insert" => sender'[k].pc = "insert" \/ Sending(sender'[k]) = {}
  OBVIOUS
<1>. QED
  BY <1>1, <1>2, <1>3, NothingMoves

\* A batch moves between a worker's queue and its hands.
LEMMA WorkerHandsOn ==
  ASSUME Results, \A f : Created(f) => Created(f)', NEW w \in Workers,
         UNCHANGED <<pending, sender, gone, inflight, orphans>>,
         \A u \in Workers \ {w} : work'[u] = work[u] /\ queue'[u] = queue[u],
         DistinctQueue(queue'[w]),
         work'[w].pc \in {"infer", "requeue", "publish", "emit"} => Injective(work'[w].batch),
         QueuedFrames(queue'[w]) \cap Due(work'[w]) = {},
         \/ /\ Due(work'[w]) \subseteq QueuedFrames(queue[w])
            /\ QueuedFrames(queue'[w]) \subseteq QueuedFrames(queue[w])
         \/ /\ QueuedFrames(queue'[w]) \subseteq QueuedFrames(queue[w]) \cup Due(work[w])
            /\ Due(work'[w]) \subseteq Due(work[w])
  PROVE  Results'
<1>1. "queue" \in ResultKinds /\ "work" \in ResultKinds /\ "queue" \in Own /\ "work" \in Own /\ "queue" # "work"
  BY DEF ResultKinds, Own
<1>2. /\ \A u \in Workers : \A f : ResultAt("queue", u, f) <=> f \in QueuedFrames(queue[u])
      /\ \A u \in Workers : \A f : ResultAt("work", u, f) <=> f \in Due(work[u])
      /\ \A u \in Workers : \A f : ResultAt("queue", u, f)' <=> f \in QueuedFrames(queue'[u])
      /\ \A u \in Workers : \A f : ResultAt("work", u, f)' <=> f \in Due(work'[u])
  BY DEF ResultAt, Senders
<1>3. \A k \in ResultKinds, u \in Workers : \A f : k \notin Own => (ResultAt(k, u, f)' <=> ResultAt(k, u, f))
  BY DEF ResultAt, Own
<1>4. \A f : ~(ResultAt("queue", w, f)' /\ ResultAt("work", w, f)')
  BY <1>2
<1>5. PICK a \in Own, b \in Own : a # b /\
         \A k \in ResultKinds, u \in Workers : \A f : ResultAt(k, u, f)' =>
            ResultAt(k, u, f) \/ (k = b /\ u = w /\ ResultAt(a, w, f))
  <2>1. \A k \in ResultKinds, u \in Workers : \A f : ResultAt(k, u, f)' /\ ~(k \in Own /\ u = w) => ResultAt(k, u, f)
    BY <1>2, <1>3 DEF Own
  <2>2. CASE /\ Due(work'[w]) \subseteq QueuedFrames(queue[w])
             /\ QueuedFrames(queue'[w]) \subseteq QueuedFrames(queue[w])
    <3>1. \A k \in ResultKinds, u \in Workers : \A f : ResultAt(k, u, f)' =>
            ResultAt(k, u, f) \/ (k = "work" /\ u = w /\ ResultAt("queue", w, f))
      BY <1>2, <2>1, <2>2 DEF Own
    <3>. QED
      BY <1>1, <3>1
  <2>3. CASE /\ QueuedFrames(queue'[w]) \subseteq QueuedFrames(queue[w]) \cup Due(work[w])
             /\ Due(work'[w]) \subseteq Due(work[w])
    <3>1. \A k \in ResultKinds, u \in Workers : \A f : ResultAt(k, u, f)' =>
            ResultAt(k, u, f) \/ (k = "queue" /\ u = w /\ ResultAt("work", w, f))
      BY <1>2, <2>1, <2>3 DEF Own
    <3>. QED
      BY <1>1, <3>1
  <2>. QED
    BY <2>2, <2>3
<1>6. a \in ResultKinds /\ b \in ResultKinds /\ \A f : ~(ResultAt(a, w, f)' /\ ResultAt(b, w, f)')
  BY <1>1, <1>4, <1>5 DEF Own
<1>7. OneResult'
  <2>1. OneResult
    BY DEF Results
  <2>. QED
    BY <1>5, <1>6, <2>1, ResultsHandedOn
<1>8. ResultsCreated'
  BY <1>5, <1>6 DEF Results, ResultsCreated
<1>9. Distinct'
  <2>1. \A u \in Workers : work'[u].pc \in {"infer", "requeue", "publish", "emit"} => Injective(work'[u].batch)
    BY DEF Results, Distinct
  <2>2. Injective(pending') /\ \A u \in Workers : DistinctQueue(queue'[u])
    BY DEF Results, Distinct
  <2>3. \A p \in Senders : sender'[p].pc \in {"insert", "route", "push"} => Injective(sender'[p].batch)
    BY DEF Results, Distinct
  <2>. QED
    BY <2>1, <2>2, <2>3 DEF Distinct
<1>10. Awaited'
  <2>. SUFFICES ASSUME NEW k \in ResultKinds, NEW u \in Workers, NEW f, ResultAt(k, u, f)', k # "pending",
                       k \in Senders => sender'[k].pc # "insert"
                PROVE  Recorded(f)'
    BY DEF Awaited
  <2>1. a # "pending" /\ a \notin Senders
    BY <1>5 DEF Own, Senders
  <2>2. Recorded(f)
    BY <1>5, <1>6, <2>1 DEF Results, Awaited
  <2>. QED
    BY <2>2 DEF Recorded
<1>. QED
  BY <1>7, <1>8, <1>9, <1>10 DEF Results

\* A worker gives each frame of its batch one result, and finds the entry
\* unless it was dropped.
LEMMA WorkersKeepResults ==
  ASSUME MaxConn = 0, TypeOK, Matching, Results, [Next]_vars, NEW w \in Workers, WorkerLoop(w)
  PROVE  Results'
<1>. USE DEF stageVars, histVars
<1>1. UNCHANGED <<pending, sender, gone>>
  BY Zenon DEF WorkerLoop, Dequeue, WorkerExits, InferSucceeds, MemoryPressure, InferThrows,
         GpuFault, EnqueueHead, RecoverAttempt, TakeEntry, Emit
<1>2. \A f : Created(f) => Created(f)'
  BY CreatedStays
<1>3. \A u \in Workers \ {w} : work'[u] = work[u]
  BY Zenon DEF WorkerLoop, Dequeue, WorkerExits, InferSucceeds, MemoryPressure, InferThrows, LoopTop,
         GpuFault, EnqueueHead, RecoverAttempt, TakeEntry, Emit, NextResult, TypeOK
<1>4. LoopTop(w) => work'[w].pc \in {"off", "wait"}
  BY DEF LoopTop, TypeOK, Off, Wait
<1>5. ASSUME work'[w].pc \in {"off", "wait", "recover"}, UNCHANGED <<queue, inflight, orphans>> PROVE Results'
  <2>1. Due(work'[w]) = {}
    BY <1>5 DEF Due
  <2>. QED
    BY <1>1, <1>2, <1>3, <1>5, <2>1, WorkerOwesLess
<1>6. CASE \/ WorkerExits(w) \/ InferThrows(w) \/ RecoverAttempt(w) \/ \E t \in Faults : GpuFault(w, t)
  <2>1. UNCHANGED <<queue, inflight, orphans>>
    BY <1>6, Zenon DEF WorkerExits, InferThrows, RecoverAttempt, GpuFault
  <2>2. work'[w].pc \in {"off", "wait", "recover"}
    <3>1. CASE LoopTop(w)
      BY <1>4, <3>1
    <3>2. CASE WorkerExits(w)
      BY <3>2 DEF WorkerExits, TypeOK, Off
    <3>3. CASE \E t \in Faults : GpuFault(w, t)
      BY <3>3 DEF GpuFault, TypeOK, Off
    <3>4. CASE work[w].pc = "recover" /\ work' = [work EXCEPT ![w].at = @ + 1]
      BY <3>4 DEF TypeOK, WorkRecords
    <3>. QED
      BY <1>6, <3>1, <3>2, <3>3, <3>4 DEF InferThrows, RecoverAttempt
  <2>. QED
    BY <1>5, <2>1, <2>2
<1>7. CASE InferSucceeds(w)
  <2>1. /\ work[w].pc = "infer" /\ work'[w].pc = "publish" /\ work'[w].at = 1
        /\ work'[w].batch = work[w].batch
        /\ UNCHANGED <<queue, inflight, orphans>>
    BY <1>7 DEF InferSucceeds, TypeOK, WorkRecords
  <2>2. Due(work'[w]) = Due(work[w])
    BY <2>1 DEF Due, BatchFrames
  <2>. QED
    BY <1>1, <1>2, <1>3, <2>1, <2>2, WorkerOwesLess
<1>8. CASE MemoryPressure(w)
  <2>1. /\ work[w].pc = "infer" /\ work'[w].pc = "requeue" /\ work'[w].batch = work[w].batch
        /\ UNCHANGED <<queue, inflight, orphans>>
    BY <1>8 DEF MemoryPressure, TypeOK, WorkRecords
  <2>2. Due(work'[w]) = Due(work[w])
    BY <2>1 DEF Due, BatchFrames
  <2>. QED
    BY <1>1, <1>2, <1>3, <2>1, <2>2, WorkerOwesLess
<1>9. CASE Dequeue(w)
  <2>1. /\ queue[w] # <<>> /\ UNCHANGED <<inflight, orphans>>
        /\ work'[w].pc = "infer" /\ work'[w].batch = Head(queue[w]) /\ queue'[w] = Tail(queue[w])
        /\ \A u \in Workers \ {w} : queue'[u] = queue[u]
    BY <1>9 DEF Dequeue, TypeOK, WorkRecords
  <2>2. queue[w] \in Seq(Seq(Frames)) /\ DistinctQueue(queue[w])
    BY DEF TypeOK, Results, Distinct
  <2>3. /\ DistinctQueue(Tail(queue[w])) /\ Injective(Head(queue[w]))
        /\ QueuedFrames(Tail(queue[w])) \subseteq QueuedFrames(queue[w])
        /\ BatchFrames(Head(queue[w])) \subseteq QueuedFrames(queue[w])
        /\ BatchFrames(Head(queue[w])) \cap QueuedFrames(Tail(queue[w])) = {}
    BY <2>1, <2>2, QueueHead
  <2>4. Due(work'[w]) = BatchFrames(Head(queue[w]))
    BY <2>1 DEF Due
  <2>5. /\ DistinctQueue(queue'[w]) /\ Injective(work'[w].batch)
        /\ QueuedFrames(queue'[w]) \cap Due(work'[w]) = {}
        /\ Due(work'[w]) \subseteq QueuedFrames(queue[w])
        /\ QueuedFrames(queue'[w]) \subseteq QueuedFrames(queue[w])
    BY <2>1, <2>3, <2>4
  <2>. QED
    BY <1>1, <1>2, <1>3, <2>1, <2>5, WorkerHandsOn
<1>10. CASE EnqueueHead(w)
  <2>1. PICK b : b = work[w].batch
    OBVIOUS
  <2>2. /\ work[w].pc = "requeue" /\ work'[w].pc \in {"off", "wait"} /\ UNCHANGED <<inflight, orphans>>
        /\ queue' = queue \/ queue' = [queue EXCEPT ![w] = <<b>> \o queue[w]]
    BY <1>4, <1>10, <2>1 DEF EnqueueHead
  <2>3. Due(work'[w]) = {} /\ Due(work[w]) = BatchFrames(b)
    BY <2>1, <2>2 DEF Due
  <2>4. /\ b \in Seq(Frames) /\ Injective(b)
        /\ queue[w] \in Seq(Seq(Frames)) /\ DistinctQueue(queue[w])
    BY <2>1, <2>2 DEF TypeOK, WorkRecords, Results, Distinct
  <2>5. BatchFrames(b) \cap QueuedFrames(queue[w]) = {}
    <3>1. \A f \in BatchFrames(b) : ResultAt("work", w, f)
      BY <2>3 DEF ResultAt
    <3>2. \A f \in QueuedFrames(queue[w]) : ResultAt("queue", w, f)
      BY DEF ResultAt
    <3>3. "work" \in ResultKinds /\ "queue" \in ResultKinds /\ "work" # "queue"
      BY DEF ResultKinds
    <3>. QED
      BY <3>1, <3>2, <3>3 DEF Results, OneResult
  <2>6. /\ DistinctQueue(<<b>> \o queue[w])
        /\ QueuedFrames(<<b>> \o queue[w]) \subseteq QueuedFrames(queue[w]) \cup BatchFrames(b)
    BY <2>4, <2>5, QueueFront
  <2>7. /\ DistinctQueue(queue'[w])
        /\ QueuedFrames(queue'[w]) \subseteq QueuedFrames(queue[w]) \cup Due(work[w])
        /\ \A u \in Workers \ {w} : queue'[u] = queue[u]
    BY <2>2, <2>3, <2>4, <2>6 DEF TypeOK
  <2>8. QueuedFrames(queue'[w]) \cap Due(work'[w]) = {} /\ Due(work'[w]) \subseteq Due(work[w])
    BY <2>3
  <2>9. ~(work'[w].pc \in {"infer", "requeue", "publish", "emit"})
    BY <2>2
  <2>. QED
    BY <1>1, <1>2, <1>3, <2>2, <2>7, <2>8, <2>9, WorkerHandsOn
<1>11. CASE Emit(w)
  <2>1. work[w].pc = "emit" /\ NextResult(w) /\ UNCHANGED <<queue, inflight, orphans>>
    BY <1>11 DEF Emit
  <2>2. /\ Due(work'[w]) \subseteq Due(work[w])
        /\ work'[w].pc \in {"infer", "requeue", "publish", "emit"} => work'[w].batch = work[w].batch
    BY <2>1, NextResultDue DEF Matching
  <2>. QED
    BY <1>1, <1>2, <1>3, <2>1, <2>2, WorkerOwesLess
<1>12. CASE TakeEntry(w)
  <2>1. PICK b, i, f, j : b = work[w].batch /\ i = work[w].at /\ f = b[i] /\ j = Key(f)
    OBVIOUS
  <2>2. work[w].pc = "publish" /\ UNCHANGED queue
    BY <1>12 DEF TakeEntry
  <2>3. /\ i \in Nat /\ Len(b) \in Nat /\ i \in 1..Len(b) /\ f \in Frames
        /\ (i + 1)..Len(b) \subseteq i..Len(b) /\ i \in i..Len(b)
        /\ \A m \in (i + 1)..Len(b) : m \in 1..Len(b) /\ m # i
    BY <2>1, <2>2, DueFacts DEF Matching
  <2>4. f \in Due(work[w])
    BY <2>1, <2>2, <2>3 DEF Due
  <2>5. ResultAt("work", w, f) /\ "work" \in ResultKinds /\ "work" \notin Senders /\ "work" \in Own
    BY <2>4 DEF ResultAt, ResultKinds, Senders, Own
  <2>6. Recorded(f)
    BY <2>5 DEF Results, Awaited
  <2>7. CASE j \notin DOMAIN inflight
    <3>1. /\ NextResult(w) /\ UNCHANGED inflight /\ orphans' = orphans \cup {f}
      BY <1>12, <2>1, <2>7 DEF TakeEntry
    <3>2. f \in gone
      BY <2>1, <2>6, <2>7 DEF Recorded
    <3>3. orphans' \subseteq orphans \cup gone'
      BY <1>1, <3>1, <3>2
    <3>4. /\ Due(work'[w]) \subseteq Due(work[w])
          /\ work'[w].pc \in {"infer", "requeue", "publish", "emit"} => work'[w].batch = work[w].batch
      BY <2>2, <3>1, NextResultDue DEF Matching
    <3>. QED
      BY <1>1, <1>2, <1>3, <2>2, <3>1, <3>3, <3>4, WorkerOwesLess
  <2>8. CASE j \in DOMAIN inflight
    <3>1. /\ inflight' = [m \in DOMAIN inflight \ {j} |-> inflight[m]] /\ UNCHANGED orphans
          /\ work'[w].pc = "emit" /\ work'[w].batch = b /\ work'[w].at = i
      BY <1>12, <2>1, <2>8 DEF TakeEntry, TypeOK, WorkRecords
    <3>2. Due(work'[w]) = {b[m] : m \in (i + 1)..Len(b)} /\ Injective(b)
      BY <2>1, <2>2, <3>1 DEF Due, Results, Distinct
    <3>3. Due(work'[w]) \subseteq Due(work[w])
      BY <2>1, <2>2, <2>3, <3>2 DEF Due
    <3>4. f \notin Due(work'[w])
      BY <2>1, <2>3, <3>2 DEF Injective
    <3>5. \A k \in ResultKinds, u \in Workers : \A g : ResultAt(k, u, g)' => ResultAt(k, u, g)
      BY <1>1, <1>3, <2>2, <3>3 DEF ResultAt
    <3>6. OneResult' /\ ResultsCreated'
      BY <1>2, <3>5, ResultsStay DEF Results
    <3>7. Distinct'
      <4>1. \A u \in Workers : work'[u].pc \in {"infer", "requeue", "publish", "emit"} => Injective(work'[u].batch)
        BY <1>3, <3>1, <3>2 DEF Results, Distinct
      <4>2. Injective(pending') /\ \A u \in Workers : DistinctQueue(queue'[u])
        BY <1>1, <2>2 DEF Results, Distinct
      <4>3. \A p \in Senders : sender'[p].pc \in {"insert", "route", "push"} => Injective(sender'[p].batch)
        BY <1>1 DEF Results, Distinct
      <4>. QED
        BY <4>1, <4>2, <4>3 DEF Distinct
    <3>8. Awaited'
      <4>. SUFFICES ASSUME NEW k \in ResultKinds, NEW u \in Workers, NEW g, ResultAt(k, u, g)', k # "pending",
                           k \in Senders => sender'[k].pc # "insert"
                    PROVE  Recorded(g)'
        BY DEF Awaited
      <4>1. ResultAt(k, u, g) /\ (k \in Senders => sender[k].pc # "insert")
        BY <1>1, <3>5
      <4>2. Recorded(g) /\ g \in Frames
        BY <4>1 DEF Results, Awaited, ResultsCreated, Created
      <4>3. g # f
        <5>. SUFFICES ASSUME g = f PROVE FALSE
          OBVIOUS
        <5>1. k = "work" /\ u = w
          BY <2>5, <4>1 DEF Results, OneResult
        <5>2. g \in Due(work'[w])
          BY <5>1 DEF ResultAt, Senders
        <5>. QED
          BY <3>4, <5>2
      <4>4. Key(g) # j
        BY <2>1, <2>3, <4>2, <4>3, KeyIsFrame
      <4>. QED
        BY <1>1, <3>1, <4>2, <4>4 DEF Recorded, Key
    <3>9. orphans' \subseteq gone'
      BY <1>1, <3>1 DEF Results
    <3>. QED
      BY <3>6, <3>7, <3>8, <3>9 DEF Results
  <2>. QED
    BY <2>7, <2>8
<1>. QED
  BY <1>6, <1>7, <1>8, <1>9, <1>10, <1>11, <1>12 DEF WorkerLoop

\* start(), stop(), time and the sources hand no frame on, and what they drop
\* from inflight_ is remembered.
LEMMA ControlKeepsResults ==
  ASSUME TypeOK, Results, [Next]_vars,
         \/ DeadlinePasses \/ EntriesAge \/ Start \/ Drain \/ AbandonStart \/ Stop
         \/ \E w \in Workers : StartThrows(w)
         \/ \E s \in Streams : Reconnect(s)
         \/ UNCHANGED vars
  PROVE  Results'
<1>. USE DEF stageVars, groupVars, histVars
<1>1. UNCHANGED <<queue, orphans>>
  BY DEF DeadlinePasses, EntriesAge, Start, Drain, AbandonStart, Stop, StopFlush, vars,
         ClearPending, SignalWorker, JoinWorker, ClearInflight, StartThrows, Reconnect
<1>2. \A w \in Workers : work'[w] = work[w] \/ work'[w].pc = "wait"
  <2>1. \A w \in Workers : work'[w] = work[w] \/ work'[w] = Wait
    BY DEF DeadlinePasses, EntriesAge, Start, Drain, AbandonStart, Stop, StopFlush, vars,
           ClearPending, SignalWorker, JoinWorker, ClearInflight, StartThrows, Reconnect,
           StartWorkers
  <2>. QED
    BY <2>1 DEF Wait, Off
<1>3. \A p \in Senders : sender'[p] = sender[p] \/ sender'[p].pc = "wait"
  <2>1. CASE Start
    BY <2>1 DEF Start, TypeOK, SenderRecords
  <2>2. CASE UNCHANGED sender
    BY <2>2
  <2>. QED
    BY <2>1, <2>2 DEF DeadlinePasses, EntriesAge, Drain, AbandonStart, Stop, StopFlush, vars,
       ClearPending, SignalWorker, JoinWorker, ClearInflight, StartThrows, Reconnect
<1>4. /\ gone \subseteq gone'
      /\ \A j \in DOMAIN inflight :
            \/ inflight[j].frame \in gone'
            \/ j \in DOMAIN inflight' /\ inflight'[j].frame = inflight[j].frame
  <2>1. CASE EntriesAge
    BY <2>1 DEF EntriesAge, TypeOK, Entries
  <2>2. CASE ClearInflight
    BY <2>2 DEF ClearInflight
  <2>3. CASE UNCHANGED <<inflight, gone>>
    BY <2>3
  <2>. QED
    BY <2>1, <2>2, <2>3 DEF DeadlinePasses, Start, Drain, AbandonStart, Stop, StopFlush, vars,
       ClearPending, SignalWorker, JoinWorker, StartThrows, Reconnect
<1>5. pending' = pending \/ pending' = <<>>
  BY DEF DeadlinePasses, EntriesAge, Start, Drain, AbandonStart, Stop, StopFlush, vars,
         ClearPending, SignalWorker, JoinWorker, ClearInflight, StartThrows, Reconnect
<1>6. Injective(pending') /\ BatchFrames(pending') \subseteq BatchFrames(pending)
  BY <1>5 DEF Results, Distinct, Injective, BatchFrames
<1>7. \A w \in Workers : Due(work'[w]) \subseteq Due(work[w])
  BY <1>2 DEF Due
<1>8. \A p \in Senders : Sending(sender'[p]) \subseteq Sending(sender[p])
  BY <1>3 DEF Sending
<1>9. \A k \in ResultKinds, w \in Workers : \A f : ResultAt(k, w, f)' => ResultAt(k, w, f)
  BY <1>1, <1>6, <1>7, <1>8 DEF ResultAt
<1>10. Distinct'
  <2>1. \A w \in Workers : work'[w].pc \in {"infer", "requeue", "publish", "emit"} => Injective(work'[w].batch)
    BY <1>2 DEF Results, Distinct
  <2>2. \A w \in Workers : DistinctQueue(queue'[w])
    BY <1>1 DEF Results, Distinct
  <2>3. \A p \in Senders : sender'[p].pc \in {"insert", "route", "push"} => Injective(sender'[p].batch)
    BY <1>3 DEF Results, Distinct
  <2>. QED
    BY <1>6, <2>1, <2>2, <2>3 DEF Distinct
<1>11. \A k \in Senders : sender[k].pc = "insert" => sender'[k].pc = "insert" \/ Sending(sender'[k]) = {}
  BY <1>3 DEF Sending
<1>12. (\A f : Created(f) => Created(f)') /\ orphans' \subseteq orphans \cup gone'
  BY <1>1, CreatedStays
<1>. QED
  BY <1>4, <1>9, <1>10, <1>11, <1>12, NothingMoves

\* No worker is faster than the recording of its frames: a result that finds no
\* entry belongs to a frame whose entry was swept, replaced or cleared, for any
\* number of workers and streams and any schedule of the graph thread, the flush
\* thread and the workers.  Within one connection of each stream: after a
\* reconnect the numbers repeat, and a result may take the entry of another
\* frame (InferEngineWorkerStage.cpp, flushToWorkers and onInferResult).
THEOREM NoResultBeforeRecord ==
  ASSUME MaxConn = 0
  PROVE  Spec => []NoPrematureResult
<1>1. Init => Results
  <2>. SUFFICES ASSUME Init PROVE Results
    OBVIOUS
  <2>1. /\ pending = <<>> /\ DOMAIN inflight = {} /\ orphans = {}
        /\ \A p \in Senders : sender[p].pc = "idle"
        /\ \A w \in Workers : queue[w] = <<>> /\ work[w].pc = "off"
    BY DEF Init, Idle, Off
  <2>2. /\ BatchFrames(pending) = {} /\ Injective(pending)
        /\ \A w \in Workers : QueuedFrames(queue[w]) = {} /\ DistinctQueue(queue[w])
    BY <2>1 DEF BatchFrames, Injective, QueuedFrames, DistinctQueue
  <2>3. \A k \in ResultKinds, w \in Workers : \A f : ~ResultAt(k, w, f)
    BY <2>1, <2>2 DEF ResultAt, Sending, Due
  <2>4. Distinct
    BY <2>1, <2>2 DEF Distinct
  <2>. QED
    BY <2>1, <2>3, <2>4 DEF Results, ResultsCreated, OneResult, Awaited
<1>2. TypeOK /\ Matching /\ Results /\ [Next]_vars => Results'
  <2>. SUFFICES ASSUME TypeOK, Matching, Results, [Next]_vars PROVE Results'
    OBVIOUS
  <2>1. CASE Process \/ SendBatch("graph") \/ FlushLoop
    BY <2>1, SendersKeepResults
  <2>2. CASE \E w \in Workers : WorkerLoop(w)
    BY <2>2, WorkersKeepResults
  <2>3. CASE \/ DeadlinePasses \/ EntriesAge \/ Start \/ Drain \/ AbandonStart \/ Stop
             \/ \E w \in Workers : StartThrows(w)
             \/ \E s \in Streams : Reconnect(s)
             \/ UNCHANGED vars
    BY <2>3, ControlKeepsResults
  <2>. QED
    BY <2>1, <2>2, <2>3 DEF Next
<1>3. Results => NoPrematureResult
  BY DEF Results, NoPrematureResult
<1>. QED
  BY <1>1, <1>2, <1>3, InitMatching, NextMatching, TypeCorrect, PTL DEF Spec
===============================================================================
