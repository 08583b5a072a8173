----------------------------- MODULE ModelsProofs -----------------------------
(***************************************************************************)
(* What is proved of the ModelManager's pipelines, for every number of     *)
(* models, streams, pipelines and threads that load, swap and unload, and  *)
(* of the inference backends, for every pool, batch and set of compiled    *)
(* batch sizes.                                                            *)
(***************************************************************************)
EXTENDS ModelPipelines, Backend, FiniteSetTheorems, SequenceTheorems, WellFoundedInduction, TLAPS

PipelinesSafety == PipelinesInit /\ [][PipelinesNext]_pipelineVars
BackendSafety   == BackendInit /\ [][BackendNext]_backendVars

\* What startPipeline makes for p.
PartsOf(p) ==
    IF p \in cascaded THEN PipeParts \cup {"publishers", "router"} ELSE PipeParts \ {"secondary"}

At(c, p) == tearing[c].pipe = p

Stopped(p, x) == runs[p][x] \in {"off", "exited"}

Stages   == PipeParts \cup {"publishers", "router", "rest"}
Runs     == {"off", "idle", "scanning", "busy", "exited"}
Teardown == [Managers -> [pipe : 0..started, part : Stages]]

ManagerShape ==
    /\ started \in 0..MaxPipelines
    /\ entry \in [Models -> 0..started]
    /\ tearing \in Teardown
    /\ closing \in BOOLEAN
    /\ runs \in [Pipes -> [PipeParts -> Runs]]
    /\ flagged \subseteq (1..started) \X PipeParts
    /\ cascaded \subseteq 1..started
    /\ DOMAIN lives = Pipes

\* A thread that has not ended has its object, and the scheduler's its group;
\* but for a manager that is being destroyed a pipeline is whole or gone.
Whole ==
    \A p \in Pipes :
        /\ lives[p] # {} => p <= started
        /\ closing \/ lives[p] = {} \/ lives[p] = PartsOf(p)
        /\ \A x \in PipeParts : Stopped(p, x) \/ x \in lives[p]
        /\ Stopped(p, "scheduler") \/ "group" \in lives[p]
        /\ p \notin cascaded => Stopped(p, "secondary")

\* A pipeline that exists is listed once or in the hands of one manager, and
\* not both; only the latter's threads are told to stop.
OneOwner ==
    /\ \A k, m \in Models : entry[k] = entry[m] /\ entry[k] # 0 => k = m
    /\ \A m \in Models, c \in Managers : entry[m] # 0 => ~At(c, entry[m])
    /\ \A c, d \in Managers : At(c, tearing[d].pipe) /\ tearing[c].pipe # 0 => c = d
    /\ \A p \in 1..started : lives[p] # {} =>
          (\E m \in Models : entry[m] = p) \/ \E c \in Managers : At(c, p)
    /\ \A f \in flagged : \E c \in Managers : At(c, f[1])

\* Threads a manager has joined have ended, in the order of stopPipeline_unlocked
\* or in that of the members.
JoinedBy(c, p) ==
    IF closing
    THEN /\ tearing[c].part \in {"router", "scheduler", "group", "rest"} => Stopped(p, "secondary")
         /\ tearing[c].part \in {"group", "rest"} => Stopped(p, "scheduler")
         /\ tearing[c].part = "rest" => Stopped(p, "group")
    ELSE /\ tearing[c].part \in PipeParts \cup {"rest"}
         /\ tearing[c].part # "scheduler" => Stopped(p, "scheduler")
         /\ tearing[c].part \in {"secondary", "rest"} => Stopped(p, "group")
         /\ tearing[c].part = "rest" => Stopped(p, "secondary")

Joined ==
    /\ \A c \in Managers : At(c, 0) => tearing[c].part = "scheduler"
    /\ \A c \in Managers, p \in Pipes : At(c, p) => JoinedBy(c, p)

PipelinesInv == ManagerShape /\ Whole /\ OneOwner /\ Joined

\* Loading and the first half of a swap: a new pipeline beside the others.
LEMMA StartKeeps ==
  ASSUME PipelinesInv, NEW m \in Models, NEW k \in Models, NEW inCascade \in BOOLEAN,
         startPipeline(m, k, inCascade),
         NEW c \in Managers, free(c), ~closing, UNCHANGED <<closing, flagged>>,
         \/ entry[m] = 0 /\ UNCHANGED tearing
         \/ entry[m] # 0 /\ tearing' = [tearing EXCEPT ![c].pipe = entry[m]]
  PROVE  PipelinesInv'
<1>0. PICK n : n = started + 1
  OBVIOUS
<1>1. /\ n \in Pipes /\ n \in 1..n /\ n \notin 0..started /\ started' = n
      /\ entry' = [entry EXCEPT ![m] = n]
      /\ 0..started \subseteq 0..started' /\ 1..started' = 1..started \cup {n}
      /\ started' \in 0..MaxPipelines /\ 1..started \subseteq Pipes
  BY <1>0, PipelineAssumption DEF startPipeline, PipelinesInv, ManagerShape, Pipes
<1>. DEFINE parts == IF inCascade THEN PipeParts ELSE PipeParts \ {"secondary"}
<1>2. /\ lives' = [lives EXCEPT ![n] = IF inCascade THEN parts \cup {"publishers", "router"} ELSE parts]
      /\ runs' = [runs EXCEPT ![n] = [x \in PipeParts |-> IF x \in parts THEN "idle" ELSE "off"]]
      /\ cascaded' = IF inCascade THEN cascaded \cup {n} ELSE cascaded
  <2>1. started' = n
    BY <1>1
  <2>. QED
    BY <2>1 DEF startPipeline
<1>3. n \notin cascaded /\ cascaded' \subseteq 1..started'
  BY <1>1, <1>2 DEF PipelinesInv, ManagerShape
<1>4. /\ \A p \in Pipes : p # n => lives'[p] = lives[p] /\ runs'[p] = runs[p] /\ (p \in cascaded' <=> p \in cascaded)
      /\ lives'[n] = PartsOf(n)' /\ lives'[n] # {} /\ (n \in cascaded' <=> inCascade)
      /\ entry'[m] = n /\ \A j \in Models : j # m => entry'[j] = entry[j]
      /\ runs'[n] = [x \in PipeParts |-> IF x \in parts THEN "idle" ELSE "off"]
      /\ parts \subseteq lives'[n]
  <2>1. "group" \in PipeParts \ {"secondary"}
    BY DEF PipeParts
  <2>2. n \in cascaded' <=> inCascade
    BY <1>2, <1>3
  <2>3. DOMAIN lives = Pipes /\ DOMAIN runs = Pipes /\ DOMAIN entry = Models
    BY DEF PipelinesInv, ManagerShape
  <2>4. lives'[n] = (IF inCascade THEN parts \cup {"publishers", "router"} ELSE parts)
    BY <1>1, <1>2, <2>3
  <2>5. lives'[n] = PartsOf(n)' /\ lives'[n] # {} /\ parts \subseteq lives'[n]
    BY <2>1, <2>2, <2>4 DEF PartsOf
  <2>6. \A p \in Pipes : p # n => lives'[p] = lives[p] /\ runs'[p] = runs[p] /\ (p \in cascaded' <=> p \in cascaded)
    BY <1>1, <1>2, <2>3
  <2>. QED
    BY <1>1, <1>2, <2>2, <2>3, <2>5, <2>6
<1>4a. /\ \A x \in PipeParts : runs'[n][x] = "off" \/ x \in lives'[n]
       /\ "group" \in lives'[n] /\ (n \notin cascaded' => runs'[n]["secondary"] = "off")
  BY <1>4 DEF PipeParts
<1>. HIDE DEF parts
<1>5. /\ tearing' \in Teardown
      /\ \A d \in Managers : d # c => tearing'[d] = tearing[d]
      /\ tearing'[c].pipe = entry[m] /\ tearing'[c].part = tearing[c].part
  <2>1. tearing \in Teardown /\ entry[m] \in 0..started /\ tearing[c].pipe = 0
    BY DEF PipelinesInv, ManagerShape, free
  <2>2. CASE entry[m] = 0 /\ UNCHANGED tearing
    BY <2>1, <2>2
  <2>3. CASE tearing' = [tearing EXCEPT ![c].pipe = entry[m]]
    BY <2>1, <2>3 DEF Teardown
  <2>. QED
    BY <2>2, <2>3
<1>6. ManagerShape'
  <2>1. runs' \in [Pipes -> [PipeParts -> Runs]]
    BY <1>1, <1>2 DEF PipelinesInv, ManagerShape, Runs
  <2>2. entry' \in [Models -> 0..started']
    BY <1>1, <1>4 DEF PipelinesInv, ManagerShape
  <2>3. tearing' \in Teardown'
    BY <1>1, <1>5 DEF Teardown
  <2>4. flagged' \subseteq (1..started') \X PipeParts /\ DOMAIN lives' = Pipes
    BY <1>1, <1>2 DEF PipelinesInv, ManagerShape
  <2>. QED
    BY <1>1, <1>3, <2>1, <2>2, <2>3, <2>4 DEF ManagerShape, PipelinesInv
<1>7. Whole'
  <2>1. ASSUME NEW p \in Pipes, p # n
        PROVE  /\ lives'[p] # {} => p <= started'
               /\ lives'[p] = {} \/ lives'[p] = PartsOf(p)'
               /\ \A x \in PipeParts : Stopped(p, x)' \/ x \in lives'[p]
               /\ Stopped(p, "scheduler")' \/ "group" \in lives'[p]
               /\ p \notin cascaded' => Stopped(p, "secondary")'
    <3>1. lives'[p] = lives[p] /\ PartsOf(p)' = PartsOf(p) /\ \A x : Stopped(p, x)' <=> Stopped(p, x)
      BY <1>4, <2>1 DEF PartsOf, Stopped
    <3>2. p <= started => p <= started'
      BY <1>0, <1>1 DEF PipelinesInv, ManagerShape, Pipes
    <3>. QED
      BY <1>4, <2>1, <3>1, <3>2 DEF PipelinesInv, Whole
  <2>2. n <= started' /\ lives'[n] = PartsOf(n)'
    BY <1>1, <1>4
  <2>. QED
    BY <1>4a, <2>1, <2>2 DEF Whole, Stopped
<1>8. \A d \in Managers : tearing'[d].pipe = tearing[d].pipe \/ (d = c /\ tearing'[d].pipe = entry[m])
  BY <1>5
<1>9. \A j \in Models : entry[j] # n /\ \A d \in Managers : tearing[d].pipe # n /\ tearing'[d].pipe # n
  BY <1>1, <1>5 DEF PipelinesInv, ManagerShape, Teardown
<1>10. n # 0 /\ 0 \notin Pipes
  BY <1>1, PipelineAssumption DEF Pipes
<1>12. \A j \in Models : j # m => entry[j] # entry[m] \/ entry[j] = 0
  BY DEF PipelinesInv, OneOwner
<1>13. OneOwner'
  <2>1. \A i, j \in Models : entry'[i] = entry'[j] /\ entry'[i] # 0 => i = j
    BY <1>4, <1>9 DEF PipelinesInv, OneOwner
  <2>2. \A j \in Models, d \in Managers : entry'[j] # 0 => ~(tearing'[d].pipe = entry'[j])
    BY <1>4, <1>8, <1>9, <1>12 DEF PipelinesInv, OneOwner, At
  <2>4. ASSUME NEW d \in Managers, NEW e \in Managers, tearing'[d].pipe = tearing'[e].pipe, tearing'[d].pipe # 0
        PROVE  d = e
    BY <1>8, <2>4 DEF PipelinesInv, OneOwner, At, free
  <2>5. ASSUME NEW p \in 1..started', lives'[p] # {}
        PROVE  (\E j \in Models : entry'[j] = p) \/ \E d \in Managers : tearing'[d].pipe = p
    <3>1. CASE p = n
      BY <1>4, <3>1
    <3>2. CASE p # n
      <4>1. p \in 1..started /\ p \in Pipes /\ lives[p] # {}
        BY <1>1, <1>4, <2>5, <3>2
      <4>2. CASE \E j \in Models : entry[j] = p
        BY <1>4, <1>5, <4>1, <4>2
      <4>3. CASE \E d \in Managers : tearing[d].pipe = p
        <5>1. PICK d \in Managers : tearing[d].pipe = p
          BY <4>3
        <5>2. p # 0 /\ d # c
          BY <4>1, <5>1 DEF free
        <5>. QED
          BY <1>5, <5>1, <5>2
      <4>. QED
        BY <4>1, <4>2, <4>3 DEF PipelinesInv, OneOwner, At
    <3>. QED
      BY <3>1, <3>2
  <2>6. ASSUME NEW f \in flagged' PROVE \E d \in Managers : tearing'[d].pipe = f[1]
    <3>1. f \in flagged /\ f[1] # 0
      BY DEF PipelinesInv, ManagerShape
    <3>2. PICK d \in Managers : tearing[d].pipe = f[1]
      BY <3>1 DEF PipelinesInv, OneOwner, At
    <3>3. d # c
      BY <3>1, <3>2 DEF free
    <3>. QED
      BY <1>5, <3>2, <3>3
  <2>. QED
    BY <2>1, <2>2, <2>4, <2>5, <2>6 DEF OneOwner, At
<1>14. Joined'
  <2>1. ASSUME NEW d \in Managers, NEW p \in Pipes, At(d, p)', d # c
        PROVE  JoinedBy(d, p)'
    <3>1. At(d, p) /\ tearing'[d] = tearing[d] /\ p # n
      BY <1>5, <1>9, <2>1 DEF At
    <3>2. \A x : Stopped(p, x)' <=> Stopped(p, x)
      BY <1>4, <3>1 DEF Stopped
    <3>3. JoinedBy(d, p)
      BY <3>1 DEF PipelinesInv, Joined
    <3>. QED
      BY <3>1, <3>2, <3>3 DEF JoinedBy
  <2>2. tearing'[c].part = "scheduler"
    BY <1>5 DEF PipelinesInv, Joined, free, At
  <2>3. \A p \in Pipes : JoinedBy(c, p)'
    BY <2>2 DEF JoinedBy, PipeParts
  <2>4. ASSUME NEW d \in Managers, At(d, 0)' PROVE tearing'[d].part = "scheduler"
    BY <1>5, <2>4 DEF At, PipelinesInv, Joined, free
  <2>. QED
    BY <2>1, <2>3, <2>4 DEF Joined
<1>. QED
  BY <1>6, <1>7, <1>13, <1>14 DEF PipelinesInv

\* A thread that goes on, or ends, takes nothing away from anyone.
LEMMA ThreadsKeep ==
  ASSUME PipelinesInv, UNCHANGED managerVars, UNCHANGED flagged,
         \/ UNCHANGED runs
         \/ \E p \in Pipes, x \in PipeParts, v \in {"idle", "scanning", "busy", "exited"} :
               ~Stopped(p, x) /\ runs' = [runs EXCEPT ![p][x] = v]
  PROVE  PipelinesInv'
<1>1. /\ runs' \in [Pipes -> [PipeParts -> Runs]]
      /\ \A p \in Pipes, x \in PipeParts : Stopped(p, x) => Stopped(p, x)'
  <2>1. runs \in [Pipes -> [PipeParts -> Runs]]
    BY DEF PipelinesInv, ManagerShape
  <2>2. CASE UNCHANGED runs
    BY <2>1, <2>2 DEF Stopped
  <2>3. ASSUME NEW p \in Pipes, NEW x \in PipeParts, NEW v \in {"idle", "scanning", "busy", "exited"},
               ~Stopped(p, x), runs' = [runs EXCEPT ![p][x] = v]
        PROVE  /\ runs' \in [Pipes -> [PipeParts -> Runs]]
               /\ \A q \in Pipes, y \in PipeParts : Stopped(q, y) => Stopped(q, y)'
    <3>1. runs' \in [Pipes -> [PipeParts -> Runs]]
      BY <2>1, <2>3 DEF Runs
    <3>2. \A q \in Pipes, y \in PipeParts : runs'[q][y] = runs[q][y] \/ (q = p /\ y = x)
      BY <2>1, <2>3
    <3>. QED
      BY <2>3, <3>1, <3>2 DEF Stopped
  <2>. QED
    BY <2>2, <2>3
<1>2. {"scheduler", "group", "secondary"} \subseteq PipeParts
  BY DEF PipeParts
<1>3. ManagerShape'
  BY <1>1 DEF PipelinesInv, ManagerShape, Teardown, managerVars
<1>4. Whole'
  BY <1>1, <1>2 DEF PipelinesInv, Whole, PartsOf, managerVars
<1>5. OneOwner'
  BY DEF PipelinesInv, OneOwner, At, managerVars
<1>6. Joined'
  BY <1>1, <1>2 DEF PipelinesInv, Joined, JoinedBy, At, managerVars
<1>. QED
  BY <1>3, <1>4, <1>5, <1>6 DEF PipelinesInv

\* A pipeline goes from the list into a manager's hands: to be stopped in order,
\* or, by the destructor, with no other thread at work.
LEMMA HandOverKeeps ==
  ASSUME PipelinesInv, NEW c \in Managers, NEW m \in Models, free(c), entry[m] # 0,
         NEW first \in Stages,
         entry' = [entry EXCEPT ![m] = 0],
         tearing' = [tearing EXCEPT ![c] = [pipe |-> entry[m], part |-> first]],
         UNCHANGED <<started, modelOf, cascaded, lives, runs, flagged>>,
         \/ first = "scheduler" /\ ~closing /\ closing' = closing
         \/ first = "publishers" /\ closing' = TRUE /\ \A d \in Managers : free(d)
  PROVE  PipelinesInv'
<1>2. tearing \in Teardown /\ entry \in [Models -> 0..started] /\ started \in 0..MaxPipelines
  BY DEF PipelinesInv, ManagerShape
<1>3. /\ tearing' \in Teardown
      /\ \A d \in Managers : d # c => tearing'[d] = tearing[d]
      /\ tearing'[c].pipe = entry[m] /\ tearing'[c].part = first /\ tearing[c].pipe = 0
  BY <1>2 DEF free, Teardown
<1>4. entry'[m] = 0 /\ entry' \in [Models -> 0..started] /\ \A k \in Models : k # m => entry'[k] = entry[k]
  BY <1>2, PipelineAssumption
<1>6. ManagerShape'
  <2>1. closing' \in BOOLEAN
    <3>1. CASE closing' = closing
      BY <3>1 DEF PipelinesInv, ManagerShape
    <3>2. CASE closing' = TRUE
      BY <3>2
    <3>. QED
      BY <3>1, <3>2
  <2>. QED
    BY <1>3, <1>4, <2>1 DEF PipelinesInv, ManagerShape, Teardown
<1>7. Whole'
  <2>1. closing => closing'
    OBVIOUS
  <2>. QED
    BY <2>1 DEF PipelinesInv, Whole, PartsOf, Stopped
<1>8. OneOwner'
  <2>1. \A j, k \in Models : entry'[j] = entry'[k] /\ entry'[j] # 0 => j = k
    BY <1>4 DEF PipelinesInv, OneOwner
  <2>2. ASSUME NEW k \in Models, NEW d \in Managers, entry'[k] # 0 PROVE tearing'[d].pipe # entry'[k]
    <3>1. k # m /\ entry'[k] = entry[k] /\ entry[k] # entry[m]
      BY <1>4, <2>2 DEF PipelinesInv, OneOwner
    <3>. QED
      BY <1>3, <2>2, <3>1 DEF PipelinesInv, OneOwner, At
  <2>4. ASSUME NEW d \in Managers, NEW e \in Managers, tearing'[d].pipe = tearing'[e].pipe, tearing'[d].pipe # 0
        PROVE  d = e
    BY <1>3, <2>4 DEF PipelinesInv, OneOwner, At
  <2>5. ASSUME NEW p \in 1..started, lives[p] # {}
        PROVE  (\E k \in Models : entry'[k] = p) \/ \E d \in Managers : tearing'[d].pipe = p
    <3>1. p # 0
      BY <1>2
    <3>2. CASE \E k \in Models : entry[k] = p
      BY <1>3, <1>4, <3>1, <3>2
    <3>3. CASE \E d \in Managers : tearing[d].pipe = p
      BY <1>3, <3>1, <3>3
    <3>. QED
      BY <2>5, <3>2, <3>3 DEF PipelinesInv, OneOwner, At
  <2>6. ASSUME NEW f \in flagged PROVE \E d \in Managers : tearing'[d].pipe = f[1]
    <3>1. f[1] # 0
      BY DEF PipelinesInv, ManagerShape
    <3>2. PICK d \in Managers : tearing[d].pipe = f[1]
      BY DEF PipelinesInv, OneOwner, At
    <3>. QED
      BY <1>3, <3>1, <3>2
  <2>. QED
    BY <2>1, <2>2, <2>4, <2>5, <2>6 DEF OneOwner, At
<1>9. Joined'
  <2>1. \A p, x : Stopped(p, x)' <=> Stopped(p, x)
    BY DEF Stopped
  <2>2. \A p \in Pipes : JoinedBy(c, p)'
    BY <1>3 DEF JoinedBy, PipeParts
  <2>3. ASSUME NEW d \in Managers, d # c, NEW p \in Pipes, tearing'[d].pipe = p PROVE JoinedBy(d, p)'
    <3>1. tearing'[d] = tearing[d] /\ tearing[d].pipe # 0
      BY <1>3, <2>3, PipelineAssumption DEF Pipes
    <3>2. ~closing /\ ~closing' /\ JoinedBy(d, p)
      BY <2>3, <3>1 DEF PipelinesInv, Joined, At, free
    <3>. QED
      BY <2>1, <3>1, <3>2 DEF JoinedBy
  <2>4. ASSUME NEW d \in Managers, tearing'[d].pipe = 0 PROVE tearing'[d].part = "scheduler"
    BY <1>3, <2>4 DEF PipelinesInv, Joined, At
  <2>. QED
    BY <2>2, <2>3, <2>4 DEF Joined, At
<1>. QED
  BY <1>6, <1>7, <1>8, <1>9 DEF PipelinesInv

\* A pipeline in a manager's hands is one that was started.
LEMMA TornExists ==
  ASSUME PipelinesInv, NEW c \in Managers, ~free(c)
  PROVE  tearing[c].pipe \in 1..started /\ tearing[c].pipe \in Pipes
  BY PipelineAssumption DEF PipelinesInv, ManagerShape, Teardown, free, Pipes

\* A part of a pipeline under teardown is told to stop.
LEMMA StopPartKeeps ==
  ASSUME PipelinesInv, NEW c \in Managers, StopPart(c)
  PROVE  PipelinesInv'
<1>1. PICK p, x : /\ p = tearing[c].pipe /\ x \in PipeParts /\ ~free(c)
                  /\ flagged' = flagged \cup {<<p, x>>}
                  /\ UNCHANGED managerVars /\ UNCHANGED runs
  BY DEF StopPart
<1>2. p \in 1..started /\ p \in Pipes
  BY <1>1, TornExists
<1>3. ManagerShape'
  BY <1>1, <1>2 DEF PipelinesInv, ManagerShape, Teardown, managerVars
<1>4. Whole' /\ Joined'
  BY <1>1 DEF PipelinesInv, Whole, Joined, JoinedBy, At, Stopped, PartsOf, managerVars
<1>5. \A f \in flagged' : \E d \in Managers : tearing'[d].pipe = f[1]
  BY <1>1 DEF PipelinesInv, OneOwner, At, managerVars
<1>6. OneOwner'
  BY <1>1, <1>5 DEF PipelinesInv, OneOwner, At, managerVars
<1>. QED
  BY <1>3, <1>4, <1>6 DEF PipelinesInv

\* The teardown goes on: what it leaves behind has ended, what it frees is used
\* by no thread that still runs.
LEMMA NextStageKeeps ==
  ASSUME PipelinesInv, NEW c \in Managers, ~free(c), NEW p, p = tearing[c].pipe,
         NEW x, x = tearing[c].part, NEW y \in Stages,
         tearing' = [tearing EXCEPT ![c].part = y],
         lives' = lives \/ (closing /\ lives' = [lives EXCEPT ![p] = @ \ {x}]),
         UNCHANGED <<entry, started, modelOf, cascaded, closing, runs, flagged>>,
         x \in PipeParts => Stopped(p, x),
         JoinedBy(c, p)'
  PROVE  PipelinesInv'
<1>2. p \in 1..started /\ p \in Pipes /\ p # 0
  BY TornExists
<1>4. tearing \in Teardown /\ DOMAIN lives = Pipes
  BY DEF PipelinesInv, ManagerShape
<1>6. /\ tearing' \in Teardown
      /\ \A d \in Managers : d # c => tearing'[d] = tearing[d]
      /\ tearing'[c].pipe = p /\ tearing'[c].part = y
      /\ \A d \in Managers : tearing'[d].pipe = tearing[d].pipe
  BY <1>4 DEF Teardown
<1>7. ManagerShape'
  BY <1>6 DEF PipelinesInv, ManagerShape, Teardown
<1>8. \A q \in Pipes : lives'[q] = lives[q] \/ (closing /\ q = p /\ lives'[q] = lives[q] \ {x})
  BY <1>4
<1>9. \A q, z : Stopped(q, z)' <=> Stopped(q, z)
  BY DEF Stopped
<1>10. closing /\ x = "group" => Stopped(p, "scheduler")
  BY <1>2 DEF PipelinesInv, Joined, JoinedBy, At
<1>11. Whole'
  <2>1. ASSUME NEW q \in Pipes
        PROVE  /\ lives'[q] # {} => q <= started
               /\ closing \/ lives'[q] = {} \/ lives'[q] = PartsOf(q)
               /\ \A z \in PipeParts : Stopped(q, z) \/ z \in lives'[q]
               /\ Stopped(q, "scheduler") \/ "group" \in lives'[q]
               /\ q \notin cascaded => Stopped(q, "secondary")
    <3>1. CASE lives'[q] = lives[q]
      BY <3>1 DEF PipelinesInv, Whole
    <3>2. CASE closing /\ q = p /\ lives'[q] = lives[q] \ {x}
      BY <1>10, <3>2 DEF PipelinesInv, Whole
    <3>. QED
      BY <1>8, <3>1, <3>2
  <2>. QED
    BY <1>9, <2>1 DEF Whole, PartsOf
<1>12. OneOwner'
  <2>1. \A q \in 1..started : q \in Pipes
    BY PipelineAssumption DEF PipelinesInv, ManagerShape, Pipes
  <2>2. \A q \in 1..started : lives'[q] # {} => lives[q] # {}
    BY <1>8, <2>1
  <2>. QED
    BY <1>6, <2>2 DEF PipelinesInv, OneOwner, At
<1>13. Joined'
  <2>1. ASSUME NEW d \in Managers, d # c, NEW q \in Pipes, At(d, q)' PROVE JoinedBy(d, q)'
    BY <1>6, <1>9, <2>1 DEF PipelinesInv, Joined, JoinedBy, At
  <2>2. ASSUME NEW q \in Pipes, At(c, q)' PROVE JoinedBy(c, q)'
    BY <1>6, <2>2 DEF At
  <2>3. \A d \in Managers : At(d, 0)' => tearing'[d].part = "scheduler"
    BY <1>2, <1>6 DEF PipelinesInv, Joined, At
  <2>. QED
    BY <2>1, <2>2, <2>3 DEF Joined
<1>. QED
  BY <1>7, <1>11, <1>12, <1>13 DEF PipelinesInv

\* A part has ended; a destructor frees it.
LEMMA JoinPartKeeps ==
  ASSUME PipelinesInv, NEW c \in Managers, JoinPart(c)
  PROVE  PipelinesInv'
<1>1. PICK p, x, y :
         /\ p = tearing[c].pipe /\ x = tearing[c].part /\ x \in PipeParts /\ ~free(c)
         /\ y = IF closing THEN NextMember(x) ELSE NextPart(x)
         /\ Stopped(p, x) /\ tearing' = [tearing EXCEPT ![c].part = y]
         /\ lives' = lives \/ (closing /\ lives' = [lives EXCEPT ![p] = @ \ {x}])
         /\ UNCHANGED <<entry, started, modelOf, cascaded, closing, runs, flagged>>
  BY DEF JoinPart, managerRest, Stopped
<1>2. p \in 1..started /\ p \in Pipes
  BY <1>1, TornExists
<1>3. /\ x \in {"scheduler", "group", "secondary"}
      /\ closing => /\ x = "secondary" => y = "router"
                    /\ x = "scheduler" => y = "group"
                    /\ x = "group" => y = "rest"
      /\ ~closing => /\ x = "scheduler" => y = "group"
                     /\ x = "group" => y = "secondary"
                     /\ x = "secondary" => y = "rest"
  BY <1>1 DEF NextPart, NextMember, PipeParts
<1>4. y \in Stages
  BY <1>3 DEF PipeParts, Stages, PipelinesInv, ManagerShape
<1>5. JoinedBy(c, p)
  BY <1>1, <1>2 DEF PipelinesInv, Joined, At
<1>6. tearing'[c].part = y /\ (closing' <=> closing) /\ \A q, z : Stopped(q, z)' <=> Stopped(q, z)
  BY <1>1 DEF Stopped, PipelinesInv, ManagerShape, Teardown
<1>7. JoinedBy(c, p)'
  <2>1. CASE closing
    BY <1>1, <1>3, <1>5, <1>6, <2>1 DEF JoinedBy
  <2>2. CASE ~closing
    BY <1>1, <1>3, <1>5, <1>6, <2>2 DEF JoinedBy, PipeParts
  <2>. QED
    BY <2>1, <2>2
<1>. QED
  BY <1>1, <1>4, <1>7, NextStageKeeps

\* A member without a thread goes, in the destructor only.
LEMMA FreeMemberKeeps ==
  ASSUME PipelinesInv, NEW c \in Managers, FreeMember(c)
  PROVE  PipelinesInv'
<1>1. PICK p, x, y :
         /\ p = tearing[c].pipe /\ x = tearing[c].part /\ x \in {"publishers", "router"} /\ ~free(c)
         /\ y = NextMember(x) /\ tearing' = [tearing EXCEPT ![c].part = y]
         /\ lives' = [lives EXCEPT ![p] = @ \ {x}]
         /\ UNCHANGED <<entry, started, modelOf, cascaded, closing, runs, flagged>>
  BY DEF FreeMember, managerRest
<1>2. p \in 1..started /\ p \in Pipes
  BY <1>1, TornExists
<1>3. (x = "publishers" => y = "secondary") /\ (x = "router" => y = "scheduler")
  BY <1>1 DEF NextMember
<1>4. y \in Stages /\ x \notin PipeParts /\ x # "rest"
  BY <1>1, <1>3 DEF PipeParts, Stages
<1>5. JoinedBy(c, p)
  BY <1>1, <1>2 DEF PipelinesInv, Joined, At
<1>6. closing
  BY <1>1, <1>4, <1>5 DEF JoinedBy
<1>7. tearing'[c].part = y /\ closing' = closing /\ \A q, z : Stopped(q, z)' <=> Stopped(q, z)
  BY <1>1 DEF Stopped, PipelinesInv, ManagerShape, Teardown
<1>8. JoinedBy(c, p)'
  BY <1>1, <1>3, <1>5, <1>6, <1>7 DEF JoinedBy
<1>. QED
  BY <1>1, <1>4, <1>6, <1>8, NextStageKeeps

\* Only what has stopped is destroyed, and its manager is free again.
LEMMA DestroyKeeps ==
  ASSUME PipelinesInv, NEW c \in Managers, DestroyPipeline(c)
  PROVE  PipelinesInv'
<1>1. PICK p : /\ p = tearing[c].pipe /\ ~free(c) /\ tearing[c].part = "rest"
               /\ lives' = [lives EXCEPT ![p] = {}]
               /\ flagged' = {f \in flagged : f[1] # p}
               /\ tearing' = [tearing EXCEPT ![c] = [pipe |-> 0, part |-> "scheduler"]]
               /\ UNCHANGED <<entry, started, modelOf, cascaded, closing, runs>>
  BY DEF DestroyPipeline
<1>2. p \in 1..started /\ p \in Pipes /\ p # 0
  BY <1>1, TornExists
<1>3. \A x \in PipeParts : Stopped(p, x)
  <2>1. JoinedBy(c, p)
    BY <1>1, <1>2 DEF PipelinesInv, Joined, At
  <2>. QED
    BY <1>1, <2>1 DEF JoinedBy, PipeParts
<1>4. tearing \in Teardown /\ DOMAIN lives = Pipes /\ started \in 0..MaxPipelines
  BY DEF PipelinesInv, ManagerShape
<1>5. /\ tearing' \in Teardown
      /\ \A d \in Managers : d # c => tearing'[d] = tearing[d]
      /\ tearing'[c].pipe = 0 /\ tearing'[c].part = "scheduler"
  BY <1>1, <1>4, PipelineAssumption DEF PipeParts, Stages, Teardown
<1>6. DOMAIN lives' = Pipes /\ lives'[p] = {} /\ \A q \in Pipes : q # p => lives'[q] = lives[q]
  BY <1>1, <1>2, <1>4
<1>7. ManagerShape'
  BY <1>1, <1>5, <1>6 DEF PipelinesInv, ManagerShape, Teardown
<1>8. Whole'
  <2>1. \A q, x : (Stopped(q, x)' <=> Stopped(q, x)) /\ PartsOf(q)' = PartsOf(q)
    BY <1>1 DEF Stopped, PartsOf
  <2>2. {"scheduler", "group", "secondary"} \subseteq PipeParts
    BY DEF PipeParts
  <2>. QED
    BY <1>1, <1>3, <1>6, <2>1, <2>2 DEF PipelinesInv, Whole
<1>9. \A d \in Managers : d # c => tearing[d].pipe # p
  BY <1>1, <1>2 DEF PipelinesInv, OneOwner, At
<1>10. OneOwner'
  <2>2. \A k \in Models, d \in Managers : entry[k] # 0 => tearing'[d].pipe # entry[k]
    BY <1>5 DEF PipelinesInv, OneOwner, At
  <2>4. ASSUME NEW d \in Managers, NEW e \in Managers, tearing'[d].pipe = tearing'[e].pipe, tearing'[d].pipe # 0
        PROVE  d = e
    BY <1>5, <2>4 DEF PipelinesInv, OneOwner, At
  <2>5. ASSUME NEW q \in 1..started, lives'[q] # {}
        PROVE  (\E k \in Models : entry[k] = q) \/ \E d \in Managers : tearing'[d].pipe = q
    <3>1. q # p /\ lives[q] # {}
      BY <1>4, <1>6, <2>5, PipelineAssumption DEF Pipes
    <3>2. CASE \E d \in Managers : tearing[d].pipe = q
      BY <1>1, <1>5, <3>1, <3>2
    <3>. QED
      BY <3>1, <3>2 DEF PipelinesInv, OneOwner, At
  <2>6. ASSUME NEW f \in flagged' PROVE \E d \in Managers : tearing'[d].pipe = f[1]
    <3>1. f \in flagged /\ f[1] # p
      BY <1>1
    <3>. QED
      BY <1>1, <1>5, <3>1 DEF PipelinesInv, OneOwner, At
  <2>7. \A j, k \in Models : entry'[j] = entry'[k] /\ entry'[j] # 0 => j = k
    BY <1>1 DEF PipelinesInv, OneOwner
  <2>. QED
    BY <1>1, <2>2, <2>4, <2>5, <2>6, <2>7 DEF OneOwner, At
<1>11. Joined'
  <2>1. \A q, x : Stopped(q, x)' <=> Stopped(q, x)
    BY <1>1 DEF Stopped
  <2>2. ASSUME NEW d \in Managers, d # c, NEW q \in Pipes, At(d, q)' PROVE JoinedBy(d, q)'
    BY <1>1, <1>5, <2>1, <2>2 DEF PipelinesInv, Joined, JoinedBy, At
  <2>3. \A q \in Pipes : ~At(c, q)'
    BY <1>5, PipelineAssumption DEF At, Pipes
  <2>4. \A d \in Managers : At(d, 0)' => tearing'[d].part = "scheduler"
    BY <1>5 DEF PipelinesInv, Joined, At
  <2>. QED
    BY <2>2, <2>3, <2>4 DEF Joined
<1>. QED
  BY <1>7, <1>8, <1>10, <1>11 DEF PipelinesInv

\* PipelinesInv holds throughout, for any number of managers.
LEMMA PipelinesInvHolds == PipelinesSafety => []PipelinesInv
<1>1. PipelinesInit => PipelinesInv
  <2>. SUFFICES ASSUME PipelinesInit PROVE PipelinesInv
    OBVIOUS
  <2>1. ManagerShape
    <3>1. tearing \in Teardown /\ runs \in [Pipes -> [PipeParts -> Runs]]
      BY PipelineAssumption DEF PipelinesInit, PipeParts, Stages, Runs, Teardown
    <3>2. started = 0 /\ started \in 0..MaxPipelines /\ entry \in [Models -> 0..started]
      BY PipelineAssumption DEF PipelinesInit
    <3>3. closing \in BOOLEAN
      BY DEF PipelinesInit
    <3>4. flagged = {} /\ cascaded = {} /\ DOMAIN lives = Pipes
      BY DEF PipelinesInit
    <3>. QED
      BY <3>1, <3>2, <3>3, <3>4 DEF ManagerShape
  <2>2. Whole
    BY DEF PipelinesInit, Whole, Stopped, PipeParts
  <2>3. OneOwner
    BY DEF PipelinesInit, OneOwner, At
  <2>4. Joined
    BY PipelineAssumption DEF PipelinesInit, Joined, JoinedBy, At, PipeParts
  <2>. QED
    BY <2>1, <2>2, <2>3, <2>4 DEF PipelinesInv
<1>2. PipelinesInv /\ [PipelinesNext]_pipelineVars => PipelinesInv'
  <2>. SUFFICES ASSUME PipelinesInv, [PipelinesNext]_pipelineVars PROVE PipelinesInv'
    OBVIOUS
  <2>1. CASE UNCHANGED pipelineVars
    BY <2>1, ThreadsKeep DEF pipelineVars
  <2>2. ASSUME NEW c \in Managers, NEW m \in Models, Load(c, m) PROVE PipelinesInv'
    <3>1. CASE startThrows
      BY <2>2, <3>1, ThreadsKeep DEF Load, startThrows, managerVars, managerRest
    <3>2. ASSUME NEW inCascade \in BOOLEAN, startPipeline(m, m, inCascade) PROVE PipelinesInv'
      <4>1. free(c) /\ ~closing /\ entry[m] = 0 /\ UNCHANGED tearing /\ UNCHANGED <<closing, flagged>>
        BY <2>2 DEF Load, managerRest
      <4>. QED
        BY <3>2, <4>1, StartKeeps
    <3>. QED
      BY <2>2, <3>1, <3>2 DEF Load
  <2>3. ASSUME NEW c \in Managers, NEW m \in Models, NEW n \in Models, Swap(c, m, n) PROVE PipelinesInv'
    <3>1. CASE startThrows /\ UNCHANGED tearing
      BY <2>3, <3>1, ThreadsKeep DEF Swap, startThrows, managerVars, managerRest
    <3>2. ASSUME NEW inCascade \in BOOLEAN, startPipeline(m, n, inCascade),
                 tearing' = [tearing EXCEPT ![c].pipe = entry[m]]
          PROVE  PipelinesInv'
      <4>1. free(c) /\ ~closing /\ entry[m] # 0 /\ UNCHANGED <<closing, flagged>>
        BY <2>3 DEF Swap, managerRest
      <4>. QED
        BY <3>2, <4>1, StartKeeps
    <3>. QED
      BY <2>3, <3>1, <3>2 DEF Swap
  <2>3a. ASSUME NEW c \in Managers, NEW m \in Models, Unload(c, m) PROVE PipelinesInv'
    <3>1. /\ free(c) /\ ~closing /\ closing' = closing /\ entry[m] # 0 /\ entry' = [entry EXCEPT ![m] = 0]
          /\ tearing' = [tearing EXCEPT ![c].pipe = entry[m]]
          /\ UNCHANGED <<started, modelOf, cascaded, lives, runs, flagged>>
      BY <2>3a DEF Unload, managerRest
    <3>2. tearing[c].part = "scheduler" /\ "scheduler" \in Stages
      BY <3>1 DEF PipelinesInv, Joined, At, free, Stages, PipeParts
    <3>3. tearing' = [tearing EXCEPT ![c] = [pipe |-> entry[m], part |-> "scheduler"]]
      <4>1. tearing[c] \in [pipe : 0..started, part : Stages] /\ entry[m] \in 0..started
        BY DEF PipelinesInv, ManagerShape, Teardown
      <4>2. [tearing[c] EXCEPT !.pipe = entry[m]] = [pipe |-> entry[m], part |-> "scheduler"]
        BY <3>2, <4>1
      <4>. QED
        BY <3>1, <4>2
    <3>. QED
      BY <3>1, <3>2, <3>3, HandOverKeeps
  <2>3b. ASSUME NEW c \in Managers, NEW m \in Models, DropEntry(c, m) PROVE PipelinesInv'
    <3>1. /\ \A d \in Managers : free(d)
          /\ closing' = TRUE /\ entry[m] # 0 /\ entry' = [entry EXCEPT ![m] = 0]
          /\ tearing' = [tearing EXCEPT ![c] = [pipe |-> entry[m], part |-> "publishers"]]
          /\ UNCHANGED <<started, modelOf, cascaded, lives, runs, flagged>>
      BY <2>3b DEF DropEntry, managerRest
    <3>2. "publishers" \in Stages
      BY DEF Stages
    <3>. QED
      BY <3>1, <3>2, HandOverKeeps
  <2>4. ASSUME NEW s \in Cameras,
               (\E m \in Models : AddStream(s, m)) \/ RemoveStream(s)
                 \/ (\E kind \in FrameKinds : PushFrame(s, kind))
        PROVE  PipelinesInv'
    <3>1. UNCHANGED managerVars /\ UNCHANGED runs /\ UNCHANGED flagged
      BY <2>4 DEF AddStream, RemoveStream, PushFrame, streamRest
    <3>. QED
      BY <3>1, ThreadsKeep
  <2>5. ASSUME NEW p \in Pipes, (\E s \in Cameras : GetBuffer(p, s)) \/ PopFrame(p) PROVE PipelinesInv'
    <3>1. UNCHANGED managerVars /\ UNCHANGED runs /\ UNCHANGED flagged
      BY <2>5 DEF GetBuffer, PopFrame
    <3>. QED
      BY <3>1, ThreadsKeep
  <2>6. ASSUME NEW p \in Pipes, RefreshStreams(p) \/ FlushBatch(p) \/ DeliverBatch(p) \/ NextRound(p)
        PROVE  PipelinesInv'
    <3>1. /\ UNCHANGED managerVars /\ UNCHANGED flagged /\ ~Stopped(p, "scheduler")
          /\ \E v \in {"idle", "scanning", "busy", "exited"} : runs' = [runs EXCEPT ![p]["scheduler"] = v]
      BY <2>6 DEF RefreshStreams, FlushBatch, DeliverBatch, NextRound, scanning, Stopped
    <3>2. "scheduler" \in PipeParts
      BY DEF PipeParts
    <3>. QED
      BY <3>1, <3>2, ThreadsKeep
  <2>7. ASSUME NEW p \in Pipes, NEW x \in PipeParts, TakeBatch(p, x) \/ PublishBatch(p, x) \/ LoopExits(p, x)
        PROVE  PipelinesInv'
    <3>1. /\ UNCHANGED managerVars /\ UNCHANGED flagged /\ ~Stopped(p, x)
          /\ \E v \in {"idle", "scanning", "busy", "exited"} : runs' = [runs EXCEPT ![p][x] = v]
      BY <2>7 DEF TakeBatch, PublishBatch, LoopExits, workerRest, Stopped
    <3>. QED
      BY <3>1, ThreadsKeep
  <2>. QED
    BY <2>1, <2>2, <2>3, <2>3a, <2>3b, <2>4, <2>5, <2>6, <2>7, StopPartKeeps, JoinPartKeeps,
       FreeMemberKeeps, DestroyKeeps
    DEF PipelinesNext
<1>. QED
  BY <1>1, <1>2, PTL DEF PipelinesSafety

\* For any number of models, pipelines, streams and threads: a running thread
\* finds its own object and the scheduler the group it calls, while pipelines
\* are loaded, swapped, unloaded and destroyed with the manager; and the workers
\* of a cascade find what they call unless it is the manager's implicit
\* destructor that takes the pipeline down (ModelManager.cpp, startPipeline and
\* stopPipeline_unlocked; ModelManager.h, ModelEntry).
THEOREM UsedStaysAlive == PipelinesSafety => []UsedIsAlive
<1>1. PipelinesInv => UsedIsAlive
  <2>. SUFFICES ASSUME PipelinesInv, NEW p \in Pipes
                PROVE  /\ \A x \in PipeParts : runs[p][x] \notin {"off", "exited"} => x \in lives[p]
                       /\ runs[p]["scheduler"] = "busy" => "group" \in lives[p]
                       /\ closing \/ CascadeThere(p)
    BY DEF UsedIsAlive
  <2>1. /\ \A x \in PipeParts : runs[p][x] \notin {"off", "exited"} => x \in lives[p]
        /\ runs[p]["scheduler"] = "busy" => "group" \in lives[p]
    BY DEF PipelinesInv, Whole, Stopped
  <2>2. ASSUME ~closing PROVE CascadeThere(p)
    <3>1. /\ runs[p]["group"] = "busy" => "group" \in lives[p]
          /\ runs[p]["secondary"] = "busy" => "secondary" \in lives[p] /\ p \in cascaded
      BY DEF PipelinesInv, Whole, Stopped, PipeParts
    <3>2. lives[p] # {} => lives[p] = PartsOf(p)
      BY <2>2 DEF PipelinesInv, Whole
    <3>. QED
      BY <3>1, <3>2 DEF CascadeThere, PartsOf, PipeParts
  <2>. QED
    BY <2>1, <2>2
<1>. QED
  BY <1>1, PipelinesInvHolds, PTL

\* A listed model is served by a pipeline nobody stops, and a pipeline that is
\* no longer listed is taken down by exactly one thread, through any
\* interleaving of load, unload and swaps, to the same model or to another
\* (ModelManager.cpp, swap and unload).
THEOREM AlwaysServed == PipelinesSafety => []ServedThroughSwap
<1>1. PipelinesInv => ServedThroughSwap
  <2>. SUFFICES ASSUME PipelinesInv PROVE ServedThroughSwap
    OBVIOUS
  <2>1. \A m \in Models : entry[m] # 0 =>
          /\ \A x \in PipeParts : <<entry[m], x>> \notin flagged
          /\ \A c \in Managers : tearing[c].pipe # entry[m]
    BY DEF PipelinesInv, OneOwner, At
  <2>2. ASSUME NEW p \in 1..started, \A m \in Models : entry[m] # p, lives[p] # {}
        PROVE  Cardinality({c \in Managers : tearing[c].pipe = p}) = 1
    <3>1. PICK c \in Managers : tearing[c].pipe = p
      BY <2>2 DEF PipelinesInv, OneOwner, At
    <3>2. p # 0
      BY DEF PipelinesInv, ManagerShape
    <3>3. {d \in Managers : tearing[d].pipe = p} = {c}
      BY <3>1, <3>2 DEF PipelinesInv, OneOwner, At
    <3>. QED
      BY <3>3, FS_Singleton
  <2>. QED
    BY <2>1, <2>2 DEF ServedThroughSwap
<1>. QED
  BY <1>1, PipelinesInvHolds, PTL

-----------------------------------------------------------------------------
(* Backends.  What infer() hands back is followed from the host through    *)
(* the slot and the streams; only the order of a stream keeps what earlier *)
(* calls left there from being in the way.                                 *)

\* A set of naturals that is not empty has a least element.
LEMMA MinIsLeast ==
  ASSUME NEW T \in SUBSET Nat, T # {}
  PROVE  Min(T) \in T
<1>. DEFINE Less == {ss \in Nat \X Nat : ss[1] < ss[2]}
<1>1. IsWellFoundedOn(Less, Nat)
  <2>1. Less = OpToRel(<, Nat)
    BY Zenon DEF OpToRel
  <2>. QED
    BY <2>1, NatLessThanWellFounded, Zenon
<1>2. PICK x \in T : \A y \in T : ~(<<y, x>> \in Less)
  <2>. HIDE DEF Less
  <2>. QED
    BY <1>1, WFMin
<1>3. ASSUME NEW y \in T PROVE x <= y
  <2>1. <<y, x>> \in Nat \X Nat /\ <<y, x>>[1] = y /\ <<y, x>>[2] = x
    OBVIOUS
  <2>2. ~(y < x)
    BY <1>2, <2>1
  <2>. QED
    BY <2>2
<1>. QED
  BY <1>3 DEF Min

\* The model that runs a request holds all of it.
LEMMA RowsSuffice ==
  ASSUME request.size \in 1..MaxBatch
  PROVE  modelRows \in Nat /\ modelRows >= request.size
<1>. DEFINE T == {b \in Compiled : b >= request.size}
<1>1. MaxBatch \in Nat
  BY BackendAssumption
<1>2. T \in SUBSET Nat /\ MaxBatch \in T
  <2>1. \A b \in Compiled : b \in Nat
    BY <1>1, BackendAssumption
  <2>2. MaxBatch \in Compiled /\ MaxBatch >= request.size
    BY <1>1, BackendAssumption
  <2>. QED
    BY <2>1, <2>2
<1>3. Min(T) \in T
  BY <1>2, MinIsLeast
<1>. QED
  BY <1>2, <1>3 DEF modelRows

\* A sequence without its first element, and with more behind it.
LEMMA TailFacts ==
  ASSUME NEW S, NEW s \in Seq(S), s # <<>>
  PROVE  /\ Len(s) \in Nat \ {0} /\ Head(s) = s[1]
         /\ Tail(s) \in Seq(S) /\ Len(Tail(s)) = Len(s) - 1
         /\ \A i \in 1..(Len(s) - 1) : Tail(s)[i] = s[i + 1]
  OBVIOUS

\* What a stream holds when operations are queued behind others.
LEMMA ConcatFacts ==
  ASSUME NEW S, NEW s \in Seq(S), NEW T, NEW t \in Seq(T)
  PROVE  /\ s \o t \in Seq(S \cup T) /\ Len(s) \in Nat /\ Len(t) \in Nat
         /\ Len(s \o t) = Len(s) + Len(t)
         /\ \A i \in 1..Len(s) : (s \o t)[i] = s[i]
         /\ \A i \in 1..Len(t) : (s \o t)[Len(s) + i] = t[i]
<1>1. s \in Seq(S \cup T) /\ t \in Seq(S \cup T)
  BY SeqMonotonic
<1>. QED
  BY <1>1, ConcatProperties

Steps == {"idle", "acquired", "packed", "staged", "executing", "copying"}
Memory == PoolSlots \cup {"frame", "tmp"}

\* Operations on the two streams.
PreOp(o) ==
    \/ o.op = "record" /\ o.call \in Nat
    \/ o.op = "preprocess" /\ o.slot \in PoolSlots /\ o.row \in Rows
RunOp(o) ==
    \/ o.op = "wait"
    \/ o.op = "copy" /\ o.slot \in PoolSlots
    \/ o.op = "execute" /\ o.slot \in PoolSlots /\ o.from \in Memory

\* The call in progress has a slot, and no one else has.
BackendShape ==
    /\ engine \in {"trt", "ascend", "onnx"}
    /\ call \in Nat /\ event \in Nat /\ step \in Steps
    /\ request \in [size : 1..MaxBatch, onDevice : BOOLEAN, intact : BOOLEAN]
    /\ step = "idle" => lent = {}
    /\ step # "idle" => slot \in PoolSlots /\ lent = {slot} /\ engine \in {"trt", "ascend"}
    /\ DOMAIN tensorIn = Memory /\ DOMAIN tensorOut = PoolSlots
    /\ \A s \in Memory : DOMAIN tensorIn[s] = Rows
    /\ DOMAIN staging = Rows
    /\ \E S : preStream \in Seq(S)
    /\ \A i \in 1..Len(preStream) : PreOp(preStream[i])
    /\ \E S : inferStream \in Seq(S)
    /\ \A i \in 1..Len(inferStream) : RunOp(inferStream[i])
    /\ engine # "trt" => preStream = <<>>

\* The event of the call in progress is the last thing queued, so that nothing
\* is in front of the inference once it is reached.
Recorded ==
    /\ event <= call
    /\ \A i \in 1..Len(preStream) : preStream[i].op = "record" => preStream[i].call <= call
    /\ step # "idle" => \A i \in 1..Len(preStream) :
          preStream[i].op = "record" /\ preStream[i].call = call => i = Len(preStream) /\ step # "acquired"
    /\ step = "acquired" => event < call
    /\ step # "idle" /\ event = call => preStream = <<>>

OnGpu == engine = "trt" /\ request.onDevice
OnCpu == engine = "trt" /\ ~request.onDevice

RowsIn(s)  == request.intact => \A r \in 1..request.size : tensorIn[s][r] = <<call, r>>
RowsOut    == request.intact => \A r \in 1..request.size : tensorOut[slot][r] = <<call, r>>
RowsHost   == request.intact => \A r \in 1..request.size : host[r] = <<call, r>>
RowsPacked == request.intact => \A r \in 1..request.size : staging[r] = <<call, r>>

\* Row r of the slot holds the picture of the call, or will when the stream
\* has run: nothing behind its kernel writes the row again.
Writes(o, r) == o.op = "preprocess" /\ o.slot = slot /\ o.row = r
RowReady(r) ==
    \/ \E i \in 1..Len(preStream) :
          /\ Writes(preStream[i], r) /\ preStream[i].value = <<call, r>>
          /\ \A j \in 1..Len(preStream) : j > i => ~Writes(preStream[j], r)
    \/ /\ tensorIn[slot][r] = <<call, r>>
       /\ \A j \in 1..Len(preStream) : ~Writes(preStream[j], r)

OurWait(o) == o.op = "wait" /\ o.call = call
OurExecute(o, s) ==
    o.op = "execute" /\ o.slot = slot /\ o.from = s /\ o.rows \in Nat /\ o.rows >= request.size
OurCopy(o) == o.op = "copy" /\ o.slot = slot /\ o.call = call

Executing ==
    /\ engine = "ascend"
    /\ \/ inferStream # <<>> /\ \E s \in Memory : OurExecute(inferStream[Len(inferStream)], s) /\ RowsIn(s)
       \/ inferStream = <<>> /\ RowsOut

Copying ==
    LET n == Len(inferStream) IN
    \/ /\ OnGpu /\ n >= 3 /\ OurWait(inferStream[n - 2])
       /\ OurExecute(inferStream[n - 1], slot) /\ OurCopy(inferStream[n])
    \/ OnGpu /\ n = 2 /\ OurExecute(inferStream[1], slot) /\ OurCopy(inferStream[2]) /\ event = call
    \/ n = 1 /\ OurCopy(inferStream[1]) /\ RowsOut
    \/ inferStream = <<>> /\ RowsHost

\* Where the rows of the call in progress are.
Flight ==
    /\ OnGpu /\ step \in {"staged", "copying"} => \A r \in 1..request.size : RowReady(r)
    /\ OnCpu /\ step \in {"staged", "copying"} => preStream = <<>> /\ inferStream = <<>>
    /\ OnCpu /\ step = "staged" => RowsIn(slot)
    /\ step = "packed" => engine = "ascend" /\ inputPtr = slot /\ RowsPacked
    /\ engine = "ascend" /\ step = "staged" => RowsIn(inputPtr)
    /\ step = "executing" => Executing
    /\ step = "copying" => Copying

Answered == answer.intact => answer.rows = [r \in 1..answer.size |-> <<answer.call, r>>]

BackendInv == BackendShape /\ Recorded /\ Flight /\ Answered

\* BackendInv holds before the first call.
LEMMA InitBackend == BackendInit => BackendInv
<1>. SUFFICES ASSUME BackendInit PROVE BackendInv
  OBVIOUS
<1>1. 1 \in 1..MaxBatch
  BY BackendAssumption
<1>2. /\ preStream = <<>> /\ inferStream = <<>> /\ <<>> \in Seq({}) /\ Len(<<>>) = 0 /\ 1..0 = {}
  BY DEF BackendInit
<1>3. BackendShape
  BY <1>1, <1>2 DEF BackendInit, BackendShape, NoRequest, Steps, Memory, Blank
<1>4. Recorded /\ Flight
  BY <1>2 DEF BackendInit, Recorded, Flight
<1>5. Answered
  <2>1. <<>> = [r \in 1..0 |-> <<0, r>>]
    OBVIOUS
  <2>. QED
    BY <2>1 DEF BackendInit, Answered
<1>. QED
  BY <1>3, <1>4, <1>5 DEF BackendInv

\* Between two calls nothing is known but what the streams may hold.
LEMMA IdleKeeps ==
  ASSUME BackendShape, Recorded, step = "idle",
         loadModel \/ loadModelThrows \/ unloadModel \/ InferOnnx
  PROVE  BackendShape' /\ Recorded' /\ Flight'
<1>1. /\ UNCHANGED <<engine, request, step, slot, staging, event>> /\ lent' = {} /\ call' \in Nat /\ call' >= call
      /\ DOMAIN tensorIn' = Memory /\ DOMAIN tensorOut' = PoolSlots
      /\ \A s \in Memory : DOMAIN tensorIn'[s] = Rows
      /\ \/ UNCHANGED <<preStream, inferStream>>
         \/ preStream' = <<>> /\ inferStream' = <<>>
  <2>1. CASE loadModel
    BY <2>1 DEF loadModel, poolInit, BackendShape, Blank
  <2>2. CASE loadModelThrows
    BY <2>2 DEF loadModelThrows, callVarsB, deviceVars, BackendShape
  <2>3. CASE unloadModel
    BY <2>3 DEF unloadModel, poolReset, BackendShape
  <2>4. CASE InferOnnx
    BY <2>4 DEF InferOnnx, deviceVars, BackendShape
  <2>. QED
    BY <2>1, <2>2, <2>3, <2>4
<1>2. <<>> \in Seq({}) /\ Len(<<>>) = 0 /\ 1..0 = {}
  OBVIOUS
<1>3. /\ \E S : preStream' \in Seq(S)
      /\ \E S : inferStream' \in Seq(S)
      /\ \A i \in 1..Len(preStream') : PreOp(preStream'[i])
      /\ \A i \in 1..Len(inferStream') : RunOp(inferStream'[i])
      /\ engine # "trt" => preStream' = <<>>
  <2>1. CASE UNCHANGED <<preStream, inferStream>>
    BY <2>1 DEF BackendShape
  <2>2. CASE preStream' = <<>> /\ inferStream' = <<>>
    BY <1>2, <2>2
  <2>. QED
    BY <1>1, <2>1, <2>2
<1>4. BackendShape'
  BY <1>1, <1>3 DEF BackendShape, PreOp, RunOp
<1>5. Recorded'
  <2>1. event \in Nat /\ call \in Nat /\ \A i \in 1..Len(preStream) : preStream[i].op = "record" => preStream[i].call \in Nat
    BY DEF BackendShape, PreOp
  <2>2. event' <= call'
    BY <1>1, <2>1 DEF Recorded
  <2>3. \A i \in 1..Len(preStream') : preStream'[i].op = "record" => preStream'[i].call <= call'
    <3>1. CASE UNCHANGED <<preStream, inferStream>>
      BY <1>1, <2>1, <3>1 DEF Recorded
    <3>2. CASE preStream' = <<>> /\ inferStream' = <<>>
      BY <1>2, <3>2
    <3>. QED
      BY <1>1, <3>1, <3>2
  <2>. QED
    BY <1>1, <2>2, <2>3 DEF Recorded
<1>6. Flight'
  BY <1>1 DEF Flight
<1>. QED
  BY <1>4, <1>5, <1>6

\* infer() begins: all that is queued is of earlier calls.
LEMMA InferKeeps ==
  ASSUME BackendShape, Recorded, NEW size \in 1..MaxBatch, NEW onDevice \in BOOLEAN,
         Infer(size, onDevice)
  PROVE  BackendShape' /\ Recorded' /\ Flight'
<1>1. /\ step = "idle" /\ call' = call + 1 /\ step' = "acquired" /\ engine # "onnx"
      /\ request' = [size |-> size, onDevice |-> onDevice, intact |-> TRUE]
      /\ UNCHANGED <<engine, staging, tensorIn, tensorOut, preStream, inferStream, event>>
  BY DEF Infer, deviceVars
<1>2. slot' \in PoolSlots /\ lent' = {slot'}
  BY <1>1 DEF Infer, acquireSlot, BackendShape
<1>3. /\ call \in Nat /\ call' \in Nat /\ call < call' /\ event \in Nat /\ event < call'
      /\ \A i \in 1..Len(preStream) :
            preStream[i].op = "record" => preStream[i].call \in Nat /\ preStream[i].call < call'
  BY <1>1 DEF BackendShape, Recorded, PreOp
<1>4. engine \in {"trt", "ascend", "onnx"} => engine \in {"trt", "ascend"}
  BY <1>1
<1>5. BackendShape'
  BY <1>1, <1>2, <1>3 DEF BackendShape, PreOp, RunOp, Steps
<1>6. Recorded'
  <2>1. event' < call' /\ \A i \in 1..Len(preStream') : preStream'[i].op = "record" =>
          preStream'[i].call <= call' /\ preStream'[i].call # call'
    BY <1>1, <1>3
  <2>. QED
    BY <1>1, <1>3, <2>1 DEF Recorded
<1>7. Flight'
  BY <1>1 DEF Flight
<1>. QED
  BY <1>5, <1>6, <1>7

\* A call is over, on whichever way out.
LEMMA CallOverKeeps ==
  ASSUME BackendShape, Recorded, step # "idle", CallOver, UNCHANGED <<tensorOut, inferStream, event>>,
         \E S : preStream' \in Seq(S), engine # "trt" => preStream' = <<>>,
         \A i \in 1..Len(preStream') : PreOp(preStream'[i])
                 /\ (preStream'[i].op = "record" => preStream'[i].call <= call)
  PROVE  BackendShape' /\ Recorded' /\ Flight'
<1>1. /\ step' = "idle" /\ lent' = {}
      /\ request' = [size |-> 1, onDevice |-> FALSE, intact |-> TRUE]
      /\ DOMAIN tensorIn' = Memory /\ \A s \in Memory : DOMAIN tensorIn'[s] = Rows
      /\ DOMAIN staging' = Rows /\ UNCHANGED <<engine, call>>
  BY DEF CallOver, releaseSlot, NoRequest, BackendShape, Blank, Memory
<1>2. 1 \in 1..MaxBatch
  BY BackendAssumption
<1>3. BackendShape'
  BY <1>1, <1>2 DEF BackendShape, PreOp, RunOp, Steps
<1>4. Recorded'
  BY <1>1 DEF Recorded
<1>5. Flight'
  BY <1>1 DEF Flight
<1>. QED
  BY <1>3, <1>4, <1>5

\* The sequence of kernels a call queues, one per row.
LEMMA KernelFacts ==
  ASSUME NEW k \in Nat
  PROVE  LET K == [r \in 1..k |-> kernel(r)]
         IN  K \in Seq({kernel(r) : r \in 1..k}) /\ Len(K) = k /\ \A i \in 1..k : K[i] = kernel(i)
<1>. DEFINE S == {kernel(r) : r \in 1..k}
            K == [r \in 1..k |-> kernel(r)]
<1>1. K \in [1..k -> S]
  OBVIOUS
<1>2. DOMAIN K = 1..k /\ \A i \in 1..k : K[i] = kernel(i)
  OBVIOUS
<1>. HIDE DEF K, S
<1>3. K \in Seq(S) /\ Len(K) = k
  BY <1>1, <1>2
<1>. QED
  BY <1>2, <1>3 DEF K, S

\* preprocessGPU: a kernel for each row, then the event.
LEMMA PreprocessGPUKeeps ==
  ASSUME BackendShape, Recorded, PreprocessGPU
  PROVE  BackendShape' /\ Recorded' /\ Flight'
<1>1. engine = "trt" /\ request.onDevice /\ step = "acquired" /\ slot \in PoolSlots
  BY DEF PreprocessGPU, BackendShape
<1>2. PICK P : preStream \in Seq(P)
  BY DEF BackendShape
<1>3. ASSUME NEW k \in 1..request.size
      PROVE  LET K == [r \in 1..k |-> kernel(r)]
             IN  /\ \E S : preStream \o K \in Seq(S)
                 /\ Len(preStream \o K) = Len(preStream) + k /\ Len(preStream) \in Nat
                 /\ \A i \in 1..Len(preStream) : (preStream \o K)[i] = preStream[i]
                 /\ \A i \in 1..k : (preStream \o K)[Len(preStream) + i] = kernel(i)
  <2>. DEFINE K == [r \in 1..k |-> kernel(r)]
              S == {kernel(r) : r \in 1..k}
  <2>1. k \in Nat
    BY DEF BackendShape
  <2>2. K \in Seq(S) /\ Len(K) = k /\ \A i \in 1..k : K[i] = kernel(i)
    BY <2>1, KernelFacts
  <2>. HIDE DEF K, S
  <2>3. /\ preStream \o K \in Seq(P \cup S) /\ Len(preStream) \in Nat
        /\ Len(preStream \o K) = Len(preStream) + Len(K)
        /\ \A i \in 1..Len(preStream) : (preStream \o K)[i] = preStream[i]
        /\ \A i \in 1..Len(K) : (preStream \o K)[Len(preStream) + i] = K[i]
    <3>1. preStream \in Seq(P) /\ K \in Seq(S)
      BY <1>2, <2>2
    <3>. QED
      BY <3>1, ConcatFacts
  <2>. QED
    BY <2>2, <2>3 DEF K
<1>4. \A r \in 1..request.size : /\ kernel(r).op = "preprocess" /\ kernel(r).slot = slot /\ kernel(r).row = r
                                 /\ kernel(r).value = <<call, r>> /\ r \in Rows
  <2>1. \A r \in 1..request.size : r \in Rows
    BY BackendAssumption DEF BackendShape, Rows
  <2>. QED
    BY <2>1 DEF kernel
<1>5. \A r \in 1..request.size : PreOp(kernel(r)) /\ kernel(r).op # "record"
  BY <1>1, <1>4 DEF PreOp
<1>6. ASSUME NEW k \in 1..request.size, preStream' = preStream \o [r \in 1..k |-> kernel(r)], CallOver,
             UNCHANGED <<tensorOut, inferStream, event>>
      PROVE  BackendShape' /\ Recorded' /\ Flight'
  <2>1. \E S : preStream' \in Seq(S)
    BY <1>3, <1>6
  <2>2. ASSUME NEW i \in 1..Len(preStream')
        PROVE  PreOp(preStream'[i]) /\ (preStream'[i].op = "record" => preStream'[i].call <= call)
    <3>1. Len(preStream') = Len(preStream) + k /\ Len(preStream) \in Nat /\ k \in Nat
      BY <1>3, <1>6 DEF BackendShape
    <3>2. CASE i <= Len(preStream)
      <4>1. preStream'[i] = preStream[i] /\ i \in 1..Len(preStream)
        BY <1>3, <1>6, <3>1, <3>2
      <4>. QED
        BY <4>1 DEF BackendShape, Recorded
    <3>3. CASE i > Len(preStream)
      <4>1. i - Len(preStream) \in 1..k /\ i = Len(preStream) + (i - Len(preStream))
        BY <3>1, <3>3
      <4>2. i - Len(preStream) \in 1..request.size
        BY <4>1 DEF BackendShape
      <4>3. preStream'[i] = kernel(i - Len(preStream))
        BY <1>3, <1>6, <4>1
      <4>. QED
        BY <1>5, <4>2, <4>3
    <3>. QED
      BY <3>1, <3>2, <3>3
  <2>. QED
    BY <1>1, <1>6, <2>1, <2>2, CallOverKeeps
<1>7. ASSUME preStream' = preStream \o [r \in 1..request.size |-> kernel(r)] \o <<[op |-> "record", call |-> call]>>,
             step' = "staged", UNCHANGED <<callRest, tensorIn, tensorOut, inferStream, event, host>>
      PROVE  BackendShape' /\ Recorded' /\ Flight'
  <2>. DEFINE k == request.size
              Q == preStream \o [r \in 1..k |-> kernel(r)]
              R == [op |-> "record", call |-> call]
  <2>0. k \in 1..k /\ k \in Nat
    BY DEF BackendShape
  <2>1. /\ \E S : Q \in Seq(S)
        /\ Len(Q) = Len(preStream) + k /\ Len(preStream) \in Nat
        /\ \A i \in 1..Len(preStream) : Q[i] = preStream[i]
        /\ \A i \in 1..k : Q[Len(preStream) + i] = kernel(i)
    BY <1>3, <2>0
  <2>2. preStream' = Q \o <<R>>
    BY <1>7
  <2>. HIDE DEF Q, R, k
  <2>3. PICK S : Q \in Seq(S)
    BY <2>1
  <2>4. <<R>> \in Seq({R}) /\ Len(<<R>>) = 1 /\ <<R>>[1] = R /\ 1 \in 1..1
    OBVIOUS
  <2>5. /\ preStream' \in Seq(S \cup {R}) /\ Len(preStream') = Len(Q) + 1
        /\ \A i \in 1..Len(Q) : preStream'[i] = Q[i]
        /\ preStream'[Len(Q) + 1] = R
    BY <2>2, <2>3, <2>4, ConcatFacts
  <2>6. R.op = "record" /\ R.call = call
    BY DEF R
  <2>. DEFINE n == Len(preStream)
  <2>7. /\ n \in Nat /\ Len(preStream') = n + k + 1
        /\ \A i \in 1..n : preStream'[i] = preStream[i]
        /\ \A i \in 1..k : preStream'[n + i] = kernel(i)
        /\ preStream'[n + k + 1] = R
    <3>1. n \in Nat /\ Len(Q) = n + k
      BY <2>1
    <3>2. \A i \in 1..n : i \in 1..Len(Q) /\ Q[i] = preStream[i]
      BY <2>0, <2>1, <3>1
    <3>3. \A i \in 1..k : n + i \in 1..Len(Q) /\ Q[n + i] = kernel(i)
      BY <2>0, <2>1, <3>1
    <3>. HIDE DEF n
    <3>. QED
      BY <2>5, <3>1, <3>2, <3>3
  <2>. HIDE DEF n
  <2>8. \A i \in 1..Len(preStream') : i \in 1..n \/ (i - n \in 1..k /\ i = n + (i - n)) \/ i = n + k + 1
    BY <2>0, <2>7
  <2>9. UNCHANGED <<engine, call, request, slot, lent, staging>>
    BY <1>7 DEF callRest, ownRest
  <2>10. \A i \in 1..Len(preStream') : PreOp(preStream'[i])
    <3>1. PreOp(R) /\ \A i \in 1..n : PreOp(preStream[i])
      BY <2>6 DEF PreOp, BackendShape, n
    <3>. QED
      BY <1>5, <2>7, <2>8, <3>1 DEF k
  <2>11. BackendShape'
    <3>1. \E T : preStream' \in Seq(T)
      BY <2>5
    <3>2. step' \in Steps /\ step' # "idle"
      BY <1>7 DEF Steps
    <3>. QED
      BY <1>1, <1>7, <2>9, <2>10, <3>1, <3>2 DEF BackendShape, RunOp
  <2>12. Recorded'
    <3>1. \A i \in 1..Len(preStream') : preStream'[i].op = "record" =>
             preStream'[i].call <= call /\ (preStream'[i].call = call => i = Len(preStream'))
      <4>1. call <= call
        BY DEF BackendShape
      <4>2. \A i \in 1..n : preStream[i].op = "record" => preStream[i].call <= call /\ preStream[i].call # call
        BY <1>1 DEF Recorded, n
      <4>. QED
        BY <1>5, <2>6, <2>7, <2>8, <4>1, <4>2 DEF k
    <3>2. event <= call /\ event # call
      BY <1>1 DEF Recorded, BackendShape
    <3>. QED
      BY <1>7, <2>9, <3>1, <3>2 DEF Recorded
  <2>13. ASSUME NEW r \in 1..k PROVE RowReady(r)'
    <3>1. n + r \in 1..Len(preStream') /\ preStream'[n + r] = kernel(r)
      BY <2>0, <2>7
    <3>2. \A j \in 1..Len(preStream') : j > n + r => ~Writes(preStream'[j], r)
      <4>1. ASSUME NEW j \in 1..Len(preStream'), j > n + r PROVE ~Writes(preStream'[j], r)
        <5>1. (j - n \in 1..k /\ j = n + (j - n) /\ j - n # r) \/ j = n + k + 1
          BY <2>0, <2>7, <2>8, <4>1
        <5>. QED
          BY <1>4, <2>6, <2>7, <5>1 DEF Writes, k
      <4>. QED
        BY <4>1
    <3>3. Writes(kernel(r), r) /\ kernel(r).value = <<call, r>>
      BY <1>4 DEF Writes, k
    <3>. QED
      BY <2>9, <3>1, <3>2, <3>3 DEF RowReady, Writes
  <2>14. Flight'
    BY <1>1, <1>7, <2>9, <2>13 DEF Flight, OnGpu, OnCpu, k
  <2>. QED
    BY <2>11, <2>12, <2>14
<1>. QED
  BY <1>6, <1>7 DEF PreprocessGPU

\* A step of a call that queues nothing for the first stream.
LEMMA StepKeepsShape ==
  ASSUME BackendShape, Recorded, step \in {"acquired", "packed", "staged", "executing"},
         UNCHANGED <<callRest, preStream, event>>, step' \in {"staged", "executing", "copying"},
         DOMAIN tensorIn' = Memory, \A s \in Memory : DOMAIN tensorIn'[s] = Rows,
         DOMAIN tensorOut' = PoolSlots,
         \E S : inferStream' \in Seq(S), \A i \in 1..Len(inferStream') : RunOp(inferStream'[i])
  PROVE  BackendShape' /\ Recorded'
<1>1. UNCHANGED <<engine, call, request, slot, lent, staging, preStream, event>> /\ step' \in Steps
      /\ step' # "idle" /\ step # "idle" /\ step' # "acquired"
  BY DEF callRest, ownRest, Steps
<1>2. BackendShape'
  BY <1>1 DEF BackendShape, PreOp
<1>3. Recorded'
  BY <1>1 DEF Recorded
<1>. QED
  BY <1>2, <1>3

\* The operations a call queues for its run are its own.
LEMMA OurOps ==
  ASSUME BackendShape, NEW s \in Memory, slot \in PoolSlots
  PROVE  /\ OurExecute(execute(s), s) /\ RunOp(execute(s))
         /\ OurWait(wait) /\ RunOp(wait) /\ OurCopy(copyOut) /\ RunOp(copyOut)
<1>1. modelRows \in Nat /\ modelRows >= request.size
  BY RowsSuffice DEF BackendShape
<1>2. /\ execute(s).op = "execute" /\ execute(s).slot = slot /\ execute(s).from = s
      /\ execute(s).rows = modelRows
  BY DEF execute
<1>3. wait.op = "wait" /\ wait.call = call
  BY DEF wait
<1>4. copyOut.op = "copy" /\ copyOut.slot = slot /\ copyOut.call = call
  BY DEF copyOut
<1>5. OurExecute(execute(s), s) /\ RunOp(execute(s))
  BY <1>1, <1>2 DEF OurExecute, RunOp
<1>6. OurWait(wait) /\ RunOp(wait)
  BY <1>3 DEF OurWait, RunOp
<1>7. OurCopy(copyOut) /\ RunOp(copyOut)
  BY <1>4 DEF OurCopy, RunOp
<1>. QED
  BY <1>5, <1>6, <1>7

\* Names of the call in progress keep their meaning while it is.
LEMMA SameCall ==
  ASSUME UNCHANGED <<engine, aipp, call, request, slot>>
  PROVE  /\ \A o, s : OurExecute(o, s)' <=> OurExecute(o, s)
         /\ \A o : (OurWait(o)' <=> OurWait(o)) /\ (OurCopy(o)' <=> OurCopy(o))
         /\ OnGpu' = OnGpu /\ OnCpu' = OnCpu /\ inputPtr' = inputPtr
         /\ UNCHANGED tensorIn => \A s : RowsIn(s)' <=> RowsIn(s)
         /\ UNCHANGED tensorOut => (RowsOut' <=> RowsOut)
         /\ UNCHANGED host => (RowsHost' <=> RowsHost)
         /\ UNCHANGED <<tensorIn, preStream>> => \A r : RowReady(r)' <=> RowReady(r)
  BY DEF OurExecute, OurWait, OurCopy, OnGpu, OnCpu, RowsIn, RowsOut, RowsHost, RowReady, Writes,
         inputPtr, modelRows

\* A run on the device: it waits for the preprocessing, executes and copies.
LEMMA InferGPUKeeps ==
  ASSUME BackendShape, Recorded, Flight, InferGPU
  PROVE  BackendShape' /\ Recorded' /\ Flight'
<1>1. /\ engine = "trt" /\ request.onDevice /\ step = "staged" /\ step' = "copying"
      /\ inferStream' = inferStream \o <<wait, execute(slot), copyOut>>
      /\ UNCHANGED <<callRest, tensorIn, tensorOut, preStream, event, host>>
      /\ slot \in PoolSlots /\ slot \in Memory
  BY DEF InferGPU, BackendShape, Memory
<1>2. PICK S : inferStream \in Seq(S)
  BY DEF BackendShape
<1>. DEFINE t == <<wait, execute(slot), copyOut>>
            n == Len(inferStream)
<1>3. t \in Seq({wait, execute(slot), copyOut}) /\ Len(t) = 3
      /\ t[1] = wait /\ t[2] = execute(slot) /\ t[3] = copyOut
  OBVIOUS
<1>. HIDE DEF t
<1>4. /\ inferStream' \in Seq(S \cup {wait, execute(slot), copyOut}) /\ n \in Nat
      /\ Len(inferStream') = n + 3
      /\ \A i \in 1..n : inferStream'[i] = inferStream[i]
      /\ \A i \in 1..3 : inferStream'[n + i] = t[i]
  BY <1>1, <1>2, <1>3, ConcatFacts DEF t
<1>. HIDE DEF n
<1>5. inferStream'[n + 1] = wait /\ inferStream'[n + 2] = execute(slot) /\ inferStream'[n + 3] = copyOut
  BY <1>3, <1>4
<1>6. \A i \in 1..Len(inferStream') : i \in 1..n \/ i = n + 1 \/ i = n + 2 \/ i = n + 3
  BY <1>4
<1>7. \A i \in 1..Len(inferStream') : RunOp(inferStream'[i])
  BY <1>1, <1>4, <1>5, <1>6, OurOps DEF BackendShape, n
<1>8. BackendShape' /\ Recorded'
  <2>1. \E T : inferStream' \in Seq(T)
    BY <1>4
  <2>2. DOMAIN tensorIn' = Memory /\ (\A s \in Memory : DOMAIN tensorIn'[s] = Rows) /\ DOMAIN tensorOut' = PoolSlots
    BY <1>1 DEF BackendShape
  <2>. QED
    BY <1>1, <1>7, <2>1, <2>2, StepKeepsShape
<1>9. UNCHANGED <<engine, aipp, call, request, slot>>
  BY <1>1 DEF callRest, ownRest
<1>10. Copying'
  <2>1. OurWait(wait) /\ OurExecute(execute(slot), slot) /\ OurCopy(copyOut)
    BY <1>1, OurOps
  <2>2. LET m == Len(inferStream') IN
        /\ m >= 3 /\ OurWait(inferStream'[m - 2]) /\ OurExecute(inferStream'[m - 1], slot)
        /\ OurCopy(inferStream'[m])
    <3>1. Len(inferStream') - 2 = n + 1 /\ Len(inferStream') - 1 = n + 2 /\ Len(inferStream') >= 3
      BY <1>4
    <3>. QED
      BY <1>4, <1>5, <2>1, <3>1
  <2>. QED
    BY <1>1, <1>9, <2>2, SameCall DEF Copying, OnGpu, OurWait, OurExecute, OurCopy
<1>11. \A r \in 1..request.size : RowReady(r)'
  BY <1>1, <1>9, SameCall DEF Flight, OnGpu
<1>12. Flight'
  BY <1>1, <1>9, <1>10, <1>11 DEF Flight, OnGpu, OnCpu
<1>. QED
  BY <1>8, <1>12

\* The CPU path of TensorRT, all of it synchronous.
LEMMA CpuKeeps ==
  ASSUME BackendShape, Recorded, Flight, StageCPU \/ ExecuteV2
  PROVE  BackendShape' /\ Recorded' /\ Flight'
<1>0. /\ engine = "trt" /\ ~request.onDevice /\ preStream = <<>> /\ inferStream = <<>>
      /\ UNCHANGED <<callRest, preStream, inferStream, event>> /\ step \in {"acquired", "staged"}
      /\ step' \in {"staged", "copying"}
  BY DEF StageCPU, ExecuteV2
<1>1. UNCHANGED <<engine, call, request, slot>> /\ slot \in PoolSlots /\ slot \in Memory
  BY <1>0 DEF callRest, ownRest, BackendShape, Memory
<1>2. request.size \in 1..MaxBatch /\ \A r \in 1..request.size : r \in Rows
  BY BackendAssumption DEF BackendShape, Rows
<1>3. CASE StageCPU
  <2>1. /\ step' = "staged" /\ UNCHANGED tensorOut /\ step = "acquired"
        /\ tensorIn' = [tensorIn EXCEPT ![slot] = preprocessCPU(request.size, tensorIn[slot])]
    BY <1>3 DEF StageCPU
  <2>2. /\ DOMAIN preprocessCPU(request.size, tensorIn[slot]) = Rows
        /\ \A r \in 1..request.size : preprocessCPU(request.size, tensorIn[slot])[r] = <<call, r>>
    BY <1>2 DEF preprocessCPU
  <2>3. /\ DOMAIN tensorIn' = Memory /\ \A s \in Memory : DOMAIN tensorIn'[s] = Rows
        /\ tensorIn'[slot] = preprocessCPU(request.size, tensorIn[slot])
    BY <1>1, <2>1, <2>2 DEF BackendShape
  <2>4. BackendShape' /\ Recorded'
    BY <1>0, <2>1, <2>3, StepKeepsShape DEF BackendShape
  <2>5. RowsIn(slot)'
    BY <1>1, <2>2, <2>3 DEF RowsIn
  <2>6. Flight'
    BY <1>0, <1>1, <2>1, <2>5 DEF Flight, OnGpu, OnCpu
  <2>. QED
    BY <2>4, <2>6
<1>4. CASE ExecuteV2
  <2>1. /\ step' = "copying" /\ UNCHANGED tensorIn /\ step = "staged"
        /\ tensorOut' = [tensorOut EXCEPT ![slot] = tensorIn[slot]] /\ host' = tensorOut'[slot]
    BY <1>4 DEF ExecuteV2
  <2>2. DOMAIN tensorOut' = PoolSlots /\ host' = tensorIn[slot]
    BY <1>1, <2>1 DEF BackendShape
  <2>3. BackendShape' /\ Recorded'
    BY <1>0, <2>1, <2>2, StepKeepsShape DEF BackendShape
  <2>4. RowsHost'
    BY <1>0, <1>1, <2>1, <2>2 DEF Flight, OnCpu, RowsIn, RowsHost
  <2>5. Copying'
    BY <1>0, <2>4 DEF Copying
  <2>6. Flight'
    BY <1>0, <1>1, <2>1, <2>5 DEF Flight, OnGpu, OnCpu
  <2>. QED
    BY <2>3, <2>6
<1>. QED
  BY <1>3, <1>4

\* executeV2 finds the input ready: both streams have run dry.
LEMMA InferGPUV2Keeps ==
  ASSUME BackendShape, Recorded, Flight, InferGPUV2
  PROVE  BackendShape' /\ Recorded' /\ Flight'
<1>1. /\ engine = "trt" /\ request.onDevice /\ step = "staged" /\ step' = "copying"
      /\ preStream = <<>> /\ inferStream' = <<copyOut>>
      /\ tensorOut' = [tensorOut EXCEPT ![slot] = tensorIn[slot]]
      /\ UNCHANGED <<callRest, tensorIn, preStream, event>>
      /\ slot \in PoolSlots /\ slot \in Memory
  BY DEF InferGPUV2, BackendShape, Memory
<1>2. UNCHANGED <<engine, aipp, call, request, slot>>
  BY <1>1 DEF callRest, ownRest
<1>3. inferStream' \in Seq({copyOut}) /\ Len(inferStream') = 1 /\ inferStream'[1] = copyOut
  BY <1>1
<1>4. OurCopy(copyOut) /\ RunOp(copyOut)
  BY <1>1, OurOps
<1>5. DOMAIN tensorOut' = PoolSlots /\ tensorOut'[slot] = tensorIn[slot]
  BY <1>1 DEF BackendShape
<1>6. BackendShape' /\ Recorded'
  <2>1. (\E T : inferStream' \in Seq(T)) /\ \A i \in 1..Len(inferStream') : RunOp(inferStream'[i])
    BY <1>3, <1>4
  <2>2. DOMAIN tensorIn' = Memory /\ \A s \in Memory : DOMAIN tensorIn'[s] = Rows
    BY <1>1 DEF BackendShape
  <2>. QED
    BY <1>1, <1>5, <2>1, <2>2, StepKeepsShape
<1>7. \A r \in 1..request.size : RowReady(r)
  BY <1>1 DEF Flight, OnGpu
<1>8. RowsOut' /\ OurCopy(inferStream[1])'
  <2>1. \A r \in 1..request.size : tensorIn[slot][r] = <<call, r>>
    BY <1>1, <1>7 DEF RowReady
  <2>. QED
    BY <1>2, <1>3, <1>4, <1>5, <2>1 DEF RowsOut, OurCopy
<1>9. Copying'
  BY <1>3, <1>8 DEF Copying
<1>10. \A r \in 1..request.size : RowReady(r)'
  BY <1>1, <1>2, <1>7, SameCall
<1>11. Flight'
  BY <1>1, <1>2, <1>9, <1>10 DEF Flight, OnGpu, OnCpu
<1>. QED
  BY <1>6, <1>11

\* host_input holds the pictures, if there were any.
LEMMA PackKeeps ==
  ASSUME BackendShape, Recorded, PackAscend
  PROVE  BackendShape' /\ Recorded' /\ Flight'
<1>1. /\ engine = "ascend" /\ step = "acquired" /\ step' = "packed" /\ inputPtr = slot
      /\ staging' = IF request.onDevice THEN Blank ELSE padded(request.size)
      /\ request' = [request EXCEPT !.intact = ~request.onDevice]
      /\ UNCHANGED <<engine, aipp, call, slot, lent, tensorIn, tensorOut, preStream, inferStream, event>>
  BY DEF PackAscend, ownRest, deviceVars
<1>2. /\ request'.size = request.size /\ request'.onDevice = request.onDevice
      /\ (request'.intact => ~request.onDevice)
      /\ request' \in [size : 1..MaxBatch, onDevice : BOOLEAN, intact : BOOLEAN]
  BY <1>1 DEF BackendShape
<1>3. DOMAIN staging' = Rows /\ (~request.onDevice => \A r \in 1..request.size : staging'[r] = <<call, r>>)
  <2>1. \A r \in 1..request.size : r \in Rows
    BY BackendAssumption DEF BackendShape, Rows
  <2>. QED
    BY <1>1, <2>1 DEF padded, preprocessCPU, Blank
<1>4. BackendShape' /\ Recorded'
  <2>1. step' \in Steps /\ step' # "idle" /\ step # "idle"
    BY <1>1 DEF Steps
  <2>2. BackendShape'
    BY <1>1, <1>2, <1>3, <2>1 DEF BackendShape, PreOp, RunOp
  <2>3. Recorded'
    BY <1>1, <2>1 DEF Recorded
  <2>. QED
    BY <2>2, <2>3
<1>5. (inputPtr = slot)'
  BY <1>1, <1>2 DEF inputPtr, modelRows
<1>6. RowsPacked'
  BY <1>1, <1>2, <1>3 DEF RowsPacked
<1>7. Flight'
  BY <1>1, <1>5, <1>6 DEF Flight, OnGpu, OnCpu
<1>. QED
  BY <1>4, <1>7

\* AscendBackend: one stream, and the call waits for it between its steps.
LEMMA AscendKeeps ==
  ASSUME BackendShape, Recorded, Flight, StageAscend \/ UploadAscend \/ ExecuteAscend \/ CopyAscend
  PROVE  BackendShape' /\ Recorded' /\ Flight'
<1>0. /\ engine = "ascend" /\ UNCHANGED <<callRest, preStream, event, tensorOut, host>>
      /\ step \in {"acquired", "packed", "staged", "executing"}
      /\ step' \in {"staged", "executing", "copying"}
  BY DEF StageAscend, UploadAscend, ExecuteAscend, CopyAscend, Flight
<1>1. UNCHANGED <<engine, aipp, call, request, slot>> /\ slot \in PoolSlots /\ slot \in Memory /\ inputPtr \in Memory
  BY <1>0 DEF callRest, ownRest, BackendShape, Memory, inputPtr
<1>2. request.size \in 1..MaxBatch /\ \A r \in 1..request.size : r \in Rows
  BY BackendAssumption DEF BackendShape, Rows
<1>3. ~OnGpu' /\ ~OnCpu'
  BY <1>0, <1>1 DEF OnGpu, OnCpu
<1>4. CASE StageAscend
  <2>1. /\ step' = "staged" /\ UNCHANGED inferStream
        /\ tensorIn' = [tensorIn EXCEPT ![inputPtr] = padded(request.size)]
    BY <1>4 DEF StageAscend
  <2>2. /\ DOMAIN padded(request.size) = Rows
        /\ \A r \in 1..request.size : padded(request.size)[r] = <<call, r>>
    BY <1>2 DEF padded, preprocessCPU
  <2>3. /\ DOMAIN tensorIn' = Memory /\ \A s \in Memory : DOMAIN tensorIn'[s] = Rows
        /\ tensorIn'[inputPtr] = padded(request.size)
    BY <1>1, <2>1, <2>2 DEF BackendShape
  <2>4. BackendShape' /\ Recorded'
    <3>1. /\ \E S : inferStream' \in Seq(S)
          /\ \A i \in 1..Len(inferStream') : RunOp(inferStream'[i])
          /\ DOMAIN tensorOut' = PoolSlots
      BY <1>0, <2>1 DEF BackendShape
    <3>. QED
      BY <1>0, <2>3, <3>1, StepKeepsShape
  <2>5. inputPtr' = inputPtr
    BY <1>1, SameCall
  <2>6. RowsIn(inputPtr)'
    BY <1>1, <2>2, <2>3, <2>5 DEF RowsIn
  <2>7. Flight'
    BY <1>3, <2>1, <2>6 DEF Flight
  <2>. QED
    BY <2>4, <2>7
<1>7. CASE UploadAscend
  <2>1. /\ step = "packed" /\ step' = "staged" /\ UNCHANGED inferStream
        /\ tensorIn' = [tensorIn EXCEPT ![slot] = staging]
    BY <1>7 DEF UploadAscend
  <2>2. inputPtr = slot /\ RowsPacked /\ DOMAIN staging = Rows
    BY <2>1 DEF Flight, BackendShape
  <2>3. /\ DOMAIN tensorIn' = Memory /\ \A s \in Memory : DOMAIN tensorIn'[s] = Rows
        /\ tensorIn'[slot] = staging
    BY <1>1, <2>1, <2>2 DEF BackendShape
  <2>4. BackendShape' /\ Recorded'
    <3>1. /\ \E S : inferStream' \in Seq(S)
          /\ \A i \in 1..Len(inferStream') : RunOp(inferStream'[i])
          /\ DOMAIN tensorOut' = PoolSlots
      BY <1>0, <2>1 DEF BackendShape
    <3>. QED
      BY <1>0, <2>3, <3>1, StepKeepsShape
  <2>5. inputPtr' = slot
    BY <1>1, <2>2, SameCall
  <2>6. RowsIn(inputPtr)'
    BY <1>1, <2>2, <2>3, <2>5 DEF RowsIn, RowsPacked
  <2>7. Flight'
    BY <1>3, <2>1, <2>6 DEF Flight
  <2>. QED
    BY <2>4, <2>7
<1>5. CASE ExecuteAscend
  <2>1. /\ step = "staged" /\ step' = "executing" /\ UNCHANGED tensorIn
        /\ inferStream' = Append(inferStream, execute(inputPtr))
    BY <1>5 DEF ExecuteAscend
  <2>2. PICK S : inferStream \in Seq(S)
    BY DEF BackendShape
  <2>. DEFINE e == execute(inputPtr)
  <2>3. OurExecute(e, inputPtr) /\ RunOp(e) /\ RowsIn(inputPtr)
    BY <1>0, <1>1, <2>1, OurOps DEF Flight
  <2>. HIDE DEF e
  <2>4. /\ inferStream \in Seq(S \cup {e})
    BY <2>2
  <2>5. /\ inferStream' \in Seq(S \cup {e}) /\ Len(inferStream) \in Nat
        /\ Len(inferStream') = Len(inferStream) + 1
        /\ \A i \in 1..Len(inferStream) : inferStream'[i] = inferStream[i]
        /\ inferStream'[Len(inferStream')] = e /\ inferStream' # <<>>
    BY <2>1, <2>4 DEF e
  <2>6. \A i \in 1..Len(inferStream') : RunOp(inferStream'[i])
    <3>1. \A i \in 1..Len(inferStream') : i \in 1..Len(inferStream) \/ i = Len(inferStream')
      BY <2>5
    <3>. QED
      BY <2>3, <2>5, <3>1 DEF BackendShape
  <2>7. BackendShape' /\ Recorded'
    <3>1. \E T : inferStream' \in Seq(T)
      BY <2>5
    <3>2. DOMAIN tensorIn' = Memory /\ (\A s \in Memory : DOMAIN tensorIn'[s] = Rows) /\ DOMAIN tensorOut' = PoolSlots
      BY <1>0, <2>1 DEF BackendShape
    <3>. QED
      BY <1>0, <2>6, <3>1, <3>2, StepKeepsShape
  <2>8. PICK s : s = inputPtr
    OBVIOUS
  <2>9. OurExecute(inferStream'[Len(inferStream')], s) /\ RowsIn(s) /\ s \in Memory
    BY <1>1, <2>3, <2>5, <2>8
  <2>10. OurExecute(inferStream[Len(inferStream)], s)' /\ RowsIn(s)'
    BY <1>1, <2>1, <2>9 DEF OurExecute, RowsIn
  <2>11. Executing'
    BY <1>0, <1>1, <2>5, <2>9, <2>10 DEF Executing
  <2>12. Flight'
    BY <1>3, <2>1, <2>11 DEF Flight
  <2>. QED
    BY <2>7, <2>12
<1>6. CASE CopyAscend
  <2>1. /\ step = "executing" /\ step' = "copying" /\ UNCHANGED tensorIn /\ inferStream = <<>>
        /\ inferStream' = <<copyOut>>
    BY <1>6 DEF CopyAscend
  <2>2. OurCopy(copyOut) /\ RunOp(copyOut)
    BY <1>1, OurOps
  <2>3. inferStream' \in Seq({copyOut}) /\ Len(inferStream') = 1 /\ inferStream'[1] = copyOut
    BY <2>1
  <2>4. BackendShape' /\ Recorded'
    <3>1. (\E T : inferStream' \in Seq(T)) /\ \A i \in 1..Len(inferStream') : RunOp(inferStream'[i])
      BY <2>2, <2>3
    <3>2. DOMAIN tensorIn' = Memory /\ (\A s \in Memory : DOMAIN tensorIn'[s] = Rows) /\ DOMAIN tensorOut' = PoolSlots
      BY <1>0, <2>1 DEF BackendShape
    <3>. QED
      BY <1>0, <3>1, <3>2, StepKeepsShape
  <2>5. RowsOut
    BY <2>1 DEF Flight, Executing
  <2>6. RowsOut' /\ OurCopy(inferStream[1])'
    BY <1>0, <1>1, <2>2, <2>3, <2>5 DEF RowsOut, OurCopy
  <2>7. Copying'
    BY <2>3, <2>6 DEF Copying
  <2>8. Flight'
    BY <1>3, <2>1, <2>7 DEF Flight
  <2>. QED
    BY <2>4, <2>8
<1>. QED
  BY <1>4, <1>5, <1>6, <1>7

\* The device runs the next kernel, or reaches the event.
LEMMA PreprocessKeeps ==
  ASSUME BackendShape, Recorded, Flight, Preprocess
  PROVE  BackendShape' /\ Recorded' /\ Flight'
<1>1. /\ preStream # <<>> /\ preStream' = Tail(preStream)
      /\ UNCHANGED <<deviceRest, tensorOut, inferStream, host>>
  BY DEF Preprocess
<1>2. UNCHANGED <<engine, aipp, call, request, step, slot, lent, staging, tensorOut, inferStream, host>>
  BY <1>1 DEF deviceRest, ownDevRest
<1>. DEFINE n == Len(preStream)
<1>3. PICK S : preStream \in Seq(S)
  BY DEF BackendShape
<1>4. /\ n \in Nat \ {0} /\ Head(preStream) = preStream[1]
      /\ preStream' \in Seq(S) /\ Len(preStream') = n - 1
      /\ \A i \in 1..(n - 1) : preStream'[i] = preStream[i + 1]
  BY <1>1, <1>3, TailFacts
<1>5. PICK o : o = preStream[1]
  OBVIOUS
<1>6. \/ o.op = "record" /\ event' = o.call /\ UNCHANGED tensorIn /\ o.call \in Nat
      \/ /\ o.op = "preprocess" /\ UNCHANGED event /\ o.slot \in PoolSlots /\ o.row \in Rows
         /\ tensorIn' = [tensorIn EXCEPT ![o.slot][o.row] = o.value]
  <2>1. PreOp(o) /\ o = Head(preStream)
    BY <1>4, <1>5 DEF BackendShape
  <2>. QED
    BY <2>1 DEF Preprocess, PreOp
<1>7. \A i \in 1..Len(preStream') : i \in 1..(n - 1) /\ i + 1 \in 1..n /\ preStream'[i] = preStream[i + 1]
  BY <1>4
<1>8. DOMAIN tensorIn' = Memory /\ \A s \in Memory : DOMAIN tensorIn'[s] = Rows
  BY <1>6 DEF BackendShape, Memory
<1>9. engine = "trt"
  BY <1>1 DEF BackendShape
<1>. HIDE DEF n
<1>10. BackendShape'
  <2>1. event' \in Nat
    BY <1>6 DEF BackendShape
  <2>2. \E T : preStream' \in Seq(T)
    BY <1>4
  <2>3. \A i \in 1..Len(preStream') : PreOp(preStream'[i])
    BY <1>7 DEF BackendShape, n
  <2>. QED
    BY <1>2, <1>8, <1>9, <2>1, <2>2, <2>3 DEF BackendShape, RunOp
<1>11. Recorded'
  <2>1. 1 \in 1..n
    BY <1>4
  <2>2. event' <= call
    BY <1>5, <1>6, <2>1 DEF Recorded, n
  <2>3. \A i \in 1..Len(preStream') : preStream'[i].op = "record" => preStream'[i].call <= call
    BY <1>7 DEF Recorded, n
  <2>4. ASSUME step # "idle", NEW i \in 1..Len(preStream'), preStream'[i].op = "record", preStream'[i].call = call
        PROVE  i = Len(preStream') /\ step # "acquired"
    <3>1. i + 1 = n /\ step # "acquired"
      BY <1>7, <2>4 DEF Recorded, n
    <3>. QED
      BY <1>4, <3>1
  <2>5. step = "acquired" => event' < call
    <3>1. ASSUME step = "acquired", o.op = "record", event' = o.call, o.call \in Nat PROVE event' < call
      <4>1. o.call # call /\ o.call <= call /\ call \in Nat
        BY <1>5, <2>1, <3>1 DEF Recorded, n, BackendShape
      <4>. QED
        BY <3>1, <4>1
    <3>2. ASSUME step = "acquired", UNCHANGED event PROVE event' < call
      BY <3>2 DEF Recorded
    <3>. QED
      BY <1>6, <3>1, <3>2
  <2>6. ASSUME step # "idle", event' = call PROVE preStream' = <<>>
    <3>1. event # call
      BY <1>1, <2>6 DEF Recorded
    <3>2. o.op = "record" /\ o.call = call
      BY <1>6, <2>6, <3>1
    <3>3. n = 1
      BY <1>5, <2>1, <2>6, <3>2 DEF Recorded, n
    <3>. QED
      BY <1>4, <3>3
  <2>. QED
    BY <1>2, <2>2, <2>3, <2>4, <2>5, <2>6 DEF Recorded
<1>12. ASSUME NEW r \in 1..request.size, RowReady(r), slot \in PoolSlots PROVE RowReady(r)'
  <2>0. r \in Rows
    BY BackendAssumption DEF BackendShape, Rows
  <2>1. ~Writes(o, r) => tensorIn'[slot][r] = tensorIn[slot][r]
    <3>1. CASE UNCHANGED tensorIn
      BY <3>1
    <3>2. CASE o.op = "preprocess" /\ o.slot \in PoolSlots /\ o.row \in Rows
               /\ tensorIn' = [tensorIn EXCEPT ![o.slot][o.row] = o.value]
      BY <1>12, <2>0, <3>2 DEF Writes, BackendShape, Memory
    <3>. QED
      BY <1>6, <3>1, <3>2
  <2>2. Writes(o, r) => tensorIn'[slot][r] = o.value
    BY <1>6, <1>12, <2>0 DEF Writes, BackendShape, Memory
  <2>3. \A p : Writes(p, r)' <=> Writes(p, r)
    BY <1>2 DEF Writes
  <2>4. ASSUME NEW i \in 1..n, Writes(preStream[i], r), preStream[i].value = <<call, r>>,
               \A j \in 1..n : j > i => ~Writes(preStream[j], r)
        PROVE  RowReady(r)'
    <3>1. CASE i = 1
      <4>1. tensorIn'[slot][r] = <<call, r>>
        BY <1>5, <2>2, <2>4, <3>1
      <4>2. \A j \in 1..Len(preStream') : ~Writes(preStream'[j], r)
        BY <1>4, <1>7, <2>4, <3>1
      <4>. QED
        BY <1>2, <4>1, <4>2 DEF RowReady, Writes
    <3>2. CASE i > 1
      <4>. DEFINE k == i - 1
      <4>1. k \in 1..Len(preStream') /\ preStream'[k] = preStream[i]
        BY <1>4, <3>2
      <4>2. ASSUME NEW j \in 1..Len(preStream'), j > k PROVE ~Writes(preStream'[j], r)
        <5>1. j + 1 \in 1..n /\ j + 1 > i /\ preStream'[j] = preStream[j + 1]
          BY <1>4, <1>7, <3>2, <4>2
        <5>. QED
          BY <2>4, <5>1
      <4>. HIDE DEF k
      <4>. QED
        BY <1>2, <2>4, <4>1, <4>2 DEF RowReady, Writes
    <3>. QED
      BY <1>4, <3>1, <3>2
  <2>5. ASSUME tensorIn[slot][r] = <<call, r>>, \A j \in 1..n : ~Writes(preStream[j], r)
        PROVE  RowReady(r)'
    <3>1. tensorIn'[slot][r] = <<call, r>>
      BY <1>4, <1>5, <2>1, <2>5
    <3>2. \A j \in 1..Len(preStream') : ~Writes(preStream'[j], r)
      BY <1>7, <2>5
    <3>. QED
      BY <1>2, <3>1, <3>2 DEF RowReady, Writes
  <2>. QED
    BY <1>12, <2>4, <2>5 DEF RowReady, n
<1>13. Flight'
  <2>1. ~OnCpu \/ step \notin {"staged", "copying"}
    BY <1>1 DEF Flight
  <2>2. step \notin {"executing", "packed"} /\ (step = "copying" => Copying)
    BY <1>9 DEF Flight, Executing
  <2>3. OnGpu /\ step \in {"staged", "copying"} => \A r \in 1..request.size : RowReady(r)'
    BY <1>12 DEF Flight, BackendShape
  <2>4. ASSUME step = "copying", Copying PROVE Copying'
    <3>1. event # call
      BY <1>1, <2>4 DEF Recorded
    <3>2. (RowsOut' <=> RowsOut) /\ (RowsHost' <=> RowsHost)
      BY <1>2 DEF RowsOut, RowsHost
    <3>3. OnGpu' = OnGpu
      BY <1>2 DEF OnGpu
    <3>. QED
      BY <1>2, <2>4, <3>1, <3>2, <3>3 DEF Copying, OurWait, OurExecute, OurCopy
  <2>5. OnGpu' = OnGpu /\ OnCpu' = OnCpu
    BY <1>2 DEF OnGpu, OnCpu
  <2>. QED
    BY <1>2, <1>9, <2>1, <2>2, <2>3, <2>4, <2>5 DEF Flight
<1>. QED
  BY <1>10, <1>11, <1>13

\* A copy of a call that is over comes down on host_input: it is not intact.
LEMMA LateCopyKeeps ==
  ASSUME BackendShape, Recorded, Flight, Run, ~UNCHANGED <<request, staging>>
  PROVE  BackendShape' /\ Recorded' /\ Flight'
<1>1. PICK o : /\ o.call # call /\ step = "packed"
               /\ staging' = [r \in Rows |-> <<o.call, 0>>]
               /\ request' = [request EXCEPT !.intact = FALSE]
               /\ UNCHANGED tensorOut
  BY DEF Run, Lands
<1>2. /\ inferStream # <<>> /\ inferStream' = Tail(inferStream)
      /\ UNCHANGED <<engine, aipp, call, step, slot, lent, tensorIn, preStream, event>>
  BY DEF Run, ownDevRest
<1>3. DOMAIN staging' = Rows /\ request'.size = request.size /\ request'.onDevice = request.onDevice
      /\ ~request'.intact
      /\ request' \in [size : 1..MaxBatch, onDevice : BOOLEAN, intact : BOOLEAN]
  BY <1>1 DEF BackendShape
<1>4. PICK S : inferStream \in Seq(S)
  BY DEF BackendShape
<1>5. /\ Len(inferStream) \in Nat \ {0} /\ inferStream' \in Seq(S)
      /\ Len(inferStream') = Len(inferStream) - 1
      /\ \A i \in 1..(Len(inferStream) - 1) : inferStream'[i] = inferStream[i + 1]
  BY <1>2, <1>4, TailFacts
<1>6. \A i \in 1..Len(inferStream') : RunOp(inferStream'[i])
  <2>1. \A i \in 1..Len(inferStream') : i + 1 \in 1..Len(inferStream) /\ inferStream'[i] = inferStream[i + 1]
    BY <1>5
  <2>. QED
    BY <2>1 DEF BackendShape
<1>7. BackendShape'
  <2>1. \E T : inferStream' \in Seq(T)
    BY <1>5
  <2>. QED
    BY <1>1, <1>2, <1>3, <1>6, <2>1 DEF BackendShape, PreOp
<1>8. Recorded'
  BY <1>2 DEF Recorded
<1>9. engine = "ascend" /\ inputPtr = slot
  BY <1>1 DEF Flight
<1>10. (inputPtr = slot)'
  BY <1>2, <1>3, <1>9 DEF inputPtr, modelRows
<1>11. RowsPacked'
  BY <1>3 DEF RowsPacked
<1>12. Flight'
  BY <1>1, <1>2, <1>9, <1>10, <1>11 DEF Flight, OnGpu, OnCpu
<1>. QED
  BY <1>7, <1>8, <1>12

\* The device runs the next operation of the second stream.
LEMMA RunKeeps ==
  ASSUME BackendShape, Recorded, Flight, Run, UNCHANGED <<request, staging>>
  PROVE  BackendShape' /\ Recorded' /\ Flight'
<1>1. /\ inferStream # <<>> /\ inferStream' = Tail(inferStream)
      /\ UNCHANGED <<ownDevRest, tensorIn, preStream, event>>
  BY DEF Run
<1>2. UNCHANGED <<engine, aipp, call, request, step, slot, lent, staging, tensorIn, preStream, event>>
  BY <1>1 DEF ownDevRest
<1>. DEFINE n == Len(inferStream)
<1>3. PICK S : inferStream \in Seq(S)
  BY DEF BackendShape
<1>4. /\ n \in Nat \ {0} /\ Head(inferStream) = inferStream[1]
      /\ inferStream' \in Seq(S) /\ Len(inferStream') = n - 1
      /\ \A i \in 1..(n - 1) : inferStream'[i] = inferStream[i + 1]
  BY <1>1, <1>3, TailFacts
<1>5. PICK o : o = inferStream[1]
  OBVIOUS
<1>6. \/ o.op = "wait" /\ event >= o.call /\ UNCHANGED <<tensorOut, host>>
      \/ /\ o.op = "execute" /\ UNCHANGED host
         /\ tensorOut' = [tensorOut EXCEPT ![o.slot] =
               [r \in Rows |-> IF r <= o.rows THEN tensorIn[o.from][r] ELSE tensorOut[o.slot][r]]]
      \/ /\ o.op = "copy" /\ UNCHANGED tensorOut
         /\ o.call = call /\ step # "idle" => host' = tensorOut[o.slot]
  <2>1. o = Head(inferStream)
    BY <1>4, <1>5
  <2>. QED
    BY <2>1 DEF Run, Lands
<1>. HIDE DEF n
<1>7. \A i \in 1..Len(inferStream') : i + 1 \in 1..n /\ inferStream'[i] = inferStream[i + 1]
  BY <1>4
<1>8. BackendShape'
  <2>1. DOMAIN tensorOut' = PoolSlots
    BY <1>6 DEF BackendShape
  <2>2. \E T : inferStream' \in Seq(T)
    BY <1>4
  <2>3. \A i \in 1..Len(inferStream') : RunOp(inferStream'[i])
    BY <1>7 DEF BackendShape, n
  <2>. QED
    BY <1>2, <2>1, <2>2, <2>3 DEF BackendShape, PreOp
<1>9. Recorded'
  BY <1>2 DEF Recorded
<1>10. \A r \in 1..request.size : r \in Rows
  BY BackendAssumption DEF BackendShape, Rows
<1>11. ASSUME step # "idle", NEW s \in Memory, OurExecute(o, s), RowsIn(s) PROVE RowsOut'
  <2>1. slot \in PoolSlots /\ slot \in DOMAIN tensorOut
    BY <1>11 DEF BackendShape
  <2>2. o.op = "execute" /\ o.slot = slot /\ o.from = s /\ o.rows \in Nat /\ o.rows >= request.size
    BY <1>11 DEF OurExecute
  <2>3. tensorOut'[slot] = [r \in Rows |-> IF r <= o.rows THEN tensorIn[s][r] ELSE tensorOut[slot][r]]
    BY <1>6, <2>1, <2>2
  <2>4. \A r \in 1..request.size : r <= o.rows
    BY <2>2 DEF BackendShape
  <2>5. request.intact => \A r \in 1..request.size : tensorOut'[slot][r] = <<call, r>>
    BY <1>10, <1>11, <2>3, <2>4 DEF RowsIn
  <2>. QED
    BY <1>2, <2>5 DEF RowsOut
<1>12. /\ \A p, s : OurExecute(p, s)' <=> OurExecute(p, s)
       /\ \A p : (OurWait(p)' <=> OurWait(p)) /\ (OurCopy(p)' <=> OurCopy(p))
       /\ OnGpu' = OnGpu /\ OnCpu' = OnCpu /\ inputPtr' = inputPtr
       /\ \A s : RowsIn(s)' <=> RowsIn(s)
       /\ \A r : RowReady(r)' <=> RowReady(r)
  BY <1>2, SameCall
<1>13. ASSUME step = "executing", Executing PROVE Executing'
  <2>1. PICK s \in Memory : OurExecute(inferStream[n], s) /\ RowsIn(s)
    BY <1>1, <1>13 DEF Executing, n
  <2>2. CASE n = 1
    <3>1. RowsOut'
      BY <1>5, <1>11, <1>13, <2>1, <2>2
    <3>2. inferStream' = <<>>
      BY <1>4, <2>2
    <3>. QED
      BY <1>2, <1>13, <3>1, <3>2 DEF Executing
  <2>3. CASE n > 1
    <3>1. /\ inferStream' # <<>> /\ inferStream'[Len(inferStream')] = inferStream[n]
      BY <1>4, <2>3
    <3>2. OurExecute(inferStream[Len(inferStream)], s)' /\ RowsIn(s)'
      BY <1>2, <1>12, <2>1, <3>1 DEF OurExecute
    <3>. QED
      BY <1>2, <1>13, <3>1, <3>2 DEF Executing
  <2>. QED
    BY <1>4, <2>2, <2>3
<1>14. ASSUME step = "copying", Copying PROVE Copying'
  <2>0. slot \in PoolSlots /\ slot \in Memory
    BY <1>14 DEF BackendShape, Memory
  <2>1. CASE OnGpu /\ n > 3 /\ OurWait(inferStream[n - 2]) /\ OurExecute(inferStream[n - 1], slot)
             /\ OurCopy(inferStream[n])
    <3>1. /\ Len(inferStream') >= 3 /\ inferStream'[Len(inferStream') - 2] = inferStream[n - 2]
          /\ inferStream'[Len(inferStream') - 1] = inferStream[n - 1]
          /\ inferStream'[Len(inferStream')] = inferStream[n]
      BY <1>4, <2>1
    <3>. QED
      BY <1>2, <1>12, <2>1, <3>1 DEF Copying, OurWait, OurExecute, OurCopy
  <2>2. CASE OnGpu /\ n = 3 /\ OurWait(inferStream[1]) /\ OurExecute(inferStream[2], slot)
             /\ OurCopy(inferStream[3])
    <3>1. event = call
      <4>1. event >= call
        BY <1>5, <1>6, <2>2 DEF OurWait
      <4>. QED
        BY <4>1 DEF Recorded, BackendShape
    <3>2. Len(inferStream') = 2 /\ inferStream'[1] = inferStream[2] /\ inferStream'[2] = inferStream[3]
      BY <1>4, <2>2
    <3>. QED
      BY <1>2, <1>12, <2>2, <3>1, <3>2 DEF Copying, OurExecute, OurCopy
  <2>3. CASE OnGpu /\ n = 2 /\ OurExecute(inferStream[1], slot) /\ OurCopy(inferStream[2]) /\ event = call
    <3>1. preStream = <<>>
      BY <1>14, <2>3 DEF Recorded
    <3>2. RowsIn(slot)
      BY <1>14, <2>3, <3>1 DEF Flight, RowReady, RowsIn
    <3>3. RowsOut'
      BY <1>5, <1>11, <1>14, <2>0, <2>3, <3>2
    <3>4. Len(inferStream') = 1 /\ inferStream'[1] = inferStream[2]
      BY <1>4, <2>3
    <3>. QED
      BY <1>2, <1>12, <2>3, <3>3, <3>4 DEF Copying, OurCopy
  <2>4. CASE n = 1 /\ OurCopy(inferStream[1]) /\ RowsOut
    <3>1. host' = tensorOut[slot] /\ inferStream' = <<>>
      BY <1>4, <1>5, <1>6, <1>14, <2>4 DEF OurCopy
    <3>2. RowsHost'
      BY <1>2, <2>4, <3>1 DEF RowsOut, RowsHost
    <3>. QED
      BY <3>1, <3>2 DEF Copying
  <2>5. \/ OnGpu /\ n >= 3 /\ OurWait(inferStream[n - 2]) /\ OurExecute(inferStream[n - 1], slot)
           /\ OurCopy(inferStream[n])
        \/ OnGpu /\ n = 2 /\ OurExecute(inferStream[1], slot) /\ OurCopy(inferStream[2]) /\ event = call
        \/ n = 1 /\ OurCopy(inferStream[1]) /\ RowsOut
    BY <1>1, <1>14 DEF Copying, n
  <2>6. n >= 3 => n > 3 \/ (n = 3 /\ n - 2 = 1 /\ n - 1 = 2)
    BY <1>4
  <2>. QED
    BY <2>1, <2>2, <2>3, <2>4, <2>5, <2>6
<1>15. Flight'
  <2>1. ~(OnCpu /\ step \in {"staged", "copying"})
    BY <1>1 DEF Flight
  <2>2. engine = "ascend" /\ step = "staged" => RowsIn(inputPtr)'
    BY <1>2, <1>12 DEF Flight, RowsIn
  <2>3. step = "packed" => engine = "ascend" /\ (inputPtr = slot)' /\ RowsPacked'
    BY <1>2, <1>12 DEF Flight, RowsPacked
  <2>. QED
    BY <1>2, <1>12, <1>13, <1>14, <2>1, <2>2, <2>3 DEF Flight
<1>. QED
  BY <1>8, <1>9, <1>15

\* For any pool, any compiled batch sizes and any number of calls and loads:
\* what infer() hands back is the inference of its own pictures, whatever
\* earlier calls left on the device, unless a copy left behind came down on
\* host_input or the batch had no pictures for it; and every way out gives the
\* slot back (TRTBackend.cpp and AscendBackend.cpp, infer; SlotGuard).
THEOREM CallsStayIsolated == BackendSafety => []CallsIsolated
<1>1. BackendInv /\ [BackendNext]_backendVars => BackendInv'
  <2>. SUFFICES ASSUME BackendInv, [BackendNext]_backendVars PROVE BackendInv'
    OBVIOUS
  <2>. USE DEF BackendInv
  <2>1. CASE UNCHANGED backendVars
    <3>1. UNCHANGED <<engine, aipp, call, request, step, slot, lent, staging, tensorIn, tensorOut, preStream,
                      inferStream, event, host, answer>>
      BY <2>1 DEF backendVars, callVarsB, deviceVars
    <3>2. BackendShape' /\ Recorded' /\ Answered'
      BY <3>1 DEF BackendShape, Recorded, Answered, PreOp, RunOp
    <3>3. (Executing' <=> Executing) /\ (Copying' <=> Copying)
      BY <3>1 DEF Executing, Copying, OurWait, OurExecute, OurCopy, OnGpu, RowsIn, RowsOut, RowsHost
    <3>4. Flight'
      BY <3>1, <3>3, SameCall DEF Flight, RowsIn, RowsPacked
    <3>. QED
      BY <3>2, <3>4
  <2>2. CASE loadModel \/ loadModelThrows \/ unloadModel
    <3>1. step = "idle" /\ UNCHANGED answer
      BY <2>2 DEF loadModel, loadModelThrows, unloadModel
    <3>. QED
      BY <2>2, <3>1, IdleKeeps DEF Answered
  <2>3. CASE InferOnnx
    <3>1. step = "idle" /\ answer' = [call |-> call', size |-> 1, rows |-> <<<<call', 1>>>>, intact |-> TRUE]
      BY <2>3 DEF InferOnnx
    <3>2. \A c : <<<<c, 1>>>> = [r \in 1..1 |-> <<c, r>>]
      OBVIOUS
    <3>3. Answered'
      BY <3>1, <3>2 DEF Answered
    <3>. QED
      BY <2>3, <3>1, <3>3, IdleKeeps
  <2>4. ASSUME NEW size \in 1..MaxBatch, NEW onDevice \in BOOLEAN, Infer(size, onDevice) PROVE BackendInv'
    <3>1. UNCHANGED answer
      BY <2>4 DEF Infer
    <3>. QED
      BY <2>4, <3>1, InferKeeps DEF Answered
  <2>5. CASE PreprocessGPU
    <3>1. UNCHANGED answer
      BY <2>5 DEF PreprocessGPU, callRest, ownRest
    <3>. QED
      BY <2>5, <3>1, PreprocessGPUKeeps DEF Answered
  <2>6. CASE InferGPU \/ InferGPUV2 \/ StageCPU \/ ExecuteV2 \/ StageAscend \/ PackAscend \/ UploadAscend
           \/ ExecuteAscend \/ CopyAscend
    <3>1. UNCHANGED answer
      BY <2>6 DEF InferGPU, InferGPUV2, StageCPU, ExecuteV2, StageAscend, PackAscend, UploadAscend, ExecuteAscend,
                  CopyAscend, callRest, ownRest
    <3>. QED
      BY <2>6, <3>1, InferGPUKeeps, InferGPUV2Keeps, CpuKeeps, AscendKeeps, PackKeeps DEF Answered
  <2>7. CASE Preprocess \/ Run
    <3>1. UNCHANGED answer
      BY <2>7 DEF Preprocess, Run, deviceRest, ownDevRest
    <3>. QED
      BY <2>7, <3>1, PreprocessKeeps, RunKeeps, LateCopyKeeps DEF Answered
  <2>8. ASSUME step # "idle", CallOver, UNCHANGED <<tensorOut, preStream, inferStream, event>>
        PROVE  BackendShape' /\ Recorded' /\ Flight'
    BY <2>8, CallOverKeeps DEF BackendShape, Recorded
  <2>9. CASE Throw \/ checkInferTimeout
    <3>1. UNCHANGED answer /\ step # "idle" /\ CallOver /\ UNCHANGED <<tensorOut, preStream, inferStream, event>>
      BY <2>9 DEF Throw, checkInferTimeout
    <3>. QED
      BY <2>8, <3>1 DEF Answered
  <2>10. CASE Answer
    <3>1. /\ step = "copying" /\ inferStream = <<>> /\ CallOver
          /\ UNCHANGED <<tensorOut, preStream, inferStream, event>>
          /\ answer' = [call |-> call, size |-> request.size, rows |-> [r \in 1..request.size |-> host[r]],
                        intact |-> request.intact]
      BY <2>10 DEF Answer
    <3>2. RowsHost
      BY <3>1 DEF Flight, Copying
    <3>3. request.intact => [r \in 1..request.size |-> host[r]] = [r \in 1..request.size |-> <<call, r>>]
      BY <3>2 DEF RowsHost
    <3>4. Answered'
      BY <3>1, <3>3 DEF Answered
    <3>. QED
      BY <2>8, <3>1, <3>4
  <2>. QED
    BY <2>1, <2>2, <2>3, <2>4, <2>5, <2>6, <2>7, <2>9, <2>10 DEF BackendNext
<1>2. BackendInv => CallsIsolated
  BY DEF BackendInv, BackendShape, Answered, CallsIsolated
<1>. QED
  BY <1>1, <1>2, InitBackend, PTL DEF BackendSafety
=============================================================================
