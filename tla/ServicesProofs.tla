---------------------------- MODULE ServicesProofs ----------------------------
(***************************************************************************)
(* What is proved of the parts between a source and the network, and of    *)
(* the process around them: the cascade, the slicing stages, the frame     *)
(* archive, the video sinks, the shutdown of the process and the           *)
(* configuration it starts from, for every number of workers, clients,     *)
(* frames and tiles and every graph.                                       *)
(***************************************************************************)
EXTENDS Cascade, Sahi, FrameArchive, VideoOutput, ProcessLifecycle, ConfigValidation,
        FiniteSetTheorems, WellFoundedInduction, TLAPS

CascadeSafety == CascadeInit /\ [][CascadeNext]_cascadeVars
SahiSafety    == SahiInit /\ [][SahiNext]_sahiVars
ArchiveSafety == ArchiveInit /\ [][ArchiveNext]_archiveVars
VideoSafety   == VideoInit /\ [][VideoNext]_sinkVars
ProcSafety    == ProcInit /\ [][ProcNext]_procVars
ConfigSafety  == ConfigInit /\ [][ConfigNext]_configVars

-----------------------------------------------------------------------------
(* Shutdown of the process.                                                *)

Phases == {"serve", "halt", "gc", "joinAccept", "joinClients", "return"}
Pcs == {"none", "accepted", "recv", "start", "stop", "remove", "unload", "reply", "gone"}
AllObjects == {"server", "tasks", "gc", "archiver", "publishers"}

\* main() destroys from the front.
Remaining ==
    {AllObjects, {"tasks", "gc", "archiver", "publishers"}, {"gc", "archiver", "publishers"},
     {"archiver", "publishers"}, {"publishers"}, {}}

Threadless(c) == client[c].pc \in {"none", "gone"}

\* Whoever is being served is in the accept thread's hand, in client_threads_
\* or among the threads stop() joins, and nobody enters the list once the
\* accept thread is joined.
Tracked ==
    /\ phase \in Phases
    /\ client \in [Clients -> [pc : Pcs, gen : Nat]]
    /\ task \in Nat /\ gens \in Nat
    /\ \A c \in Clients : client[c].pc = "accepted" => acceptor = c
    /\ \A c \in Clients : ~Threadless(c) /\ client[c].pc # "accepted" => c \in listed \cup joining
    /\ phase \notin {"joinClients", "return"} => joining = {}
    /\ phase \in {"joinClients", "return"} => acceptor = "done" /\ listed = {}
    /\ phase = "return" => \A c \in Clients : Threadless(c)

\* Objects go only when main() returns, and no executor outlives the
\* TaskManager.
Intact ==
    /\ alive \in Remaining
    /\ phase # "return" => alive = AllObjects
    /\ live \in BOOLEAN /\ (live => "tasks" \in alive)

ProcInv == Tracked /\ Intact

\* The steps of a client's thread.
ClientStep(c) ==
    \/ Query(c) \/ MarkStart(c) \/ ExecutorStart(c) \/ MarkStop(c) \/ ExecutorStop(c)
    \/ (\E a \in BOOLEAN : AddTask(c, a)) \/ ListTask(c) \/ RemoveTask(c) \/ LoadModel(c)
    \/ ListModel(c) \/ UnloadModel(c) \/ Send(c) \/ Hangup(c)

\* c's thread went from one place to another, and nothing else of the server.
Moved(c) ==
    /\ UNCHANGED procRest
    /\ ~Threadless(c) /\ client[c].pc # "accepted"
    /\ \E p \in Pcs, n \in Nat :
          p # "accepted" /\ client' = [client EXCEPT ![c] = [pc |-> p, gen |-> n]]

\* What writing the place of one client does.
LEMMA SetPc ==
  ASSUME client \in [Clients -> [pc : Pcs, gen : Nat]], NEW c \in Clients, NEW p \in Pcs,
         client' = [client EXCEPT ![c].pc = p]
  PROVE  /\ client' = [client EXCEPT ![c] = [pc |-> p, gen |-> client[c].gen]]
         /\ client' \in [Clients -> [pc : Pcs, gen : Nat]]
         /\ client'[c].pc = p
         /\ \A d \in Clients : d # c => client'[d] = client[d]
<1>1. client' = [client EXCEPT ![c] = [client[c] EXCEPT !.pc = p]]
  OBVIOUS
<1>2. client[c] \in [pc : Pcs, gen : Nat]
  OBVIOUS
<1>3. [client[c] EXCEPT !.pc = p] = [pc |-> p, gen |-> client[c].gen]
  BY <1>2
<1>4. [pc |-> p, gen |-> client[c].gen] \in [pc : Pcs, gen : Nat]
  BY <1>2
<1>. QED
  BY <1>1, <1>3, <1>4

\* A client's thread moves only itself, and only while there is one.
LEMMA ClientMoves ==
  ASSUME Tracked, NEW c \in Clients, ClientStep(c)
  PROVE  Moved(c) /\ task' \in Nat /\ gens' \in Nat
<1>. USE DEF Tracked, Threadless
<1>1. ASSUME NEW p \in Pcs, p # "accepted", Receive(c, p)
      PROVE  Moved(c)
  BY <1>1 DEF Receive, Moved
<1>2. ASSUME NEW p \in Pcs, p # "accepted", NEW from \in Pcs, Continue(c, from, p),
             from \notin {"none", "gone", "accepted"}
      PROVE  Moved(c)
  <2>1. client' = [client EXCEPT ![c] = [pc |-> p, gen |-> client[c].gen]]
    BY <1>2, SetPc DEF Continue
  <2>2. client[c].gen \in Nat
    OBVIOUS
  <2>3. UNCHANGED procRest /\ client[c].pc = from
    BY <1>2 DEF Continue
  <2>. QED
    BY <1>2, <2>1, <2>2, <2>3 DEF Moved
<1>3. CASE Query(c) \/ ListTask(c) \/ ListModel(c) \/ LoadModel(c)
  BY <1>1, <1>3 DEF Query, ListTask, ListModel, LoadModel, taskVars, Pcs
<1>4. CASE MarkStart(c) \/ MarkStop(c)
  BY <1>1, <1>4 DEF MarkStart, MarkStop, Pcs
<1>5. CASE \E a \in BOOLEAN : AddTask(c, a)
  BY <1>1, <1>5 DEF AddTask, Pcs
<1>6. CASE ExecutorStart(c) \/ ExecutorStop(c) \/ RemoveTask(c) \/ UnloadModel(c)
  BY <1>2, <1>6 DEF ExecutorStart, ExecutorStop, RemoveTask, UnloadModel, Pcs
<1>7. CASE Send(c) \/ Hangup(c)
  BY <1>2, <1>7 DEF Send, Hangup, taskVars, Pcs
<1>. QED
  BY <1>3, <1>4, <1>5, <1>6, <1>7 DEF ClientStep

\* Requests are served only while everything is there.
LEMMA ClientKeepsProcInv ==
  ASSUME ProcInv, NEW c \in Clients, ClientStep(c)
  PROVE  ProcInv'
<1>. USE DEF ProcInv
<1>1. Moved(c) /\ task' \in Nat /\ gens' \in Nat
  BY ClientMoves
<1>2. PICK p \in Pcs, n \in Nat :
        p # "accepted" /\ client' = [client EXCEPT ![c] = [pc |-> p, gen |-> n]]
  BY <1>1 DEF Moved
<1>3. UNCHANGED <<phase, alive, acceptor, listed, joining>>
  BY <1>1 DEF Moved, procRest
<1>4. phase # "return" /\ c \in listed \cup joining
  BY <1>1 DEF Moved, Tracked, Threadless
<1>5. /\ client' \in [Clients -> [pc : Pcs, gen : Nat]]
      /\ client'[c].pc = p
      /\ \A d \in Clients : d # c => client'[d] = client[d]
  BY <1>2 DEF Tracked
<1>6. Tracked'
  BY <1>1, <1>2, <1>3, <1>4, <1>5 DEF Tracked, Threadless
<1>7. live' \in BOOLEAN
  BY DEF ClientStep, Intact, Query, MarkStart, ExecutorStart, MarkStop, ExecutorStop, AddTask,
         ListTask, RemoveTask, LoadModel, ListModel, UnloadModel, Send, Hangup, taskVars
<1>8. Intact'
  BY <1>3, <1>4, <1>7 DEF Intact, AllObjects
<1>. QED
  BY <1>6, <1>8

\* The accept thread hands its client over to a thread that is listed.
LEMMA AcceptorKeepsProcInv ==
  ASSUME ProcInv, AcceptorEnds \/ \E c \in Clients : Accept(c) \/ Spawn(c)
  PROVE  ProcInv'
<1>. USE ProcAssumption DEF ProcInv
<1>1. Intact'
  BY DEF Intact, AcceptorEnds, Accept, Spawn, taskVars
<1>2. CASE AcceptorEnds
  BY <1>1, <1>2 DEF AcceptorEnds, taskVars, Tracked, Threadless
<1>3. ASSUME NEW c \in Clients, Accept(c)
      PROVE  Tracked'
  <2>1. UNCHANGED <<phase, listed, joining, task, gens>> /\ acceptor = "loop" /\ acceptor' = c
    BY <1>3 DEF Accept, taskVars
  <2>2. /\ client' \in [Clients -> [pc : Pcs, gen : Nat]]
        /\ client'[c].pc = "accepted" /\ client[c].pc = "none"
        /\ \A d \in Clients : d # c => client'[d] = client[d]
    BY <1>3, SetPc DEF Accept, Tracked, Pcs
  <2>. QED
    BY <2>1, <2>2 DEF Tracked, Threadless
<1>4. ASSUME NEW c \in Clients, Spawn(c)
      PROVE  Tracked'
  <2>1. /\ UNCHANGED <<phase, joining, task, gens>> /\ acceptor = c /\ acceptor' = "loop"
        /\ listed' = listed \cup {c}
    BY <1>4 DEF Spawn, taskVars
  <2>2. /\ client' \in [Clients -> [pc : Pcs, gen : Nat]]
        /\ client'[c].pc = "recv"
        /\ \A d \in Clients : d # c => client'[d] = client[d]
    BY <1>4, SetPc DEF Spawn, Tracked, Pcs
  <2>. QED
    BY <2>1, <2>2 DEF Tracked, Threadless
<1>. QED
  BY <1>1, <1>2, <1>3, <1>4

\* The next object to go is the first that is left.
LEMMA DestroysInOrder ==
  ASSUME alive \in Remaining, alive # {}
  PROVE  /\ alive \ {NextToDestroy} \in Remaining
         /\ "tasks" \in alive /\ NextToDestroy # "tasks" => "tasks" \in alive \ {NextToDestroy}
<1>. DEFINE First(o) == \E i \in DOMAIN Objects :
                           Objects[i] = o /\ \A j \in 1..(i - 1) : Objects[j] \notin alive
<1>1. DOMAIN Objects = 1..5
  BY DEF Objects
<1>2. /\ Objects[1] = "server" /\ Objects[2] = "tasks" /\ Objects[3] = "gc"
      /\ Objects[4] = "archiver" /\ Objects[5] = "publishers"
  BY DEF Objects
<1>3. NextToDestroy = CHOOSE o \in alive : First(o)
  BY DEF NextToDestroy
<1>4. ASSUME NEW o \in alive, First(o), \A q \in alive : First(q) => q = o
      PROVE  NextToDestroy = o
  BY <1>3, <1>4
<1>5. CASE "server" \in alive
  <2>1. First("server")
    BY <1>1, <1>2
  <2>2. \A q \in alive : First(q) => q = "server"
    BY <1>1, <1>2, <1>5
  <2>3. NextToDestroy = "server"
    BY <1>4, <1>5, <2>1, <2>2
  <2>. QED
    BY <1>5, <2>3 DEF Remaining, AllObjects
<1>6. CASE "server" \notin alive /\ "tasks" \in alive
  <2>1. First("tasks")
    BY <1>1, <1>2, <1>6
  <2>2. \A q \in alive : First(q) => q = "tasks"
    BY <1>1, <1>2, <1>6
  <2>3. NextToDestroy = "tasks"
    BY <1>4, <1>6, <2>1, <2>2
  <2>. QED
    BY <1>6, <2>3 DEF Remaining, AllObjects
<1>7. CASE "tasks" \notin alive /\ "gc" \in alive
  <2>1. "server" \notin alive
    BY <1>7 DEF Remaining, AllObjects
  <2>2. First("gc")
    BY <1>1, <1>2, <1>7, <2>1
  <2>3. \A q \in alive : First(q) => q = "gc"
    BY <1>1, <1>2, <1>7, <2>1
  <2>4. NextToDestroy = "gc"
    BY <1>4, <1>7, <2>2, <2>3
  <2>. QED
    BY <1>7, <2>4 DEF Remaining, AllObjects
<1>8. CASE "gc" \notin alive
  <2>1. alive \in {{"archiver", "publishers"}, {"publishers"}}
    BY <1>8 DEF Remaining, AllObjects
  <2>2. CASE alive = {"archiver", "publishers"}
    <3>1. First("archiver") /\ \A q \in alive : First(q) => q = "archiver"
      BY <1>1, <1>2, <2>2
    <3>2. NextToDestroy = "archiver"
      BY <1>4, <2>2, <3>1
    <3>. QED
      BY <2>2, <3>2 DEF Remaining
  <2>3. CASE alive = {"publishers"}
    <3>1. First("publishers") /\ \A q \in alive : First(q) => q = "publishers"
      BY <1>1, <1>2, <2>3
    <3>2. NextToDestroy = "publishers"
      BY <1>4, <2>3, <3>1
    <3>. QED
      BY <2>3, <3>2 DEF Remaining
  <2>. QED
    BY <2>1, <2>2, <2>3
<1>. QED
  BY <1>5, <1>6, <1>7, <1>8 DEF Remaining, AllObjects

\* main() on its way out.
LEMMA MainKeepsProcInv ==
  ASSUME ProcInv,
         StopAllMarks \/ StopAllStops \/ CloseServer \/ CollectClients \/ JoinClients \/ Destroy
  PROVE  ProcInv'
<1>. USE DEF ProcInv, srvVars, taskVars
<1>1. CASE StopAllMarks \/ StopAllStops \/ CloseServer
  <2>1. /\ UNCHANGED <<alive, acceptor, client, listed, joining, task, gens>>
        /\ phase \in {"serve", "halt", "gc"} /\ phase' \in {"halt", "gc", "joinAccept"}
    BY <1>1 DEF StopAllMarks, StopAllStops, CloseServer
  <2>2. live' \in BOOLEAN
    BY <1>1 DEF StopAllMarks, StopAllStops, CloseServer, Intact
  <2>3. Tracked'
    BY <2>1 DEF Tracked, Threadless, Phases
  <2>4. Intact'
    BY <2>1, <2>2 DEF Intact, AllObjects
  <2>. QED
    BY <2>3, <2>4
<1>2. CASE CollectClients
  BY <1>2, ProcAssumption DEF CollectClients, Tracked, Threadless, Intact, Phases
<1>3. CASE JoinClients
  <2>1. \A c \in Clients : c \in joining => Threadless(c)
    BY <1>3 DEF JoinClients, Threadless
  <2>. QED
    <3>1. UNCHANGED <<alive, acceptor, client, listed, joining, task, gens, live>>
      BY <1>3 DEF JoinClients
    <3>2. phase = "joinClients" /\ phase' = "return"
      BY <1>3 DEF JoinClients
    <3>3. \A c \in Clients : Threadless(c)
      BY <2>1, <3>2, ProcAssumption DEF Tracked, Threadless
    <3>4. Tracked'
      BY <3>1, <3>2, <3>3 DEF Tracked, Threadless, Phases
    <3>. QED
      BY <3>1, <3>2, <3>4 DEF Intact
<1>4. CASE Destroy
  <2>1. Tracked'
    BY <1>4 DEF Destroy, Tracked, Threadless
  <2>2. Intact'
    BY <1>4, DestroysInOrder DEF Destroy, Intact
  <2>. QED
    BY <2>1, <2>2
<1>. QED
  BY <1>1, <1>2, <1>3, <1>4

\* main() destroys nothing that a thread of the management socket or a running
\* pipeline still uses, for any number of clients, whenever they connect,
\* start tasks or hang up (main.cpp; UnixSocketServer.cpp, stop).
THEOREM ShutdownIsSafe == ProcSafety => []NothingUsedAfterDestruction
<1>1. ProcInit => ProcInv
  <2>. SUFFICES ASSUME ProcInit PROVE ProcInv
    OBVIOUS
  <2>1. [pc |-> "none", gen |-> 0] \in [pc : Pcs, gen : Nat]
    BY DEF Pcs
  <2>2. Tracked
    BY <2>1 DEF ProcInit, Tracked, Threadless, Phases
  <2>3. DOMAIN Objects = 1..5 /\ Objects[1] = "server" /\ Objects[2] = "tasks"
        /\ Objects[3] = "gc" /\ Objects[4] = "archiver" /\ Objects[5] = "publishers"
    BY DEF Objects
  <2>4. alive = AllObjects
    BY <2>3 DEF ProcInit, AllObjects
  <2>. QED
    BY <2>2, <2>4 DEF ProcInit, ProcInv, Intact, Remaining, AllObjects
<1>2. ProcInv /\ [ProcNext]_procVars => ProcInv'
  <2>. SUFFICES ASSUME ProcInv, [ProcNext]_procVars PROVE ProcInv'
    OBVIOUS
  <2>1. CASE UNCHANGED procVars
    BY <2>1 DEF procVars, srvVars, taskVars, ProcInv, Tracked, Threadless, Intact
  <2>2. CASE ProcNext
    BY <2>2, ClientKeepsProcInv, AcceptorKeepsProcInv, MainKeepsProcInv DEF ProcNext, ClientStep
  <2>. QED
    BY <2>1, <2>2
<1>3. ProcInv => NothingUsedAfterDestruction
  BY DEF ProcInv, Tracked, Threadless, Intact, Remaining, AllObjects, NothingUsedAfterDestruction
<1>. QED
  BY <1>1, <1>2, <1>3, PTL DEF ProcSafety

-----------------------------------------------------------------------------
(* Video sinks.                                                            *)

\* What open() has got after n of its steps.
Prefix(n) == {Parts[kind][i] : i \in 1..n}

\* The clean-ups there are, and those of them that free everything in h.
CleanUps == {<<>>, <<"pipe">>, rollbackOpen, <<"fd">>, <<"fd", "child">>, closeFfplay}
Frees(list, h) ==
    /\ list \in CleanUps
    /\ \A p \in h : (\E i \in DOMAIN list : list[i] = p) \/ (p = "fd" /\ list = closeFfplay /\ "file" \in h)

\* While the thread opens its output it has the first few handles of it, not
\* all; a clean-up under way frees what is held; elsewhere the output is whole
\* or gone; a stage that is not running, nor being stopped, has no thread.
VideoInv ==
    /\ kind \in DOMAIN Parts
    /\ \A p \in held : Bases(p) \subseteq held
    /\ sink = "open" => \E n \in 0..(Len(Parts[kind]) - 1) : held = Prefix(n)
    /\ sink = "undo" => Frees(undo, held)
    /\ sink \notin {"open", "undo"} => held \in {{}, Complete}
    /\ sink = "none" => held = {}
    /\ ~running /\ ~stopping => sink = "none"

\* The parts of an output differ, so as many are held as steps were taken; each
\* comes after those it is made on.
LEMMA PrefixCounts ==
  ASSUME kind \in DOMAIN Parts
  PROVE  /\ Len(Parts[kind]) \in Nat \ {0}
         /\ Prefix(0) = {}
         /\ Prefix(Len(Parts[kind])) = Complete
         /\ \A n \in 0..Len(Parts[kind]) : Cardinality(Prefix(n)) = n
         /\ \A n \in 1..Len(Parts[kind]) : Bases(Parts[kind][n]) \subseteq Prefix(n - 1)
<1>1. kind \in {"ffmpeg", "venc", "ffplay"}
  BY DEF Parts
<1>2. /\ Len(Parts[kind]) \in Nat \ {0} /\ DOMAIN Parts[kind] = 1..Len(Parts[kind])
      /\ \A i, j \in 1..Len(Parts[kind]) : Parts[kind][i] = Parts[kind][j] => i = j
  <2>1. CASE kind = "ffmpeg"
    BY <2>1 DEF Parts
  <2>2. CASE kind = "venc"
    BY <2>2 DEF Parts
  <2>3. CASE kind = "ffplay"
    BY <2>3 DEF Parts
  <2>. QED
    BY <1>1, <2>1, <2>2, <2>3
<1>3. ASSUME NEW n \in 0..Len(Parts[kind]) PROVE Cardinality(Prefix(n)) = n
  <2>. DEFINE f == [i \in 1..n |-> Parts[kind][i]]
  <2>1. f \in Bijection(1..n, Prefix(n))
    BY <1>2 DEF Bijection, Injection, Surjection, IsInjective, Prefix
  <2>2. ExistsBijection(1..n, Prefix(n)) /\ n \in Nat
    BY <1>2, <2>1 DEF ExistsBijection
  <2>. QED
    BY <2>2, FS_CountingElements
<1>4. ASSUME NEW n \in 1..Len(Parts[kind]) PROVE Bases(Parts[kind][n]) \subseteq Prefix(n - 1)
  <2>1. CASE kind = "ffmpeg"
    BY <2>1 DEF Parts, Prefix, Bases
  <2>2. CASE kind = "venc"
    <3>1. n \in 1..7
      BY <2>2 DEF Parts
    <3>2. CASE n \in {1, 2}
      BY <2>2, <3>2 DEF Parts, Prefix, Bases
    <3>3. CASE n \in {3, 4, 5, 6}
      BY <2>2, <3>3 DEF Parts, Prefix, Bases
    <3>4. CASE n = 7
      BY <2>2, <3>4 DEF Parts, Prefix, Bases
    <3>. QED
      BY <3>1, <3>2, <3>3, <3>4
  <2>3. CASE kind = "ffplay"
    BY <2>3 DEF Parts, Prefix, Bases
  <2>. QED
    BY <1>1, <2>1, <2>2, <2>3
<1>5. Prefix(0) = {} /\ Prefix(Len(Parts[kind])) = Complete
  BY <1>2 DEF Prefix, Complete
<1>. QED
  BY <1>2, <1>3, <1>4, <1>5

\* close() frees a whole output, its early return notwithstanding, and what
\* open() gives back when it does not get its next handle is all it has got.
LEMMA CloseFreesAll ==
  ASSUME kind \in DOMAIN Parts, held \in {{}, Complete}
  PROVE  Frees(close, held)
<1>1. CASE kind = "ffmpeg"
  BY <1>1 DEF Parts, Complete, Frees, close, CleanUps
<1>2. CASE kind = "ffplay"
  BY <1>2 DEF Parts, Complete, Frees, close, closeFfplay, CleanUps
<1>3. CASE kind = "venc"
  <2>1. CASE held = {}
    BY <1>3, <2>1 DEF Parts, Frees, close, isOpened, CleanUps
  <2>2. CASE held = Complete
    <3>1. held = {"pipe", "runtime", "context", "stream", "buffer", "desc", "channel"}
      BY <1>3, <2>2 DEF Parts, Complete
    <3>2. close = rollbackOpen
      BY <1>3, <3>1 DEF close
    <3>. QED
      BY <3>1, <3>2 DEF Frees, CleanUps, rollbackOpen
  <2>. QED
    BY <2>1, <2>2
<1>. QED
  BY <1>1, <1>2, <1>3 DEF Parts

LEMMA OpenGivesBack ==
  ASSUME kind \in DOMAIN Parts, NEW n \in 0..(Len(Parts[kind]) - 1)
  PROVE  Frees(OnFailure(Parts[kind][n + 1]), Prefix(n))
<1>1. CASE kind = "ffmpeg"
  BY <1>1 DEF Parts, Prefix, Frees, OnFailure, CleanUps
<1>2. CASE kind = "ffplay"
  BY <1>2 DEF Parts, Prefix, Frees, OnFailure, CleanUps
<1>3. CASE kind = "venc"
  <2>1. n \in 0..6
    BY <1>3 DEF Parts
  <2>2. CASE n \in {0, 1}
    BY <1>3, <2>2 DEF Parts, Prefix, Frees, OnFailure, CleanUps
  <2>3. CASE n \in 2..6
    <3>1. OnFailure(Parts[kind][n + 1]) = rollbackOpen
      BY <1>3, <2>3 DEF Parts, OnFailure
    <3>2. \A p \in Prefix(n) : p \in {"pipe", "runtime", "context", "stream", "buffer", "desc", "channel"}
      BY <1>3, <2>3 DEF Parts, Prefix
    <3>. QED
      BY <3>1, <3>2 DEF Frees, CleanUps, rollbackOpen
  <2>. QED
    BY <2>1, <2>2, <2>3
<1>. QED
  BY <1>1, <1>2, <1>3 DEF Parts

\* A clean-up looks at a handle after those made on it.
LEMMA FreedInOrder ==
  ASSUME NEW list \in CleanUps, NEW i \in DOMAIN list, NEW j \in DOMAIN list,
         list[i] \in Bases(list[j])
  PROVE  /\ DOMAIN list \subseteq Nat /\ 1..(i - 1) \subseteq DOMAIN list
         /\ j \in 1..(i - 1)
<1>1. CASE list = <<>> \/ list = <<"pipe">> \/ list = <<"fd">> \/ list = <<"fd", "child">> \/ list = closeFfplay
  BY <1>1 DEF Bases, closeFfplay
<1>2. CASE list = rollbackOpen
  <2>1. i \in 1..7 /\ j \in 1..7 /\ DOMAIN list = 1..7
    BY <1>2 DEF rollbackOpen
  <2>2. CASE j \in {1, 3, 4, 5, 6, 7}
    BY <1>2, <2>1, <2>2 DEF rollbackOpen, Bases
  <2>3. CASE j = 2
    BY <1>2, <2>1, <2>3 DEF rollbackOpen, Bases
  <2>. QED
    BY <2>1, <2>2, <2>3
<1>. QED
  BY <1>1, <1>2 DEF CleanUps

\* open() takes the next handle, or begins to give back those it has.
LEMMA OpenKeepsVideoInv ==
  ASSUME VideoInv, OpenPart
  PROVE  VideoInv'
<1>1. kind \in DOMAIN Parts /\ sink = "open" /\ UNCHANGED <<kind, running, stopping>>
  BY DEF VideoInv, OpenPart, threadRest, callerRest
<1>2. PICK n \in 0..(Len(Parts[kind]) - 1) : held = Prefix(n)
  BY <1>1 DEF VideoInv
<1>. DEFINE p == Parts[kind][n + 1]
<1>3. /\ Len(Parts[kind]) \in Nat /\ Cardinality(held) = n /\ n + 1 \in 1..Len(Parts[kind])
      /\ Bases(p) \subseteq held
  BY <1>1, <1>2, PrefixCounts
<1>4. \/ held' = held \cup {p} /\ IF held' = Complete THEN sink' = "write" ELSE UNCHANGED sink
      \/ sink' = "undo" /\ undo' = OnFailure(p) /\ UNCHANGED held
  BY <1>3 DEF OpenPart, Cleanup
<1>5. Complete' = Complete /\ (running' \/ stopping')
  BY <1>1 DEF Complete, VideoInv
<1>6. CASE held' = held \cup {p} /\ IF held' = Complete THEN sink' = "write" ELSE UNCHANGED sink
  <2>1. held' = Prefix(n + 1)
    BY <1>2, <1>6 DEF Prefix
  <2>2. n + 1 = Len(Parts[kind]) => held' = Complete
    BY <1>1, <2>1, PrefixCounts
  <2>3. \A q \in held' : Bases(q) \subseteq held'
    BY <1>3, <1>6 DEF VideoInv
  <2>4. Complete' = Complete
    BY <1>1 DEF Complete
  <2>5. CASE held' = Complete
    BY <1>1, <1>5, <1>6, <2>3, <2>4, <2>5 DEF VideoInv
  <2>6. CASE held' # Complete
    <3>1. n + 1 \in 0..(Len(Parts[kind]) - 1)
      BY <1>3, <2>2, <2>6
    <3>2. (\E k \in 0..(Len(Parts[kind]) - 1) : held = Prefix(k))'
      <4>1. Prefix(n + 1)' = Prefix(n + 1)
        BY <1>1 DEF Prefix
      <4>. QED
        BY <1>1, <2>1, <3>1, <4>1
    <3>. QED
      BY <1>1, <1>6, <2>3, <2>6, <3>2 DEF VideoInv
  <2>. QED
    BY <2>5, <2>6
<1>7. CASE sink' = "undo" /\ undo' = OnFailure(p) /\ UNCHANGED held
  <2>1. Frees(undo, held)'
    <3>1. Frees(OnFailure(p), held)
      BY <1>1, <1>2, OpenGivesBack
    <3>. QED
      BY <1>7, <3>1 DEF Frees, CleanUps, rollbackOpen, closeFfplay
  <2>. QED
    BY <1>1, <1>7, <2>1 DEF VideoInv
<1>. QED
  BY <1>4, <1>6, <1>7

\* A handle freed was the basis of none that is left.
LEMMA UndoKeepsVideoInv ==
  ASSUME VideoInv, Undo
  PROVE  VideoInv'
<1>1. kind \in DOMAIN Parts /\ sink = "undo" /\ UNCHANGED <<kind, running, stopping, sink, undo>>
  BY DEF VideoInv, Undo, threadRest, callerRest
<1>2. undo \in CleanUps /\ Frees(undo, held)
  BY <1>1 DEF VideoInv, Frees
<1>3. PICK i \in DOMAIN undo :
        /\ undo[i] \in held /\ \A j \in 1..(i - 1) : undo[j] \notin held
        /\ held' = held \ (IF undo[i] = "file" THEN {"file", "fd"} ELSE {undo[i]})
  BY DEF Undo
<1>4. ASSUME NEW q \in held' PROVE Bases(q) \subseteq held'
  <2>1. q \in held /\ Bases(q) \subseteq held
    BY <1>3 DEF VideoInv
  <2>2. undo[i] \notin Bases(q)
    <3>. SUFFICES ASSUME undo[i] \in Bases(q) PROVE FALSE
      OBVIOUS
    <3>1. CASE \E j \in DOMAIN undo : undo[j] = q
      <4>1. PICK j \in DOMAIN undo : undo[j] = q
        BY <3>1
      <4>2. j \in 1..(i - 1)
        BY <1>2, <4>1, FreedInOrder
      <4>. QED
        BY <1>3, <2>1, <4>1, <4>2
    <3>2. CASE q = "fd"
      BY <3>2 DEF Bases
    <3>. QED
      BY <1>2, <2>1, <3>1, <3>2 DEF Frees
  <2>3. undo[i] = "file" => "fd" \notin Bases(q)
    <3>1. "fd" \in Bases(q) => q = "file"
      BY DEF Bases
    <3>. QED
      BY <1>3, <3>1
  <2>. QED
    BY <1>3, <2>1, <2>2, <2>3
<1>5. Frees(undo, held)'
  <2>1. ASSUME NEW q \in held', "fd" = q, undo = closeFfplay PROVE "file" \in held'
    BY <1>2, <1>3, <2>1 DEF Frees, closeFfplay
  <2>2. \A q \in held' : q \in held
    BY <1>3
  <2>. QED
    BY <1>1, <1>2, <2>1, <2>2 DEF Frees, CleanUps, rollbackOpen, closeFfplay
<1>. QED
  BY <1>1, <1>4, <1>5 DEF VideoInv

\* When a clean-up is through nothing is held.
LEMMA UndoneKeepsVideoInv ==
  ASSUME VideoInv, Undone
  PROVE  VideoInv' /\ held = {}
<1>1. kind \in DOMAIN Parts /\ sink = "undo" /\ UNCHANGED <<kind, running, stopping, held>>
  BY DEF VideoInv, Undone, threadRest, callerRest
<1>2. held = {}
  <2>1. Frees(undo, held) /\ \A i \in DOMAIN undo : undo[i] \notin held
    BY <1>1 DEF VideoInv, Undone
  <2>2. \E i \in DOMAIN closeFfplay : closeFfplay[i] = "file"
    BY DEF closeFfplay
  <2>. QED
    BY <2>1, <2>2 DEF Frees
<1>3. /\ sink' \in {"undo", "top", "open", "none"}
      /\ sink' = "undo" => undo' = close
  BY <1>1 DEF Undone, Cleanup
<1>4. CASE sink' = "undo"
  <2>1. Frees(close, held)
    BY <1>1, <1>2, CloseFreesAll
  <2>2. Frees(undo, held)'
    BY <1>1, <1>3, <1>4, <2>1 DEF Frees, CleanUps, rollbackOpen, closeFfplay
  <2>. QED
    BY <1>1, <1>2, <1>4, <2>2 DEF VideoInv
<1>5. CASE sink' = "open"
  <2>1. Len(Parts[kind]) \in Nat \ {0} /\ Prefix(0) = {}
    BY <1>1, PrefixCounts
  <2>2. Prefix(0)' = {} /\ 0 \in (0..(Len(Parts[kind]) - 1))'
    BY <1>1, <2>1 DEF Prefix
  <2>3. (\E n \in 0..(Len(Parts[kind]) - 1) : held = Prefix(n))'
    BY <1>1, <1>2, <2>2
  <2>. QED
    BY <1>1, <1>2, <1>5, <2>3 DEF VideoInv
<1>6. CASE sink' \in {"top", "none"}
  BY <1>1, <1>2, <1>6 DEF VideoInv
<1>. QED
  BY <1>2, <1>3, <1>4, <1>5, <1>6

\* A step that leaves the handles alone and may begin a close().
LEMMA OthersKeepVideoInv ==
  ASSUME VideoInv, UNCHANGED <<kind, held>>, sink \notin {"open", "undo"},
         sink' # "open", sink' = "undo" => undo' = close,
         sink' = "none" => sink = "none", ~running' /\ ~stopping' => sink' = "none"
  PROVE  VideoInv'
<1>1. Complete' = Complete
  BY DEF Complete
<1>2. kind \in DOMAIN Parts /\ held \in {{}, Complete}
  BY DEF VideoInv
<1>3. Frees(close, held)
  BY <1>2, CloseFreesAll
<1>4. (sink = "undo" => Frees(undo, held))'
  BY <1>3 DEF Frees, CleanUps, rollbackOpen, closeFfplay
<1>. QED
  BY <1>1, <1>2, <1>4 DEF VideoInv

\* Every clean-up of a video sink frees handles in an order that is safe, and
\* all of them: it never goes on with a half-opened output and a stopped one
\* holds none, whichever step of open() or write() failed
\* (AscendVencFfmpegMuxWriter.cpp, open, rollbackOpen, close;
\* SinkFfplayStage.cpp, ensureFfplayOpened, closeFfplay).
THEOREM OutputWholeOrGone == VideoSafety => []OutputIsWholeOrGone
<1>1. VideoInit => VideoInv
  BY DEF VideoInit, VideoInv
<1>2. VideoInv /\ [VideoNext]_sinkVars => VideoInv'
  <2>. SUFFICES ASSUME VideoInv, [VideoNext]_sinkVars PROVE VideoInv'
    OBVIOUS
  <2>1. CASE OpenPart \/ Undo \/ Undone
    BY <2>1, OpenKeepsVideoInv, UndoKeepsVideoInv, UndoneKeepsVideoInv
  <2>2. CASE StartSink \/ Draining \/ Show \/ StopSink \/ SinkStopped \/ BackoffOver \/ UNCHANGED sinkVars
    <3>1. UNCHANGED <<kind, held, undo>> /\ Complete' = Complete
      BY <2>2 DEF StartSink, Draining, Show, StopSink, SinkStopped, BackoffOver, sinkVars, outputRest, Complete, threadRest, callerRest
    <3>2. CASE StartSink
      <4>1. sink = "none" /\ sink' = "top" /\ running'
        BY <3>2 DEF StartSink, VideoInv
      <4>. QED
        BY <3>1, <4>1, OthersKeepVideoInv
    <3>3. CASE ~StartSink
      <4>1. UNCHANGED sink /\ (~running' /\ ~stopping' => sink' = "none")
        BY <2>2, <3>3 DEF Draining, Show, StopSink, SinkStopped, BackoffOver, sinkVars, VideoInv, outputRest, threadRest, callerRest
      <4>2. (\E n \in 0..(Len(Parts[kind]) - 1) : held = Prefix(n))
            => (\E n \in 0..(Len(Parts[kind]) - 1) : held = Prefix(n))'
        BY <3>1 DEF Prefix
      <4>3. Frees(undo, held) => Frees(undo, held)'
        BY <3>1 DEF Frees, CleanUps, rollbackOpen, closeFfplay
      <4>. QED
        BY <3>1, <4>1, <4>2, <4>3 DEF VideoInv
    <3>. QED
      BY <3>2, <3>3
  <2>3. CASE Loop \/ Decide \/ Sleep \/ Wake \/ Ensure \/ SendFrame \/ Encoded
    <3>1. UNCHANGED <<kind, held, running, stopping>>
      BY <2>3 DEF Loop, Decide, Sleep, Wake, Ensure, SendFrame, Encoded, threadRest, callerRest, outputRest
    <3>2. sink \in {"top", "lock", "tested", "wait", "ensure", "write", "encode"}
      BY <2>3 DEF Loop, Decide, Sleep, Wake, Ensure, SendFrame, Encoded
    <3>3. CASE kind = "ffplay" /\ Ensure /\ sink' = "open"
      <4>1. held = {}
        BY <3>2, <3>3 DEF Ensure, VideoInv, isOpened, Complete, Parts, Cleanup
      <4>2. Len(Parts[kind]) \in Nat \ {0} /\ Prefix(0) = {}
        BY PrefixCounts DEF VideoInv
      <4>3. Prefix(0)' = {} /\ 0 \in (0..(Len(Parts[kind]) - 1))'
        BY <3>1, <4>2 DEF Prefix
      <4>4. (\E n \in 0..(Len(Parts[kind]) - 1) : held = Prefix(n))'
        BY <3>1, <4>1, <4>3
      <4>. QED
        BY <3>1, <3>2, <3>3, <4>1, <4>4 DEF VideoInv
    <3>4. CASE ~(kind = "ffplay" /\ Ensure /\ sink' = "open")
      <4>1. sink' \in {"lock", "top", "tested", "wait", "ensure", "write", "encode", "undo"}
            /\ (sink' = "undo" => undo' = close)
        BY <2>3, <3>4 DEF Loop, Decide, Sleep, Wake, Ensure, SendFrame, Encoded, FrameOut, FrameFails, Cleanup
      <4>2. running \/ stopping
        BY <3>2 DEF VideoInv
      <4>. QED
        BY <3>1, <3>2, <4>1, <4>2, OthersKeepVideoInv
    <3>. QED
      BY <3>3, <3>4
  <2>. QED
    BY <2>1, <2>2, <2>3 DEF VideoNext, SinkThread
<1>3. VideoInv => OutputIsWholeOrGone
  BY DEF VideoInv, OutputIsWholeOrGone
<1>. QED
  BY <1>1, <1>2, <1>3, PTL DEF VideoSafety

-----------------------------------------------------------------------------
(* Frame archive and retention.                                            *)

Shots == [seq : Nat, at : Nat]
WriterPcs == {"idle", "day", "hour", "minute", "tmp", "rename", "done"}

\* While the collector is at work its cutoff is at least MaxAge ago: the clock
\* only goes on.  Frames carry the minute they were captured in.
ArchiveInv ==
    /\ clock \in Nat /\ shots \in Nat
    /\ aqueue \in Seq(Shots)
    /\ writer \in [Writers -> [pc : WriterPcs, frame : Shots]]
    /\ written \subseteq Shots
    /\ DOMAIN gc = {"pc", "cutoff", "days", "hours", "minutes", "day", "hour"}
    /\ gc.pc # "idle" => gc.cutoff \in Int /\ gc.cutoff <= clock - MaxAge
    /\ FreshSurvives

\* A directory holds only the minutes from its start to its end.
LEMMA BucketHolds ==
  ASSUME NEW level \in {"day", "hour", "minute"}, NEW t \in Nat
  PROVE  Start(level, t) \in Int /\ t < Start(level, t) + LenOf[level]
<1>1. \A n \in Nat \ {0} : t % n \in 0..(n - 1)
  OBVIOUS
<1>. QED
  BY <1>1, ArchiveAssumption DEF Start, LenOf

\* Removing a tree that has expired leaves every fresh frame.
LEMMA RemovalSparesFresh ==
  ASSUME ArchiveInv, NEW level \in {"day", "hour", "minute"}, NEW when,
         gc.pc # "idle", Expired(level, when), UNCHANGED <<clock, written>>,
         RemoveTree([level |-> level, at |-> when])
  PROVE  FreshSurvives'
<1>. USE DEF ArchiveInv, FreshSurvives
<1>1. ASSUME NEW f \in written, f.at + 1 + MaxAge > clock
      PROVE  f \in files'
  <2>1. f \in files /\ f.at \in Nat
    BY <1>1 DEF Shots
  <2>2. ~(Start(level, f.at) = when)
    <3>. SUFFICES ASSUME Start(level, f.at) = when PROVE FALSE
      OBVIOUS
    <3>1. when \in Int /\ f.at < when + LenOf[level]
      BY <2>1, BucketHolds
    <3>2. LenOf[level] \in Int
      BY ArchiveAssumption DEF LenOf
    <3>. QED
      BY <1>1, <2>1, <3>1, <3>2, ArchiveAssumption DEF Expired
  <2>. QED
    BY <2>1, <2>2 DEF RemoveTree, Under
<1>. QED
  BY <1>1

\* The collector entered a directory, or took it off its list: its cutoff is
\* the one it began with.
SameScan == gc'.pc # "idle" /\ gc'.cutoff = gc.cutoff /\ DOMAIN gc' = DOMAIN gc

\* A step of the collector's walk over days or hours.
LEMMA VisitSparesFresh ==
  ASSUME ArchiveInv, gc.pc # "idle", UNCHANGED <<clock, written>>, NEW when,
         \/ Visit("day", "days", "hours", "hour", when)
         \/ Visit("hour", "hours", "minutes", "minute", when)
  PROVE  FreshSurvives' /\ SameScan
<1>1. CASE Visit("day", "days", "hours", "hour", when)
  <2>1. SameScan
    BY <1>1 DEF Visit, ArchiveInv, SameScan
  <2>2. FreshSurvives'
    BY <1>1, RemovalSparesFresh DEF Visit, ArchiveInv, FreshSurvives
  <2>. QED
    BY <2>1, <2>2
<1>2. CASE Visit("hour", "hours", "minutes", "minute", when)
  <2>1. SameScan
    BY <1>2 DEF Visit, ArchiveInv, SameScan
  <2>2. FreshSurvives'
    BY <1>2, RemovalSparesFresh DEF Visit, ArchiveInv, FreshSurvives
  <2>. QED
    BY <2>1, <2>2
<1>. QED
  BY <1>1, <1>2

\* Every step of the collector leaves the fresh frames.
LEMMA CollectorSparesFresh ==
  ASSUME ArchiveInv, Scan \/ ScanDay \/ ScanHour \/ ScanMinute \/ RemoveEmpty
  PROVE  ArchiveInv'
<1>1. UNCHANGED <<clock, shots, aqueue, writer, written>>
  BY DEF Scan, ScanDay, ScanHour, ScanMinute, RemoveEmpty, gcRest
<1>2. ASSUME UNCHANGED files PROVE FreshSurvives'
  BY <1>1, <1>2 DEF ArchiveInv, FreshSurvives
<1>3. ASSUME gc.pc # "idle", SameScan, FreshSurvives'
      PROVE  ArchiveInv'
  BY <1>1, <1>3 DEF ArchiveInv, SameScan
<1>4. CASE Scan
  <2>1. UNCHANGED files
    BY <1>4 DEF Scan
  <2>2. gc'.pc = "days" /\ gc'.cutoff = clock - MaxAge /\ DOMAIN gc' = DOMAIN gc
    BY <1>4 DEF Scan, ArchiveInv
  <2>. QED
    BY <1>1, <1>2, <2>1, <2>2, ArchiveAssumption DEF ArchiveInv
<1>5. CASE ScanDay
  <2>1. CASE gc.days = {}
    <3>1. gc' = Idle /\ UNCHANGED files
      BY <1>5, <2>1 DEF ScanDay
    <3>2. gc'.pc = "idle" /\ DOMAIN gc' = DOMAIN gc
      BY <3>1 DEF Idle, ArchiveInv
    <3>. QED
      BY <1>1, <1>2, <3>1, <3>2 DEF ArchiveInv
  <2>2. CASE gc.days # {}
    BY <1>1, <1>3, <1>5, <2>2, VisitSparesFresh DEF ScanDay
  <2>. QED
    BY <2>1, <2>2
<1>6. CASE ScanHour
  <2>1. CASE gc.hours = {}
    <3>1. UNCHANGED files /\ gc.pc # "idle"
      BY <1>6, <2>1 DEF ScanHour
    <3>2. SameScan
      BY <1>6, <2>1 DEF ScanHour, ArchiveInv, SameScan
    <3>. QED
      BY <1>2, <1>3, <3>1, <3>2
  <2>2. CASE gc.hours # {}
    BY <1>1, <1>3, <1>6, <2>2, VisitSparesFresh DEF ScanHour
  <2>. QED
    BY <2>1, <2>2
<1>7. CASE ScanMinute
  <2>1. gc.pc # "idle"
    BY <1>7 DEF ScanMinute
  <2>2. SameScan
    BY <1>7 DEF ScanMinute, ArchiveInv, SameScan
  <2>3. FreshSurvives'
    <3>1. CASE UNCHANGED files
      BY <1>2, <3>1
    <3>2. ASSUME NEW when, Expired("minute", when), RemoveTree(Dir("minute", when))
          PROVE  FreshSurvives'
      <4>1. Dir("minute", when) = [level |-> "minute", at |-> when]
        BY DEF Dir, Start
      <4>. QED
        BY <1>1, <2>1, <3>2, <4>1, RemovalSparesFresh
    <3>. QED
      BY <1>7, <3>1, <3>2 DEF ScanMinute
  <2>. QED
    BY <1>3, <2>1, <2>2, <2>3
<1>8. CASE RemoveEmpty
  <2>1. UNCHANGED files /\ gc.pc # "idle"
    BY <1>8 DEF RemoveEmpty
  <2>2. SameScan
    BY <1>8 DEF RemoveEmpty, ArchiveInv, SameScan
  <2>. QED
    BY <1>2, <1>3, <2>1, <2>2
<1>. QED
  BY <1>4, <1>5, <1>6, <1>7, <1>8

\* The threads of the archiver only add frames.
LEMMA ArchiverKeepsInv ==
  ASSUME ArchiveInv,
         \/ Minute \/ StopArchiver
         \/ \E when \in {clock, clock - 1} \cap Nat, readable \in BOOLEAN : Submit(when, readable)
         \/ \E w \in Writers : Pop(w) \/ MakeDir(w) \/ WriteTmp(w) \/ Rename(w)
  PROVE  ArchiveInv'
<1>. USE DEF ArchiveInv, FreshSurvives, writerRest
<1>1. CASE Minute \/ StopArchiver
  <2>1. /\ UNCHANGED <<shots, aqueue, writer, files, written, gc>>
        /\ clock' \in Nat /\ clock <= clock'
    BY <1>1 DEF Minute, StopArchiver
  <2>2. \A f \in written : f.at \in Nat
    BY DEF Shots
  <2>3. FreshSurvives'
    BY <2>1, <2>2, ArchiveAssumption
  <2>. QED
    BY <2>1, <2>3, ArchiveAssumption
<1>2. ASSUME NEW when \in Nat, NEW readable \in BOOLEAN, Submit(when, readable)
      PROVE  ArchiveInv'
  <2>1. shots' \in Nat /\ [seq |-> shots', at |-> when] \in Shots
    BY <1>2 DEF Submit, Shots
  <2>2. aqueue' \in Seq(Shots)
    BY <1>2, <2>1 DEF Submit
  <2>. QED
    BY <1>2, <2>1, <2>2 DEF Submit
<1>3. ASSUME NEW w \in Writers, Pop(w) \/ MakeDir(w) \/ WriteTmp(w) \/ Rename(w)
      PROVE  ArchiveInv'
  <2>1. AtRest \in [pc : WriterPcs, frame : Shots]
    BY DEF AtRest, NoShot, Shots, WriterPcs
  <2>2. UNCHANGED <<clock, shots, gc>>
    BY <1>3 DEF Pop, MakeDir, WriteTmp, Rename
  <2>3. aqueue' \in Seq(Shots)
    <3>1. aqueue # <<>> => Tail(aqueue) \in Seq(Shots)
      OBVIOUS
    <3>. QED
      BY <1>3, <3>1 DEF Pop, MakeDir, WriteTmp, Rename
  <2>4. writer' \in [Writers -> [pc : WriterPcs, frame : Shots]]
    <3>1. ASSUME NEW r \in [pc : WriterPcs, frame : Shots], writer' = [writer EXCEPT ![w] = r]
          PROVE  writer' \in [Writers -> [pc : WriterPcs, frame : Shots]]
      BY <3>1
    <3>2. ASSUME NEW p \in WriterPcs, writer' = [writer EXCEPT ![w].pc = p]
          PROVE  writer' \in [Writers -> [pc : WriterPcs, frame : Shots]]
      BY <3>2
    <3>3. CASE Pop(w)
      <4>1. aqueue # <<>> => [pc |-> "day", frame |-> Head(aqueue)] \in [pc : WriterPcs, frame : Shots]
        BY DEF WriterPcs
      <4>2. CASE aqueue # <<>>
        BY <3>1, <3>3, <4>1, <4>2 DEF Pop
      <4>3. CASE aqueue = <<>>
        BY <3>2, <3>3, <4>3 DEF Pop, WriterPcs
      <4>. QED
        BY <4>2, <4>3
    <3>4. CASE MakeDir(w)
      <4>1. [day |-> "hour", hour |-> "minute", minute |-> "tmp"][writer[w].pc] \in WriterPcs
        BY <3>4 DEF MakeDir, WriterPcs
      <4>. QED
        BY <2>1, <3>1, <3>2, <3>4, <4>1 DEF MakeDir
    <3>5. CASE WriteTmp(w) \/ Rename(w)
      BY <2>1, <3>1, <3>2, <3>5 DEF WriteTmp, Rename, WriterPcs
    <3>. QED
      BY <1>3, <3>3, <3>4, <3>5
  <2>5. /\ writer[w].frame \in Shots
        /\ \/ UNCHANGED <<files, written>>
           \/ /\ files' = files \cup {writer[w].frame}
              /\ written' = written \cup {writer[w].frame}
    BY <1>3 DEF Pop, MakeDir, WriteTmp, Rename
  <2>. QED
    BY <2>2, <2>3, <2>4, <2>5
<1>. QED
  BY <1>1, <1>2, <1>3

\* No frame is removed before max_age_minutes have passed since the minute it
\* was captured in, however the collector's walk over the directories falls
\* between the writers' steps and whatever the lengths of the buckets
\* (FrameRetentionGc.cpp, runOnce).
THEOREM RetentionIsKept == ArchiveSafety => []FreshSurvives
<1>1. ArchiveInit => ArchiveInv
  <2>. SUFFICES ASSUME ArchiveInit PROVE ArchiveInv
    OBVIOUS
  <2>1. AtRest \in [pc : WriterPcs, frame : Shots]
    BY DEF AtRest, NoShot, Shots, WriterPcs
  <2>2. DOMAIN gc = {"pc", "cutoff", "days", "hours", "minutes", "day", "hour"} /\ gc.pc = "idle"
    BY DEF ArchiveInit, Idle
  <2>. QED
    BY <2>1, <2>2 DEF ArchiveInit, ArchiveInv, FreshSurvives
<1>2. ArchiveInv /\ [ArchiveNext]_archiveVars => ArchiveInv'
  <2>. SUFFICES ASSUME ArchiveInv, [ArchiveNext]_archiveVars PROVE ArchiveInv'
    OBVIOUS
  <2>1. CASE UNCHANGED archiveVars
    BY <2>1 DEF archiveVars, ArchiveInv, FreshSurvives
  <2>2. CASE ArchiveNext
    BY <2>2, ArchiverKeepsInv, CollectorSparesFresh DEF ArchiveNext
  <2>. QED
    BY <2>1, <2>2
<1>3. ArchiveInv => FreshSurvives
  BY DEF ArchiveInv
<1>. QED
  BY <1>1, <1>2, <1>3, PTL DEF ArchiveSafety

-----------------------------------------------------------------------------
(* Cascade router and result merger.  Entries are found by their key, so   *)
(* everything here rests on two results never having the same one.         *)

KeysDiffer == \A r, q \in Results : KeyOf[r] = KeyOf[q] => r = q

\* The crops counted for r.
Expected(r) == CropsOf(r, crops[r])

\* An entry of the merger, or of the publisher, with answers to crops of its
\* own result only.
EntryOk(e) ==
    /\ e = [result |-> e.result, got |-> e.got, late |-> e.late]
    /\ e.result \in Results /\ crops[e.result] >= 0 /\ e.late \in BOOLEAN
    /\ e.got \subseteq Expected(e.result)

\* A crop on its way: it was counted when its result was routed.
CropOk(c) == c.result \in Results /\ crops[c.result] >= 0 /\ c \in Expected(c.result)

CascadeShape ==
    /\ crops \in [Results -> Int] /\ \A r \in Results : crops[r] >= -1
    /\ DOMAIN routing = Primaries
    /\ \A w \in Primaries : \A c \in routing[w] : CropOk(c)
    /\ \A c \in asked : CropOk(c)

\* An entry is under the key of its result and still lacks an answer.
PendingOk ==
    \A k \in DOMAIN pending :
        /\ EntryOk(pending[k]) /\ KeyOf[pending[k].result] = k
        /\ Cardinality(pending[k].got) < crops[pending[k].result]

PublishedOk ==
    \A e \in published : EntryOk(e) /\ (e.late \/ Cardinality(e.got) = crops[e.result])

\* A result waits or is published if it was routed, and not both.
OnePlace ==
    /\ \A r \in Results : crops[r] >= 0 <=>
          (\E k \in DOMAIN pending : pending[k].result = r) \/ (\E e \in published : e.result = r)
    /\ \A k \in DOMAIN pending, e \in published : pending[k].result # e.result

CascadeInv == CascadeShape /\ PendingOk /\ PublishedOk /\ OnePlace

\* A result has as many crops as were counted.
LEMMA CropsCount ==
  ASSUME NEW r, NEW n \in Nat
  PROVE  IsFiniteSet(CropsOf(r, n)) /\ Cardinality(CropsOf(r, n)) = n
<1>. DEFINE f == [i \in 1..n |-> [result |-> r, idx |-> i]]
<1>1. f \in Bijection(1..n, CropsOf(r, n))
  BY DEF Bijection, Injection, Surjection, IsInjective, CropsOf
<1>2. ExistsBijection(1..n, CropsOf(r, n))
  BY <1>1 DEF ExistsBijection
<1>3. IsFiniteSet(1..n) /\ Cardinality(1..n) = n
  BY FS_Interval
<1>. QED
  BY <1>2, <1>3, FS_Bijection

\* The crops counted for a result never change once it is routed.
LEMMA RouteKeepsOthers ==
  ASSUME CascadeInv, NEW r \in Results, crops[r] = -1, NEW n \in Nat,
         crops' = [crops EXCEPT ![r] = n]
  PROVE  /\ crops' \in [Results -> Int] /\ \A q \in Results : crops'[q] >= -1
         /\ crops'[r] = n /\ \A q \in Results : q # r => crops'[q] = crops[q]
         /\ \A e : EntryOk(e) => EntryOk(e)' /\ e.result # r
         /\ \A c : CropOk(c) => CropOk(c)'
BY DEF CascadeInv, CascadeShape, EntryOk, CropOk, Expected

\* route() counts and registers before it sends anything.
LEMMA RouteKeepsCascadeInv ==
  ASSUME KeysDiffer, CascadeInv, NEW w \in Primaries, NEW r \in Results, NEW n \in Nat,
         Route(w, r, n)
  PROVE  CascadeInv'
<1>. DEFINE new == [result |-> r, got |-> {}, late |-> FALSE]
<1>1. /\ crops[r] = -1 /\ crops' = [crops EXCEPT ![r] = n] /\ UNCHANGED asked
      /\ routing' = [routing EXCEPT ![w] = CropsOf(r, n)] /\ registerPrimary(r, n)
  BY DEF Route
<1>2. /\ crops' \in [Results -> Int] /\ \A q \in Results : crops'[q] >= -1
      /\ crops'[r] = n /\ \A q \in Results : q # r => crops'[q] = crops[q]
      /\ \A e : EntryOk(e) => EntryOk(e)' /\ e.result # r
      /\ \A c : CropOk(c) => CropOk(c)'
  BY <1>1, RouteKeepsOthers
<1>3. CascadeShape'
  <2>1. \A c \in CropsOf(r, n) : CropOk(c)'
    BY <1>2 DEF CropsOf, CropOk, Expected
  <2>2. DOMAIN routing' = Primaries /\ \A v \in Primaries :
          routing'[v] = IF v = w THEN CropsOf(r, n) ELSE routing[v]
    BY <1>1 DEF CascadeInv, CascadeShape
  <2>. QED
    BY <1>1, <1>2, <2>1, <2>2 DEF CascadeInv, CascadeShape
<1>4. EntryOk(new)' /\ new.result = r /\ new.got = {} /\ new.late = FALSE
  BY <1>2 DEF EntryOk
<1>5. Cardinality(new.got) = 0
  BY <1>4, FS_EmptySet
<1>. HIDE DEF new
<1>6. \A k \in DOMAIN pending : pending[k].result # r /\ pending[k].result \in Results
  BY <1>2 DEF CascadeInv, PendingOk, EntryOk
<1>7. \A e \in published : e.result # r /\ e.result \in Results
  BY <1>2 DEF CascadeInv, PublishedOk, EntryOk
<1>8. CASE n = 0
  <2>1. published' = published \cup {new} /\ UNCHANGED pending
    BY <1>1, <1>8 DEF registerPrimary, new
  <2>2. PendingOk'
    BY <1>2, <1>6, <2>1 DEF CascadeInv, PendingOk
  <2>3. PublishedOk'
    BY <1>2, <1>4, <1>5, <1>7, <1>8, <2>1 DEF CascadeInv, PublishedOk
  <2>4. OnePlace'
    BY <1>2, <1>4, <1>6, <1>7, <1>8, <2>1 DEF CascadeInv, OnePlace
  <2>. QED
    BY <1>3, <2>2, <2>3, <2>4 DEF CascadeInv
<1>9. CASE n # 0
  <2>1. KeyOf[r] \notin DOMAIN pending
    BY <1>6 DEF KeysDiffer, CascadeInv, PendingOk
  <2>2. UNCHANGED published
    BY <1>1, <1>9 DEF registerPrimary
  <2>3. /\ DOMAIN pending' = DOMAIN pending \cup {KeyOf[r]}
        /\ pending'[KeyOf[r]] = new
        /\ \A k \in DOMAIN pending : pending'[k] = pending[k]
    BY <1>1, <1>9, <2>1 DEF registerPrimary, new
  <2>4. PendingOk'
    <3>1. ASSUME NEW q \in DOMAIN pending
          PROVE  /\ EntryOk(pending[q])' /\ KeyOf[pending'[q].result] = q
                 /\ Cardinality(pending'[q].got) < crops'[pending'[q].result]
      BY <1>2, <1>6, <2>3, <3>1 DEF CascadeInv, PendingOk
    <3>2. /\ EntryOk(pending[KeyOf[r]])' /\ KeyOf[pending'[KeyOf[r]].result] = KeyOf[r]
          /\ Cardinality(pending'[KeyOf[r]].got) < crops'[pending'[KeyOf[r]].result]
      BY <1>2, <1>4, <1>5, <1>9, <2>3
    <3>. QED
      BY <2>3, <3>1, <3>2 DEF PendingOk
  <2>5. PublishedOk'
    BY <1>2, <1>7, <2>2 DEF CascadeInv, PublishedOk
  <2>6. OnePlace'
    BY <1>2, <1>4, <1>6, <1>7, <2>2, <2>3 DEF CascadeInv, OnePlace
  <2>. QED
    BY <1>3, <2>4, <2>5, <2>6 DEF CascadeInv
<1>. QED
  BY <1>8, <1>9

\* Nothing the merger's invariants speak of depends on anything but crops.
LEMMA SameCrops ==
  ASSUME UNCHANGED crops
  PROVE  \A e : (EntryOk(e) <=> EntryOk(e)') /\ (CropOk(e) <=> CropOk(e)')
BY DEF EntryOk, CropOk, Expected

\* Crops are sent, answered or lost.
LEMMA CropsTravel ==
  ASSUME CascadeInv, UNCHANGED <<crops, pending, published>>, DOMAIN routing' = Primaries,
         \A w \in Primaries : routing'[w] \subseteq routing[w],
         \A c \in asked' : c \in asked \/ \E w \in Primaries : c \in routing[w]
  PROVE  CascadeInv'
<1>1. CascadeShape'
  BY SameCrops DEF CascadeInv, CascadeShape
<1>2. PendingOk'
  BY SameCrops DEF CascadeInv, PendingOk
<1>3. PublishedOk'
  BY SameCrops DEF CascadeInv, PublishedOk
<1>4. OnePlace'
  BY DEF CascadeInv, OnePlace
<1>. QED
  BY <1>1, <1>2, <1>3, <1>4 DEF CascadeInv

\* An answer completes its entry, is kept for it, or comes too late.
LEMMA AnswerKeepsCascadeInv ==
  ASSUME KeysDiffer, CascadeInv, NEW c \in asked, AddAttribute(c)
  PROVE  CascadeInv'
<1>. DEFINE k == KeyOf[c.result]
            e == [pending[k] EXCEPT !.got = @ \cup {c}]
<1>1. UNCHANGED <<crops, routing>> /\ asked' = asked \ {c}
  BY DEF AddAttribute
<1>2. CASE k \notin DOMAIN pending
  BY <1>1, <1>2, CropsTravel DEF AddAttribute, CascadeInv, CascadeShape
<1>3. CASE k \in DOMAIN pending
  <2>1. /\ EntryOk(pending[k]) /\ KeyOf[pending[k].result] = k
        /\ Cardinality(pending[k].got) < crops[pending[k].result]
    BY <1>3 DEF CascadeInv, PendingOk
  <2>2. CropOk(c)
    BY DEF CascadeInv, CascadeShape
  <2>3. pending[k].result = c.result
    BY <2>1, <2>2 DEF KeysDiffer, EntryOk, CropOk
  <2>4. /\ e.result = c.result /\ e.late = pending[k].late /\ e.got = pending[k].got \cup {c}
        /\ e = [result |-> e.result, got |-> e.got, late |-> e.late]
    <3>. DEFINE g == pending[k].got  l == pending[k].late  old == pending[k]
    <3>1. old = [result |-> c.result, got |-> g, late |-> l]
      BY <2>1, <2>3 DEF EntryOk
    <3>. HIDE DEF old, g, l, k
    <3>2. [old EXCEPT !.got = @ \cup {c}] = [result |-> c.result, got |-> g \cup {c}, late |-> l]
      BY <3>1
    <3>3. e = [result |-> c.result, got |-> g \cup {c}, late |-> l]
      BY <3>2 DEF old
    <3>. HIDE DEF e
    <3>. QED
      BY <3>3 DEF g, l
  <2>5. EntryOk(e)
    BY <2>1, <2>2, <2>3, <2>4 DEF EntryOk, CropOk
  <2>6. Cardinality(e.got) \in Nat /\ Cardinality(e.got) <= crops[e.result]
    <3>1. crops[e.result] \in Nat /\ e.got \in SUBSET CropsOf(e.result, crops[e.result])
      BY <2>5 DEF EntryOk, Expected, CascadeInv, CascadeShape
    <3>2. /\ IsFiniteSet(CropsOf(e.result, crops[e.result]))
          /\ Cardinality(CropsOf(e.result, crops[e.result])) = crops[e.result]
      BY <3>1, CropsCount
    <3>3. IsFiniteSet(e.got) /\ Cardinality(e.got) <= crops[e.result]
      BY <3>1, <3>2, FS_Subset
    <3>. QED
      BY <3>3, FS_CardinalityType
  <2>7. crops[e.result] \in Int
    BY <2>5 DEF EntryOk, CascadeInv, CascadeShape
  <2>. HIDE DEF e, k
  <2>8. CascadeShape'
    BY <1>1, SameCrops DEF CascadeInv, CascadeShape
  <2>9. CASE Cardinality(e.got) >= crops[e.result]
    <3>1. published' = published \cup {e} /\ pending' = Without(pending, {k})
      BY <1>3, <2>9 DEF AddAttribute, e, k
    <3>2. /\ DOMAIN pending' = DOMAIN pending \ {k}
          /\ \A q \in DOMAIN pending' : pending'[q] = pending[q]
      BY <3>1 DEF Without
    <3>3. PendingOk'
      BY <1>1, <3>2, SameCrops DEF CascadeInv, PendingOk
    <3>4. Cardinality(e.got) = crops[e.result]
      BY <2>6, <2>7, <2>9
    <3>5. PublishedOk'
      BY <1>1, <2>5, <3>1, <3>4, SameCrops DEF CascadeInv, PublishedOk
    <3>6. \A q \in DOMAIN pending : pending[q].result = e.result => q = k
      BY <1>3, <2>1, <2>3, <2>4 DEF CascadeInv, PendingOk
    <3>7. OnePlace'
      <4>1. ASSUME NEW r \in Results
            PROVE  (\/ \E q \in DOMAIN pending : pending[q].result = r
                    \/ \E f \in published : f.result = r)
                   <=> (\/ \E q \in DOMAIN pending' : pending'[q].result = r
                        \/ \E f \in published' : f.result = r)
        BY <1>3, <2>3, <2>4, <3>1, <3>2, <3>6
      <4>2. \A q \in DOMAIN pending', f \in published' : pending'[q].result # f.result
        <5>1. ASSUME NEW q \in DOMAIN pending', NEW f \in published
              PROVE  pending'[q].result # f.result
          BY <3>2, <5>1 DEF CascadeInv, OnePlace
        <5>2. \A q \in DOMAIN pending' : pending'[q].result # e.result
          BY <3>2, <3>6
        <5>. QED
          BY <3>1, <5>1, <5>2
      <4>. QED
        BY <1>1, <4>1, <4>2 DEF CascadeInv, OnePlace
    <3>. QED
      BY <2>8, <3>3, <3>5, <3>7 DEF CascadeInv
  <2>10. CASE ~(Cardinality(e.got) >= crops[e.result])
    <3>1. UNCHANGED published /\ pending' = [pending EXCEPT ![k] = e]
      BY <1>3, <2>10 DEF AddAttribute, e, k
    <3>2. /\ DOMAIN pending' = DOMAIN pending /\ pending'[k] = e
          /\ \A q \in DOMAIN pending : q # k => pending'[q] = pending[q]
      BY <1>3, <3>1
    <3>3. Cardinality(e.got) < crops[e.result]
      BY <2>6, <2>7, <2>10
    <3>4. PendingOk'
      BY <1>1, <2>1, <2>3, <2>4, <2>5, <3>2, <3>3, SameCrops DEF CascadeInv, PendingOk
    <3>5. PublishedOk'
      BY <1>1, <3>1, SameCrops DEF CascadeInv, PublishedOk
    <3>6. \A q \in DOMAIN pending : pending'[q].result = pending[q].result
      BY <2>3, <2>4, <3>2
    <3>7. OnePlace'
      BY <1>1, <3>1, <3>2, <3>6 DEF CascadeInv, OnePlace
    <3>. QED
      BY <2>8, <3>4, <3>5, <3>7 DEF CascadeInv
  <2>. QED
    BY <2>9, <2>10
<1>. QED
  BY <1>2, <1>3

\* flushExpired moves the overdue entries from the merger to the publisher.
LEMMA FlushKeepsCascadeInv ==
  ASSUME KeysDiffer, CascadeInv, NEW w \in Primaries, FlushExpired(w)
  PROVE  CascadeInv'
<1>. DEFINE overdue == {k \in DOMAIN pending : pending[k].late}
<1>1. /\ UNCHANGED <<crops, routing, asked>> /\ pending' = Without(pending, overdue)
      /\ published' = published \cup {pending[k] : k \in overdue}
  BY DEF FlushExpired
<1>2. /\ DOMAIN pending' = DOMAIN pending \ overdue
      /\ \A k \in DOMAIN pending' : pending'[k] = pending[k]
  BY <1>1 DEF Without
<1>3. \A k, q \in DOMAIN pending : pending[k].result = pending[q].result => k = q
  BY DEF CascadeInv, PendingOk
<1>4. \A k \in overdue : k \in DOMAIN pending /\ pending[k].late
  OBVIOUS
<1>. HIDE DEF overdue
<1>5. CascadeShape'
  BY <1>1, SameCrops DEF CascadeInv, CascadeShape
<1>6. PendingOk'
  BY <1>1, <1>2, SameCrops DEF CascadeInv, PendingOk
<1>7. PublishedOk'
  <2>1. ASSUME NEW e, \E k \in overdue : e = pending[k]
        PROVE  EntryOk(e)' /\ e.late
    BY <1>1, <1>4, <2>1, SameCrops DEF CascadeInv, PendingOk
  <2>2. ASSUME NEW e \in published
        PROVE  EntryOk(e)' /\ (e.late \/ Cardinality(e.got) = crops'[e.result])
    BY <1>1, <2>2, SameCrops DEF CascadeInv, PublishedOk
  <2>. QED
    BY <1>1, <1>4, <2>1, <2>2 DEF PublishedOk
<1>8. OnePlace'
  <2>1. ASSUME NEW r \in Results
        PROVE  (\/ \E q \in DOMAIN pending : pending[q].result = r
                \/ \E f \in published : f.result = r)
               <=> (\/ \E q \in DOMAIN pending' : pending'[q].result = r
                    \/ \E f \in published' : f.result = r)
    BY <1>1, <1>2, <1>4
  <2>2. ASSUME NEW q \in DOMAIN pending', NEW f \in published
        PROVE  pending'[q].result # f.result
    BY <1>2, <2>2 DEF CascadeInv, OnePlace
  <2>3. \A q \in DOMAIN pending', k \in overdue : pending'[q].result # pending[k].result
    BY <1>2, <1>3, <1>4
  <2>4. \A q \in DOMAIN pending', f \in published' : pending'[q].result # f.result
    BY <1>1, <2>2, <2>3
  <2>. QED
    BY <1>1, <2>1, <2>4 DEF CascadeInv, OnePlace
<1>. QED
  BY <1>5, <1>6, <1>7, <1>8 DEF CascadeInv

\* An entry becomes overdue.
LEMMA DeadlineKeepsCascadeInv ==
  ASSUME CascadeInv, NEW k \in DOMAIN pending, DeadlinePasses(k)
  PROVE  CascadeInv'
<1>1. /\ UNCHANGED <<crops, routing, asked, published>>
      /\ pending' = [pending EXCEPT ![k].late = TRUE]
  BY DEF DeadlinePasses
<1>2. EntryOk(pending[k])
  BY DEF CascadeInv, PendingOk
<1>. DEFINE old == pending[k]  a == pending[k].result  g == pending[k].got
            l == pending[k].late  new == [result |-> a, got |-> g, late |-> TRUE]
<1>3. old = [result |-> a, got |-> g, late |-> l]
  BY <1>2 DEF EntryOk
<1>4. pending' = [pending EXCEPT ![k] = [old EXCEPT !.late = TRUE]]
  BY <1>1
<1>. HIDE DEF old, a, g, l
<1>5. [old EXCEPT !.late = TRUE] = new
  <2>1. \A t : [old EXCEPT !.late = t] = [result |-> a, got |-> g, late |-> t]
    BY <1>3
  <2>. QED
    BY <2>1, Zenon
<1>6. new.result = a /\ new.got = g /\ new.late = TRUE
  OBVIOUS
<1>7. EntryOk(new)
  BY <1>1, <1>2 DEF EntryOk, Expected, a, g
<1>. HIDE DEF new
<1>8. /\ DOMAIN pending' = DOMAIN pending /\ pending'[k] = new
      /\ \A q \in DOMAIN pending : q # k => pending'[q] = pending[q]
  BY <1>4, <1>5
<1>9. \A q \in DOMAIN pending : pending'[q].result = pending[q].result /\ pending'[q].got = pending[q].got
  BY <1>6, <1>8 DEF a, g
<1>10. CascadeShape'
  BY <1>1, SameCrops DEF CascadeInv, CascadeShape
<1>11. PendingOk'
  <2>1. \A q \in DOMAIN pending : EntryOk(pending[q])'
    BY <1>1, <1>7, <1>8, SameCrops DEF CascadeInv, PendingOk
  <2>. QED
    BY <1>1, <1>8, <1>9, <2>1 DEF CascadeInv, PendingOk
<1>12. PublishedOk'
  BY <1>1, SameCrops DEF CascadeInv, PublishedOk
<1>13. OnePlace'
  BY <1>1, <1>8, <1>9 DEF CascadeInv, OnePlace
<1>. QED
  BY <1>10, <1>11, <1>12, <1>13 DEF CascadeInv

\* For any number of primary threads, results and crops: a routed result is
\* merged or waits, never both; it goes out with answers to its own crops,
\* all of them unless it was overdue.  The keys of the results must differ
\* (ResultMerger.cpp, registerPrimary, addAttribute and flushExpired).
THEOREM MergeExact ==
  ASSUME KeysDiffer, MaxCrops \in Nat
  PROVE  CascadeSafety => []MergeIsExact
<1>1. CascadeInit => CascadeInv
  BY DEF CascadeInit, CascadeInv, CascadeShape, PendingOk, PublishedOk, OnePlace
<1>2. CascadeInv /\ [CascadeNext]_cascadeVars => CascadeInv'
  <2>. SUFFICES ASSUME CascadeInv, [CascadeNext]_cascadeVars PROVE CascadeInv'
    OBVIOUS
  <2>1. ASSUME NEW w \in Primaries, Dispatch(w) PROVE CascadeInv'
    <3>1. /\ UNCHANGED <<crops, pending, published>> /\ DOMAIN routing' = Primaries
          /\ \A v \in Primaries : routing'[v] \subseteq routing[v]
          /\ \A c \in asked' : c \in asked \/ \E v \in Primaries : c \in routing[v]
      BY <2>1 DEF Dispatch, CascadeInv, CascadeShape
    <3>. QED
      BY <3>1, CropsTravel
  <2>2. ASSUME NEW c \in asked, LoseCrop(c) PROVE CascadeInv'
    BY <2>2, CropsTravel DEF LoseCrop, CascadeInv, CascadeShape
  <2>3. CASE UNCHANGED cascadeVars
    BY <2>3, CropsTravel DEF cascadeVars, CascadeInv, CascadeShape
  <2>4. ASSUME NEW w \in Primaries, NEW r \in Results, NEW n \in 0..MaxCrops, Route(w, r, n)
        PROVE  CascadeInv'
    BY <2>4, RouteKeepsCascadeInv
  <2>. QED
    BY <2>1, <2>2, <2>3, <2>4, FlushKeepsCascadeInv, AnswerKeepsCascadeInv,
       DeadlineKeepsCascadeInv DEF CascadeNext
<1>3. CascadeInv => MergeIsExact
  <2>. SUFFICES ASSUME CascadeInv PROVE MergeIsExact
    OBVIOUS
  <2>. DEFINE waiting == {pending[k] : k \in DOMAIN pending}
              routed  == {r \in Results : crops[r] >= 0}
  <2>1. {e.result : e \in waiting \cup published} = routed
    BY DEF CascadeInv, PendingOk, PublishedOk, OnePlace, EntryOk
  <2>2. {e.result : e \in waiting} \cap {e.result : e \in published} = {}
    BY DEF CascadeInv, OnePlace
  <2>3. \A e \in published : /\ e.got \subseteq CropsOf(e.result, crops[e.result])
                             /\ e.late \/ Cardinality(e.got) = crops[e.result]
    BY DEF CascadeInv, PublishedOk, EntryOk, Expected
  <2>. QED
    BY <2>1, <2>2, <2>3 DEF MergeIsExact
<1>. QED
  BY <1>1, <1>2, <1>3, PTL DEF CascadeSafety

-----------------------------------------------------------------------------
(* Slicing.  First the geometry of a cut, then who holds which tile.       *)

\* The larger of two integers.
LEMMA MaxOfTwo ==
  ASSUME NEW a \in Int, NEW b \in Int
  PROVE  Max({a, b}) = IF a >= b THEN a ELSE b
<1>. DEFINE m == IF a >= b THEN a ELSE b
<1>1. m \in {a, b} /\ \A y \in {a, b} : m >= y
  OBVIOUS
<1>2. ASSUME NEW x \in {a, b}, \A y \in {a, b} : x >= y PROVE x = m
  BY <1>2
<1>. QED
  BY <1>1, <1>2 DEF Max

\* The smaller of two integers.
LEMMA MinOfTwo ==
  ASSUME NEW a \in Int, NEW b \in Int
  PROVE  Min({a, b}) = IF a <= b THEN a ELSE b
<1>. DEFINE m == IF a <= b THEN a ELSE b
<1>1. m \in {a, b} /\ \A y \in {a, b} : m <= y
  OBVIOUS
<1>2. ASSUME NEW x \in {a, b}, \A y \in {a, b} : x <= y PROVE x = m
  BY <1>2
<1>. QED
  BY <1>1, <1>2 DEF Min

\* A tile that lies in a frame of width full.
RectOk(r, full) ==
    r = [x |-> r.x, w |-> r.w] /\ r.x \in Nat /\ r.w \in Nat \ {0} /\ r.x + r.w <= full

\* A frame has only so many places for a tile.
LEMMA RectsFinite ==
  ASSUME NEW full \in Nat, NEW rects, \A r \in rects : RectOk(r, full)
  PROVE  IsFiniteSet(rects)
<1>. DEFINE pairs == (0..full) \X (0..full)
            T == {[x |-> p[1], w |-> p[2]] : p \in pairs}
            f == [p \in pairs |-> [x |-> p[1], w |-> p[2]]]
<1>1. IsFiniteSet(pairs)
  <2>1. IsFiniteSet(0..full)
    BY FS_Interval
  <2>. QED
    BY <2>1, FS_Product
<1>2. f \in Surjection(pairs, T)
  BY DEF Surjection
<1>3. IsFiniteSet(T)
  <2>. HIDE DEF f, pairs, T
  <2>. QED BY <1>1, <1>2, FS_Surjection
<1>4. ASSUME NEW r \in rects PROVE r \in T
  <2>1. r.x \in 0..full /\ r.w \in 0..full /\ r = [x |-> r.x, w |-> r.w]
    BY DEF RectOk
  <2>2. <<r.x, r.w>> \in pairs /\ r = [x |-> <<r.x, r.w>>[1], w |-> <<r.x, r.w>>[2]]
    BY <2>1
  <2>. QED
    BY <2>2
<1>. QED
  <2>. HIDE DEF T
  <2>. QED BY <1>3, <1>4, FS_Subset

\* A tile is not wider than the frame, and the stride not longer than a tile
\* unless the ratio is negative.
LEMMA StrideFits ==
  ASSUME NEW full \in Nat \ {0}
  PROVE  /\ SafeTile(full) \in Nat \ {0} /\ SafeTile(full) = Min({TileWidth, full})
         /\ Stride(full) \in Nat \ {0}
         /\ Overlap \in Nat => Stride(full) <= SafeTile(full)
<1>1. SafeTile(full) = IF TileWidth <= full THEN TileWidth ELSE full
  BY SahiAssumption, MaxOfTwo, MinOfTwo DEF SafeTile
<1>2. SafeTile(full) \in Nat \ {0} /\ SafeTile(full) = Min({TileWidth, full})
  BY <1>1, SahiAssumption, MinOfTwo
<1>. DEFINE t == SafeTile(full)
            o == (2 * t * Overlap + 100) \div 200
<1>3. o \in Int /\ (Overlap \in Nat => o \in Nat)
  <2>. DEFINE a == 2 * t * Overlap
  <2>1. a \in Int /\ (Overlap \in Nat => a >= 0)
    BY <1>2, SahiAssumption
  <2>. HIDE DEF a
  <2>2. (a + 100) \div 200 \in Int /\ (a >= 0 => (a + 100) \div 200 >= 0)
    BY <2>1
  <2>. QED
    BY <2>1, <2>2 DEF a
<1>4. Stride(full) = Max({1, t - o})
  BY DEF Stride
<1>. HIDE DEF o, t
<1>5. t \in Nat \ {0}
  BY <1>2 DEF t
<1>6. Max({1, t - o}) = IF 1 >= t - o THEN 1 ELSE t - o
  BY <1>3, <1>5, MaxOfTwo
<1>7. Stride(full) \in Nat \ {0} /\ (Overlap \in Nat => Stride(full) <= t)
  BY <1>3, <1>4, <1>5, <1>6
<1>. QED
  BY <1>2, <1>7 DEF t

\* makeFullTiles stays inside the frame.
LEMMA FullTilesFit ==
  ASSUME NEW full \in Nat \ {0}
  PROVE  /\ \A r \in makeFullTiles(full) : RectOk(r, full)
         /\ makeFullTiles(full) # {}
<1>1. ASSUME NEW k \in 0..full, k * Stride(full) < full
      PROVE  Min({k * Stride(full), full - SafeTile(full)}) \in 0..(full - 1)
  <2>0. SafeTile(full) = Min({TileWidth, full}) /\ Stride(full) \in Nat \ {0}
    BY StrideFits
  <2>1. SafeTile(full) \in 1..full /\ Stride(full) \in Nat \ {0}
    BY <2>0, MinOfTwo, SahiAssumption
  <2>2. k * Stride(full) \in Nat
    BY <2>1
  <2>. QED
    BY <1>1, <2>1, <2>2, MinOfTwo
<1>2. \A x \in makeAxisStarts(full) : x \in 0..(full - 1)
  BY <1>1 DEF makeAxisStarts
<1>3. ASSUME NEW x \in 0..(full - 1)
      PROVE  RectOk([x |-> x, w |-> Min({TileWidth, full - x})], full)
  BY <1>3, SahiAssumption, MinOfTwo DEF RectOk
<1>4. \E x : x \in makeAxisStarts(full)
  <2>0. Stride(full) \in Nat
    BY StrideFits
  <2>1. 0 \in 0..full /\ 0 * Stride(full) = 0
    BY <2>0
  <2>2. 0 \in {y \in {k * Stride(full) : k \in 0..full} : y < full}
    BY <2>1
  <2>. QED
    BY <2>2 DEF makeAxisStarts
<1>. QED
  BY <1>2, <1>3, <1>4 DEF makeFullTiles

\* And leaves no pixel out.
LEMMA FullTilesCover ==
  ASSUME NEW full \in Nat \ {0}, Overlap \in Nat, NEW p \in 0..(full - 1)
  PROVE  \E r \in makeFullTiles(full) : p \in r.x..(r.x + r.w - 1)
<1>. DEFINE t == SafeTile(full)
            s == Stride(full)
            k == p \div s
            y == k * s
            x == Min({y, full - t})
            r == [x |-> x, w |-> Min({TileWidth, full - x})]
<1>1. t \in Nat \ {0} /\ t = Min({TileWidth, full}) /\ s \in Nat \ {0} /\ s <= t
  BY StrideFits
<1>2. k \in 0..full /\ y \in Nat /\ y <= p /\ p < y + s
  <2>. HIDE DEF s, t
  <2>0. p \in Nat /\ s \in Nat \ {0}
    BY <1>1
  <2>1. k \in Nat /\ p = s * k + (p % s) /\ p % s \in 0..(s - 1)
    BY <2>0, SMTT(30)
  <2>2. y = s * k /\ y \in Nat
    BY <2>0, <2>1
  <2>3. k <= p
    BY <2>0, <2>1
  <2>. QED
    BY <2>0, <2>1, <2>2, <2>3
<1>3. r \in makeFullTiles(full)
  <2>1. y \in {z \in {i * Stride(full) : i \in 0..full} : z < full}
    BY <1>2
  <2>2. x \in makeAxisStarts(full)
    BY <2>1 DEF makeAxisStarts
  <2>. QED
    BY <2>2 DEF makeFullTiles
<1>4. p \in r.x..(r.x + r.w - 1)
  <2>. HIDE DEF s, t, y
  <2>1. t = IF TileWidth <= full THEN TileWidth ELSE full
    BY <1>1, MinOfTwo, SahiAssumption
  <2>2. x = IF y <= full - t THEN y ELSE full - t
    BY <1>1, <1>2, MinOfTwo
  <2>3. x \in Int
    BY <1>1, <1>2, <2>2
  <2>. HIDE DEF x
  <2>4. Min({TileWidth, full - x}) = IF TileWidth <= full - x THEN TileWidth ELSE full - x
    BY <2>3, MinOfTwo, SahiAssumption
  <2>5. r.x = x /\ r.w = IF TileWidth <= full - x THEN TileWidth ELSE full - x
    BY <2>4
  <2>. HIDE DEF r
  <2>. QED
    BY <1>1, <1>2, <2>1, <2>2, <2>3, <2>5, SahiAssumption
<1>. QED
  BY <1>3, <1>4

\* The boxes the registry and the merge stage keep.
DetOk(d) == d.x1 \in Int /\ d.x2 \in Int

\* Tiles around detections lie inside the picture.
LEMMA RoiTilesFit ==
  ASSUME NEW full \in Nat \ {0}, NEW dets, \A d \in dets : DetOk(d)
  PROVE  \A r \in makeRoiTiles(full, dets) : RectOk(r, full)
<1>. DEFINE want(d)   == Max({MinRoi * 100, Max({1, d.x2 - d.x1}) * RoiExpand})
            x(d)      == Max({0, ((d.x1 + d.x2) * 100 - want(d)) \div 200})
            width(d)  == Min({(want(d) + 99) \div 100, full - x(d)})
<1>1. ASSUME NEW d \in dets, width(d) > 0
      PROVE  RectOk([x |-> x(d), w |-> width(d)], full)
  <2>1. d.x1 \in Int /\ d.x2 \in Int
    BY DEF DetOk
  <2>2. Max({1, d.x2 - d.x1}) \in Int
    BY <2>1, MaxOfTwo
  <2>3. want(d) \in Int
    BY <2>2, MaxOfTwo, SahiAssumption
  <2>4. x(d) \in Nat
    <3>. HIDE DEF want
    <3>1. ((d.x1 + d.x2) * 100 - want(d)) \div 200 \in Int
      BY <2>1, <2>3
    <3>. QED
      BY <3>1, MaxOfTwo
  <2>5. width(d) \in Int /\ width(d) <= full - x(d)
    <3>. HIDE DEF want, x
    <3>1. (want(d) + 99) \div 100 \in Int
      BY <2>3
    <3>. QED
      BY <3>1, <2>4, MinOfTwo
  <2>. HIDE DEF x, width
  <2>. QED
    BY <1>1, <2>4, <2>5 DEF RectOk
<1>2. makeRoiTiles(full, dets) = {r \in {[x |-> x(d), w |-> width(d)] : d \in dets} : r.w > 0}
  BY DEF makeRoiTiles
<1>. HIDE DEF x, width
<1>. QED
  BY <1>1, <1>2

\* Whatever the pass, the tiles lie in the frame, and a full one covers it.
LEMMA TilesFit ==
  ASSUME NEW full \in Nat \ {0}, NEW pass, NEW dets, \A d \in dets : DetOk(d)
  PROVE  /\ \A r \in makeTiles(pass, full, dets) : RectOk(r, full)
         /\ pass \in {"full", "fallback"} => makeTiles(pass, full, dets) = makeFullTiles(full)
<1>1. RectOk([x |-> 0, w |-> full], full)
  BY DEF RectOk
<1>. QED
  BY <1>1, FullTilesFit, RoiTilesFit DEF makeTiles

\* The place of a tile in the order from the left is its own.
LEMMA Ranks ==
  ASSUME NEW full \in Nat, NEW rects, \A r \in rects : RectOk(r, full)
  PROVE  /\ IsFiniteSet(rects)
         /\ \A r \in rects : Cardinality(Before(r, rects)) \in 0..(Cardinality(rects) - 1)
         /\ \A r, q \in rects : Cardinality(Before(r, rects)) = Cardinality(Before(q, rects)) => r = q
<1>1. IsFiniteSet(rects) /\ Cardinality(rects) \in Nat
  BY RectsFinite, FS_CardinalityType
<1>2. ASSUME NEW r \in rects
      PROVE  /\ IsFiniteSet(Before(r, rects)) /\ Cardinality(Before(r, rects)) \in Nat
             /\ r \notin Before(r, rects)
  <2>1. Before(r, rects) \in SUBSET rects
    BY DEF Before
  <2>2. r \notin Before(r, rects)
    BY DEF Before, RectOk
  <2>. QED
    BY <1>1, <2>1, <2>2, FS_Subset, FS_CardinalityType
<1>3. ASSUME NEW r \in rects, NEW S \in SUBSET rects, Before(r, rects) \cup {r} \subseteq S
      PROVE  Cardinality(Before(r, rects)) < Cardinality(S)
  <2>. DEFINE B == Before(r, rects)
  <2>1. Cardinality(B \cup {r}) = Cardinality(B) + 1
    BY <1>2, FS_AddElement
  <2>2. IsFiniteSet(S) /\ Cardinality(S) \in Nat
    BY <1>1, FS_Subset, FS_CardinalityType
  <2>3. Cardinality(B \cup {r}) <= Cardinality(S)
    BY <1>3, <2>2, FS_Subset
  <2>. HIDE DEF B
  <2>4. Cardinality(B) \in Nat
    BY <1>2 DEF B
  <2>5. Cardinality(B) < Cardinality(S)
    BY <2>1, <2>2, <2>3, <2>4
  <2>. QED
    BY <2>5 DEF B
<1>4. ASSUME NEW r \in rects PROVE Cardinality(Before(r, rects)) \in 0..(Cardinality(rects) - 1)
  <2>1. Before(r, rects) \cup {r} \subseteq rects
    BY DEF Before
  <2>. QED
    BY <1>1, <1>2, <1>3, <2>1
<1>5. ASSUME NEW r \in rects, NEW q \in rects, q \in Before(r, rects)
      PROVE  Cardinality(Before(q, rects)) < Cardinality(Before(r, rects))
  <2>1. Before(q, rects) \cup {q} \subseteq Before(r, rects)
    BY <1>5 DEF Before, RectOk
  <2>2. Before(r, rects) \in SUBSET rects
    BY DEF Before
  <2>. QED
    BY <1>3, <2>1, <2>2
<1>6. ASSUME NEW r \in rects, NEW q \in rects, r # q
      PROVE  q \in Before(r, rects) \/ r \in Before(q, rects)
  BY <1>6 DEF Before, RectOk
<1>7. ASSUME NEW r \in rects, NEW q \in rects,
             Cardinality(Before(r, rects)) = Cardinality(Before(q, rects))
      PROVE  r = q
  <2>1. Cardinality(Before(r, rects)) \in Nat /\ Cardinality(Before(q, rects)) \in Nat
    BY <1>2
  <2>. QED
    BY <1>5, <1>6, <1>7, <2>1
<1>. QED
  BY <1>1, <1>4, <1>7

\* So the tiles a frame is given are some of the tiles of its pass, and all of
\* them when there are not too many.
LEMMA FirstTiles ==
  ASSUME NEW full \in Nat, NEW rects, \A r \in rects : RectOk(r, full)
  PROVE  /\ IsFiniteSet(DOMAIN firstTiles(rects))
         /\ \A i \in DOMAIN firstTiles(rects) : firstTiles(rects)[i] \in rects
         /\ ~(Cardinality(rects) > MaxTiles) =>
              \A r \in rects : \E i \in DOMAIN firstTiles(rects) : firstTiles(rects)[i] = r
<1>. DEFINE n == Cardinality(rects)
            rank == [r \in rects |-> Cardinality(Before(r, rects))]
            D == {j \in 0..(MaxTiles - 1) : j < n}
<1>1. /\ IsFiniteSet(rects) /\ n \in Nat
      /\ \A r \in rects : rank[r] \in 0..(n - 1)
      /\ \A r, q \in rects : rank[r] = rank[q] => r = q
  BY Ranks, FS_CardinalityType
<1>2. DOMAIN firstTiles(rects) = D
  BY DEF firstTiles
<1>3. \A i \in D : firstTiles(rects)[i] = CHOOSE r \in rects : rank[r] = i
  BY DEF firstTiles
<1>4. IsFiniteSet(D)
  <2>1. IsFiniteSet(0..(MaxTiles - 1))
    BY SahiAssumption, FS_Interval
  <2>. QED
    BY <2>1, FS_Subset
<1>5. \A i \in 0..(n - 1) : \E r \in rects : rank[r] = i
  <2>1. rank \in Injection(rects, 0..(n - 1))
    <3>. HIDE DEF n
    <3>1. rank \in [rects -> 0..(n - 1)]
      BY <1>1
    <3>. QED
      BY <3>1, <1>1 DEF Injection, IsInjective
  <2>2. IsFiniteSet(0..(n - 1)) /\ Cardinality(0..(n - 1)) = n
    BY <1>1, FS_Interval
  <2>. HIDE DEF rank
  <2>3. rank \in Surjection(rects, 0..(n - 1))
    BY <2>1, <2>2, FS_Injection
  <2>. QED
    BY <2>3 DEF Surjection
<1>. HIDE DEF rank, n, D
<1>6. ASSUME NEW i \in D PROVE firstTiles(rects)[i] \in rects /\ rank[firstTiles(rects)[i]] = i
  <2>1. i \in 0..(n - 1)
    BY <1>1 DEF D
  <2>2. PICK r \in rects : rank[r] = i
    BY <1>5, <2>1
  <2>. QED
    BY <1>3, <2>2
<1>7. ASSUME ~(n > MaxTiles), NEW r \in rects
      PROVE  \E i \in D : firstTiles(rects)[i] = r
  <2>1. rank[r] \in D
    BY <1>1, <1>7, SahiAssumption DEF D
  <2>. QED
    BY <1>1, <1>6, <2>1
<1>. QED
  BY <1>2, <1>4, <1>6, <1>7 DEF n

Pixels(r) == r.x..(r.x + r.w - 1)

\* How a frame was cut: inside it, and whole if it was to be.
CutOk(c) ==
    /\ c.full \in Nat \ {0} /\ IsFiniteSet(DOMAIN c.rects)
    /\ \A i \in DOMAIN c.rects : RectOk(c.rects[i], c.full)
    /\ Overlap \in Nat /\ c.pass \in {"full", "fallback"} /\ ~c.capped =>
         \A p \in 0..(c.full - 1) : \E i \in DOMAIN c.rects : p \in Pixels(c.rects[i])

\* Every cut the slicer schedules is a good one.
LEMMA ScheduledCut ==
  ASSUME NEW seq, NEW full \in Nat \ {0}, NEW pass, NEW dets, \A d \in dets : DetOk(d)
  PROVE  LET all == makeTiles(pass, full, dets)
         IN  CutOk([seq |-> seq, full |-> full, pass |-> pass, rects |-> firstTiles(all),
                    capped |-> Cardinality(all) > MaxTiles])
<1>. DEFINE all == makeTiles(pass, full, dets)
            rects == firstTiles(all)
<1>1. \A r \in all : RectOk(r, full)
  BY TilesFit
<1>2. pass \in {"full", "fallback"} => all = makeFullTiles(full)
  BY TilesFit
<1>. HIDE DEF all
<1>3. /\ IsFiniteSet(DOMAIN rects) /\ \A i \in DOMAIN rects : rects[i] \in all
      /\ ~(Cardinality(all) > MaxTiles) => \A r \in all : \E i \in DOMAIN rects : rects[i] = r
  BY <1>1, FirstTiles
<1>. HIDE DEF rects
<1>4. ASSUME Overlap \in Nat, pass \in {"full", "fallback"}, ~(Cardinality(all) > MaxTiles),
             NEW p \in 0..(full - 1)
      PROVE  \E i \in DOMAIN rects : p \in Pixels(rects[i])
  <2>1. PICK r \in all : p \in Pixels(r)
    BY <1>2, <1>4, FullTilesCover DEF Pixels
  <2>. QED
    BY <1>3, <1>4, <2>1
<1>. DEFINE c == [seq |-> seq, full |-> full, pass |-> pass, rects |-> rects,
                   capped |-> Cardinality(all) > MaxTiles]
<1>5. c.full = full /\ c.pass = pass /\ c.rects = rects /\ (c.capped <=> Cardinality(all) > MaxTiles)
  OBVIOUS
<1>6. CutOk(c)
  <2>. HIDE DEF c
  <2>. QED BY <1>1, <1>3, <1>4, <1>5 DEF CutOk
<1>. QED
  BY <1>6 DEF all, rects

\* The tiles frame f was cut into; a tile of frame number q that is not on its
\* way any more.
Asked(f) == {f} \X DOMAIN cut[f].rects
Arrived(t, q) ==
    /\ t[1] \in 1..Len(cut) /\ t \in Asked(t[1])
    /\ cut[t[1]].seq = q /\ t \notin tiles

\* An entry of the merge stage: answers to tiles of its number, and as many
\* expected as some frame of that number has.
GatheringOk(q) ==
    /\ DOMAIN gathering[q] = {"seq", "got", "n", "dets", "late"}
    /\ gathering[q].seq = q
    /\ \A t \in gathering[q].got : Arrived(t, q)
    /\ \E f \in 1..Len(cut) : cut[f].seq = q /\ gathering[q].n = Cardinality(DOMAIN cut[f].rects)
    /\ \A d \in gathering[q].dets : DetOk(d)

\* A result: whole if its number is one frame's only.
MergedOk(e) ==
    /\ e = [seq |-> e.seq, got |-> e.got]
    /\ e.got # {} /\ \A t \in e.got : Arrived(t, e.seq)
    /\ \A f \in 1..Len(cut) :
         (\A g \in 1..Len(cut) : cut[g].seq = e.seq <=> g = f) => e.got = Asked(f)

\* No answer is in two results, or in one and in an entry.
Apart ==
    /\ \A e, f \in merged : e # f => e.got \cap f.got = {}
    /\ \A q \in DOMAIN gathering, e \in merged : gathering[q].got \cap e.got = {}

SahiInv ==
    /\ \E S : cut \in Seq(S)
    /\ \A q \in 1..Len(cut) : CutOk(cut[q])
    /\ \A t \in tiles : t[1] \in 1..Len(cut) /\ t \in Asked(t[1])
    /\ \A q \in DOMAIN gathering : GatheringOk(q)
    /\ \A e \in merged : MergedOk(e)
    /\ Apart
    /\ \A d \in roi.dets : DetOk(d)

\* A new frame changes nothing about the ones before it.
LEMMA ScheduleKeepsSahiInv ==
  ASSUME SahiInv, NEW full \in Widths, NEW idle \in BOOLEAN, NEW reopened \in BOOLEAN,
         Schedule(full, idle, reopened)
  PROVE  SahiInv'
<1>. DEFINE seq   == IF reopened THEN 0 ELSE nextSeq
            s     == [(IF idle THEN Fresh ELSE stream) EXCEPT !.count = @ + 1]
            r     == IF idle THEN NoRoi ELSE roi
            pass  == PassOf(s, r, seq)
            all   == makeTiles(pass, full, r.dets)
            c     == [seq |-> seq, full |-> full, pass |-> pass, rects |-> firstTiles(all),
                      capped |-> Cardinality(all) > MaxTiles]
            new   == Len(cut) + 1
<1>1. /\ roi' = r /\ cut' = Append(cut, c)
      /\ tiles' = tiles \cup {<<new, i>> : i \in DOMAIN firstTiles(all)}
      /\ UNCHANGED <<gathering, merged>>
  BY DEF Schedule
<1>2. \A d \in r.dets : DetOk(d)
  BY DEF SahiInv, NoRoi
<1>3. CutOk(c)
  <2>1. full \in Nat \ {0}
    BY SahiAssumption
  <2>. HIDE DEF pass, r, seq
  <2>. QED
    BY <1>2, <2>1, ScheduledCut
<1>4. c.rects = firstTiles(all)
  OBVIOUS
<1>. HIDE DEF c, all, pass, s, seq
<1>5. PICK S : cut \in Seq(S)
  BY DEF SahiInv
<1>6. cut \in Seq(S \cup {c}) /\ Len(cut) \in Nat
  BY <1>5
<1>7. /\ cut' \in Seq(S \cup {c}) /\ Len(cut') = new
      /\ \A q \in 1..Len(cut) : cut'[q] = cut[q]
      /\ cut'[new] = c
  BY <1>1, <1>6
<1>8. 1..Len(cut') = 1..Len(cut) \cup {new} /\ new \notin 1..Len(cut)
  BY <1>6, <1>7
<1>. HIDE DEF new
<1>9. /\ \A q \in 1..Len(cut) : {q} \X DOMAIN cut'[q].rects = Asked(q)
      /\ {new} \X DOMAIN cut'[new].rects = {new} \X DOMAIN firstTiles(all)
  BY <1>4, <1>7 DEF Asked
<1>10. \A t \in tiles' : t \in tiles \/ (t[1] = new /\ t \in {new} \X DOMAIN firstTiles(all))
  BY <1>1
<1>11. \A q \in 1..Len(cut') : CutOk(cut'[q])
  BY <1>3, <1>7, <1>8 DEF SahiInv
<1>12. \A t \in tiles' : t[1] \in 1..Len(cut') /\ t \in {t[1]} \X DOMAIN cut'[t[1]].rects
  BY <1>8, <1>9, <1>10 DEF SahiInv
<1>13. ASSUME NEW t, NEW q, Arrived(t, q) PROVE Arrived(t, q)'
  <2>1. t[1] \in 1..Len(cut) /\ t \in Asked(t[1]) /\ cut[t[1]].seq = q /\ t \notin tiles
    BY <1>13 DEF Arrived
  <2>2. t[1] \in 1..Len(cut') /\ t \in Asked(t[1])' /\ cut'[t[1]].seq = q
    BY <1>7, <1>8, <1>9, <2>1 DEF Asked
  <2>3. t \notin tiles'
    BY <1>8, <1>10, <2>1
  <2>. QED
    BY <2>2, <2>3 DEF Arrived
<1>14. ASSUME NEW q \in DOMAIN gathering' PROVE GatheringOk(q)'
  <2>1. GatheringOk(q)
    BY <1>1 DEF SahiInv
  <2>2. PICK f \in 1..Len(cut) : cut[f].seq = q /\ gathering[q].n = Cardinality(DOMAIN cut[f].rects)
    BY <2>1 DEF GatheringOk
  <2>3. f \in 1..Len(cut') /\ cut'[f] = cut[f]
    BY <1>7, <1>8
  <2>4. \A t \in gathering'[q].got : Arrived(t, q)'
    BY <1>1, <1>13, <2>1 DEF GatheringOk
  <2>. QED
    BY <1>1, <2>1, <2>2, <2>3, <2>4 DEF GatheringOk
<1>15. ASSUME NEW e \in merged' PROVE MergedOk(e)'
  <2>1. MergedOk(e)
    BY <1>1 DEF SahiInv
  <2>2. PICK t \in e.got : Arrived(t, e.seq)
    BY <2>1 DEF MergedOk
  <2>3. t[1] \in 1..Len(cut) /\ cut[t[1]].seq = e.seq
    BY <2>2 DEF Arrived
  <2>4. ASSUME NEW f \in 1..Len(cut'), \A g \in 1..Len(cut') : cut'[g].seq = e.seq <=> g = f
        PROVE  e.got = Asked(f)'
    <3>1. f = t[1]
      BY <1>7, <1>8, <2>3, <2>4
    <3>2. \A g \in 1..Len(cut) : cut[g].seq = e.seq <=> g = f
      BY <1>7, <1>8, <2>4
    <3>3. e.got = Asked(f)
      BY <2>1, <2>3, <3>1, <3>2 DEF MergedOk
    <3>. QED
      BY <1>9, <2>3, <3>1, <3>3 DEF Asked
  <2>5. \A u \in e.got : Arrived(u, e.seq)'
    BY <1>13, <2>1 DEF MergedOk
  <2>. QED
    BY <2>1, <2>4, <2>5 DEF MergedOk
<1>16. Apart' /\ (\E T : cut' \in Seq(T))
  BY <1>1, <1>7 DEF SahiInv, Apart
<1>17. \A d \in roi'.dets : DetOk(d)
  BY <1>1, <1>2
<1>. QED
  BY <1>11, <1>12, <1>14, <1>15, <1>16, <1>17 DEF SahiInv, Asked

\* Of the detections of a frame runNms keeps some.
LEMMA NmsKeeps ==
  ASSUME NEW dets, \A d \in dets : DetOk(d)
  PROVE  \A d \in runNms(dets) : DetOk(d)
  BY DEF runNms

\* The answer to a tile is put with the others of its number; the last one that
\* lacks makes the set whole.
LEMMA MergeKeepsSahiInv ==
  ASSUME SahiInv, NEW t \in tiles, NEW hit \in BOOLEAN, Merge(t, hit)
  PROVE  SahiInv'
<1>. DEFINE num   == cut[t[1]].seq
            rects == cut[t[1]].rects
            start == [seq |-> num, got |-> {}, n |-> Cardinality(DOMAIN rects), dets |-> {}, late |-> FALSE]
            old   == IF num \in DOMAIN Swept THEN Swept[num] ELSE start
            dets  == IF hit THEN {[x1 |-> rects[t[2]].x, x2 |-> rects[t[2]].x + Min({2, rects[t[2]].w}), conf |-> t[2]]}
                     ELSE {}
            entry == [old EXCEPT !.got = @ \cup {t}, !.dets = @ \cup dets]
<1>a. /\ tiles' = tiles \ {t} /\ UNCHANGED <<nextSeq, stream, cut>>
      /\ \/ /\ Cardinality(entry.got) >= entry.n
            /\ gathering' = [q \in DOMAIN Swept \ {num} |-> Swept[q]]
            /\ merged' = merged \cup {[seq |-> entry.seq, got |-> entry.got]}
            /\ roi' = [seq |-> entry.seq, dets |-> runNms(entry.dets)]
         \/ /\ gathering' = [q \in DOMAIN Swept \cup {num} |-> IF q = num THEN entry ELSE Swept[q]]
            /\ UNCHANGED <<merged, roi>>
  BY DEF Merge, GatherKey
<1>2. t[1] \in 1..Len(cut) /\ t \in Asked(t[1]) /\ CutOk(cut[t[1]])
  BY DEF SahiInv
<1>3. DOMAIN Swept \subseteq DOMAIN gathering /\ \A q \in DOMAIN Swept : Swept[q] = gathering[q]
  BY DEF Swept
<1>b. /\ DOMAIN old = {"seq", "got", "n", "dets", "late"}
      /\ old.seq = num /\ \A u \in old.got : Arrived(u, num)
      /\ \E f \in 1..Len(cut) : cut[f].seq = num /\ old.n = Cardinality(DOMAIN cut[f].rects)
      /\ \A d \in old.dets : DetOk(d)
      /\ \A f \in merged : old.got \cap f.got = {}
  <2>1. CASE num \in DOMAIN Swept
    <3>1. GatheringOk(num) /\ old = gathering[num] /\ num \in DOMAIN gathering
      BY <1>3, <2>1 DEF SahiInv
    <3>. QED
      BY <3>1 DEF GatheringOk, SahiInv, Apart
  <2>2. CASE num \notin DOMAIN Swept
    <3>1. old = start
      BY <2>2
    <3>2. /\ DOMAIN old = {"seq", "got", "n", "dets", "late"} /\ old.seq = num /\ old.got = {}
          /\ old.dets = {} /\ old.n = Cardinality(DOMAIN cut[t[1]].rects)
      BY <3>1
    <3>. QED
      BY <1>2, <3>2
  <2>. QED
    BY <2>1, <2>2
<1>5. \A d \in dets : DetOk(d)
  <2>1. t[2] \in DOMAIN rects
    BY <1>2 DEF Asked
  <2>2. RectOk(rects[t[2]], cut[t[1]].full)
    BY <1>2, <2>1 DEF CutOk
  <2>. HIDE DEF rects
  <2>3. rects[t[2]].x \in Int /\ rects[t[2]].w \in Int
    BY <2>2 DEF RectOk
  <2>4. Min({2, rects[t[2]].w}) \in Int
    <3>1. \A a \in Int : Min({2, a}) \in Int
      BY MinOfTwo
    <3>. QED
      BY <2>3, <3>1
  <2>. QED
    BY <2>3, <2>4 DEF DetOk
<1>. HIDE DEF old, dets
<1>c. /\ DOMAIN entry = {"seq", "got", "n", "dets", "late"}
      /\ entry.seq = num /\ entry.n = old.n
      /\ entry.got = old.got \cup {t} /\ entry.dets = old.dets \cup dets
  BY <1>b
<1>. HIDE DEF entry
<1>k. PICK k : k = num
  OBVIOUS
<1>e. PICK e : e = entry
  OBVIOUS
<1>o. PICK before : before = old
  OBVIOUS
<1>1. /\ tiles' = tiles \ {t} /\ UNCHANGED <<nextSeq, stream, cut>>
      /\ \/ /\ Cardinality(e.got) >= e.n
            /\ gathering' = [q \in DOMAIN Swept \ {k} |-> Swept[q]]
            /\ merged' = merged \cup {[seq |-> e.seq, got |-> e.got]}
            /\ roi' = [seq |-> e.seq, dets |-> runNms(e.dets)]
         \/ /\ gathering' = [q \in DOMAIN Swept \cup {k} |-> IF q = k THEN e ELSE Swept[q]]
            /\ UNCHANGED <<merged, roi>>
  BY <1>a, <1>k, <1>e
<1>4. /\ before.seq = k /\ \A u \in before.got : Arrived(u, k)
      /\ \E f \in 1..Len(cut) : cut[f].seq = k /\ before.n = Cardinality(DOMAIN cut[f].rects)
      /\ \A d \in before.dets : DetOk(d)
      /\ \A f \in merged : before.got \cap f.got = {}
  BY <1>b, <1>k, <1>o
<1>6. /\ DOMAIN e = {"seq", "got", "n", "dets", "late"}
      /\ e.seq = k /\ e.n = before.n
      /\ e.got = before.got \cup {t} /\ e.dets = before.dets \cup dets
  BY <1>c, <1>k, <1>e, <1>o
<1>7. ASSUME NEW u, NEW q, Arrived(u, q) PROVE Arrived(u, q)'
  BY <1>1, <1>7 DEF Arrived, Asked
<1>8. Arrived(t, k)'
  BY <1>1, <1>2, <1>k DEF Arrived, Asked
<1>. HIDE DEF num, rects, start
<1>9. /\ \A u \in e.got : Arrived(u, k)'
      /\ \E f \in 1..Len(cut) : cut[f].seq = k /\ e.n = Cardinality(DOMAIN cut[f].rects)
      /\ \A d \in e.dets : DetOk(d)
  BY <1>4, <1>5, <1>6, <1>7, <1>8
<1>10. \A f \in merged : e.got \cap f.got = {}
  <2>1. \A f \in merged : t \notin f.got
    BY DEF SahiInv, MergedOk, Arrived
  <2>. QED
    BY <1>4, <1>6, <2>1
<1>11. \A q : Asked(q)' = Asked(q)
  BY <1>1 DEF Asked
<1>12. ASSUME NEW f \in 1..Len(cut), \A g \in 1..Len(cut) : cut[g].seq = k <=> g = f,
              Cardinality(e.got) >= e.n
       PROVE  e.got = Asked(f)
  <2>1. CutOk(cut[f]) /\ e.n = Cardinality(DOMAIN cut[f].rects)
    BY <1>9, <1>12 DEF SahiInv
  <2>2. e.got \subseteq Asked(f)
    BY <1>1, <1>9, <1>11, <1>12 DEF Arrived
  <2>3. IsFiniteSet(DOMAIN cut[f].rects) /\ Cardinality(DOMAIN cut[f].rects) \in Nat
    BY <2>1, FS_CardinalityType DEF CutOk
  <2>4. IsFiniteSet({f}) /\ Cardinality({f}) = 1
    BY FS_Singleton
  <2>5. IsFiniteSet(Asked(f)) /\ Cardinality(Asked(f)) = 1 * Cardinality(DOMAIN cut[f].rects)
    BY <2>3, <2>4, FS_Product DEF Asked
  <2>6. Cardinality(e.got) <= Cardinality(Asked(f)) /\ Cardinality(e.got) \in Nat
        /\ (Cardinality(Asked(f)) = Cardinality(e.got) => Asked(f) = e.got)
    BY <2>2, <2>5, FS_Subset, FS_CardinalityType
  <2>. QED
    BY <1>12, <2>1, <2>3, <2>5, <2>6
<1>13. ASSUME NEW q \in DOMAIN Swept, gathering'[q] = Swept[q] PROVE GatheringOk(q)'
  <2>1. GatheringOk(q) /\ gathering'[q] = gathering[q]
    BY <1>3, <1>13 DEF SahiInv
  <2>2. \A u \in gathering'[q].got : Arrived(u, q)'
    BY <1>7, <2>1 DEF GatheringOk
  <2>. QED
    BY <1>1, <2>1, <2>2 DEF GatheringOk
<1>14. ASSUME gathering'[k] = e PROVE GatheringOk(k)'
  BY <1>1, <1>6, <1>9, <1>14 DEF GatheringOk
<1>15. \A f \in merged : MergedOk(f)'
  <2>. SUFFICES ASSUME NEW f \in merged PROVE MergedOk(f)'
    OBVIOUS
  <2>1. MergedOk(f)
    BY DEF SahiInv
  <2>2. \A u \in f.got : Arrived(u, f.seq)'
    BY <1>7, <2>1 DEF MergedOk
  <2>. QED
    BY <1>1, <1>11, <2>1, <2>2 DEF MergedOk
<1>16. /\ \E S : cut' \in Seq(S)
       /\ \A q \in 1..Len(cut') : CutOk(cut'[q])
       /\ \A u \in tiles' : u[1] \in 1..Len(cut') /\ u \in Asked(u[1])
  BY <1>1 DEF SahiInv
<1>17. \A q \in DOMAIN gathering' :
         \/ q \in DOMAIN Swept /\ gathering'[q] = gathering[q]
         \/ q = k /\ gathering'[q] = e
  BY <1>1, <1>3
<1>18. \A q \in DOMAIN gathering' : GatheringOk(q)'
  BY <1>3, <1>13, <1>14, <1>17
<1>19. CASE merged' = merged
  <2>1. Apart'
    BY <1>3, <1>10, <1>17, <1>19 DEF SahiInv, Apart
  <2>2. \A f \in merged' : MergedOk(f)'
    BY <1>15, <1>19
  <2>3. \A d \in roi'.dets : DetOk(d)
    <3>1. \A d \in runNms(e.dets) : DetOk(d)
      BY <1>9, NmsKeeps
    <3>. QED
      BY <1>1, <3>1 DEF SahiInv
  <2>. QED
    BY <1>11, <1>16, <1>18, <2>1, <2>2, <2>3 DEF SahiInv
<1>20. CASE /\ Cardinality(e.got) >= e.n
            /\ gathering' = [q \in DOMAIN Swept \ {k} |-> Swept[q]]
            /\ merged' = merged \cup {[seq |-> e.seq, got |-> e.got]}
            /\ roi' = [seq |-> e.seq, dets |-> runNms(e.dets)]
  <2>1. PICK f : f = [seq |-> k, got |-> e.got]
    OBVIOUS
  <2>2. f.seq = k /\ f.got = e.got /\ f = [seq |-> f.seq, got |-> f.got] /\ merged' = merged \cup {f}
    BY <1>6, <1>20, <2>1
  <2>3. MergedOk(f)'
    <3>1. f.got # {} /\ \A u \in f.got : Arrived(u, f.seq)'
      BY <1>6, <1>9, <2>2
    <3>2. \A h \in 1..Len(cut') : (\A g \in 1..Len(cut') : cut'[g].seq = f.seq <=> g = h) => f.got = Asked(h)'
      BY <1>1, <1>11, <1>12, <1>20, <2>2
    <3>. QED
      BY <2>2, <3>1, <3>2 DEF MergedOk
  <2>4. \A g \in merged' : MergedOk(g)'
    BY <1>15, <2>2, <2>3
  <2>5. ASSUME NEW q \in DOMAIN gathering' PROVE gathering'[q].got \cap f.got = {}
    <3>1. q # k /\ q \in DOMAIN Swept /\ gathering'[q] = Swept[q]
      BY <1>20
    <3>2. GatheringOk(q)'
      BY <1>18
    <3>3. \A u \in gathering'[q].got : cut'[u[1]].seq = q
      BY <3>2 DEF GatheringOk, Arrived
    <3>4. \A u \in f.got : cut'[u[1]].seq = k
      BY <1>9, <2>2 DEF Arrived
    <3>. QED
      BY <3>1, <3>3, <3>4
  <2>6. Apart'
    <3>1. \A g \in merged : g.got \cap f.got = {}
      BY <1>10, <2>2
    <3>2. \A g, h \in merged' : g # h => g.got \cap h.got = {}
      BY <2>2, <3>1 DEF SahiInv, Apart
    <3>3. \A q \in DOMAIN gathering', g \in merged : gathering'[q].got \cap g.got = {}
      BY <1>3, <1>20 DEF SahiInv, Apart
    <3>. QED
      BY <2>2, <2>5, <3>2, <3>3 DEF Apart
  <2>7. \A d \in roi'.dets : DetOk(d)
    BY <1>9, <1>20, NmsKeeps
  <2>. QED
    BY <1>11, <1>16, <1>18, <2>4, <2>6, <2>7 DEF SahiInv
<1>. QED
  BY <1>1, <1>19, <1>20

\* SahiInv holds throughout.
LEMMA SahiInvHolds == SahiSafety => []SahiInv
<1>1. SahiInit => SahiInv
  <2>. SUFFICES ASSUME SahiInit PROVE SahiInv
    OBVIOUS
  <2>1. cut \in Seq({}) /\ Len(cut) = 0 /\ 1..Len(cut) = {}
    BY DEF SahiInit
  <2>. QED
    BY <2>1 DEF SahiInit, SahiInv, NoRoi, Apart
<1>2. SahiInv /\ [SahiNext]_sahiVars => SahiInv'
  <2>. SUFFICES ASSUME SahiInv, [SahiNext]_sahiVars PROVE SahiInv'
    OBVIOUS
  <2>1. CASE UNCHANGED sahiVars
    BY <2>1 DEF sahiVars, SahiInv, GatheringOk, MergedOk, Arrived, Apart, Asked
  <2>2. ASSUME NEW q \in DOMAIN gathering, TurnStale(q) PROVE SahiInv'
    <3>1. /\ UNCHANGED <<nextSeq, stream, tiles, cut, roi, merged>>
          /\ gathering' = [gathering EXCEPT ![q].late = TRUE]
      BY <2>2 DEF TurnStale
    <3>2. /\ \A p : Asked(p)' = Asked(p)
          /\ \A u, p : Arrived(u, p)' <=> Arrived(u, p)
      BY <3>1 DEF Asked, Arrived
    <3>3. ASSUME NEW p \in DOMAIN gathering' PROVE GatheringOk(p)'
      <4>1. GatheringOk(p) /\ GatheringOk(q)
        BY <3>1 DEF SahiInv
      <4>2. CASE p # q
        BY <3>1, <3>2, <4>1, <4>2 DEF GatheringOk
      <4>3. CASE p = q
        <5>1. /\ DOMAIN gathering'[q] = DOMAIN gathering[q]
              /\ gathering'[q].seq = gathering[q].seq /\ gathering'[q].n = gathering[q].n
              /\ gathering'[q].got = gathering[q].got /\ gathering'[q].dets = gathering[q].dets
          BY <3>1, <4>1 DEF GatheringOk
        <5>. QED
          BY <3>1, <3>2, <4>1, <4>3, <5>1 DEF GatheringOk
      <4>. QED
        BY <4>2, <4>3
    <3>4. \A e \in merged' : MergedOk(e)'
      BY <3>1, <3>2 DEF SahiInv, MergedOk
    <3>5. \A p \in DOMAIN gathering' : p \in DOMAIN gathering /\ gathering'[p].got = gathering[p].got
      BY <3>1 DEF SahiInv, GatheringOk
    <3>6. Apart'
      BY <3>1, <3>5 DEF SahiInv, Apart
    <3>. QED
      BY <3>1, <3>2, <3>3, <3>4, <3>6 DEF SahiInv
  <2>. QED
    BY <2>1, <2>2, ScheduleKeepsSahiInv, MergeKeepsSahiInv DEF SahiNext
<1>. QED
  BY <1>1, <1>2, PTL DEF SahiSafety

\* For any tile width, stride, number of tiles and frame widths, with an
\* overlap that is not negative: the tiles of a frame lie in it, and those of
\* a full pass that was not capped leave no pixel out
\* (SahiSchedulerStage.cpp, makeAxisStarts, makeFullTiles and makeRoiTiles).
THEOREM TilesAlwaysCover ==
  ASSUME Overlap \in Nat
  PROVE  SahiSafety => []TilesCover
<1>1. SahiInv => TilesCover
  <2>. SUFFICES ASSUME SahiInv, cut # <<>> PROVE TilesCover
    BY DEF TilesCover
  <2>. DEFINE c == cut[Len(cut)]
  <2>1. Len(cut) \in 1..Len(cut)
    <3>1. PICK S : cut \in Seq(S)
      BY DEF SahiInv
    <3>2. Len(cut) \in Nat /\ Len(cut) # 0
      BY <3>1
    <3>. QED
      BY <3>2
  <2>2. CutOk(c)
    BY <2>1 DEF SahiInv
  <2>. HIDE DEF c
  <2>3. \A i \in DOMAIN c.rects : c.rects[i].w > 0 /\ Pixels(c.rects[i]) \subseteq 0..(c.full - 1)
    <3>. SUFFICES ASSUME NEW r, NEW full \in Nat, RectOk(r, full)
                  PROVE  r.w > 0 /\ Pixels(r) \subseteq 0..(full - 1)
      BY <2>2 DEF CutOk
    <3>. QED
      BY DEF RectOk, Pixels
  <2>4. ASSUME c.pass \in {"full", "fallback"}, ~c.capped
        PROVE  UNION {Pixels(c.rects[i]) : i \in DOMAIN c.rects} = 0..(c.full - 1)
    <3>1. \A p \in 0..(c.full - 1) : \E i \in DOMAIN c.rects : p \in Pixels(c.rects[i])
      BY <2>2, <2>4 DEF CutOk
    <3>. QED
      BY <2>3, <3>1
  <2>. QED
    BY <2>3, <2>4 DEF TilesCover, Pixels, c
<1>. QED
  BY <1>1, SahiInvHolds, PTL

\* For any number of frames, tiles and reconnects: no answer is in two merged
\* results, a result holds answers to tiles of its frame number only, and to all
\* tiles of a frame whose number no other frame has had, whatever was lost,
\* late or swept in between (SahiMergeStage.cpp, process and sweepStale).
THEOREM MergedWholeOnce == SahiSafety => []MergedOnce
<1>1. SahiInv => MergedOnce
  <2>. SUFFICES ASSUME SahiInv PROVE MergedOnce
    OBVIOUS
  <2>1. DOMAIN cut = 1..Len(cut)
    <3>1. PICK S : cut \in Seq(S)
      BY DEF SahiInv
    <3>. QED
      BY <3>1
  <2>2. \A e \in merged : MergedOk(e)
    BY DEF SahiInv
  <2>3. \A e \in merged, f \in DOMAIN cut : FramesNumbered(e.seq) = {f} => e.got = Asked(f)
    <3>. SUFFICES ASSUME NEW e \in merged, NEW f \in DOMAIN cut, FramesNumbered(e.seq) = {f}
                  PROVE  e.got = Asked(f)
      OBVIOUS
    <3>1. \A g \in 1..Len(cut) : cut[g].seq = e.seq <=> g = f
      BY <2>1 DEF FramesNumbered
    <3>. QED
      BY <2>1, <2>2, <3>1 DEF MergedOk
  <2>4. \A e \in merged : \A t \in e.got : cut[t[1]].seq = e.seq
    BY <2>2 DEF MergedOk, Arrived
  <2>. QED
    BY <2>3, <2>4 DEF SahiInv, Apart, Asked, MergedOnce
<1>. QED
  BY <1>1, SahiInvHolds, PTL

-----------------------------------------------------------------------------
(* The configuration.                                                      *)

\* The edges into n from nodes that have not been visited.
Left(p, n, done) == {i \in Incoming(p, n) : p.edges[i].from \notin done}

\* The search has visited the nodes in done, in the order of rank: every edge
\* into one of them comes from an earlier one.  What it keeps of the others
\* is how many of their edges come from nodes still to be visited.
Searched(p, done, rank) ==
    /\ done \subseteq Ids(p.nodes) /\ IsFiniteSet(done) /\ visited = Cardinality(done)
    /\ rank \in [done -> 1..visited]
    /\ \A i \in DOMAIN p.edges : p.edges[i].to \in done =>
          p.edges[i].from \in done /\ rank[p.edges[i].from] < rank[p.edges[i].to]
    /\ indegree = [n \in Ids(p.nodes) |-> Cardinality(Left(p, n, done))]
    /\ ready = {n \in Ids(p.nodes) \ done : indegree[n] = 0}

GraphOk(p) == NoDuplicates(p.nodes) /\ EdgesOk(p)

Searching == vstep = "search" =>
    /\ at <= Len(cfg.pipelines)
    /\ \E p, done, rank : p = cfg.pipelines[at] /\ GraphOk(p) /\ Searched(p, done, rank)

ConfigShape ==
    /\ {"models", "sources", "pipelines", "tasks", "repository"} \subseteq DOMAIN cfg
    /\ IsFiniteSet(cfg.repository)
    /\ IsList(cfg.models) /\ IsList(cfg.pipelines)
    /\ \A i \in DOMAIN cfg.pipelines :
          IsList(cfg.pipelines[i].nodes) /\ IsList(cfg.pipelines[i].edges)
    /\ at \in Nat \ {0}

\* What the steps behind us have established.
Passed ==
    /\ vstep # "rejected" => \A i \in 1..(at - 1) : i \in DOMAIN cfg.pipelines => Ordered(cfg.pipelines[i])
    /\ vstep \in {"cascade", "validateSources", "graphs", "search", "accepted"} =>
          NoDuplicates(cfg.models)
    /\ vstep \in {"validateSources", "graphs", "search", "accepted"} =>
          \A i \in DOMAIN cfg.models : cfg.models[i].cascade \subseteq Ids(cfg.models)
    /\ vstep = "accepted" =>
          /\ at > Len(cfg.pipelines)
          /\ \A i \in DOMAIN cfg.tasks :
               cfg.tasks[i].source \in Ids(cfg.sources) /\ cfg.tasks[i].pipeline \in Ids(cfg.pipelines)

ConfigInv == ConfigShape /\ Passed /\ Searching

-----------------------------------------------------------------------------
\* A list has the positions 1 to its length.
LEMMA ListDomain ==
  ASSUME NEW s, IsList(s)
  PROVE  Len(s) \in Nat /\ DOMAIN s = 1..Len(s) /\ IsFiniteSet(DOMAIN s)
<1>1. Len(s) \in Nat /\ DOMAIN s = 1..Len(s)
  BY DEF IsList
<1>. QED
  BY <1>1, FS_Interval

\* A list without duplicates has as many ids as members.
LEMMA IdsCount ==
  ASSUME NEW s, IsList(s), NoDuplicates(s)
  PROVE  IsFiniteSet(Ids(s)) /\ Cardinality(Ids(s)) = Len(s)
<1>1. Len(s) \in Nat /\ DOMAIN s = 1..Len(s)
  BY ListDomain
<1>2. IsFiniteSet(1..Len(s)) /\ Cardinality(1..Len(s)) = Len(s)
  <2>1. 1 \in Int /\ Len(s) \in Int
    BY <1>1
  <2>2. IsFiniteSet(1..Len(s)) /\ Cardinality(1..Len(s)) = IF 1 > Len(s) THEN 0 ELSE Len(s) - 1 + 1
    BY <2>1, FS_Interval, Zenon
  <2>. QED
    BY <1>1, <2>2
<1>. DEFINE f == [i \in 1..Len(s) |-> s[i].id]
<1>3. f \in Bijection(1..Len(s), Ids(s))
  <2>1. f \in [1..Len(s) -> Ids(s)]
    BY <1>1 DEF Ids
  <2>2. \A x, y \in 1..Len(s) : f[x] = f[y] => x = y
    BY <1>1 DEF NoDuplicates
  <2>3. \A t \in Ids(s) : \E x \in 1..Len(s) : f[x] = t
    BY <1>1 DEF Ids
  <2>. QED
    BY <2>1, <2>2, <2>3 DEF Bijection, Injection, Surjection, IsInjective
<1>. QED
  BY <1>2, <1>3, FS_Bijection DEF ExistsBijection

\* The ids of a list are finitely many.
LEMMA LeftFinite ==
  ASSUME NEW p, IsList(p.edges), NEW n, NEW done
  PROVE  IsFiniteSet(Left(p, n, done))
<1>1. Left(p, n, done) \in SUBSET (DOMAIN p.edges)
  BY DEF Left, Incoming
<1>. QED
  BY <1>1, ListDomain, FS_Subset

\* A nonempty set of naturals has a least element.
LEMMA LeastElement ==
  ASSUME NEW T, T \subseteq Nat, T # {}
  PROVE  \E x \in T : \A y \in T : x <= y
<1>. DEFINE R == OpToRel(<, Nat)
<1>1. PICK x \in T : \A y \in T : ~(<<y, x>> \in R)
  <2>. HIDE DEF R
  <2>1. IsWellFoundedOn(R, Nat)
    BY NatLessThanWellFounded, Zenon DEF R
  <2>. QED
    BY <2>1, WFMin
<1>2. ASSUME NEW y \in T PROVE ~(y < x)
  BY <1>1, <1>2, Zenon DEF OpToRel
<1>. QED
  BY <1>2

-----------------------------------------------------------------------------
\* When the search has come to an end it has visited every node exactly if the
\* nodes can be ordered: of the nodes it has not visited, one of least rank has
\* edges from visited nodes only, and would be ready.
LEMMA SearchDecides ==
  ASSUME NEW p, IsList(p.nodes), IsList(p.edges), GraphOk(p),
         NEW done, NEW rank, Searched(p, done, rank), ready = {}
  PROVE  visited = Len(p.nodes) <=> Ordered(p)
<1>1. IsFiniteSet(Ids(p.nodes)) /\ Cardinality(Ids(p.nodes)) = Len(p.nodes)
  BY IdsCount DEF GraphOk
<1>2. ASSUME visited = Len(p.nodes) PROVE Ordered(p)
  <2>1. done = Ids(p.nodes)
    BY <1>1, <1>2, FS_Subset DEF Searched
  <2>2. \A i \in DOMAIN p.edges : p.edges[i].to \in Ids(p.nodes)
    BY DEF GraphOk, EdgesOk
  <2>. QED
    BY <1>2, <2>1, <2>2 DEF Searched, Ordered
<1>3. ASSUME Ordered(p) PROVE visited = Len(p.nodes)
  <2>. SUFFICES ASSUME done # Ids(p.nodes) PROVE FALSE
    BY <1>1 DEF Searched
  <2>1. PICK r \in [Ids(p.nodes) -> 1..Len(p.nodes)] :
           \A i \in DOMAIN p.edges : r[p.edges[i].from] < r[p.edges[i].to]
    BY <1>3 DEF Ordered
  <2>. DEFINE Rest == Ids(p.nodes) \ done
              T == {r[n] : n \in Rest}
  <2>2. Len(p.nodes) \in Nat
    BY ListDomain
  <2>3. T \subseteq Nat /\ T # {}
    BY <2>1, <2>2 DEF Searched
  <2>4. PICK x \in T : \A y \in T : x <= y
    <3>. HIDE DEF T
    <3>. QED
      BY <2>3, LeastElement
  <2>5. PICK n \in Rest : r[n] = x
    OBVIOUS
  <2>6. \A m \in Rest : r[n] <= r[m]
    BY <2>4, <2>5
  <2>7. Left(p, n, done) = {}
    <3>. SUFFICES ASSUME NEW i \in Left(p, n, done) PROVE FALSE
      OBVIOUS
    <3>1. i \in DOMAIN p.edges /\ p.edges[i].to = n /\ p.edges[i].from \notin done
      BY DEF Left, Incoming
    <3>2. p.edges[i].from \in Rest
      BY <3>1 DEF GraphOk, EdgesOk
    <3>3. r[n] \in Nat /\ r[p.edges[i].from] \in Nat
      BY <2>1, <2>2, <3>2
    <3>. QED
      BY <2>1, <2>6, <3>1, <3>2, <3>3
  <2>8. indegree[n] = 0
    BY <2>5, <2>7, FS_EmptySet DEF Searched
  <2>. QED
    BY <2>5, <2>8 DEF Searched
<1>. QED
  BY <1>2, <1>3

\* Visiting a ready node: it comes last in the order so far, and the edges out
\* of it are no longer counted.
LEMMA VisitKeeps ==
  ASSUME ConfigShape, NEW p, IsList(p.nodes), IsList(p.edges), GraphOk(p), p = cfg.pipelines[at],
         NEW done, NEW rank, Searched(p, done, rank), NEW n \in ready, VisitNode(n)
  PROVE  \E d, r : Searched(p, d, r)'
<1>a. PICK d : d = done \cup {n}
  OBVIOUS
<1>b. PICK r : r = [m \in d |-> IF m = n THEN visited + 1 ELSE rank[m]]
  OBVIOUS
<1>1. n \in Ids(p.nodes) /\ n \notin done /\ indegree[n] = 0 /\ Left(p, n, done) = {}
  <2>1. n \in Ids(p.nodes) /\ n \notin done /\ indegree[n] = 0
    BY DEF Searched
  <2>2. Cardinality(Left(p, n, done)) = 0
    BY <2>1 DEF Searched
  <2>. QED
    BY <2>1, <2>2, LeftFinite, FS_EmptySet
<1>2. visited \in Nat /\ visited' = visited + 1
  BY FS_CardinalityType DEF Searched, VisitNode
<1>3. d \subseteq Ids(p.nodes) /\ IsFiniteSet(d) /\ visited' = Cardinality(d)
  BY <1>a, <1>1, <1>2, FS_AddElement DEF Searched
<1>4. r \in [d -> 1..visited']
  <2>1. \A m \in done : rank[m] \in 1..visited
    BY DEF Searched
  <2>2. \A m \in done : rank[m] \in 1..(visited + 1)
    BY <2>1, <1>2
  <2>. QED
    BY <1>a, <1>b, <2>2, <1>2
<1>5. ASSUME NEW i \in DOMAIN p.edges, p.edges[i].to \in d
      PROVE  p.edges[i].from \in d /\ r[p.edges[i].from] < r[p.edges[i].to]
  <2>1. CASE p.edges[i].to = n
    <3>1. p.edges[i].from \in done
      BY <1>1, <2>1 DEF Left, Incoming
    <3>2. rank[p.edges[i].from] \in 1..visited /\ p.edges[i].from # n
      BY <1>1, <3>1 DEF Searched
    <3>. QED
      BY <1>a, <1>b, <1>2, <2>1, <3>1, <3>2
  <2>2. CASE p.edges[i].to \in done
    BY <1>a, <1>b, <1>1, <2>2 DEF Searched
  <2>. QED
    BY <1>a, <1>5, <2>1, <2>2
<1>6. ASSUME NEW m \in Ids(p.nodes)
      PROVE  /\ indegree[m] \in Nat
             /\ indegree'[m] = Cardinality(Left(p, m, d))
             /\ indegree'[m] <= indegree[m] /\ indegree'[m] \in Nat
  <2>. DEFINE gone == Outgoing(p, n) \cap Incoming(p, m)
  <2>1. Left(p, m, d) = Left(p, m, done) \ gone /\ gone \subseteq Left(p, m, done)
    BY <1>a, <1>1 DEF Left, Outgoing, Incoming
  <2>2. IsFiniteSet(Left(p, m, done)) /\ IsFiniteSet(gone)
    BY <2>1, LeftFinite, FS_Subset
  <2>3. Cardinality(Left(p, m, done)) \in Nat /\ Cardinality(gone) \in Nat
    BY <2>2, FS_CardinalityType
  <2>4. Cardinality(Left(p, m, d)) = Cardinality(Left(p, m, done)) - Cardinality(gone)
    <3>1. Left(p, m, done) \cap gone = gone
      BY <2>1
    <3>2. Cardinality(Left(p, m, done) \ gone)
            = Cardinality(Left(p, m, done)) - Cardinality(Left(p, m, done) \cap gone)
      BY <2>2, FS_Difference
    <3>. QED
      BY <2>1, <3>1, <3>2
  <2>5. Cardinality(Left(p, m, d)) \in Nat
    BY LeftFinite, FS_CardinalityType
  <2>6. indegree[m] = Cardinality(Left(p, m, done)) /\ m \in DOMAIN indegree
    BY DEF Searched
  <2>7. indegree'[m] = indegree[m] - Cardinality(gone)
    BY <2>6 DEF VisitNode, Relax
  <2>. QED
    BY <2>3, <2>4, <2>5, <2>6, <2>7
<1>7. indegree' = [m \in Ids(p.nodes) |-> Cardinality(Left(p, m, d))]
  <2>1. indegree' = [m \in Ids(p.nodes) |-> indegree'[m]]
    BY DEF VisitNode, Relax, Searched
  <2>. QED
    BY <1>6, <2>1
<1>8. ready' = {m \in Ids(p.nodes) \ d : indegree'[m] = 0}
  <2>1. ready' = (ready \ {n}) \cup {m \in Ids(p.nodes) : indegree[m] > 0 /\ indegree'[m] = 0}
    BY DEF VisitNode, Searched
  <2>2. ready = {m \in Ids(p.nodes) \ done : indegree[m] = 0}
    BY DEF Searched
  <2>3. ASSUME NEW m \in done PROVE indegree[m] = 0
    <3>1. Left(p, m, done) = {}
      BY <2>3 DEF Left, Incoming, Searched
    <3>. QED
      BY <2>3, <3>1, FS_EmptySet DEF Searched
  <2>4. ASSUME NEW m \in ready' PROVE m \in Ids(p.nodes) \ d /\ indegree'[m] = 0
    BY <1>a, <1>1, <1>6, <2>1, <2>2, <2>3, <2>4
  <2>5. ASSUME NEW m \in Ids(p.nodes) \ d, indegree'[m] = 0 PROVE m \in ready'
    BY <1>a, <1>6, <2>1, <2>2, <2>5
  <2>. QED
    BY <2>4, <2>5
<1>9. Searched(p, d, r)'
  BY <1>3, <1>4, <1>5, <1>7, <1>8 DEF Searched, Left, Incoming
<1>. QED
  BY <1>9

\* The search of a graph begins with no node visited.
LEMMA EnterKeeps ==
  ASSUME ConfigInv, EnterPipeline
  PROVE  Searching'
<1>. SUFFICES ASSUME vstep' = "search" PROVE Searching'
  BY DEF Searching
<1>. DEFINE p == cfg.pipelines[at]
<1>1. at \in DOMAIN cfg.pipelines
  <2>1. DOMAIN cfg.pipelines = 1..Len(cfg.pipelines) /\ Len(cfg.pipelines) \in Nat
    BY ListDomain DEF ConfigInv, ConfigShape
  <2>2. at <= Len(cfg.pipelines)
    BY DEF EnterPipeline
  <2>3. at \in Nat \ {0}
    BY DEF ConfigInv, ConfigShape
  <2>. QED
    BY <2>1, <2>2, <2>3
<1>2. IsList(p.nodes) /\ IsList(p.edges)
  BY <1>1 DEF ConfigInv, ConfigShape
<1>3. /\ GraphOk(p) /\ at <= Len(cfg.pipelines) /\ visited' = 0 /\ UNCHANGED <<cfg, at>>
      /\ indegree' = [n \in Ids(p.nodes) |-> Cardinality(Incoming(p, n))]
      /\ ready' = {n \in Ids(p.nodes) : indegree'[n] = 0}
  BY DEF EnterPipeline, Check, GraphOk
<1>4. PICK none : none = {}
  OBVIOUS
<1>5. PICK rank : rank = [n \in none |-> 0]
  OBVIOUS
<1>6. \A n : Left(p, n, none) = Incoming(p, n)
  BY <1>4 DEF Left, Incoming
<1>7. none \subseteq Ids(p.nodes) /\ IsFiniteSet(none) /\ visited' = Cardinality(none)
  BY <1>3, <1>4, FS_EmptySet
<1>8. rank \in [none -> 1..visited']
  BY <1>4, <1>5
<1>9. indegree' = [n \in Ids(p.nodes) |-> Cardinality(Left(p, n, none))]
  BY <1>3, <1>6
<1>10. ready' = {n \in Ids(p.nodes) \ none : indegree'[n] = 0}
  BY <1>3, <1>4
<1>11. PICK q : q = p
  OBVIOUS
<1>12. Searched(q, none, rank)'
  BY <1>4, <1>7, <1>8, <1>9, <1>10, <1>11 DEF Searched
<1>. QED
  <2>1. q = (cfg.pipelines[at])' /\ (at <= Len(cfg.pipelines))'
    BY <1>3, <1>11
  <2>2. GraphOk(q)
    BY <1>3, <1>11
  <2>. QED
    BY <1>12, <2>1, <2>2 DEF Searching

\* What ScanRepository adds is a list.
LEMMA ScanAddsList ==
  ASSUME NEW S, IsFiniteSet(S), NEW s, IsList(s)
  PROVE  IsList(s \o SetToSeq(S))
<1>1. PICK f \in [1..Cardinality(S) -> S] : \A a, b \in DOMAIN f : f[a] = f[b] => a = b
  <2>1. PICK g \in Bijection(1..Cardinality(S), S) : TRUE
    BY FS_CardinalityType DEF ExistsBijection
  <2>2. g \in [1..Cardinality(S) -> S]
    BY <2>1 DEF Bijection, Injection
  <2>3. \A a, b \in 1..Cardinality(S) : g[a] = g[b] => a = b
    BY <2>1 DEF Bijection, Injection, IsInjective
  <2>. QED
    BY <2>2, <2>3
<1>2. SetToSeq(S) \in [1..Cardinality(S) -> S]
  BY <1>1, Zenon DEF SetToSeq, IsInjective
<1>3. Cardinality(S) \in Nat
  BY FS_CardinalityType
<1>4. SetToSeq(S) \in Seq(S)
  BY <1>2, <1>3
<1>. DEFINE t == SetToSeq(S)
            V == {s[i] : i \in DOMAIN s} \cup S
            u == s \o t
<1>5. s \in Seq(V) /\ t \in Seq(V)
  BY <1>4 DEF IsList
<1>6. u \in Seq(V)
  <2>. HIDE DEF t, V
  <2>. QED
    BY <1>5
<1>7. u \in Seq({u[i] : i \in DOMAIN u})
  <2>. HIDE DEF u, V
  <2>1. Len(u) \in Nat /\ DOMAIN u = 1..Len(u) /\ u = [i \in 1..Len(u) |-> u[i]]
    BY <1>6
  <2>. QED
    BY <2>1
<1>. QED
  BY <1>7 DEF IsList

-----------------------------------------------------------------------------
\* Steps that look at the configuration only.
Looks ==
    \/ ParseServer \/ ParseModels \/ ParseSections \/ ParsePublishers \/ ParseArchive
    \/ validateModels \/ validateCascadeModelRefs \/ validateSources

\* They establish what their checks say.
LEMMA LooksKeep ==
  ASSUME ConfigInv, Looks
  PROVE  ConfigInv'
<1>1. UNCHANGED <<cfg, at, indegree, ready, visited>>
  BY DEF Looks, ParseServer, ParseModels, ParseSections, ParsePublishers, ParseArchive,
         validateModels, validateCascadeModelRefs, validateSources, searchVars
<1>2. ConfigShape'
  BY <1>1 DEF ConfigInv, ConfigShape
<1>3. vstep' # "search" /\ vstep' # "accepted" /\ vstep # "rejected"
  BY DEF Looks, Check, ParseServer, ParseModels, ParseSections, ParsePublishers, ParseArchive,
         validateModels, validateCascadeModelRefs, validateSources
<1>4. vstep' \in {"cascade", "validateSources", "graphs"} => NoDuplicates(cfg.models)
  BY DEF Looks, Check, ParseServer, ParseModels, ParseSections, ParsePublishers, ParseArchive,
         validateModels, validateCascadeModelRefs, validateSources, ConfigInv, Passed
<1>5. vstep' \in {"validateSources", "graphs"} =>
        \A i \in DOMAIN cfg.models : cfg.models[i].cascade \subseteq Ids(cfg.models)
  BY DEF Looks, Check, ParseServer, ParseModels, ParseSections, ParsePublishers, ParseArchive,
         validateModels, validateCascadeModelRefs, validateSources, ConfigInv, Passed
<1>6. Passed'
  BY <1>1, <1>3, <1>4, <1>5 DEF ConfigInv, Passed
<1>7. Searching'
  BY <1>3 DEF Searching
<1>. QED
  BY <1>2, <1>6, <1>7 DEF ConfigInv

\* The repository's models make the list of models longer and nothing else.
LEMMA ScanKeeps ==
  ASSUME ConfigInv, ScanRepository
  PROVE  ConfigInv'
<1>. DEFINE offered == {m \in cfg.repository : Offered(m)}
            S == {Parsed(m) : m \in offered}
<1>1. UNCHANGED <<at, indegree, ready, visited>> /\ vstep = "repository"
      /\ vstep' \in {"validateModels", "rejected"}
      /\ (cfg' = cfg \/ cfg' = [cfg EXCEPT !.models = cfg.models \o SetToSeq(S)])
  BY DEF ScanRepository, Check, searchVars
<1>2. IsFiniteSet(S)
  <2>1. IsFiniteSet(offered)
    BY FS_Subset DEF ConfigInv, ConfigShape
  <2>. DEFINE f == [m \in offered |-> Parsed(m)]
  <2>2. f \in Surjection(offered, S)
    BY DEF Surjection
  <2>. HIDE DEF f, S, offered
  <2>. QED
    BY <2>1, <2>2, FS_Surjection
<1>3. /\ DOMAIN cfg' = DOMAIN cfg /\ IsList(cfg'.models)
      /\ \A x \in {"sources", "pipelines", "tasks", "repository"} : cfg'[x] = cfg[x]
  <2>1. IsList(cfg.models \o SetToSeq(S))
    <3>. HIDE DEF S
    <3>. QED
      BY <1>2, ScanAddsList DEF ConfigInv, ConfigShape
  <2>2. DOMAIN cfg' = DOMAIN cfg /\ \A x \in {"sources", "pipelines", "tasks", "repository"} : cfg'[x] = cfg[x]
    BY <1>1 DEF ConfigInv, ConfigShape
  <2>3. "models" \in DOMAIN cfg /\ IsList(cfg.models)
    BY DEF ConfigInv, ConfigShape
  <2>4. IsList(cfg'.models)
    <3>. HIDE DEF S
    <3>1. CASE cfg' = cfg
      BY <2>3, <3>1
    <3>2. CASE cfg' = [cfg EXCEPT !.models = cfg.models \o SetToSeq(S)]
      <4>1. cfg'.models = cfg.models \o SetToSeq(S)
        BY <2>3, <3>2
      <4>. QED
        BY <2>1, <4>1
    <3>. QED
      BY <1>1, <3>1, <3>2
  <2>. QED
    BY <2>2, <2>4
<1>4. ConfigShape'
  BY <1>1, <1>3 DEF ConfigInv, ConfigShape
<1>5. Passed'
  BY <1>1, <1>3 DEF ConfigInv, Passed
<1>6. Searching'
  BY <1>1 DEF Searching
<1>. QED
  BY <1>4, <1>5, <1>6 DEF ConfigInv

\* A graph that has been searched is passed if it was ordered.
LEMMA LeaveKeeps ==
  ASSUME ConfigInv, LeavePipeline
  PROVE  ConfigInv'
<1>. DEFINE p == cfg.pipelines[at]
<1>1. vstep = "search" /\ ready = {} /\ cfg' = cfg /\ at' = at + 1
      /\ vstep' = IF visited = Len(p.nodes) THEN "graphs" ELSE "rejected"
  BY DEF LeavePipeline, Check
<1>2. at \in Nat \ {0} /\ at \in DOMAIN cfg.pipelines
  <2>1. DOMAIN cfg.pipelines = 1..Len(cfg.pipelines) /\ Len(cfg.pipelines) \in Nat
    BY ListDomain DEF ConfigInv, ConfigShape
  <2>2. at <= Len(cfg.pipelines) /\ at \in Nat \ {0}
    BY <1>1 DEF ConfigInv, ConfigShape, Searching
  <2>. QED
    BY <2>1, <2>2
<1>3. visited = Len(p.nodes) <=> Ordered(p)
  <2>1. PICK q, done, rank : q = p /\ GraphOk(q) /\ Searched(q, done, rank)
    BY <1>1 DEF ConfigInv, Searching
  <2>2. IsList(q.nodes) /\ IsList(q.edges)
    BY <1>2, <2>1 DEF ConfigInv, ConfigShape
  <2>3. visited = Len(q.nodes) <=> Ordered(q)
    BY <1>1, <2>1, <2>2, SearchDecides
  <2>. QED
    BY <2>1, <2>3
<1>4. ConfigShape'
  BY <1>1, <1>2 DEF ConfigInv, ConfigShape
<1>5. Passed'
  <2>1. vstep' # "rejected" => \A i \in 1..(at' - 1) : i \in DOMAIN cfg.pipelines => Ordered(cfg.pipelines[i])
    <3>. SUFFICES ASSUME vstep' # "rejected", NEW i \in 1..(at' - 1), i \in DOMAIN cfg.pipelines
                  PROVE  Ordered(cfg.pipelines[i])
      OBVIOUS
    <3>1. CASE i = at
      BY <1>1, <1>3, <3>1
    <3>2. CASE i # at
      <4>1. i \in 1..(at - 1)
        BY <1>1, <1>2, <3>2
      <4>. QED
        BY <1>1, <4>1 DEF ConfigInv, Passed
    <3>. QED
      BY <3>1, <3>2
  <2>. QED
    BY <1>1, <2>1 DEF ConfigInv, Passed
<1>6. Searching'
  BY <1>1 DEF Searching
<1>. QED
  BY <1>4, <1>5, <1>6 DEF ConfigInv

\* Every step keeps what has been established and where the search is.
LEMMA ConfigStep ==
  ASSUME ConfigInv, [ConfigNext]_configVars
  PROVE  ConfigInv'
<1>1. CASE Looks
  BY <1>1, LooksKeep
<1>2. CASE ScanRepository
  BY <1>2, ScanKeeps
<1>3. CASE EnterPipeline
  <2>1. cfg' = cfg /\ at' = at /\ vstep = "graphs" /\ vstep' \in {"search", "rejected"}
    BY <1>3 DEF EnterPipeline, Check
  <2>2. ConfigShape'
    BY <2>1 DEF ConfigInv, ConfigShape
  <2>3. Passed'
    BY <2>1 DEF ConfigInv, Passed
  <2>. QED
    BY <1>3, <2>2, <2>3, EnterKeeps DEF ConfigInv
<1>4. CASE LeavePipeline
  BY <1>4, LeaveKeeps
<1>5. CASE validateTasks
  <2>1. cfg' = cfg /\ at' = at /\ vstep = "graphs" /\ vstep' \in {"accepted", "rejected"}
        /\ at > Len(cfg.pipelines)
    BY <1>5 DEF validateTasks, Check, searchVars
  <2>2. vstep' = "accepted" => \A i \in DOMAIN cfg.tasks :
          cfg.tasks[i].source \in Ids(cfg.sources) /\ cfg.tasks[i].pipeline \in Ids(cfg.pipelines)
    BY <1>5 DEF validateTasks, Check
  <2>3. ConfigShape'
    BY <2>1 DEF ConfigInv, ConfigShape
  <2>4. Passed'
    BY <2>1, <2>2 DEF ConfigInv, Passed
  <2>5. Searching'
    BY <2>1 DEF Searching
  <2>. QED
    BY <2>3, <2>4, <2>5 DEF ConfigInv
<1>6. ASSUME NEW n \in ready, VisitNode(n) PROVE ConfigInv'
  <2>1. cfg' = cfg /\ at' = at /\ vstep = "search" /\ vstep' = vstep
    BY <1>6 DEF VisitNode
  <2>2. ConfigShape'
    BY <2>1 DEF ConfigInv, ConfigShape
  <2>3. Passed'
    BY <2>1 DEF ConfigInv, Passed
  <2>4. PICK p, done, rank : p = cfg.pipelines[at] /\ GraphOk(p) /\ Searched(p, done, rank)
    BY <2>1 DEF ConfigInv, Searching
  <2>5. at \in DOMAIN cfg.pipelines
    <3>1. DOMAIN cfg.pipelines = 1..Len(cfg.pipelines) /\ Len(cfg.pipelines) \in Nat
      BY ListDomain DEF ConfigInv, ConfigShape
    <3>2. at <= Len(cfg.pipelines) /\ at \in Nat \ {0}
      BY <2>1 DEF ConfigInv, ConfigShape, Searching
    <3>. QED
      BY <3>1, <3>2
  <2>6. IsList(p.nodes) /\ IsList(p.edges)
    BY <2>4, <2>5 DEF ConfigInv, ConfigShape
  <2>7. \E d, r : Searched(p, d, r)'
    BY <1>6, <2>4, <2>6, VisitKeeps DEF ConfigInv
  <2>8. Searching'
    BY <2>1, <2>4, <2>7 DEF ConfigInv, Searching
  <2>. QED
    BY <2>2, <2>3, <2>8 DEF ConfigInv
<1>7. CASE UNCHANGED configVars
  <2>1. UNCHANGED <<cfg, vstep, at, indegree, ready, visited>>
    BY <1>7 DEF configVars
  <2>2. ConfigShape' /\ Passed'
    BY <2>1 DEF ConfigInv, ConfigShape, Passed
  <2>3. Searching'
    BY <2>1 DEF ConfigInv, Searching, Searched
  <2>. QED
    BY <2>2, <2>3 DEF ConfigInv
<1>. QED
  BY <1>1, <1>2, <1>3, <1>4, <1>5, <1>6, <1>7 DEF ConfigNext, Looks

\* What validateAppConfig accepts can be run, for every configuration: its
\* search for a cycle passes exactly the graphs that can be ordered, whichever
\* ready node the hash map yields, with parallel edges and loops; and no task or
\* cascade refers to something missing, models of the repository included
\* (Config.cpp, validatePipelineGraphs and validateTasks).
THEOREM VerdictAlwaysRight == ConfigSafety => []VerdictIsRight
<1>1. ConfigInit => ConfigInv
  <2>. SUFFICES ASSUME ConfigInit PROVE ConfigInv
    OBVIOUS
  <2>1. ConfigShape
    BY ConfigsAssumption DEF ConfigInit, ConfigShape
  <2>. QED
    BY <2>1 DEF ConfigInit, ConfigInv, Passed, Searching
<1>2. ConfigInv => VerdictIsRight
  <2>. SUFFICES ASSUME ConfigInv PROVE VerdictIsRight
    OBVIOUS
  <2>0. DOMAIN cfg.pipelines = 1..Len(cfg.pipelines) /\ Len(cfg.pipelines) \in Nat /\ at \in Nat \ {0}
    BY ListDomain DEF ConfigInv, ConfigShape
  <2>1. ASSUME vstep = "search", ready = {}
        PROVE  visited = Len(cfg.pipelines[at].nodes) <=> Ordered(cfg.pipelines[at])
    <3>1. PICK p, done, rank : p = cfg.pipelines[at] /\ GraphOk(p) /\ Searched(p, done, rank)
      BY <2>1 DEF ConfigInv, Searching
    <3>2. at \in DOMAIN cfg.pipelines
      BY <2>0, <2>1 DEF ConfigInv, Searching
    <3>3. IsList(p.nodes) /\ IsList(p.edges)
      BY <3>1, <3>2 DEF ConfigInv, ConfigShape
    <3>4. visited = Len(p.nodes) <=> Ordered(p)
      BY <2>1, <3>1, <3>3, SearchDecides
    <3>. QED
      BY <3>1, <3>4
  <2>2. ASSUME vstep = "accepted" PROVE \A i \in DOMAIN cfg.pipelines : Ordered(cfg.pipelines[i])
    BY <2>0, <2>2 DEF ConfigInv, Passed
  <2>3. ASSUME vstep = "accepted", NEW i \in DOMAIN cfg.tasks
        PROVE  \E s \in DOMAIN cfg.sources, p \in DOMAIN cfg.pipelines :
                  cfg.sources[s].id = cfg.tasks[i].source /\ cfg.pipelines[p].id = cfg.tasks[i].pipeline
    BY <2>3 DEF ConfigInv, Passed, Ids
  <2>4. ASSUME vstep = "accepted"
        PROVE  /\ \A i \in DOMAIN cfg.models : cfg.models[i].cascade \subseteq Ids(cfg.models)
               /\ Cardinality(Ids(cfg.models)) = Len(cfg.models)
    <3>1. NoDuplicates(cfg.models) /\ IsList(cfg.models)
      BY <2>4 DEF ConfigInv, ConfigShape, Passed
    <3>. QED
      BY <2>4, <3>1, IdsCount DEF ConfigInv, Passed
  <2>. QED
    BY <2>1, <2>2, <2>3, <2>4 DEF VerdictIsRight
<1>. QED
  BY <1>1, <1>2, ConfigStep, PTL DEF ConfigSafety
=============================================================================
