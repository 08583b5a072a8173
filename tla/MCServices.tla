----------------------------- MODULE MCServices -----------------------------
(***************************************************************************)
(* What becomes of frames and results between the source and the network,  *)
(* and the process around it: two models in cascade, the slicing stages,   *)
(* the frame archive, a video sink, the configuration, the management      *)
(* socket, an inference backend and the model manager.  They share         *)
(* nothing, so they are checked side by side: part says which of them a    *)
(* behaviour is about, the others keep their initial state.                *)
(***************************************************************************)
EXTENDS Cascade, Sahi, FrameArchive, VideoOutput, ProcessLifecycle, ConfigValidation,
        Backend, ModelPipelines

VARIABLE part

\* Two results of one stream.
MCKeyOf == [r1 |-> "cam:1", r2 |-> "cam:2"]

-----------------------------------------------------------------------------
(* Configurations: a good one, and what is left of it when one section is  *)
(* replaced.                                                               *)

Model(id, cascade) == [id |-> id, cascade |-> cascade, devices |-> 2, instances |-> 2]
Stored(id) == [id |-> id, hasConfig |-> TRUE, named |-> "", versions |-> {1, 2}, active |-> 2,
               backend |-> "cuda", paths |-> {}, weightFile |-> "none", candidates |-> 1,
               cascade |-> {}, devices |-> 0, instances |-> 1]
Node(id) == [id |-> id, type |-> "infer.engine", flaws |-> {}]
Edge(from, to) == [from |-> from, to |-> to, capacity |-> 8]
Pipeline(id, edges) == [id |-> id, nodes |-> <<Node("a"), Node("b"), Node("c")>>, edges |-> edges]
Task(id) == [id |-> id, source |-> "cam", pipeline |-> "p", fps |-> 5, device |-> 0,
             sampling |-> "time_based"]
Line == <<Edge("a", "b"), Edge("b", "c")>>

Good ==
    [decodeThreads |-> 0, encodeThreads |-> 64,
     models     |-> <<Model("det", {"cls"})>>,
     sources    |-> <<[id |-> "cam", oldKeys |-> FALSE]>>,
     pipelines  |-> <<Pipeline("p", Line)>>,
     tasks      |-> <<Task("t")>>,
     publishers |-> <<[id |-> "k", type |-> "kafka"], [id |-> "r", type |-> "redis"]>>,
     archive    |-> [workers |-> 1, interval |-> 1, quality |-> 90, capacity |-> 1,
                     retention |-> TRUE, maxAge |-> 1, scan |-> 1],
     repository |-> {Stored("cls")}]

\* Every graph of three nodes and at most three edges.
Links == {Edge(x, y) : x \in {"a", "b", "c"}, y \in {"a", "b", "c"}}
Graphs == {<<>>} \cup UNION {[1..n -> Links] : n \in 1..3}

\* Good with the section replaced by each of the values.
With(section, values) == {[Good EXCEPT ![section] = v] : v \in values}

OddStored ==
    {[Stored("cls") EXCEPT !.hasConfig = FALSE], [Stored("cls") EXCEPT !.id = "?"],
     [Stored("cls") EXCEPT !.named = "other"], [Stored("cls") EXCEPT !.versions = {}],
     [Stored("cls") EXCEPT !.active = 3], [Stored("cls") EXCEPT !.active = -1],
     [Stored("cls") EXCEPT !.candidates = 0], [Stored("cls") EXCEPT !.candidates = 2],
     [Stored("cls") EXCEPT !.candidates = 2, !.paths = {"onnx"}],
     [Stored("cls") EXCEPT !.backend = "cpu", !.weightFile = "onnx"],
     [Stored("cls") EXCEPT !.weightFile = "om"], Stored("det"),
     [Stored("cls") EXCEPT !.cascade = {"det", "cls"}], [Stored("cls") EXCEPT !.cascade = {"gone"}],
     [Stored("cls") EXCEPT !.devices = 2], [Stored("cls") EXCEPT !.devices = 2, !.instances = 2]}

MCConfigs ==
    With("pipelines", {<<Pipeline("p", g)>> : g \in Graphs})
    \cup With("pipelines", {
        <<Pipeline("p", Line), Pipeline("p", Line)>>,
        <<Pipeline("q", Line), Pipeline("p", <<Edge("b", "a"), Edge("a", "c")>>)>>,
        <<Pipeline("p", Line), Pipeline("q", <<Edge("a", "b"), Edge("b", "a")>>)>>,
        <<Pipeline("q", Line)>>, <<Pipeline("", Line)>>, <<>>,
        <<[Pipeline("p", <<>>) EXCEPT !.nodes = <<>>]>>,
        <<[Pipeline("p", <<>>) EXCEPT !.nodes = <<Node("a"), Node("a")>>]>>,
        <<[Pipeline("p", <<>>) EXCEPT !.nodes = <<[Node("a") EXCEPT !.type = "sink.stream", !.flaws = {"protocol"}]>>]>>,
        <<[Pipeline("p", <<>>) EXCEPT !.nodes = <<[Node("a") EXCEPT !.type = "sink.ffplay", !.flaws = {"fps"}]>>]>>,
        <<Pipeline("p", <<Edge("a", "z")>>)>>,
        <<Pipeline("p", <<[Edge("a", "b") EXCEPT !.capacity = 0]>>)>>})
    \cup With("decodeThreads", {-1, 65}) \cup With("encodeThreads", {65})
    \cup With("models", {<<Model("det", {"none"})>>, <<Model("det", {}), Model("det", {})>>,
                         <<Model("?", {})>>, <<>>, <<[Model("det", {}) EXCEPT !.devices = 1]>>})
    \cup With("sources", {<<>>, <<[id |-> "cam", oldKeys |-> TRUE]>>, <<[id |-> "", oldKeys |-> FALSE]>>,
                          <<Good.sources[1], Good.sources[1]>>})
    \cup With("tasks", {<<>>, <<Task("t"), Task("t")>>, <<Task("t"), Task("u")>>, <<Task("")>>,
                        <<[Task("t") EXCEPT !.fps = 0]>>, <<[Task("t") EXCEPT !.device = -1]>>,
                        <<[Task("t") EXCEPT !.sampling = "odd"]>>, <<[Task("t") EXCEPT !.source = "none"]>>,
                        <<[Task("t") EXCEPT !.pipeline = "none"]>>})
    \cup With("publishers", {<<>>, <<Good.publishers[1], Good.publishers[1]>>,
                             <<[id |-> "k", type |-> "mqtt"]>>, <<[id |-> "", type |-> "grpc"]>>})
    \cup With("archive", {[Good.archive EXCEPT !.quality = 101], [Good.archive EXCEPT !.maxAge = 0],
                          [Good.archive EXCEPT !.retention = FALSE, !.scan = 0]})
    \cup With("repository", {{m} : m \in OddStored} \cup {{}})

-----------------------------------------------------------------------------
Looked == {"cascade", "sahi", "archive", "video", "process", "config", "backend",
           "frames", "swaps"}

\* Bound: the frames of a camera have one size.
OneSize == \A f \in DOMAIN cut' : cut'[f].full = cut'[1].full

\* The model manager is looked at twice.  Bound for its streams and batches: one
\* caller with one model, loaded or swapped for a version of itself at most twice,
\* always in cascade; the streams have frames of one kind.
OneModel ==
    /\ started' <= 2 /\ cascaded' = 1..started'
    /\ \A p \in Pipes : modelOf'[p] \in {"none", "det"}
    /\ \A m \in Models \ {"det"} : entry'[m] = 0
    /\ \A s \in Cameras : served'[s] \in {"none", "det"} /\ "gpu" \notin Range(frames'[s])
    /\ \A c \in Managers \ {"m1"} : tearing'[c].pipe = 0

\* Bound for two callers with two models: no stream is added.
NoStream == inputs' = 0

MCInit ==
    /\ part \in Looked
    /\ VideoInit /\ (part # "video" => kind = "ffmpeg" /\ dropOldest)
    /\ BackendInit /\ (part # "backend" => engine = "onnx" /\ ~aipp)
    /\ CascadeInit /\ SahiInit /\ ArchiveInit /\ ProcInit /\ PipelinesInit
    /\ ConfigInit /\ (part # "config" => cfg = Good)

MCNext ==
    \/ /\ part = "cascade" /\ CascadeNext
       /\ UNCHANGED <<sahiVars, archiveVars, sinkVars, procVars, configVars,
                      backendVars, pipelineVars, part>>
    \/ /\ part = "sahi" /\ SahiNext /\ OneSize
       /\ UNCHANGED <<cascadeVars, archiveVars, sinkVars, procVars, configVars,
                      backendVars, pipelineVars, part>>
    \/ /\ part = "archive" /\ ArchiveNext
       /\ UNCHANGED <<cascadeVars, sahiVars, sinkVars, procVars, configVars,
                      backendVars, pipelineVars, part>>
    \/ /\ part = "video" /\ VideoNext
       /\ UNCHANGED <<cascadeVars, sahiVars, archiveVars, procVars, configVars,
                      backendVars, pipelineVars, part>>
    \/ /\ part = "process" /\ ProcNext
       /\ UNCHANGED <<cascadeVars, sahiVars, archiveVars, sinkVars, configVars,
                      backendVars, pipelineVars, part>>
    \/ /\ part = "config" /\ ConfigNext
       /\ UNCHANGED <<cascadeVars, sahiVars, archiveVars, sinkVars, procVars,
                      backendVars, pipelineVars, part>>
    \/ /\ part = "backend" /\ BackendNext
       /\ UNCHANGED <<cascadeVars, sahiVars, archiveVars, sinkVars, procVars,
                      configVars, pipelineVars, part>>
    \/ /\ part = "frames" /\ PipelinesNext /\ OneModel
       /\ UNCHANGED <<cascadeVars, sahiVars, archiveVars, sinkVars, procVars,
                      configVars, backendVars, part>>
    \/ /\ part = "swaps" /\ PipelinesNext /\ NoStream
       /\ UNCHANGED <<cascadeVars, sahiVars, archiveVars, sinkVars, procVars,
                      configVars, backendVars, part>>

allVars == <<cascadeVars, sahiVars, archiveVars, sinkVars,
             procVars, configVars, backendVars, pipelineVars, part>>

MCSpec == MCInit /\ [][MCNext]_allVars
=============================================================================
