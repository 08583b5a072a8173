-------------------------- MODULE ConfigValidation --------------------------
(***************************************************************************)
(* loadConfig: what is refused while the file is parsed, the models found  *)
(* in the repository, and validateAppConfig, with the search for a cycle   *)
(* in every pipeline graph step by step.  The first complaint ends it.     *)
(*                                                                         *)
(* A configuration is a record of its sections.  The id "" stands for an   *)
(* empty one, "?" for one with an illegal character.                       *)
(***************************************************************************)
EXTENDS Integers, Sequences, FiniteSets, SequencesExt, Functions

CONSTANT Configs   \* the configurations that are tried

\* A section, or a part of one, that is a list.
IsList(s) == s \in Seq({s[i] : i \in DOMAIN s})

\* What parsing yields: the sections are there, and those that are searched
\* are finite lists.
ASSUME ConfigsAssumption ==
    \A c \in Configs :
        /\ {"models", "sources", "pipelines", "tasks", "repository"} \subseteq DOMAIN c
        /\ IsFiniteSet(c.repository)
        /\ IsList(c.models) /\ IsList(c.pipelines)
        /\ \A i \in DOMAIN c.pipelines : IsList(c.pipelines[i].nodes) /\ IsList(c.pipelines[i].edges)

VARIABLES
    cfg,      \* the configuration; the repository's models join its models
    vstep,    \* what is looked at next; "accepted" and "rejected" are final
    at,       \* index of the pipeline whose graph is searched
    indegree, \* node -> edges not removed yet
    ready,    \* q: nodes without incoming edges, not visited
    visited   \* nodes taken from q

configVars == <<cfg, vstep, at, indegree, ready, visited>>

ConfigInit ==
    /\ cfg \in Configs
    /\ vstep = "server" /\ at = 1
    /\ indegree = <<>> /\ ready = {} /\ visited = 0

Ids(section) == {section[i].id : i \in DOMAIN section}
NoDuplicates(section) == \A i, j \in DOMAIN section : section[i].id = section[j].id => i = j
Legal(id) == id \notin {"", "?"}

\* The step named from goes on to the one named to if ok.
Check(from, ok, to) ==
    /\ vstep = from
    /\ vstep' = IF ok THEN to ELSE "rejected"

searchVars == <<at, indegree, ready, visited>>

-----------------------------------------------------------------------------
(* loadConfig.                                                             *)

ParseServer ==
    /\ Check("server", cfg.decodeThreads \in 0..64 /\ cfg.encodeThreads \in 0..64, "models")
    /\ UNCHANGED <<cfg, searchVars>>

\* parseModelConfigNode: one device per instance, if devices are listed.
ParseModels ==
    /\ Check("models", \A i \in DOMAIN cfg.models :
                 cfg.models[i].devices \in {0, cfg.models[i].instances}, "sections")
    /\ UNCHANGED <<cfg, searchVars>>

\* Sources with keys that moved to tasks; values that do not convert.
ParseSections ==
    /\ Check("sections", /\ \A i \in DOMAIN cfg.sources : ~cfg.sources[i].oldKeys
                         /\ \A i \in DOMAIN cfg.tasks : cfg.tasks[i].sampling \in {"frame_count", "time_based"},
             "publishers")
    /\ UNCHANGED <<cfg, searchVars>>

ParsePublishers ==
    /\ Check("publishers",
             /\ cfg.publishers # <<>> /\ NoDuplicates(cfg.publishers)
             /\ \A i \in DOMAIN cfg.publishers :
                  cfg.publishers[i].id # "" /\ cfg.publishers[i].type \in {"kafka", "grpc", "redis"},
             "archive")
    /\ UNCHANGED <<cfg, searchVars>>

ParseArchive ==
    LET a == cfg.archive IN
    /\ Check("archive",
             /\ a.workers > 0 /\ a.interval > 0 /\ a.quality \in 1..100 /\ a.capacity > 0
             /\ a.retention => a.maxAge >= 1 /\ a.scan >= 1, "repository")
    /\ UNCHANGED <<cfg, searchVars>>

\* The backend's kind of weight file.
KindOf == [cuda |-> "engine", cpu |-> "onnx", mps |-> "onnx", ascend |-> "om"]

\* autoDetectWeights: the weights a repository model ends up with: an explicit
\* weight_file, a configured path, or the only candidate of its version.
Weights(m) ==
    LET kind == KindOf[m.backend]
        explicit == m.weightFile # "none"
        settled  == kind \in m.paths \/ (m.backend = "cuda" /\ "onnx" \in m.paths)
    IN  IF explicit THEN (IF m.weightFile = kind THEN m.paths \cup {kind} ELSE {})
        ELSE IF settled THEN m.paths
        ELSE IF m.candidates = 1 THEN m.paths \cup {kind} ELSE {}

\* scanModelRepository: directories with an illegal name or without a config
\* are passed over; a version must be there, the active one if one is named.
Offered(m) == m.id # "?" /\ m.hasConfig
Usable(m) ==
    /\ m.named \in {"", m.id}
    /\ m.versions # {}
    /\ m.active >= 0 => m.active \in m.versions
    /\ m.devices \in {0, m.instances}
    /\ KindOf[m.backend] \in Weights(m)

\* parseModelConfigNode of a model's own file, named after its directory.
Parsed(m) == [id |-> m.id, cascade |-> m.cascade, devices |-> m.devices, instances |-> m.instances]

ScanRepository ==
    LET offered == {m \in cfg.repository : Offered(m)}
        add     == SetToSeq({Parsed(m) : m \in offered})
        ok      == /\ \A m \in offered : Usable(m)
                   /\ {m.id : m \in offered} \cap Ids(cfg.models) = {}
    IN  /\ Check("repository", ok, "validateModels")
        /\ cfg' = IF ok THEN [cfg EXCEPT !.models = @ \o add] ELSE cfg
        /\ UNCHANGED searchVars

-----------------------------------------------------------------------------
(* validateAppConfig.                                                      *)

validateModels ==
    /\ Check("validateModels", (\A i \in Ids(cfg.models) : Legal(i)) /\ NoDuplicates(cfg.models), "cascade")
    /\ UNCHANGED <<cfg, searchVars>>

validateCascadeModelRefs ==
    /\ Check("cascade", \A i \in DOMAIN cfg.models : cfg.models[i].cascade \subseteq Ids(cfg.models),
             "validateSources")
    /\ UNCHANGED <<cfg, searchVars>>

validateSources ==
    /\ Check("validateSources", (\A i \in Ids(cfg.sources) : Legal(i)) /\ NoDuplicates(cfg.sources), "graphs")
    /\ UNCHANGED <<cfg, searchVars>>

\* The options of a video sink; flaws are the ones its "with" has.
NodeOk(n) ==
    /\ n.type = "sink.stream" => n.flaws \cap {"no output_url", "protocol"} = {}
    /\ n.type = "sink.ffplay" => n.flaws \cap {"fps", "queue_capacity", "drop_policy"} = {}

\* Edges between nodes of the pipeline, with room for something.
EdgesOk(p) ==
    \A i \in DOMAIN p.edges :
        {p.edges[i].from, p.edges[i].to} \subseteq Ids(p.nodes) /\ p.edges[i].capacity > 0

Incoming(p, n) == {i \in DOMAIN p.edges : p.edges[i].to = n}
Outgoing(p, n) == {i \in DOMAIN p.edges : p.edges[i].from = n}

\* validatePipelineGraphs up to the search, for the pipeline it is at.
EnterPipeline ==
    LET p  == cfg.pipelines[at]
        ok == /\ p.id # "" /\ ~\E j \in 1..(at - 1) : cfg.pipelines[j].id = p.id
              /\ p.nodes # <<>> /\ NoDuplicates(p.nodes)
              /\ \A i \in DOMAIN p.nodes : p.nodes[i].id # "" /\ NodeOk(p.nodes[i])
              /\ EdgesOk(p)
        deg == [n \in Ids(p.nodes) |-> Cardinality(Incoming(p, n))]
    IN  /\ at <= Len(cfg.pipelines)
        /\ Check("graphs", ok, "search")
        /\ indegree' = IF ok THEN deg ELSE indegree
        /\ ready' = IF ok THEN {n \in Ids(p.nodes) : deg[n] = 0} ELSE ready
        /\ visited' = 0
        /\ UNCHANGED <<cfg, at>>

\* Mutant: parallel edges are removed once.
RelaxOnce(n) ==
    LET p == cfg.pipelines[at]
        targets == {p.edges[i].to : i \in Outgoing(p, n)}
    IN  [m \in DOMAIN indegree |-> indegree[m] - (IF m \in targets THEN 1 ELSE 0)]

\* The edges out of n go.
Relax(n) ==
    LET p == cfg.pipelines[at] IN
    [m \in DOMAIN indegree |-> indegree[m] - Cardinality(Outgoing(p, n) \cap Incoming(p, m))]

\* The search visits a node that is ready; which one is the hash map's choice.
VisitNode(n) ==
    /\ vstep = "search" /\ n \in ready
    /\ visited' = visited + 1
    /\ indegree' = Relax(n)
    /\ ready' = (ready \ {n}) \cup {m \in DOMAIN indegree : indegree[m] > 0 /\ indegree'[m] = 0}
    /\ UNCHANGED <<cfg, vstep, at>>

LeavePipeline ==
    /\ ready = {}
    /\ Check("search", visited = Len(cfg.pipelines[at].nodes), "graphs")
    /\ at' = at + 1
    /\ indegree' = <<>> /\ visited' = 0
    /\ UNCHANGED <<cfg, ready>>

validateTasks ==
    /\ at > Len(cfg.pipelines)
    /\ Check("graphs",
             /\ NoDuplicates(cfg.tasks)
             /\ \A i \in DOMAIN cfg.tasks : LET t == cfg.tasks[i] IN
                  /\ "" \notin {t.id, t.source, t.pipeline}
                  /\ t.source \in Ids(cfg.sources) /\ t.pipeline \in Ids(cfg.pipelines)
                  /\ t.fps >= 1 /\ t.device >= 0,
             "accepted")
    /\ UNCHANGED <<cfg, searchVars>>

ConfigNext ==
    \/ ParseServer \/ ParseModels \/ ParseSections \/ ParsePublishers \/ ParseArchive
    \/ ScanRepository \/ validateModels \/ validateCascadeModelRefs \/ validateSources
    \/ EnterPipeline \/ LeavePipeline \/ validateTasks
    \/ \E n \in ready : VisitNode(n)

-----------------------------------------------------------------------------
\* A pipeline the executor can run: its stages can be put in an order in which
\* every edge leads forward.
Ordered(p) ==
    \E rank \in [Ids(p.nodes) -> 1..Len(p.nodes)] :
        \A i \in DOMAIN p.edges : rank[p.edges[i].from] < rank[p.edges[i].to]

\* The search for a cycle accepts exactly the graphs that can be ordered, with
\* parallel edges, self loops and parts that are not connected, and whatever
\* order the hash map yields; and what has been accepted has no dangling
\* reference, the repository's models included.
VerdictIsRight ==
    /\ vstep = "search" /\ ready = {} =>
         (visited = Len(cfg.pipelines[at].nodes) <=> Ordered(cfg.pipelines[at]))
    /\ vstep = "accepted" =>
         /\ \A i \in DOMAIN cfg.pipelines : Ordered(cfg.pipelines[i])
         /\ \A i \in DOMAIN cfg.tasks : \E s \in DOMAIN cfg.sources, p \in DOMAIN cfg.pipelines :
              cfg.sources[s].id = cfg.tasks[i].source /\ cfg.pipelines[p].id = cfg.tasks[i].pipeline
         /\ \A i \in DOMAIN cfg.models : cfg.models[i].cascade \subseteq Ids(cfg.models)
         /\ Cardinality(Ids(cfg.models)) = Len(cfg.models)
=============================================================================
