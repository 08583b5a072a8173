---------------------------- MODULE TaskRegistry ----------------------------
(***************************************************************************)
(* What TaskManager knows: the configuration cfg_ (the base YAML with the  *)
(* runtime state applied), runtime_state_ (the record of every mutation),  *)
(* the sidecar file it is saved to, and entries_ (the executors).  Every   *)
(* mutator runs under mu_ from its first check to the end of persist(), so *)
(* it is one step.  A mutator that returns false changes nothing and is    *)
(* not a step.                                                             *)
(*                                                                         *)
(* The four vectors of a configuration are kept as one sequence per id:    *)
(* the items with that id in the order of the vector (<<>>: none), since   *)
(* the code only ever searches them by id or goes over all of them.  Of a  *)
(* pipeline what matters is the models its infer.engine nodes name, in     *)
(* order; of a task, its source and pipeline; of a source or model, that   *)
(* it can differ from another with the same id.                            *)
(*                                                                         *)
(* buildEntry throws when a stage cannot be made (StageFactory::create,    *)
(* here: a model that is not loaded).  Nothing catches the exception, on   *)
(* the client threads of UnixSocketServer or in main: the process ends.    *)
(***************************************************************************)
EXTENDS Naturals, Sequences

CONSTANTS
    SourceIds, PipelineIds, TaskIds, ModelIds,
    SourceConfigs,    \* what PipelineSourceConfig may hold beside the id
    PipelineConfigs,  \* the model ids a pipeline's infer.engine nodes name
    ModelConfigs,     \* what ModelConfig may hold beside the id
    Base,             \* the configuration loadConfig reads from the YAML
    MaxCopies,        \* bound: items with one id in one vector
    MaxFailures       \* bound: number of saves that go wrong

Kinds == {"source", "pipeline", "task", "model"}
Ids == [source |-> SourceIds, pipeline |-> PipelineIds, task |-> TaskIds, model |-> ModelIds]
TaskConfigs == [source : SourceIds, pipeline : PipelineIds]
Items == [source |-> SourceConfigs, pipeline |-> PipelineConfigs,
          task |-> TaskConfigs, model |-> ModelConfigs]

NoConfig == [k \in Kinds |-> [id \in Ids[k] |-> <<>>]]
NoState  == [added |-> NoConfig, removed |-> [k \in Kinds |-> {}]]
Torn     == [torn |-> TRUE]

\* find*(id) # nullptr, and the item it returns: the first with that id.
Has(c, k, id)  == c[k][id] # <<>>
Find(c, k, id) == Head(c[k][id])

\* validateTasks, on the YAML before the runtime state is applied.
ASSUME BaseAssumption ==
    /\ \A k \in Kinds : Base[k] \in [Ids[k] -> {<<>>} \cup {<<x>> : x \in Items[k]}]
    /\ \A t \in TaskIds : Has(Base, "task", t) =>
          /\ Has(Base, "source", Find(Base, "task", t).source)
          /\ Has(Base, "pipeline", Find(Base, "task", t).pipeline)
ASSUME PipelineConfigsAssumption == PipelineConfigs \subseteq Seq(ModelIds)
ASSUME BoundsAssumption == MaxCopies \in Nat \ {0} /\ MaxFailures \in Nat

VARIABLES
    up,        \* the process runs and serves the management socket
    cfg,       \* cfg_
    rs,        \* runtime_state_
    disk,      \* the sidecar file: a RuntimeState, or Torn
    entries,   \* entries_: the state of each task's executor, or "None"
    failures   \* number of saves that went wrong

vars == <<up, cfg, rs, disk, entries, failures>>

IsConfig(c) == c = [k \in Kinds |-> c[k]] /\ \A k \in Kinds : c[k] \in [Ids[k] -> Seq(Items[k])]
IsState(s) ==
    /\ s = [added |-> s.added, removed |-> s.removed]
    /\ IsConfig(s.added)
    /\ s.removed = [k \in Kinds |-> s.removed[k]] /\ \A k \in Kinds : s.removed[k] \subseteq Ids[k]

TypeOK ==
    /\ up \in BOOLEAN
    /\ IsConfig(cfg)
    /\ IsState(rs)
    /\ disk = Torn \/ IsState(disk)
    /\ entries \in [TaskIds -> {"None", "Running", "Stopped"}]
    /\ failures \in 0..MaxFailures

-----------------------------------------------------------------------------
(* RuntimeState.                                                           *)

\* loadRuntimeState: no file, or one that does not parse, is the empty state.
Load(file) == IF file = Torn THEN NoState ELSE file

\* applyRuntimeState: erase the removed ids, then append what was added unless
\* an item with its id is there.  (Of several added with one id, the first.)
Apply(base, state) ==
    [k \in Kinds |-> [id \in Ids[k] |->
        IF base[k][id] # <<>> /\ id \notin state.removed[k] THEN base[k][id]
        ELSE IF state.added[k][id] = <<>> THEN <<>>
        ELSE <<Head(state.added[k][id])>>]]

\* saveRuntimeState(runtime_state_): writes a temporary file and renames it.
\* If the file cannot be opened or renamed the old one stays.  If the disk is
\* full the stream fails silently and what there is gets renamed: Torn.
Persist ==
    \/ disk' = rs' /\ UNCHANGED failures
    \/ /\ failures < MaxFailures
       /\ failures' = failures + 1
       /\ disk' \in {disk, Torn}

-----------------------------------------------------------------------------
(* The parts the mutators are made of.                                     *)

PushBack(c, k, id, x) == [c EXCEPT ![k][id] = Append(@, x)]
EraseById(c, k, id)   == [c EXCEPT ![k][id] = <<>>]
SetFirst(c, k, id, x) == IF Has(c, k, id) THEN [c EXCEPT ![k][id][1] = x] ELSE c

\* push_back to cfg_ and to added_*, take the id off removed_*.
Add(k, id, x) ==
    /\ Len(cfg[k][id]) < MaxCopies /\ Len(rs.added[k][id]) < MaxCopies
    /\ cfg' = PushBack(cfg, k, id, x)
    /\ rs' = [added |-> PushBack(rs.added, k, id, x),
              removed |-> [rs.removed EXCEPT ![k] = @ \ {id}]]

\* Mutant: an id that was added at run time is not put on removed_*.
RemoveAddedOnly(k, id) ==
    /\ cfg' = EraseById(cfg, k, id)
    /\ rs' = [added |-> EraseById(rs.added, k, id),
              removed |-> IF Has(rs.added, k, id) THEN rs.removed
                          ELSE [rs.removed EXCEPT ![k] = @ \cup {id}]]

\* Erase from cfg_ and from added_*, put the id on removed_*.
Remove(k, id) ==
    /\ cfg' = EraseById(cfg, k, id)
    /\ rs' = [added |-> EraseById(rs.added, k, id),
              removed |-> [rs.removed EXCEPT ![k] = @ \cup {id}]]

\* Mutant: the update does not reach added_*.
UpdateInMemory(k, id, x) ==
    /\ cfg' = SetFirst(cfg, k, id, x)
    /\ UNCHANGED rs

\* Replace the item in cfg_, and in added_* if it is there.
Update(k, id, x) ==
    /\ cfg' = SetFirst(cfg, k, id, x)
    /\ rs' = [rs EXCEPT !.added = SetFirst(@, k, id, x)]

\* buildEntry in configuration c: it returns false, or throws, or succeeds.
Buildable(c, task) == Has(c, "source", task.source) /\ Has(c, "pipeline", task.pipeline)
Throws(c, task) ==
    /\ Buildable(c, task)
    /\ LET models == Find(c, "pipeline", task.pipeline)
       IN  \E i \in DOMAIN models : ~Has(c, "model", models[i])

\* The exception leaves the thread: std::terminate.
Terminate ==
    /\ up' = FALSE
    /\ cfg' = NoConfig
    /\ rs' = NoState
    /\ entries' = [t \in TaskIds |-> "None"]
    /\ UNCHANGED <<disk, failures>>

TasksOf(c, t) == {c["task"][t][i] : i \in DOMAIN c["task"][t]}
AllTasks(c)   == UNION {TasksOf(c, t) : t \in TaskIds}

-----------------------------------------------------------------------------
AddSource(id, x) ==
    /\ up
    /\ ~Has(cfg, "source", id)
    /\ Add("source", id, x)
    /\ Persist
    /\ UNCHANGED <<up, entries>>

\* Mutant: only running tasks are looked at, as the comment there has it.
RemoveSourceOfStopped(id) ==
    /\ up
    /\ Has(cfg, "source", id)
    /\ \A t \in TaskIds : entries[t] = "Running" => \A task \in TasksOf(cfg, t) : task.source # id
    /\ Remove("source", id)
    /\ Persist
    /\ UNCHANGED <<up, entries>>

RemoveSource(id) ==
    /\ up
    /\ Has(cfg, "source", id)
    /\ \A task \in AllTasks(cfg) : task.source # id
    /\ Remove("source", id)
    /\ Persist
    /\ UNCHANGED <<up, entries>>

AddPipeline(id, x) ==
    /\ up
    /\ ~Has(cfg, "pipeline", id)
    /\ Add("pipeline", id, x)
    /\ Persist
    /\ UNCHANGED <<up, entries>>

RemovePipeline(id) ==
    /\ up
    /\ Has(cfg, "pipeline", id)
    /\ \A task \in AllTasks(cfg) : task.pipeline # id
    /\ Remove("pipeline", id)
    /\ Persist
    /\ UNCHANGED <<up, entries>>

\* The tasks that updatePipeline(id) rebuilds, and what rebuilding leaves of
\* entries_ in configuration c: the last copy of a task that can be built.
Affected(id) == {t \in TaskIds : \E task \in TasksOf(cfg, t) : task.pipeline = id}
AffectedTasks(id) == {task \in AllTasks(cfg) : task.pipeline = id}
Rebuilt(c, id) ==
    [t \in TaskIds |->
        IF t \notin Affected(id) THEN entries[t]
        ELSE IF \E task \in TasksOf(cfg, t) : task.pipeline = id /\ Buildable(c, task)
        THEN "Stopped" ELSE "None"]

\* The new template goes in and every task that uses it is built again.
UpdatePipeline(id, x) ==
    /\ up
    /\ Has(cfg, "pipeline", id)
    /\ \A t \in Affected(id) : entries[t] # "Running"
    /\ LET new == SetFirst(cfg, "pipeline", id, x) IN
       /\ \A task \in AffectedTasks(id) : Buildable(new, task) /\ ~Throws(new, task)
       /\ Update("pipeline", id, x)
       /\ entries' = Rebuilt(new, id)
    /\ Persist
    /\ UNCHANGED up

\* buildEntry returns false for a task (its source is gone): the old template
\* and the tasks that can be built from it are put back.
UpdatePipelineRestores(id, x) ==
    /\ up
    /\ Has(cfg, "pipeline", id)
    /\ \A t \in Affected(id) : entries[t] # "Running"
    /\ \E task \in AffectedTasks(id) : ~Buildable(cfg, task)
    /\ \A task \in AffectedTasks(id) : ~Throws(cfg, task)
    /\ entries' = Rebuilt(cfg, id)
    /\ UNCHANGED <<up, cfg, rs, disk, failures>>

\* buildEntry throws, from the new template or while restoring the old one.
UpdatePipelineThrows(id, x) ==
    /\ up
    /\ Has(cfg, "pipeline", id)
    /\ \A t \in Affected(id) : entries[t] # "Running"
    /\ LET new == SetFirst(cfg, "pipeline", id, x) IN
       \/ \E task \in AffectedTasks(id) : Throws(new, task)
       \/ /\ \E task \in AffectedTasks(id) : ~Buildable(cfg, task)
          /\ \E task \in AffectedTasks(id) : Throws(cfg, task)
    /\ Terminate

UpdateTask(t, task) ==
    /\ up
    /\ entries[t] = "Stopped"
    /\ Buildable(cfg, task)
    /\ IF Throws(cfg, task) THEN Terminate
       ELSE /\ Update("task", t, task)
            /\ Persist
            /\ UNCHANGED <<up, entries>>

\* The duplicate test looks at entries_ only.
AddTask(t, task, autostart) ==
    /\ up
    /\ entries[t] = "None"
    /\ Buildable(cfg, task)
    /\ IF Throws(cfg, task) THEN Terminate
       ELSE /\ Add("task", t, task)
            /\ entries' = [entries EXCEPT ![t] = IF autostart THEN "Running" ELSE "Stopped"]
            /\ Persist
            /\ UNCHANGED up

RemoveTask(t) ==
    /\ up
    /\ entries[t] # "None"
    /\ Remove("task", t)
    /\ entries' = [entries EXCEPT ![t] = "None"]
    /\ Persist
    /\ UNCHANGED up

\* Also loadFromRepository, for a model of the repository.
LoadModel(id, x) ==
    /\ up
    /\ ~Has(cfg, "model", id)
    /\ Add("model", id, x)
    /\ Persist
    /\ UNCHANGED <<up, entries>>

\* findInferModelId: the model of the first infer.engine node.
InferModel(t) ==
    LET pl == Find(cfg, "task", t).pipeline IN
    IF Has(cfg, "task", t) /\ Has(cfg, "pipeline", pl) /\ Find(cfg, "pipeline", pl) # <<>>
    THEN {Head(Find(cfg, "pipeline", pl))}
    ELSE {}

UnloadModel(id) ==
    /\ up
    /\ Has(cfg, "model", id)
    /\ \A t \in TaskIds : entries[t] = "Running" => id \notin InferModel(t)
    /\ Remove("model", id)
    /\ Persist
    /\ UNCHANGED <<up, entries>>

\* start and stop, as far as entries_ is concerned (see TaskControl).
StartStop(t) ==
    /\ up
    /\ \/ entries[t] = "Stopped" /\ entries' = [entries EXCEPT ![t] = "Running"]
       \/ entries[t] = "Running" /\ entries' = [entries EXCEPT ![t] = "Stopped"]
    /\ UNCHANGED <<up, cfg, rs, disk, failures>>

\* The process ends: stopped, killed, or by an exception elsewhere.
Exit == up /\ Terminate

\* main: the constructor, loadAll and startAll.  When loadAll throws there is
\* no process, now and at every later attempt.
Boot ==
    /\ ~up
    /\ LET state == Load(disk)
           c     == Apply(Base, state) IN
       /\ \A task \in AllTasks(c) : ~Throws(c, task)
       /\ rs' = state
       /\ cfg' = c
       /\ entries' = [t \in TaskIds |->
                        IF \E task \in TasksOf(c, t) : Buildable(c, task)
                        THEN "Running" ELSE "None"]
    /\ up' = TRUE
    /\ UNCHANGED <<disk, failures>>

Init ==
    /\ up = FALSE
    /\ cfg = NoConfig
    /\ rs = NoState
    /\ disk = NoState
    /\ entries = [t \in TaskIds |-> "None"]
    /\ failures = 0

Next ==
    \/ \E id \in SourceIds : RemoveSource(id) \/ \E x \in SourceConfigs : AddSource(id, x)
    \/ \E id \in PipelineIds :
          \/ RemovePipeline(id)
          \/ \E x \in PipelineConfigs :
                \/ AddPipeline(id, x) \/ UpdatePipeline(id, x)
                \/ UpdatePipelineRestores(id, x) \/ UpdatePipelineThrows(id, x)
    \/ \E t \in TaskIds :
          \/ RemoveTask(t) \/ StartStop(t)
          \/ \E task \in TaskConfigs :
                \/ UpdateTask(t, task)
                \/ \E autostart \in BOOLEAN : AddTask(t, task, autostart)
    \/ \E id \in ModelIds : UnloadModel(id) \/ \E x \in ModelConfigs : LoadModel(id, x)
    \/ Exit
    \/ Boot

Spec == Init /\ [][Next]_vars

-----------------------------------------------------------------------------
\* Every configured task refers to a source and a pipeline that exist, across
\* every order of adding, updating and removing them, restarts from a file
\* that lags behind, and files that were lost (the guards of removeSource,
\* removePipeline, updateTask and addTask).  Only without base items.
RefIntegrity == up => \A task \in AllTasks(cfg) : Buildable(cfg, task)

\* Starting now from the runtime state in memory would give the configuration
\* in memory: runtime_state_ is "the authoritative record" (persist()).
DeltaIsExact == up => Apply(Base, rs) = cfg

\* The same for the ids only, which also holds with a base configuration.
IdsSurviveRestart ==
    up => \A k \in Kinds : \A id \in Ids[k] : Has(Apply(Base, rs), k, id) <=> Has(cfg, k, id)

\* Configured tasks and executors correspond.
EveryTaskHasExecutor == up => \A t \in TaskIds : Has(cfg, "task", t) <=> entries[t] # "None"

\* No id occurs twice ("all return false on conflict (duplicate id ...)").
UniqueIds == \A k \in Kinds : \A id \in Ids[k] : Len(cfg[k][id]) <= 1
=============================================================================
