------------------------- MODULE TaskRegistryProofs -------------------------
(***************************************************************************)
(* A service whose YAML configures nothing keeps, through every sequence   *)
(* of mutations, failed saves, exits and restarts, a configuration whose   *)
(* tasks refer to existing sources and pipelines, and a runtime state that *)
(* leads back to it.  For any sets of ids and items.                       *)
(*                                                                         *)
(* The argument: cfg_ and added_* are equal item by item and hold each id  *)
(* at most once; executors and tasks correspond, which is what makes the   *)
(* duplicate test of addTask (on entries_) sufficient; and the file, being *)
(* an earlier runtime state or unreadable, satisfies the same.             *)
(*                                                                         *)
(* With a YAML that configures items the ids still survive every restart.  *)
(***************************************************************************)
EXTENDS TaskRegistry, TLAPS

\* Each id at most once.
Single(c) ==
    /\ c = [k \in Kinds |-> c[k]]
    /\ \A k \in Kinds : c[k] = [id \in Ids[k] |-> c[k][id]]
    /\ \A k \in Kinds : \A id \in Ids[k] : c[k][id] = <<>> \/ \E x \in Items[k] : c[k][id] = <<x>>

\* Every task of c can be built.
Refs(c) == \A t \in TaskIds : Has(c, "task", t) => Buildable(c, Find(c, "task", t))

GoodState(s) ==
    /\ s = [added |-> s.added, removed |-> s.removed]
    /\ Single(s.added)
    /\ Refs(s.added)

Inv ==
    /\ GoodState(rs)
    /\ cfg = rs.added
    /\ disk = Torn \/ GoodState(disk)
    /\ entries \in [TaskIds -> {"None", "Running", "Stopped"}]
    /\ \A t \in TaskIds : Has(cfg, "task", t) <=> entries[t] # "None"

\* The ids and items of the four kinds.
LEMMA KindFacts ==
    /\ "source" \in Kinds /\ "pipeline" \in Kinds /\ "task" \in Kinds /\ "model" \in Kinds
    /\ Ids["source"] = SourceIds /\ Ids["pipeline"] = PipelineIds
    /\ Ids["task"] = TaskIds /\ Ids["model"] = ModelIds
    /\ Items["source"] = SourceConfigs /\ Items["pipeline"] = PipelineConfigs
    /\ Items["task"] = TaskConfigs /\ Items["model"] = ModelConfigs
  BY DEF Kinds, Ids, Items

\* In a configuration that holds each id once, Refs is what RefIntegrity says.
LEMMA RefsMeaning ==
  ASSUME NEW c, Single(c)
  PROVE  Refs(c) <=> \A task \in AllTasks(c) : Buildable(c, task)
<1>1. \A t \in TaskIds : TasksOf(c, t) = IF Has(c, "task", t) THEN {Find(c, "task", t)} ELSE {}
  <2>. SUFFICES ASSUME NEW t \in TaskIds
                PROVE  TasksOf(c, t) = IF Has(c, "task", t) THEN {Find(c, "task", t)} ELSE {}
    OBVIOUS
  <2>1. CASE c["task"][t] = <<>>
    BY <2>1 DEF TasksOf, Has
  <2>2. CASE c["task"][t] # <<>>
    <3>1. PICK x : c["task"][t] = <<x>>
      BY <2>2, KindFacts DEF Single
    <3>. QED
      BY <3>1 DEF TasksOf, Has, Find
  <2>. QED
    BY <2>1, <2>2
<1>. QED
  BY <1>1 DEF Refs, AllTasks

-----------------------------------------------------------------------------
\* d is c with v as its items of kind k and that id.
Differs(c, d, k, id, v) ==
    /\ d[k][id] = v
    /\ \A l \in Kinds : \A j \in Ids[l] : ~(l = k /\ j = id) => d[l][j] = c[l][j]

\* Replacing the items with one id by at most one item.
LEMMA Replace ==
  ASSUME NEW c, Single(c), NEW k \in Kinds, NEW id \in Ids[k],
         NEW v, v = <<>> \/ \E x \in Items[k] : v = <<x>>,
         NEW d, d = [c EXCEPT ![k] = [c[k] EXCEPT ![id] = v]]
  PROVE  Single(d) /\ Differs(c, d, k, id, v)
<1>1. /\ DOMAIN c = Kinds /\ \A l \in Kinds : DOMAIN c[l] = Ids[l]
  BY DEF Single
<1>2. d[k] = [c[k] EXCEPT ![id] = v] /\ \A l \in Kinds : l # k => d[l] = c[l]
  BY <1>1
<1>3. Differs(c, d, k, id, v)
  BY <1>1, <1>2 DEF Differs
<1>4. d = [l \in Kinds |-> d[l]]
  BY <1>1
<1>5. \A l \in Kinds : d[l] = [j \in Ids[l] |-> d[l][j]]
  BY <1>1, <1>2 DEF Single
<1>6. \A l \in Kinds : \A j \in Ids[l] : d[l][j] = <<>> \/ \E x \in Items[l] : d[l][j] = <<x>>
  BY <1>3 DEF Differs, Single
<1>. QED
  BY <1>3, <1>4, <1>5, <1>6 DEF Single

\* What the three vector operations do to a configuration, item by item.
LEMMA PushBackFacts ==
  ASSUME NEW c, Single(c), NEW k \in Kinds, NEW id \in Ids[k], NEW x \in Items[k], ~Has(c, k, id)
  PROVE  Single(PushBack(c, k, id, x)) /\ Differs(c, PushBack(c, k, id, x), k, id, <<x>>)
<1>1. c[k][id] = <<>>
  BY DEF Has
<1>2. Append(c[k][id], x) = <<x>>
  BY <1>1
<1>3. PushBack(c, k, id, x) = [c EXCEPT ![k] = [c[k] EXCEPT ![id] = <<x>>]]
  BY <1>2 DEF PushBack
<1>. QED
  BY <1>3, Replace

\* eraseById leaves none with that id and everything else alone.
LEMMA EraseByIdFacts ==
  ASSUME NEW c, Single(c), NEW k \in Kinds, NEW id \in Ids[k]
  PROVE  Single(EraseById(c, k, id)) /\ Differs(c, EraseById(c, k, id), k, id, <<>>)
<1>1. EraseById(c, k, id) = [c EXCEPT ![k] = [c[k] EXCEPT ![id] = <<>>]]
  BY DEF EraseById
<1>. QED
  BY <1>1, Replace

\* The update loops replace the one item with that id.
LEMMA SetFirstFacts ==
  ASSUME NEW c, Single(c), NEW k \in Kinds, NEW id \in Ids[k], NEW x \in Items[k], Has(c, k, id)
  PROVE  Single(SetFirst(c, k, id, x)) /\ Differs(c, SetFirst(c, k, id, x), k, id, <<x>>)
<1>1. PICK y : c[k][id] = <<y>>
  BY DEF Single, Has
<1>2. [c[k][id] EXCEPT ![1] = x] = <<x>>
  BY <1>1
<1>3. SetFirst(c, k, id, x) = [c EXCEPT ![k] = [c[k] EXCEPT ![id] = <<x>>]]
  BY <1>2 DEF SetFirst
<1>. QED
  BY <1>3, Replace

-----------------------------------------------------------------------------
\* Which changes of one item keep every task buildable: adding or replacing a
\* source, a pipeline or a model; removing one that no task refers to;
\* removing a task, or setting it to one that can be built.
LEMMA RefsKept ==
  ASSUME NEW c, Single(c), Refs(c), NEW d, Single(d),
         NEW k \in Kinds, NEW id \in Ids[k], NEW v, Differs(c, d, k, id, v),
         \/ k # "task" /\ v # <<>>
         \/ k = "model"
         \/ k = "source" /\ \A task \in AllTasks(c) : task.source # id
         \/ k = "pipeline" /\ \A task \in AllTasks(c) : task.pipeline # id
         \/ k = "task" /\ v = <<>>
         \/ k = "task" /\ \E task \in TaskConfigs : v = <<task>> /\ Buildable(c, task)
  PROVE  Refs(d)
<1>. SUFFICES ASSUME NEW t \in TaskIds, Has(d, "task", t)
              PROVE  Buildable(d, Find(d, "task", t))
  BY DEF Refs
<1>1. ASSUME NEW x \in TaskIds, Has(c, "task", x)
      PROVE  Find(c, "task", x) \in TaskConfigs /\ Find(c, "task", x) \in AllTasks(c)
  <2>1. PICK y \in TaskConfigs : c["task"][x] = <<y>>
    BY <1>1, KindFacts DEF Single, Has
  <2>2. Find(c, "task", x) = y /\ y \in TasksOf(c, x)
    BY <2>1 DEF Find, TasksOf
  <2>. QED
    BY <2>2 DEF AllTasks
<1>2. CASE k = "task"
  <2>1. /\ \A j \in SourceIds : d["source"][j] = c["source"][j]
        /\ \A j \in PipelineIds : d["pipeline"][j] = c["pipeline"][j]
    BY <1>2, KindFacts DEF Differs
  <2>2. \A task \in TaskConfigs : Buildable(c, task) => Buildable(d, task)
    BY <2>1 DEF Buildable, Has, TaskConfigs
  <2>3. CASE t = id
    <3>1. d["task"][t] = v
      BY <1>2, <2>3 DEF Differs
    <3>2. PICK task \in TaskConfigs : v = <<task>> /\ Buildable(c, task)
      BY <1>2, <3>1 DEF Has
    <3>3. Find(d, "task", t) = task
      BY <3>1, <3>2 DEF Find
    <3>. QED
      BY <2>2, <3>2, <3>3
  <2>4. CASE t # id
    <3>1. d["task"][t] = c["task"][t]
      BY <1>2, <2>4, KindFacts DEF Differs
    <3>2. Has(c, "task", t) /\ Find(d, "task", t) = Find(c, "task", t)
      BY <3>1 DEF Has, Find
    <3>. QED
      BY <1>1, <2>2, <3>2 DEF Refs
  <2>. QED
    BY <2>3, <2>4
<1>3. CASE k # "task"
  <2>1. d["task"][t] = c["task"][t]
    BY <1>3, KindFacts DEF Differs
  <2>2. Has(c, "task", t) /\ Find(d, "task", t) = Find(c, "task", t)
    BY <2>1 DEF Has, Find
  <2>. DEFINE task == Find(c, "task", t)
  <2>3. task \in TaskConfigs /\ task \in AllTasks(c) /\ Buildable(c, task)
    BY <1>1, <2>2 DEF Refs
  <2>. HIDE DEF task
  <2>4. task.source \in SourceIds /\ task.pipeline \in PipelineIds
    BY <2>3 DEF TaskConfigs
  <2>5. Has(d, "source", task.source)
    BY <1>3, <2>3, <2>4, KindFacts DEF Differs, Buildable, Has
  <2>6. Has(d, "pipeline", task.pipeline)
    BY <1>3, <2>3, <2>4, KindFacts DEF Differs, Buildable, Has
  <2>. QED
    BY <2>2, <2>5, <2>6 DEF Buildable, task
<1>. QED
  BY <1>2, <1>3

\* Without base items, what applyRuntimeState makes of a good state is what
\* was added.
LEMMA ApplyToNothing ==
  ASSUME Base = NoConfig, NEW s, GoodState(s)
  PROVE  Apply(Base, s) = s.added
<1>1. \A k \in Kinds : \A id \in Ids[k] : Base[k][id] = <<>>
  BY DEF NoConfig
<1>2. \A k \in Kinds : \A id \in Ids[k] :
         (IF s.added[k][id] = <<>> THEN <<>> ELSE <<Head(s.added[k][id])>>) = s.added[k][id]
  BY DEF GoodState, Single
<1>3. Apply(Base, s) = [k \in Kinds |-> [id \in Ids[k] |-> s.added[k][id]]]
  BY <1>1, <1>2 DEF Apply
<1>. QED
  BY <1>3 DEF GoodState, Single

\* The empty state is good.
LEMMA EmptyIsGood == GoodState(NoState) /\ NoState.added = NoConfig
<1>1. Single(NoConfig)
  BY DEF NoConfig, Single
<1>2. \A t \in TaskIds : ~Has(NoConfig, "task", t)
  BY KindFacts DEF NoConfig, Has
<1>. QED
  BY <1>1, <1>2 DEF NoState, GoodState, Refs

\* The part of Inv about memory carries over to the file a save leaves.
LEMMA PersistKeeps ==
  ASSUME Inv, GoodState(rs'), Persist
  PROVE  (disk = Torn \/ GoodState(disk))'
  BY DEF Inv, Persist, GoodState

\* A mutator that changes one item of kind k, in cfg_ and in added_* alike,
\* keeps the correspondence of memory, record and references.
LEMMA AddKeeps ==
  ASSUME Inv, NEW k \in Kinds, NEW id \in Ids[k], NEW x \in Items[k], ~Has(cfg, k, id),
         k = "task" => Buildable(cfg, x), Add(k, id, x)
  PROVE  GoodState(rs') /\ cfg' = rs'.added /\ Differs(cfg, cfg', k, id, <<x>>)
<1>1. Single(cfg) /\ Refs(cfg) /\ cfg = rs.added
  BY DEF Inv, GoodState
<1>2. cfg' = PushBack(cfg, k, id, x) /\ rs'.added = cfg'
  BY <1>1 DEF Add
<1>3. Single(cfg') /\ Differs(cfg, cfg', k, id, <<x>>)
  BY <1>1, <1>2, PushBackFacts
<1>4. Refs(cfg')
  <2>1. CASE k = "task"
    <3>1. x \in TaskConfigs /\ <<x>> = <<x>> /\ Buildable(cfg, x)
      BY <2>1, KindFacts
    <3>. QED
      BY <1>1, <1>3, <2>1, <3>1, RefsKept
  <2>2. CASE k # "task"
    BY <1>1, <1>3, <2>2, RefsKept
  <2>. QED
    BY <2>1, <2>2
<1>5. rs' = [added |-> rs'.added, removed |-> rs'.removed]
  BY DEF Add
<1>. QED
  BY <1>2, <1>3, <1>4, <1>5 DEF GoodState

\* The same for the mutators that remove an item no task refers to.
LEMMA RemoveKeeps ==
  ASSUME Inv, NEW k \in Kinds, NEW id \in Ids[k],
         k = "source" => \A task \in AllTasks(cfg) : task.source # id,
         k = "pipeline" => \A task \in AllTasks(cfg) : task.pipeline # id,
         Remove(k, id)
  PROVE  GoodState(rs') /\ cfg' = rs'.added /\ Differs(cfg, cfg', k, id, <<>>)
<1>1. Single(cfg) /\ Refs(cfg) /\ cfg = rs.added
  BY DEF Inv, GoodState
<1>2. cfg' = EraseById(cfg, k, id) /\ rs'.added = cfg'
  BY <1>1 DEF Remove
<1>3. Single(cfg') /\ Differs(cfg, cfg', k, id, <<>>)
  BY <1>1, <1>2, EraseByIdFacts
<1>4. k = "source" \/ k = "pipeline" \/ k = "task" \/ k = "model"
  BY DEF Kinds
<1>5. Refs(cfg')
  BY <1>1, <1>3, <1>4, RefsKept
<1>6. rs' = [added |-> rs'.added, removed |-> rs'.removed]
  BY DEF Remove
<1>. QED
  BY <1>2, <1>3, <1>5, <1>6 DEF GoodState

\* The same for the mutators that replace an item.
LEMMA UpdateKeeps ==
  ASSUME Inv, NEW k \in Kinds, NEW id \in Ids[k], NEW x \in Items[k], Has(cfg, k, id),
         k = "task" => Buildable(cfg, x), Update(k, id, x)
  PROVE  GoodState(rs') /\ cfg' = rs'.added /\ Differs(cfg, cfg', k, id, <<x>>)
<1>1. Single(cfg) /\ Refs(cfg) /\ cfg = rs.added
  BY DEF Inv, GoodState
<1>2. cfg' = SetFirst(cfg, k, id, x) /\ rs' = [rs EXCEPT !.added = cfg']
  BY <1>1 DEF Update
<1>3. rs' = [added |-> cfg', removed |-> rs.removed]
  BY <1>2 DEF Inv, GoodState
<1>4. Single(cfg') /\ Differs(cfg, cfg', k, id, <<x>>)
  BY <1>1, <1>2, SetFirstFacts
<1>5. Refs(cfg')
  <2>1. CASE k = "task"
    <3>1. x \in TaskConfigs /\ <<x>> = <<x>> /\ Buildable(cfg, x)
      BY <2>1, KindFacts
    <3>. QED
      BY <1>1, <1>4, <2>1, <3>1, RefsKept
  <2>2. CASE k # "task"
    BY <1>1, <1>4, <2>2, RefsKept
  <2>. QED
    BY <2>1, <2>2
<1>. QED
  BY <1>3, <1>4, <1>5 DEF GoodState

\* What a change of another kind leaves of the tasks.
LEMMA TasksUntouched ==
  ASSUME NEW c, NEW d, NEW k \in Kinds, k # "task", NEW id, NEW v, Differs(c, d, k, id, v)
  PROVE  \A t \in TaskIds : d["task"][t] = c["task"][t]
  BY KindFacts DEF Differs

-----------------------------------------------------------------------------
\* Adding a source, a pipeline or a model; removing one that is not in use.
LEMMA ItemKeepsInv ==
  ASSUME Inv, NEW k \in Kinds, k # "task", NEW id \in Ids[k], UNCHANGED entries, Persist,
         \/ \E x \in Items[k] : ~Has(cfg, k, id) /\ Add(k, id, x)
         \/ /\ k = "source" => \A task \in AllTasks(cfg) : task.source # id
            /\ k = "pipeline" => \A task \in AllTasks(cfg) : task.pipeline # id
            /\ Remove(k, id)
  PROVE  Inv'
<1>1. GoodState(rs') /\ cfg' = rs'.added /\ \E v : Differs(cfg, cfg', k, id, v)
  BY AddKeeps, RemoveKeeps
<1>2. \A t \in TaskIds : cfg'["task"][t] = cfg["task"][t]
  BY <1>1, TasksUntouched
<1>3. \A t \in TaskIds : Has(cfg', "task", t) <=> Has(cfg, "task", t)
  BY <1>2 DEF Has
<1>4. (disk = Torn \/ GoodState(disk))'
  BY <1>1, PersistKeeps
<1>. QED
  BY <1>1, <1>3, <1>4 DEF Inv

\* The end of the process leaves the file.
LEMMA TerminateKeepsInv == ASSUME Inv, Terminate PROVE Inv'
<1>1. GoodState(rs') /\ cfg' = rs'.added
  BY EmptyIsGood DEF Terminate
<1>2. \A t \in TaskIds : ~Has(cfg', "task", t)
  BY KindFacts DEF Terminate, NoConfig, Has
<1>3. (disk = Torn \/ GoodState(disk))'
  BY DEF Inv, Terminate
<1>4. entries' = [t \in TaskIds |-> "None"]
  BY DEF Terminate
<1>. QED
  BY <1>1, <1>2, <1>3, <1>4 DEF Inv

\* updatePipeline, whichever way it ends.
LEMMA UpdatePipelineKeepsInv ==
  ASSUME Inv, NEW id \in PipelineIds, NEW x \in PipelineConfigs,
         UpdatePipeline(id, x) \/ UpdatePipelineRestores(id, x) \/ UpdatePipelineThrows(id, x)
  PROVE  Inv'
<1>1. Single(cfg) /\ Refs(cfg) /\ \A task \in AllTasks(cfg) : Buildable(cfg, task)
  BY RefsMeaning DEF Inv, GoodState
<1>2. CASE UpdatePipeline(id, x)
  <2>1. GoodState(rs') /\ cfg' = rs'.added /\ Differs(cfg, cfg', "pipeline", id, <<x>>)
    <3>1. Has(cfg, "pipeline", id) /\ Update("pipeline", id, x)
      BY <1>2 DEF UpdatePipeline
    <3>2. id \in Ids["pipeline"] /\ x \in Items["pipeline"] /\ "pipeline" \in Kinds
      BY KindFacts
    <3>. QED
      BY <3>1, <3>2, UpdateKeeps
  <2>2. \A t \in TaskIds : Has(cfg', "task", t) <=> Has(cfg, "task", t)
    BY <2>1, TasksUntouched, KindFacts DEF Has
  <2>3. (disk = Torn \/ GoodState(disk))'
    BY <1>2, <2>1, PersistKeeps DEF UpdatePipeline
  <2>. DEFINE new == SetFirst(cfg, "pipeline", id, x)
  <2>4. entries' = Rebuilt(new, id) /\ \A task \in AffectedTasks(id) : Buildable(new, task)
    BY <1>2 DEF UpdatePipeline
  <2>. HIDE DEF new
  <2>5. \A t \in TaskIds : t \in Affected(id) => entries'[t] = "Stopped"
    BY <2>4 DEF Rebuilt, Affected, AffectedTasks, AllTasks
  <2>6. \A t \in TaskIds : t \notin Affected(id) => entries'[t] = entries[t]
    BY <2>4 DEF Rebuilt
  <2>7. \A t \in Affected(id) : Has(cfg, "task", t)
    BY DEF Affected, TasksOf, Has
  <2>8. entries' \in [TaskIds -> {"None", "Running", "Stopped"}]
    BY <2>4 DEF Rebuilt, Inv
  <2>9. \A t \in TaskIds : Has(cfg', "task", t) <=> entries'[t] # "None"
    BY <2>2, <2>5, <2>6, <2>7 DEF Inv
  <2>. QED
    BY <2>1, <2>3, <2>8, <2>9 DEF Inv
<1>3. CASE UpdatePipelineRestores(id, x)
  BY <1>1, <1>3 DEF UpdatePipelineRestores, AffectedTasks
<1>4. CASE UpdatePipelineThrows(id, x)
  BY <1>4, TerminateKeepsInv DEF UpdatePipelineThrows
<1>. QED
  BY <1>2, <1>3, <1>4

\* updateTask, addTask and removeTask.
LEMMA TaskKeepsInv ==
  ASSUME Inv, NEW t \in TaskIds, NEW task \in TaskConfigs, NEW autostart \in BOOLEAN,
         UpdateTask(t, task) \/ AddTask(t, task, autostart) \/ RemoveTask(t)
  PROVE  Inv'
<1>0. t \in Ids["task"] /\ task \in Items["task"] /\ "task" \in Kinds
  BY KindFacts
<1>1. CASE Terminate
  BY <1>1, TerminateKeepsInv
<1>2. CASE Update("task", t, task) /\ UpdateTask(t, task) /\ Persist /\ UNCHANGED entries
  <2>1. Has(cfg, "task", t) /\ Buildable(cfg, task)
    BY <1>2 DEF UpdateTask, Inv
  <2>2. GoodState(rs') /\ cfg' = rs'.added /\ Differs(cfg, cfg', "task", t, <<task>>)
    BY <1>0, <1>2, <2>1, UpdateKeeps
  <2>3. \A u \in TaskIds : Has(cfg', "task", u) <=> Has(cfg, "task", u)
    <3>1. cfg'["task"][t] = <<task>> /\ <<task>> # <<>>
      BY <2>2 DEF Differs
    <3>2. \A u \in TaskIds : u # t => cfg'["task"][u] = cfg["task"][u]
      BY <2>2, KindFacts DEF Differs
    <3>. QED
      BY <2>1, <3>1, <3>2 DEF Has
  <2>4. (disk = Torn \/ GoodState(disk))'
    BY <1>2, <2>2, PersistKeeps
  <2>. QED
    BY <1>2, <2>2, <2>3, <2>4 DEF Inv
<1>3. CASE AddTask(t, task, autostart) /\ ~Throws(cfg, task)
  <2>1. ~Has(cfg, "task", t) /\ Buildable(cfg, task) /\ Add("task", t, task) /\ Persist
    BY <1>3 DEF AddTask, Inv
  <2>2. GoodState(rs') /\ cfg' = rs'.added /\ Differs(cfg, cfg', "task", t, <<task>>)
    BY <1>0, <2>1, AddKeeps
  <2>3. \A u \in TaskIds : Has(cfg', "task", u) <=> Has(cfg, "task", u) \/ u = t
    <3>1. cfg'["task"][t] = <<task>> /\ <<task>> # <<>>
      BY <2>2 DEF Differs
    <3>2. \A u \in TaskIds : u # t => cfg'["task"][u] = cfg["task"][u]
      BY <2>2, KindFacts DEF Differs
    <3>. QED
      BY <3>1, <3>2 DEF Has
  <2>4. (disk = Torn \/ GoodState(disk))'
    BY <2>1, <2>2, PersistKeeps
  <2>5. entries' = [entries EXCEPT ![t] = IF autostart THEN "Running" ELSE "Stopped"]
    BY <1>3 DEF AddTask
  <2>6. /\ entries' \in [TaskIds -> {"None", "Running", "Stopped"}]
        /\ entries'[t] # "None" /\ \A u \in TaskIds : u # t => entries'[u] = entries[u]
    BY <2>5 DEF Inv
  <2>. QED
    BY <2>2, <2>3, <2>4, <2>6 DEF Inv
<1>4. CASE RemoveTask(t)
  <2>1. Remove("task", t) /\ Persist /\ entries' = [entries EXCEPT ![t] = "None"]
    BY <1>4 DEF RemoveTask
  <2>2. GoodState(rs') /\ cfg' = rs'.added /\ Differs(cfg, cfg', "task", t, <<>>)
    BY <1>0, <2>1, RemoveKeeps
  <2>3. \A u \in TaskIds : Has(cfg', "task", u) <=> Has(cfg, "task", u) /\ u # t
    BY <1>0, <2>2, KindFacts DEF Differs, Has
  <2>4. (disk = Torn \/ GoodState(disk))'
    BY <2>1, <2>2, PersistKeeps
  <2>. QED
    BY <2>1, <2>2, <2>3, <2>4 DEF Inv
<1>. QED
  BY <1>1, <1>2, <1>3, <1>4 DEF UpdateTask, AddTask

\* Starting from the file, whatever became of it.
LEMMA BootKeepsInv == ASSUME Base = NoConfig, Inv, Boot PROVE Inv'
<1>. DEFINE c == Apply(Base, Load(disk))
<1>1. GoodState(Load(disk))
  BY EmptyIsGood DEF Inv, Load
<1>2. c = Load(disk).added
  BY <1>1, ApplyToNothing
<1>3. rs' = Load(disk) /\ cfg' = c /\ disk' = disk
  BY DEF Boot
<1>4. entries' = [t \in TaskIds |->
                    IF \E task \in TasksOf(c, t) : Buildable(c, task) THEN "Running" ELSE "None"]
  BY DEF Boot
<1>5. Single(c) /\ Refs(c)
  BY <1>1, <1>2 DEF GoodState
<1>. HIDE DEF c
<1>6. \A task \in AllTasks(c) : Buildable(c, task)
  BY <1>5, RefsMeaning
<1>7. \A t \in TaskIds : Has(c, "task", t) <=> TasksOf(c, t) # {}
  <2>. TAKE t \in TaskIds
  <2>1. CASE c["task"][t] = <<>>
    BY <2>1 DEF Has, TasksOf
  <2>2. CASE c["task"][t] # <<>>
    <3>1. PICK x : c["task"][t] = <<x>>
      BY <1>5, <2>2, KindFacts DEF Single
    <3>. QED
      BY <3>1 DEF Has, TasksOf
  <2>. QED
    BY <2>1, <2>2
<1>8. \A t \in TaskIds : Has(c, "task", t) <=> entries'[t] # "None"
  BY <1>4, <1>6, <1>7 DEF AllTasks
<1>9. entries' \in [TaskIds -> {"None", "Running", "Stopped"}]
  BY <1>4
<1>. QED
  BY <1>1, <1>2, <1>3, <1>8, <1>9 DEF Inv

\* Inv is an invariant of a service without base items.
LEMMA RegistryInv ==
  ASSUME Base = NoConfig
  PROVE  Spec => []Inv
<1>1. Init => Inv
  <2>1. \A t \in TaskIds : ~Has(NoConfig, "task", t)
    BY KindFacts DEF NoConfig, Has
  <2>. QED
    BY <2>1, EmptyIsGood DEF Init, Inv
<1>2. Inv /\ [Next]_vars => Inv'
  <2>. SUFFICES ASSUME Inv, [Next]_vars PROVE Inv'
    OBVIOUS
  <2>1. ASSUME NEW id \in SourceIds, RemoveSource(id) \/ \E x \in SourceConfigs : AddSource(id, x)
        PROVE  Inv'
    BY <2>1, ItemKeepsInv, KindFacts DEF RemoveSource, AddSource
  <2>2. ASSUME NEW id \in PipelineIds, RemovePipeline(id) \/ \E x \in PipelineConfigs : AddPipeline(id, x)
        PROVE  Inv'
    BY <2>2, ItemKeepsInv, KindFacts DEF RemovePipeline, AddPipeline
  <2>3. ASSUME NEW id \in ModelIds, UnloadModel(id) \/ \E x \in ModelConfigs : LoadModel(id, x)
        PROVE  Inv'
    BY <2>3, ItemKeepsInv, KindFacts DEF UnloadModel, LoadModel
  <2>4. ASSUME NEW id \in PipelineIds, NEW x \in PipelineConfigs,
               UpdatePipeline(id, x) \/ UpdatePipelineRestores(id, x) \/ UpdatePipelineThrows(id, x)
        PROVE  Inv'
    BY <2>4, UpdatePipelineKeepsInv
  <2>5. ASSUME NEW t \in TaskIds, NEW task \in TaskConfigs,
               UpdateTask(t, task) \/ \E autostart \in BOOLEAN : AddTask(t, task, autostart)
        PROVE  Inv'
    BY <2>5, TaskKeepsInv
  <2>6. ASSUME NEW t \in TaskIds, RemoveTask(t) PROVE Inv'
    <3>1. "None" # entries[t]
      BY <2>6 DEF RemoveTask
    <3>2. PICK task : task \in TaskConfigs
      <4>1. Has(cfg, "task", t) /\ Single(cfg)
        BY <3>1 DEF Inv, GoodState
      <4>. QED
        BY <4>1, KindFacts DEF Has, Single
    <3>. QED
      BY <2>6, <3>2, TaskKeepsInv
  <2>7. ASSUME NEW t \in TaskIds, StartStop(t) PROVE Inv'
    <3>1. UNCHANGED <<cfg, rs, disk>>
      BY <2>7 DEF StartStop
    <3>2. /\ entries' \in [TaskIds -> {"None", "Running", "Stopped"}]
          /\ \A u \in TaskIds : entries'[u] # "None" <=> entries[u] # "None"
      BY <2>7 DEF StartStop, Inv
    <3>. QED
      BY <3>1, <3>2 DEF Inv
  <2>8. CASE Exit
    BY <2>8, TerminateKeepsInv DEF Exit
  <2>9. CASE Boot
    BY <2>9, BootKeepsInv
  <2>10. CASE UNCHANGED vars
    BY <2>10 DEF vars, Inv, GoodState, Has
  <2>. QED
    BY <2>1, <2>2, <2>3, <2>4, <2>5, <2>6, <2>7, <2>8, <2>9, <2>10 DEF Next
<1>. QED
  BY <1>1, <1>2, PTL DEF Spec

-----------------------------------------------------------------------------
\* A service without base items never has a task whose source or pipeline does
\* not exist, whatever is added, updated or removed, however saves fail and
\* whenever it restarts (TaskManager.cpp:340-493, RuntimeState.cpp:235-320).
THEOREM ReferencesStayIntact ==
  ASSUME Base = NoConfig
  PROVE  Spec => []RefIntegrity
<1>1. Inv => RefIntegrity
  BY RefsMeaning DEF Inv, GoodState, RefIntegrity
<1>. QED
  BY <1>1, RegistryInv, PTL

\* Its runtime state leads back to its configuration at every moment: a save
\* that succeeds loses nothing (persist(), TaskManager.cpp:334-338).
THEOREM RecordIsComplete ==
  ASSUME Base = NoConfig
  PROVE  Spec => []DeltaIsExact
<1>1. Inv => DeltaIsExact
  BY ApplyToNothing DEF Inv, DeltaIsExact
<1>. QED
  BY <1>1, RegistryInv, PTL

\* Its executors are those of its tasks (entries_ and cfg_.tasks).
THEOREM ExecutorsMatchTasks ==
  ASSUME Base = NoConfig
  PROVE  Spec => []EveryTaskHasExecutor
<1>1. Inv => EveryTaskHasExecutor
  BY DEF Inv, EveryTaskHasExecutor
<1>. QED
  BY <1>1, RegistryInv, PTL

\* It never holds two items with one id, although addTask looks for duplicates
\* among the executors and not among the tasks (TaskManager.cpp:467).
THEOREM IdsAreUnique ==
  ASSUME Base = NoConfig
  PROVE  Spec => []UniqueIds
<1>1. Inv => UniqueIds
  <2>. SUFFICES ASSUME Inv, NEW k \in Kinds, NEW id \in Ids[k]
                PROVE  Len(cfg[k][id]) <= 1
    BY DEF UniqueIds
  <2>1. cfg[k][id] = <<>> \/ \E x \in Items[k] : cfg[k][id] = <<x>>
    BY DEF Inv, GoodState, Single
  <2>2. CASE cfg[k][id] = <<>>
    <3>1. Len(<<>>) = 0
      OBVIOUS
    <3>. QED
      BY <2>2, <3>1
  <2>3. CASE \E x \in Items[k] : cfg[k][id] = <<x>>
    <3>1. PICK x \in Items[k] : cfg[k][id] = <<x>>
      BY <2>3
    <3>2. Len(<<x>>) = 1
      OBVIOUS
    <3>. QED
      BY <3>1, <3>2
  <2>. QED
    BY <2>1, <2>2, <2>3
<1>. QED
  BY <1>1, RegistryInv, PTL

-----------------------------------------------------------------------------
(* With base items the items themselves may not survive a restart (what is *)
(* updated in the base is not recorded), but the ids do.                   *)

\* applyRuntimeState gives the same ids as are configured.
SameIds(c, s) ==
    \A k \in Kinds : \A id \in Ids[k] :
        Has(c, k, id) <=> Has(s.added, k, id) \/ (Has(Base, k, id) /\ id \notin s.removed[k])

IdsInv ==
    /\ IsConfig(cfg) /\ IsState(rs)
    /\ disk = Torn \/ IsState(disk)
    /\ up => SameIds(cfg, rs)

\* Replacing the items with one id.
LEMMA ReplaceIds ==
  ASSUME NEW c, IsConfig(c), NEW k \in Kinds, NEW id \in Ids[k], NEW v \in Seq(Items[k]),
         NEW d, d = [c EXCEPT ![k] = [c[k] EXCEPT ![id] = v]]
  PROVE  IsConfig(d) /\ Differs(c, d, k, id, v)
<1>1. DOMAIN c = Kinds /\ c[k] \in [Ids[k] -> Seq(Items[k])]
  BY DEF IsConfig
<1>2. d[k] = [c[k] EXCEPT ![id] = v] /\ \A l \in Kinds : l # k => d[l] = c[l]
  BY <1>1
<1>3. Differs(c, d, k, id, v)
  BY <1>1, <1>2 DEF Differs
<1>4. d = [l \in Kinds |-> d[l]]
  BY <1>1
<1>5. d[k] \in [Ids[k] -> Seq(Items[k])]
  BY <1>1, <1>2
<1>6. \A l \in Kinds : d[l] \in [Ids[l] -> Seq(Items[l])]
  BY <1>2, <1>5 DEF IsConfig
<1>. QED
  BY <1>3, <1>4, <1>6 DEF IsConfig

\* What the three vector operations do to the ids of a configuration.
LEMMA EraseIds ==
  ASSUME NEW c, IsConfig(c), NEW k \in Kinds, NEW id \in Ids[k]
  PROVE  IsConfig(EraseById(c, k, id)) /\ Differs(c, EraseById(c, k, id), k, id, <<>>)
<1>1. EraseById(c, k, id) = [c EXCEPT ![k] = [c[k] EXCEPT ![id] = <<>>]] /\ <<>> \in Seq(Items[k])
  BY DEF EraseById
<1>. QED
  BY <1>1, ReplaceIds

\* Adding and replacing make no id disappear.
LEMMA VectorIds ==
  ASSUME NEW c, IsConfig(c), NEW k \in Kinds, NEW id \in Ids[k], NEW x \in Items[k]
  PROVE  /\ IsConfig(PushBack(c, k, id, x)) /\ IsConfig(SetFirst(c, k, id, x))
         /\ \E v : v # <<>> /\ Differs(c, PushBack(c, k, id, x), k, id, v)
         /\ \A l \in Kinds : \A j \in Ids[l] : Has(SetFirst(c, k, id, x), l, j) <=> Has(c, l, j)
<1>. DEFINE s == c[k][id]
<1>1. s \in Seq(Items[k])
  BY DEF IsConfig
<1>2. Append(s, x) \in Seq(Items[k]) /\ Append(s, x) # <<>>
  <2>. HIDE DEF s
  <2>1. Append(s, x) \in Seq(Items[k]) /\ Len(Append(s, x)) = Len(s) + 1 /\ Len(s) \in Nat
    BY <1>1
  <2>2. Len(<<>>) = 0
    OBVIOUS
  <2>. QED
    BY <2>1, <2>2
<1>3. PushBack(c, k, id, x) = [c EXCEPT ![k] = [c[k] EXCEPT ![id] = Append(s, x)]]
  BY DEF PushBack
<1>5. /\ IsConfig(PushBack(c, k, id, x)) /\ \E v : v # <<>> /\ Differs(c, PushBack(c, k, id, x), k, id, v)
  BY <1>2, <1>3, ReplaceIds
<1>7. /\ IsConfig(SetFirst(c, k, id, x))
      /\ \A l \in Kinds : \A j \in Ids[l] : Has(SetFirst(c, k, id, x), l, j) <=> Has(c, l, j)
  <2>1. CASE ~Has(c, k, id)
    BY <2>1 DEF SetFirst
  <2>2. CASE Has(c, k, id)
    <3>. DEFINE v == [s EXCEPT ![1] = x]
    <3>1. SetFirst(c, k, id, x) = [c EXCEPT ![k] = [c[k] EXCEPT ![id] = v]]
      BY <2>2 DEF SetFirst
    <3>2. v \in Seq(Items[k]) /\ v # <<>>
      <4>1. s # <<>>
        BY <2>2 DEF Has
      <4>. HIDE DEF s
      <4>2. 1 \in DOMAIN s /\ 1 \in DOMAIN v
        BY <1>1, <4>1
      <4>3. v \in Seq(Items[k])
        BY <1>1
      <4>4. DOMAIN <<>> = {}
        OBVIOUS
      <4>. QED
        BY <4>2, <4>3, <4>4
    <3>. HIDE DEF v, s
    <3>3. IsConfig(SetFirst(c, k, id, x)) /\ Differs(c, SetFirst(c, k, id, x), k, id, v)
      BY <3>1, <3>2, ReplaceIds
    <3>. QED
      BY <2>2, <3>2, <3>3 DEF Differs, Has
  <2>. QED
    BY <2>1, <2>2
<1>. QED
  BY <1>5, <1>7

\* The same ids are added to, removed from or kept in memory and record.
LEMMA MutatorIds ==
  ASSUME IdsInv, up, NEW k \in Kinds, NEW id \in Ids[k],
         Remove(k, id) \/ \E x \in Items[k] : Add(k, id, x) \/ Update(k, id, x), Persist
  PROVE  IdsInv'
<1>1. /\ IsConfig(cfg) /\ IsConfig(rs.added) /\ SameIds(cfg, rs)
      /\ rs = [added |-> rs.added, removed |-> rs.removed]
      /\ DOMAIN rs.removed = Kinds /\ \A l \in Kinds : rs.removed[l] \subseteq Ids[l]
  BY DEF IdsInv, IsState
<1>. DEFINE a == rs.added
            rm == rs.removed
<1>2. IsConfig(cfg') /\ IsState(rs') /\ SameIds(cfg', rs')
  <2>1. ASSUME NEW x \in Items[k], Add(k, id, x)
        PROVE  IsConfig(cfg') /\ IsState(rs') /\ SameIds(cfg', rs')
    <3>1. /\ cfg' = PushBack(cfg, k, id, x) /\ rs'.added = PushBack(a, k, id, x)
          /\ rs'.removed = [rm EXCEPT ![k] = @ \ {id}]
          /\ rs' = [added |-> rs'.added, removed |-> rs'.removed]
      BY <2>1 DEF Add
    <3>2. IsConfig(cfg') /\ IsConfig(rs'.added)
      BY <1>1, <3>1, VectorIds
    <3>3. PICK v : v # <<>> /\ Differs(cfg, cfg', k, id, v)
      BY <1>1, <3>1, VectorIds
    <3>4. PICK w : w # <<>> /\ Differs(a, rs'.added, k, id, w)
      BY <1>1, <3>1, VectorIds
    <3>5. /\ rs'.removed = [l \in Kinds |-> rs'.removed[l]]
          /\ \A l \in Kinds : rs'.removed[l] \subseteq Ids[l]
          /\ \A l \in Kinds : \A j \in Ids[l] :
                ~(l = k /\ j = id) => (j \in rs'.removed[l] <=> j \in rm[l])
      BY <1>1, <3>1
    <3>6. SameIds(cfg', rs')
      <4>. SUFFICES ASSUME NEW l \in Kinds, NEW j \in Ids[l]
                    PROVE  Has(cfg', l, j) <=>
                           Has(rs'.added, l, j) \/ (Has(Base, l, j) /\ j \notin rs'.removed[l])
        BY DEF SameIds
      <4>1. CASE l = k /\ j = id
        BY <3>3, <3>4, <4>1 DEF Differs, Has
      <4>2. CASE ~(l = k /\ j = id)
        BY <1>1, <3>3, <3>4, <3>5, <4>2 DEF Differs, Has, SameIds
      <4>. QED
        BY <4>1, <4>2
    <3>. QED
      BY <3>1, <3>2, <3>5, <3>6 DEF IsState
  <2>2. CASE Remove(k, id)
    <3>1. /\ cfg' = EraseById(cfg, k, id) /\ rs'.added = EraseById(a, k, id)
          /\ rs'.removed = [rm EXCEPT ![k] = @ \cup {id}]
          /\ rs' = [added |-> rs'.added, removed |-> rs'.removed]
      BY <2>2 DEF Remove
    <3>2. IsConfig(cfg') /\ IsConfig(rs'.added)
      BY <1>1, <3>1, EraseIds
    <3>3. Differs(cfg, cfg', k, id, <<>>) /\ Differs(a, rs'.added, k, id, <<>>)
      BY <1>1, <3>1, EraseIds
    <3>5. /\ rs'.removed = [l \in Kinds |-> rs'.removed[l]]
          /\ \A l \in Kinds : rs'.removed[l] \subseteq Ids[l]
          /\ id \in rs'.removed[k]
          /\ \A l \in Kinds : \A j \in Ids[l] :
                ~(l = k /\ j = id) => (j \in rs'.removed[l] <=> j \in rm[l])
      BY <1>1, <3>1
    <3>6. SameIds(cfg', rs')
      <4>. SUFFICES ASSUME NEW l \in Kinds, NEW j \in Ids[l]
                    PROVE  Has(cfg', l, j) <=>
                           Has(rs'.added, l, j) \/ (Has(Base, l, j) /\ j \notin rs'.removed[l])
        BY DEF SameIds
      <4>1. CASE l = k /\ j = id
        BY <3>3, <3>5, <4>1 DEF Differs, Has
      <4>2. CASE ~(l = k /\ j = id)
        BY <1>1, <3>3, <3>5, <4>2 DEF Differs, Has, SameIds
      <4>. QED
        BY <4>1, <4>2
    <3>. QED
      BY <3>1, <3>2, <3>5, <3>6 DEF IsState
  <2>3. ASSUME NEW x \in Items[k], Update(k, id, x)
        PROVE  IsConfig(cfg') /\ IsState(rs') /\ SameIds(cfg', rs')
    <3>1. cfg' = SetFirst(cfg, k, id, x) /\ rs' = [rs EXCEPT !.added = SetFirst(a, k, id, x)]
      BY <2>3 DEF Update
    <3>2. rs' = [added |-> SetFirst(a, k, id, x), removed |-> rm]
      BY <1>1, <3>1
    <3>3. /\ IsConfig(cfg') /\ IsConfig(rs'.added)
          /\ \A l \in Kinds : \A j \in Ids[l] : Has(cfg', l, j) <=> Has(cfg, l, j)
          /\ \A l \in Kinds : \A j \in Ids[l] : Has(rs'.added, l, j) <=> Has(a, l, j)
      BY <1>1, <3>1, <3>2, VectorIds
    <3>4. SameIds(cfg', rs')
      BY <1>1, <3>2, <3>3 DEF SameIds
    <3>5. rs'.removed = rm /\ rs' = [added |-> rs'.added, removed |-> rs'.removed]
      BY <3>2
    <3>6. rs'.removed = [l \in Kinds |-> rs'.removed[l]] /\ \A l \in Kinds : rs'.removed[l] \subseteq Ids[l]
      BY <3>5 DEF IdsInv, IsState
    <3>. QED
      BY <3>3, <3>4, <3>5, <3>6 DEF IsState
  <2>. QED
    BY <2>1, <2>2, <2>3
<1>3. disk' = Torn \/ IsState(disk')
  BY <1>2 DEF Persist, IdsInv
<1>. QED
  BY <1>2, <1>3 DEF IdsInv, IsConfig, IsState, SameIds, Has

\* The empty configuration and state.
LEMMA NothingIsConfig == IsConfig(NoConfig) /\ IsState(NoState)
<1>1. \A k \in Kinds : NoConfig[k] \in [Ids[k] -> Seq(Items[k])]
  BY DEF NoConfig
<1>2. IsConfig(NoConfig)
  BY <1>1 DEF NoConfig, IsConfig
<1>. QED
  BY <1>2 DEF NoState, IsState

\* A sequence of one item.
LEMMA OneItem ==
  ASSUME NEW S, NEW x \in S
  PROVE  <<x>> \in Seq(S)
  OBVIOUS

\* What applyRuntimeState returns, and its ids.
LEMMA ApplyIds ==
  ASSUME NEW s, IsState(s)
  PROVE  IsConfig(Apply(Base, s)) /\ SameIds(Apply(Base, s), s)
<1>. DEFINE c == Apply(Base, s)
<1>1. /\ c = [k \in Kinds |-> c[k]]
      /\ \A k \in Kinds : c[k] = [id \in Ids[k] |-> c[k][id]]
      /\ \A k \in Kinds : \A id \in Ids[k] : c[k][id] =
            IF Base[k][id] # <<>> /\ id \notin s.removed[k] THEN Base[k][id]
            ELSE IF s.added[k][id] = <<>> THEN <<>>
            ELSE <<Head(s.added[k][id])>>
  BY DEF Apply
<1>. HIDE DEF c
<1>2. ASSUME NEW k \in Kinds, NEW id \in Ids[k]
      PROVE  /\ c[k][id] \in Seq(Items[k])
             /\ Has(c, k, id) <=> Has(s.added, k, id) \/ (Has(Base, k, id) /\ id \notin s.removed[k])
  <2>1. CASE Base[k][id] # <<>> /\ id \notin s.removed[k]
    <3>1. c[k][id] = Base[k][id]
      BY <1>1, <2>1
    <3>2. PICK x \in Items[k] : Base[k][id] = <<x>>
      BY <2>1, BaseAssumption
    <3>3. <<x>> \in Seq(Items[k])
      BY OneItem
    <3>4. Has(c, k, id) /\ Has(Base, k, id)
      BY <2>1, <3>1 DEF Has
    <3>. QED
      BY <2>1, <3>1, <3>2, <3>3, <3>4
  <2>2. CASE ~(Base[k][id] # <<>> /\ id \notin s.removed[k]) /\ s.added[k][id] = <<>>
    <3>1. c[k][id] = <<>>
      BY <1>1, <2>2
    <3>. QED
      BY <2>2, <3>1 DEF Has
  <2>3. CASE ~(Base[k][id] # <<>> /\ id \notin s.removed[k]) /\ s.added[k][id] # <<>>
    <3>1. c[k][id] = <<Head(s.added[k][id])>>
      BY <1>1, <2>3
    <3>2. s.added[k][id] \in Seq(Items[k])
      BY DEF IsState, IsConfig
    <3>3. Head(s.added[k][id]) \in Items[k]
      BY <2>3, <3>2
    <3>. QED
      BY <2>3, <3>1, <3>3 DEF Has
  <2>. QED
    BY <2>1, <2>2, <2>3
<1>3. ASSUME NEW k \in Kinds PROVE c[k] \in [Ids[k] -> Seq(Items[k])]
  <2>1. c[k] = [id \in Ids[k] |-> c[k][id]] /\ \A id \in Ids[k] : c[k][id] \in Seq(Items[k])
    BY <1>1, <1>2
  <2>. QED
    BY <2>1
<1>. QED
  BY <1>1, <1>2, <1>3 DEF IsConfig, SameIds, c

\* The state in memory and the file stay well formed, and the former has the ids
\* that are configured.
LEMMA IdsKept == Spec => []IdsInv
<1>1. Init => IdsInv
  BY NothingIsConfig DEF Init, IdsInv
<1>2. IdsInv /\ [Next]_vars => IdsInv'
  <2>. SUFFICES ASSUME IdsInv, [Next]_vars PROVE IdsInv'
    OBVIOUS
  <2>0. CASE UNCHANGED <<cfg, rs, disk>> /\ (up' => up)
    BY <2>0 DEF IdsInv, IsConfig, IsState, SameIds, Has
  <2>1. CASE Terminate
    <3>1. IsConfig(cfg') /\ IsState(rs') /\ ~up' /\ disk' = disk
      BY <2>1, NothingIsConfig DEF Terminate
    <3>. QED
      BY <3>1 DEF IdsInv, IsConfig, IsState
  <2>2. ASSUME NEW k \in Kinds, NEW id \in Ids[k], up, Persist,
               Remove(k, id) \/ \E x \in Items[k] : Add(k, id, x) \/ Update(k, id, x)
        PROVE  IdsInv'
    BY <2>2, MutatorIds
  <2>3. ASSUME NEW id \in SourceIds, RemoveSource(id) \/ \E x \in SourceConfigs : AddSource(id, x)
        PROVE  IdsInv'
    BY <2>2, <2>3, KindFacts DEF RemoveSource, AddSource
  <2>4. ASSUME NEW id \in PipelineIds,
               RemovePipeline(id) \/ \E x \in PipelineConfigs : AddPipeline(id, x) \/ UpdatePipeline(id, x)
        PROVE  IdsInv'
    BY <2>2, <2>4, KindFacts DEF RemovePipeline, AddPipeline, UpdatePipeline
  <2>5. ASSUME NEW id \in ModelIds, UnloadModel(id) \/ \E x \in ModelConfigs : LoadModel(id, x)
        PROVE  IdsInv'
    BY <2>2, <2>5, KindFacts DEF UnloadModel, LoadModel
  <2>6. ASSUME NEW t \in TaskIds, NEW task \in TaskConfigs,
               UpdateTask(t, task) \/ \E autostart \in BOOLEAN : AddTask(t, task, autostart)
        PROVE  IdsInv'
    BY <2>1, <2>2, <2>6, KindFacts DEF UpdateTask, AddTask
  <2>7. ASSUME NEW t \in TaskIds, RemoveTask(t) PROVE IdsInv'
    BY <2>2, <2>7, KindFacts DEF RemoveTask
  <2>8. ASSUME NEW id \in PipelineIds, NEW x \in PipelineConfigs,
               UpdatePipelineRestores(id, x) \/ UpdatePipelineThrows(id, x)
        PROVE  IdsInv'
    BY <2>0, <2>1, <2>8 DEF UpdatePipelineRestores, UpdatePipelineThrows
  <2>9. CASE Exit \/ \E t \in TaskIds : StartStop(t)
    BY <2>0, <2>1, <2>9 DEF Exit, StartStop
  <2>10. CASE Boot
    <3>1. IsState(Load(disk))
      BY NothingIsConfig DEF IdsInv, Load
    <3>2. cfg' = Apply(Base, Load(disk)) /\ rs' = Load(disk) /\ disk' = disk
      BY <2>10 DEF Boot
    <3>3. IsConfig(cfg') /\ IsState(rs') /\ SameIds(cfg', rs')
      BY <3>1, <3>2, ApplyIds
    <3>. QED
      BY <3>2, <3>3 DEF IdsInv, IsConfig, IsState, SameIds, Has
  <2>11. CASE UNCHANGED vars
    BY <2>0, <2>11 DEF vars
  <2>. QED
    BY <2>3, <2>4, <2>5, <2>6, <2>7, <2>8, <2>9, <2>10, <2>11 DEF Next
<1>. QED
  BY <1>1, <1>2, PTL DEF Spec

\* For any base configuration and any sequence of mutations, failed saves and
\* restarts: a restart from the runtime state in memory has exactly the ids
\* that are configured, so a removed item does not come back and an added one
\* is not lost (TaskManager.cpp, the mutators; applyRuntimeState).
THEOREM RestartKeepsIds == Spec => []IdsSurviveRestart
<1>1. IdsInv => IdsSurviveRestart
  BY ApplyIds DEF IdsInv, SameIds, IdsSurviveRestart
<1>. QED
  BY <1>1, IdsKept, PTL

\* The rest of TypeOK.
EntriesTyped ==
    /\ up \in BOOLEAN
    /\ entries \in [TaskIds -> {"None", "Running", "Stopped"}]
    /\ failures \in 0..MaxFailures

\* Type correctness, for any base configuration: whatever the mutators, failed
\* saves and restarts do, cfg_, the runtime state and the file hold items of their
\* kinds under their ids (TaskManager.h, RuntimeState.h).
THEOREM RegistryTyped == Spec => []TypeOK
<1>1. Init => EntriesTyped
  <2>1. 0 \in 0..MaxFailures
    BY BoundsAssumption
  <2>. QED
    BY <2>1 DEF Init, EntriesTyped
<1>2. EntriesTyped /\ [Next]_vars => EntriesTyped'
  <2>. SUFFICES ASSUME EntriesTyped, [Next]_vars PROVE EntriesTyped'
    OBVIOUS
  <2>1. Persist => failures' \in 0..MaxFailures
    BY BoundsAssumption DEF EntriesTyped, Persist
  <2>2. Terminate => EntriesTyped'
    BY DEF Terminate, EntriesTyped
  <2>3. CASE Persist /\ up' = up /\ (entries' = entries \/ \E t \in TaskIds, v \in {"None", "Running", "Stopped"} :
                                                         entries' = [entries EXCEPT ![t] = v])
    BY <2>1, <2>3 DEF EntriesTyped
  <2>4. ASSUME NEW id \in SourceIds, RemoveSource(id) \/ \E x \in SourceConfigs : AddSource(id, x)
        PROVE  EntriesTyped'
    BY <2>3, <2>4 DEF RemoveSource, AddSource
  <2>5. ASSUME NEW id \in PipelineIds, RemovePipeline(id) \/ \E x \in PipelineConfigs : AddPipeline(id, x)
        PROVE  EntriesTyped'
    BY <2>3, <2>5 DEF RemovePipeline, AddPipeline
  <2>6. ASSUME NEW id \in ModelIds, UnloadModel(id) \/ \E x \in ModelConfigs : LoadModel(id, x)
        PROVE  EntriesTyped'
    BY <2>3, <2>6 DEF UnloadModel, LoadModel
  <2>7. ASSUME NEW id \in PipelineIds, NEW x \in PipelineConfigs,
               UpdatePipeline(id, x) \/ UpdatePipelineRestores(id, x) \/ UpdatePipelineThrows(id, x)
        PROVE  EntriesTyped'
    <3>1. \A c : Rebuilt(c, id) \in [TaskIds -> {"None", "Running", "Stopped"}]
      BY DEF Rebuilt, EntriesTyped
    <3>. QED
      BY <2>1, <2>2, <2>7, <3>1 DEF UpdatePipeline, UpdatePipelineRestores, UpdatePipelineThrows, EntriesTyped
  <2>8. ASSUME NEW t \in TaskIds, NEW task \in TaskConfigs,
               UpdateTask(t, task) \/ \E autostart \in BOOLEAN : AddTask(t, task, autostart)
        PROVE  EntriesTyped'
    BY <2>2, <2>3, <2>8 DEF UpdateTask, AddTask
  <2>9. ASSUME NEW t \in TaskIds, RemoveTask(t) PROVE EntriesTyped'
    BY <2>3, <2>9 DEF RemoveTask
  <2>10. ASSUME NEW t \in TaskIds, StartStop(t) PROVE EntriesTyped'
    BY <2>10 DEF StartStop, EntriesTyped
  <2>11. CASE Exit \/ Boot
    BY <2>2, <2>11 DEF Exit, Boot, EntriesTyped
  <2>12. CASE UNCHANGED vars
    BY <2>12 DEF vars, EntriesTyped
  <2>. QED
    BY <2>4, <2>5, <2>6, <2>7, <2>8, <2>9, <2>10, <2>11, <2>12 DEF Next
<1>3. IdsInv /\ EntriesTyped => TypeOK
  BY DEF IdsInv, EntriesTyped, TypeOK
<1>. QED
  BY <1>1, <1>2, <1>3, IdsKept, PTL DEF Spec
=============================================================================
