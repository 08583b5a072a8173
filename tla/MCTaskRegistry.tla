--------------------------- MODULE MCTaskRegistry ---------------------------
(***************************************************************************)
(* TaskRegistry with one source, one task, two pipelines and two models:   *)
(* started with an empty YAML, or with a task whose source, pipeline and   *)
(* model come from the YAML.                                               *)
(***************************************************************************)
EXTENDS TaskRegistry

NoBase == [source   |-> [id \in SourceIds |-> <<>>],
           pipeline |-> [id \in PipelineIds |-> <<>>],
           task     |-> [id \in TaskIds |-> <<>>],
           model    |-> [id \in ModelIds |-> <<>>]]

YamlBase == [source   |-> [id \in SourceIds |-> IF id = "s1" THEN <<"cam">> ELSE <<>>],
             pipeline |-> [id \in PipelineIds |-> IF id = "p1" THEN <<<<"m1">>>> ELSE <<>>],
             task     |-> [id \in TaskIds |-> <<[source |-> "s1", pipeline |-> "p1"]>>],
             model    |-> [id \in ModelIds |-> IF id = "m1" THEN <<"yolo">> ELSE <<>>]]

OneEngine  == {<<"m1">>, <<"m2">>}
TwoEngines == {<<"m2">>, <<"m1", "m2">>}
=============================================================================
