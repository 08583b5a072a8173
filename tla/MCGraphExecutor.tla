--------------------------- MODULE MCGraphExecutor ---------------------------
(***************************************************************************)
(* GraphExecutor on the smallest graph with every shape of a pipeline: a   *)
(* source that fans out, a stage in the middle that emits from two threads *)
(* of its own, and a sink that polls two edges.                            *)
(***************************************************************************)
EXTENDS GraphExecutor, TLC

MCNodes == {"src", "infer", "sink"}
MCEdges == {"src->infer", "src->sink", "infer->sink"}
MCIncoming ==
    [src |-> <<>>, infer |-> <<"src->infer">>, sink |-> <<"src->sink", "infer->sink">>]
MCOutgoing ==
    [src |-> <<"src->infer", "src->sink">>, infer |-> <<"infer->sink">>, sink |-> <<>>]

\* The threads of the stage in the middle are alike.
OwnThreads == Permutations(StageThreads)
=============================================================================
