---------------------------- MODULE MCTaskControl ----------------------------
(***************************************************************************)
(* TaskControl for one client on a chain whose middle node pushes to an    *)
(* edge, and for two clients on a pipeline of a source and a sink.         *)
(***************************************************************************)
EXTENDS TaskControl, TLC

ChainNodes    == {"src", "infer", "sink"}
ChainEdges    == {"src->infer", "infer->sink"}
ChainIncoming == [src |-> <<>>, infer |-> <<"src->infer">>, sink |-> <<"infer->sink">>]
ChainOutgoing == [src |-> <<"src->infer">>, infer |-> <<"infer->sink">>, sink |-> <<>>]

PairNodes    == {"src", "sink"}
PairEdges    == {"src->sink"}
PairIncoming == [src |-> <<>>, sink |-> <<"src->sink">>]
PairOutgoing == [src |-> <<"src->sink">>, sink |-> <<>>]

\* The clients are alike.
Clients == Permutations(Controllers)
=============================================================================
