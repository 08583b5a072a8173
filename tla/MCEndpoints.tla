----------------------------- MODULE MCEndpoints -----------------------------
(***************************************************************************)
(* Where frames enter and where results leave: a camera and a looping clip *)
(* behind FFmpeg, one DVPP decoder, and the publishers.  They share        *)
(* nothing, so they are checked side by side: part says which of them a    *)
(* behaviour is about, the others keep their initial state.                *)
(***************************************************************************)
EXTENDS StreamSource, DvppDecoder, Publishers

VARIABLE part

MCSourceOf == [cam |-> "gate", clip |-> "demo"]
MCKind     == [cam |-> "rtsp", clip |-> "file"]
MCLoop     == [cam |-> FALSE, clip |-> TRUE]
MCHardware == [cam |-> TRUE, clip |-> FALSE]

MCInit == SourceInit /\ DvppInit /\ PubInit /\ part \in {"ffmpeg", "dvpp", "publish"}

MCNext ==
    \/ part = "ffmpeg" /\ SourceNext /\ UNCHANGED <<dvppVars, pubVars, part>>
    \/ part = "dvpp" /\ DvppNext /\ UNCHANGED <<sourceVars, pubVars, part>>
    \/ part = "publish" /\ PubNext /\ UNCHANGED <<sourceVars, dvppVars, part>>

MCSpec ==
    /\ MCInit /\ [][MCNext]_<<sourceVars, dvppVars, pubVars, part>>
    /\ SourceFairness /\ DvppFairness /\ PubFairness
=============================================================================
