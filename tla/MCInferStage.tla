----------------------------- MODULE MCInferStage -----------------------------
(* Instances of InferStage for TLC. *)
EXTENDS InferStage

CONSTANT cam

\* Worker i is on device i; frames are decoded on device 0.
MCDevice == [w \in Workers |-> w]
MCStreamDevice == [s \in Streams |-> 0]

=============================================================================
