-------------------------- MODULE MCInferenceEngine --------------------------
(* Small instances of InferenceEngine. *)
EXTENDS InferenceEngine

CONSTANT c1

MCOneCaller == {c1}
\* One full batch.
MCPromptSizes == {2}
\* A limit reserve() refuses, and one that is more than the stub's or the
\* context's room allows.
MCBothLimits == {-1, 2}
=============================================================================
