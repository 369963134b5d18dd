--------------------------- MODULE MCLlamaBackend ---------------------------
(* Small instances of LlamaBackend. *)
EXTENDS LlamaBackend

CONSTANTS c1, c2

MCTwoCallers == {c1, c2}
\* Empty, a batch of two that is not full, a full one, and one of each.
MCPromptSizes == {0, 1, 2, 3}
\* A limit reserve() refuses, no token, and two tokens.
MCTokenLimits == {-1, 0, 2}
=============================================================================
