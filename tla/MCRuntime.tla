----------------------------- MODULE MCRuntime ------------------------------
(* Small instances of Runtime. *)
EXTENDS Runtime, TLC

CONSTANTS c1, c2

MCOneConnection == {c1}
MCTwoConnections == {c1, c2}
MCSymmetry == Permutations(MCTwoConnections)
MCPromptSizes == {1}
MCTokenLimits == {1}
\* A limit that reserve() refuses as well.
MCBothLimits == {-1, 1}
=============================================================================
