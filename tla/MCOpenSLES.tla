---------------------------- MODULE MCOpenSLES -----------------------------
(* Small instances of OpenSLES. *)
EXTENDS OpenSLES, TLC

CONSTANTS b1, b2

(* One short buffer and one longer than a period. *)
MixedFrames == [b \in Buffers |-> IF b = b1 THEN 1 ELSE Period + 1]
ShortFrames == [b \in Buffers |-> 1]
Symmetry == Permutations(Threads) \cup Permutations(Players)
=============================================================================
