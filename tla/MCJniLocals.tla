---------------------------- MODULE MCJniLocals ----------------------------
(* Small instances of JniLocals. *)
EXTENDS JniLocals, TLC

Symmetry == Permutations(Refs)
=============================================================================
