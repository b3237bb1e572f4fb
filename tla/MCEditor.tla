------------------------------ MODULE MCEditor ------------------------------
(* Editor and RamFS for TLC: names and chunks are interchangeable.         *)
EXTENDS Editor, TLC

Symmetry == Permutations(Names) \cup Permutations(Chunks)
=============================================================================
