--------------------------- MODULE MCBufferCache ---------------------------
(* BufferCache for TLC: tasks and blocks are interchangeable.              *)
EXTENDS BufferCache, TLC

Symmetry == Permutations(Tasks) \cup Permutations(Blocks)

=============================================================================
