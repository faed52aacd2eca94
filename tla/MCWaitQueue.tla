---------------------------- MODULE MCWaitQueue ----------------------------
(* WaitQueue for TLC: tasks are interchangeable.                           *)
EXTENDS WaitQueue, TLC

Symmetry == Permutations(Tasks)

=============================================================================
