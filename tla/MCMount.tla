------------------------------ MODULE MCMount ------------------------------
(* Mount for TLC: tasks, devices and super blocks are interchangeable.     *)
EXTENDS Mount, TLC

Symmetry == Permutations(Tasks) \cup Permutations(Devs) \cup Permutations(Supers)

\* Up to what the properties exclude: a task is between two inodes of a device
\* that is unmounted, mount() takes an entry that is still locked, or the disk
\* is changed in a drive that is in use.
NotRaced == ~raced

=============================================================================
