--------------------------- MODULE MCFileSystem ---------------------------
(* FileSystem for TLC: tasks, names and table entries are interchangeable. *)
EXTENDS FileSystem, TLC

Symmetry == Permutations(Tasks) \cup Permutations(Names) \cup Permutations(Slots)

(***************************************************************************)
(* What the disk has for an inode that is free, or that is dirty in the    *)
(* table, is written before it is read.                                    *)
(***************************************************************************)
Live(n) ==
  /\ n \in imap \/ \E t \in Tasks : task[t].ino = n
  /\ \A s \in Slots : inode[s].num = n => ~inode[s].dirt

UpToDisk ==
  <<current, imap, zmap, dir, inode, task, panic,
    [n \in {m \in Inos : Live(m)} |-> dinode[n]]>>

\* Up to the first mkdir() that fails when it has its block
NoneHalfFreed == ~HalfFreed

=============================================================================
