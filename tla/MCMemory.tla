------------------------------ MODULE MCMemory ------------------------------
(* Memory for TLC: one page below end_data, one on the stack.              *)
EXTENDS Memory, TLC

TextAddrs == {<<1, 1>>}
StackAddr == <<2, 1>>

(***************************************************************************)
(* Up to the first text that a task may have from another.  With all the   *)
(* pages there are, there are two tasks, the first does not exit, and no   *)
(* page is lost.                                                           *)
(***************************************************************************)
Explored ==
  /\ ~misled
  /\ \/ NrPages \in lost
     \/ /\ Cardinality({t \in Tasks : task[t].state # "none"}) <= 2
        /\ task[First].state # "zombie"
        /\ lost = {}

Symmetry == Permutations(Tasks \ {First})

Mapped(p) == \E t \in Tasks, a \in Addrs : pte[t][a].page = p

(***************************************************************************)
(* States that differ only in the numbers of the pages, or in what is left *)
(* in pages that are not mapped, are the same to TLC: for every page in    *)
(* use, the places that refer to it, its count and its contents.  TypeOK   *)
(* is there to have the functions of a state evaluated before TLC stores   *)
(* it.                                                                     *)
(***************************************************************************)
UpToPages ==
  LET references == {<<PointsTo(r[1], r[2]), r>> : r \in Tasks \X Pointers}
      Places(p) == {r[2] : r \in {x \in references : x[1] = p}}
  IN
  << {<<Places(p), mem_map[p], IF Mapped(p) THEN data[p] ELSE Zero>> : p \in Pages \ Free},
     {r \in Tasks \X Addrs : pte[r[1]][r[2]].rw}, {r \in Tasks \X Addrs : pte[r[1]][r[2]].dirty},
     [t \in Tasks |-> <<task[t].state, task[t].addr, task[t].from, task[t].exe>>],
     Cardinality(Free), Cardinality(lost), misled, view, TypeOK >>

=============================================================================
