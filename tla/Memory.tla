------------------------------- MODULE Memory -------------------------------
(***************************************************************************)
(* Pages of memory and who refers to them: mem_map[] and the page tables   *)
(* of mm/memory.c, with the fork, exec, exit and verify_area that use      *)
(* them.  An action is what a task does until it may be preempted (back in *)
(* user mode) or sleeps: a page fault that finds its page, a fork or an    *)
(* exit is one action, and the instruction that faulted is tried again in  *)
(* a later one.  execve() is cut where it sleeps.                          *)
(*                                                                         *)
(* A directory entry stands for a page table, itself a page of memory, and *)
(* an address for one of its entries.  Low memory, which is never counted, *)
(* and the fork of task 0, which copies only low memory, are left out.     *)
(***************************************************************************)
EXTENDS Integers, FiniteSets

CONSTANTS Tasks,         \* the slots of task[], without task 0
          First,         \* the task there is at the start
          NrPages,       \* the pages that memory can have
          Sizes,         \* how many of them mem_init() may find
          NrDirs,        \* directory entries of a task
          Entries,       \* entries of a page table
          Text,          \* addresses below end_data, read from the executable
          Stack,         \* where exec puts the page of the arguments
          Executables,
          Values,        \* what is written to a page
          Zero           \* an empty page

Pages == 1..NrPages
NoPage == 0
Dirs == 1..NrDirs
Addrs == Dirs \X Entries

ASSUME FirstAssumption == First \in Tasks
ASSUME DirsAssumption == NrDirs \in Nat \ {0}
ASSUME AddrsAssumption == Text \subseteq Addrs /\ Text # {} /\ Stack \in Addrs \ Text
ASSUME FiniteAssumption == IsFiniteSet(Tasks) /\ IsFiniteSet(Entries)
ASSUME ExecutablesAssumption == Executables # {}
ASSUME SizesAssumption == NrPages \in Nat /\ Sizes \subseteq 3..NrPages

VARIABLES mem_map,       \* mem_map[p]: how often the page is used
          dir,           \* dir[t][d]: the page that holds the page table
          pte,           \* pte[t][a]: the entry for the address
          task,          \* task[t]: what the task does
          data,          \* data[p]: the contents of the page
          view,          \* history: what the task has at each address
          misled,        \* history: a task may have the text of another
          lost           \* pages that are not there, or that nobody will free

vars == <<mem_map, dir, pte, task, data, view, misled, lost>>

history == <<view, misled, lost>>

MaybePages == Pages \cup {NoPage}

PTEs == [page : MaybePages, rw : BOOLEAN, dirty : BOOLEAN]

NoPte == [page |-> NoPage, rw |-> FALSE, dirty |-> FALSE]

(***************************************************************************)
(* state: "none", a free slot; "user"; "load", asleep in bread_page() with *)
(* the page hand for the address addr, from the state in which it faulted; *)
(* "call", in a system call that has verified addr and will write there;   *)
(* "zombie".  In do_execve(): "copy", with the arguments in the page args; *)
(* "close", with the new executable but still the old memory; "fill", with *)
(* the new memory, to clear the end of the page addr.  page is the         *)
(* task_struct.                                                            *)
(***************************************************************************)
NoTask == [state |-> "none", page |-> NoPage, addr |-> Stack, hand |-> NoPage,
           args |-> NoPage, from |-> "user", exe |-> CHOOSE e \in Executables : TRUE]

\* What is written, an empty page, or a page as it is in the executable
Contents == Values \cup {Zero} \cup Executables

TypeOK ==
  /\ mem_map \in [Pages -> Nat]
  /\ dir \in [Tasks -> [Dirs -> MaybePages]]
  /\ pte \in [Tasks -> [Addrs -> PTEs]]
  /\ task \in [Tasks -> [state : {"none", "user", "load", "call", "copy", "close", "fill", "zombie"},
                         page : MaybePages, addr : Addrs, hand : MaybePages, args : MaybePages,
                         from : {"user", "call", "copy", "fill"}, exe : Executables]]
  /\ data \in [Pages -> Contents]
  /\ view \in [Tasks -> [Addrs -> Contents]]
  /\ misled \in BOOLEAN /\ lost \subseteq Pages

-----------------------------------------------------------------------------
FreeIn(M) == {p \in Pages : M[p] = 0}

Free == FreeIn(mem_map)

\* get_free_page() scans from the end: the last free page, if there is one
GetFreePage(M) == {p \in FreeIn(M) : \A q \in FreeIn(M) : q <= p}

Present(t, a) == pte[t][a].page # NoPage

NoTable(t, a) == dir[t][a[1]] = NoPage

\* How often free_page_tables() of a task frees the page
TableRefs(t, p) ==
  Cardinality({d \in Dirs : dir[t][d] = p}) + Cardinality({a \in Addrs : pte[t][a].page = p})

\* mem_map after free_page_tables() of all memory of the task
FreeTables(t) == [p \in Pages |-> mem_map[p] - TableRefs(t, p)]

\* do_exit(); hand: a page that is freed as well.  That of the arguments of an
\* exec is not.
DoExit(t, hand) ==
  /\ mem_map' = [p \in Pages |-> FreeTables(t)[p] - (IF p = hand THEN 1 ELSE 0)]
  /\ dir' = [dir EXCEPT ![t] = [d \in Dirs |-> NoPage]]
  /\ pte' = [pte EXCEPT ![t] = [a \in Addrs |-> NoPte]]
  /\ task' = [task EXCEPT ![t] = [NoTask EXCEPT !.state = "zombie", !.page = task[t].page]]
  /\ view' = [view EXCEPT ![t] = [a \in Addrs |-> Zero]]
  /\ lost' = lost \cup ({task[t].args} \ {NoPage})
  /\ UNCHANGED <<data, misled>>

\* Where a task goes on after a page fault
Resumed(t) ==
  IF task[t].state = "load"
  THEN [task EXCEPT ![t].state = task[t].from, ![t].hand = NoPage, ![t].from = "user",
                    ![t].addr = IF task[t].from \in {"call", "fill"} THEN @ ELSE Stack]
  ELSE task

(***************************************************************************)
(* put_page(page, a), page counted in M: a page table is made if there is  *)
(* none.  If there is no page for it the caller frees the page and oom().  *)
(***************************************************************************)
PutPage(t, a, page, M) ==
  IF NoTable(t, a)
  THEN \E q \in GetFreePage(M) :
         /\ mem_map' = [M EXCEPT ![q] = 1]
         /\ dir' = [dir EXCEPT ![t][a[1]] = q]
         /\ pte' = [pte EXCEPT ![t][a] = [page |-> page, rw |-> TRUE, dirty |-> FALSE]]
  ELSE /\ mem_map' = M
       /\ pte' = [pte EXCEPT ![t][a] = [page |-> page, rw |-> TRUE, dirty |-> FALSE]]
       /\ UNCHANGED dir

CannotPut(t, a, M) == NoTable(t, a) /\ FreeIn(M) = {}

\* get_empty_page()
GetEmptyPage(t, a) ==
  \/ \E page \in GetFreePage(mem_map) :
       LET M == [mem_map EXCEPT ![page] = 1] IN
       /\ PutPage(t, a, page, M)
       /\ data' = [data EXCEPT ![page] = Zero]
       /\ task' = Resumed(t)
       /\ UNCHANGED history
  \/ /\ \/ Free = {}
        \/ \E page \in GetFreePage(mem_map) : CannotPut(t, a, [mem_map EXCEPT ![page] = 1])
     /\ DoExit(t, NoPage)

-----------------------------------------------------------------------------
\* try_to_share(): the page of u is present and clean
CanShare(t, u, a) ==
  /\ u # t
  /\ task[u].state \notin {"none", "zombie"} /\ task[u].exe = task[t].exe
  /\ Present(u, a) /\ ~pte[u][a].dirty

\* Slip: the page stays writable for the task that had it.
SlipShared(e) == e

\* ~2: both entries are write-protected
Shared(e) == [e EXCEPT !.rw = FALSE]

TryToShare(t, u, a) ==
  LET e == Shared(pte[u][a]) IN
  \/ /\ IF NoTable(t, a)
        THEN \E q \in GetFreePage(mem_map) :
               /\ mem_map' = [mem_map EXCEPT ![q] = 1, ![e.page] = @ + 1]
               /\ dir' = [dir EXCEPT ![t][a[1]] = q]
        ELSE /\ mem_map' = [mem_map EXCEPT ![e.page] = @ + 1]
             /\ UNCHANGED dir
     /\ pte' = [pte EXCEPT ![u][a] = e, ![t][a] = [e EXCEPT !.rw = FALSE]]
     /\ task' = Resumed(t)
     /\ misled' = (misled \/ task[u].state = "close")
     /\ UNCHANGED <<data, view, lost>>
  \/ NoTable(t, a) /\ Free = {} /\ DoExit(t, NoPage)

\* do_no_page() for t, in user mode or in the kernel
DoNoPage(t, a) ==
  /\ ~Present(t, a)
  /\ \/ a \notin Text /\ GetEmptyPage(t, a)
     \/ a \in Text /\ \E u \in Tasks : CanShare(t, u, a) /\ TryToShare(t, u, a)
     \/ /\ a \in Text /\ \A u \in Tasks : ~CanShare(t, u, a)
        /\ \/ \E page \in GetFreePage(mem_map) :
                /\ mem_map' = [mem_map EXCEPT ![page] = 1]
                /\ data' = [data EXCEPT ![page] = task[t].exe]
                /\ task' = [task EXCEPT ![t].state = "load", ![t].from = task[t].state,
                                        ![t].addr = a, ![t].hand = page]
                /\ UNCHANGED <<dir, pte, history>>
           \/ Free = {} /\ DoExit(t, NoPage)

\* do_no_page() goes on when bread_page() has read the page.
Loaded(t) ==
  LET a == task[t].addr
      page == task[t].hand
  IN
  /\ task[t].state = "load"
  /\ \/ /\ PutPage(t, a, page, mem_map)
        /\ task' = Resumed(t)
        /\ UNCHANGED <<data, history>>
     \/ CannotPut(t, a, mem_map) /\ DoExit(t, page)

(***************************************************************************)
(* un_wp_page(): the task goes on as T says.  The new entry is not dirty,  *)
(* whatever the old one was.                                               *)
(***************************************************************************)
\* Slip: the old page keeps its count.
SlipUnWpPage(t, a, T) ==
  LET old == pte[t][a].page IN
  \/ /\ mem_map[old] = 1
     /\ pte' = [pte EXCEPT ![t][a].rw = TRUE]
     /\ task' = T
     /\ UNCHANGED <<mem_map, dir, data, history>>
  \/ /\ mem_map[old] # 1
     /\ \E new \in GetFreePage(mem_map) :
          /\ mem_map' = [mem_map EXCEPT ![new] = 1]
          /\ pte' = [pte EXCEPT ![t][a] = [page |-> new, rw |-> TRUE, dirty |-> FALSE]]
          /\ data' = [data EXCEPT ![new] = data[old]]
     /\ task' = T
     /\ misled' = (misled \/ (a \in Text /\ pte[t][a].dirty))
     /\ UNCHANGED <<dir, view, lost>>
  \/ mem_map[old] # 1 /\ Free = {} /\ DoExit(t, NoPage)

UnWpPage(t, a, T) ==
  LET old == pte[t][a].page IN
  \/ /\ mem_map[old] = 1
     /\ pte' = [pte EXCEPT ![t][a].rw = TRUE]
     /\ task' = T
     /\ UNCHANGED <<mem_map, dir, data, history>>
  \/ /\ mem_map[old] # 1
     /\ \E new \in GetFreePage(mem_map) :
          /\ mem_map' = [mem_map EXCEPT ![new] = 1, ![old] = @ - 1]
          /\ pte' = [pte EXCEPT ![t][a] = [page |-> new, rw |-> TRUE, dirty |-> FALSE]]
          /\ data' = [data EXCEPT ![new] = data[old]]
     /\ task' = T
     /\ misled' = (misled \/ (a \in Text /\ pte[t][a].dirty))
     /\ UNCHANGED <<dir, view, lost>>
  \/ mem_map[old] # 1 /\ Free = {} /\ DoExit(t, NoPage)

-----------------------------------------------------------------------------
\* The task touches an address without a page.
PageFault(t, a) == task[t].state = "user" /\ DoNoPage(t, a)

\* The task writes to a page that is write-protected: do_wp_page().
DoWpPage(t, a) ==
  /\ task[t].state = "user"
  /\ Present(t, a) /\ ~pte[t][a].rw
  /\ UnWpPage(t, a, task)

\* A store to the page: the processor sets the dirty bit.
Store(t, a, v) ==
  /\ data' = [data EXCEPT ![pte[t][a].page] = v]
  /\ pte' = [pte EXCEPT ![t][a].dirty = TRUE]
  /\ view' = [view EXCEPT ![t][a] = v]
  /\ UNCHANGED <<mem_map, dir, lost>>

UserWrite(t, a, v) ==
  /\ task[t].state = "user"
  /\ Present(t, a) /\ pte[t][a].rw
  /\ Store(t, a, v)
  /\ UNCHANGED <<task, misled>>

\* A system call that is to write at a begins: verify_area(), write_verify()
VerifyArea(t, a) ==
  LET T == [task EXCEPT ![t].state = "call", ![t].addr = a] IN
  /\ task[t].state = "user"
  /\ IF Present(t, a) /\ ~pte[t][a].rw
     THEN UnWpPage(t, a, T)
     ELSE task' = T /\ UNCHANGED <<mem_map, dir, pte, data, history>>

\* Later it writes: the 386 does not look at rw in the kernel.
KernelWrite(t, v) ==
  LET a == task[t].addr IN
  /\ task[t].state = "call"
  /\ Present(t, a)
  /\ Store(t, a, v)
  /\ task' = [task EXCEPT ![t].state = "user", ![t].addr = Stack]
  /\ misled' = (misled \/ ~pte[t][a].rw)

\* ... or faults
KernelFault(t) == task[t].state = "call" /\ DoNoPage(t, task[t].addr)

-----------------------------------------------------------------------------
UsedDirs(t) == {d \in Dirs : dir[t][d] # NoPage}

\* Slip: the entry of the parent is not written back.
SlipProtect(t, D) == pte[t]

\* copy_page_tables() write-protects the pages of the parent in its entries D.
Protect(t, D) ==
  [a \in Addrs |-> IF a[1] \in D THEN [pte[t][a] EXCEPT !.rw = FALSE] ELSE pte[t][a]]

(***************************************************************************)
(* copy_process(): u gets a task_struct, the page alloc[0], and for every  *)
(* page table of t one of its own, alloc[d].                               *)
(***************************************************************************)
Fork(t, u) ==
  /\ task[t].state = "user" /\ task[u].state = "none"
  /\ \E alloc \in [UsedDirs(t) \cup {0} -> Free] :
       /\ \A i, j \in DOMAIN alloc : i < j => alloc[i] > alloc[j]
       /\ \A p \in Free : (\A i \in DOMAIN alloc : alloc[i] # p)
                            => \A i \in DOMAIN alloc : alloc[i] > p
       /\ mem_map' = [p \in Pages |->
            IF \E i \in DOMAIN alloc : alloc[i] = p THEN 1
            ELSE mem_map[p] + Cardinality({a \in Addrs : pte[t][a].page = p})]
       /\ dir' = [dir EXCEPT ![u] = [d \in Dirs |->
                                       IF d \in UsedDirs(t) THEN alloc[d] ELSE NoPage]]
       /\ task' = [task EXCEPT ![u] = [task[t] EXCEPT !.page = alloc[0]]]
  /\ pte' = [pte EXCEPT ![u] = [a \in Addrs |-> [pte[t][a] EXCEPT !.rw = FALSE]],
                        ![t] = Protect(t, UsedDirs(t))]
  /\ view' = [view EXCEPT ![u] = view[t]]
  /\ UNCHANGED <<data, misled, lost>>

(***************************************************************************)
(* copy_process() without enough pages: what was copied is freed again,    *)
(* and the pages in the first entries of the parent stay write-protected.  *)
(***************************************************************************)
ForkFails(t, u) ==
  LET n == Cardinality(Free)
      copied == {d \in UsedDirs(t) : Cardinality({c \in UsedDirs(t) : c <= d}) < n}
  IN
  /\ task[t].state = "user" /\ task[u].state = "none"
  /\ n < Cardinality(UsedDirs(t)) + 1
  /\ pte' = [pte EXCEPT ![t] = Protect(t, copied)]
  /\ UNCHANGED <<mem_map, dir, task, data, history>>

-----------------------------------------------------------------------------
(* do_execve().                                                            *)

\* copy_strings() gets a page for the arguments.
CopyStrings(t) ==
  /\ task[t].state = "user"
  /\ \E page \in GetFreePage(mem_map) :
       /\ mem_map' = [mem_map EXCEPT ![page] = 1]
       /\ data' = [data EXCEPT ![page] = Zero]
       /\ task' = [task EXCEPT ![t].state = "copy", ![t].args = page]
  /\ UNCHANGED <<dir, pte, history>>

\* ... and copies them from wherever they are.
CopyFault(t, a) == task[t].state = "copy" /\ DoNoPage(t, a)

\* exec_error2, exec_error1: no page is left for the arguments, or a script
\* has no interpreter that can be executed.
ExecError(t) ==
  /\ task[t].state = "copy"
  /\ mem_map' = [mem_map EXCEPT ![task[t].args] = @ - 1]
  /\ task' = [task EXCEPT ![t].state = "user", ![t].args = NoPage]
  /\ UNCHANGED <<dir, pte, data, history>>

\* The point of no return: current->executable is the new one, and files are
\* closed.
NoReturn(t, e) ==
  /\ task[t].state = "copy"
  /\ task' = [task EXCEPT ![t].state = "close", ![t].exe = e]
  /\ UNCHANGED <<mem_map, dir, pte, data, history>>

\* change_ldt(), memory M: the page of the arguments is put on top, and written
\* by create_tables().  There is a page for its table: the task had one.
ChangeLdt(t, M) ==
  /\ \E q \in GetFreePage(M) :
       /\ mem_map' = [M EXCEPT ![q] = 1]
       /\ dir' = [dir EXCEPT ![t] = [d \in Dirs |-> IF d = Stack[1] THEN q ELSE NoPage]]
  /\ pte' = [pte EXCEPT ![t] = [a \in Addrs |->
               IF a = Stack THEN [page |-> task[t].args, rw |-> TRUE, dirty |-> TRUE] ELSE NoPte]]

\* All old memory is freed.  Behind a program that is not aligned the rest of
\* its last page is then cleared.
ChangeMemory(t, aligned) ==
  LET e == task[t].exe
      rest == CHOOSE a \in Text : \A b \in Text : b[1] <= a[1]
  IN
  /\ task[t].state = "close"
  /\ ChangeLdt(t, FreeTables(t))
  /\ task' = [task EXCEPT ![t].args = NoPage, ![t].state = IF aligned THEN "user" ELSE "fill",
                          ![t].addr = IF aligned THEN Stack ELSE rest]
  /\ view' = [view EXCEPT ![t] = [a \in Addrs |-> IF a \in Text THEN e ELSE Zero]]
  /\ UNCHANGED <<data, misled, lost>>

\* put_fs_byte(0, i++): behind end_data the page is clear already.
ClearRest(t) ==
  /\ task[t].state = "fill"
  /\ Present(t, task[t].addr)
  /\ pte' = [pte EXCEPT ![t][task[t].addr].dirty = TRUE]
  /\ task' = [task EXCEPT ![t].state = "user", ![t].addr = Stack]
  /\ UNCHANGED <<mem_map, dir, data, history>>

ClearFault(t) == task[t].state = "fill" /\ DoNoPage(t, task[t].addr)

-----------------------------------------------------------------------------
SysExit(t) == task[t].state = "user" /\ DoExit(t, NoPage)

\* release(): the parent has waited for the zombie.
Release(t) ==
  /\ task[t].state = "zombie"
  /\ mem_map' = [mem_map EXCEPT ![task[t].page] = @ - 1]
  /\ task' = [task EXCEPT ![t] = NoTask]
  /\ UNCHANGED <<dir, pte, data, history>>

-----------------------------------------------------------------------------
(***************************************************************************)
(* mem_init() has made n pages available; the others are USED.  A program  *)
(* has been executed by the first task, with one page on its stack.        *)
(***************************************************************************)
Init ==
  \E n \in Sizes :
    /\ mem_map = [p \in Pages |-> IF p >= n - 2 THEN 1 ELSE 0]
    /\ dir = [t \in Tasks |-> [d \in Dirs |->
               IF t = First /\ d = Stack[1] THEN n - 2 ELSE NoPage]]
    /\ pte = [t \in Tasks |-> [a \in Addrs |->
               IF t = First /\ a = Stack
               THEN [page |-> n - 1, rw |-> TRUE, dirty |-> FALSE] ELSE NoPte]]
    /\ task = [t \in Tasks |->
               IF t = First THEN [NoTask EXCEPT !.state = "user", !.page = n] ELSE NoTask]
    /\ data = [p \in Pages |-> Zero]
    /\ view = [t \in Tasks |-> [a \in Addrs |->
                IF t = First /\ a \in Text THEN task[t].exe ELSE Zero]]
    /\ misled = FALSE
    /\ lost = n + 1 .. NrPages

Next ==
  \E t \in Tasks :
    \/ \E a \in Addrs :
         \/ PageFault(t, a) \/ DoWpPage(t, a) \/ VerifyArea(t, a) \/ CopyFault(t, a)
         \/ \E v \in Values : UserWrite(t, a, v)
    \/ \E v \in Values : KernelWrite(t, v)
    \/ KernelFault(t) \/ Loaded(t)
    \/ \E u \in Tasks : Fork(t, u) \/ ForkFails(t, u)
    \/ CopyStrings(t) \/ ExecError(t) \/ ClearRest(t) \/ ClearFault(t)
    \/ \E e \in Executables : NoReturn(t, e)
    \/ \E aligned \in BOOLEAN : ChangeMemory(t, aligned)
    \/ SysExit(t) \/ Release(t)

Spec == Init /\ [][Next]_vars

-----------------------------------------------------------------------------
\* Where a task may have the number of a page
Pointers ==
  {<<"page", 0>>, <<"hand", 0>>, <<"args", 0>>} \cup ({"dir"} \X Dirs) \cup ({"pte"} \X Addrs)

PointsTo(t, c) ==
  CASE c[1] = "page" -> task[t].page
    [] c[1] = "hand" -> task[t].hand
    [] c[1] = "args" -> task[t].args
    [] c[1] = "dir" -> dir[t][c[2]]
    [] c[1] = "pte" -> pte[t][c[2]].page

\* How many of them are that page
Refs(p) == Cardinality({r \in Tasks \X Pointers : PointsTo(r[1], r[2]) = p})

(***************************************************************************)
(* mem_map[] is the number of references to a page: no page is lost, none  *)
(* is freed while it is used or freed twice (memory.c:98-100), whatever    *)
(* fork, exec or page fault runs out of memory on the way.  The exception  *)
(* is an exec that is killed by oom() when a page fault comes in           *)
(* copy_strings(): its pages stay allocated (exec.c:172-180).              *)
(***************************************************************************)
CountsAreReferences == \A p \in Pages : mem_map[p] = IF p \in lost THEN 1 ELSE Refs(p)

(***************************************************************************)
(* A page that a task may write to is mapped nowhere else, and is neither  *)
(* a page table nor a task_struct: copy on write (memory.c:185-191,        *)
(* 232-249) and try_to_share (343-351) protect it before it is shared.     *)
(***************************************************************************)
WritableIsPrivate ==
  \A t \in Tasks, a \in Addrs : pte[t][a].rw => Refs(pte[t][a].page) = 1

(***************************************************************************)
(* A task has what it wrote, or had at the fork, also where the kernel     *)
(* writes for it, whatever other tasks do.  Below end_data, where pages    *)
(* are shared, it has the text of its executable or what it wrote there,   *)
(* until one of three things happens: un_wp_page() copies a dirty page     *)
(* (memory.c:246: the copy looks clean to try_to_share()), the kernel      *)
(* writes to a page that was shared after, or because, write_verify() had  *)
(* looked at it (memory.c:277-282), or a page of a task is shared that is  *)
(* in an exec, with its new executable and the old memory (exec.c:373-     *)
(* 381).                                                                   *)
(***************************************************************************)
DataIsPrivate ==
  \A t \in Tasks, a \in Addrs :
    Present(t, a) /\ (a \in Text => ~misled)
      => data[pte[t][a].page] = view[t][a]

=============================================================================
