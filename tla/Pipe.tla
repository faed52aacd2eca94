-------------------------------- MODULE Pipe --------------------------------
(***************************************************************************)
(* Pipes (fs/pipe.c) with the two tables that keep them alive: the file    *)
(* descriptors of the tasks and file_table, through sys_pipe(), fork(),    *)
(* dup(), dup2(), close() and exit().  There is one in-memory inode, which *)
(* is free or a pipe.  f_count counts descriptors; i_count counts open     *)
(* files, and read_pipe() and write_pipe() take "i_count != 2" to mean     *)
(* that the other end is closed.                                           *)
(*                                                                         *)
(* A task in the kernel keeps the processor until it sleeps, returns, or   *)
(* faults: get_fs_byte() and put_fs_byte() on a page of the user's buffer  *)
(* that is not present sleep in do_no_page().  A sleep in i_wait ends when *)
(* somebody calls wake_up() (WaitQueue.tla).                               *)
(***************************************************************************)
EXTENDS Naturals, FiniteSets, FiniteSetsExt

CONSTANTS Tasks,
          First,       \* the task that is there at the start
          NrOpen,      \* NR_OPEN, descriptors of a task
          NrFile,      \* NR_FILE, entries of file_table
          PageSize,    \* PAGE_SIZE
          Counts,      \* the counts that read() and write() are called with
          MaxSent,     \* bound: bytes written to one pipe
          MayFault,    \* tasks whose buffers may have pages that are not present
          NULL

ASSUME FirstAssumption == First \in Tasks
ASSUME TablesAssumption == NrOpen \in Nat \ {0} /\ NrFile \in Nat \ {0}
ASSUME PageAssumption == PageSize \in Nat \ {0, 1}
ASSUME CountsAssumption == Counts \subseteq Nat \ {0}
ASSUME TasksAssumption == IsFiniteSet(Tasks) /\ NULL \notin Tasks /\ NULL \notin 1..NrFile

Fds == 0..NrOpen - 1
Files == 1..NrFile

VARIABLES current,     \* the task in the kernel that has the processor, or NULL
          alive,       \* the tasks there are
          filp,        \* filp[t][fd]: the file, or NULL
          file,        \* file_table: f_count and f_mode; f_inode is the pipe
          inode,       \* i_count, PIPE_HEAD, PIPE_TAIL and the page
          call,        \* the read or write that a task is in
          asleep,      \* the tasks asleep in i_wait
          sent,        \* history: bytes that PIPE_HEAD was moved for
          received,    \* history: bytes that PIPE_TAIL was moved for
          report,      \* history: the last read or write that found the other
                       \* end closed, as in PipeAbs
          torn,        \* history: a fault came between the move and the copy
          wrong        \* history: a byte was read that is not the next one

vars == <<current, alive, filp, file, inode, call, asleep,
          sent, received, report, torn, wrong>>

history == <<sent, received, report, torn, wrong>>

\* Byte number k of those written to the pipe is k; 0 is the content before.
NoInode == [count |-> 0, head |-> 0, tail |-> 0, page |-> [i \in 0..PageSize - 1 |-> 0]]

(***************************************************************************)
(* op: "read" or "write"; count: bytes still to do; chars, size: the bytes *)
(* of this round that are not copied yet, and where the next one is in the *)
(* page; seq: its number; faulted: the buffer is present from now on.      *)
(***************************************************************************)
NoCall == [op |-> "none", count |-> 0, chars |-> 0, size |-> 0, seq |-> 0,
           faulted |-> FALSE]

TypeOK ==
  /\ current \in Tasks \cup {NULL}
  /\ alive \subseteq Tasks
  /\ filp \in [Tasks -> [Fds -> Files \cup {NULL}]]
  /\ file \in [Files -> [count : Nat, mode : {"read", "write"}]]
  /\ inode \in [count : 0..2, head : 0..PageSize - 1, tail : 0..PageSize - 1,
                page : [0..PageSize - 1 -> 0..MaxSent]]
  /\ call \in [Tasks -> [op : {"none", "read", "write"}, count : Nat,
                         chars : 0..PageSize - 1, size : 0..PageSize,
                         seq : 0..MaxSent, faulted : BOOLEAN]]
  /\ asleep \subseteq Tasks
  /\ sent \in 0..MaxSent /\ received \in 0..MaxSent
  /\ report \in {"none", "eof", "sigpipe"}
  /\ torn \in BOOLEAN /\ wrong \in BOOLEAN

-----------------------------------------------------------------------------
\* PIPE_SIZE(inode)
Size == (inode.head + PageSize - inode.tail) % PageSize

\* t is in user mode and may make a system call
Calls(t) == t \in alive /\ current = NULL /\ call[t].op = "none"

\* t, in read_pipe() or write_pipe(), has the processor or may be given it
Runs(t) == current \in {NULL, t} /\ call[t].op # "none" /\ t \notin asleep

FreeFds(t) == {fd \in Fds : filp[t][fd] = NULL}

FreeFiles == {f \in Files : file[f].count = 0}

-----------------------------------------------------------------------------
\* sys_pipe(): two files and two descriptors, the lowest ones; without them
\* whatever was taken is given back.
SysPipe(t) ==
  /\ Calls(t)
  /\ inode.count = 0
  /\ Cardinality(FreeFiles) >= 2 /\ Cardinality(FreeFds(t)) >= 2
  /\ LET f0 == Min(FreeFiles)
         f1 == Min(FreeFiles \ {f0})
         fd0 == Min(FreeFds(t))
         fd1 == Min(FreeFds(t) \ {fd0})
     IN /\ filp' = [filp EXCEPT ![t][fd0] = f0, ![t][fd1] = f1]
        /\ file' = [file EXCEPT ![f0] = [count |-> 1, mode |-> "read"],
                                ![f1] = [count |-> 1, mode |-> "write"]]
  /\ inode' = [NoInode EXCEPT !.count = 2]
  /\ sent' = 0 /\ received' = 0 /\ report' = "none"
  /\ torn' = FALSE /\ wrong' = FALSE
  /\ UNCHANGED <<current, alive, call, asleep>>

\* iput() of the pipe: i_wait is woken, the page is freed with the last file
Iput(ino) == IF ino.count > 1 THEN [ino EXCEPT !.count = @ - 1] ELSE NoInode

\* Slip: the wake_up() comes after the return for an inode still in use.
SlipWoken(n) == IF inode.count = n THEN {} ELSE asleep

\* Who is left in i_wait after n calls of iput()
Woken(n) == IF n = 0 THEN asleep ELSE {}

(***************************************************************************)
(* The descriptors D of t are closed one after the other, as by do_exit(): *)
(* each takes one from f_count, and a file that reaches 0 is iput().       *)
(***************************************************************************)
CloseAll(t, D) ==
  LET left == [f \in Files |->
                 file[f].count - Cardinality({fd \in D : filp[t][fd] = f})]
      gone == {f \in Files : file[f].count > 0 /\ left[f] = 0}
  IN
  /\ filp' = [filp EXCEPT ![t] = [fd \in Fds |-> IF fd \in D THEN NULL ELSE @[fd]]]
  /\ file' = [f \in Files |-> [file[f] EXCEPT !.count = left[f]]]
  /\ inode' = CASE Cardinality(gone) = 0 -> inode
                [] Cardinality(gone) = 1 -> Iput(inode)
                [] OTHER -> Iput(Iput(inode))
  /\ asleep' = Woken(Cardinality(gone))
  /\ report' = IF gone = {} THEN report ELSE "none"
  /\ UNCHANGED <<sent, received, torn, wrong>>

SysClose(t, fd) ==
  /\ Calls(t)
  /\ filp[t][fd] # NULL
  /\ CloseAll(t, {fd})
  /\ UNCHANGED <<current, alive, call>>

\* do_exit(), as far as the files go; the task is gone
DoExit(t) ==
  /\ Calls(t)
  /\ CloseAll(t, Fds)
  /\ alive' = alive \ {t}
  /\ UNCHANGED <<current, call>>

\* copy_process(): the child has the father's descriptors, and f_count++
Fork(t, c) ==
  /\ Calls(t)
  /\ c \notin alive
  /\ alive' = alive \cup {c}
  /\ filp' = [filp EXCEPT ![c] = filp[t]]
  /\ file' = [f \in Files |->
                [file[f] EXCEPT !.count = @ + Cardinality({fd \in Fds : filp[t][fd] = f})]]
  /\ UNCHANGED <<current, inode, call, asleep>> /\ UNCHANGED history

\* dupfd(), as sys_dup() and F_DUPFD call it
Dupfd(t, fd, arg) ==
  /\ Calls(t)
  /\ filp[t][fd] # NULL
  /\ LET free == {n \in FreeFds(t) : n >= arg} IN
     /\ free # {}
     /\ filp' = [filp EXCEPT ![t][Min(free)] = filp[t][fd]]
  /\ file' = [file EXCEPT ![filp[t][fd]].count = @ + 1]
  /\ UNCHANGED <<current, alive, inode, call, asleep>> /\ UNCHANGED history

\* sys_dup2() of an open descriptor onto another one: close, then dupfd()
SysDup2(t, old, new) ==
  /\ Calls(t)
  /\ old # new /\ filp[t][old] # NULL /\ filp[t][new] # NULL
  /\ IF filp[t][old] = filp[t][new]
     THEN UNCHANGED <<filp, file, inode, asleep>> /\ UNCHANGED history
     ELSE LET f == filp[t][old]
              g == filp[t][new]
              last == file[g].count = 1
          IN /\ filp' = [filp EXCEPT ![t][new] = f]
             /\ file' = [file EXCEPT ![f].count = @ + 1, ![g].count = @ - 1]
             /\ inode' = IF last THEN Iput(inode) ELSE inode
             /\ asleep' = Woken(IF last THEN 1 ELSE 0)
             /\ report' = IF last THEN "none" ELSE report
             /\ UNCHANGED <<sent, received, torn, wrong>>
  /\ UNCHANGED <<current, alive, call>>

-----------------------------------------------------------------------------
\* Bytes that writers have still to write; for the bound only.
Pending == MapThenSumSet(LAMBDA t : IF call[t].op = "write" THEN call[t].count ELSE 0, Tasks)

\* sys_read() and sys_write() of a file of the right mode
Enter(t, fd, op, n) ==
  /\ Calls(t)
  /\ filp[t][fd] # NULL /\ file[filp[t][fd]].mode = op
  /\ op = "write" => sent + n + Pending <= MaxSent
  /\ call' = [call EXCEPT ![t] = [NoCall EXCEPT !.op = op, !.count = n]]
  /\ current' = t
  /\ UNCHANGED <<alive, filp, file, inode, asleep>> /\ UNCHANGED history

\* Slip: the other end is not woken.
SlipReturn(t) ==
  /\ call' = [call EXCEPT ![t] = NoCall]
  /\ current' = NULL
  /\ UNCHANGED asleep

\* wake_up(&inode->i_wait); return
Return(t) ==
  /\ asleep' = {}
  /\ call' = [call EXCEPT ![t] = NoCall]
  /\ current' = NULL

\* wake_up(&inode->i_wait); sleep_on(&inode->i_wait)
WakeAndSleep(t) ==
  /\ asleep' = {t}
  /\ current' = NULL

\* The head of the loops: nothing is left to copy of the last round.
AtLoop(t, op) == Runs(t) /\ call[t].op = op /\ call[t].chars = 0

\* Slip: the writers are looked for before the bytes.
SlipReadEmpty(t) ==
  /\ AtLoop(t, "read")
  /\ Size = 0 \/ inode.count # 2
  /\ IF inode.count # 2
     THEN Return(t) /\ report' = "eof"
     ELSE WakeAndSleep(t) /\ UNCHANGED <<call, report>>
  /\ UNCHANGED <<alive, filp, file, inode, sent, received, torn, wrong>>

\* read_pipe(): the pipe is empty
ReadEmpty(t) ==
  /\ AtLoop(t, "read")
  /\ Size = 0
  /\ IF inode.count # 2
     THEN Return(t) /\ report' = "eof"
     ELSE WakeAndSleep(t) /\ UNCHANGED <<call, report>>
  /\ UNCHANGED <<alive, filp, file, inode, sent, received, torn, wrong>>

\* Slip: size = PIPE_TAIL is read after it was moved.
SlipReadMove(t) ==
  /\ AtLoop(t, "read")
  /\ Size > 0
  /\ LET chars == Min({PageSize - inode.tail, call[t].count, Size}) IN
     /\ call' = [call EXCEPT ![t].count = @ - chars, ![t].chars = chars,
                             ![t].size = (inode.tail + chars) % PageSize,
                             ![t].seq = received + 1]
     /\ inode' = [inode EXCEPT !.tail = (@ + chars) % PageSize]
     /\ received' = received + chars
  /\ report' = "none"
  /\ current' = t
  /\ UNCHANGED <<alive, filp, file, asleep, sent, torn, wrong>>

\* read_pipe(): PIPE_TAIL is moved over the bytes that will be copied
ReadMove(t) ==
  /\ AtLoop(t, "read")
  /\ Size > 0
  /\ LET chars == Min({PageSize - inode.tail, call[t].count, Size}) IN
     /\ call' = [call EXCEPT ![t].count = @ - chars, ![t].chars = chars,
                             ![t].size = inode.tail, ![t].seq = received + 1]
     /\ inode' = [inode EXCEPT !.tail = (@ + chars) % PageSize]
     /\ received' = received + chars
  /\ report' = "none"
  /\ current' = t
  /\ UNCHANGED <<alive, filp, file, asleep, sent, torn, wrong>>

\* write_pipe(): the pipe is full
WriteFull(t) ==
  /\ AtLoop(t, "write")
  /\ Size = PageSize - 1
  /\ IF inode.count # 2
     THEN Return(t) /\ report' = "sigpipe"
     ELSE WakeAndSleep(t) /\ UNCHANGED <<call, report>>
  /\ UNCHANGED <<alive, filp, file, inode, sent, received, torn, wrong>>

\* write_pipe(): PIPE_HEAD is moved over the bytes that will be copied
WriteMove(t) ==
  /\ AtLoop(t, "write")
  /\ Size < PageSize - 1
  /\ LET chars == Min({PageSize - inode.head, call[t].count, PageSize - 1 - Size}) IN
     /\ call' = [call EXCEPT ![t].count = @ - chars, ![t].chars = chars,
                             ![t].size = inode.head, ![t].seq = sent + 1]
     /\ inode' = [inode EXCEPT !.head = (@ + chars) % PageSize]
     /\ sent' = sent + chars
  /\ report' = "none"
  /\ current' = t
  /\ UNCHANGED <<alive, filp, file, asleep, received, torn, wrong>>

\* n bytes are copied with put_fs_byte() or get_fs_byte().
CopyBytes(t, n) ==
  LET c == call[t]
      slots == c.size..c.size + n - 1
      Byte(i) == c.seq + (i - c.size)
  IN IF c.op = "read"
     THEN /\ wrong' = (wrong \/ \E i \in slots : inode.page[i] # Byte(i))
          /\ UNCHANGED inode
     ELSE /\ inode' = [inode EXCEPT !.page =
                         [i \in DOMAIN @ |-> IF i \in slots THEN Byte(i) ELSE @[i]]]
          /\ UNCHANGED wrong

\* All that is left of the round is copied; the call returns if that was it.
Copy(t) ==
  /\ Runs(t)
  /\ call[t].chars > 0
  /\ CopyBytes(t, call[t].chars)
  /\ IF call[t].count = 0
     THEN Return(t)
     ELSE /\ call' = [call EXCEPT ![t].chars = 0, ![t].size = 0, ![t].seq = 0]
          /\ current' = t
          /\ UNCHANGED asleep
  /\ UNCHANGED <<alive, filp, file, sent, received, report, torn>>

\* The user's page of the next byte but n is not present: the task sleeps in
\* do_no_page(), and others run.
CopyFault(t, n) ==
  /\ Runs(t)
  /\ t \in MayFault /\ ~call[t].faulted
  /\ n < call[t].chars
  /\ CopyBytes(t, n)
  /\ call' = [call EXCEPT ![t].chars = @ - n, ![t].size = @ + n, ![t].seq = @ + n,
                          ![t].faulted = TRUE]
  /\ current' = NULL
  /\ torn' = TRUE
  /\ UNCHANGED <<alive, filp, file, asleep, sent, received, report>>

-----------------------------------------------------------------------------
Init ==
  /\ current = NULL
  /\ alive = {First}
  /\ filp = [t \in Tasks |-> [fd \in Fds |-> NULL]]
  /\ file = [f \in Files |-> [count |-> 0, mode |-> "read"]]
  /\ inode = NoInode
  /\ call = [t \in Tasks |-> NoCall]
  /\ asleep = {}
  /\ sent = 0 /\ received = 0 /\ report = "none"
  /\ torn = FALSE /\ wrong = FALSE

Step(t) ==
  \/ ReadEmpty(t) \/ ReadMove(t)
  \/ WriteFull(t) \/ WriteMove(t)
  \/ Copy(t)
  \/ \E n \in 0..PageSize - 1 : CopyFault(t, n)

Next ==
  \E t \in Tasks :
    \/ Step(t)
    \/ SysPipe(t) \/ DoExit(t)
    \/ \E c \in Tasks : Fork(t, c)
    \/ \E fd \in Fds : SysClose(t, fd)
    \/ \E fd, n \in Fds : Dupfd(t, fd, n) \/ SysDup2(t, fd, n)
    \/ \E fd \in Fds, op \in {"read", "write"}, n \in Counts : Enter(t, fd, op, n)

Spec == Init /\ [][Next]_vars

\* A task in the kernel that is not asleep is given the processor, however
\* many calls of others come first (NoStarvation of Scheduler.tla).
FairSpec == Spec /\ \A t \in Tasks : SF_vars(Step(t))

-----------------------------------------------------------------------------
Descriptors(f) ==
  Cardinality({d \in Tasks \X Fds : filp[d[1]][d[2]] = f})

(***************************************************************************)
(* f_count is the number of descriptors of the file and i_count the number *)
(* of open files, through fork(), dup(), dup2(), close() and exit() in any *)
(* order; a task in read_pipe() or write_pipe() has its file open, so the  *)
(* page that it copies from or to is not freed (open.c:194-210,            *)
(* inode.c:171-180, fork.c:139-141).                                       *)
(***************************************************************************)
CountsMatch ==
  /\ \A f \in Files : file[f].count = Descriptors(f)
  /\ inode.count = Cardinality({f \in Files : file[f].count > 0})
  /\ \A t \in Tasks : call[t].op # "none" =>
       \E fd \in Fds : filp[t][fd] # NULL /\ file[filp[t][fd]].mode = call[t].op

(***************************************************************************)
(* The bytes come out in the order in which they went in, each once, where *)
(* the ring wraps around too, unless a task faulted on its buffer during a *)
(* transfer (pipe.c:24-35, 54-65).                                         *)
(***************************************************************************)
InOrder == ~torn => ~wrong

(***************************************************************************)
(* Nobody sleeps in a pipe for something that has happened already: if all *)
(* tasks in the pipe are asleep, readers wait for an open writer and the   *)
(* pipe is empty, writers for an open reader and it is full                *)
(* (pipe.c:18-23, 37, 46-53, 67; inode.c:172).                             *)
(***************************************************************************)
NoForgottenSleeper ==
  (\A t \in Tasks : call[t].op # "none" => t \in asleep) =>
    \A t \in asleep :
      /\ inode.count = 2
      /\ Size = IF call[t].op = "read" THEN 0 ELSE PageSize - 1

(***************************************************************************)
(* A read or write that finds, or is asleep while, the other end is closed *)
(* returns (pipe.c:20-21, 48-51).                                          *)
(***************************************************************************)
ClosedPipeReturns ==
  \A t \in Tasks :
    (call[t].op # "none" /\ inode.count # 2) ~> (call[t].op = "none")

(***************************************************************************)
(* The pipe of pipe.c is the one of PipeAbs: an end is open if its file    *)
(* is, which "i_count != 2" has to find out.                               *)
(***************************************************************************)
Abs == INSTANCE PipeAbs WITH
         Capacity <- PageSize - 1,
         ends <- {file[f].mode : f \in {g \in Files : file[g].count > 0}}

IsPipe == Abs!Spec

=============================================================================
