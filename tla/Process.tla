------------------------------ MODULE Process ------------------------------
(***************************************************************************)
(* The life of a process: fork (kernel/fork.c), exit, waitpid and kill     *)
(* (kernel/exit.c), signals (kernel/signal.c, ret_from_sys_call) and the   *)
(* program of init (init/main.c).  The other tasks make any system call.   *)
(* A task runs in the kernel until it sleeps or returns: each such stretch *)
(* is one action.                                                          *)
(*                                                                         *)
(* Memory is left to Memory.tla, so a fork fails only for want of a slot.  *)
(* Process groups and sessions are left out.  The tasks but init have one  *)
(* user, who is not the super-user: they may send signals to each other    *)
(* and not to init.                                                        *)
(***************************************************************************)
EXTENDS Integers, FiniteSets

CONSTANTS LastTask,      \* task[1..LastTask]; task[0] is not modelled
          MaxPid,        \* where last_pid overflows
          Signals        \* the signals that occur

SIGKILL == 9
SIGCHLD == 17
SIGSTOP == 19

ASSUME TaskAssumption == LastTask \in Nat \ {0}
ASSUME PidAssumption == MaxPid \in Nat /\ MaxPid > LastTask
ASSUME SignalAssumption == Signals \subseteq 1..32 /\ {SIGKILL, SIGCHLD} \subseteq Signals

Slots == 1..LastTask
InitSlot == 1
Pids == 1..MaxPid
AnyChild == -1

VARIABLES task,          \* task[i]: the fields of the task_struct, and its place
          last_pid

vars == <<task, last_pid>>

(***************************************************************************)
(* pc: "none", no task in the slot; "user"; "pause" and "wait", asleep in  *)
(* the state TASK_INTERRUPTIBLE in pause() or in waitpid(arg); "exit",     *)
(* in do_exit() where it closes files; "zombie".  child: the shell that    *)
(* init waits for, or 0.                                                   *)
(***************************************************************************)
NoTask == [pc |-> "none", pid |-> 0, father |-> 0, signal |-> {}, blocked |-> {},
           arg |-> 0, child |-> 0]

TypeOK ==
  /\ task \in [Slots -> [pc : {"none", "user", "pause", "wait", "exit", "zombie"},
                         pid : 0..MaxPid, father : 0..MaxPid, signal : SUBSET Signals,
                         blocked : SUBSET Signals,
                         arg : {AnyChild} \cup 0..MaxPid, child : 0..MaxPid]]
  /\ last_pid \in 0..MaxPid

-----------------------------------------------------------------------------
Used == {i \in Slots : task[i].pc # "none"}

PidUsed(p) == \E i \in Used : task[i].pid = p

\* ++last_pid, n times; after the overflow it is 1.
After(n) == ((last_pid + n - 1) % MaxPid) + 1

\* Slip: a pid that is in use is not passed over.
SlipNextPid == After(1)

\* find_empty_process(): the next pid that no task has
NextPid ==
  LET n == CHOOSE n \in 1..MaxPid : /\ ~PidUsed(After(n))
                                    /\ \A m \in 1..(n - 1) : PidUsed(After(m))
  IN  After(n)

\* ... and the first empty slot
EmptySlot == {i \in Slots \ Used : \A j \in Slots \ Used : i <= j}

\* copy_process(): i becomes a copy of the task that calls fork()
Child(t, pid) ==
  [task[t] EXCEPT !.pc = "user", !.pid = pid, !.father = task[t].pid, !.signal = {},
                  !.child = 0]

Fork(t) ==
  /\ task[t].pc = "user" /\ t # InitSlot
  /\ last_pid' = NextPid
  /\ IF EmptySlot = {} THEN UNCHANGED task
     ELSE \E i \in EmptySlot : task' = [task EXCEPT ![i] = Child(t, NextPid)]

-----------------------------------------------------------------------------
\* Slip: nobody is told of a zombie that changes its father.
SlipReparent(T, t) ==
  [i \in Slots |-> IF T[i].pc # "none" /\ T[i].father = T[t].pid
                   THEN [T[i] EXCEPT !.father = 1] ELSE T[i]]

(***************************************************************************)
(* do_exit(): the children of t become children of init, which is told of  *)
(* the zombies among them.                                                 *)
(***************************************************************************)
Reparent(T, t) ==
  LET children == {i \in Slots : T[i].pc # "none" /\ T[i].father = T[t].pid}
      told == \E i \in children : T[i].pc = "zombie"
  IN
  [i \in Slots |->
     IF i \in children THEN [T[i] EXCEPT !.father = 1]
     ELSE IF i = InitSlot /\ told THEN [T[i] EXCEPT !.signal = @ \cup {SIGCHLD}]
     ELSE T[i]]

\* The first part of do_exit(), up to the calls that may sleep.  What the
\* task does with signals no longer matters.
BeginExit(t) ==
  LET dead == [NoTask EXCEPT !.pc = "exit", !.pid = task[t].pid, !.father = task[t].father]
  IN  task' = Reparent([task EXCEPT ![t] = dead], t)

SysExit(t) ==
  /\ task[t].pc = "user" /\ t # InitSlot
  /\ BeginExit(t)
  /\ UNCHANGED last_pid

\* tell_father(); without a father the task is released at once
TellFather(t) ==
  LET fathers == {i \in Used : task[i].pid = task[t].father} IN
  IF fathers = {} THEN [task EXCEPT ![t] = NoTask]
  ELSE LET f == CHOOSE i \in fathers : \A j \in fathers : i <= j
       IN  [task EXCEPT ![t].pc = "zombie", ![f].signal = @ \cup {SIGCHLD}]

\* The rest of do_exit(), when the files are closed
FinishExit(t) ==
  /\ task[t].pc = "exit"
  /\ task' = TellFather(t)
  /\ UNCHANGED last_pid

-----------------------------------------------------------------------------
\* The children that waitpid(pid) of t looks at
Children(t, pid) ==
  {i \in Used \ {t} : task[i].father = task[t].pid /\ (pid = AnyChild \/ task[i].pid = pid)}

Zombies(t, pid) == {i \in Children(t, pid) : task[i].pc = "zombie"}

\* init goes back to fork() when the shell has died.
Reaped(t, i) ==
  [task EXCEPT ![i] = NoTask,
               ![t].pc = "user", ![t].arg = 0,
               ![t].child = IF task[i].pid = @ THEN 0 ELSE @]

(***************************************************************************)
(* waitpid() from the label repeat, with the signals S: the last zombie in *)
(* the table is released, or the task sleeps, or there is no such child    *)
(* (-ECHILD).  With WNOHANG it would return where it sleeps, and nothing   *)
(* changes; no task is ever TASK_STOPPED.                                  *)
(***************************************************************************)
Repeat(t, pid, S) ==
  \/ \E i \in Zombies(t, pid) :
       /\ \A j \in Zombies(t, pid) : j <= i
       /\ task' = [Reaped(t, i) EXCEPT ![t].signal = S]
  \/ /\ Zombies(t, pid) = {} /\ Children(t, pid) # {}
     /\ task' = [task EXCEPT ![t].pc = "wait", ![t].arg = pid, ![t].signal = S]
  \/ /\ Children(t, pid) = {}
     /\ task' = [task EXCEPT ![t].pc = "user", ![t].arg = 0, ![t].signal = S]

WaitPid(t, pid) ==
  /\ task[t].pc = "user" /\ t # InitSlot
  /\ Repeat(t, pid, task[t].signal)
  /\ UNCHANGED last_pid

Pause(t) ==
  /\ task[t].pc = "user" /\ t # InitSlot
  /\ task' = [task EXCEPT ![t].pc = "pause"]
  /\ UNCHANGED last_pid

\* _BLOCKABLE
Blockable == Signals \ {SIGKILL, SIGSTOP}

\* Slip: schedule() looks at blocked alone, as ret_from_sys_call does.
SlipSignalled(t) == task[t].signal \ task[t].blocked # {}

\* schedule() makes an interruptible task run that has a signal, and SIGKILL
\* and SIGSTOP wake it although they are blocked.
Signalled(t) == task[t].signal \ (Blockable \cap task[t].blocked) # {}

PauseReturns(t) ==
  /\ task[t].pc = "pause" /\ Signalled(t)
  /\ task' = [task EXCEPT ![t].pc = "user"]
  /\ UNCHANGED last_pid

\* Slip: waitpid() sleeps again without looking at the children.
SlipWaitGoesOn(t) ==
  LET S == task[t].signal \ {SIGCHLD} IN
  /\ task[t].pc = "wait" /\ Signalled(t)
  /\ IF S = {} THEN task' = [task EXCEPT ![t].signal = S]
     ELSE task' = [task EXCEPT ![t].pc = "user", ![t].arg = 0, ![t].signal = S]
  /\ UNCHANGED last_pid

\* waitpid() goes on: a signal that is not SIGCHLD is -EINTR.
WaitGoesOn(t) ==
  LET S == task[t].signal \ {SIGCHLD} IN
  /\ task[t].pc = "wait" /\ Signalled(t)
  /\ IF S = {} THEN Repeat(t, task[t].arg, S)
     ELSE task' = [task EXCEPT ![t].pc = "user", ![t].arg = 0, ![t].signal = S]
  /\ UNCHANGED last_pid

-----------------------------------------------------------------------------
\* sys_kill(pid, sig) for pid > 0
Kill(t, pid, sig) ==
  /\ task[t].pc = "user" /\ t # InitSlot /\ PidUsed(pid)
  /\ task' = [i \in Slots |->
                IF task[i].pc \notin {"none", "exit", "zombie"} /\ task[i].pid = pid /\ i # InitSlot
                THEN [task[i] EXCEPT !.signal = @ \cup {sig}] ELSE task[i]]
  /\ UNCHANGED last_pid

\* sys_ssetmask()
SetMask(t, S) ==
  /\ task[t].pc = "user" /\ t # InitSlot
  /\ task' = [task EXCEPT ![t].blocked = S \ {SIGKILL}]
  /\ UNCHANGED last_pid

\* What sigaction() leaves as the sa_mask of a handler for sig: nothing
\* with SA_NOMASK, or else sig and what the user asks for, SIGKILL included.
HandlerMasks(sig) == {{}} \cup {M \in SUBSET Signals : sig \in M}

(***************************************************************************)
(* do_signal(): the signal is ignored, as SIGCHLD is by default; or the    *)
(* task goes on in a handler, and blocks its sa_mask until sa_restorer     *)
(* calls ssetmask(); or it ends.  Which of them is left open, but init     *)
(* ignores nothing and handles nothing, and SIGKILL always ends a task,    *)
(* since sys_signal() and sys_sigaction() refuse it.                       *)
(***************************************************************************)
Handle(t, sig) ==
  \/ /\ sig = SIGCHLD \/ (sig # SIGKILL /\ t # InitSlot)
     /\ task' = [task EXCEPT ![t].signal = @ \ {sig}]
  \/ /\ sig # SIGKILL /\ t # InitSlot
     /\ \E M \in HandlerMasks(sig) :
          task' = [task EXCEPT ![t].signal = @ \ {sig}, ![t].blocked = @ \cup M]
  \/ sig # SIGCHLD /\ BeginExit(t)

\* ret_from_sys_call: the first signal that is not blocked
DoSignal(t) ==
  /\ task[t].pc = "user"
  /\ \E sig \in task[t].signal \ task[t].blocked :
       /\ \A s \in task[t].signal \ task[t].blocked : sig <= s
       /\ Handle(t, sig)
  /\ UNCHANGED last_pid

-----------------------------------------------------------------------------
\* init: fork(), and again if it fails
InitForks ==
  /\ task[InitSlot].pc = "user" /\ task[InitSlot].child = 0
  /\ last_pid' = NextPid
  /\ IF EmptySlot = {} THEN UNCHANGED task
     ELSE \E i \in EmptySlot :
            task' = [task EXCEPT ![i] = Child(InitSlot, NextPid), ![InitSlot].child = NextPid]

\* init: wait() until the shell has died
InitWaits ==
  /\ task[InitSlot].pc = "user" /\ task[InitSlot].child # 0
  /\ Repeat(InitSlot, AnyChild, task[InitSlot].signal)
  /\ UNCHANGED last_pid

Init ==
  /\ task = [i \in Slots |->
               IF i = InitSlot THEN [NoTask EXCEPT !.pc = "user", !.pid = 1] ELSE NoTask]
  /\ last_pid = 1

SysCall(t) ==
  \/ Fork(t) \/ SysExit(t) \/ Pause(t)
  \/ \E pid \in Pids \cup {AnyChild} : WaitPid(t, pid)
  \/ \E pid \in Pids, sig \in Signals : Kill(t, pid, sig)
  \/ \E S \in SUBSET Signals : SetMask(t, S)

GoesOn(t) == PauseReturns(t) \/ WaitGoesOn(t) \/ FinishExit(t)

Next ==
  \/ InitForks \/ InitWaits
  \/ \E t \in Slots : SysCall(t) \/ DoSignal(t) \/ GoesOn(t)

Spec == Init /\ [][Next]_vars

(***************************************************************************)
(* A task that can run does; whenever one returns to user mode its signals *)
(* are looked at (init has only SIGCHLD to ignore, which nothing waits     *)
(* for).  Nobody has to make a system call, but init.                      *)
(***************************************************************************)
FairSpec ==
  /\ Spec
  /\ WF_vars(InitForks) /\ WF_vars(InitWaits)
  /\ \A t \in Slots : WF_vars(GoesOn(t))
  /\ \A t \in Slots \ {InitSlot} : SF_vars(DoSignal(t))

-----------------------------------------------------------------------------
(***************************************************************************)
(* Every task but init, a zombie too, has exactly one father that lives    *)
(* and may still wait for it: pids are used again without confusion, and   *)
(* "BAD BAD - no father found" is never printed (exit.c:99-102).           *)
(***************************************************************************)
OneFather ==
  \A i \in Used \ {InitSlot} :
    /\ Cardinality({f \in Used : task[f].pid = task[i].father}) = 1
    /\ \A f \in Used : task[f].pid = task[i].father => task[f].pc \notin {"exit", "zombie"}

(***************************************************************************)
(* No zombie is missed: a father asleep in waitpid() while a child that it *)
(* waits for is dead has SIGCHLD (exit.c:96, 119-121, 199-203).            *)
(***************************************************************************)
NoZombieMissed ==
  \A t \in Used :
    task[t].pc = "wait" /\ Zombies(t, task[t].arg) # {} => SIGCHLD \in task[t].signal

(***************************************************************************)
(* A waitpid() whose child dies returns, unless SIGCHLD is blocked.        *)
(***************************************************************************)
WaitEnds ==
  \A t \in Slots :
    (/\ task[t].pc = "wait" /\ SIGCHLD \notin task[t].blocked
     /\ Zombies(t, task[t].arg) # {}) ~> (task[t].pc # "wait")

(***************************************************************************)
(* SIGKILL wakes a task wherever it sleeps and whatever it blocks, and     *)
(* ends it, unless the sa_mask of a handler has SIGKILL in it: schedule()  *)
(* does not heed that (sched.c:121), but ret_from_sys_call does            *)
(* (signal.c:78, 128, system_call.s:112-117).  The task then stays in user *)
(* mode until it calls ssetmask(), which never blocks SIGKILL.             *)
(***************************************************************************)
KillKills ==
  \A t \in Slots \ {InitSlot} :
    (task[t].pc # "none" /\ SIGKILL \in task[t].signal)
      ~> (\/ task[t].pc \in {"zombie", "none"}
          \/ task[t].pc = "user" /\ SIGKILL \in task[t].blocked)

(***************************************************************************)
(* The comment of sys_ssetmask(), that nobody can keep SIGKILL out         *)
(* (signal.c:24).  It is true of ssetmask(), and not of sigaction().       *)
(***************************************************************************)
KillIsNeverBlocked == \A t \in Used : SIGKILL \notin task[t].blocked

(***************************************************************************)
(* A child of init that has died is waited for: it is up to init "to wait" *)
(* (exit.c:116-118, main.c:209-211).                                       *)
(***************************************************************************)
InitReaps ==
  \A i \in Slots : (task[i].pc = "zombie" /\ task[i].father = 1) ~> (task[i].pc = "none")

=============================================================================
