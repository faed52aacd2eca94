----------------------------- MODULE WaitQueue -----------------------------
(***************************************************************************)
(* The wait queues of kernel/sched.c.  A queue is one word, the pointer    *)
(* *p; the rest of it lives in the local variable tmp of every task that   *)
(* sleeps in sleep_on() or interruptible_sleep_on() (the "frame" of that   *)
(* task here).  wake_up() wakes the head only: each woken task wakes the   *)
(* one it found in *p when it went to sleep.                               *)
(*                                                                         *)
(* The kernel runs on one processor and is never preempted, so what a task *)
(* does between two calls of schedule() is atomic with respect to other    *)
(* tasks, but not to interrupt handlers, which call wake_up().  The only   *)
(* place where that matters is between "*p = current" and the assignment   *)
(* of current->state, so the sleeping functions take two steps there.      *)
(***************************************************************************)
EXTENDS Naturals, FiniteSets

CONSTANTS Tasks,       \* task_struct's other than task[0]
          Queues,      \* the task_struct * variables passed to sleep_on()
          IntQueues,   \* those passed to interruptible_sleep_on() instead
          CliQueues,   \* those whose sleepers have executed cli()
          IrqQueues,   \* those on which an interrupt handler calls wake_up()
          Idle,        \* task[0]
          NULL         \* the null pointer

ASSUME QueueAssumption == /\ IntQueues \subseteq Queues
                          /\ CliQueues \subseteq Queues
                          /\ IrqQueues \subseteq Queues

ASSUME PointerAssumption == Idle \notin Tasks /\ NULL \notin Tasks

VARIABLES current,     \* the task that has the processor
          state,       \* task->state
          signal,      \* does the task have a signal that it does not block?
          queue,       \* the word *p of each queue
          pc,          \* where in the kernel the task is
          wq,          \* the queue its frame is about
          tmp          \* the local variable tmp of its frame

vars == <<current, state, signal, queue, pc, wq, tmp>>

States == {"running", "interruptible", "uninterruptible", "zombie", "free"}

(***************************************************************************)
(* "sleep_on" and "isleep_on": *p = current is done, current->state is not *)
(* yet assigned; "slept" and "islept": in the call of schedule() of the    *)
(* function; "paused": in that of sys_pause() or sys_waitpid(); "dead": in *)
(* that of do_exit(); "out": anywhere else, user mode included.            *)
(***************************************************************************)
Frames == {"sleep_on", "slept", "isleep_on", "islept"}

PCs == Frames \cup {"out", "paused", "dead"}

TypeOK ==
  /\ current \in Tasks \cup {Idle}
  /\ state \in [Tasks -> States]
  /\ signal \in [Tasks -> BOOLEAN]
  /\ queue \in [Queues -> Tasks \cup {NULL}]
  /\ pc \in [Tasks -> PCs]
  /\ wq \in [Tasks -> Queues \cup {NULL}]
  /\ tmp \in [Tasks -> Tasks \cup {NULL}]

-----------------------------------------------------------------------------
\* The signal loop of schedule(): a signalled interruptible task may run.
CheckSignals(st) ==
  [t \in Tasks |-> IF signal[t] /\ st[t] = "interruptible"
                   THEN "running" ELSE st[t]]

Runnable(st) == {t \in Tasks : st[t] = "running"}

\* schedule(): any runnable task may be the one with the largest counter
\* (Scheduler.tla has the counters); task[0] runs when there is none.
Schedule(st) ==
  LET s == CheckSignals(st)
  IN  /\ state' = s
      /\ current' \in IF Runnable(s) = {} THEN {Idle} ELSE Runnable(s)

\* Slip: "if (t)" is forgotten, and the word at address NULL is written.
SlipWakeTask(st, t) ==
  [u \in Tasks \cup {t} |-> IF u = t THEN "running" ELSE st[u]]

\* if (t) t->state = 0.  A write into the page of a released task is not
\* seen by schedule(), which finds tasks through task[].
WakeTask(st, t) ==
  [u \in Tasks |-> IF u = t /\ st[u] # "free" THEN "running" ELSE st[u]]

Running(t) == current = t /\ pc[t] = "out"

\* sleep_on(): tmp = *p; *p = current
SleepOn(t, q) ==
  /\ Running(t)
  /\ q \notin IntQueues
  /\ tmp' = [tmp EXCEPT ![t] = queue[q]]
  /\ queue' = [queue EXCEPT ![q] = t]
  /\ pc' = [pc EXCEPT ![t] = "sleep_on"]
  /\ wq' = [wq EXCEPT ![t] = q]
  /\ UNCHANGED <<current, state, signal>>

\* sleep_on(): current->state = TASK_UNINTERRUPTIBLE; schedule()
SleepOnBlock(t) ==
  /\ current = t /\ pc[t] = "sleep_on"
  /\ pc' = [pc EXCEPT ![t] = "slept"]
  /\ Schedule([state EXCEPT ![t] = "uninterruptible"])
  /\ UNCHANGED <<signal, queue, wq, tmp>>

\* Slip: the earlier sleeper is not woken.
SlipSleepOnReturn(t) ==
  /\ current = t /\ pc[t] = "slept"
  /\ pc' = [pc EXCEPT ![t] = "out"]
  /\ wq' = [wq EXCEPT ![t] = NULL]
  /\ tmp' = [tmp EXCEPT ![t] = NULL]
  /\ UNCHANGED <<current, state, signal, queue>>

\* sleep_on(): if (tmp) tmp->state = 0
SleepOnReturn(t) ==
  /\ current = t /\ pc[t] = "slept"
  /\ state' = WakeTask(state, tmp[t])
  /\ pc' = [pc EXCEPT ![t] = "out"]
  /\ wq' = [wq EXCEPT ![t] = NULL]
  /\ tmp' = [tmp EXCEPT ![t] = NULL]
  /\ UNCHANGED <<current, signal, queue>>

\* interruptible_sleep_on(): tmp = *p; *p = current
IntSleepOn(t, q) ==
  /\ Running(t)
  /\ q \in IntQueues
  /\ tmp' = [tmp EXCEPT ![t] = queue[q]]
  /\ queue' = [queue EXCEPT ![q] = t]
  /\ pc' = [pc EXCEPT ![t] = "isleep_on"]
  /\ wq' = [wq EXCEPT ![t] = q]
  /\ UNCHANGED <<current, state, signal>>

\* repeat: current->state = TASK_INTERRUPTIBLE; schedule()
IntSleepOnBlock(t) ==
  /\ current = t /\ pc[t] = "isleep_on"
  /\ pc' = [pc EXCEPT ![t] = "islept"]
  /\ Schedule([state EXCEPT ![t] = "interruptible"])
  /\ UNCHANGED <<signal, queue, wq, tmp>>

\* if (*p && *p != current) { (**p).state = 0; goto repeat; }
IntSleepOnRepeat(t) ==
  /\ current = t /\ pc[t] = "islept"
  /\ queue[wq[t]] \notin {NULL, t}
  /\ state' = WakeTask(state, queue[wq[t]])
  /\ pc' = [pc EXCEPT ![t] = "isleep_on"]
  /\ UNCHANGED <<current, signal, queue, wq, tmp>>

\* *p = NULL; if (tmp) tmp->state = 0
IntSleepOnReturn(t) ==
  /\ current = t /\ pc[t] = "islept"
  /\ queue[wq[t]] \in {NULL, t}
  /\ queue' = [queue EXCEPT ![wq[t]] = NULL]
  /\ state' = WakeTask(state, tmp[t])
  /\ pc' = [pc EXCEPT ![t] = "out"]
  /\ wq' = [wq EXCEPT ![t] = NULL]
  /\ tmp' = [tmp EXCEPT ![t] = NULL]
  /\ UNCHANGED <<current, signal>>

\* Slip: the callers of sleep_on() forget cli().
SlipInterruptsOn == TRUE

\* Interrupts are off while the current task is in the frame of a queue
\* whose sleepers have executed cli(): eflags is part of the task's TSS.
InterruptsOn ==
  current # Idle => (pc[current] \in Frames => wq[current] \notin CliQueues)

\* wake_up(), called by the running task or by an interrupt handler
WakeUp(q) ==
  /\ \/ \E t \in Tasks : Running(t)
     \/ q \in IrqQueues /\ InterruptsOn
  /\ queue[q] # NULL
  /\ state' = WakeTask(state, queue[q])
  /\ queue' = [queue EXCEPT ![q] = NULL]
  /\ UNCHANGED <<current, signal, pc, wq, tmp>>

-----------------------------------------------------------------------------
\* A signal is posted by the running task (kill, exit) or by an interrupt
\* handler (the INTR character of a terminal, the alarm of schedule()).
Signal(t) ==
  /\ state[t] # "free" /\ ~signal[t]
  /\ signal' = [signal EXCEPT ![t] = TRUE]
  /\ UNCHANGED <<current, state, queue, pc, wq, tmp>>

\* do_signal() on the way back to user mode
DoSignal(t) ==
  /\ Running(t) /\ signal[t]
  /\ signal' = [signal EXCEPT ![t] = FALSE]
  /\ UNCHANGED <<current, state, queue, pc, wq, tmp>>

\* The call of schedule() when the time slice is over (do_timer(), or
\* reschedule in system_call.s), and the pause() loop of the idle task.
Preempt ==
  /\ current # Idle => pc[current] = "out"
  /\ Schedule(state)
  /\ UNCHANGED <<signal, queue, pc, wq, tmp>>

\* sys_pause(), and the wait of sys_waitpid()
Pause(t) ==
  /\ Running(t)
  /\ pc' = [pc EXCEPT ![t] = "paused"]
  /\ Schedule([state EXCEPT ![t] = "interruptible"])
  /\ UNCHANGED <<signal, queue, wq, tmp>>

\* schedule() returns in sys_pause(); should the schedule() of do_exit()
\* ever return, do_exit() returns -1 to its caller.
ScheduleReturn(t) ==
  /\ current = t /\ pc[t] \in {"paused", "dead"}
  /\ pc' = [pc EXCEPT ![t] = "out"]
  /\ UNCHANGED <<current, state, signal, queue, wq, tmp>>

\* The end of do_exit(): current->state = TASK_ZOMBIE; schedule()
Exit(t) ==
  /\ Running(t)
  /\ pc' = [pc EXCEPT ![t] = "dead"]
  /\ Schedule([state EXCEPT ![t] = "zombie"])
  /\ UNCHANGED <<signal, queue, wq, tmp>>

\* release() of a zombie child by its father in sys_waitpid()
Release(t, z) ==
  /\ Running(t) /\ state[z] = "zombie"
  /\ Schedule([state EXCEPT ![z] = "free"])
  /\ UNCHANGED <<signal, queue, pc, wq, tmp>>

\* copy_process(): the page of a task_struct is used again
Fork(t, n) ==
  /\ Running(t) /\ state[n] = "free"
  /\ state' = [state EXCEPT ![n] = "running"]
  /\ signal' = [signal EXCEPT ![n] = FALSE]
  /\ pc' = [pc EXCEPT ![n] = "out"]
  /\ UNCHANGED <<current, queue, wq, tmp>>

-----------------------------------------------------------------------------
Init ==
  /\ current = Idle
  /\ state = [t \in Tasks |-> "running"]
  /\ signal = [t \in Tasks |-> FALSE]
  /\ queue = [q \in Queues |-> NULL]
  /\ pc = [t \in Tasks |-> "out"]
  /\ wq = [t \in Tasks |-> NULL]
  /\ tmp = [t \in Tasks |-> NULL]

Sleep(t) ==
  \/ \E q \in Queues : SleepOn(t, q) \/ IntSleepOn(t, q)
  \/ SleepOnBlock(t) \/ SleepOnReturn(t)
  \/ IntSleepOnBlock(t) \/ IntSleepOnRepeat(t) \/ IntSleepOnReturn(t)

Other(t) ==
  \/ Signal(t) \/ DoSignal(t)
  \/ Pause(t) \/ ScheduleReturn(t) \/ Exit(t)
  \/ \E z \in Tasks : Release(t, z) \/ Fork(t, z)

Next ==
  \/ \E t \in Tasks : Sleep(t) \/ Other(t)
  \/ \E q \in Queues : WakeUp(q)
  \/ Preempt

Spec == Init /\ [][Next]_vars

(***************************************************************************)
(* The current task runs on (only interrupts may come between its steps),  *)
(* and every task that can run is picked again and again: Scheduler.tla    *)
(* shows this of the counters.                                             *)
(***************************************************************************)
Dispatch(t) == Next /\ current # t /\ current' = t

Progress(t) ==
  \/ SleepOnBlock(t) \/ SleepOnReturn(t)
  \/ IntSleepOnBlock(t) \/ IntSleepOnRepeat(t) \/ IntSleepOnReturn(t)
  \/ ScheduleReturn(t)

FairSpec == /\ Spec
            /\ \A t \in Tasks : WF_vars(Progress(t)) /\ SF_vars(Dispatch(t))

-----------------------------------------------------------------------------
(***************************************************************************)
(* Properties                                                              *)
(***************************************************************************)

\* The tasks that only a wake_up() or another sleeper can set running.
Sleepers(q) ==
  {t \in Tasks : /\ pc[t] = "slept" /\ wq[t] = q
                 /\ state[t] = "uninterruptible"}

\* u will execute tmp->state = 0 on t when it leaves its frame on q.
WillWake(u, q, t) == pc[u] \in Frames /\ wq[u] = q /\ tmp[u] = t

\* The queues whose sleepers cannot be interrupted by a wake_up() between
\* "*p = current" and the assignment of current->state.
SafeQueues == Queues \ (IrqQueues \ CliQueues)

(***************************************************************************)
(* Every non-empty set of sleepers of a queue has a member that something  *)
(* outside the set will wake: the head pointer, or the tmp of a task that  *)
(* is not in the set.  So no sleeper of sleep_on() is forgotten, and no    *)
(* group of sleepers is left waiting for each other only, whatever wakeups,*)
(* signals, exits and later sleepers come between (sched.c:155-199).       *)
(***************************************************************************)
NoStrandedSleepers ==
  \A q \in SafeQueues : \A S \in SUBSET Sleepers(q) :
    S # {} => \E t \in S : \/ queue[q] = t
                           \/ \E u \in Tasks \ S : WillWake(u, q, t)

HeadOf(t) == {q \in Queues : queue[q] = t}

Wakers(t) == {u \in Tasks : pc[u] \in Frames /\ tmp[u] = t}

Queued(t) == pc[t] = "sleep_on" \/ (pc[t] = "slept" /\ state[t] = "uninterruptible")

(***************************************************************************)
(* While only sleep_on() is used, a queued task is referred to exactly     *)
(* once, by the head of its queue or by the tmp of one later sleeper of    *)
(* the same queue, and nothing refers to a task that has been woken, has   *)
(* left, or has exited: no stale task_struct pointer is ever written       *)
(* through (sched.c:167-168, 195-198).                                     *)
(***************************************************************************)
ExactReferences ==
  \A t \in Tasks :
    IF Queued(t)
    THEN /\ Cardinality(HeadOf(t)) + Cardinality(Wakers(t)) = 1
         /\ HeadOf(t) \subseteq {wq[t]}
         /\ \A u \in Wakers(t) : wq[u] = wq[t]
    ELSE HeadOf(t) = {} /\ Wakers(t) = {}

(***************************************************************************)
(* A task that has exited never runs again: the schedule() at the end of   *)
(* do_exit() does not return (exit.c:139-143).                             *)
(***************************************************************************)
ZombieStaysDead ==
  [][\A t \in Tasks : state[t] = "zombie" => state'[t] \in {"zombie", "free"}]_vars

(***************************************************************************)
(* wake_up() wakes everybody: once the head of a queue is NULL, each task  *)
(* that slept on it in sleep_on() returns, the later ones waking the       *)
(* earlier ones (the comment at sched.c:197).                              *)
(***************************************************************************)
AllSleepersReturn ==
  \A t \in Tasks :
    (pc[t] = "slept" /\ queue[wq[t]] = NULL) ~> (pc[t] = "out")

(***************************************************************************)
(* The same of the sleepers of interruptible_sleep_on().                   *)
(***************************************************************************)
AllIntSleepersReturn ==
  \A t \in Tasks :
    (pc[t] = "islept" /\ queue[wq[t]] = NULL) ~> (pc[t] = "out")

=============================================================================
