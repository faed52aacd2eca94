----------------------------- MODULE Scheduler -----------------------------
(***************************************************************************)
(* The scheduler proper of kernel/sched.c: schedule() with its alarms,     *)
(* signals, counters and recharging, the timer interrupt that calls it,    *)
(* and the return path of system calls (kernel/system_call.s).             *)
(***************************************************************************)
EXTENDS Integers

CONSTANTS LastTask,      \* NR_TASKS - 1 (MCScheduler has the assumptions)
          MaxPriority,   \* bound on what nice() may reach
          InitPriority,  \* the priority of task[1] (15 in INIT_TASK)
          MaxAlarm       \* bound on how far ahead alarm() is set, in ticks

Tasks == 1..LastTask

Idle == 0                \* task[0]

VARIABLES current,       \* index of the task that has the processor
          state,         \* task->state, or "free" for an empty slot
          counter,       \* task->counter, in ticks
          priority,      \* task->priority
          alarm,         \* task->alarm - jiffies, NoAlarm when task->alarm is 0
          signal,        \* is there a pending signal that is not blocked?
                         \* (An alarm sets it: the tasks do not block SIGALRM.)
          mode           \* what the task does while it has the processor

vars == <<current, state, counter, priority, alarm, signal, mode>>

NoAlarm == -2

Due == -1                \* task->alarm < jiffies, by however much

States == {"running", "interruptible", "uninterruptible", "zombie", "free"}

\* "ret": at ret_from_sys_call, on the way to user mode
Modes == {"user", "kernel", "ret"}

TypeOK ==
  /\ current \in Tasks \cup {Idle}
  /\ state \in [Tasks -> States]
  /\ counter \in [Tasks -> Nat]
  /\ priority \in [Tasks -> 1..MaxPriority]
  /\ alarm \in [Tasks -> NoAlarm..MaxAlarm]
  /\ signal \in [Tasks -> BOOLEAN]
  /\ mode \in [Tasks -> Modes]

-----------------------------------------------------------------------------
\* The scan from task[LastTask] down to task[1]: the first largest counter.
Pick(R, ct) ==
  CHOOSE t \in R : \A u \in R : ct[u] < ct[t] \/ (ct[u] = ct[t] /\ u <= t)

\* Slip: the old counter is not halved.
SlipRecharge(st, ct) ==
  [t \in Tasks |-> IF st[t] = "free" THEN ct[t] ELSE ct[t] + priority[t]]

\* counter = (counter >> 1) + priority, for every task, sleeping or not
Recharge(st, ct) ==
  [t \in Tasks |-> IF st[t] = "free" THEN ct[t] ELSE ct[t] \div 2 + priority[t]]

\* Slip: the alarm loop comes after the choice of the next task, so that a
\* task woken by a signal is not seen; the alarm is cleared all the same.
SlipSchedule(st, ct, al) ==
  LET due == {t \in Tasks : st[t] # "free" /\ al[t] = Due}
      R == {t \in Tasks : st[t] = "running"}
      spent == R # {} /\ \A t \in R : ct[t] = 0
      c == IF spent THEN Recharge(st, ct) ELSE ct
  IN  /\ state' = st
      /\ counter' = c
      /\ signal' = signal
      /\ alarm' = [t \in Tasks |-> IF t \in due THEN NoAlarm ELSE al[t]]
      /\ current' = IF R = {} THEN Idle ELSE Pick(R, c)

\* schedule(), called with the states st, the counters ct and the alarms al.
\* Priorities are positive, so one recharge ends the while (1) loop.
Schedule(st, ct, al) ==
  LET due == {t \in Tasks : st[t] # "free" /\ al[t] = Due}
      sg == [t \in Tasks |-> signal[t] \/ t \in due]
      s == [t \in Tasks |-> IF sg[t] /\ st[t] = "interruptible"
                            THEN "running" ELSE st[t]]
      R == {t \in Tasks : s[t] = "running"}
      spent == R # {} /\ \A t \in R : ct[t] = 0
      c == IF spent THEN Recharge(s, ct) ELSE ct
  IN  /\ state' = s
      /\ counter' = c
      /\ signal' = sg
      /\ alarm' = [t \in Tasks |-> IF t \in due THEN NoAlarm ELSE al[t]]
      /\ current' = IF R = {} THEN Idle ELSE Pick(R, c)

\* jiffies++ of the timer interrupt
Later(al) ==
  [t \in Tasks |-> IF al[t] \in {NoAlarm, Due} THEN al[t] ELSE al[t] - 1]

\* Slip: the tick is not charged to the current task.
SlipDecremented(t) == counter

\* if ((--counter) > 0) ...; counter = 0
Decremented(t) ==
  [counter EXCEPT ![t] = IF @ > 0 THEN @ - 1 ELSE 0]

\* Timer interrupt in a task that is not at the end of its slice, or in the
\* kernel; the way back to user mode handles a signal (ret_from_sys_call).
Tick(t) ==
  /\ current = t
  /\ Decremented(t)[t] > 0 \/ mode[t] # "user"
  /\ counter' = Decremented(t)
  /\ alarm' = Later(alarm)
  /\ signal' = [signal EXCEPT ![t] = IF mode[t] = "user" THEN FALSE ELSE @]
  /\ UNCHANGED <<current, state, priority, mode>>

\* Timer interrupt in user mode at the end of the time slice
TickSchedule(t) ==
  /\ current = t
  /\ Decremented(t)[t] = 0 /\ mode[t] = "user"
  /\ mode' = [mode EXCEPT ![t] = "ret"]
  /\ Schedule(state, Decremented(t), Later(alarm))
  /\ UNCHANGED priority

\* Timer interrupt in task[0], which calls pause() for ever
IdleTick ==
  /\ current = Idle
  /\ Schedule(state, counter, Later(alarm))
  /\ UNCHANGED <<priority, mode>>

IdlePause ==
  /\ current = Idle
  /\ Schedule(state, counter, alarm)
  /\ UNCHANGED <<priority, mode>>

-----------------------------------------------------------------------------
InKernel(t) == current = t /\ mode[t] = "kernel"

SystemCall(t) ==
  /\ current = t /\ mode[t] = "user"
  /\ mode' = [mode EXCEPT ![t] = "kernel"]
  /\ UNCHANGED <<current, state, counter, priority, alarm, signal>>

\* The end of system_call: reschedule if the slice was used up meanwhile
Reschedule(t) ==
  /\ InKernel(t) /\ counter[t] = 0
  /\ mode' = [mode EXCEPT ![t] = "ret"]
  /\ Schedule(state, counter, alarm)
  /\ UNCHANGED priority

\* ret_from_sys_call: handle a signal and return to user mode
Return(t) ==
  /\ current = t
  /\ mode[t] = "ret" \/ (mode[t] = "kernel" /\ counter[t] # 0)
  /\ mode' = [mode EXCEPT ![t] = "user"]
  /\ signal' = [signal EXCEPT ![t] = FALSE]
  /\ UNCHANGED <<current, state, counter, priority, alarm>>

\* sys_pause(), sleep_on(), interruptible_sleep_on(), the wait of waitpid()
Block(t, s) ==
  /\ InKernel(t)
  /\ Schedule([state EXCEPT ![t] = s], counter, alarm)
  /\ UNCHANGED <<priority, mode>>

\* wake_up(), by an interrupt handler or by the current task
WakeUp(t) ==
  /\ state[t] \in {"interruptible", "uninterruptible"}
  /\ state' = [state EXCEPT ![t] = "running"]
  /\ UNCHANGED <<current, counter, priority, alarm, signal, mode>>

\* sys_kill() by the current task, or tty_intr()
Kill(t) ==
  /\ state[t] # "free" /\ ~signal[t]
  /\ signal' = [signal EXCEPT ![t] = TRUE]
  /\ UNCHANGED <<current, state, counter, priority, alarm, mode>>

\* sys_alarm(): n is jiffies away, or the alarm is cleared (seconds <= 0)
Alarm(t, n) ==
  /\ InKernel(t)
  /\ alarm' = [alarm EXCEPT ![t] = n]
  /\ UNCHANGED <<current, state, counter, priority, signal, mode>>

\* sys_nice(); MaxPriority is a bound of the model, the code has none
Nice(t, increment) ==
  /\ InKernel(t)
  /\ priority[t] - increment \in 1..MaxPriority
  /\ priority' = [priority EXCEPT ![t] = @ - increment]
  /\ UNCHANGED <<current, state, counter, alarm, signal, mode>>

\* copy_process(): the child starts with a full slice and its father's priority
Fork(t, n) ==
  /\ InKernel(t) /\ state[n] = "free"
  /\ state' = [state EXCEPT ![n] = "running"]
  /\ counter' = [counter EXCEPT ![n] = priority[t]]
  /\ priority' = [priority EXCEPT ![n] = priority[t]]
  /\ alarm' = [alarm EXCEPT ![n] = NoAlarm]
  /\ signal' = [signal EXCEPT ![n] = FALSE]
  /\ mode' = [mode EXCEPT ![n] = "user"]
  /\ UNCHANGED current

\* do_exit()
Exit(t) ==
  /\ InKernel(t)
  /\ Schedule([state EXCEPT ![t] = "zombie"], counter, alarm)
  /\ UNCHANGED <<priority, mode>>

\* release(), called by waitpid()
Release(t, z) ==
  /\ InKernel(t) /\ state[z] = "zombie"
  /\ Schedule([state EXCEPT ![z] = "free"], counter, alarm)
  /\ UNCHANGED <<priority, mode>>

-----------------------------------------------------------------------------
Init ==
  /\ current = Idle
  /\ state = [t \in Tasks |-> IF t = 1 THEN "running" ELSE "free"]
  /\ counter = [t \in Tasks |-> IF t = 1 THEN InitPriority ELSE 0]
  /\ priority = [t \in Tasks |-> InitPriority]
  /\ alarm = [t \in Tasks |-> NoAlarm]
  /\ signal = [t \in Tasks |-> FALSE]
  /\ mode = [t \in Tasks |-> "user"]

Timer == (\E t \in Tasks : Tick(t) \/ TickSchedule(t)) \/ IdleTick

LeaveKernel(t) ==
  \/ Reschedule(t) \/ Return(t) \/ Exit(t)
  \/ \E s \in {"interruptible", "uninterruptible"} : Block(t, s)

Forks == \E t, n \in Tasks : Fork(t, n)

Next ==
  \/ Timer
  \/ IdlePause
  \/ Forks
  \/ \E t \in Tasks :
       \/ SystemCall(t) \/ LeaveKernel(t) \/ WakeUp(t) \/ Kill(t)
       \/ \E n \in {NoAlarm} \cup 0..MaxAlarm : Alarm(t, n)
       \/ \E i \in -MaxPriority..MaxPriority : Nice(t, i)
       \/ \E z \in Tasks : Release(t, z)

Spec == Init /\ [][Next]_vars

(***************************************************************************)
(* The timer never stops, task[0] calls pause() again and again, and no    *)
(* task stays in the kernel for ever without sleeping.                     *)
(***************************************************************************)
FairSpec == /\ Spec
            /\ WF_vars(Timer) /\ WF_vars(IdlePause)
            /\ \A t \in Tasks : WF_vars(LeaveKernel(t))

-----------------------------------------------------------------------------
(***************************************************************************)
(* A task never gathers more than two slices: however long it sleeps while *)
(* the others are recharged, its counter stays below twice the largest     *)
(* priority (sched.c:142, 337).                                            *)
(***************************************************************************)
CounterBound == \A t \in Tasks : counter[t] < 2 * MaxPriority

(***************************************************************************)
(* If tasks stop being created, a task that stays runnable is given the    *)
(* processor, whatever the others do: sleeping, signals, alarms, nice(),   *)
(* time spent in the kernel (sched.c:128-145).                             *)
(***************************************************************************)
NoStarvation ==
  <>[][~Forks]_vars =>
    \A t \in Tasks :
      (state[t] = "running") ~> (current = t \/ state[t] # "running")

(***************************************************************************)
(* A task that pauses with an alarm set, and does not block SIGALRM, gets  *)
(* to run: the alarm of a sleeping task is seen even when nothing else     *)
(* happens in the system, or when the others never sleep (sched.c:         *)
(* 113-124).                                                               *)
(***************************************************************************)
AlarmWakes ==
  <>[][~Forks]_vars =>
    \A t \in Tasks :
      (state[t] = "interruptible" /\ alarm[t] # NoAlarm)
        ~> (state[t] # "interruptible")

=============================================================================
