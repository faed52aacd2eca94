---------------------------- MODULE SchedProofs ----------------------------
(***************************************************************************)
(* What is proved of kernel/sched.c.                                       *)
(*                                                                         *)
(* Of the wait queues, for any number of tasks and queues, any mix of      *)
(* interruptible and uninterruptible queues, and any set of queues woken   *)
(* by interrupt handlers: no sleeper of sleep_on() is forgotten.           *)
(*                                                                         *)
(* Of schedule(), for any number of tasks, any priorities and any alarms:  *)
(* the bound on the counters, and that only a runnable task is given the   *)
(* processor.                                                              *)
(***************************************************************************)
EXTENDS WaitQueue, MCScheduler, WellFoundedInduction, TLAPS

(***************************************************************************)
(* Between "*p = current" and the assignment of current->state a task has  *)
(* the processor, and on a safe queue it is still the head: the cli() of   *)
(* its caller keeps the interrupt handlers out.  A task that has the       *)
(* processor is running, and one that has exited is in no frame.           *)
(***************************************************************************)
EnteringInv ==
  \A t \in Tasks :
    /\ pc[t] \in Frames => wq[t] \in Queues
    /\ pc[t] = "sleep_on" => /\ current = t
                             /\ wq[t] \in SafeQueues => queue[wq[t]] = t
    /\ current = t => state[t] = "running"
    /\ state[t] \in {"zombie", "free"} => pc[t] = "dead"

WaitInv == TypeOK /\ EnteringInv /\ NoStrandedSleepers

-----------------------------------------------------------------------------
(* The operators the steps are made of keep the types.                     *)

LEMMA ScheduleType ==
  ASSUME TypeOK, NEW st \in [Tasks -> States], Schedule(st)
  PROVE  /\ state' \in [Tasks -> States]
         /\ current' \in Tasks \cup {Idle}
  BY DEF TypeOK, Schedule, CheckSignals, Runnable, States

LEMMA WakeTaskType ==
  ASSUME NEW st \in [Tasks -> States], NEW t
  PROVE  WakeTask(st, t) \in [Tasks -> States]
  BY DEF WakeTask, States

LEMMA TypeStep == TypeOK /\ EnteringInv /\ [Next]_vars => TypeOK'
<1> SUFFICES ASSUME TypeOK, EnteringInv, [Next]_vars PROVE TypeOK'
  OBVIOUS
<1> USE DEF Running
<1>1. ASSUME NEW t \in Tasks, NEW q \in Queues, SleepOn(t, q) \/ IntSleepOn(t, q)
      PROVE  TypeOK'
  BY <1>1 DEF TypeOK, SleepOn, IntSleepOn, PCs, Frames
<1>2. ASSUME NEW t \in Tasks, SleepOnBlock(t) \/ IntSleepOnBlock(t)
      PROVE  TypeOK'
  <2>1. /\ [state EXCEPT ![t] = "uninterruptible"] \in [Tasks -> States]
        /\ [state EXCEPT ![t] = "interruptible"] \in [Tasks -> States]
    BY DEF TypeOK, States
  <2>2. state' \in [Tasks -> States] /\ current' \in Tasks \cup {Idle}
    BY <1>2, <2>1, ScheduleType DEF SleepOnBlock, IntSleepOnBlock
  <2> QED BY <1>2, <2>2 DEF TypeOK, SleepOnBlock, IntSleepOnBlock, PCs, Frames
<1>3. ASSUME NEW t \in Tasks,
             SleepOnReturn(t) \/ IntSleepOnRepeat(t) \/ IntSleepOnReturn(t)
      PROVE  TypeOK'
  <2>1. state' \in [Tasks -> States]
    BY <1>3, WakeTaskType DEF TypeOK, SleepOnReturn, IntSleepOnRepeat, IntSleepOnReturn
  <2> QED
    BY <1>3, <2>1 DEF TypeOK, SleepOnReturn, IntSleepOnRepeat, IntSleepOnReturn,
                      PCs, Frames
<1>4. ASSUME NEW t \in Tasks, Signal(t) \/ DoSignal(t) \/ ScheduleReturn(t)
      PROVE  TypeOK'
  BY <1>4 DEF TypeOK, Signal, DoSignal, ScheduleReturn, PCs
<1>5. ASSUME NEW t \in Tasks, Pause(t) \/ Exit(t)
      PROVE  TypeOK'
  <2>1. /\ [state EXCEPT ![t] = "zombie"] \in [Tasks -> States]
        /\ [state EXCEPT ![t] = "interruptible"] \in [Tasks -> States]
    BY DEF TypeOK, States
  <2>2. state' \in [Tasks -> States] /\ current' \in Tasks \cup {Idle}
    BY <1>5, <2>1, ScheduleType DEF Pause, Exit
  <2> QED BY <1>5, <2>2 DEF TypeOK, Pause, Exit, PCs
<1>6. ASSUME NEW t \in Tasks, NEW z \in Tasks, Release(t, z) \/ Fork(t, z)
      PROVE  TypeOK'
  <2>1. CASE Release(t, z)
    <3>1. [state EXCEPT ![z] = "free"] \in [Tasks -> States]
      BY DEF TypeOK, States
    <3>2. state' \in [Tasks -> States] /\ current' \in Tasks \cup {Idle}
      BY <2>1, <3>1, ScheduleType DEF Release
    <3> QED BY <2>1, <3>2 DEF TypeOK, Release
  <2>2. CASE Fork(t, z)
    BY <2>2 DEF TypeOK, Fork, States, PCs
  <2> QED BY <1>6, <2>1, <2>2
<1>7. ASSUME NEW q \in Queues, WakeUp(q) PROVE TypeOK'
  <2>1. state' \in [Tasks -> States]
    BY <1>7, WakeTaskType DEF TypeOK, WakeUp
  <2> QED BY <1>7, <2>1 DEF TypeOK, WakeUp
<1>8. CASE Preempt
  <2>1. state' \in [Tasks -> States] /\ current' \in Tasks \cup {Idle}
    BY <1>8, ScheduleType DEF Preempt, TypeOK
  <2> QED BY <1>8, <2>1 DEF TypeOK, Preempt
<1>9. CASE UNCHANGED vars
  BY <1>9 DEF TypeOK, vars
<1> QED
  BY <1>1, <1>2, <1>3, <1>4, <1>5, <1>6, <1>7, <1>8, <1>9 DEF Next, Sleep, Other

-----------------------------------------------------------------------------
(* What a step does to the frames and to the heads of the queues.          *)

\* schedule() makes no task uninterruptible, zombie or free, and picks a
\* running one.
LEMMA ScheduleSleepers ==
  ASSUME TypeOK, NEW st \in [Tasks -> States], Schedule(st), NEW t \in Tasks
  PROVE  /\ state'[t] = "uninterruptible" <=> st[t] = "uninterruptible"
         /\ state'[t] \in {"zombie", "free"} <=> st[t] \in {"zombie", "free"}
         /\ current' = t => state'[t] = "running"
  BY PointerAssumption DEF TypeOK, Schedule, CheckSignals, Runnable

LEMMA WakeTaskSleepers ==
  ASSUME NEW st \in [Tasks -> States], NEW t, NEW u \in Tasks,
         WakeTask(st, t)[u] = "uninterruptible"
  PROVE  u # t /\ st[u] = "uninterruptible"
  BY DEF WakeTask, States

LEMMA WakeTaskOthers ==
  ASSUME NEW st \in [Tasks -> States], NEW t, NEW u \in Tasks
  PROVE  /\ st[u] = "running" => WakeTask(st, t)[u] = "running"
         /\ WakeTask(st, t)[u] \in {"zombie", "free"} => st[u] \in {"zombie", "free"}
  BY DEF WakeTask, States

LEMMA EnteringStep == TypeOK /\ EnteringInv /\ [Next]_vars => EnteringInv'
<1> SUFFICES ASSUME TypeOK, EnteringInv, [Next]_vars PROVE EnteringInv'
  OBVIOUS
<1> USE PointerAssumption DEF Running, Frames, EnteringInv
<1>1. ASSUME NEW u \in Tasks, NEW q \in Queues, SleepOn(u, q) \/ IntSleepOn(u, q)
      PROVE  EnteringInv'
  BY <1>1 DEF TypeOK, SleepOn, IntSleepOn, SafeQueues
<1>2. ASSUME NEW u \in Tasks, SleepOnBlock(u) \/ IntSleepOnBlock(u)
      PROVE  EnteringInv'
  <2>1. /\ [state EXCEPT ![u] = "uninterruptible"] \in [Tasks -> States]
        /\ [state EXCEPT ![u] = "interruptible"] \in [Tasks -> States]
    BY DEF TypeOK, States
  <2>2. \A t \in Tasks : /\ current' = t => state'[t] = "running"
                         /\ state'[t] \in {"zombie", "free"} => pc'[t] = "dead"
    BY <1>2, <2>1, ScheduleSleepers, ZenonT(60) DEF SleepOnBlock, IntSleepOnBlock, TypeOK
  <2> QED BY <1>2, <2>2 DEF TypeOK, SleepOnBlock, IntSleepOnBlock, SafeQueues
<1>3. ASSUME NEW u \in Tasks,
             SleepOnReturn(u) \/ IntSleepOnRepeat(u) \/ IntSleepOnReturn(u)
      PROVE  EnteringInv'
  BY <1>3, WakeTaskOthers
  DEF TypeOK, SleepOnReturn, IntSleepOnRepeat, IntSleepOnReturn, SafeQueues
<1>4. ASSUME NEW u \in Tasks, Other(u)
      PROVE  EnteringInv'
  <2>1. CASE Signal(u) \/ DoSignal(u) \/ ScheduleReturn(u)
    BY <2>1 DEF TypeOK, Signal, DoSignal, ScheduleReturn, SafeQueues
  <2>2. CASE Pause(u)
    <3>1. [state EXCEPT ![u] = "interruptible"] \in [Tasks -> States]
      BY DEF TypeOK, States
    <3>2. ASSUME NEW t \in Tasks
          PROVE  /\ current' = t => state'[t] = "running"
                 /\ state'[t] \in {"zombie", "free"} => state[t] \in {"zombie", "free"} /\ t # u
      BY <2>2, <3>1, ScheduleSleepers DEF Pause, TypeOK
    <3> QED BY <2>2, <3>2 DEF TypeOK, Pause, SafeQueues
  <2>5. CASE Exit(u)
    <3>1. [state EXCEPT ![u] = "zombie"] \in [Tasks -> States]
      BY DEF TypeOK, States
    <3>2. ASSUME NEW t \in Tasks
          PROVE  /\ current' = t => state'[t] = "running"
                 /\ state'[t] \in {"zombie", "free"} => state[t] \in {"zombie", "free"} \/ t = u
      BY <2>5, <3>1, ScheduleSleepers DEF Exit, TypeOK
    <3> QED BY <2>5, <3>2 DEF TypeOK, Exit, SafeQueues
  <2>3. ASSUME NEW z \in Tasks, Release(u, z)
        PROVE  EnteringInv'
    <3>1. [state EXCEPT ![z] = "free"] \in [Tasks -> States]
      BY DEF TypeOK, States
    <3>2. \A t \in Tasks : /\ current' = t => state'[t] = "running"
                           /\ state'[t] \in {"zombie", "free"} => pc'[t] = "dead"
      BY <2>3, <3>1, ScheduleSleepers DEF Release, TypeOK
    <3> QED BY <2>3, <3>2 DEF TypeOK, Release, SafeQueues
  <2>4. ASSUME NEW n \in Tasks, Fork(u, n)
        PROVE  EnteringInv'
    BY <2>4 DEF TypeOK, Fork, SafeQueues
  <2> QED BY <1>4, <2>1, <2>2, <2>3, <2>4, <2>5 DEF Other
<1>5. ASSUME NEW q \in Queues, WakeUp(q)
      PROVE  EnteringInv'
  <2> SUFFICES ASSUME NEW t \in Tasks, pc[t] = "sleep_on", wq[t] \in SafeQueues
               PROVE  wq[t] # q
    BY <1>5, WakeTaskOthers DEF TypeOK, WakeUp, SafeQueues
  <2> QED BY <1>5 DEF TypeOK, WakeUp, InterruptsOn, SafeQueues
<1>6. CASE Preempt
  <2>1. \A t \in Tasks : /\ current' = t => state'[t] = "running"
                         /\ state'[t] \in {"zombie", "free"} => pc'[t] = "dead"
    BY <1>6, ScheduleSleepers DEF Preempt, TypeOK
  <2> QED BY <1>6, <2>1 DEF TypeOK, Preempt, SafeQueues
<1>7. CASE UNCHANGED vars
  BY <1>7 DEF vars, SafeQueues
<1> QED
  BY <1>1, <1>2, <1>3, <1>4, <1>5, <1>6, <1>7 DEF Next, Sleep

-----------------------------------------------------------------------------
(***************************************************************************)
(* A step that adds no sleeper to a queue leaves no set of its sleepers    *)
(* stranded if every reference to a remaining sleeper survives, or is      *)
(* taken over by a task that is not itself a sleeper.                      *)
(***************************************************************************)
LEMMA ReferencesKept ==
  ASSUME NoStrandedSleepers,
         \A q \in SafeQueues : \A t \in Sleepers(q)' :
           /\ t \in Sleepers(q)
           /\ queue[q] = t => \/ queue'[q] = t
                              \/ \E u \in Tasks : /\ u \notin Sleepers(q)'
                                                  /\ WillWake(u, q, t)'
           /\ \A u \in Tasks : WillWake(u, q, t) => WillWake(u, q, t)'
  PROVE  NoStrandedSleepers'
<1> SUFFICES ASSUME NEW q \in SafeQueues, NEW S \in SUBSET Sleepers(q)', S # {}
             PROVE  \E t \in S : \/ queue'[q] = t
                                 \/ \E u \in Tasks \ S : WillWake(u, q, t)'
  BY DEF NoStrandedSleepers, SafeQueues
<1>1. S \in SUBSET Sleepers(q)
  OBVIOUS
<1>2. PICK t \in S : \/ queue[q] = t
                     \/ \E u \in Tasks \ S : WillWake(u, q, t)
  BY <1>1 DEF NoStrandedSleepers
<1> QED BY <1>2

LEMMA StrandedStep == WaitInv /\ [Next]_vars => NoStrandedSleepers'
<1> SUFFICES ASSUME WaitInv, [Next]_vars PROVE NoStrandedSleepers'
  OBVIOUS
<1> USE DEF WaitInv
<1>1. ASSUME NEW c \in Tasks, NEW p \in Queues, SleepOn(c, p) \/ IntSleepOn(c, p)
      PROVE  NoStrandedSleepers'
  <2>1. ASSUME NEW q \in SafeQueues, NEW t \in Sleepers(q)'
        PROVE  /\ t \in Sleepers(q)
               /\ queue[q] = t => \/ queue'[q] = t
                                  \/ \E u \in Tasks : /\ u \notin Sleepers(q)'
                                                      /\ WillWake(u, q, t)'
               /\ \A u \in Tasks : WillWake(u, q, t) => WillWake(u, q, t)'
    <3>1. t \in Sleepers(q) /\ t # c /\ c \notin Sleepers(q)'
      BY <1>1, <2>1 DEF Sleepers, SleepOn, IntSleepOn, TypeOK
    <3>2. queue[q] = t => queue'[q] = t \/ WillWake(c, q, t)'
      BY <1>1, <2>1 DEF SleepOn, IntSleepOn, TypeOK, WillWake, Frames, SafeQueues
    <3>3. \A u \in Tasks : WillWake(u, q, t) => WillWake(u, q, t)'
      BY <1>1 DEF SleepOn, IntSleepOn, Running, TypeOK, WillWake, Frames
    <3> QED BY <3>1, <3>2, <3>3
  <2> QED BY <2>1, ReferencesKept
<1>2. ASSUME NEW c \in Tasks, SleepOnBlock(c)
      PROVE  NoStrandedSleepers'
  <2> SUFFICES ASSUME NEW q \in SafeQueues, NEW S \in SUBSET Sleepers(q)', S # {}
               PROVE  \E t \in S : \/ queue'[q] = t
                                   \/ \E u \in Tasks \ S : WillWake(u, q, t)'
    BY DEF NoStrandedSleepers, SafeQueues
  <2>1. [state EXCEPT ![c] = "uninterruptible"] \in [Tasks -> States]
    BY DEF TypeOK, States
  <2>2. \A t \in Tasks : t # c /\ state'[t] = "uninterruptible"
                           => state[t] = "uninterruptible"
    BY <1>2, <2>1, ScheduleSleepers DEF SleepOnBlock, TypeOK
  <2>3. \A t \in S : t # c => t \in Sleepers(q)
    BY <1>2, <2>2 DEF SleepOnBlock, Sleepers, TypeOK
  <2>4. \A t, u \in Tasks : WillWake(u, q, t) => WillWake(u, q, t)'
    BY <1>2 DEF SleepOnBlock, WillWake, TypeOK, Frames
  <2>5. CASE c \in S
    <3>1. wq[c] = q
      BY <1>2, <2>5 DEF SleepOnBlock, Sleepers
    <3>2. queue'[q] = c
      BY <1>2, <3>1 DEF SleepOnBlock, EnteringInv
    <3> QED BY <2>5, <3>2
  <2>6. CASE c \notin S
    <3>1. S \in SUBSET Sleepers(q)
      BY <2>3, <2>6
    <3>2. PICK t \in S : \/ queue[q] = t
                         \/ \E u \in Tasks \ S : WillWake(u, q, t)
      BY <3>1 DEF NoStrandedSleepers
    <3>3. t \in Tasks
      BY <3>1 DEF Sleepers
    <3> QED BY <1>2, <2>4, <3>2, <3>3 DEF SleepOnBlock
  <2> QED BY <2>5, <2>6
<1>3. ASSUME NEW c \in Tasks,
             SleepOnReturn(c) \/ IntSleepOnRepeat(c) \/ IntSleepOnReturn(c)
      PROVE  NoStrandedSleepers'
  <2>1. ASSUME NEW q \in SafeQueues, NEW t \in Sleepers(q)'
        PROVE  /\ t \in Sleepers(q)
               /\ queue[q] = t => queue'[q] = t
               /\ \A u \in Tasks : WillWake(u, q, t) => WillWake(u, q, t)'
    <3> t \in Tasks
      BY DEF Sleepers
    <3>1. t \in Sleepers(q) /\ t # c
      BY <1>3, WakeTaskSleepers
      DEF Sleepers, SleepOnReturn, IntSleepOnRepeat, IntSleepOnReturn, TypeOK
    <3>2. queue[q] = t => queue'[q] = t
      BY <1>3, <3>1, PointerAssumption
      DEF SleepOnReturn, IntSleepOnRepeat, IntSleepOnReturn, TypeOK, SafeQueues
    <3>3. SleepOnReturn(c) \/ IntSleepOnReturn(c) => tmp[c] # t
      BY <1>3, WakeTaskSleepers DEF Sleepers, SleepOnReturn, IntSleepOnReturn, TypeOK
    <3>4. \A u \in Tasks : WillWake(u, q, t) => WillWake(u, q, t)'
      BY <1>3, <3>3
      DEF SleepOnReturn, IntSleepOnRepeat, IntSleepOnReturn, TypeOK, WillWake, Frames
    <3> QED BY <3>1, <3>2, <3>4
  <2> QED BY <2>1, ReferencesKept
<1>4. ASSUME NEW p \in Queues, WakeUp(p)
      PROVE  NoStrandedSleepers'
  <2>1. ASSUME NEW q \in SafeQueues, NEW t \in Sleepers(q)'
        PROVE  /\ t \in Sleepers(q)
               /\ queue[q] = t => queue'[q] = t
               /\ \A u \in Tasks : WillWake(u, q, t) => WillWake(u, q, t)'
    <3> t \in Tasks
      BY DEF Sleepers
    <3>1. t \in Sleepers(q) /\ t # queue[p]
      BY <1>4, WakeTaskSleepers DEF Sleepers, WakeUp, TypeOK
    <3> QED BY <1>4, <3>1 DEF WakeUp, TypeOK, SafeQueues, WillWake
  <2> QED BY <2>1, ReferencesKept
<1>5. ASSUME NEW c \in Tasks, Signal(c) \/ DoSignal(c) \/ ScheduleReturn(c)
      PROVE  NoStrandedSleepers'
  <2>1. ASSUME NEW q \in SafeQueues, NEW t \in Sleepers(q)'
        PROVE  /\ t \in Sleepers(q)
               /\ queue[q] = t => queue'[q] = t
               /\ \A u \in Tasks : WillWake(u, q, t) => WillWake(u, q, t)'
    BY <1>5 DEF Signal, DoSignal, ScheduleReturn, Sleepers, WillWake, TypeOK, Frames
  <2> QED BY <2>1, ReferencesKept
<1>6. ASSUME NEW st \in [Tasks -> States], Schedule(st),
             \A u \in Tasks : st[u] = "uninterruptible" => state[u] = "uninterruptible",
             UNCHANGED <<queue, wq, tmp>>,
             \A u \in Tasks : /\ pc'[u] # pc[u] => pc'[u] # "slept"
                              /\ pc[u] \in Frames => pc'[u] \in Frames
      PROVE  NoStrandedSleepers'
  <2>1. ASSUME NEW q \in SafeQueues, NEW t \in Sleepers(q)'
        PROVE  /\ t \in Sleepers(q)
               /\ queue[q] = t => queue'[q] = t
               /\ \A u \in Tasks : WillWake(u, q, t) => WillWake(u, q, t)'
    <3> t \in Tasks
      BY DEF Sleepers
    <3>1. state[t] = "uninterruptible"
      BY <1>6, ScheduleSleepers DEF Sleepers
    <3> QED BY <1>6, <3>1 DEF Sleepers, WillWake, TypeOK
  <2> QED BY <2>1, ReferencesKept
<1>7. ASSUME NEW c \in Tasks, IntSleepOnBlock(c) \/ Pause(c)
      PROVE  NoStrandedSleepers'
  <2>1. [state EXCEPT ![c] = "interruptible"] \in [Tasks -> States]
    BY DEF TypeOK, States
  <2> QED
    BY <1>6, <1>7, <2>1 DEF IntSleepOnBlock, Pause, Running, TypeOK, Frames
<1>8. ASSUME NEW c \in Tasks, Exit(c)
      PROVE  NoStrandedSleepers'
  <2>1. [state EXCEPT ![c] = "zombie"] \in [Tasks -> States]
    BY DEF TypeOK, States
  <2> QED BY <1>6, <1>8, <2>1 DEF Exit, Running, TypeOK, Frames
<1>9. ASSUME NEW c \in Tasks, NEW z \in Tasks, Release(c, z)
      PROVE  NoStrandedSleepers'
  <2>1. [state EXCEPT ![z] = "free"] \in [Tasks -> States]
    BY DEF TypeOK, States
  <2> QED BY <1>6, <1>9, <2>1 DEF Release, TypeOK, Frames
<1>10. CASE Preempt
  BY <1>6, <1>10 DEF Preempt, TypeOK, Frames
<1>11. ASSUME NEW c \in Tasks, NEW n \in Tasks, Fork(c, n)
       PROVE  NoStrandedSleepers'
  <2>1. ASSUME NEW q \in SafeQueues, NEW t \in Sleepers(q)'
        PROVE  /\ t \in Sleepers(q)
               /\ queue[q] = t => queue'[q] = t
               /\ \A u \in Tasks : WillWake(u, q, t) => WillWake(u, q, t)'
    BY <1>11 DEF Fork, EnteringInv, Sleepers, WillWake, TypeOK, Frames
  <2> QED BY <2>1, ReferencesKept
<1>12. CASE UNCHANGED vars
  BY <1>12 DEF vars, NoStrandedSleepers, Sleepers, WillWake, SafeQueues
<1> QED
  BY <1>1, <1>2, <1>3, <1>4, <1>5, <1>7, <1>8, <1>9, <1>10, <1>11, <1>12
  DEF Next, Sleep, Other

-----------------------------------------------------------------------------
LEMMA WaitInvInit == Init => WaitInv
  BY PointerAssumption
  DEF Init, WaitInv, TypeOK, EnteringInv, NoStrandedSleepers, Sleepers,
      SafeQueues, States, PCs, Frames

LEMMA WaitInvStep == WaitInv /\ [Next]_vars => WaitInv'
  BY TypeStep, EnteringStep, StrandedStep DEF WaitInv

(***************************************************************************)
(* The inductive invariant holds in every behaviour of the wait queues.    *)
(***************************************************************************)
THEOREM WaitInvariant == Spec => []WaitInv
  BY WaitInvInit, WaitInvStep, PTL DEF Spec

(***************************************************************************)
(* The scheduler's data keeps its types in every behaviour.                *)
(***************************************************************************)
THEOREM TypeCorrect == Spec => []TypeOK
  BY WaitInvariant, PTL DEF WaitInv

(***************************************************************************)
(* No sleeper of sleep_on() is ever forgotten, on any queue whose sleepers *)
(* disable the interrupts that wake it, even when the same tasks also use  *)
(* interruptible_sleep_on(), take signals, exit and are reaped             *)
(* (sched.c:155-199).                                                      *)
(***************************************************************************)
THEOREM NoSleeperIsStranded == Spec => []NoStrandedSleepers
  BY WaitInvariant, PTL DEF WaitInv

-----------------------------------------------------------------------------
(* The scheduler.                                                          *)

Counters == 0..2 * MaxPriority - 1

(***************************************************************************)
(* The task that has the processor is runnable.  schedule() looks at       *)
(* TASK_RUNNING alone, and nothing changes the state of the current task   *)
(* but the task itself, which then calls schedule() (sched.c:128-145).     *)
(***************************************************************************)
CurrentRuns == \A t \in Sch!Tasks : onCpu = t => states[t] = "running"

SchedInv == Sch!TypeOK /\ Sch!CounterBound /\ CurrentRuns

-----------------------------------------------------------------------------
(* The scan of schedule() always finds a task.                             *)

Before == {p \in Nat \X Nat : p[1] < p[2]}

\* A set of natural numbers has a least element.
LEMMA Least ==
  ASSUME NEW S, S \subseteq Nat, S # {}
  PROVE  \E n \in S : \A m \in S : n <= m
<1>1. IsWellFoundedOn(Before, Nat)
  BY NatLessThanWellFounded DEF OpToRel, Before
<1>2. PICK n \in S : \A m \in S : <<m, n>> \notin Before
  BY <1>1, WFMin
<1>3. \A m \in S : ~(m < n)
  BY <1>2 DEF Before
<1> QED BY <1>3

\* A bounded set of natural numbers has a greatest element.
LEMMA Greatest ==
  ASSUME NEW N \in Nat, NEW S, S \subseteq 0..N, S # {}
  PROVE  \E n \in S : \A m \in S : m <= n
<1> DEFINE D == {N - m : m \in S}
<1>1. D \subseteq Nat /\ D # {}
  <2>1. \A m \in S : N - m \in Nat
    OBVIOUS
  <2>2. PICK m \in S : TRUE
    OBVIOUS
  <2>3. N - m \in D
    OBVIOUS
  <2> QED BY <2>1, <2>3
<1>2. PICK d \in D : \A e \in D : d <= e
  BY <1>1, Least
<1>3. PICK n \in S : d = N - n
  OBVIOUS
<1>4. \A m \in S : N - n <= N - m
  BY <1>2, <1>3
<1> QED BY <1>3, <1>4

\* If some task is runnable, the scan ends with a runnable task that has the
\* largest counter, however the ties fall.
LEMMA PickType ==
  ASSUME NEW R, R \subseteq Sch!Tasks, R # {}, NEW ct \in [Sch!Tasks -> Counters]
  PROVE  Sch!Pick(R, ct) \in R /\ \A u \in R : ct[u] <= ct[Sch!Pick(R, ct)]
<1> DEFINE S == {ct[t] : t \in R}
<1>1. S \subseteq 0..2 * MaxPriority - 1 /\ S # {}
  BY DEF Counters
<1>2. 2 * MaxPriority - 1 \in Nat
  BY PriorityAssumption
<1>3. PICK n \in S : \A m \in S : m <= n
  <2> HIDE DEF S
  <2> QED BY <1>1, <1>2, Greatest
<1> DEFINE M == {t \in R : ct[t] = n}
<1>4. M \subseteq 0..LastTask /\ M # {}
  BY LastAssumption DEF Sch!Tasks
<1>5. PICK t \in M : \A u \in M : u <= t
  <2> HIDE DEF M
  <2> QED BY <1>4, Greatest, LastAssumption
<1>6. /\ t \in R
      /\ \A u \in R : ct[u] < ct[t] \/ (ct[u] = ct[t] /\ u <= t)
  <2>1. \A u \in R : ct[u] \in Int /\ u \in Int
    BY LastAssumption, PriorityAssumption DEF Counters, Sch!Tasks
  <2>2. ct[t] = n /\ \A u \in R : ct[u] <= n
    BY <1>3, <1>5
  <2> QED BY <1>5, <2>1, <2>2
<1>7. /\ Sch!Pick(R, ct) \in R
      /\ \A u \in R : \/ ct[u] < ct[Sch!Pick(R, ct)]
                      \/ ct[u] = ct[Sch!Pick(R, ct)] /\ u <= Sch!Pick(R, ct)
  BY <1>6 DEF Sch!Pick
<1>8. \A u \in R : ct[u] \in Int
  BY PriorityAssumption DEF Counters
<1> QED BY <1>7, <1>8

-----------------------------------------------------------------------------
(* schedule(), with whatever states, counters and alarms it is called.     *)

\* Recharging keeps the counters below two slices: half of less than
\* 2 * MaxPriority is less than MaxPriority (sched.c:141-144).
LEMMA RechargeType ==
  ASSUME Sch!TypeOK, NEW st \in [Sch!Tasks -> Sch!States], NEW ct \in [Sch!Tasks -> Counters]
  PROVE  Sch!Recharge(st, ct) \in [Sch!Tasks -> Counters]
<1>1. ASSUME NEW n \in Counters, NEW p \in 1..MaxPriority
      PROVE  n \div 2 + p \in Counters
  <2>1. n \div 2 \in Nat /\ n \div 2 <= MaxPriority - 1
    BY PriorityAssumption DEF Counters
  <2> QED BY <2>1, PriorityAssumption DEF Counters
<1>2. ASSUME NEW t \in Sch!Tasks
      PROVE  (IF st[t] = "free" THEN ct[t] ELSE ct[t] \div 2 + priority[t]) \in Counters
  BY <1>1 DEF Sch!TypeOK
<1> QED BY <1>2 DEF Sch!Recharge

\* What a call of schedule() leaves behind.
LEMMA ScheduleEffect ==
  ASSUME Sch!TypeOK, NEW st \in [Sch!Tasks -> Sch!States], NEW ct \in [Sch!Tasks -> Counters],
         NEW al \in [Sch!Tasks -> Sch!NoAlarm..MaxAlarm], Sch!Schedule(st, ct, al)
  PROVE  /\ onCpu' \in Sch!Tasks \cup {Sch!Idle}
         /\ states' \in [Sch!Tasks -> Sch!States]
         /\ counter' \in [Sch!Tasks -> Counters]
         /\ alarm' \in [Sch!Tasks -> Sch!NoAlarm..MaxAlarm]
         /\ pending' \in [Sch!Tasks -> BOOLEAN]
         /\ CurrentRuns'
<1> DEFINE due == {t \in Sch!Tasks : st[t] # "free" /\ al[t] = Sch!Due}
           sg == [t \in Sch!Tasks |-> pending[t] \/ t \in due]
           s == [t \in Sch!Tasks |-> IF sg[t] /\ st[t] = "interruptible"
                                 THEN "running" ELSE st[t]]
           R == {t \in Sch!Tasks : s[t] = "running"}
           spent == R # {} /\ \A t \in R : ct[t] = 0
           c == IF spent THEN Sch!Recharge(s, ct) ELSE ct
<1>1. /\ states' = s
      /\ counter' = c
      /\ pending' = sg
      /\ alarm' = [t \in Sch!Tasks |-> IF t \in due THEN Sch!NoAlarm ELSE al[t]]
      /\ onCpu' = IF R = {} THEN Sch!Idle ELSE Sch!Pick(R, c)
  BY DEF Sch!Schedule
<1>2. s \in [Sch!Tasks -> Sch!States]
  BY DEF Sch!States
<1>3. c \in [Sch!Tasks -> Counters]
  <2> HIDE DEF s, R, spent
  <2> QED BY <1>2, RechargeType
<1>4. alarm' \in [Sch!Tasks -> Sch!NoAlarm..MaxAlarm]
  <2> HIDE DEF due
  <2> QED BY <1>1, AlarmAssumption DEF Sch!NoAlarm
<1>5. pending' \in [Sch!Tasks -> BOOLEAN]
  <2>1. \A t \in Sch!Tasks : pending[t] \in BOOLEAN
    BY DEF Sch!TypeOK
  <2> HIDE DEF due
  <2> QED BY <1>1, <2>1
<1>6. onCpu' \in Sch!Tasks \cup {Sch!Idle} /\ \A t \in Sch!Tasks : onCpu' = t => s[t] = "running"
  <2>1. R \subseteq Sch!Tasks
    OBVIOUS
  <2>2. CASE R = {}
    <3>1. onCpu' = Sch!Idle
      <4> HIDE DEF R
      <4> QED BY <1>1, <2>2
    <3>2. Sch!Idle \notin Sch!Tasks
      BY LastAssumption DEF Sch!Idle, Sch!Tasks
    <3> QED BY <3>1, <3>2
  <2>3. CASE R # {}
    <3>1. onCpu' = Sch!Pick(R, c)
      BY <1>1, <2>3
    <3>2. onCpu' \in R
      <4> HIDE DEF R, c
      <4> QED BY <1>3, <2>1, <2>3, <3>1, PickType
    <3> QED BY <3>2
  <2> QED BY <2>2, <2>3
<1> QED
  <2> HIDE DEF s, c, sg, R
  <2> QED BY <1>1, <1>2, <1>3, <1>4, <1>5, <1>6 DEF CurrentRuns

-----------------------------------------------------------------------------
\* The initial state.
LEMMA SchedInit == Sch!Init => SchedInv
<1> SUFFICES ASSUME Sch!Init PROVE SchedInv
  OBVIOUS
<1> USE PriorityAssumption, AlarmAssumption, LastAssumption
<1>1. Sch!TypeOK
  BY DEF Sch!Init, Sch!TypeOK, Sch!States, Sch!Modes, Sch!NoAlarm
<1>2. Sch!CounterBound /\ CurrentRuns
  BY DEF Sch!Init, Sch!CounterBound, CurrentRuns, Sch!Idle, Sch!Tasks
<1> QED BY <1>1, <1>2 DEF SchedInv

\* A step that calls schedule() with the types it expects keeps the invariant.
LEMMA ScheduleKeeps ==
  ASSUME SchedInv, NEW st \in [Sch!Tasks -> Sch!States], NEW ct \in [Sch!Tasks -> Counters],
         NEW al \in [Sch!Tasks -> Sch!NoAlarm..MaxAlarm], Sch!Schedule(st, ct, al),
         priority' \in [Sch!Tasks -> 1..MaxPriority], mode' \in [Sch!Tasks -> Sch!Modes]
  PROVE  SchedInv'
<1>1. Sch!TypeOK
  BY DEF SchedInv
<1>2. /\ onCpu' \in Sch!Tasks \cup {Sch!Idle}
      /\ states' \in [Sch!Tasks -> Sch!States]
      /\ counter' \in [Sch!Tasks -> Counters]
      /\ alarm' \in [Sch!Tasks -> Sch!NoAlarm..MaxAlarm]
      /\ pending' \in [Sch!Tasks -> BOOLEAN]
      /\ CurrentRuns'
  BY <1>1, ScheduleEffect
<1>3. counter' \in [Sch!Tasks -> Nat] /\ Sch!CounterBound'
  BY <1>2, PriorityAssumption DEF Counters, Sch!CounterBound
<1> QED BY <1>2, <1>3 DEF SchedInv, Sch!TypeOK

\* Every step keeps it.
LEMMA SchedStep == SchedInv /\ [Sch!Next]_(Sch!vars) => SchedInv'
<1> SUFFICES ASSUME SchedInv, [Sch!Next]_(Sch!vars) PROVE SchedInv'
  OBVIOUS
<1> USE PriorityAssumption, AlarmAssumption, LastAssumption
<1>1. Sch!TypeOK /\ Sch!CounterBound /\ CurrentRuns
  BY DEF SchedInv
<1>2. counter \in [Sch!Tasks -> Counters]
  BY <1>1 DEF Sch!TypeOK, Sch!CounterBound, Counters
<1>3. Sch!Later(alarm) \in [Sch!Tasks -> Sch!NoAlarm..MaxAlarm]
  BY <1>1 DEF Sch!TypeOK, Sch!Later, Sch!NoAlarm, Sch!Due
<1>4. \A t \in Sch!Tasks : Sch!Decremented(t) \in [Sch!Tasks -> Counters]
  BY <1>2 DEF Sch!Decremented, Counters
<1>5. ASSUME NEW t \in Sch!Tasks, NEW s \in Sch!States
      PROVE  [states EXCEPT ![t] = s] \in [Sch!Tasks -> Sch!States]
  BY <1>1 DEF Sch!TypeOK
<1>6. ASSUME NEW t \in Sch!Tasks, NEW m \in Sch!Modes
      PROVE  [mode EXCEPT ![t] = m] \in [Sch!Tasks -> Sch!Modes]
  BY <1>1 DEF Sch!TypeOK
<1>7. /\ states \in [Sch!Tasks -> Sch!States] /\ mode \in [Sch!Tasks -> Sch!Modes]
      /\ alarm \in [Sch!Tasks -> Sch!NoAlarm..MaxAlarm]
      /\ priority \in [Sch!Tasks -> 1..MaxPriority]
  BY <1>1 DEF Sch!TypeOK
<1>8. /\ {"interruptible", "uninterruptible", "zombie", "free"} \subseteq Sch!States
      /\ "ret" \in Sch!Modes
  BY DEF Sch!States, Sch!Modes
<1>9. ASSUME NEW t \in Sch!Tasks, Sch!Tick(t) PROVE SchedInv'
  <2>1. counter' \in [Sch!Tasks -> Counters] /\ alarm' \in [Sch!Tasks -> Sch!NoAlarm..MaxAlarm]
    BY <1>3, <1>4, <1>9 DEF Sch!Tick
  <2>2. counter' \in [Sch!Tasks -> Nat] /\ Sch!CounterBound'
    BY <2>1 DEF Counters, Sch!CounterBound
  <2>3. pending' \in [Sch!Tasks -> BOOLEAN]
    BY <1>1, <1>9 DEF Sch!TypeOK, Sch!Tick
  <2> QED BY <1>1, <1>9, <2>1, <2>2, <2>3 DEF SchedInv, Sch!TypeOK, CurrentRuns, Sch!Tick
<1>10. ASSUME NEW t \in Sch!Tasks, Sch!TickSchedule(t) PROVE SchedInv'
  <2>1. mode' \in [Sch!Tasks -> Sch!Modes] /\ priority' = priority
        /\ Sch!Schedule(states, Sch!Decremented(t), Sch!Later(alarm))
    BY <1>6, <1>8, <1>10 DEF Sch!TickSchedule
  <2> QED BY <1>3, <1>4, <1>7, <2>1, ScheduleKeeps
<1>11. CASE Sch!IdleTick \/ Sch!IdlePause
  <2>1. mode' = mode /\ priority' = priority
        /\ (Sch!Schedule(states, counter, Sch!Later(alarm)) \/ Sch!Schedule(states, counter, alarm))
    BY <1>11 DEF Sch!IdleTick, Sch!IdlePause
  <2> QED BY <1>2, <1>3, <1>7, <2>1, ScheduleKeeps
<1>12. ASSUME NEW t \in Sch!Tasks, Sch!Reschedule(t) PROVE SchedInv'
  <2>1. mode' \in [Sch!Tasks -> Sch!Modes] /\ priority' = priority
        /\ Sch!Schedule(states, counter, alarm)
    BY <1>6, <1>8, <1>12 DEF Sch!Reschedule
  <2> QED BY <1>2, <1>7, <2>1, ScheduleKeeps
<1>13. ASSUME NEW t \in Sch!Tasks, NEW u \in Sch!Tasks, NEW s \in Sch!States,
              Sch!Schedule([states EXCEPT ![u] = s], counter, alarm),
              UNCHANGED <<priority, mode>>
       PROVE  SchedInv'
  BY <1>2, <1>5, <1>7, <1>13, ScheduleKeeps
<1>14. ASSUME NEW t \in Sch!Tasks,
              Sch!Exit(t) \/ \E s \in {"interruptible", "uninterruptible"} : Sch!Block(t, s)
       PROVE  SchedInv'
  BY <1>8, <1>13, <1>14 DEF Sch!Exit, Sch!Block
<1>15. ASSUME NEW t \in Sch!Tasks, NEW z \in Sch!Tasks, Sch!Release(t, z) PROVE SchedInv'
  BY <1>8, <1>13, <1>15 DEF Sch!Release
<1>16. ASSUME NEW t \in Sch!Tasks,
              Sch!SystemCall(t) \/ Sch!Return(t) \/ Sch!WakeUp(t) \/ Sch!Kill(t)
       PROVE  SchedInv'
  BY <1>1, <1>16 DEF SchedInv, Sch!TypeOK, Sch!CounterBound, CurrentRuns, Sch!States, Sch!Modes,
                     Sch!SystemCall, Sch!Return, Sch!WakeUp, Sch!Kill
<1>17. ASSUME NEW t \in Sch!Tasks, NEW n \in {Sch!NoAlarm} \cup 0..MaxAlarm, Sch!Alarm(t, n)
       PROVE  SchedInv'
  BY <1>1, <1>17 DEF SchedInv, Sch!TypeOK, Sch!CounterBound, CurrentRuns, Sch!NoAlarm, Sch!Alarm
<1>18. ASSUME NEW t \in Sch!Tasks, NEW i \in -MaxPriority..MaxPriority, Sch!Nice(t, i)
       PROVE  SchedInv'
  BY <1>1, <1>18 DEF SchedInv, Sch!TypeOK, Sch!CounterBound, CurrentRuns, Sch!Nice
<1>19. ASSUME NEW t \in Sch!Tasks, NEW n \in Sch!Tasks, Sch!Fork(t, n) PROVE SchedInv'
  <2>1. priority[t] \in 1..MaxPriority
    BY <1>1 DEF Sch!TypeOK
  <2>2. Sch!TypeOK'
    BY <1>1, <1>19, <2>1 DEF Sch!TypeOK, Sch!Fork, Sch!NoAlarm, Sch!States, Sch!Modes
  <2>3. Sch!CounterBound' /\ CurrentRuns'
    BY <1>1, <1>19, <2>1 DEF Sch!TypeOK, Sch!CounterBound, CurrentRuns, Sch!Fork
  <2> QED BY <2>2, <2>3 DEF SchedInv
<1>20. CASE UNCHANGED Sch!vars
  BY <1>1, <1>20 DEF SchedInv, Sch!TypeOK, Sch!CounterBound, CurrentRuns, Sch!vars
<1> QED
  BY <1>9, <1>10, <1>11, <1>12, <1>14, <1>15, <1>16, <1>17, <1>18, <1>19, <1>20
  DEF Sch!Next, Sch!Timer, Sch!Forks, Sch!LeaveKernel

-----------------------------------------------------------------------------
\* The invariant of the proof holds in every reachable state.
LEMMA SchedCorrect == SchedSpec => []SchedInv
BY SchedInit, SchedStep, PTL DEF SchedSpec, Sch!Spec

(***************************************************************************)
(* For any number of tasks and any priorities a counter stays below twice  *)
(* the largest priority: sleeping does not gather time slices without      *)
(* bound (sched.c:141-144, 337).                                           *)
(***************************************************************************)
THEOREM CountersBounded == SchedSpec => []CounterBound
<1>1. SchedInv => CounterBound
  BY DEF SchedInv, CounterBound
<1> QED BY <1>1, SchedCorrect, PTL

(***************************************************************************)
(* The processor is only ever given to a runnable task: schedule() never   *)
(* switches to a sleeping, dead or empty slot, and no other task changes   *)
(* the state of the one that runs (sched.c:128-145).                       *)
(***************************************************************************)
THEOREM OnlyRunnableRuns == SchedSpec => []CurrentRuns
<1>1. SchedInv => CurrentRuns
  BY DEF SchedInv
<1> QED BY <1>1, SchedCorrect, PTL

=============================================================================
