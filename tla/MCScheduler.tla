---------------------------- MODULE MCScheduler ----------------------------
(***************************************************************************)
(* Scheduler for TLC and for the proofs.  Its variables have names of      *)
(* their own here, so that SchedProofs can be about the wait queues as     *)
(* well, the other half of kernel/sched.c, which does not share them.      *)
(***************************************************************************)
EXTENDS Integers

CONSTANTS LastTask, MaxPriority, InitPriority, MaxAlarm

ASSUME LastAssumption == LastTask \in Nat \ {0}
ASSUME PriorityAssumption == /\ MaxPriority \in Nat \ {0}
                             /\ InitPriority \in 1..MaxPriority
ASSUME AlarmAssumption == MaxAlarm \in Nat

VARIABLES onCpu,         \* current
          states,        \* state
          pending,       \* signal
          counter, priority, alarm, mode

Sch == INSTANCE Scheduler WITH current <- onCpu, state <- states, signal <- pending

SchedSpec == Sch!Spec

FairSchedSpec == Sch!FairSpec

\* CounterBound of Scheduler: sleeping does not gather time slices without
\* bound (sched.c:142, 337).
CounterBound == Sch!CounterBound

\* NoStarvation of Scheduler: a task that stays runnable is given the
\* processor, if tasks stop being created (sched.c:128-145).
NoStarvation == Sch!NoStarvation

\* AlarmWakes of Scheduler: the alarm of a task that sleeps in pause() is seen
\* whatever the others do (sched.c:113-124).
AlarmWakes == Sch!AlarmWakes

=============================================================================
