--------------------------- MODULE ProcessProofs ---------------------------
(***************************************************************************)
(* What is proved of processes, for any size of the task table, any number *)
(* of pids greater than it and any set of signals: pids are used again     *)
(* without confusion, nobody loses its father, and no zombie is missed.    *)
(***************************************************************************)
EXTENDS Process, FiniteSetTheorems, WellFoundedInduction, TLAPS

Record == [pc : {"none", "user", "pause", "wait", "exit", "zombie"},
           pid : 0..MaxPid, father : 0..MaxPid, signal : SUBSET Signals,
           blocked : SUBSET Signals,
           arg : {AnyChild} \cup 0..MaxPid, child : 0..MaxPid]

(***************************************************************************)
(* init never dies: nobody may send it a signal, and the only one that the *)
(* kernel sends is SIGCHLD, which it ignores.                              *)
(***************************************************************************)
InitLives ==
  /\ task[InitSlot].pc \in {"user", "wait"}
  /\ task[InitSlot].pid = 1 /\ task[InitSlot].father = 0
  /\ task[InitSlot].signal \subseteq {SIGCHLD}

\* A pid belongs to one task, a zombie included.
PidsDiffer ==
  /\ \A i \in Slots : task[i].pc # "none" => task[i].pid \in Pids
  /\ \A i, j \in Slots : task[i].pc # "none" /\ task[j].pc # "none"
                         /\ task[i].pid = task[j].pid => i = j

\* The father of a task lives, and has not begun to exit.
FatherLives ==
  \A i \in Slots \ {InitSlot} :
    task[i].pc # "none" =>
      \E f \in Slots : /\ task[f].pc \in {"user", "pause", "wait"}
                       /\ task[f].pid = task[i].father

\* NoZombieMissed, of a father and a child
ZombieTold ==
  \A t, i \in Slots :
    /\ task[t].pc = "wait" /\ i # t /\ task[i].pc = "zombie"
    /\ task[i].father = task[t].pid
    /\ task[t].arg = AnyChild \/ task[i].pid = task[t].arg
    => SIGCHLD \in task[t].signal

ProcInv == TypeOK /\ InitLives /\ PidsDiffer /\ FatherLives /\ ZombieTold

-----------------------------------------------------------------------------
(* find_empty_process() finds a pid.                                       *)

Before == {p \in Nat \X Nat : p[1] < p[2]}

\* A set of natural numbers has a least element.
LEMMA Least ==
  ASSUME NEW S, S \subseteq Nat, S # {}
  PROVE  \E n \in S : \A m \in S : n <= m
<1>1. IsWellFoundedOn(Before, Nat)
  BY NatLessThanWellFounded DEF OpToRel, Before
<1>2. PICK n \in S : \A m \in S : <<m, n>> \notin Before
  BY <1>1, WFMin
<1>3. \A m \in S : ~(m < n)
  BY <1>2 DEF Before
<1> QED BY <1>3

\* There are more pids than tasks, so one of them is free.
LEMMA FreePid ==
  ASSUME TypeOK
  PROVE  \E p \in Pids : ~PidUsed(p)
<1> SUFFICES ASSUME \A p \in Pids : PidUsed(p) PROVE FALSE
  OBVIOUS
<1> DEFINE T == {task[i].pid : i \in Slots}
           f == [i \in Slots |-> task[i].pid]
<1>1. Pids \subseteq T
  BY DEF PidUsed, Used
<1>2. IsFiniteSet(Slots) /\ Cardinality(Slots) = LastTask
  BY TaskAssumption, FS_Interval DEF Slots
<1>3. f \in Surjection(Slots, T)
  BY DEF Surjection
<1>4. IsFiniteSet(T) /\ Cardinality(T) <= LastTask
  <2> HIDE DEF f, T
  <2> QED BY <1>2, <1>3, FS_Surjection
<1>5. Cardinality(Pids) = MaxPid
  BY PidAssumption, TaskAssumption, FS_Interval DEF Pids
<1>6. Cardinality(Pids) <= Cardinality(T) /\ Cardinality(T) \in Nat
  <2> HIDE DEF T
  <2> QED BY <1>1, <1>4, FS_Subset, FS_CardinalityType
<1> QED
  <2> HIDE DEF T
  <2> QED BY <1>4, <1>5, <1>6, PidAssumption, TaskAssumption

\* Counting on from last_pid, with the overflow to 1, comes to every pid.
LEMMA AfterAll ==
  ASSUME TypeOK
  PROVE  /\ \A n \in 1..MaxPid : After(n) \in Pids
         /\ \A p \in Pids : \E n \in 1..MaxPid : After(n) = p
<1>1. MaxPid \in Nat \ {0} /\ last_pid \in 0..MaxPid
  BY PidAssumption, TaskAssumption DEF TypeOK
<1>2. \A m \in Nat : m % MaxPid \in 0..MaxPid - 1
  BY <1>1
<1>3. ASSUME NEW n \in 1..MaxPid PROVE After(n) \in Pids
  <2>1. last_pid + n - 1 \in Nat
    BY <1>1
  <2>2. (last_pid + n - 1) % MaxPid \in 0..MaxPid - 1
    BY <1>2, <2>1
  <2> QED BY <1>1, <2>2 DEF After, Pids
<1>4. ASSUME NEW a \in 0..MaxPid - 1
      PROVE  a % MaxPid = a /\ (a + MaxPid) % MaxPid = a
  BY <1>1
<1>5. ASSUME NEW p \in Pids PROVE \E n \in 1..MaxPid : After(n) = p
  <2>0. p \in 1..MaxPid
    BY DEF Pids
  <2>1. CASE p > last_pid
    <3>1. p - last_pid \in 1..MaxPid /\ last_pid + (p - last_pid) - 1 = p - 1
      BY <1>1, <2>0, <2>1
    <3>2. (p - 1) % MaxPid = p - 1
      BY <1>1, <1>4, <2>0
    <3>3. After(p - last_pid) = p
      BY <1>1, <2>0, <3>1, <3>2 DEF After
    <3> QED BY <3>1, <3>3
  <2>2. CASE p <= last_pid
    <3> DEFINE n == p - last_pid + MaxPid
    <3>1. n \in 1..MaxPid /\ last_pid + n - 1 = (p - 1) + MaxPid
      BY <1>1, <2>0, <2>2
    <3>2. ((p - 1) + MaxPid) % MaxPid = p - 1
      BY <1>1, <1>4, <2>0
    <3>3. After(n) = p
      <4> HIDE DEF n
      <4> QED BY <1>1, <2>0, <3>1, <3>2 DEF After
    <3> QED BY <3>1, <3>3
  <2> QED BY <1>1, <2>0, <2>1, <2>2
<1> QED BY <1>3, <1>5

\* The pid of a new process is one that no task has.
LEMMA NextPidFree ==
  ASSUME TypeOK
  PROVE  NextPid \in Pids /\ ~PidUsed(NextPid)
<1> DEFINE P(n) == /\ ~PidUsed(After(n))
                   /\ \A m \in 1..(n - 1) : PidUsed(After(m))
           S == {n \in 1..MaxPid : ~PidUsed(After(n))}
<1>1. S \subseteq Nat /\ S # {}
  <2>1. PICK p \in Pids : ~PidUsed(p)
    BY FreePid
  <2>2. PICK n \in 1..MaxPid : After(n) = p
    BY <2>1, AfterAll
  <2>3. n \in S
    BY <2>1, <2>2
  <2> QED BY <2>3
<1>2. PICK n \in S : \A m \in S : n <= m
  <2> HIDE DEF S
  <2> QED BY <1>1, Least
<1>3. n \in 1..MaxPid /\ P(n)
  BY <1>2, PidAssumption
<1> DEFINE N == CHOOSE k \in 1..MaxPid : P(k)
<1>4. N \in 1..MaxPid /\ P(N)
  <2> HIDE DEF P
  <2> QED BY <1>3
<1>5. NextPid = After(N)
  BY DEF NextPid
<1> HIDE DEF N
<1> QED BY <1>4, <1>5, AfterAll
-----------------------------------------------------------------------------
(* Steps that change one task, or only signals.                            *)

Live == {"user", "pause", "wait"}

\* A step that neither makes nor frees a task, and ends nobody's life, leaves
\* the families as they are.
LEMMA FamilyKept ==
  ASSUME PidsDiffer, FatherLives,
         \A i \in Slots : /\ task'[i].pid = task[i].pid /\ task'[i].father = task[i].father
                          /\ task'[i].pc = "none" <=> task[i].pc = "none"
                          /\ task[i].pc \in Live => task'[i].pc \in Live
  PROVE  PidsDiffer' /\ FatherLives'
<1>1. PidsDiffer'
  BY DEF PidsDiffer
<1>2. FatherLives'
  BY DEF FatherLives, Live
<1> QED BY <1>1, <1>2

\* One task moves between user mode, pause() and waitpid(), and its signals,
\* its mask or the argument of waitpid() change.
LEMMA OneTaskStep ==
  ASSUME ProcInv, NEW t \in Slots, NEW r \in Record,
         task' = [task EXCEPT ![t] = r], last_pid' = last_pid,
         task[t].pc \in Live, r.pc \in Live,
         r.pid = task[t].pid, r.father = task[t].father,
         t = InitSlot => r.pc # "pause" /\ r.signal \subseteq {SIGCHLD},
         r.pc = "wait" =>
           \A i \in Slots \ {t} : /\ task[i].pc = "zombie" /\ task[i].father = r.pid
                                  /\ r.arg = AnyChild \/ task[i].pid = r.arg
                                  => SIGCHLD \in r.signal
  PROVE  ProcInv'
<1>1. task \in [Slots -> Record]
  BY DEF ProcInv, TypeOK, Record
<1>2. task' \in [Slots -> Record] /\ task'[t] = r /\ \A i \in Slots \ {t} : task'[i] = task[i]
  BY <1>1
<1>3. TypeOK'
  BY <1>2 DEF ProcInv, TypeOK, Record
<1>4. InitLives'
  <2>1. InitSlot \in Slots
    BY TaskAssumption DEF InitSlot, Slots
  <2>2. CASE t = InitSlot
    BY <1>2, <2>2 DEF ProcInv, InitLives, Live
  <2>3. CASE t # InitSlot
    BY <1>2, <2>1, <2>3 DEF ProcInv, InitLives
  <2> QED BY <2>2, <2>3
<1>5. PidsDiffer' /\ FatherLives'
  <2>1. \A i \in Slots : /\ task'[i].pid = task[i].pid /\ task'[i].father = task[i].father
                         /\ task'[i].pc = "none" <=> task[i].pc = "none"
                         /\ task[i].pc \in Live => task'[i].pc \in Live
    BY <1>2 DEF Live
  <2> QED BY <2>1, FamilyKept DEF ProcInv
<1>6. ZombieTold'
  BY <1>2 DEF ProcInv, ZombieTold, Live
<1> QED BY <1>3, <1>4, <1>5, <1>6 DEF ProcInv

\* sys_kill() adds signals to tasks that are not init.
LEMMA KillStep ==
  ASSUME ProcInv, NEW t \in Slots, NEW pid \in Pids, NEW sig \in Signals,
         Kill(t, pid, sig)
  PROVE  ProcInv'
<1>1. task \in [Slots -> Record] /\ InitSlot \in Slots
  BY TaskAssumption DEF ProcInv, TypeOK, Record, InitSlot, Slots
<1>2. ASSUME NEW i \in Slots
      PROVE  /\ task'[i] \in Record
             /\ task'[i].pid = task[i].pid /\ task'[i].father = task[i].father
             /\ task'[i].pc = task[i].pc /\ task'[i].arg = task[i].arg
             /\ task[i].signal \subseteq task'[i].signal
             /\ i = InitSlot => task'[i] = task[i]
  <2>1. task'[i] = task[i] \/ (i # InitSlot
                               /\ task'[i] = [task[i] EXCEPT !.signal = @ \cup {sig}])
    BY DEF Kill
  <2>2. task[i] \in Record
    BY <1>1
  <2> QED BY <2>1, <2>2 DEF Record
<1>3. task' \in [Slots -> Record] /\ last_pid' = last_pid
  <2>1. task' = [i \in Slots |-> task'[i]]
    BY DEF Kill
  <2> QED BY <1>2, <2>1 DEF Kill
<1>4. TypeOK' /\ InitLives'
  BY <1>1, <1>2, <1>3 DEF ProcInv, TypeOK, Record, InitLives
<1>5. PidsDiffer' /\ FatherLives'
  BY <1>2, FamilyKept DEF ProcInv
<1>6. ZombieTold'
  BY <1>2 DEF ProcInv, ZombieTold
<1> QED BY <1>4, <1>5, <1>6 DEF ProcInv

-----------------------------------------------------------------------------
(* fork(), exit() and waitpid().                                           *)

\* A new process, by fork() of init or of another task: its pid is new, and
\* its father is the task that called fork().
LEMMA ForkStep ==
  ASSUME ProcInv, NEW t \in Slots, task[t].pc \in Live, NEW i \in EmptySlot,
         last_pid' = NextPid,
         \/ /\ t # InitSlot
            /\ task' = [task EXCEPT ![i] = Child(t, NextPid)]
         \/ /\ t = InitSlot
            /\ task' = [task EXCEPT ![i] = Child(t, NextPid), ![t].child = NextPid]
  PROVE  ProcInv'
<1>1. /\ task \in [Slots -> Record] /\ task[t] \in Record /\ InitSlot \in Slots
      /\ i \in Slots /\ task[i].pc = "none" /\ i # t /\ i # InitSlot
  BY SMTT(30), TaskAssumption DEF ProcInv, TypeOK, Record, InitSlot, Slots, EmptySlot, Used, Live,
     InitLives
<1>2. NextPid \in Pids /\ \A j \in Slots : task[j].pc # "none" => task[j].pid # NextPid
  BY NextPidFree DEF ProcInv, PidUsed, Used
<1>3. NextPid \in 0..MaxPid
  BY <1>2, PidAssumption DEF Pids
<1> DEFINE c == Child(t, NextPid)
<1>4. c \in Record /\ c.pc = "user" /\ c.pid = NextPid /\ c.father = task[t].pid
  <2> DEFINE s == [task[t] EXCEPT !.pc = "user", !.pid = NextPid, !.father = task[t].pid]
  <2>1. task[t].pid \in 0..MaxPid /\ 0 \in 0..MaxPid /\ {} \in SUBSET Signals
    BY <1>1, PidAssumption DEF Record
  <2>2. /\ s \in Record /\ s.pc = "user" /\ s.pid = NextPid /\ s.father = task[t].pid
    BY <1>1, <1>3, <2>1 DEF Record
  <2>3. c = [s EXCEPT !.signal = {}, !.child = 0]
    BY DEF Child
  <2> HIDE DEF c, s
  <2> QED BY <2>1, <2>2, <2>3 DEF Record
<1> DEFINE r == IF t = InitSlot THEN [task[t] EXCEPT !.child = NextPid] ELSE task[t]
<1>5. /\ r \in Record /\ r.pc = task[t].pc /\ r.pid = task[t].pid
      /\ r.father = task[t].father /\ r.signal = task[t].signal /\ r.arg = task[t].arg
  BY <1>1, <1>3 DEF Record
<1>6. task' = [task EXCEPT ![i] = c, ![t] = r]
  <2> HIDE DEF c
  <2> QED BY <1>1 DEF c
<1> HIDE DEF c, r
<1>7. /\ task' \in [Slots -> Record] /\ task'[i] = c /\ task'[t] = r
      /\ \A j \in Slots \ {i, t} : task'[j] = task[j]
  BY <1>1, <1>4, <1>5, <1>6
<1>8. ASSUME NEW j \in Slots, j # i
      PROVE  /\ task'[j].pc = task[j].pc /\ task'[j].pid = task[j].pid
             /\ task'[j].father = task[j].father /\ task'[j].signal = task[j].signal
             /\ task'[j].arg = task[j].arg
  BY <1>5, <1>7, <1>8
<1>9. TypeOK'
  BY <1>3, <1>7 DEF ProcInv, TypeOK, Record
<1>10. InitLives'
  BY <1>1, <1>8 DEF ProcInv, InitLives
<1>11. PidsDiffer'
  BY <1>2, <1>4, <1>7, <1>8 DEF ProcInv, PidsDiffer
<1>12. FatherLives'
  <2> SUFFICES ASSUME NEW j \in Slots \ {InitSlot}, task'[j].pc # "none"
               PROVE  \E f \in Slots : /\ task'[f].pc \in {"user", "pause", "wait"}
                                       /\ task'[f].pid = task'[j].father
    BY DEF FatherLives
  <2>1. CASE j = i
    BY <1>1, <1>4, <1>7, <1>8, <2>1 DEF Live
  <2>2. CASE j # i
    <3>1. PICK f \in Slots : /\ task[f].pc \in {"user", "pause", "wait"}
                             /\ task[f].pid = task[j].father
      BY <1>8, <2>2 DEF ProcInv, FatherLives
    <3>2. f # i
      BY <1>1, <3>1
    <3> QED BY <1>8, <2>2, <3>1, <3>2
  <2> QED BY <2>1, <2>2
<1>13. ZombieTold'
  BY <1>4, <1>7, <1>8 DEF ProcInv, ZombieTold
<1> QED BY <1>9, <1>10, <1>11, <1>12, <1>13 DEF ProcInv

\* The first part of do_exit(): the children go to init, which lives.
LEMMA BeginExitStep ==
  ASSUME ProcInv, NEW t \in Slots, task[t].pc \in Live, t # InitSlot,
         BeginExit(t), last_pid' = last_pid
  PROVE  ProcInv'
<1>1. /\ task \in [Slots -> Record] /\ task[t] \in Record /\ InitSlot \in Slots
  BY TaskAssumption DEF ProcInv, TypeOK, Record, InitSlot, Slots
<1> DEFINE dead == [NoTask EXCEPT !.pc = "exit", !.pid = task[t].pid,
                                  !.father = task[t].father]
           T == [task EXCEPT ![t] = dead]
           children == {i \in Slots : T[i].pc # "none" /\ T[i].father = T[t].pid}
           told == \E i \in children : T[i].pc = "zombie"
<1>2. /\ dead \in Record /\ dead.pc = "exit" /\ dead.pid = task[t].pid
      /\ dead.father = task[t].father
  <2>1. task[t].pid \in 0..MaxPid /\ task[t].father \in 0..MaxPid /\ 0 \in 0..MaxPid
    BY <1>1, PidAssumption DEF Record
  <2>2. NoTask \in Record
    BY <2>1 DEF NoTask, Record
  <2> QED BY <2>1, <2>2 DEF Record
<1> HIDE DEF dead
<1>3. T \in [Slots -> Record] /\ T[t] = dead /\ \A i \in Slots \ {t} : T[i] = task[i]
  BY <1>1, <1>2
<1>4. task' = [i \in Slots |->
                 IF i \in children THEN [T[i] EXCEPT !.father = 1]
                 ELSE IF i = InitSlot /\ told THEN [T[i] EXCEPT !.signal = @ \cup {SIGCHLD}]
                 ELSE T[i]]
  BY DEF BeginExit, Reparent, dead
<1> HIDE DEF T
<1>5. InitSlot \notin children
  BY <1>2, <1>3 DEF ProcInv, InitLives, PidsDiffer, Pids, Live
<1>6. ASSUME NEW i \in Slots
      PROVE  /\ task'[i] \in Record
             /\ task'[i].pc = T[i].pc /\ task'[i].pid = T[i].pid
             /\ task'[i].arg = T[i].arg
             /\ task'[i].father = IF i \in children THEN 1 ELSE T[i].father
             /\ T[i].signal \subseteq task'[i].signal
             /\ i = InitSlot /\ told => SIGCHLD \in task'[i].signal
             /\ task'[i].signal \subseteq T[i].signal \cup {SIGCHLD}
  <2>1. T[i] \in Record /\ 1 \in 0..MaxPid /\ SIGCHLD \in Signals
    BY <1>3, PidAssumption, TaskAssumption, SignalAssumption
  <2> HIDE DEF children, told
  <2>2. CASE i \in children
    <3>1. task'[i] = [T[i] EXCEPT !.father = 1]
      BY <1>4, <2>2
    <3> QED BY <1>5, <2>1, <2>2, <3>1 DEF Record
  <2>3. CASE i \notin children /\ i = InitSlot /\ told
    <3>1. task'[i] = [T[i] EXCEPT !.signal = T[i].signal \cup {SIGCHLD}]
      BY <1>4, <2>3
    <3> QED BY <2>1, <2>3, <3>1 DEF Record
  <2>4. CASE i \notin children /\ ~(i = InitSlot /\ told)
    <3>1. task'[i] = T[i]
      BY <1>4, <2>4
    <3> QED BY <2>1, <2>4, <3>1
  <2> QED BY <2>2, <2>3, <2>4
<1>7. TypeOK'
  <2>1. task' \in [Slots -> Record]
    <3> HIDE DEF children, told
    <3> QED BY <1>4, <1>6
  <2> QED BY <2>1 DEF ProcInv, TypeOK, Record
<1>8. InitLives'
  <2> HIDE DEF children, told
  <2> QED BY <1>1, <1>3, <1>5, <1>6 DEF ProcInv, InitLives
<1>9. PidsDiffer'
  <2> HIDE DEF children, told
  <2> QED BY <1>2, <1>3, <1>6 DEF ProcInv, PidsDiffer, Live
<1>10. FatherLives'
  <2> SUFFICES ASSUME NEW j \in Slots \ {InitSlot}, task'[j].pc # "none"
               PROVE  \E f \in Slots : /\ task'[f].pc \in {"user", "pause", "wait"}
                                       /\ task'[f].pid = task'[j].father
    BY DEF FatherLives
  <2>1. CASE j \in children
    <3>1. task'[j].father = 1 /\ task'[InitSlot].pid = 1
      <4> HIDE DEF children, told
      <4> QED BY <1>6, <1>8, <2>1 DEF InitLives
    <3> QED BY <1>1, <1>8, <3>1 DEF InitLives
  <2>2. CASE j \notin children
    <3>1. /\ T[j].pc # "none" /\ T[j].father = task[j].father
          /\ task[j].pc # "none" /\ T[j].father # task[t].pid
          /\ task'[j].father = task[j].father
      <4>1. task'[j].pc = T[j].pc /\ task'[j].father = T[j].father
        <5> HIDE DEF children, told
        <5> QED BY <1>6, <2>2
      <4> QED BY <1>2, <1>3, <2>2, <4>1 DEF Live
    <3>2. PICK f \in Slots : /\ task[f].pc \in {"user", "pause", "wait"}
                             /\ task[f].pid = task[j].father
      BY <3>1 DEF ProcInv, FatherLives
    <3>3. f # t
      BY <3>1, <3>2
    <3>4. task'[f].pc = task[f].pc /\ task'[f].pid = task[f].pid
      <4> HIDE DEF children, told
      <4> QED BY <1>3, <1>6, <3>3
    <3> QED BY <3>1, <3>2, <3>4
  <2> QED BY <2>1, <2>2
<1>11. ZombieTold'
  <2> SUFFICES ASSUME NEW f \in Slots, NEW i \in Slots,
                      task'[f].pc = "wait", i # f, task'[i].pc = "zombie",
                      task'[i].father = task'[f].pid,
                      task'[f].arg = AnyChild \/ task'[i].pid = task'[f].arg
               PROVE  SIGCHLD \in task'[f].signal
    BY DEF ZombieTold
  <2>1. f # t /\ i # t /\ T[f] = task[f] /\ T[i] = task[i]
        /\ task[f].pc = "wait" /\ task[i].pc = "zombie"
    <3> HIDE DEF children, told
    <3> QED BY <1>2, <1>3, <1>6
  <2>2. CASE i \in children
    <3>1. task'[f].pid = 1 /\ told
      <4>1. told
        BY <2>1, <2>2
      <4> HIDE DEF children, told
      <4> QED BY <1>6, <2>2, <4>1
    <3>2. f = InitSlot
      BY <1>1, <1>8, <1>9, <3>1, <2>1 DEF PidsDiffer, InitLives
    <3> HIDE DEF children, told
    <3> QED BY <1>6, <3>1, <3>2
  <2>3. CASE i \notin children
    <3>1. /\ task[i].father = task[f].pid /\ task[f].arg = task'[f].arg
          /\ task[i].pid = task'[i].pid
      <4> HIDE DEF children, told
      <4> QED BY <1>6, <2>1, <2>3
    <3>2. SIGCHLD \in task[f].signal
      BY <2>1, <3>1 DEF ProcInv, ZombieTold
    <3> HIDE DEF children, told
    <3> QED BY <1>6, <2>1, <3>2
  <2> QED BY <2>2, <2>3
<1> QED BY <1>7, <1>8, <1>9, <1>10, <1>11 DEF ProcInv

\* The rest of do_exit(): the father, who lives, is told.
LEMMA FinishExitStep ==
  ASSUME ProcInv, NEW t \in Slots, FinishExit(t)
  PROVE  ProcInv'
<1>1. /\ task \in [Slots -> Record] /\ task[t] \in Record /\ InitSlot \in Slots
      /\ task[t].pc = "exit" /\ t # InitSlot
  BY TaskAssumption DEF ProcInv, TypeOK, Record, InitSlot, Slots, FinishExit, InitLives
<1> DEFINE fathers == {i \in Used : task[i].pid = task[t].father}
<1>2. PICK g \in Slots : task[g].pc \in Live /\ task[g].pid = task[t].father
  BY <1>1 DEF ProcInv, FatherLives, Live
<1>3. fathers = {g}
  BY <1>2 DEF ProcInv, PidsDiffer, Used, Live
<1>4. g \in Slots /\ g # t /\ task[g] \in Record /\ g <= g
  BY <1>1, <1>2 DEF Live, Slots
<1> DEFINE f == CHOOSE i \in fathers : \A j \in fathers : i <= j
<1>5. f = g
  BY <1>3, <1>4
<1>6. task' = [task EXCEPT ![t].pc = "zombie", ![f].signal = @ \cup {SIGCHLD}]
  BY <1>3 DEF FinishExit, TellFather
<1> HIDE DEF f, fathers
<1> DEFINE z == [task[t] EXCEPT !.pc = "zombie"]
           h == [task[g] EXCEPT !.signal = task[g].signal \cup {SIGCHLD}]
<1>7. /\ z \in Record /\ z.pc = "zombie" /\ z.pid = task[t].pid
      /\ z.father = task[t].father
  BY <1>1 DEF Record
<1>8. /\ h \in Record /\ h.pc = task[g].pc /\ h.pid = task[g].pid
      /\ h.father = task[g].father /\ h.arg = task[g].arg
      /\ h.signal = task[g].signal \cup {SIGCHLD}
  BY <1>4, SignalAssumption DEF Record
<1>9. task' = [task EXCEPT ![t] = z, ![g] = h]
  BY <1>1, <1>4, <1>5, <1>6
<1> HIDE DEF z, h
<1>10. /\ task' \in [Slots -> Record] /\ task'[t] = z /\ task'[g] = h
       /\ \A j \in Slots \ {t, g} : task'[j] = task[j]
  BY <1>1, <1>4, <1>7, <1>8, <1>9
<1>11. TypeOK'
  BY <1>10 DEF ProcInv, TypeOK, Record, FinishExit
<1>12. InitLives'
  <2>1. CASE g = InitSlot
    BY <1>8, <1>10, <2>1 DEF ProcInv, InitLives
  <2>2. CASE g # InitSlot
    BY <1>1, <1>10, <2>2 DEF ProcInv, InitLives
  <2> QED BY <2>1, <2>2
<1>13. PidsDiffer' /\ FatherLives'
  <2>1. \A i \in Slots : /\ task'[i].pid = task[i].pid /\ task'[i].father = task[i].father
                         /\ task'[i].pc = "none" <=> task[i].pc = "none"
                         /\ task[i].pc \in Live => task'[i].pc \in Live
    BY <1>1, <1>2, <1>7, <1>8, <1>10 DEF Live
  <2> QED BY <2>1, FamilyKept DEF ProcInv
<1>14. ZombieTold'
  <2> SUFFICES ASSUME NEW u \in Slots, NEW i \in Slots,
                      task'[u].pc = "wait", i # u, task'[i].pc = "zombie",
                      task'[i].father = task'[u].pid,
                      task'[u].arg = AnyChild \/ task'[i].pid = task'[u].arg
               PROVE  SIGCHLD \in task'[u].signal
    BY DEF ZombieTold
  <2>1. CASE u = g
    BY <1>8, <1>10, <2>1
  <2>2. CASE u # g
    <3>1. u # t /\ task'[u] = task[u]
      BY <1>7, <1>10, <2>2
    <3>2. i # t
      BY <1>2, <1>4, <1>7, <1>10, <2>2, <3>1 DEF ProcInv, PidsDiffer, Live
    <3>3. task'[i].pc = task[i].pc /\ task'[i].father = task[i].father
          /\ task'[i].pid = task[i].pid
      BY <1>8, <1>10, <3>2
    <3> QED BY <3>1, <3>3 DEF ProcInv, ZombieTold
  <2> QED BY <2>1, <2>2
<1> QED BY <1>11, <1>12, <1>13, <1>14 DEF ProcInv

\* waitpid() releases a zombie: it is nobody's father.
LEMMA ReapStep ==
  ASSUME ProcInv, NEW t \in Slots, task[t].pc \in Live, NEW i \in Slots, i # t,
         task[i].pc = "zombie", NEW S, S \subseteq task[t].signal,
         task' = [Reaped(t, i) EXCEPT ![t].signal = S], last_pid' = last_pid
  PROVE  ProcInv'
<1>1. /\ task \in [Slots -> Record] /\ task[t] \in Record /\ InitSlot \in Slots
      /\ i # InitSlot
  BY TaskAssumption, SMTT(30) DEF ProcInv, TypeOK, Record, InitSlot, Slots, InitLives
<1> DEFINE ch == IF task[i].pid = task[t].child THEN 0 ELSE task[t].child
           r == [task[t] EXCEPT !.pc = "user", !.arg = 0, !.child = ch, !.signal = S]
<1>2. NoTask \in Record /\ NoTask.pc = "none"
  <2>1. 0 \in 0..MaxPid
    BY PidAssumption
  <2> QED BY <2>1 DEF NoTask, Record
<1>3. /\ r \in Record /\ r.pc = "user" /\ r.pid = task[t].pid /\ r.father = task[t].father
      /\ r.signal = S
  <2>1. ch \in 0..MaxPid /\ 0 \in 0..MaxPid /\ S \in SUBSET Signals
    BY <1>1, PidAssumption DEF Record
  <2> HIDE DEF ch
  <2> DEFINE s == [task[t] EXCEPT !.pc = "user", !.arg = 0]
  <2>2. /\ s \in Record /\ s.pc = "user" /\ s.pid = task[t].pid
        /\ s.father = task[t].father
    BY <1>1, <2>1 DEF Record
  <2>3. r = [s EXCEPT !.child = ch, !.signal = S]
    OBVIOUS
  <2> HIDE DEF r, s
  <2> QED BY <2>1, <2>2, <2>3 DEF Record
<1>4. task' = [task EXCEPT ![i] = NoTask, ![t] = r]
  BY <1>1 DEF Reaped
<1> HIDE DEF r
<1>5. /\ task' \in [Slots -> Record] /\ task'[i].pc = "none" /\ task'[t] = r
      /\ \A j \in Slots \ {t, i} : task'[j] = task[j]
  BY <1>1, <1>2, <1>3, <1>4
<1>6. ASSUME NEW j \in Slots, task'[j].pc # "none"
      PROVE  /\ j # i /\ task[j].pc # "none"
             /\ task'[j].pid = task[j].pid /\ task'[j].father = task[j].father
             /\ task[j].pc \in Live => task'[j].pc \in Live
             /\ task'[j].pc = task[j].pc \/ task'[j].pc = "user"
  BY <1>3, <1>5, <1>6 DEF Live
<1>7. TypeOK'
  BY <1>5 DEF ProcInv, TypeOK, Record
<1>8. InitLives'
  <2>1. CASE t = InitSlot
    BY <1>3, <1>5, <2>1 DEF ProcInv, InitLives
  <2>2. CASE t # InitSlot
    BY <1>1, <1>5, <2>2 DEF ProcInv, InitLives
  <2> QED BY <2>1, <2>2
<1>9. PidsDiffer'
  BY <1>6 DEF ProcInv, PidsDiffer
<1>10. FatherLives'
  <2> SUFFICES ASSUME NEW j \in Slots \ {InitSlot}, task'[j].pc # "none"
               PROVE  \E f \in Slots : /\ task'[f].pc \in {"user", "pause", "wait"}
                                       /\ task'[f].pid = task'[j].father
    BY DEF FatherLives
  <2>1. PICK f \in Slots : /\ task[f].pc \in {"user", "pause", "wait"}
                           /\ task[f].pid = task[j].father
    BY <1>6 DEF ProcInv, FatherLives
  <2>2. f # i
    BY <2>1
  <2>3. task'[f].pc \in Live /\ task'[f].pid = task[f].pid
    BY <1>3, <1>5, <2>1, <2>2 DEF Live
  <2> QED BY <1>6, <2>1, <2>3 DEF Live
<1>11. ZombieTold'
  <2> SUFFICES ASSUME NEW u \in Slots, NEW j \in Slots,
                      task'[u].pc = "wait", j # u, task'[j].pc = "zombie",
                      task'[j].father = task'[u].pid,
                      task'[u].arg = AnyChild \/ task'[j].pid = task'[u].arg
               PROVE  SIGCHLD \in task'[u].signal
    BY DEF ZombieTold
  <2>1. u # t /\ u # i /\ j # t /\ j # i
    BY <1>3, <1>5
  <2>2. task'[u] = task[u] /\ task'[j] = task[j]
    BY <1>5, <2>1
  <2> QED BY <2>2 DEF ProcInv, ZombieTold
<1> QED BY <1>7, <1>8, <1>9, <1>10, <1>11 DEF ProcInv

\* waitpid(), when it is called and when it goes on after SIGCHLD
LEMMA RepeatStep ==
  ASSUME ProcInv, NEW t \in Slots, task[t].pc \in Live,
         NEW pid \in {AnyChild} \cup 0..MaxPid, NEW S, S \subseteq task[t].signal,
         Repeat(t, pid, S), last_pid' = last_pid
  PROVE  ProcInv'
<1>1. /\ task \in [Slots -> Record] /\ task[t] \in Record
  BY DEF ProcInv, TypeOK, Record
<1>2. S \in SUBSET Signals /\ 0 \in 0..MaxPid /\ (t = InitSlot => S \subseteq {SIGCHLD})
  BY <1>1, PidAssumption DEF Record, ProcInv, InitLives
<1>3. CASE \E i \in Zombies(t, pid) : task' = [Reaped(t, i) EXCEPT ![t].signal = S]
  <2>1. PICK i \in Zombies(t, pid) : task' = [Reaped(t, i) EXCEPT ![t].signal = S]
    BY <1>3
  <2>2. i \in Slots /\ i # t /\ task[i].pc = "zombie"
    BY DEF Zombies, Children, Used
  <2> QED BY <2>1, <2>2, ReapStep
<1>4. CASE /\ Zombies(t, pid) = {}
           /\ task' = [task EXCEPT ![t].pc = "wait", ![t].arg = pid, ![t].signal = S]
  <2> DEFINE r == [task[t] EXCEPT !.pc = "wait", !.arg = pid, !.signal = S]
  <2>1. /\ r \in Record /\ r.pc = "wait" /\ r.pid = task[t].pid
        /\ r.father = task[t].father /\ r.signal = S /\ r.arg = pid
    BY <1>1, <1>2 DEF Record
  <2>2. task' = [task EXCEPT ![t] = r]
    BY <1>1, <1>4
  <2> HIDE DEF r
  <2>3. \A i \in Slots \ {t} : ~(/\ task[i].pc = "zombie" /\ task[i].father = r.pid
                                 /\ r.arg = AnyChild \/ task[i].pid = r.arg)
    BY <1>4, <2>1 DEF Zombies, Children, Used
  <2>4. r.pc \in Live /\ (t = InitSlot => r.pc # "pause" /\ r.signal \subseteq {SIGCHLD})
    BY <1>2, <2>1 DEF Live
  <2> QED BY <2>1, <2>2, <2>3, <2>4, OneTaskStep
<1>5. CASE task' = [task EXCEPT ![t].pc = "user", ![t].arg = 0, ![t].signal = S]
  <2> DEFINE r == [task[t] EXCEPT !.pc = "user", !.arg = 0, !.signal = S]
  <2>1. /\ r \in Record /\ r.pc = "user" /\ r.pid = task[t].pid
        /\ r.father = task[t].father /\ r.signal = S
    BY <1>1, <1>2 DEF Record
  <2>2. task' = [task EXCEPT ![t] = r]
    BY <1>1, <1>5
  <2> HIDE DEF r
  <2>3. r.pc \in Live /\ (t = InitSlot => r.pc # "pause" /\ r.signal \subseteq {SIGCHLD})
    BY <1>2, <2>1 DEF Live
  <2> QED BY <2>1, <2>2, <2>3, OneTaskStep
<1> QED BY <1>3, <1>4, <1>5 DEF Repeat

-----------------------------------------------------------------------------
(* The invariant holds of every step.                                      *)

\* A fork() that finds no slot uses up a pid.
LEMMA NoSlotStep ==
  ASSUME ProcInv, last_pid' = NextPid, task' = task
  PROVE  ProcInv'
<1>1. NextPid \in 0..MaxPid
  BY NextPidFree, PidAssumption DEF ProcInv, Pids
<1> QED BY <1>1 DEF ProcInv, TypeOK, InitLives, PidsDiffer, FatherLives, ZombieTold

\* A task that stays alive, goes to sleep in pause() or returns to user mode
LEMMA UserStep ==
  ASSUME ProcInv, NEW t \in Slots, NEW r \in Record,
         task' = [task EXCEPT ![t] = r], last_pid' = last_pid,
         task[t].pc \in Live, r.pc \in {"user", "pause"},
         r.pid = task[t].pid, r.father = task[t].father,
         t = InitSlot => r.pc # "pause" /\ r.signal \subseteq {SIGCHLD}
  PROVE  ProcInv'
<1>1. r.pc \in Live /\ r.pc # "wait"
  BY DEF Live
<1> QED BY <1>1, OneTaskStep

\* The system calls keep the invariant.
LEMMA SysCallStep ==
  ASSUME ProcInv, NEW t \in Slots, SysCall(t)
  PROVE  ProcInv'
<1>1. task \in [Slots -> Record] /\ task[t] \in Record
  BY DEF ProcInv, TypeOK, Record
<1>2. CASE Fork(t)
  <2>1. task[t].pc \in Live /\ t # InitSlot /\ last_pid' = NextPid
    BY <1>2 DEF Fork, Live
  <2>2. CASE EmptySlot = {}
    BY <1>2, <2>1, <2>2, NoSlotStep DEF Fork
  <2>3. CASE EmptySlot # {}
    <3>1. PICK i \in EmptySlot : task' = [task EXCEPT ![i] = Child(t, NextPid)]
      BY <1>2, <2>3 DEF Fork
    <3> QED BY <2>1, <3>1, ForkStep
  <2> QED BY <2>2, <2>3
<1>3. CASE SysExit(t)
  BY <1>3, BeginExitStep DEF SysExit, Live
<1>4. CASE Pause(t)
  <2> DEFINE r == [task[t] EXCEPT !.pc = "pause"]
  <2>1. /\ r \in Record /\ r.pc = "pause" /\ r.pid = task[t].pid
        /\ r.father = task[t].father
    BY <1>1 DEF Record
  <2>2. /\ task' = [task EXCEPT ![t] = r] /\ last_pid' = last_pid
        /\ task[t].pc \in Live /\ t # InitSlot
    BY <1>1, <1>4 DEF Pause, Live
  <2> HIDE DEF r
  <2> QED BY <2>1, <2>2, UserStep
<1>5. ASSUME NEW pid \in Pids \cup {AnyChild}, WaitPid(t, pid) PROVE ProcInv'
  <2>1. pid \in {AnyChild} \cup 0..MaxPid
    BY PidAssumption DEF Pids
  <2> QED BY <1>5, <2>1, RepeatStep DEF WaitPid, Live
<1>6. ASSUME NEW pid \in Pids, NEW sig \in Signals, Kill(t, pid, sig) PROVE ProcInv'
  BY <1>6, KillStep
<1>7. ASSUME NEW S \in SUBSET Signals, SetMask(t, S) PROVE ProcInv'
  <2> DEFINE r == [task[t] EXCEPT !.blocked = S \ {SIGKILL}]
  <2>1. /\ r \in Record /\ r.pc = task[t].pc /\ r.pid = task[t].pid
        /\ r.father = task[t].father
    BY <1>1 DEF Record
  <2>2. /\ task' = [task EXCEPT ![t] = r] /\ last_pid' = last_pid
        /\ task[t].pc \in Live /\ t # InitSlot /\ task[t].pc = "user"
    BY <1>1, <1>7 DEF SetMask, Live
  <2> HIDE DEF r
  <2> QED BY <2>1, <2>2, UserStep
<1> QED BY <1>2, <1>3, <1>4, <1>5, <1>6, <1>7 DEF SysCall

\* A signal is handled, or ends a task that is not init.
LEMMA DoSignalStep ==
  ASSUME ProcInv, NEW t \in Slots, DoSignal(t)
  PROVE  ProcInv'
<1>1. /\ task \in [Slots -> Record] /\ task[t] \in Record /\ task[t].pc = "user"
      /\ task[t].pc \in Live /\ last_pid' = last_pid
  BY DEF ProcInv, TypeOK, Record, DoSignal, Live
<1>2. PICK sig \in task[t].signal : Handle(t, sig)
  BY DEF DoSignal
<1>3. CASE task' = [task EXCEPT ![t].signal = @ \ {sig}]
  <2> DEFINE r == [task[t] EXCEPT !.signal = task[t].signal \ {sig}]
  <2>1. /\ r \in Record /\ r.pc = task[t].pc /\ r.pid = task[t].pid
        /\ r.father = task[t].father /\ r.signal \subseteq task[t].signal
    BY <1>1 DEF Record
  <2>2. task' = [task EXCEPT ![t] = r]
    BY <1>1, <1>3
  <2> HIDE DEF r
  <2>3. t = InitSlot => r.pc # "pause" /\ r.signal \subseteq {SIGCHLD}
    BY <1>1, <2>1 DEF ProcInv, InitLives
  <2> QED BY <1>1, <2>1, <2>2, <2>3, UserStep
<1>4. ASSUME NEW M \in HandlerMasks(sig), t # InitSlot,
             task' = [task EXCEPT ![t].signal = @ \ {sig}, ![t].blocked = @ \cup M]
      PROVE  ProcInv'
  <2> DEFINE r == [task[t] EXCEPT !.signal = task[t].signal \ {sig},
                                  !.blocked = task[t].blocked \cup M]
  <2>1. M \subseteq Signals
    BY DEF HandlerMasks
  <2>2. /\ r \in Record /\ r.pc = task[t].pc /\ r.pid = task[t].pid
        /\ r.father = task[t].father
    BY <1>1, <2>1 DEF Record
  <2>3. task' = [task EXCEPT ![t] = r]
    BY <1>1, <1>4
  <2> HIDE DEF r
  <2> QED BY <1>1, <1>4, <2>2, <2>3, UserStep
<1>5. CASE sig # SIGCHLD /\ BeginExit(t)
  <2>1. t # InitSlot
    BY <1>2, <1>5 DEF ProcInv, InitLives
  <2> QED BY <1>1, <1>5, <2>1, BeginExitStep
<1> QED BY <1>2, <1>3, <1>4, <1>5 DEF Handle

\* A task goes on in pause(), in waitpid() or in do_exit().
LEMMA GoesOnStep ==
  ASSUME ProcInv, NEW t \in Slots, GoesOn(t)
  PROVE  ProcInv'
<1>1. /\ task \in [Slots -> Record] /\ task[t] \in Record /\ 0 \in 0..MaxPid
  BY PidAssumption DEF ProcInv, TypeOK, Record
<1>2. CASE PauseReturns(t)
  <2> DEFINE r == [task[t] EXCEPT !.pc = "user"]
  <2>1. /\ r \in Record /\ r.pc = "user" /\ r.pid = task[t].pid
        /\ r.father = task[t].father /\ r.signal = task[t].signal
    BY <1>1 DEF Record
  <2>2. /\ task' = [task EXCEPT ![t] = r] /\ last_pid' = last_pid /\ task[t].pc \in Live
    BY <1>1, <1>2 DEF PauseReturns, Live
  <2> HIDE DEF r
  <2>3. t = InitSlot => r.pc # "pause" /\ r.signal \subseteq {SIGCHLD}
    BY <2>1 DEF ProcInv, InitLives
  <2> QED BY <2>1, <2>2, <2>3, UserStep
<1>3. CASE WaitGoesOn(t)
  <2> DEFINE S == task[t].signal \ {SIGCHLD}
  <2>1. /\ task[t].pc \in Live /\ last_pid' = last_pid /\ S \subseteq task[t].signal
        /\ task[t].arg \in {AnyChild} \cup 0..MaxPid /\ S \in SUBSET Signals
    BY <1>1, <1>3 DEF WaitGoesOn, Live, Record
  <2>2. CASE Repeat(t, task[t].arg, S)
    <3> HIDE DEF S
    <3> QED BY <2>1, <2>2, RepeatStep
  <2>3. CASE task' = [task EXCEPT ![t].pc = "user", ![t].arg = 0, ![t].signal = S]
    <3> HIDE DEF S
    <3> DEFINE r == [task[t] EXCEPT !.pc = "user", !.arg = 0, !.signal = S]
    <3>1. /\ r \in Record /\ r.pc = "user" /\ r.pid = task[t].pid
          /\ r.father = task[t].father /\ r.signal = S
      BY <1>1, <2>1 DEF Record
    <3>2. task' = [task EXCEPT ![t] = r]
      BY <1>1, <2>3
    <3> HIDE DEF r
    <3>3. t = InitSlot => r.pc # "pause" /\ r.signal \subseteq {SIGCHLD}
      BY <2>1, <3>1 DEF ProcInv, InitLives
    <3> QED BY <2>1, <3>1, <3>2, <3>3, UserStep
  <2> QED BY <1>3, <2>2, <2>3 DEF WaitGoesOn
<1>4. CASE FinishExit(t)
  BY <1>4, FinishExitStep
<1> QED BY <1>2, <1>3, <1>4 DEF GoesOn

\* init forks and waits.
LEMMA InitStep ==
  ASSUME ProcInv, InitForks \/ InitWaits
  PROVE  ProcInv'
<1>1. InitSlot \in Slots
  BY TaskAssumption DEF InitSlot, Slots
<1>2. CASE InitForks
  <2>1. task[InitSlot].pc \in Live /\ last_pid' = NextPid
    BY <1>2 DEF InitForks, Live
  <2>2. CASE EmptySlot = {}
    BY <1>2, <2>1, <2>2, NoSlotStep DEF InitForks
  <2>3. CASE EmptySlot # {}
    <3>1. PICK i \in EmptySlot :
            task' = [task EXCEPT ![i] = Child(InitSlot, NextPid), ![InitSlot].child = NextPid]
      BY <1>2, <2>3 DEF InitForks
    <3> QED BY <1>1, <2>1, <3>1, ForkStep
  <2> QED BY <2>2, <2>3
<1>3. CASE InitWaits
  BY <1>1, <1>3, RepeatStep DEF InitWaits, Live
<1> QED BY <1>2, <1>3

\* When init starts it is alone.
LEMMA ProcInit ==
  Init => ProcInv
<1> SUFFICES ASSUME Init PROVE ProcInv
  OBVIOUS
<1> DEFINE r == [NoTask EXCEPT !.pc = "user", !.pid = 1]
<1>1. InitSlot \in Slots /\ 0 \in 0..MaxPid /\ 1 \in 0..MaxPid /\ 1 \in Pids
  BY TaskAssumption, PidAssumption DEF InitSlot, Slots, Pids
<1>2. NoTask \in Record /\ NoTask.pc = "none"
  BY <1>1 DEF NoTask, Record
<1>3. /\ r \in Record /\ r.pc = "user" /\ r.pid = 1 /\ r.father = 0 /\ r.signal = {}
  BY <1>1 DEF NoTask, Record
<1>4. /\ task = [i \in Slots |-> IF i = InitSlot THEN r ELSE NoTask] /\ last_pid = 1
  BY DEF Init
<1> HIDE DEF r
<1>5. /\ task \in [Slots -> Record] /\ task[InitSlot] = r
      /\ \A i \in Slots \ {InitSlot} : task[i].pc = "none"
  BY <1>1, <1>2, <1>3, <1>4
<1>6. TypeOK
  BY <1>1, <1>4, <1>5 DEF TypeOK, Record
<1>7. InitLives
  BY <1>3, <1>5 DEF InitLives
<1>8. PidsDiffer
  BY <1>1, <1>3, <1>5 DEF PidsDiffer
<1>9. FatherLives /\ ZombieTold
  BY <1>3, <1>5 DEF FatherLives, ZombieTold
<1> QED BY <1>6, <1>7, <1>8, <1>9 DEF ProcInv

\* Every step keeps the invariant.
LEMMA ProcStep ==
  ProcInv /\ [Next]_vars => ProcInv'
<1> SUFFICES ASSUME ProcInv, [Next]_vars PROVE ProcInv'
  OBVIOUS
<1>1. CASE InitForks \/ InitWaits
  BY <1>1, InitStep
<1>2. ASSUME NEW t \in Slots, SysCall(t) \/ DoSignal(t) \/ GoesOn(t) PROVE ProcInv'
  BY <1>2, SysCallStep, DoSignalStep, GoesOnStep
<1>3. CASE UNCHANGED vars
  BY <1>3 DEF vars, ProcInv, TypeOK, InitLives, PidsDiffer, FatherLives, ZombieTold
<1> QED BY <1>1, <1>2, <1>3 DEF Next

(***************************************************************************)
(* Every task but init has one father, who lives and has not begun to      *)
(* exit, whatever the order of forks, exits, signals and waits and however *)
(* often last_pid overflows: the "no father found" branch of tell_father() *)
(* is dead code (exit.c:83-105), and the loop of find_empty_process()      *)
(* always ends (fork.c:135-148).                                           *)
(***************************************************************************)
THEOREM EveryoneHasOneFather == Spec => []OneFather
<1>1. ProcInv => OneFather
  <2> SUFFICES ASSUME ProcInv, NEW i \in Used \ {InitSlot}
               PROVE  /\ Cardinality({f \in Used : task[f].pid = task[i].father}) = 1
                      /\ \A f \in Used : task[f].pid = task[i].father
                                          => task[f].pc \notin {"exit", "zombie"}
    BY DEF OneFather
  <2>1. PICK g \in Slots : /\ task[g].pc \in {"user", "pause", "wait"}
                           /\ task[g].pid = task[i].father
    BY DEF ProcInv, FatherLives, Used
  <2>2. {f \in Used : task[f].pid = task[i].father} = {g}
    BY <2>1 DEF ProcInv, PidsDiffer, Used
  <2>3. Cardinality({g}) = 1
    BY FS_Singleton
  <2> QED BY <2>1, <2>2, <2>3
<1> QED BY <1>1, ProcInit, ProcStep, PTL DEF Spec

(***************************************************************************)
(* No zombie is missed: a father never sleeps in waitpid() beside a dead   *)
(* child that it waits for without SIGCHLD pending, even when the child    *)
(* came to it because its first father exited (exit.c:115-123, 142-206).   *)
(***************************************************************************)
THEOREM FathersAreTold == Spec => []NoZombieMissed
<1>1. ProcInv => NoZombieMissed
  BY DEF ProcInv, ZombieTold, NoZombieMissed, Zombies, Children, Used
<1> QED BY <1>1, ProcInit, ProcStep, PTL DEF Spec

=============================================================================
