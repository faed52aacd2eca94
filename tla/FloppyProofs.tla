---------------------------- MODULE FloppyProofs ----------------------------
(***************************************************************************)
(* What is proved of the floppy driver, for any drives, tracks and delays  *)
(* for which a motor that is not used goes off later than a request takes  *)
(* to be prepared for, and for any errors and calls of floppy_change().    *)
(*                                                                         *)
(* The functions of the driver are functions of states, so the invariant   *)
(* is one, too, but for the interrupt that may be pending and the tick     *)
(* that may be under way.  Most lemmas say what a function leaves of the   *)
(* parts of it; then there is a lemma for each action.                     *)
(***************************************************************************)
EXTENDS Floppy, SequenceTheorems, WellFoundedInduction, TLAPS

\* The sets of TypeOK, one of each variable
DriverType ==
  [do_floppy : {"NULL", "rw", "seek", "recal", "reset"},
   reset : BOOLEAN, recalibrate : BOOLEAN, seek : BOOLEAN,
   drive : Drives, track : Tracks \cup {NoTrack}, seek_track : Tracks, selected : BOOLEAN]

MotorType == [select : Drives, on : SUBSET Drives, mon : [Drives -> 0..Spin],
              moff : [Drives -> 0..Big]]

TimerType == [jiffies : 0..Spin, fn : {"floppy_on", "transfer"}]

ControllerType ==
  [exec : {"none", "reset", "rw", "result"},
   rw : [req : 0..MaxQueue, drive : Drives \cup {NoDrive}], head : Tracks \cup {NoTrack},
   sense : {"none", "seek", "reset"}, at : Tracks, age : 0..Answer]

ChangeType == [pc : {"out", "on", "motor", "spin", "test", "full", "wait", "read"},
               nr : Drives]

Queues == {q \in Seq(Requests) : Len(q) <= MaxQueue}

\* The states that the functions of the driver work on
State == [queue : Queues, drv : DriverType, motor : MotorType, timers : Seq(TimerType),
          ctl : ControllerType, change : ChangeType, ended : 0..MaxQueue,
          panic : BOOLEAN, missed : BOOLEAN, twice : BOOLEAN]

(***************************************************************************)
(* A task that sleeps, or has decided to, and has not missed its wake_up() *)
(* sleeps for something that will happen (sched.c:237-267, floppy.c:142).  *)
(***************************************************************************)
Woken(s) ==
  /\ s.change.pc \in {"motor", "spin"} /\ ~s.missed
       => s.change.nr \in s.motor.on /\ s.motor.mon[s.change.nr] > 0
  /\ s.change.pc \in {"full", "wait"} /\ ~s.missed => s.drv.selected

\* The delay of the first timer is not over.
Positive(s) == s.timers # <<>> => Head(s.timers).jiffies > 0

\* Somebody goes on with the requests, without an interrupt that is pending.
Going(s) ==
  s.queue # <<>> /\ ~s.panic =>
    \/ s.timers # <<>>
    \/ s.drv.do_floppy # "NULL" /\ (s.ctl.exec \in {"rw", "reset"} \/ s.ctl.head # NoTrack)

(***************************************************************************)
(* What is true unless a request was begun while its timer ran: one timer  *)
(* at most, which is for CURRENT; it is not set during a transfer or a     *)
(* seek; and a transfer is the one of CURRENT (floppy.c:233-267, 417-455). *)
(***************************************************************************)
Sound(s) ==
  /\ ~s.panic /\ Len(s.timers) <= 1
  /\ s.timers # <<>> => /\ s.queue # <<>> /\ CURRENT(s).fits
                        /\ s.drv.do_floppy \notin {"rw", "seek"}
  /\ s.drv.do_floppy \in {"rw", "seek"} => s.queue # <<>>
  /\ s.drv.do_floppy = "rw" => s.ctl.rw.req = s.ended /\ s.ctl.rw.drive = s.drv.drive

\* The motor of CURRENT stays on for n ticks, whoever calls floppy_off() for it.
OnFor(s, n) ==
  /\ CURRENT(s).drive = s.drv.drive
  /\ s.drv.drive \in s.motor.on /\ s.motor.moff[s.drv.drive] >= n

\* The drive is in use: floppy_change() does not select another one.
Chosen(s) == s.drv.selected /\ s.motor.select = s.drv.drive

(***************************************************************************)
(* When the first timer fires the motor is up to speed, or will be in time *)
(* that is no longer than a drive takes to be selected; and floppy_off()   *)
(* by another task at any time since the request was begun leaves the      *)
(* motor on until then, and longer: a delay of Off against one of Spin and *)
(* one of Select.  n is 1 while do_timer() has counted the timer down but  *)
(* not yet the motors (sched.c:211-267, 310-336).                          *)
(***************************************************************************)
TimerPrepared(s, n) ==
  s.timers # <<>> =>
    LET j == Head(s.timers).jiffies
        d == s.drv.drive IN
    /\ s.motor.mon[d] <= j \/ s.motor.mon[d] <= Select
    /\ IF Head(s.timers).fn = "floppy_on" THEN OnFor(s, n + j + Off - Spin)
       ELSE OnFor(s, n + j + Off - Spin - Select) /\ Chosen(s)

\* The same of a seek: the controller answers in time (floppy.c:325-336).
SeekPrepared(s, n) ==
  s.drv.do_floppy = "seek" =>
    /\ OnFor(s, n + Off - Spin - Select - s.ctl.age) /\ Chosen(s)
    /\ s.motor.mon[s.drv.drive] <= Select

\* Whatever the request waits for, its drive is ready for it then.
Prepared(s, n) == TimerPrepared(s, n) /\ SeekPrepared(s, n)

\* What TransferReady says of a state in which a transfer was begun
Begun(s) ==
  /\ CURRENT(s).drive = s.ctl.rw.drive /\ s.motor.select = s.ctl.rw.drive
  /\ s.ctl.rw.drive \in s.motor.on /\ s.motor.mon[s.ctl.rw.drive] <= Select

\* The inductive invariant
FloppyInv ==
  /\ TypeOK /\ NeverIdle /\ Woken(Now) /\ (~tick => Positive(Now))
  /\ ~twice => Sound(Now) /\ Prepared(Now, IF tick THEN 1 ELSE 0)

-----------------------------------------------------------------------------
(* Numbers and sequences.                                                  *)

\* The order that the inductions go along
Below == {p \in Nat \X Nat : p[1] < p[2]}

\* A set of natural numbers that is not empty has a least element.
LEMMA Least ==
  ASSUME NEW S \in SUBSET Nat, S # {}
  PROVE  Min(S) \in S /\ \A n \in S : Min(S) <= n
<1>1. IsWellFoundedOn(Below, Nat)
  BY NatLessThanWellFounded DEF OpToRel, Below
<1>2. PICK n \in S : \A m \in S : <<m, n>> \notin Below
  BY <1>1, WFMin
<1>3. \A m \in S : n <= m
  <2> SUFFICES ASSUME NEW m \in S PROVE n <= m
    OBVIOUS
  <2>1. m \in Nat /\ n \in Nat
    OBVIOUS
  <2>2. m < n => <<m, n>> \in Below
    BY <2>1 DEF Below
  <2> QED BY <1>2, <2>1, <2>2
<1> QED BY <1>3 DEF Min

\* The sequence with an element put in
LEMMA InsertAtProperties ==
  ASSUME NEW S, NEW t \in Seq(S), NEW k \in 0..Len(t), NEW e \in S
  PROVE  /\ InsertAt(t, k + 1, e) \in Seq(S)
         /\ Len(InsertAt(t, k + 1, e)) = Len(t) + 1
         /\ InsertAt(t, k + 1, e) # <<>>
         /\ Head(InsertAt(t, k + 1, e)) = IF k = 0 THEN e ELSE Head(t)
<1> DEFINE a == SubSeq(t, 1, k)
           b == SubSeq(t, k + 1, Len(t))
           i == InsertAt(t, k + 1, e)
<1>1. Len(t) \in Nat /\ \A n \in 1..Len(t) : t[n] \in S
  OBVIOUS
<1>2. /\ a \in Seq(S) /\ Len(a) = k
      /\ k > 0 => a[1] = t[1]
  <2>1. \A n \in 1..k : t[n] \in S
    BY <1>1
  <2> HIDE DEF a
  <2>2. /\ a \in Seq(S) /\ Len(a) = IF 1 <= k THEN k - 1 + 1 ELSE 0
        /\ \A n \in 1..k - 1 + 1 : a[n] = t[1 + n - 1]
    BY <2>1, SubSeqProperties, <1>1 DEF a
  <2> QED BY <2>2, <1>1
<1>3. b \in Seq(S) /\ Len(b) = Len(t) - k
  <2>1. \A n \in k + 1..Len(t) : t[n] \in S
    BY <1>1
  <2> HIDE DEF b
  <2>2. b \in Seq(S) /\ Len(b) = IF k + 1 <= Len(t) THEN Len(t) - (k + 1) + 1 ELSE 0
    BY <2>1, SubSeqProperties, <1>1 DEF b
  <2> QED BY <2>2, <1>1
<1>4. i = (a \o <<e>>) \o b
  <2>1. (k + 1) - 1 = k
    OBVIOUS
  <2> QED BY <2>1, Zenon DEF InsertAt
<1> HIDE DEF a, b, i
<1>5. <<e>> \in Seq(S) /\ Len(<<e>>) = 1 /\ <<e>>[1] = e
  OBVIOUS
<1>6. /\ a \o <<e>> \in Seq(S) /\ Len(a \o <<e>>) = k + 1
      /\ (a \o <<e>>)[1] = IF k = 0 THEN e ELSE t[1]
  BY <1>2, <1>5, ConcatProperties
<1>7. i \in Seq(S) /\ Len(i) = Len(t) + 1 /\ i[1] = IF k = 0 THEN e ELSE t[1]
  <2> DEFINE c == a \o <<e>>
  <2>1. c \in Seq(S) /\ Len(c) = k + 1 /\ c[1] = IF k = 0 THEN e ELSE t[1]
    BY <1>6
  <2>2. i = c \o b
    BY <1>4
  <2> HIDE DEF c
  <2>3. /\ i \in Seq(S) /\ Len(i) = Len(c) + Len(b)
        /\ \A n \in 1..Len(c) + Len(b) : i[n] = IF n <= Len(c) THEN c[n] ELSE b[n - Len(c)]
    BY <2>1, <2>2, <1>3, ConcatProperties
  <2> QED BY <2>1, <2>3, <1>3, <1>1
<1>8. i # <<>>
  BY <1>7, <1>1, EmptySeq
<1>9. Head(i) = i[1] /\ Head(t) = t[1]
  BY <1>7
<1> QED BY <1>7, <1>8, <1>9 DEF i

-----------------------------------------------------------------------------
(* The list of timers.                                                     *)

\* What add_timer() is left with after i timers
IsLeft(f, t, j) == f = [i \in 0..Len(t) |-> IF i = 0 THEN j ELSE f[i - 1] - t[i].jiffies]

\* The same, as far as the n-th timer
IsLeftTo(f, t, j, n) ==
  /\ f \in [0..n -> Int] /\ f[0] = j
  /\ \A i \in 1..n : f[i] = f[i - 1] - t[i].jiffies

\* The loop of add_timer() comes to an end.
LEMMA LeftExists ==
  ASSUME NEW t \in Seq(TimerType), NEW j \in Int
  PROVE  \E f : IsLeft(f, t, j)
<1>1. Len(t) \in Nat /\ \A i \in 1..Len(t) : t[i].jiffies \in Int
  <2>1. \A i \in 1..Len(t) : t[i] \in TimerType
    OBVIOUS
  <2> QED BY <2>1, FloppyAssumption DEF TimerType
<1> DEFINE Bad == {n \in 0..Len(t) : ~\E f : IsLeftTo(f, t, j, n)}
<1>2. Bad = {}
  <2> SUFFICES ASSUME Bad # {} PROVE FALSE
    OBVIOUS
  <2>1. Bad \in SUBSET Nat
    BY <1>1
  <2> DEFINE n == Min(Bad)
  <2>2. n \in Bad /\ \A m \in Bad : n <= m
    BY <2>1, Least
  <2> HIDE DEF n
  <2>3. n \in Nat /\ n <= Len(t)
    BY <2>2, <1>1
  <2>4. n # 0
    <3>1. IsLeftTo([i \in 0..0 |-> j], t, j, 0)
      BY DEF IsLeftTo
    <3> QED BY <3>1, <2>2
  <2>5. PICK f : IsLeftTo(f, t, j, n - 1)
    <3>1. n - 1 \in 0..Len(t) /\ ~(n <= n - 1)
      BY <2>3, <2>4, <1>1
    <3>2. n - 1 \notin Bad
      BY <3>1, <2>2
    <3> QED BY <3>1, <3>2
  <2> DEFINE g == [i \in 0..n |-> IF i < n THEN f[i] ELSE f[n - 1] - t[n].jiffies]
  <2>6. IsLeftTo(g, t, j, n)
    <3>1. f \in [0..n - 1 -> Int] /\ f[0] = j /\ \A i \in 1..n - 1 : f[i] = f[i - 1] - t[i].jiffies
      BY <2>5 DEF IsLeftTo
    <3>2. f[n - 1] \in Int /\ t[n].jiffies \in Int
      BY <3>1, <1>1, <2>3, <2>4
    <3>3. g \in [0..n -> Int]
      BY <3>1, <3>2, <2>3
    <3>4. g[0] = j
      BY <3>1, <2>3, <2>4
    <3>5. ASSUME NEW i \in 1..n PROVE g[i] = g[i - 1] - t[i].jiffies
      <4>1. CASE i = n
        BY <4>1, <2>3, <2>4
      <4>2. CASE i < n
        BY <4>2, <3>1, <2>3
      <4> QED BY <4>1, <4>2, <2>3
    <3> HIDE DEF g
    <3> QED BY <3>3, <3>4, <3>5 DEF IsLeftTo
  <2> QED BY <2>6, <2>2
<1>3. PICK f : IsLeftTo(f, t, j, Len(t))
  BY <1>2, <1>1
<1>4. f = [i \in 0..Len(t) |-> IF i = 0 THEN j ELSE f[i - 1] - t[i].jiffies]
  <2>1. f = [i \in 0..Len(t) |-> f[i]]
    BY <1>3 DEF IsLeftTo
  <2>2. \A i \in 0..Len(t) : f[i] = IF i = 0 THEN j ELSE f[i - 1] - t[i].jiffies
    BY <1>3, <1>1 DEF IsLeftTo
  <2> QED BY <2>1, <2>2
<1> QED BY <1>4 DEF IsLeft

\* It never becomes more than the delay that was asked for.
LEMMA LeftProperties ==
  ASSUME NEW t \in Seq(TimerType), NEW j \in Int, NEW f, IsLeft(f, t, j)
  PROVE  /\ f[0] = j
         /\ \A i \in 1..Len(t) : f[i] = f[i - 1] - t[i].jiffies
         /\ \A i \in 0..Len(t) : f[i] \in Int /\ f[i] <= j
<1>1. Len(t) \in Nat /\ \A i \in 1..Len(t) : t[i].jiffies \in Nat
  <2>1. \A i \in 1..Len(t) : t[i] \in TimerType
    OBVIOUS
  <2> QED BY <2>1, FloppyAssumption DEF TimerType
<1>2. /\ f[0] = j
      /\ \A i \in 1..Len(t) : f[i] = f[i - 1] - t[i].jiffies
  <2>1. \A i \in 0..Len(t) : f[i] = IF i = 0 THEN j ELSE f[i - 1] - t[i].jiffies
    <3>1. f = [i \in 0..Len(t) |-> IF i = 0 THEN j ELSE f[i - 1] - t[i].jiffies]
      BY DEF IsLeft
    <3> DEFINE g == [i \in 0..Len(t) |-> IF i = 0 THEN j ELSE f[i - 1] - t[i].jiffies]
    <3>2. \A i \in 0..Len(t) : g[i] = IF i = 0 THEN j ELSE f[i - 1] - t[i].jiffies
      OBVIOUS
    <3>3. f = g
      BY <3>1, Zenon
    <3> HIDE DEF g
    <3> QED BY <3>2, <3>3
  <2>2. \A i \in 1..Len(t) : i \in 0..Len(t) /\ i # 0
    BY <1>1
  <2>3. 0 \in 0..Len(t)
    BY <1>1
  <2> QED BY <2>1, <2>2, <2>3
<1> DEFINE Bad == {i \in 0..Len(t) : ~(f[i] \in Int /\ f[i] <= j)}
<1>3. Bad = {}
  <2> SUFFICES ASSUME Bad # {} PROVE FALSE
    OBVIOUS
  <2>1. Bad \in SUBSET Nat
    BY <1>1
  <2> DEFINE n == Min(Bad)
  <2>2. n \in Bad /\ \A m \in Bad : n <= m
    BY <2>1, Least
  <2> HIDE DEF n
  <2>3. n \in Nat /\ n <= Len(t) /\ n # 0
    BY <2>2, <1>1, <1>2
  <2>4. n - 1 \notin Bad /\ n - 1 \in 0..Len(t)
    BY <2>2, <2>3, <1>1
  <2>5. f[n - 1] \in Int /\ f[n - 1] <= j
    BY <2>4
  <2>6. f[n] = f[n - 1] - t[n].jiffies /\ t[n].jiffies \in Nat
    BY <1>1, <1>2, <2>3
  <2> QED BY <2>2, <2>5, <2>6
<1> QED BY <1>2, <1>3

\* The assumption, in the form in which arithmetic takes it
LEMMA Constants ==
  /\ MaxErrors \in Nat /\ MaxErrors > 0 /\ MaxQueue \in Nat /\ MaxQueue > 0
  /\ TimeRequests \in Nat /\ TimeRequests > 0 /\ Select \in Nat /\ Select > 0
  /\ Spin \in Nat /\ Answer \in Nat /\ Off \in Nat /\ Big \in Nat /\ Big = Off + 1
  /\ Select < Spin /\ Spin + Select + Answer < Off
  /\ 0 \in Tracks /\ NoTrack \notin Tracks
BY FloppyAssumption DEF Big

\* add_timer() sets a timer or panics.
LEMMA AddTimerType ==
  ASSUME NEW s \in State, NEW j \in 1..Spin, NEW fn \in {"floppy_on", "transfer"}
  PROVE  LET r == AddTimer(s, j, fn) IN
         /\ r \in State
         /\ r = [s EXCEPT !.panic = TRUE] \/ (r.timers # <<>> /\ r = [s EXCEPT !.timers = r.timers])
         /\ Positive(s) => Positive(r)
         /\ s.timers = <<>> => r = [s EXCEPT !.timers = <<[jiffies |-> j, fn |-> fn]>>]
<1> DEFINE t == s.timers
           r == AddTimer(s, j, fn)
<1>1. t \in Seq(TimerType) /\ Len(t) \in Nat
  BY DEF State
<1>2. j \in Int /\ j > 0 /\ j <= Spin
  BY Constants
<1>3. CASE Len(t) = TimeRequests
  <2>1. r = [s EXCEPT !.panic = TRUE]
    BY <1>3, Zenon DEF AddTimer
  <2>2. r \in State /\ r.timers = s.timers
    BY <2>1 DEF State
  <2>3. s.timers # <<>>
    BY <1>3, Constants
  <2> HIDE DEF r
  <2>4. Positive(s) => Positive(r)
    BY <2>2 DEF Positive
  <2> QED BY <2>1, <2>2, <2>3, <2>4 DEF r
<1>4. CASE Len(t) # TimeRequests
  <2> DEFINE left == CHOOSE f : IsLeft(f, t, j)
             places == {i \in 0..Len(t) : i < Len(t) => t[i + 1].jiffies >= left[i]}
             here == Min(places)
             e == [jiffies |-> left[here], fn |-> fn]
  <2>1. r = [s EXCEPT !.timers = InsertAt(t, here + 1, e)]
    BY <1>4, Zenon DEF AddTimer, IsLeft
  <2>2. IsLeft(left, t, j)
    BY LeftExists, <1>1, <1>2, Zenon
  <2> HIDE DEF left, r
  <2>3. /\ left[0] = j
        /\ \A i \in 1..Len(t) : left[i] = left[i - 1] - t[i].jiffies
        /\ \A i \in 0..Len(t) : left[i] \in Int /\ left[i] <= j
    BY LeftProperties, <2>2, <1>1, <1>2
  <2>4. Len(t) \in places /\ places \in SUBSET Nat
    BY <1>1
  <2>5. here \in places /\ \A n \in places : here <= n
    BY <2>4, Least
  <2> HIDE DEF here
  <2>6. here \in 0..Len(t) /\ here \in Nat
    BY <2>5, <1>1
  <2>7. left[here] > 0
    <3>1. CASE here = 0
      BY <3>1, <2>3, <1>2
    <3>2. CASE here # 0
      <4>1. here - 1 \in 0..Len(t) /\ here - 1 < Len(t) /\ here \in 1..Len(t) /\ ~(here <= here - 1)
        BY <3>2, <2>6, <1>1
      <4>2. here - 1 \notin places
        BY <4>1, <2>5
      <4>3. ~(t[here].jiffies >= left[here - 1]) /\ (here - 1) + 1 = here
        BY <4>2, <4>1
      <4>4. left[here] = left[here - 1] - t[here].jiffies /\ left[here - 1] \in Int
        BY <2>3, <4>1
      <4>5. t[here] \in TimerType
        BY <4>1, <1>1
      <4>6. t[here].jiffies \in Int
        BY <4>5, Constants DEF TimerType
      <4> QED BY <4>3, <4>4, <4>6
    <3> QED BY <3>1, <3>2
  <2>8. left[here] \in 1..Spin
    BY <2>3, <2>6, <2>7, <1>2, Constants
  <2>9. e \in TimerType
    BY <2>8, Constants DEF TimerType
  <2> DEFINE u == InsertAt(t, here + 1, e)
  <2>10. /\ u \in Seq(TimerType) /\ Len(u) = Len(t) + 1 /\ u # <<>>
         /\ Head(u) = IF here = 0 THEN e ELSE Head(t)
    <3> HIDE DEF e, t
    <3> QED BY InsertAtProperties, <2>6, <2>9, <1>1
  <2>11. e.jiffies > 0
    BY <2>7
  <2>12. t = <<>> => here = 0 /\ e = [jiffies |-> j, fn |-> fn]
    BY <2>6, <2>3
  <2>13. t = <<>> => u = <<e>>
    <3> SUFFICES ASSUME t = <<>> PROVE u = <<e>>
      OBVIOUS
    <3>1. Len(u) = 1 /\ Head(u) = e
      BY <2>10, <2>12
    <3>2. u[1] = e
      BY <3>1, <2>10
    <3>3. <<e>> \in Seq(TimerType) /\ Len(<<e>>) = 1 /\ <<e>>[1] = e
      BY <2>9
    <3> QED BY <3>1, <3>2, <3>3, <2>10, SeqEqual
  <2> HIDE DEF e, u
  <2>14. r = [s EXCEPT !.timers = u]
    BY <2>1 DEF u
  <2>15. r \in State /\ r.timers = u
    BY <2>14, <2>10 DEF State
  <2>16. Positive(s) => Positive(r)
    BY <2>15, <2>10, <2>11, <2>6 DEF Positive
  <2>17. t = <<>> => u = <<[jiffies |-> j, fn |-> fn]>>
    BY <2>12, <2>13
  <2> HIDE DEF t
  <2>18. t = s.timers
    BY DEF t
  <2> QED BY <2>14, <2>15, <2>16, <2>17, <2>18, <2>10 DEF r
<1> QED BY <1>3, <1>4

-----------------------------------------------------------------------------
(* The functions of the driver keep the types.                             *)

\* floppy_deselect()
LEMMA DeselectType == ASSUME NEW s \in State PROVE Deselect(s) \in State
BY DEF Deselect, State, DriverType, ChangeType

\* floppy_off()
LEMMA FloppyOffType ==
  ASSUME NEW s \in State, NEW d \in Drives
  PROVE  FloppyOff(s, d) \in State
<1>1. s.motor \in MotorType /\ Off \in 0..Big
  BY Constants DEF State
<1>2. [s.motor EXCEPT !.moff[d] = Off] \in MotorType
  BY <1>1 DEF MotorType
<1> DEFINE m == [s.motor EXCEPT !.moff[d] = Off]
<1>3. FloppyOff(s, d) = [s EXCEPT !.motor = m]
  BY DEF FloppyOff
<1> HIDE DEF m
<1> QED BY <1>2, <1>3 DEF State, m

\* end_request(): the list loses its first request, or is used though empty.
LEMMA EndRequestType ==
  ASSUME NEW s \in State
  PROVE  /\ EndRequest(s) \in State
         /\ IsNULL(s) => EndRequest(s) = WritesNULL(s)
         /\ ~IsNULL(s) =>
              /\ EndRequest(s).queue = Tail(s.queue) /\ EndRequest(s).drv = s.drv
              /\ EndRequest(s).timers = s.timers /\ EndRequest(s).ctl = s.ctl
              /\ EndRequest(s).motor.mon = s.motor.mon /\ EndRequest(s).motor.on = s.motor.on
              /\ EndRequest(s).motor.select = s.motor.select
              /\ EndRequest(s).change = s.change /\ EndRequest(s).panic = s.panic
              /\ EndRequest(s).missed = s.missed /\ EndRequest(s).twice = s.twice
<1>1. CASE IsNULL(s)
  <2>1. EndRequest(s) = [s EXCEPT !.panic = TRUE]
    BY <1>1 DEF EndRequest, WritesNULL
  <2>2. EndRequest(s) \in State
    BY <2>1 DEF State
  <2> QED BY <1>1, <2>1, <2>2 DEF WritesNULL
<1>2. CASE ~IsNULL(s)
  <2>1. CURRENT(s).drive \in Drives /\ Tail(s.queue) \in Queues
    <3>1. s.queue \in Seq(Requests) /\ s.queue # <<>> /\ Len(s.queue) <= MaxQueue
      BY <1>2 DEF State, Queues, IsNULL
    <3>2. /\ Head(s.queue) \in Requests /\ Tail(s.queue) \in Seq(Requests)
          /\ Len(Tail(s.queue)) = Len(s.queue) - 1
      BY <3>1, HeadTailProperties
    <3>3. Len(s.queue) \in Nat
      BY <3>1
    <3> QED BY <3>1, <3>2, <3>3, Constants DEF Queues, CURRENT, Requests
  <2> DEFINE r == FloppyOff(s, CURRENT(s).drive)
             n == (s.ended + 1) % Rounds
  <2>2. r \in State /\ r = [s EXCEPT !.motor.moff[CURRENT(s).drive] = Off]
    BY <2>1, FloppyOffType DEF FloppyOff
  <2>3. n \in 0..MaxQueue
    BY Constants DEF State, Rounds
  <2>4. EndRequest(s) = [r EXCEPT !.queue = Tail(s.queue), !.ended = n]
    BY <1>2 DEF EndRequest
  <2> HIDE DEF n, r
  <2>5. EndRequest(s) \in State
    BY <2>1, <2>2, <2>3, <2>4 DEF State
  <2>6. /\ r.drv = s.drv /\ r.timers = s.timers /\ r.ctl = s.ctl /\ r.motor.mon = s.motor.mon
        /\ r.motor.on = s.motor.on /\ r.motor.select = s.motor.select /\ r.change = s.change
        /\ r.panic = s.panic /\ r.missed = s.missed /\ r.twice = s.twice
    BY <2>2 DEF State, MotorType
  <2> QED BY <1>2, <2>2, <2>4, <2>5, <2>6 DEF State
<1> QED BY <1>1, <1>2

\* ticks_to_floppy_on(): the one motor that is turned on, or kept on
LEMMA TicksToFloppyOnType ==
  ASSUME NEW s \in State, NEW d \in Drives
  PROVE  LET r == TicksToFloppyOn(s, d) IN
         /\ r \in State
         /\ r = [s EXCEPT !.motor = r.motor]
         /\ r.motor.moff = [s.motor.moff EXCEPT ![d] = Big]
         /\ r.motor.on = s.motor.on \cup {d}
         /\ r.motor.select = IF s.drv.selected THEN s.motor.select ELSE d
         /\ \A e \in Drives : e # d => r.motor.mon[e] = s.motor.mon[e]
         /\ r.motor.mon[d] = IF d \notin s.motor.on THEN Spin
                             ELSE IF r.motor.select # s.motor.select /\ s.motor.mon[d] < Select
                             THEN Select ELSE s.motor.mon[d]
<1> DEFINE r == TicksToFloppyOn(s, d)
           sel == IF s.drv.selected THEN s.motor.select ELSE d
           mon == IF d \notin s.motor.on THEN Spin
                  ELSE IF sel # s.motor.select /\ s.motor.mon[d] < Select THEN Select
                  ELSE s.motor.mon[d]
           m == [select |-> sel, on |-> s.motor.on \cup {d}, mon |-> [s.motor.mon EXCEPT ![d] = mon],
                 moff |-> [s.motor.moff EXCEPT ![d] = Big]]
<1>1. s.motor \in MotorType
  BY DEF State
<1>2. sel \in Drives /\ mon \in 0..Spin
  BY <1>1, Constants DEF MotorType
<1>3. r = [s EXCEPT !.motor = m]
  BY DEF TicksToFloppyOn
<1> HIDE DEF r, sel, mon
<1>4. m \in MotorType
  BY <1>1, <1>2, Constants DEF MotorType
<1>5. r \in State /\ r.motor = m
  BY <1>3, <1>4 DEF State
<1>6. r = [s EXCEPT !.motor = r.motor]
  BY <1>3, <1>5
<1>7. /\ \A e \in Drives : e # d => r.motor.mon[e] = s.motor.mon[e]
      /\ r.motor.mon[d] = mon /\ r.motor.select = sel
  BY <1>5, <1>1 DEF MotorType
<1> QED BY <1>5, <1>6, <1>7 DEF r, sel, mon

\* reset_floppy()
LEMMA ResetFloppyType ==
  ASSUME NEW s \in State
  PROVE  LET r == ResetFloppy(s) IN
         /\ r \in State
         /\ r.drv.do_floppy = "reset" /\ r.ctl.exec = "reset" /\ r.ctl.rw = None
         /\ r.drv.drive = s.drv.drive /\ r.drv.selected = s.drv.selected
         /\ r.queue = s.queue /\ r.motor = s.motor /\ r.timers = s.timers /\ r.change = s.change
         /\ r.ended = s.ended /\ r.panic = s.panic /\ r.missed = s.missed /\ r.twice = s.twice
<1> DEFINE r == ResetFloppy(s)
           d == [s.drv EXCEPT !.reset = FALSE, !.recalibrate = TRUE, !.seek = FALSE,
                              !.do_floppy = "reset"]
           c == [exec |-> "reset", rw |-> None, head |-> NoTrack, sense |-> "none", at |-> 0,
                 age |-> 0]
<1>1. /\ d \in DriverType /\ d.do_floppy = "reset" /\ d.drive = s.drv.drive
      /\ d.selected = s.drv.selected
  <2>1. s.drv \in DriverType
    BY DEF State
  <2> QED BY <2>1 DEF DriverType
<1>2. c \in ControllerType
  BY Constants DEF ControllerType, None, NoDrive
<1>3. r = [s EXCEPT !.drv = d, !.ctl = c]
  BY DEF ResetFloppy
<1>4. c.exec = "reset" /\ c.rw = None
  OBVIOUS
<1> HIDE DEF r, d, c
<1>5. r \in State /\ r.drv = d /\ r.ctl = c
  BY <1>1, <1>2, <1>3 DEF State
<1> QED BY <1>1, <1>3, <1>4, <1>5 DEF r, State

\* What a command to the controller leaves alone
Same(s, r) ==
  /\ r.queue = s.queue /\ r.motor = s.motor /\ r.timers = s.timers /\ r.change = s.change
  /\ r.ended = s.ended /\ r.missed = s.missed /\ r.twice = s.twice
  /\ r.drv.drive = s.drv.drive /\ r.drv.selected = s.drv.selected

\* What the driver and the controller agree upon after a command
Commanded(s, r) ==
  \/ r.drv.do_floppy = "reset" /\ r.ctl.exec = "reset"
  \/ /\ r.drv.do_floppy = "rw" /\ r.ctl.exec = "rw"
     /\ r.ctl.rw = [req |-> s.ended, drive |-> s.drv.drive]
  \/ /\ r.drv.do_floppy \in {"seek", "recal"} /\ r.ctl.exec = "none"
     /\ r.ctl.head # NoTrack /\ r.ctl.age = 0

\* A reset is a command that the controller takes.
LEMMA ResetFloppyCommands ==
  ASSUME NEW s \in State
  PROVE  LET r == ResetFloppy(s) IN
         /\ r \in State /\ Same(s, r) /\ r.panic = s.panic /\ Commanded(s, r)
         /\ r.drv.do_floppy = "reset" /\ r.ctl.exec = "reset"
BY ResetFloppyType DEF Same, Commanded

\* A seek ends with a command, or a reset.
LEMMA SendSeekCommands ==
  ASSUME NEW s \in State, NEW intr \in {"seek", "recal"}, NEW track \in Tracks, NEW ok \in BOOLEAN
  PROVE  LET r == SendSeek(s, intr, track, ok) IN
         /\ r \in State /\ Same(s, r) /\ r.panic = s.panic /\ Commanded(s, r)
         /\ r.drv.do_floppy \in {intr, "reset"} /\ r.ctl.exec \in {"none", "reset"}
<1>1. CASE ok /\ Ready(s)
  <2> DEFINE r == SendSeek(s, intr, track, ok)
             d == [s.drv EXCEPT !.do_floppy = intr]
             c == [s.ctl EXCEPT !.head = track, !.age = 0]
  <2>1. s.drv \in DriverType /\ s.ctl \in ControllerType /\ s.ctl.exec = "none"
    BY <1>1 DEF State, Ready
  <2>2. /\ d \in DriverType /\ d.do_floppy = intr /\ d.drive = s.drv.drive
        /\ d.selected = s.drv.selected
    BY <2>1 DEF DriverType
  <2>3. c \in ControllerType /\ c.head = track /\ c.age = 0 /\ c.exec = "none"
    <3>1. 0 \in 0..Answer
      BY Constants
    <3>2. [s.ctl EXCEPT !.age = 0] \in ControllerType
      BY <2>1, <3>1 DEF ControllerType
    <3>3. c = [[s.ctl EXCEPT !.age = 0] EXCEPT !.head = track]
      BY <2>1 DEF ControllerType
    <3> QED BY <2>1, <3>2, <3>3 DEF ControllerType
  <2>4. r = [s EXCEPT !.drv = d, !.ctl = c]
    BY <1>1 DEF SendSeek
  <2> HIDE DEF r, d, c
  <2>5. r \in State /\ r.drv = d /\ r.ctl = c
    BY <2>2, <2>3, <2>4 DEF State
  <2>6. track # NoTrack
    BY Constants
  <2>7. Same(s, r) /\ r.panic = s.panic
    BY <2>4, <2>5, <2>2 DEF State, Same
  <2> QED BY <2>2, <2>3, <2>5, <2>6, <2>7 DEF r, Commanded
<1>2. CASE ~(ok /\ Ready(s))
  <2>1. SendSeek(s, intr, track, ok) = ResetFloppy(s)
    BY <1>2 DEF SendSeek
  <2> QED BY <2>1, ResetFloppyCommands
<1> QED BY <1>1, <1>2

\* So does a transfer, if there is a request.
LEMMA SetupRwFloppyCommands ==
  ASSUME NEW s \in State, NEW ok \in BOOLEAN
  PROVE  LET r == SetupRwFloppy(s, ok) IN
         /\ r \in State /\ Same(s, r)
         /\ s.queue # <<>> => r.panic = s.panic /\ Commanded(s, r)
         /\ s.queue = <<>> => r.panic /\ r.ctl = s.ctl
         /\ r.drv.do_floppy \in {s.drv.do_floppy, "rw", "reset"}
<1> DEFINE r == SetupRwFloppy(s, ok)
<1>1. CASE IsNULL(s)
  <2>1. r = [s EXCEPT !.panic = TRUE]
    BY <1>1 DEF SetupRwFloppy, WritesNULL
  <2>2. r \in State /\ Same(s, r) /\ r.panic /\ r.drv = s.drv /\ r.ctl = s.ctl
    <3> HIDE DEF r
    <3> QED BY <2>1 DEF State, Same
  <2> QED BY <1>1, <2>2 DEF IsNULL
<1>2. CASE ~IsNULL(s) /\ ok /\ Ready(s)
  <2> DEFINE d == [s.drv EXCEPT !.do_floppy = "rw"]
             w == [req |-> s.ended, drive |-> s.drv.drive]
             c == [s.ctl EXCEPT !.exec = "rw", !.rw = w, !.age = 0]
  <2>1. s.drv \in DriverType /\ s.ctl \in ControllerType /\ s.ended \in 0..MaxQueue
    BY DEF State
  <2>2. /\ d \in DriverType /\ d.do_floppy = "rw" /\ d.drive = s.drv.drive
        /\ d.selected = s.drv.selected
    BY <2>1 DEF DriverType
  <2>3. w \in [req : 0..MaxQueue, drive : Drives \cup {NoDrive}]
    BY <2>1 DEF DriverType
  <2>4. r = [s EXCEPT !.drv = d, !.ctl = c]
    BY <1>2 DEF SetupRwFloppy
  <2> HIDE DEF r, d, w
  <2>5. c \in ControllerType /\ c.exec = "rw" /\ c.rw = w
    <3>1. 0 \in 0..Answer
      BY Constants
    <3>2. [s.ctl EXCEPT !.age = 0] \in ControllerType
      BY <2>1, <3>1 DEF ControllerType
    <3>3. [[s.ctl EXCEPT !.age = 0] EXCEPT !.rw = w] \in ControllerType
      BY <2>3, <3>2 DEF ControllerType
    <3>4. c = [[[s.ctl EXCEPT !.age = 0] EXCEPT !.rw = w] EXCEPT !.exec = "rw"]
      BY <2>1 DEF ControllerType
    <3>5. c \in ControllerType
      BY <3>3, <3>4 DEF ControllerType
    <3> QED BY <3>5, <2>1 DEF ControllerType
  <2> HIDE DEF c
  <2>6. r \in State /\ r.drv = d /\ r.ctl = c
    BY <2>2, <2>5, <2>4 DEF State
  <2>7. Same(s, r) /\ r.panic = s.panic
    BY <2>4, <2>6, <2>2 DEF State, Same
  <2>8. Commanded(s, r)
    BY <2>2, <2>5, <2>6 DEF Commanded, w
  <2> QED BY <1>2, <2>2, <2>6, <2>7, <2>8 DEF r, IsNULL
<1>3. CASE ~IsNULL(s) /\ ~(ok /\ Ready(s))
  <2>1. r = ResetFloppy(s)
    BY <1>3 DEF SetupRwFloppy
  <2> QED BY <2>1, <1>3, ResetFloppyCommands DEF IsNULL
<1> QED BY <1>1, <1>2, <1>3

\* So does transfer().
LEMMA TransferCommands ==
  ASSUME NEW s \in State, NEW ok \in BOOLEAN
  PROVE  LET r == Transfer(s, ok) IN
         /\ r \in State /\ Same(s, r)
         /\ s.queue # <<>> => r.panic = s.panic /\ Commanded(s, r)
         /\ s.queue = <<>> => r.panic \/ r.ctl.exec # "rw" 
<1>1. CASE s.drv.reset
  <2>1. Transfer(s, ok) = ResetFloppy(s)
    BY <1>1 DEF Transfer
  <2> QED BY <2>1, ResetFloppyCommands
<1>2. CASE ~s.drv.reset /\ ~s.drv.seek
  <2>1. Transfer(s, ok) = SetupRwFloppy(s, ok)
    BY <1>2 DEF Transfer
  <2> QED BY <2>1, SetupRwFloppyCommands
<1>3. CASE ~s.drv.reset /\ s.drv.seek
  <2>1. Transfer(s, ok) = SendSeek(s, "seek", s.drv.seek_track, ok)
    BY <1>3 DEF Transfer
  <2>2. s.drv.seek_track \in Tracks
    BY DEF State, DriverType
  <2> QED BY <2>1, <2>2, SendSeekCommands
<1>4. s.drv.reset \in BOOLEAN /\ s.drv.seek \in BOOLEAN
  BY DEF State, DriverType
<1> QED BY <1>1, <1>2, <1>3, <1>4

\* floppy_on_interrupt() sets a timer until the drive is selected, or commands.
LEMMA FloppyOnInterruptKeeps ==
  ASSUME NEW s \in State, NEW ok \in BOOLEAN
  PROVE  LET r == FloppyOnInterrupt(s, ok) IN
         /\ r \in State
         /\ r.queue = s.queue /\ r.ended = s.ended /\ r.missed = s.missed /\ r.twice = s.twice
         /\ r.change = s.change /\ r.drv.drive = s.drv.drive /\ r.drv.selected
         /\ r.motor.on = s.motor.on /\ r.motor.mon = s.motor.mon /\ r.motor.moff = s.motor.moff
         /\ r.motor.select = s.drv.drive
         /\ Positive(s) => Positive(r)
         /\ \/ /\ r.drv.do_floppy = s.drv.do_floppy /\ r.ctl = s.ctl
               /\ r.panic \/ r.timers # <<>>
               /\ s.timers = <<>> => /\ r.timers = <<[jiffies |-> Select, fn |-> "transfer"]>>
                                     /\ r.panic = s.panic
            \/ /\ r.timers = s.timers
               /\ s.queue # <<>> => r.panic = s.panic /\ Commanded(s, r)
               /\ s.queue = <<>> => r.panic \/ r.ctl.exec # "rw"
<1> DEFINE u == [s EXCEPT !.drv.selected = TRUE]
<1>1. /\ u \in State /\ u.drv.drive = s.drv.drive /\ u.drv.selected
      /\ u.queue = s.queue /\ u.ended = s.ended /\ u.missed = s.missed /\ u.twice = s.twice
      /\ u.change = s.change /\ u.motor = s.motor /\ u.timers = s.timers /\ u.ctl = s.ctl
      /\ u.panic = s.panic /\ u.drv.do_floppy = s.drv.do_floppy
  <2> DEFINE d == [s.drv EXCEPT !.selected = TRUE]
  <2>1. d \in DriverType /\ d.drive = s.drv.drive /\ d.selected /\ d.do_floppy = s.drv.do_floppy
    BY DEF State, DriverType
  <2>2. u = [s EXCEPT !.drv = d]
    OBVIOUS
  <2> HIDE DEF u, d
  <2> QED BY <2>1, <2>2 DEF State
<1>2. CASE s.drv.drive # s.motor.select
  <2> DEFINE m == [s.motor EXCEPT !.select = s.drv.drive]
             v == [u EXCEPT !.motor = m]
             r == AddTimer(v, Select, "transfer")
  <2>1. /\ m \in MotorType /\ m.on = s.motor.on /\ m.mon = s.motor.mon /\ m.moff = s.motor.moff
        /\ m.select = s.drv.drive
    BY DEF State, DriverType, MotorType
  <2>2. FloppyOnInterrupt(s, ok) =
          AddTimer([u EXCEPT !.motor.select = s.drv.drive], Select, "transfer")
    BY <1>2, Zenon DEF FloppyOnInterrupt
  <2>3. v = [u EXCEPT !.motor.select = s.drv.drive]
    BY <1>1
  <2> HIDE DEF u, m
  <2>4. /\ v \in State /\ v.motor = m /\ v.drv = u.drv
        /\ v.queue = s.queue /\ v.ended = s.ended /\ v.missed = s.missed /\ v.twice = s.twice
        /\ v.change = s.change /\ v.timers = s.timers /\ v.ctl = s.ctl /\ v.panic = s.panic
    BY <1>1, <2>1 DEF State
  <2> HIDE DEF v
  <2>5. Select \in 1..Spin
    BY Constants
  <2>6. /\ r \in State
        /\ r = [v EXCEPT !.panic = TRUE] \/ (r.timers # <<>> /\ r = [v EXCEPT !.timers = r.timers])
        /\ Positive(v) => Positive(r)
        /\ v.timers = <<>> => r = [v EXCEPT !.timers = <<[jiffies |-> Select, fn |-> "transfer"]>>]
    BY <2>4, <2>5, AddTimerType
  <2>7. r = FloppyOnInterrupt(s, ok)
    BY <2>2, <2>3
  <2> HIDE DEF r
  <2>8. /\ r.queue = s.queue /\ r.ended = s.ended /\ r.missed = s.missed /\ r.twice = s.twice
        /\ r.change = s.change /\ r.drv = u.drv /\ r.motor = m /\ r.ctl = s.ctl
        /\ r.panic \/ r.timers # <<>>
    BY <2>4, <2>6 DEF State
  <2>9. s.timers = <<>> => /\ r.timers = <<[jiffies |-> Select, fn |-> "transfer"]>>
                           /\ r.panic = s.panic
    BY <2>4, <2>6 DEF State
  <2>10. Positive(s) => Positive(r)
    BY <2>4, <2>6 DEF Positive
  <2> QED BY <1>1, <2>1, <2>6, <2>7, <2>8, <2>9, <2>10
<1>3. CASE s.drv.drive = s.motor.select
  <2> DEFINE r == Transfer(u, ok)
  <2>1. FloppyOnInterrupt(s, ok) = r
    BY <1>3, Zenon DEF FloppyOnInterrupt
  <2> HIDE DEF u
  <2>2. /\ r \in State /\ Same(u, r)
        /\ u.queue # <<>> => r.panic = u.panic /\ Commanded(u, r)
        /\ u.queue = <<>> => r.panic \/ r.ctl.exec # "rw"
    BY <1>1, TransferCommands
  <2> HIDE DEF r
  <2>3. Commanded(u, r) => Commanded(s, r)
    BY <1>1 DEF Commanded
  <2>4. Positive(s) => Positive(r)
    BY <1>1, <2>2 DEF Positive, Same
  <2> QED BY <1>1, <1>3, <2>1, <2>2, <2>3, <2>4 DEF Same
<1> QED BY <1>2, <1>3

\* It needs a motor that is up to speed, and prepares the transfer.
LEMMA FloppyOnInterruptInv ==
  ASSUME NEW s \in State, NEW ok \in BOOLEAN, NEW n \in {0, 1}
  PROVE  LET r == FloppyOnInterrupt(s, ok) IN
         /\ Woken(s) => Woken(r)
         /\ Going(r)
         /\ /\ s.queue # <<>> /\ CURRENT(s).drive = s.drv.drive /\ s.drv.drive \in s.motor.on
            /\ s.motor.mon[s.drv.drive] <= Select /\ s.ctl.exec # "rw" /\ r.ctl.exec = "rw"
            => Begun(r)
         /\ /\ ~s.panic /\ s.timers = <<>> /\ s.queue # <<>> /\ CURRENT(s).fits
            /\ s.drv.do_floppy \notin {"rw", "seek"} /\ OnFor(s, n + Off - Spin)
            /\ s.motor.mon[s.drv.drive] <= Select
            => Sound(r) /\ Prepared(r, n)
<1> DEFINE r == FloppyOnInterrupt(s, ok)
           one == <<[jiffies |-> Select, fn |-> "transfer"]>>
<1>1. /\ r \in State
      /\ r.queue = s.queue /\ r.ended = s.ended /\ r.missed = s.missed /\ r.twice = s.twice
      /\ r.change = s.change /\ r.drv.drive = s.drv.drive /\ r.drv.selected
      /\ r.motor.on = s.motor.on /\ r.motor.mon = s.motor.mon /\ r.motor.moff = s.motor.moff
      /\ r.motor.select = s.drv.drive
      /\ \/ /\ r.drv.do_floppy = s.drv.do_floppy /\ r.ctl = s.ctl
            /\ r.panic \/ r.timers # <<>>
            /\ s.timers = <<>> => r.timers = one /\ r.panic = s.panic
         \/ /\ r.timers = s.timers
            /\ s.queue # <<>> => r.panic = s.panic /\ Commanded(s, r)
            /\ s.queue = <<>> => r.panic \/ r.ctl.exec # "rw"
  BY FloppyOnInterruptKeeps
<1>2. one # <<>> /\ Len(one) = 1 /\ Head(one).jiffies = Select /\ Head(one).fn = "transfer"
  OBVIOUS
<1> HIDE DEF r, one
<1>3. Woken(s) => Woken(r)
  BY <1>1 DEF Woken
<1>4. Going(r)
  BY <1>1 DEF Going, Commanded
<1>5. ASSUME s.queue # <<>>, CURRENT(s).drive = s.drv.drive, s.drv.drive \in s.motor.on,
             s.motor.mon[s.drv.drive] <= Select, s.ctl.exec # "rw", r.ctl.exec = "rw"
      PROVE  Begun(r)
  <2>1. CURRENT(r) = CURRENT(s)
    BY <1>1 DEF CURRENT
  <2>2. Commanded(s, r)
    BY <1>1, <1>5
  <2>3. r.ctl.rw.drive = s.drv.drive
    BY <2>2, <1>5 DEF Commanded
  <2> QED BY <1>1, <1>5, <2>1, <2>3 DEF Begun
<1>6. ASSUME ~s.panic, s.timers = <<>>, s.queue # <<>>, CURRENT(s).fits,
             s.drv.do_floppy \notin {"rw", "seek"}, OnFor(s, n + Off - Spin),
             s.motor.mon[s.drv.drive] <= Select
      PROVE  Sound(r) /\ Prepared(r, n)
  <2>1. CURRENT(r) = CURRENT(s)
    BY <1>1 DEF CURRENT
  <2>2. s.drv.drive \in Drives /\ s.motor.moff[s.drv.drive] \in Int /\ Len(s.timers) = 0
    BY <1>6, Constants DEF State, DriverType, MotorType
  <2>3. CASE r.drv.do_floppy = s.drv.do_floppy /\ r.ctl = s.ctl /\ r.timers = one /\ r.panic = s.panic
    <3>1. Sound(r)
      BY <2>1, <2>3, <1>1, <1>2, <1>6 DEF Sound
    <3>2. n + Select + Off - Spin - Select = n + Off - Spin
      BY Constants
    <3>3. OnFor(r, n + Select + Off - Spin - Select) /\ Chosen(r)
      BY <2>1, <1>1, <1>6, <3>2 DEF OnFor, Chosen
    <3> QED BY <3>1, <3>3, <2>3, <1>1, <1>2, <1>6 DEF Prepared, TimerPrepared, SeekPrepared
  <2>4. CASE r.timers = <<>> /\ r.panic = s.panic /\ Commanded(s, r)
    <3>1. Sound(r)
      BY <2>1, <2>2, <2>4, <1>1, <1>6 DEF Sound, Commanded
    <3>2. ASSUME r.drv.do_floppy = "seek"
          PROVE  OnFor(r, n + Off - Spin - Select - r.ctl.age)
      <4>1. r.ctl.age = 0
        BY <2>4, <3>2 DEF Commanded
      <4>2. n + Off - Spin - Select - 0 <= n + Off - Spin
        BY Constants
      <4> QED BY <2>1, <2>2, <1>1, <1>6, <4>1, <4>2, Constants DEF OnFor
    <3>3. Chosen(r) /\ r.motor.mon[r.drv.drive] <= Select
      BY <1>1, <1>6 DEF Chosen
    <3> QED BY <3>1, <3>2, <3>3, <2>4 DEF Prepared, TimerPrepared, SeekPrepared
  <2> QED BY <1>1, <1>6, <2>3, <2>4
<1> QED BY <1>3, <1>4, <1>5, <1>6 DEF r

-----------------------------------------------------------------------------
(* do_fd_request()                                                         *)

\* How many requests are outside their floppy
LEMMA UnfitProperties ==
  ASSUME NEW s \in State
  PROVE  LET n == Unfit(s) IN
         /\ n \in 0..Len(s.queue)
         /\ n < Len(s.queue) => s.queue[n + 1].fits
         /\ s.queue # <<>> /\ CURRENT(s).fits => n = 0
<1> DEFINE q == s.queue
           fit == {n \in 0..Len(q) : n < Len(q) => q[n + 1].fits}
           k == Min(fit)
<1>1. q \in Seq(Requests) /\ Len(q) \in Nat
  BY DEF State, Queues
<1>2. Len(q) \in fit /\ fit \in SUBSET Nat
  BY <1>1
<1>3. k \in fit /\ \A n \in fit : k <= n
  BY <1>2, Least
<1> HIDE DEF k
<1>4. k \in 0..Len(q) /\ k \in Nat /\ (k < Len(q) => q[k + 1].fits)
  BY <1>3, <1>1
<1>5. ASSUME NEW i \in 1..k PROVE ~q[i].fits
  <2>1. i - 1 \in 0..Len(q) /\ i - 1 < Len(q) /\ ~(k <= i - 1) /\ (i - 1) + 1 = i
    BY <1>4, <1>1
  <2>2. i - 1 \notin fit
    BY <2>1, <1>3
  <2> QED BY <2>1, <2>2
<1> DEFINE Good(n) == (\A i \in 1..n : ~q[i].fits) /\ (n < Len(q) => q[n + 1].fits)
<1>6. Unfit(s) = CHOOSE n \in 0..Len(q) : Good(n)
  BY DEF Unfit
<1>7. Good(k)
  BY <1>4, <1>5
<1> HIDE DEF Good
<1>8. Unfit(s) \in 0..Len(q) /\ Good(Unfit(s))
  BY <1>4, <1>6, <1>7, Zenon
<1>9. q # <<>> /\ Head(q).fits => Unfit(s) = 0
  <2> SUFFICES ASSUME q # <<>>, Head(q).fits, Unfit(s) # 0 PROVE FALSE
    OBVIOUS
  <2>1. Head(q) = q[1] /\ 1 \in 1..Unfit(s)
    BY <1>1, <1>8
  <2> QED BY <2>1, <1>8 DEF Good
<1> QED BY <1>8, <1>9 DEF Good, CURRENT

\* Ending the requests that do not fit leaves one that does, or none.
LEMMA EndUnfitKeeps ==
  ASSUME NEW s \in State
  PROVE  LET r == EndUnfit(s) IN
         /\ r \in State
         /\ r.queue # <<>> => CURRENT(r).fits
         /\ s.queue # <<>> /\ CURRENT(s).fits => r.queue # <<>>
         /\ r.motor.on = s.motor.on /\ r.motor.mon = s.motor.mon /\ r.motor.select = s.motor.select
         /\ r.drv.do_floppy = s.drv.do_floppy /\ r.drv.selected = s.drv.selected
         /\ r.timers = s.timers /\ r.ctl = s.ctl /\ r.change = s.change /\ r.panic = s.panic
         /\ r.missed = s.missed /\ r.twice = s.twice
<1> DEFINE k == Unfit(s)
           q == SubSeq(s.queue, k + 1, Len(s.queue))
           n == (s.ended + k) % Rounds
           f == [d \in Drives |-> IF \E i \in 1..k : s.queue[i].drive = d THEN Off
                                  ELSE s.motor.moff[d]]
           m == [s.motor EXCEPT !.moff = f]
           b == \E i \in 1..k : s.queue[i].drive # s.drv.drive
           w == IF k = 0 THEN s.drv.drive ELSE s.queue[k].drive
           d == [s.drv EXCEPT !.seek = b, !.drive = w]
           r == EndUnfit(s)
<1>1. /\ k \in 0..Len(s.queue)
      /\ k < Len(s.queue) => s.queue[k + 1].fits
      /\ s.queue # <<>> /\ CURRENT(s).fits => k = 0
  BY UnfitProperties
<1>2. /\ s.queue \in Seq(Requests) /\ Len(s.queue) \in Nat /\ Len(s.queue) <= MaxQueue
      /\ \A i \in 1..Len(s.queue) : s.queue[i] \in Requests
  BY DEF State, Queues
<1>3. r = [s EXCEPT !.queue = q, !.ended = n, !.motor = m, !.drv = d]
  BY DEF EndUnfit
<1> HIDE DEF k
<1>4. /\ q \in Queues
      /\ q # <<>> => k < Len(s.queue) /\ Head(q) = s.queue[k + 1]
      /\ s.queue # <<>> /\ CURRENT(s).fits => q # <<>>
  <2>1. \A i \in k + 1..Len(s.queue) : s.queue[i] \in Requests
    BY <1>1, <1>2
  <2> HIDE DEF q
  <2>2. /\ q \in Seq(Requests)
        /\ Len(q) = IF k + 1 <= Len(s.queue) THEN Len(s.queue) - (k + 1) + 1 ELSE 0
        /\ \A i \in 1..Len(s.queue) - (k + 1) + 1 : q[i] = s.queue[(k + 1) + i - 1]
    BY <2>1, <1>1, <1>2, SubSeqProperties DEF q
  <2>3. Len(q) = Len(s.queue) - k
    BY <2>2, <1>1, <1>2
  <2>4. q \in Queues
    BY <2>2, <2>3, <1>1, <1>2, Constants DEF Queues
  <2>5. ASSUME q # <<>> PROVE k < Len(s.queue) /\ Head(q) = s.queue[k + 1]
    <3>1. Len(q) \in Nat \ {0}
      BY <2>5, <2>2, EmptySeq
    <3>2. Head(q) = q[1] /\ 1 \in 1..Len(s.queue) - (k + 1) + 1 /\ (k + 1) + 1 - 1 = k + 1
      BY <3>1, <2>2, <2>3, <1>1, <1>2
    <3> QED BY <3>1, <3>2, <2>2, <2>3, <1>1, <1>2
  <2>6. ASSUME s.queue # <<>>, CURRENT(s).fits PROVE q # <<>>
    <3>1. Len(s.queue) \in Nat \ {0}
      BY <2>6, <1>2, EmptySeq
    <3>2. Len(q) # 0
      BY <3>1, <2>3, <2>6, <1>1
    <3> QED BY <3>2, EmptySeq
  <2> QED BY <2>4, <2>5, <2>6
<1>5. n \in 0..MaxQueue
  BY <1>1, <1>2, Constants DEF State, Rounds
<1>6. s.motor \in MotorType /\ s.drv \in DriverType
  BY DEF State
<1>7. f \in [Drives -> 0..Big]
  BY <1>6, Constants DEF MotorType
<1> HIDE DEF f
<1>8. /\ m \in MotorType /\ m.on = s.motor.on /\ m.mon = s.motor.mon
      /\ m.select = s.motor.select
  BY <1>6, <1>7 DEF MotorType
<1>9. b \in BOOLEAN
  OBVIOUS
<1>10. w \in Drives
  BY <1>1, <1>2, <1>6 DEF DriverType, Requests
<1> HIDE DEF b, w
<1>11. d \in DriverType /\ d.do_floppy = s.drv.do_floppy /\ d.selected = s.drv.selected
  BY <1>6, <1>9, <1>10 DEF DriverType
<1> HIDE DEF q, n, m, d, r
<1>12. r \in State /\ r.queue = q /\ r.motor = m /\ r.drv = d
  BY <1>3, <1>4, <1>5, <1>8, <1>11 DEF State
<1>13. r.queue # <<>> => CURRENT(r).fits
  BY <1>1, <1>4, <1>12 DEF CURRENT
<1>14. /\ r.timers = s.timers /\ r.ctl = s.ctl /\ r.change = s.change /\ r.panic = s.panic
       /\ r.missed = s.missed /\ r.twice = s.twice
  BY <1>3 DEF State
<1> QED BY <1>4, <1>8, <1>11, <1>12, <1>13, <1>14 DEF r

\* The first request is looked at: its drive and its track are taken over.
LooksAt(s) ==
  [s EXCEPT !.twice = @ \/ s.timers # <<>>,
            !.drv.seek = @ \/ CURRENT(s).drive # s.drv.drive \/ CURRENT(s).track # s.drv.track,
            !.drv.drive = CURRENT(s).drive, !.drv.seek_track = CURRENT(s).track]

\* Its drive is the one of CURRENT then.
LEMMA LooksAtCURRENT ==
  ASSUME NEW s \in State, s.queue # <<>>
  PROVE  LET u == LooksAt(s) IN
         /\ u \in State
         /\ CURRENT(s).drive \in Drives /\ u.drv.drive = CURRENT(s).drive
         /\ u.twice = (s.twice \/ s.timers # <<>>)
         /\ u.drv.do_floppy = s.drv.do_floppy /\ u.drv.selected = s.drv.selected
         /\ u.queue = s.queue /\ u.motor = s.motor /\ u.timers = s.timers /\ u.ctl = s.ctl
         /\ u.change = s.change /\ u.ended = s.ended /\ u.panic = s.panic /\ u.missed = s.missed
<1> DEFINE u == LooksAt(s)
           c == CURRENT(s)
           b == s.drv.seek \/ c.drive # s.drv.drive \/ c.track # s.drv.track
           w == s.twice \/ s.timers # <<>>
           d == [s.drv EXCEPT !.seek = b, !.drive = c.drive, !.seek_track = c.track]
<1>1. c \in Requests
  <2>1. s.queue \in Seq(Requests)
    BY DEF State, Queues
  <2> QED BY <2>1, HeadTailProperties DEF CURRENT
<1>2. c.drive \in Drives /\ c.track \in Tracks
  BY <1>1 DEF Requests
<1>3. b \in BOOLEAN /\ w \in BOOLEAN /\ s.drv \in DriverType
  BY DEF State
<1>4. u = [s EXCEPT !.twice = w, !.drv = d]
  BY DEF LooksAt
<1> HIDE DEF u, c, b, w
<1>5. /\ d \in DriverType /\ d.do_floppy = s.drv.do_floppy /\ d.selected = s.drv.selected
      /\ d.drive = c.drive
  BY <1>2, <1>3 DEF DriverType
<1> HIDE DEF d
<1>6. u \in State /\ u.drv = d /\ u.twice = w
  BY <1>3, <1>4, <1>5 DEF State
<1>7. /\ u.queue = s.queue /\ u.motor = s.motor /\ u.timers = s.timers /\ u.ctl = s.ctl
      /\ u.change = s.change /\ u.ended = s.ended /\ u.panic = s.panic /\ u.missed = s.missed
  BY <1>4 DEF State
<1> QED BY <1>2, <1>5, <1>6, <1>7 DEF c, w, u

\* What do_fd_request() needs, and what it leaves
Waits(s) ==
  ~s.twice => Sound(s) /\ TimerPrepared(s, 0) /\ s.drv.do_floppy \notin {"rw", "seek"}

\* What do_fd_request() leaves
Served(s) == ~s.twice => Sound(s) /\ Prepared(s, 0)

\* The first request is begun: its motor is turned on, and a timer set.
LEMMA StartCURRENTKeeps ==
  ASSUME NEW s \in State, NEW ok \in BOOLEAN, s.queue # <<>>
  PROVE  LET r == StartCURRENT(s, ok) IN
         /\ r \in State
         /\ Woken(s) => Woken(r)
         /\ Positive(s) => Positive(r)
         /\ Going(r)
         /\ s.ctl.exec # "rw" /\ r.ctl.exec = "rw" => Begun(r)
         /\ CURRENT(s).fits /\ (s.timers = <<>> /\ ~s.twice =>
               ~s.panic /\ s.drv.do_floppy \notin {"rw", "seek"}) => Served(r)
<1> DEFINE u == LooksAt(s)
           H == s.timers = <<>> /\ ~s.twice => ~s.panic /\ s.drv.do_floppy \notin {"rw", "seek"}
           v == TicksToFloppyOn(u, CURRENT(s).drive)
           d == CURRENT(s).drive
           r == StartCURRENT(s, ok)
<1>1. r = IF v.motor.mon[d] = 0 THEN FloppyOnInterrupt(v, ok)
          ELSE AddTimer(v, v.motor.mon[d], "floppy_on")
  BY DEF StartCURRENT, LooksAt
<1>2. /\ u \in State /\ d \in Drives /\ u.drv.drive = d
      /\ u.twice = (s.twice \/ s.timers # <<>>)
      /\ u.drv.do_floppy = s.drv.do_floppy /\ u.drv.selected = s.drv.selected
      /\ u.queue = s.queue /\ u.motor = s.motor /\ u.timers = s.timers /\ u.ctl = s.ctl
      /\ u.change = s.change /\ u.ended = s.ended /\ u.panic = s.panic /\ u.missed = s.missed
  BY LooksAtCURRENT
<1> HIDE DEF u
<1>3. /\ v \in State /\ v = [u EXCEPT !.motor = v.motor]
      /\ v.motor.moff = [s.motor.moff EXCEPT ![d] = Big]
      /\ v.motor.on = s.motor.on \cup {d}
      /\ \A e \in Drives : e # d => v.motor.mon[e] = s.motor.mon[e]
      /\ v.motor.mon[d] = IF d \notin s.motor.on THEN Spin
                          ELSE IF v.motor.select # s.motor.select /\ s.motor.mon[d] < Select
                          THEN Select ELSE s.motor.mon[d]
  <2> HIDE DEF d
  <2>1. TicksToFloppyOn(u, d) = v
    BY DEF d
  <2> HIDE DEF v
  <2>2. /\ v \in State /\ v = [u EXCEPT !.motor = v.motor]
        /\ v.motor.moff = [u.motor.moff EXCEPT ![d] = Big]
        /\ v.motor.on = u.motor.on \cup {d}
        /\ \A e \in Drives : e # d => v.motor.mon[e] = u.motor.mon[e]
        /\ v.motor.mon[d] = IF d \notin u.motor.on THEN Spin
                            ELSE IF v.motor.select # u.motor.select /\ u.motor.mon[d] < Select
                            THEN Select ELSE u.motor.mon[d]
    <3>1. u \in State /\ d \in Drives
      BY <1>2
    <3> HIDE DEF u
    <3> QED BY <3>1, <2>1, TicksToFloppyOnType
  <2> QED BY <1>2, <2>2, Zenon
<1> HIDE DEF v, d, r
<1>4. /\ v.drv = u.drv /\ v.queue = s.queue /\ v.timers = s.timers /\ v.ctl = s.ctl
      /\ v.change = s.change /\ v.ended = s.ended /\ v.panic = s.panic /\ v.missed = s.missed
      /\ v.twice = u.twice
  BY <1>2, <1>3 DEF State
<1>5. /\ v.motor.mon[d] \in 0..Spin /\ v.motor.moff[d] = Big /\ d \in v.motor.on
      /\ s.motor.mon \in [Drives -> 0..Spin] /\ s.motor.moff \in [Drives -> 0..Big]
  BY <1>2, <1>3 DEF State, MotorType
<1>6. CURRENT(v) = CURRENT(s) /\ CURRENT(s).drive = d
  BY <1>4 DEF CURRENT, d
<1>7. Woken(s) => Woken(v)
  <2>1. ASSUME s.change.nr \in s.motor.on, s.motor.mon[s.change.nr] > 0
        PROVE  s.change.nr \in v.motor.on /\ v.motor.mon[s.change.nr] > 0
    <3>1. s.change.nr \in Drives
      BY DEF State, ChangeType
    <3> QED BY <2>1, <3>1, <1>3, Constants
  <2> QED BY <2>1, <1>2, <1>4 DEF Woken
<1>8. Positive(s) => Positive(v)
  BY <1>4 DEF Positive
<1>9. CASE v.motor.mon[d] = 0
  <2>1. r = FloppyOnInterrupt(v, ok)
    BY <1>1, <1>9
  <2>2. r \in State /\ (Positive(v) => Positive(r)) /\ r.twice = v.twice
    BY <2>1, <1>3, FloppyOnInterruptKeeps
  <2>3. /\ Woken(v) => Woken(r)
        /\ Going(r)
        /\ /\ v.queue # <<>> /\ CURRENT(v).drive = v.drv.drive /\ v.drv.drive \in v.motor.on
           /\ v.motor.mon[v.drv.drive] <= Select /\ v.ctl.exec # "rw" /\ r.ctl.exec = "rw"
           => Begun(r)
        /\ /\ ~v.panic /\ v.timers = <<>> /\ v.queue # <<>> /\ CURRENT(v).fits
           /\ v.drv.do_floppy \notin {"rw", "seek"} /\ OnFor(v, 0 + Off - Spin)
           /\ v.motor.mon[v.drv.drive] <= Select
           => Sound(r) /\ Prepared(r, 0)
    BY <2>1, <1>3, FloppyOnInterruptInv
  <2>4. s.ctl.exec # "rw" /\ r.ctl.exec = "rw" => Begun(r)
    BY <2>3, <1>2, <1>4, <1>5, <1>6, <1>9, Constants
  <2>5. ASSUME CURRENT(s).fits, H, ~r.twice
        PROVE  Sound(r) /\ Prepared(r, 0)
    <3>1. ~s.twice /\ s.timers = <<>>
      BY <2>2, <2>5, <1>2, <1>4
    <3>2. ~s.panic /\ s.drv.do_floppy \notin {"rw", "seek"}
      BY <2>5, <3>1
    <3>3. OnFor(v, 0 + Off - Spin)
      BY <1>2, <1>4, <1>5, <1>6, Constants DEF OnFor
    <3> QED BY <2>3, <3>1, <3>2, <3>3, <2>5, <1>2, <1>4, <1>6, <1>9, Constants
  <2> QED BY <2>2, <2>3, <2>4, <2>5, <1>7, <1>8 DEF Served, r
<1>10. CASE v.motor.mon[d] # 0
  <2> DEFINE j == v.motor.mon[d]
             one == <<[jiffies |-> j, fn |-> "floppy_on"]>>
  <2>1. j \in 1..Spin
    BY <1>5, <1>10, Constants
  <2>2. r = AddTimer(v, j, "floppy_on")
    BY <1>1, <1>10
  <2> HIDE DEF j
  <2>3. /\ r \in State
        /\ r = [v EXCEPT !.panic = TRUE] \/ (r.timers # <<>> /\ r = [v EXCEPT !.timers = r.timers])
        /\ Positive(v) => Positive(r)
        /\ v.timers = <<>> => r = [v EXCEPT !.timers = one]
    BY <2>1, <2>2, <1>3, AddTimerType
  <2> HIDE DEF one
  <2>4. /\ r.drv = v.drv /\ r.queue = v.queue /\ r.motor = v.motor /\ r.ctl = v.ctl
        /\ r.change = v.change /\ r.ended = v.ended /\ r.missed = v.missed /\ r.twice = v.twice
        /\ r.panic \/ r.timers # <<>>
        /\ v.timers = <<>> => r.timers = one /\ r.panic = v.panic
    BY <2>3, <1>3 DEF State
  <2>5. Woken(v) => Woken(r)
    BY <2>4 DEF Woken
  <2>6. Going(r)
    BY <2>4 DEF Going
  <2>7. ~(s.ctl.exec # "rw" /\ r.ctl.exec = "rw")
    BY <2>4, <1>4
  <2>8. ASSUME CURRENT(s).fits, H, ~r.twice
        PROVE  Sound(r) /\ Prepared(r, 0)
    <3>1. ~s.twice /\ s.timers = <<>>
      BY <2>4, <2>8, <1>2, <1>4
    <3>2. ~s.panic /\ s.drv.do_floppy \notin {"rw", "seek"}
      BY <2>8, <3>1
    <3>3. r.timers = one /\ ~r.panic
      BY <2>4, <3>1, <3>2, <1>4, <1>2
    <3>4. one # <<>> /\ Len(one) = 1 /\ Head(one).jiffies = j /\ Head(one).fn = "floppy_on"
      BY DEF one
    <3>5. CURRENT(r) = CURRENT(s)
      BY <2>4, <1>4 DEF CURRENT
    <3>6. Sound(r)
      BY <2>8, <3>2, <3>3, <3>4, <3>5, <2>4, <1>2, <1>4 DEF Sound
    <3>7. OnFor(r, 0 + j + Off - Spin)
      BY <2>1, <2>4, <3>5, <1>2, <1>4, <1>5, <1>6, Constants DEF OnFor
    <3>8. r.motor.mon[r.drv.drive] = j
      BY <2>4, <1>2, <1>4 DEF j
    <3>9. TimerPrepared(r, 0)
      BY <3>3, <3>4, <3>7, <3>8, <2>1 DEF TimerPrepared
    <3>10. SeekPrepared(r, 0)
      BY <3>2, <2>4, <1>2, <1>4 DEF SeekPrepared
    <3> QED BY <3>6, <3>9, <3>10 DEF Prepared
  <2> QED BY <2>3, <2>5, <2>6, <2>7, <2>8, <1>7, <1>8 DEF Served, r
<1> QED BY <1>9, <1>10

\* A command that is not for a transfer leaves a timer that is set alone.
LEMMA ResetServes ==
  ASSUME NEW s \in State, NEW r \in State, Same(s, r), r.panic = s.panic, Commanded(s, r),
         r.drv.do_floppy \in {"recal", "reset"}
  PROVE  /\ Woken(s) => Woken(r)
         /\ Positive(s) => Positive(r)
         /\ Going(r)
         /\ r.ctl.exec # "rw"
         /\ Waits(s) => Served(r)
<1>1. r.ctl.exec # "rw"
  BY DEF Commanded
<1>2. Woken(s) => Woken(r)
  BY DEF Woken, Same
<1>3. Positive(s) => Positive(r)
  BY DEF Positive, Same
<1>4. Going(r)
  BY DEF Going, Commanded
<1>5. CURRENT(r) = CURRENT(s)
  BY DEF CURRENT, Same
<1>6. ASSUME Waits(s), ~r.twice PROVE Sound(r) /\ Prepared(r, 0)
  <2>1. Sound(s) /\ TimerPrepared(s, 0)
    BY <1>6 DEF Waits, Same
  <2>2. Sound(r)
    BY <2>1, <1>5 DEF Sound, Same
  <2>3. TimerPrepared(r, 0)
    BY <2>1, <1>5 DEF TimerPrepared, Same, OnFor, Chosen
  <2>4. SeekPrepared(r, 0)
    BY DEF SeekPrepared
  <2> QED BY <2>2, <2>3, <2>4 DEF Prepared
<1> QED BY <1>1, <1>2, <1>3, <1>4, <1>6 DEF Served

\* do_fd_request(), whoever calls it
LEMMA DoFdRequestKeeps ==
  ASSUME NEW s \in State, NEW ok \in BOOLEAN
  PROVE  LET r == DoFdRequest(s, ok) IN
         /\ r \in State
         /\ Woken(s) => Woken(r)
         /\ Positive(s) => Positive(r)
         /\ Going(r)
         /\ s.ctl.exec # "rw" /\ r.ctl.exec = "rw" => Begun(r)
         /\ Waits(s) => Served(r)
<1> DEFINE u == [s EXCEPT !.drv.seek = FALSE]
           r == DoFdRequest(s, ok)
<1>1. /\ u \in State
      /\ u.drv.do_floppy = s.drv.do_floppy /\ u.drv.drive = s.drv.drive
      /\ u.drv.selected = s.drv.selected
      /\ u.queue = s.queue /\ u.motor = s.motor /\ u.timers = s.timers /\ u.ctl = s.ctl
      /\ u.change = s.change /\ u.ended = s.ended /\ u.panic = s.panic /\ u.missed = s.missed
      /\ u.twice = s.twice
  <2> DEFINE d == [s.drv EXCEPT !.seek = FALSE]
  <2>1. /\ d \in DriverType /\ d.do_floppy = s.drv.do_floppy /\ d.drive = s.drv.drive
        /\ d.selected = s.drv.selected
    BY DEF State, DriverType
  <2>2. u = [s EXCEPT !.drv = d]
    OBVIOUS
  <2> HIDE DEF d, u
  <2> QED BY <2>1, <2>2 DEF State
<1>2. r = CASE s.drv.reset -> ResetFloppy(u)
            [] ~s.drv.reset /\ s.drv.recalibrate -> RecalibrateFloppy(u, ok)
            [] OTHER -> IF EndUnfit(u).queue = <<>> THEN EndUnfit(u)
                        ELSE StartCURRENT(EndUnfit(u), ok)
  BY Zenon DEF DoFdRequest
<1>3. s.drv.reset \in BOOLEAN /\ s.drv.recalibrate \in BOOLEAN
  BY DEF State, DriverType
<1> HIDE DEF u, r
<1>4. CURRENT(u) = CURRENT(s)
  BY <1>1 DEF CURRENT
<1>5. /\ Woken(s) => Woken(u)
      /\ Positive(s) => Positive(u)
      /\ Waits(s) => Waits(u)
  <2>1. Woken(s) => Woken(u)
    BY <1>1 DEF Woken
  <2>2. Positive(s) => Positive(u)
    BY <1>1 DEF Positive
  <2>3. Sound(s) => Sound(u)
    BY <1>1, <1>4 DEF Sound
  <2>4. TimerPrepared(s, 0) => TimerPrepared(u, 0)
    BY <1>1, <1>4 DEF TimerPrepared, OnFor, Chosen
  <2> QED BY <1>1, <2>1, <2>2, <2>3, <2>4 DEF Waits
<1>6. CASE s.drv.reset
  <2>1. r = ResetFloppy(u)
    BY <1>2, <1>6
  <2>2. /\ r \in State /\ Same(u, r) /\ r.panic = u.panic /\ Commanded(u, r)
        /\ r.drv.do_floppy = "reset"
    BY <2>1, <1>1, ResetFloppyCommands
  <2>3. /\ Woken(u) => Woken(r)
        /\ Positive(u) => Positive(r)
        /\ Going(r) /\ r.ctl.exec # "rw"
        /\ Waits(u) => Served(r)
    BY <2>2, <1>1, ResetServes
  <2> QED BY <2>2, <2>3, <1>5 DEF r
<1>7. CASE ~s.drv.reset /\ s.drv.recalibrate
  <2> DEFINE v == [u EXCEPT !.drv.recalibrate = FALSE, !.drv.track = 0]
  <2>1. r = SendSeek(v, "recal", 0, ok)
    BY <1>2, <1>7 DEF RecalibrateFloppy
  <2>2. /\ v \in State
        /\ v.drv.do_floppy = u.drv.do_floppy /\ v.drv.drive = u.drv.drive
        /\ v.drv.selected = u.drv.selected
        /\ v.queue = u.queue /\ v.motor = u.motor /\ v.timers = u.timers /\ v.ctl = u.ctl
        /\ v.change = u.change /\ v.ended = u.ended /\ v.panic = u.panic /\ v.missed = u.missed
        /\ v.twice = u.twice
    <3> DEFINE d == [u.drv EXCEPT !.recalibrate = FALSE, !.track = 0]
    <3>1. /\ d \in DriverType /\ d.do_floppy = u.drv.do_floppy /\ d.drive = u.drv.drive
          /\ d.selected = u.drv.selected
      BY <1>1, Constants DEF State, DriverType
    <3>2. v = [u EXCEPT !.drv = d]
      OBVIOUS
    <3> HIDE DEF d, v
    <3> QED BY <3>1, <3>2, <1>1 DEF State
  <2> HIDE DEF v
  <2>3. /\ r \in State /\ Same(v, r) /\ r.panic = v.panic /\ Commanded(v, r)
        /\ r.drv.do_floppy \in {"recal", "reset"}
    BY <2>1, <2>2, SendSeekCommands, Constants
  <2>4. /\ Woken(v) => Woken(r)
        /\ Positive(v) => Positive(r)
        /\ Going(r) /\ r.ctl.exec # "rw"
        /\ Waits(v) => Served(r)
    BY <2>2, <2>3, ResetServes
  <2>5. CURRENT(v) = CURRENT(u)
    BY <2>2 DEF CURRENT
  <2>6. /\ Woken(u) => Woken(v)
        /\ Positive(u) => Positive(v)
        /\ Waits(u) => Waits(v)
    <3>1. Woken(u) => Woken(v)
      BY <2>2 DEF Woken
    <3>2. Positive(u) => Positive(v)
      BY <2>2 DEF Positive
    <3>3. Sound(u) => Sound(v)
      BY <2>2, <2>5 DEF Sound
    <3>4. TimerPrepared(u, 0) => TimerPrepared(v, 0)
      BY <2>2, <2>5 DEF TimerPrepared, OnFor, Chosen
    <3> QED BY <2>2, <3>1, <3>2, <3>3, <3>4 DEF Waits
  <2> QED BY <2>3, <2>4, <2>6, <1>5 DEF r
<1>8. CASE ~s.drv.reset /\ ~s.drv.recalibrate
  <2> DEFINE v == EndUnfit(u)
  <2>1. r = IF v.queue = <<>> THEN v ELSE StartCURRENT(v, ok)
    BY <1>2, <1>8
  <2>2. /\ v \in State
        /\ v.queue # <<>> => CURRENT(v).fits
        /\ u.queue # <<>> /\ CURRENT(u).fits => v.queue # <<>>
        /\ v.motor.on = u.motor.on /\ v.motor.mon = u.motor.mon /\ v.motor.select = u.motor.select
        /\ v.drv.do_floppy = u.drv.do_floppy /\ v.drv.selected = u.drv.selected
        /\ v.timers = u.timers /\ v.ctl = u.ctl /\ v.change = u.change /\ v.panic = u.panic
        /\ v.missed = u.missed /\ v.twice = u.twice
    BY <1>1, EndUnfitKeeps
  <2> HIDE DEF v
  <2>3. Woken(u) => Woken(v)
    BY <2>2 DEF Woken
  <2>4. Positive(u) => Positive(v)
    BY <2>2 DEF Positive
  <2>5. CASE v.queue = <<>>
    <3>1. r = v
      BY <2>1, <2>5
    <3>2. Going(v)
      BY <2>5 DEF Going
    <3>3. ASSUME Waits(u), ~v.twice PROVE Sound(v) /\ Prepared(v, 0)
      <4>1. Sound(u) /\ u.drv.do_floppy \notin {"rw", "seek"}
        BY <3>3, <2>2 DEF Waits
      <4>2. v.timers = <<>>
        BY <4>1, <2>2, <2>5 DEF Sound
      <4>3. Sound(v)
        BY <4>1, <4>2, <2>2 DEF Sound
      <4> QED BY <4>1, <4>2, <4>3, <2>2 DEF Prepared, TimerPrepared, SeekPrepared
    <3> QED BY <3>1, <3>2, <3>3, <2>2, <2>3, <2>4, <1>1, <1>5 DEF Served, r
  <2>6. CASE v.queue # <<>>
    <3>1. r = StartCURRENT(v, ok)
      BY <2>1, <2>6
    <3>2. /\ r \in State
          /\ Woken(v) => Woken(r)
          /\ Positive(v) => Positive(r)
          /\ Going(r)
          /\ v.ctl.exec # "rw" /\ r.ctl.exec = "rw" => Begun(r)
          /\ CURRENT(v).fits /\ (v.timers = <<>> /\ ~v.twice =>
                ~v.panic /\ v.drv.do_floppy \notin {"rw", "seek"}) => Served(r)
      BY <3>1, <2>2, <2>6, StartCURRENTKeeps
    <3>3. Waits(u) => (v.timers = <<>> /\ ~v.twice =>
                ~v.panic /\ v.drv.do_floppy \notin {"rw", "seek"})
      BY <2>2 DEF Waits, Sound
    <3> QED BY <3>2, <3>3, <2>2, <2>3, <2>4, <2>6, <1>1, <1>5 DEF r
  <2> QED BY <2>5, <2>6
<1> QED BY <1>3, <1>6, <1>7, <1>8

-----------------------------------------------------------------------------
(* What an interrupt does before it goes on with the requests.             *)

\* States that differ in the flags and the controller alone
Alike(s, r) == Same(s, r) /\ r.panic = s.panic /\ r.drv.do_floppy = s.drv.do_floppy

\* The invariant does not look at the flags.
LEMMA AlikeKeeps ==
  ASSUME NEW s \in State, NEW r \in State, Alike(s, r)
  PROVE  /\ Woken(s) => Woken(r)
         /\ Positive(s) => Positive(r)
         /\ Waits(s) => Waits(r)
<1>1. CURRENT(r) = CURRENT(s)
  BY DEF CURRENT, Alike, Same
<1>2. Woken(s) => Woken(r)
  BY DEF Woken, Alike, Same
<1>3. Positive(s) => Positive(r)
  BY DEF Positive, Alike, Same
<1>4. Waits(s) => Waits(r)
  <2> SUFFICES ASSUME Waits(s), ~r.twice
               PROVE  Sound(r) /\ TimerPrepared(r, 0) /\ r.drv.do_floppy \notin {"rw", "seek"}
    BY DEF Waits
  <2>1. Sound(s) /\ TimerPrepared(s, 0) /\ s.drv.do_floppy \notin {"rw", "seek"}
    BY DEF Waits, Alike, Same
  <2>2. Sound(r)
    BY <2>1, <1>1 DEF Sound, Alike, Same
  <2>3. TimerPrepared(r, 0)
    BY <2>1, <1>1 DEF TimerPrepared, Alike, Same, OnFor, Chosen
  <2> QED BY <2>1, <2>2, <2>3 DEF Alike
<1> QED BY <1>2, <1>3, <1>4

\* Without a timer, and with no transfer under way, nothing is left to prepare.
LEMMA QuietWaits ==
  ASSUME NEW s \in State,
         ~s.twice => s.timers = <<>> /\ ~s.panic /\ s.drv.do_floppy \notin {"rw", "seek"}
  PROVE  Waits(s)
<1>1. s.timers = <<>> => Len(s.timers) = 0
  OBVIOUS
<1> QED BY <1>1 DEF Waits, Sound, TimerPrepared

\* FD_SENSEI changes the flags and the controller alone.
LEMMA SensedKeeps ==
  ASSUME NEW s \in State, NEW ok \in BOOLEAN
  PROVE  LET r == Sensed(s, ok) IN
         r \in State /\ Alike(s, r) /\ r.ctl.exec = s.ctl.exec
<1> DEFINE r == Sensed(s, ok)
<1>1. CASE ok /\ Ready(s)
  <2> DEFINE c == [s.ctl EXCEPT !.sense = "none", !.at = 0]
  <2>1. c \in ControllerType /\ c.exec = s.ctl.exec
    <3>1. s.ctl \in ControllerType
      BY DEF State
    <3>2. [s.ctl EXCEPT !.sense = "none"] \in ControllerType
      BY <3>1 DEF ControllerType
    <3>3. c = [[s.ctl EXCEPT !.sense = "none"] EXCEPT !.at = 0]
      BY <3>1 DEF ControllerType
    <3> QED BY <3>1, <3>2, <3>3, Constants DEF ControllerType
  <2>2. r = [s EXCEPT !.ctl = c]
    BY <1>1 DEF Sensed
  <2> HIDE DEF r, c
  <2> QED BY <2>1, <2>2 DEF State, Alike, Same, r
<1>2. CASE ~(ok /\ Ready(s))
  <2> DEFINE d == [s.drv EXCEPT !.reset = TRUE]
  <2>1. /\ d \in DriverType /\ d.do_floppy = s.drv.do_floppy /\ d.drive = s.drv.drive
        /\ d.selected = s.drv.selected
    BY DEF State, DriverType
  <2>2. r = [s EXCEPT !.drv = d]
    BY <1>2 DEF Sensed
  <2> HIDE DEF r, d
  <2> QED BY <2>1, <2>2 DEF State, Alike, Same, r
<1> QED BY <1>1, <1>2

\* A flag is set or cleared.
LEMMA FlagsKeep ==
  ASSUME NEW s \in State, NEW b \in BOOLEAN
  PROVE  /\ [s EXCEPT !.drv.reset = b] \in State /\ Alike(s, [s EXCEPT !.drv.reset = b])
         /\ [s EXCEPT !.drv.reset = b].ctl = s.ctl
         /\ [s EXCEPT !.drv.recalibrate = b] \in State /\ Alike(s, [s EXCEPT !.drv.recalibrate = b])
         /\ [s EXCEPT !.drv.recalibrate = b].ctl = s.ctl
<1> DEFINE d == [s.drv EXCEPT !.reset = b]
           e == [s.drv EXCEPT !.recalibrate = b]
<1>1. /\ d \in DriverType /\ d.do_floppy = s.drv.do_floppy /\ d.drive = s.drv.drive
      /\ d.selected = s.drv.selected
      /\ e \in DriverType /\ e.do_floppy = s.drv.do_floppy /\ e.drive = s.drv.drive
      /\ e.selected = s.drv.selected
  BY DEF State, DriverType
<1>2. /\ [s EXCEPT !.drv.reset = b] = [s EXCEPT !.drv = d]
      /\ [s EXCEPT !.drv.recalibrate = b] = [s EXCEPT !.drv = e]
  OBVIOUS
<1> HIDE DEF d, e
<1>3. /\ [s EXCEPT !.drv = d] \in State /\ Alike(s, [s EXCEPT !.drv = d])
      /\ [s EXCEPT !.drv = d].ctl = s.ctl
  BY <1>1 DEF State, Alike, Same
<1>4. /\ [s EXCEPT !.drv = e] \in State /\ Alike(s, [s EXCEPT !.drv = e])
      /\ [s EXCEPT !.drv = e].ctl = s.ctl
  BY <1>1 DEF State, Alike, Same
<1> QED BY <1>2, <1>3, <1>4

\* The drive is deselected: who waits for it is woken, or misses it.
LEMMA DeselectKeeps ==
  ASSUME NEW s \in State
  PROVE  LET r == Deselect(s) IN
         /\ r \in State
         /\ r.queue = s.queue /\ r.motor = s.motor /\ r.timers = s.timers /\ r.ctl = s.ctl
         /\ r.ended = s.ended /\ r.panic = s.panic /\ r.twice = s.twice
         /\ r.drv.do_floppy = s.drv.do_floppy /\ r.drv.drive = s.drv.drive
         /\ Woken(s) => Woken(r)
<1> DEFINE r == Deselect(s)
           d == [s.drv EXCEPT !.selected = FALSE]
           c == [s.change EXCEPT !.pc = IF @ = "wait" THEN "test" ELSE @]
           m == s.missed \/ s.change.pc = "full"
<1>1. d \in DriverType /\ d.do_floppy = s.drv.do_floppy /\ d.drive = s.drv.drive
  BY DEF State, DriverType
<1>2. /\ c \in ChangeType /\ c.nr = s.change.nr
      /\ c.pc = IF s.change.pc = "wait" THEN "test" ELSE s.change.pc
  BY DEF State, ChangeType
<1>3. r = [s EXCEPT !.drv = d, !.change = c, !.missed = m]
  BY DEF Deselect
<1>4. m \in BOOLEAN
  OBVIOUS
<1> HIDE DEF r, d, c, m
<1>5. /\ r \in State /\ r.drv = d /\ r.change = c /\ r.missed = m
      /\ r.queue = s.queue /\ r.motor = s.motor /\ r.timers = s.timers /\ r.ctl = s.ctl
      /\ r.ended = s.ended /\ r.panic = s.panic /\ r.twice = s.twice
  BY <1>1, <1>2, <1>3, <1>4 DEF State
<1>6. Woken(s) => Woken(r)
  BY <1>2, <1>5 DEF Woken, m
<1> QED BY <1>1, <1>5, <1>6 DEF r

\* The request that is ended is the first one, if there is one.
LEMMA EndRequestKeeps ==
  ASSUME NEW s \in State
  PROVE  LET r == EndRequest(s) IN
         /\ r \in State /\ r.timers = s.timers /\ r.ctl = s.ctl /\ r.twice = s.twice
         /\ r.drv = s.drv
         /\ s.queue # <<>> => r.panic = s.panic
         /\ Woken(s) => Woken(r)
<1> DEFINE r == EndRequest(s)
<1>1. CASE IsNULL(s)
  <2>1. r = [s EXCEPT !.panic = TRUE] /\ r \in State
    BY <1>1, EndRequestType DEF WritesNULL
  <2> HIDE DEF r
  <2>2. /\ r.timers = s.timers /\ r.ctl = s.ctl /\ r.twice = s.twice /\ r.drv = s.drv
        /\ r.motor = s.motor /\ r.change = s.change /\ r.missed = s.missed
    BY <2>1 DEF State
  <2>3. Woken(s) => Woken(r)
    BY <2>2 DEF Woken
  <2> QED BY <1>1, <2>1, <2>2, <2>3 DEF r, IsNULL
<1>2. CASE ~IsNULL(s)
  <2>1. /\ r \in State /\ r.drv = s.drv /\ r.timers = s.timers /\ r.ctl = s.ctl
        /\ r.motor.mon = s.motor.mon /\ r.motor.on = s.motor.on
        /\ r.change = s.change /\ r.panic = s.panic
        /\ r.missed = s.missed /\ r.twice = s.twice
    BY <1>2, EndRequestType
  <2> HIDE DEF r
  <2>2. Woken(s) => Woken(r)
    BY <2>1 DEF Woken
  <2> QED BY <2>1, <2>2 DEF r
<1> QED BY <1>1, <1>2

\* bad_flp_intr()
LEMMA BadFlpIntrKeeps ==
  ASSUME NEW s \in State
  PROVE  LET r == BadFlpIntr(s) IN
         /\ r \in State /\ r.timers = s.timers /\ r.ctl = s.ctl /\ r.twice = s.twice
         /\ r.drv.do_floppy = s.drv.do_floppy
         /\ s.queue # <<>> => r.panic = s.panic
         /\ Woken(s) => Woken(r)
<1> DEFINE n == CURRENT(s).errors + 1
           u == IF n > MaxErrors THEN EndRequest(Deselect(s)) ELSE [s EXCEPT !.queue[1].errors = n]
           r == BadFlpIntr(s)
<1>1. CASE IsNULL(s)
  <2>1. r = [s EXCEPT !.panic = TRUE]
    BY <1>1 DEF BadFlpIntr, WritesNULL
  <2> HIDE DEF r
  <2>2. /\ r \in State /\ r.timers = s.timers /\ r.ctl = s.ctl /\ r.twice = s.twice /\ r.drv = s.drv
        /\ r.motor = s.motor /\ r.change = s.change /\ r.missed = s.missed
    BY <2>1 DEF State
  <2>3. Woken(s) => Woken(r)
    BY <2>2 DEF Woken
  <2> QED BY <1>1, <2>2, <2>3 DEF r, IsNULL
<1>2. CASE ~IsNULL(s)
  <2>1. /\ u \in State /\ u.timers = s.timers /\ u.ctl = s.ctl /\ u.twice = s.twice
        /\ u.drv.do_floppy = s.drv.do_floppy /\ u.panic = s.panic
        /\ Woken(s) => Woken(u)
    <3>1. CASE n > MaxErrors
      <4> DEFINE v == Deselect(s)
      <4>1. /\ v \in State
            /\ v.queue = s.queue /\ v.timers = s.timers /\ v.ctl = s.ctl
            /\ v.panic = s.panic /\ v.twice = s.twice /\ v.drv.do_floppy = s.drv.do_floppy
            /\ Woken(s) => Woken(v)
        BY DeselectKeeps
      <4>2. u = EndRequest(v)
        BY <3>1
      <4> HIDE DEF v, u
      <4>3. /\ u \in State /\ u.timers = v.timers /\ u.ctl = v.ctl /\ u.twice = v.twice
            /\ u.drv = v.drv
            /\ v.queue # <<>> => u.panic = v.panic
            /\ Woken(v) => Woken(u)
        BY <4>1, <4>2, EndRequestKeeps
      <4> QED BY <1>2, <4>1, <4>3 DEF IsNULL
    <3>2. CASE ~(n > MaxErrors)
      <4> DEFINE e == [s.queue[1] EXCEPT !.errors = n]
                 q == [s.queue EXCEPT ![1] = e]
      <4>1. /\ s.queue \in Seq(Requests) /\ s.queue # <<>> /\ Len(s.queue) <= MaxQueue
            /\ 1 \in 1..Len(s.queue) /\ s.queue[1] \in Requests /\ CURRENT(s) = s.queue[1]
        <5>1. s.queue \in Seq(Requests) /\ s.queue # <<>> /\ Len(s.queue) <= MaxQueue
          BY <1>2 DEF IsNULL, State, Queues
        <5>2. Len(s.queue) \in Nat \ {0}
          BY <5>1, EmptySeq
        <5>3. 1 \in 1..Len(s.queue)
          BY <5>2
        <5> QED BY <5>1, <5>3 DEF CURRENT
      <4>2. n \in 0..MaxErrors
        BY <4>1, <3>2, Constants DEF Requests
      <4>3. e \in Requests
        BY <4>1, <4>2 DEF Requests
      <4>4. u = [s EXCEPT !.queue = q]
        BY <3>2
      <4> HIDE DEF e, u, n
      <4>5. q \in Queues
        BY <4>1, <4>3, ExceptSeq DEF Queues
      <4> HIDE DEF q
      <4>6. /\ u \in State /\ u.timers = s.timers /\ u.ctl = s.ctl /\ u.twice = s.twice
            /\ u.drv = s.drv /\ u.panic = s.panic
            /\ u.motor = s.motor /\ u.change = s.change /\ u.missed = s.missed
        BY <4>4, <4>5 DEF State
      <4> QED BY <4>6 DEF Woken
    <3> QED BY <3>1, <3>2
  <2>2. r = [u EXCEPT !.drv.reset = TRUE] \/ r = [u EXCEPT !.drv.recalibrate = TRUE]
    BY <1>2, Zenon DEF BadFlpIntr
  <2> HIDE DEF u, r
  <2>3. r \in State /\ Alike(u, r) /\ r.ctl = u.ctl
    BY <2>1, <2>2, FlagsKeep
  <2>4. Woken(u) => Woken(r)
    BY <2>1, <2>3, AlikeKeeps
  <2> QED BY <2>1, <2>3, <2>4 DEF Alike, Same, r
<1> QED BY <1>1, <1>2

-----------------------------------------------------------------------------
(* The steps.                                                              *)

\* The sets of TypeOK for what is left of the bounds
SetupType == [faults : Nat, changes : Nat, blocks : SUBSET (Drives \X Tracks \X BOOLEAN)]

\* Now is one of the states.
LEMMA NowType == TypeOK => Now \in State
<1> SUFFICES ASSUME TypeOK PROVE Now \in State
  OBVIOUS
<1>1. queue \in Queues
  BY DEF TypeOK, Queues
<1>2. drv \in DriverType /\ motor \in MotorType
  BY DEF TypeOK, DriverType, MotorType
<1>3. timers \in Seq(TimerType)
  BY DEF TypeOK, TimerType
<1>4. ctl \in ControllerType /\ change \in ChangeType
  BY DEF TypeOK, ControllerType, ChangeType
<1>5. /\ ended \in 0..MaxQueue
      /\ panic \in BOOLEAN /\ missed \in BOOLEAN /\ twice \in BOOLEAN
  BY DEF TypeOK
<1> QED BY ONLY <1>1, <1>2, <1>3, <1>4, <1>5 DEF Now, State

\* A step of the driver is the state that its functions make.
LEMMA BecomeNow ==
  ASSUME NEW r \in State, Become(r)
  PROVE  Now' = r
<1>1. r = [queue |-> r.queue, drv |-> r.drv, motor |-> r.motor, timers |-> r.timers,
           ctl |-> r.ctl, change |-> r.change, ended |-> r.ended, panic |-> r.panic,
           missed |-> r.missed, twice |-> r.twice]
  BY DEF State
<1> QED BY <1>1, Zenon DEF Become, Now

\* What is to be shown of the state after a step
LEMMA InvOfNext ==
  ASSUME NEW r \in State, Now' = r,
         irq' \in BOOLEAN, tick' \in BOOLEAN, setup' \in SetupType,
         Woken(r), ~tick' => Positive(r), Going(r) \/ NeverIdle',
         ~r.twice => Sound(r) /\ Prepared(r, IF tick' THEN 1 ELSE 0)
  PROVE  FloppyInv'
<1>1. /\ queue' = r.queue /\ drv' = r.drv /\ motor' = r.motor /\ timers' = r.timers
      /\ ctl' = r.ctl /\ change' = r.change /\ ended' = r.ended
      /\ panic' = r.panic /\ missed' = r.missed /\ twice' = r.twice
  BY DEF Now
<1>2. TypeOK'
  <2>1. /\ queue' \in Queues /\ drv' \in DriverType /\ motor' \in MotorType
        /\ timers' \in Seq(TimerType) /\ ctl' \in ControllerType /\ change' \in ChangeType
        /\ ended' \in 0..MaxQueue /\ panic' \in BOOLEAN /\ missed' \in BOOLEAN
        /\ twice' \in BOOLEAN
    BY <1>1 DEF State
  <2>2. queue' \in Seq(Requests) /\ Len(queue') <= MaxQueue
    BY <2>1 DEF Queues
  <2>3. {irq', tick', panic', missed', twice'} \subseteq BOOLEAN
    BY <2>1
  <2> QED BY <2>1, <2>2, <2>3, Zenon
          DEF TypeOK, DriverType, MotorType, TimerType, ControllerType, ChangeType, SetupType
<1>3. NeverIdle'
  BY <1>1 DEF Going, NeverIdle, Busy
<1>4. Woken(Now)' /\ (~tick => Positive(Now))'
  BY <1>1 DEF Woken, Positive, Now
<1>5. (~twice => Sound(Now) /\ Prepared(Now, IF tick THEN 1 ELSE 0))'
  BY <1>1 DEF Sound, Prepared, TimerPrepared, SeekPrepared, OnFor, Chosen, CURRENT, Now
<1> QED BY <1>2, <1>3, <1>4, <1>5 DEF FloppyInv

\* What is known of the state before it
LEMMA InvNow ==
  ASSUME FloppyInv
  PROVE  /\ Now \in State /\ Woken(Now) /\ (~tick => Positive(Now)) /\ NeverIdle
         /\ irq \in BOOLEAN /\ tick \in BOOLEAN /\ setup \in SetupType
         /\ ~twice => Sound(Now) /\ Prepared(Now, IF tick THEN 1 ELSE 0)
         /\ Now.queue = queue /\ Now.drv = drv /\ Now.motor = motor /\ Now.timers = timers
         /\ Now.ctl = ctl /\ Now.change = change /\ Now.ended = ended
         /\ Now.panic = panic /\ Now.missed = missed /\ Now.twice = twice
<1>1. TypeOK
  BY DEF FloppyInv
<1>2. irq \in BOOLEAN /\ tick \in BOOLEAN /\ setup \in SetupType
  BY <1>1 DEF TypeOK, SetupType
<1> QED BY <1>1, <1>2, NowType DEF FloppyInv, Now

\* A fault uses up one of those that there may be.
LEMMA FaultType ==
  ASSUME FloppyInv, NEW ok \in BOOLEAN, Fault(ok)
  PROVE  setup' \in SetupType
<1>1. setup \in SetupType
  BY InvNow
<1>2. CASE ok
  BY <1>1, <1>2 DEF Fault
<1>3. CASE ~ok
  <2>1. setup.faults - 1 \in Nat
    BY <1>1, <1>3 DEF Fault, SetupType
  <2> QED BY <1>1, <1>3, <2>1 DEF Fault, SetupType
<1> QED BY <1>2, <1>3

\* A transfer is begun only when everything is set up for it.
BeginsReady == ~twice /\ ctl.exec # "rw" /\ ctl'.exec = "rw" => Begun(Now')

\* A step that becomes a state that do_fd_request() leaves
LEMMA Requested ==
  ASSUME FloppyInv, NEW t \in State, NEW ok \in BOOLEAN, Become(DoFdRequest(t, ok)),
         irq' \in BOOLEAN, tick' = FALSE, setup' \in SetupType,
         Woken(t), Positive(t), Waits(t), ctl.exec # "rw" => t.ctl.exec # "rw"
  PROVE  FloppyInv' /\ BeginsReady
<1> DEFINE r == DoFdRequest(t, ok)
<1>1. /\ r \in State /\ Woken(r) /\ Positive(r) /\ Going(r)
      /\ t.ctl.exec # "rw" /\ r.ctl.exec = "rw" => Begun(r)
      /\ Served(r)
  BY DoFdRequestKeeps
<1> HIDE DEF r
<1>2. Now' = r
  BY <1>1, BecomeNow DEF r
<1>3. ~r.twice => Sound(r) /\ Prepared(r, IF tick' THEN 1 ELSE 0)
  BY <1>1 DEF Served
<1>4. FloppyInv'
  BY <1>1, <1>2, <1>3, InvOfNext
<1>5. ctl' = r.ctl
  BY <1>2 DEF Now
<1>6. BeginsReady
  BY <1>1, <1>2, <1>5 DEF BeginsReady
<1> QED BY <1>4, <1>6

\* The interrupt has taken do_floppy.
LEMMA TakenKeeps ==
  ASSUME FloppyInv, ~tick
  PROVE  /\ Taken \in State /\ Woken(Taken) /\ Positive(Taken) /\ Waits(Taken)
         /\ Taken.queue = queue /\ Taken.timers = timers /\ Taken.motor = motor
         /\ Taken.ctl = ctl /\ Taken.ended = ended
         /\ Taken.change = change /\ Taken.panic = panic
         /\ Taken.missed = missed /\ Taken.twice = twice
         /\ Taken.drv.do_floppy = "NULL" /\ Taken.drv.drive = drv.drive
         /\ Taken.drv.selected = drv.selected
<1> DEFINE r == Taken
           d == [drv EXCEPT !.do_floppy = "NULL"]
<1>1. /\ Now \in State /\ Woken(Now) /\ Positive(Now)
      /\ ~twice => Sound(Now) /\ Prepared(Now, 0)
      /\ Now.queue = queue /\ Now.drv = drv /\ Now.motor = motor /\ Now.timers = timers
      /\ Now.ctl = ctl /\ Now.change = change /\ Now.ended = ended
      /\ Now.panic = panic /\ Now.missed = missed /\ Now.twice = twice
  BY InvNow
<1>2. d \in DriverType /\ d.do_floppy = "NULL" /\ d.drive = drv.drive /\ d.selected = drv.selected
  BY <1>1 DEF State, DriverType
<1>3. r = [Now EXCEPT !.drv = d]
  BY <1>1 DEF Taken
<1> HIDE DEF r, d
<1>4. /\ r \in State /\ r.drv = d
      /\ r.queue = queue /\ r.timers = timers /\ r.motor = motor /\ r.ctl = ctl /\ r.ended = ended
      /\ r.change = change /\ r.panic = panic /\ r.missed = missed /\ r.twice = twice
  BY <1>1, <1>2, <1>3 DEF State
<1>5. Woken(r)
  BY <1>1, <1>2, <1>4 DEF Woken
<1>6. Positive(r)
  BY <1>1, <1>4 DEF Positive
<1>7. CURRENT(r) = CURRENT(Now)
  BY <1>1, <1>4 DEF CURRENT
<1>8. ASSUME ~twice PROVE Sound(r) /\ TimerPrepared(r, 0)
  <2>1. Sound(Now) /\ TimerPrepared(Now, 0)
    BY <1>1, <1>8 DEF Prepared
  <2>2. Sound(r)
    BY <2>1, <1>1, <1>2, <1>4, <1>7 DEF Sound
  <2>3. TimerPrepared(r, 0)
    BY <2>1, <1>1, <1>2, <1>4, <1>7 DEF TimerPrepared, OnFor, Chosen
  <2> QED BY <2>2, <2>3
<1> QED BY <1>2, <1>4, <1>5, <1>6, <1>8 DEF Waits, r

\* An error is counted, or a request ended, before do_fd_request() goes on.
LEMMA BadWaits ==
  ASSUME NEW s \in State,
         ~s.twice => /\ s.timers = <<>> /\ ~s.panic /\ s.queue # <<>>
                     /\ s.drv.do_floppy \notin {"rw", "seek"},
         Woken(s), Positive(s)
  PROVE  LET r == BadFlpIntr(s) IN
         r \in State /\ Woken(r) /\ Positive(r) /\ Waits(r) /\ r.ctl = s.ctl
<1> DEFINE r == BadFlpIntr(s)
<1>1. /\ r \in State /\ r.timers = s.timers /\ r.ctl = s.ctl /\ r.twice = s.twice
      /\ r.drv.do_floppy = s.drv.do_floppy
      /\ s.queue # <<>> => r.panic = s.panic
      /\ Woken(r)
  BY BadFlpIntrKeeps
<1> HIDE DEF r
<1>2. Waits(r)
  BY <1>1, QuietWaits
<1>3. Positive(r)
  BY <1>1 DEF Positive
<1> QED BY <1>1, <1>2, <1>3 DEF r

\* A request is ended well before do_fd_request() goes on.
LEMMA EndedWaits ==
  ASSUME NEW s \in State,
         ~s.twice => /\ s.timers = <<>> /\ ~s.panic /\ s.queue # <<>>
                     /\ s.drv.do_floppy \notin {"rw", "seek"},
         Woken(s), Positive(s)
  PROVE  LET r == EndRequest(Deselect(s)) IN
         r \in State /\ Woken(r) /\ Positive(r) /\ Waits(r) /\ r.ctl = s.ctl
<1> DEFINE u == Deselect(s)
           r == EndRequest(u)
<1>1. /\ u \in State
      /\ u.queue = s.queue /\ u.timers = s.timers /\ u.ctl = s.ctl
      /\ u.panic = s.panic /\ u.twice = s.twice
      /\ u.drv.do_floppy = s.drv.do_floppy
      /\ Woken(u)
  BY DeselectKeeps
<1> HIDE DEF u
<1>2. /\ r \in State /\ r.timers = u.timers /\ r.ctl = u.ctl /\ r.twice = u.twice
      /\ r.drv = u.drv
      /\ u.queue # <<>> => r.panic = u.panic
      /\ Woken(r)
  BY <1>1, EndRequestKeeps
<1> HIDE DEF r
<1>3. Waits(r)
  BY <1>1, <1>2, QuietWaits
<1>4. Positive(r)
  BY <1>1, <1>2 DEF Positive
<1> QED BY <1>1, <1>2, <1>3, <1>4 DEF r, u

\* In a transfer or a seek no timer is set, and there is a request.
LEMMA InTransfer ==
  ASSUME FloppyInv, ~tick, drv.do_floppy \in {"rw", "seek"}, ~twice
  PROVE  timers = <<>> /\ ~panic /\ queue # <<>>
<1>1. Sound(Now) /\ Now.drv = drv /\ Now.timers = timers /\ Now.queue = queue /\ Now.panic = panic
  BY InvNow
<1> QED BY <1>1 DEF Sound

\* An interrupt is taken between two ticks.
LEMMA TakesInterrupt ==
  ASSUME FloppyInv, NEW intr, Takes(intr)
  PROVE  /\ ~tick /\ ~panic /\ drv.do_floppy = intr /\ irq' = FALSE /\ tick' = FALSE
         /\ irq' \in BOOLEAN
<1>1. tick \in BOOLEAN
  BY InvNow
<1> QED BY <1>1 DEF Takes

\* rw_interrupt(): the request is ended, or tried again.
LEMMA RwInterruptKeeps ==
  ASSUME FloppyInv, NEW ok \in BOOLEAN, RwInterrupt(ok)
  PROVE  FloppyInv' /\ BeginsReady
<1> DEFINE s == IF ctl.exec = "none" THEN Taken
                ELSE IF ctl.exec = "result" /\ ok
                THEN [Taken EXCEPT !.ctl.exec = "none", !.ctl.rw = None]
                ELSE [Taken EXCEPT !.drv.reset = TRUE]
<1>0. /\ Takes("rw") /\ Fault(ok)
      /\ Become(DoFdRequest(EndRequest(Deselect(s)), TRUE)) \/ Become(DoFdRequest(BadFlpIntr(s), TRUE))
  BY Zenon DEF RwInterrupt
<1>1. /\ ~tick /\ drv.do_floppy = "rw" /\ irq' = FALSE /\ irq' \in BOOLEAN
      /\ tick' = FALSE /\ Fault(ok)
      /\ Become(DoFdRequest(EndRequest(Deselect(s)), TRUE)) \/ Become(DoFdRequest(BadFlpIntr(s), TRUE))
  <2> HIDE DEF s
  <2> QED BY <1>0, TakesInterrupt
<1>2. setup' \in SetupType
  BY <1>1, FaultType
<1>3. /\ Taken \in State /\ Woken(Taken) /\ Positive(Taken)
      /\ Taken.queue = queue /\ Taken.timers = timers /\ Taken.ctl = ctl
      /\ Taken.panic = panic /\ Taken.twice = twice /\ Taken.drv.do_floppy = "NULL"
  BY <1>1, TakenKeeps
<1>4. s \in State /\ Alike(Taken, s) /\ s.ctl.exec \in {ctl.exec, "none"}
  <2>1. CASE ctl.exec = "none"
    <3>1. s = Taken
      BY <2>1
    <3> HIDE DEF s
    <3> QED BY <3>1, <1>3 DEF Alike, Same
  <2>2. CASE ctl.exec = "result" /\ ok
    <3> DEFINE c == [ctl EXCEPT !.exec = "none", !.rw = None]
    <3>1. None \in [req : 0..MaxQueue, drive : Drives \cup {NoDrive}]
      BY Constants DEF None
    <3>2. c \in ControllerType /\ c.exec = "none"
      <4>1. ctl \in ControllerType
        BY <1>3 DEF State
      <4>2. [ctl EXCEPT !.exec = "none"] \in ControllerType
        BY <4>1 DEF ControllerType
      <4>3. c = [[ctl EXCEPT !.exec = "none"] EXCEPT !.rw = None]
        BY <4>1 DEF ControllerType
      <4> HIDE DEF c
      <4>4. c \in ControllerType
        BY <4>2, <4>3, <3>1 DEF ControllerType
      <4> QED BY <4>1, <4>4 DEF c, ControllerType
    <3>3. s = [Taken EXCEPT !.ctl = c]
      BY <2>2, <1>3
    <3> HIDE DEF s, c
    <3> QED BY <3>2, <3>3, <1>3 DEF State, Alike, Same
  <2>3. CASE ctl.exec # "none" /\ ~(ctl.exec = "result" /\ ok)
    <3>1. s = [Taken EXCEPT !.drv.reset = TRUE]
      BY <2>3
    <3> HIDE DEF s
    <3>2. s \in State /\ Alike(Taken, s) /\ s.ctl = Taken.ctl
      BY <3>1, <1>3, FlagsKeep
    <3> QED BY <3>2, <1>3
  <2> QED BY <2>1, <2>2, <2>3
<1> HIDE DEF s
<1>5. Woken(s) /\ Positive(s)
  BY <1>3, <1>4, AlikeKeeps
<1>6. ~s.twice => /\ s.timers = <<>> /\ ~s.panic /\ s.queue # <<>>
                  /\ s.drv.do_floppy \notin {"rw", "seek"}
  BY <1>1, <1>3, <1>4, InTransfer DEF Alike, Same
<1>7. ctl.exec # "rw" => s.ctl.exec # "rw"
  BY <1>4
<1>8. CASE Become(DoFdRequest(EndRequest(Deselect(s)), TRUE))
  <2> DEFINE r == EndRequest(Deselect(s))
  <2>1. r \in State /\ Woken(r) /\ Positive(r) /\ Waits(r) /\ r.ctl = s.ctl
    BY <1>4, <1>5, <1>6, EndedWaits
  <2> HIDE DEF r
  <2>2. Become(DoFdRequest(r, TRUE))
    BY <1>8 DEF r
  <2> QED BY <1>1, <1>2, <1>7, <2>1, <2>2, Requested
<1>9. CASE Become(DoFdRequest(BadFlpIntr(s), TRUE))
  <2> DEFINE r == BadFlpIntr(s)
  <2>1. r \in State /\ Woken(r) /\ Positive(r) /\ Waits(r) /\ r.ctl = s.ctl
    BY <1>4, <1>5, <1>6, BadWaits
  <2> HIDE DEF r
  <2>2. Become(DoFdRequest(r, TRUE))
    BY <1>9 DEF r
  <2> QED BY <1>1, <1>2, <1>7, <2>1, <2>2, Requested
<1> QED BY <1>1, <1>8, <1>9

\* seek_interrupt(): the transfer is begun, or all of it tried again.
LEMMA SeekInterruptKeeps ==
  ASSUME FloppyInv, NEW ok \in BOOLEAN, NEW ok2 \in BOOLEAN, SeekInterrupt(ok, ok2)
  PROVE  FloppyInv' /\ BeginsReady
<1> DEFINE s == Sensed(Taken, ok)
           C == ~s.drv.reset /\ ctl.sense = "seek" /\ ctl.at = drv.seek_track
           u == [s EXCEPT !.drv.track = ctl.at]
<1>0. /\ Takes("seek") /\ Fault(ok /\ ok2)
      /\ Become(IF C THEN SetupRwFloppy(u, ok2) ELSE DoFdRequest(BadFlpIntr(s), ok2))
  BY Zenon DEF SeekInterrupt
<1> HIDE DEF C, s, u
<1>1. /\ ~tick /\ drv.do_floppy = "seek" /\ irq' \in BOOLEAN /\ tick' = FALSE
      /\ setup' \in SetupType
  <2>1. (ok /\ ok2) \in BOOLEAN
    OBVIOUS
  <2> QED BY <1>0, <2>1, TakesInterrupt, FaultType
<1>2. /\ Taken \in State /\ Woken(Taken) /\ Positive(Taken)
      /\ Taken.queue = queue /\ Taken.timers = timers /\ Taken.ctl = ctl /\ Taken.motor = motor
      /\ Taken.panic = panic /\ Taken.twice = twice /\ Taken.drv.do_floppy = "NULL"
      /\ Taken.drv.drive = drv.drive /\ Taken.drv.selected = drv.selected
  BY <1>1, TakenKeeps
<1>3. s \in State /\ Alike(Taken, s) /\ s.ctl.exec = Taken.ctl.exec
  BY <1>2, SensedKeeps DEF s
<1>4. Woken(s) /\ Positive(s)
  BY <1>2, <1>3, AlikeKeeps
<1>5. ~twice => timers = <<>> /\ ~panic /\ queue # <<>>
  BY <1>1, InTransfer
<1>6. CASE C
  <2> DEFINE r == SetupRwFloppy(u, ok2)
  <2>1. Become(r)
    BY <1>0, <1>6
  <2>2. u \in State /\ Alike(s, u) /\ u.ctl = s.ctl
    <3> DEFINE d == [s.drv EXCEPT !.track = ctl.at]
    <3>1. ctl.at \in Tracks
      BY <1>2 DEF State, ControllerType
    <3>2. /\ d \in DriverType /\ d.do_floppy = s.drv.do_floppy /\ d.drive = s.drv.drive
          /\ d.selected = s.drv.selected
      BY <1>3, <3>1 DEF State, DriverType
    <3>3. u = [s EXCEPT !.drv = d]
      BY DEF u
    <3> HIDE DEF d
    <3> QED BY <3>2, <3>3, <1>3 DEF State, Alike, Same
  <2>3. Woken(u) /\ Positive(u)
    BY <2>2, <1>3, <1>4, AlikeKeeps
  <2>4. /\ r \in State /\ Same(u, r)
        /\ u.queue # <<>> => r.panic = u.panic /\ Commanded(u, r)
        /\ u.queue = <<>> => r.panic /\ r.ctl = u.ctl
        /\ r.drv.do_floppy \in {"NULL", "rw", "reset"}
    <3>1. u.drv.do_floppy = "NULL"
      BY <2>2, <1>2, <1>3 DEF Alike
    <3> QED BY <2>2, <3>1, SetupRwFloppyCommands
  <2> HIDE DEF r
  <2>5. Now' = r
    BY <2>1, <2>4, BecomeNow
  <2>6. /\ r.queue = queue /\ r.motor = motor /\ r.timers = timers /\ r.twice = twice
        /\ u.drv.drive = drv.drive /\ u.queue = queue /\ u.panic = panic
        /\ u.ctl.exec = ctl.exec /\ r.drv.drive = drv.drive
    BY <1>2, <1>3, <2>2, <2>4 DEF Alike, Same
  <2>7. Woken(r) /\ Positive(r)
    BY <2>3, <2>4 DEF Woken, Positive, Same
  <2>8. Going(r)
    BY <2>4, <2>6 DEF Going, Commanded
  <2>9. ASSUME ~r.twice PROVE Sound(r) /\ Prepared(r, 0)
    <3>1. r.timers = <<>> /\ Len(r.timers) = 0 /\ ~r.panic /\ r.queue # <<>> /\ Commanded(u, r)
      BY <1>5, <2>4, <2>6, <2>9
    <3>2. r.ended = u.ended /\ r.drv.drive = u.drv.drive
      BY <2>4 DEF Same
    <3>3. Sound(r)
      BY <2>4, <3>1, <3>2 DEF Sound, Commanded
    <3> QED BY <2>4, <3>1, <3>3 DEF Prepared, TimerPrepared, SeekPrepared
  <2>10. FloppyInv'
    BY <1>1, <2>4, <2>5, <2>7, <2>8, <2>9, InvOfNext
  <2>11. BeginsReady
    <3> SUFFICES ASSUME ~twice, ctl.exec # "rw", ctl'.exec = "rw" PROVE Begun(Now')
      BY DEF BeginsReady
    <3>1. r.ctl.exec = "rw"
      BY <2>5 DEF Now
    <3>2. r.ctl.rw.drive = drv.drive
      BY <3>1, <1>5, <2>4, <2>6 DEF Commanded
    <3>3. /\ Head(queue).drive = drv.drive /\ motor.select = drv.drive
          /\ drv.drive \in motor.on /\ motor.mon[drv.drive] <= Select
      <4>1. /\ SeekPrepared(Now, 0)
            /\ Now.drv = drv /\ Now.queue = queue /\ Now.motor = motor
        BY <1>1, InvNow DEF Prepared
      <4> QED BY <4>1, <1>1 DEF SeekPrepared, OnFor, Chosen, CURRENT
    <3> QED BY <2>5, <2>6, <3>2, <3>3 DEF Begun, CURRENT
  <2> QED BY <2>10, <2>11
<1>7. CASE ~C
  <2> DEFINE r == BadFlpIntr(s)
  <2>1. ~s.twice => /\ s.timers = <<>> /\ ~s.panic /\ s.queue # <<>>
                    /\ s.drv.do_floppy \notin {"rw", "seek"}
    BY <1>2, <1>3, <1>5 DEF Alike, Same
  <2>2. r \in State /\ Woken(r) /\ Positive(r) /\ Waits(r) /\ r.ctl = s.ctl
    BY <1>3, <1>4, <2>1, BadWaits
  <2>3. Become(DoFdRequest(r, ok2))
    BY <1>0, <1>7
  <2> HIDE DEF r
  <2>4. ctl.exec # "rw" => r.ctl.exec # "rw"
    BY <1>2, <1>3, <2>2
  <2> QED BY <1>1, <2>2, <2>3, <2>4, Requested
<1> QED BY <1>6, <1>7

\* recal_interrupt()
LEMMA RecalInterruptKeeps ==
  ASSUME FloppyInv, NEW ok \in BOOLEAN, NEW ok2 \in BOOLEAN, RecalInterrupt(ok, ok2)
  PROVE  FloppyInv' /\ BeginsReady
<1> DEFINE s == Sensed(Taken, ok)
           u == IF s.drv.reset \/ ctl.sense = "none" THEN [s EXCEPT !.drv.reset = TRUE]
                ELSE [s EXCEPT !.drv.recalibrate = FALSE]
<1>0. Takes("recal") /\ Fault(ok /\ ok2) /\ Become(DoFdRequest(u, ok2))
  BY Zenon DEF RecalInterrupt
<1> HIDE DEF s, u
<1>1. /\ ~tick /\ irq' \in BOOLEAN /\ tick' = FALSE /\ setup' \in SetupType
  <2>1. (ok /\ ok2) \in BOOLEAN
    OBVIOUS
  <2> QED BY <1>0, <2>1, TakesInterrupt, FaultType
<1>2. Taken \in State /\ Woken(Taken) /\ Positive(Taken) /\ Waits(Taken) /\ Taken.ctl = ctl
  BY <1>1, TakenKeeps
<1>3. s \in State /\ Alike(Taken, s) /\ s.ctl.exec = Taken.ctl.exec
  BY <1>2, SensedKeeps DEF s
<1>4. Woken(s) /\ Positive(s) /\ Waits(s)
  BY <1>2, <1>3, AlikeKeeps
<1>5. u \in State /\ Alike(s, u) /\ u.ctl = s.ctl
  BY <1>3, FlagsKeep DEF u
<1>6. Woken(u) /\ Positive(u) /\ Waits(u)
  BY <1>3, <1>4, <1>5, AlikeKeeps
<1>7. ctl.exec # "rw" => u.ctl.exec # "rw"
  BY <1>2, <1>3, <1>5
<1> QED BY <1>0, <1>1, <1>5, <1>6, <1>7, Requested

\* reset_interrupt()
LEMMA ResetInterruptKeeps ==
  ASSUME FloppyInv, NEW ok \in BOOLEAN, NEW ok2 \in BOOLEAN, ResetInterrupt(ok, ok2)
  PROVE  FloppyInv' /\ BeginsReady
<1> DEFINE s == Sensed(Taken, ok)
<1>0. Takes("reset") /\ Fault(ok /\ ok2) /\ Become(DoFdRequest(s, ok2))
  BY Zenon DEF ResetInterrupt
<1> HIDE DEF s
<1>1. /\ ~tick /\ irq' \in BOOLEAN /\ tick' = FALSE /\ setup' \in SetupType
  <2>1. (ok /\ ok2) \in BOOLEAN
    OBVIOUS
  <2> QED BY <1>0, <2>1, TakesInterrupt, FaultType
<1>2. Taken \in State /\ Woken(Taken) /\ Positive(Taken) /\ Waits(Taken) /\ Taken.ctl = ctl
  BY <1>1, TakenKeeps
<1>3. s \in State /\ Alike(Taken, s) /\ s.ctl.exec = Taken.ctl.exec
  BY <1>2, SensedKeeps DEF s
<1>4. Woken(s) /\ Positive(s) /\ Waits(s)
  BY <1>2, <1>3, AlikeKeeps
<1>5. ctl.exec # "rw" => s.ctl.exec # "rw"
  BY <1>2, <1>3
<1> QED BY <1>0, <1>1, <1>3, <1>4, <1>5, Requested

\* An interrupt that nobody expects only makes the driver careful.
LEMMA UnexpectedKeeps ==
  ASSUME FloppyInv, NEW ok \in BOOLEAN, UnexpectedFloppyInterrupt(ok)
  PROVE  FloppyInv' /\ BeginsReady
<1> DEFINE s == Sensed(Now, ok)
           r == IF s.drv.reset \/ ctl.sense = "none" THEN [s EXCEPT !.drv.reset = TRUE]
                ELSE [s EXCEPT !.drv.recalibrate = TRUE]
<1>0. Takes("NULL") /\ Fault(ok) /\ Become(r)
  BY Zenon DEF UnexpectedFloppyInterrupt
<1> HIDE DEF s, r
<1>1. /\ ~tick /\ irq' \in BOOLEAN /\ tick' = FALSE /\ setup' \in SetupType
      /\ drv.do_floppy = "NULL" /\ ~panic
  BY <1>0, TakesInterrupt, FaultType
<1>2. /\ Now \in State /\ Woken(Now) /\ Positive(Now) /\ NeverIdle
      /\ ~twice => Sound(Now) /\ Prepared(Now, 0)
      /\ Now.queue = queue /\ Now.drv = drv /\ Now.timers = timers
      /\ Now.ctl = ctl /\ Now.panic = panic /\ Now.twice = twice
  BY <1>1, InvNow
<1>3. Waits(Now)
  BY <1>1, <1>2 DEF Waits, Prepared
<1>4. s \in State /\ Alike(Now, s) /\ s.ctl.exec = Now.ctl.exec
  BY <1>2, SensedKeeps DEF s
<1>5. Woken(s) /\ Positive(s) /\ Waits(s)
  BY <1>2, <1>3, <1>4, AlikeKeeps
<1>6. r \in State /\ Alike(s, r) /\ r.ctl = s.ctl
  BY <1>4, FlagsKeep DEF r
<1>7. Woken(r) /\ Positive(r) /\ Waits(r)
  BY <1>4, <1>5, <1>6, AlikeKeeps
<1>8. /\ r.queue = queue /\ r.timers = timers /\ r.twice = twice /\ r.panic = panic
      /\ r.drv.do_floppy = "NULL" /\ r.ctl.exec = ctl.exec
  BY <1>1, <1>2, <1>4, <1>6 DEF Alike, Same
<1>9. Going(r)
  BY <1>1, <1>2, <1>8 DEF Going, NeverIdle
<1>10. Now' = r
  BY <1>0, <1>6, BecomeNow
<1>11. ~r.twice => Sound(r) /\ Prepared(r, 0)
  BY <1>7, <1>8 DEF Waits, Prepared, SeekPrepared
<1>12. FloppyInv'
  BY <1>1, <1>6, <1>7, <1>9, <1>10, <1>11, InvOfNext
<1>13. ctl'.exec = ctl.exec
  BY <1>8, <1>10 DEF Now
<1> QED BY <1>12, <1>13 DEF BeginsReady

\* The state after a step, by its parts
LEMMA NowNextType ==
  ASSUME queue' \in Queues, drv' \in DriverType, motor' \in MotorType, timers' \in Seq(TimerType),
         ctl' \in ControllerType, change' \in ChangeType, ended' \in 0..MaxQueue,
         panic' \in BOOLEAN, missed' \in BOOLEAN, twice' \in BOOLEAN
  PROVE  /\ Now' \in State
         /\ Now'.queue = queue' /\ Now'.drv = drv' /\ Now'.motor = motor' /\ Now'.timers = timers'
         /\ Now'.ctl = ctl' /\ Now'.change = change' /\ Now'.ended = ended'
         /\ Now'.panic = panic' /\ Now'.missed = missed' /\ Now'.twice = twice'
BY DEF Now, State

\* Turning a motor on, or off in a while, undoes nothing of what was prepared.
LEMMA PreparedKeeps ==
  ASSUME NEW s \in State, NEW r \in State,
         r.queue = s.queue, r.drv = s.drv, r.timers = s.timers, r.ctl = s.ctl,
         s.motor.on \subseteq r.motor.on,
         s.drv.selected => r.motor.select = s.motor.select,
         \A e \in Drives : r.motor.moff[e] = s.motor.moff[e] \/ r.motor.moff[e] >= Off,
         \A e \in s.motor.on : r.motor.mon[e] = s.motor.mon[e] \/ r.motor.mon[e] <= Select,
         Prepared(s, 0)
  PROVE  Prepared(r, 0)
<1> DEFINE w == s.drv.drive
<1>1. /\ w \in Drives /\ s.ctl.age \in 0..Answer /\ s.motor.moff \in [Drives -> 0..Big]
      /\ r.motor.moff \in [Drives -> 0..Big]
      /\ s.timers # <<>> => Head(s.timers).jiffies \in 0..Spin
  <2>1. s.timers \in Seq(TimerType) /\ s.drv \in DriverType /\ s.ctl \in ControllerType
        /\ s.motor \in MotorType /\ r.motor \in MotorType
    BY DEF State
  <2>2. s.timers # <<>> => Head(s.timers) \in TimerType
    BY <2>1, HeadTailProperties
  <2> QED BY <2>1, <2>2 DEF DriverType, ControllerType, MotorType, TimerType
<1>2. CURRENT(r) = CURRENT(s)
  BY DEF CURRENT
<1>3. ASSUME NEW n \in Int, n <= Off, OnFor(s, n) PROVE OnFor(r, n)
  <2>1. CURRENT(s).drive = w /\ w \in s.motor.on /\ s.motor.moff[w] >= n
    BY <1>3 DEF OnFor
  <2>2. r.motor.moff[w] = s.motor.moff[w] \/ r.motor.moff[w] >= Off
    BY <1>1
  <2>3. r.motor.moff[w] \in Int /\ s.motor.moff[w] \in Int
    BY <1>1, Constants
  <2>4. r.motor.moff[w] >= n
    BY <2>1, <2>2, <2>3, <1>3, Constants
  <2> QED BY <1>2, <2>1, <2>4 DEF OnFor
<1>4. Chosen(s) => Chosen(r)
  BY DEF Chosen
<1>5. TimerPrepared(r, 0)
  <2> SUFFICES ASSUME s.timers # <<>> PROVE TimerPrepared(r, 0)
    BY DEF TimerPrepared
  <2> DEFINE j == Head(s.timers).jiffies
  <2>1. j \in 0..Spin
    BY <1>1
  <2>2. /\ s.motor.mon[w] <= j \/ s.motor.mon[w] <= Select
        /\ IF Head(s.timers).fn = "floppy_on" THEN OnFor(s, 0 + j + Off - Spin)
           ELSE OnFor(s, 0 + j + Off - Spin - Select) /\ Chosen(s)
    BY DEF Prepared, TimerPrepared
  <2>3. r.motor.mon[w] = s.motor.mon[w] \/ r.motor.mon[w] <= Select
    BY <2>2 DEF OnFor
  <2> HIDE DEF j
  <2>4. /\ 0 + j + Off - Spin \in Int /\ 0 + j + Off - Spin <= Off
        /\ 0 + j + Off - Spin - Select \in Int /\ 0 + j + Off - Spin - Select <= Off
    BY <2>1, Constants
  <2>5. IF Head(s.timers).fn = "floppy_on" THEN OnFor(r, 0 + j + Off - Spin)
        ELSE OnFor(r, 0 + j + Off - Spin - Select) /\ Chosen(r)
    BY <1>3, <1>4, <2>2, <2>4
  <2>6. r.motor.mon[w] <= j \/ r.motor.mon[w] <= Select
    BY <2>2, <2>3
  <2> QED BY <2>5, <2>6 DEF TimerPrepared, j
<1>6. SeekPrepared(r, 0)
  <2> SUFFICES ASSUME s.drv.do_floppy = "seek" PROVE SeekPrepared(r, 0)
    BY DEF SeekPrepared
  <2> DEFINE n == 0 + Off - Spin - Select - s.ctl.age
  <2>1. OnFor(s, n) /\ Chosen(s) /\ s.motor.mon[w] <= Select
    BY DEF Prepared, SeekPrepared
  <2>2. n \in Int /\ n <= Off
    BY <1>1, Constants
  <2>3. r.motor.mon[w] <= Select
    BY <2>1 DEF OnFor
  <2> HIDE DEF n
  <2>4. OnFor(r, n) /\ Chosen(r)
    BY <1>3, <1>4, <2>1, <2>2
  <2> QED BY <2>3, <2>4 DEF SeekPrepared, n
<1> QED BY <1>5, <1>6 DEF Prepared

\* A step of a task that is not about a request
LEMMA TaskStep ==
  ASSUME FloppyInv, ~tick, UNCHANGED <<queue, drv, timers, ctl, irq, tick, ended, panic, missed, twice>>,
         motor' \in MotorType, change' \in ChangeType, setup' \in SetupType,
         Woken(Now'), motor.on \subseteq motor'.on,
         drv.selected => motor'.select = motor.select,
         \A e \in Drives : motor'.moff[e] = motor.moff[e] \/ motor'.moff[e] >= Off,
         \A e \in motor.on : motor'.mon[e] = motor.mon[e] \/ motor'.mon[e] <= Select
  PROVE  FloppyInv' /\ BeginsReady
<1>1. /\ Now \in State /\ Positive(Now) /\ NeverIdle /\ irq \in BOOLEAN /\ tick \in BOOLEAN
      /\ ~twice => Sound(Now) /\ Prepared(Now, 0)
      /\ Now.queue = queue /\ Now.drv = drv /\ Now.timers = timers /\ Now.motor = motor
      /\ Now.ctl = ctl /\ Now.ended = ended
      /\ Now.panic = panic /\ Now.missed = missed /\ Now.twice = twice
  BY InvNow
<1>2. /\ Now' \in State
      /\ Now'.queue = queue /\ Now'.drv = drv /\ Now'.timers = timers /\ Now'.motor = motor'
      /\ Now'.ctl = ctl /\ Now'.ended = ended /\ Now'.panic = panic /\ Now'.twice = twice
  <2>1. /\ queue' \in Queues /\ drv' \in DriverType /\ timers' \in Seq(TimerType)
        /\ ctl' \in ControllerType /\ ended' \in 0..MaxQueue
        /\ panic' \in BOOLEAN /\ missed' \in BOOLEAN /\ twice' \in BOOLEAN
    BY <1>1 DEF State
  <2> QED BY <2>1, NowNextType
<1>3. Positive(Now')
  BY <1>1, <1>2 DEF Positive
<1>4. NeverIdle'
  BY <1>1 DEF NeverIdle, Busy
<1>5. ~twice => Sound(Now')
  BY <1>1, <1>2 DEF Sound, CURRENT
<1>11. ~twice => Prepared(Now', 0)
  <2> DEFINE r == Now'
             t == Now
  <2>1. r \in State /\ r.queue = t.queue /\ r.drv = t.drv /\ r.timers = t.timers /\ r.ctl = t.ctl
    BY <1>1, <1>2
  <2>2. /\ t.motor.on \subseteq r.motor.on
        /\ t.drv.selected => r.motor.select = t.motor.select
        /\ \A e \in Drives : r.motor.moff[e] = t.motor.moff[e] \/ r.motor.moff[e] >= Off
        /\ \A e \in t.motor.on : r.motor.mon[e] = t.motor.mon[e] \/ r.motor.mon[e] <= Select
    BY <1>1, <1>2
  <2>3. t \in State /\ (~twice => Prepared(t, 0))
    BY <1>1
  <2> HIDE DEF r, t
  <2>4. ~twice => Prepared(r, 0)
    BY <2>1, <2>2, <2>3, PreparedKeeps
  <2> QED BY <2>4 DEF r
<1>6. ~tick' /\ irq' \in BOOLEAN /\ tick' \in BOOLEAN
  BY <1>1
<1> DEFINE r == Now'
<1>7. ~r.twice => Sound(r) /\ Prepared(r, IF tick' THEN 1 ELSE 0)
  BY <1>2, <1>5, <1>6, <1>11
<1>8. r \in State /\ Now' = r /\ Woken(r) /\ Positive(r)
  BY <1>2, <1>3
<1> HIDE DEF r
<1>9. FloppyInv'
  BY <1>4, <1>6, <1>7, <1>8, InvOfNext
<1>10. BeginsReady
  BY DEF BeginsReady
<1> QED BY <1>9, <1>10

\* A step of a task that leaves the motors alone
LEMMA ChangeStep ==
  ASSUME FloppyInv, ~tick,
         UNCHANGED <<queue, drv, motor, timers, ctl, irq, tick, ended, panic, missed, twice>>,
         change' \in ChangeType, setup' \in SetupType,
         change'.pc \in {"motor", "spin"} /\ ~missed
           => change'.nr \in motor.on /\ motor.mon[change'.nr] > 0,
         change'.pc \in {"full", "wait"} /\ ~missed => drv.selected
  PROVE  FloppyInv' /\ BeginsReady
<1>1. Now \in State /\ Now.motor = motor
  BY InvNow
<1>2. motor' \in MotorType
  BY <1>1 DEF State
<1>3. /\ Now'.queue = queue /\ Now'.drv = drv /\ Now'.motor = motor /\ Now'.timers = timers
      /\ Now'.ctl = ctl /\ Now'.change = change' /\ Now'.missed = missed
  BY DEF Now
<1>4. Woken(Now')
  BY <1>3 DEF Woken
<1> QED BY <1>2, <1>4, TaskStep

\* floppy_on() and floppy_change(): nothing that was prepared is undone.
LEMMA TaskKeeps ==
  ASSUME FloppyInv, Task
  PROVE  FloppyInv' /\ BeginsReady
<1>1. /\ Now \in State /\ Woken(Now) /\ (~tick => Positive(Now)) /\ setup \in SetupType
      /\ ~twice => Sound(Now) /\ Prepared(Now, IF tick THEN 1 ELSE 0)
      /\ Now.queue = queue /\ Now.drv = drv /\ Now.motor = motor /\ Now.timers = timers
      /\ Now.ctl = ctl /\ Now.change = change /\ Now.ended = ended
      /\ Now.panic = panic /\ Now.missed = missed /\ Now.twice = twice
  BY InvNow
<1>2. /\ motor \in MotorType /\ change \in ChangeType /\ change.nr \in Drives
      /\ drv \in DriverType /\ drv.drive \in Drives /\ ctl \in ControllerType /\ ctl.age \in 0..Answer
      /\ timers # <<>> => Head(timers).jiffies \in 0..Spin
  <2>1. /\ motor \in MotorType /\ change \in ChangeType /\ drv \in DriverType
        /\ ctl \in ControllerType /\ timers \in Seq(TimerType)
    BY <1>1 DEF State
  <2>2. timers # <<>> => Head(timers) \in TimerType
    BY <2>1, HeadTailProperties
  <2> QED BY <2>1, <2>2 DEF ChangeType, DriverType, ControllerType, TimerType
<1>3. CASE FloppyOn
  <2> DEFINE d == change.nr
             s == TicksToFloppyOn(Now, d)
             w == drv.drive
  <2>1. /\ s \in State
        /\ s = [Now EXCEPT !.motor = s.motor]
        /\ s.motor.moff = [motor.moff EXCEPT ![d] = Big]
        /\ s.motor.on = motor.on \cup {d}
        /\ s.motor.select = IF drv.selected THEN motor.select ELSE d
        /\ \A e \in Drives : e # d => s.motor.mon[e] = motor.mon[e]
        /\ s.motor.mon[d] = IF d \notin motor.on THEN Spin
                            ELSE IF s.motor.select # motor.select /\ motor.mon[d] < Select
                            THEN Select ELSE motor.mon[d]
    <3> HIDE DEF d
    <3>1. d \in Drives
      BY <1>2 DEF d
    <3>2. /\ s \in State
          /\ s = [Now EXCEPT !.motor = s.motor]
          /\ s.motor.moff = [Now.motor.moff EXCEPT ![d] = Big]
          /\ s.motor.on = Now.motor.on \cup {d}
          /\ s.motor.select = IF Now.drv.selected THEN Now.motor.select ELSE d
          /\ \A e \in Drives : e # d => s.motor.mon[e] = Now.motor.mon[e]
          /\ s.motor.mon[d] = IF d \notin Now.motor.on THEN Spin
                              ELSE IF s.motor.select # Now.motor.select /\ Now.motor.mon[d] < Select
                              THEN Select ELSE Now.motor.mon[d]
      BY <1>1, <3>1, TicksToFloppyOnType
    <3> HIDE DEF s
    <3> QED BY <1>1, <3>2
  <2>2. /\ Become([s EXCEPT !.change.pc = IF s.motor.mon[d] > 0 THEN "motor" ELSE "test"])
        /\ ~tick /\ UNCHANGED <<irq, tick, setup>>
    BY <1>3, Zenon DEF FloppyOn, At
  <2> HIDE DEF s
  <2>3. /\ motor' = s.motor
        /\ change' = [change EXCEPT !.pc = IF s.motor.mon[d] > 0 THEN "motor" ELSE "test"]
        /\ UNCHANGED <<queue, drv, timers, ctl, ended, panic, missed, twice>>
    <3>1. /\ s.queue = queue /\ s.drv = drv /\ s.timers = timers /\ s.ctl = ctl /\ s.ended = ended
          /\ s.panic = panic /\ s.missed = missed /\ s.twice = twice /\ s.change = change
      BY <1>1, <2>1 DEF State
    <3> DEFINE c == [s.change EXCEPT !.pc = IF s.motor.mon[d] > 0 THEN "motor" ELSE "test"]
    <3>2. Become([s EXCEPT !.change = c])
      BY <2>2
    <3> HIDE DEF c
    <3>3. /\ motor' = s.motor /\ change' = c /\ queue' = s.queue /\ drv' = s.drv
          /\ timers' = s.timers /\ ctl' = s.ctl /\ ended' = s.ended /\ panic' = s.panic
          /\ missed' = s.missed /\ twice' = s.twice
      BY <2>1, <3>2 DEF Become, State
    <3> QED BY <3>1, <3>3 DEF c
  <2>4. motor' \in MotorType
    BY <2>1, <2>3 DEF State
  <2>5. /\ change' \in ChangeType /\ change'.nr = d
        /\ change'.pc = IF s.motor.mon[d] > 0 THEN "motor" ELSE "test"
    BY <1>2, <2>3 DEF ChangeType
  <2>6. /\ Now'.queue = queue /\ Now'.drv = drv /\ Now'.motor = s.motor /\ Now'.timers = timers
        /\ Now'.ctl = ctl /\ Now'.change = change' /\ Now'.missed = missed
    BY <2>3 DEF Now
  <2>7. Woken(Now')
    BY <2>1, <2>5, <2>6 DEF Woken
  <2>8. /\ motor.on \subseteq motor'.on
        /\ drv.selected => motor'.select = motor.select
        /\ \A e \in Drives : motor'.moff[e] = motor.moff[e] \/ motor'.moff[e] >= Off
        /\ \A e \in motor.on : motor'.mon[e] = motor.mon[e] \/ motor'.mon[e] <= Select
    <3>1. motor.moff \in [Drives -> 0..Big] /\ motor.mon \in [Drives -> 0..Spin]
          /\ motor.on \subseteq Drives
      BY <1>2 DEF MotorType
    <3>2. \A e \in Drives : motor'.moff[e] = motor.moff[e] \/ motor'.moff[e] >= Off
      BY <2>1, <2>3, <3>1, Constants
    <3>3. \A e \in motor.on : motor'.mon[e] = motor.mon[e] \/ motor'.mon[e] <= Select
      <4> SUFFICES ASSUME NEW e \in motor.on
                   PROVE  s.motor.mon[e] = motor.mon[e] \/ s.motor.mon[e] <= Select
        BY <2>3
      <4>1. CASE e = d
        BY <2>1, <4>1, Constants
      <4>2. CASE e # d
        BY <2>1, <3>1, <4>2
      <4> QED BY <4>1, <4>2
    <3> QED BY <2>1, <2>3, <3>2, <3>3
  <2>9. UNCHANGED <<queue, drv, timers, ctl, irq, tick, ended, panic, missed, twice>> /\ ~tick
    BY <2>2, <2>3
  <2>10. setup' \in SetupType
    BY <1>1, <2>2
  <2> QED BY <2>4, <2>5, <2>7, <2>8, <2>9, <2>10, TaskStep
<1>4. CASE SleepOnMotor
  <2>1. /\ change.pc = "motor" /\ change' = [change EXCEPT !.pc = "spin"]
        /\ ~tick
        /\ UNCHANGED <<queue, drv, motor, timers, ctl, irq, tick, ended, setup, panic, missed, twice>>
    BY <1>4 DEF SleepOnMotor, At, Goto
  <2>2. change' \in ChangeType /\ change'.pc = "spin" /\ change'.nr = change.nr
    BY <1>2, <2>1 DEF ChangeType
  <2>3. change.pc = "motor" /\ ~missed => change.nr \in motor.on /\ motor.mon[change.nr] > 0
    BY <1>1 DEF Woken
  <2> QED BY <1>1, <2>1, <2>2, <2>3, ChangeStep
<1>5. CASE TestSelected
  <2>1. /\ change' = [change EXCEPT !.pc = IF motor.select = change.nr THEN "read"
                                           ELSE IF drv.selected THEN "full" ELSE "on"]
        /\ ~tick
        /\ UNCHANGED <<queue, drv, motor, timers, ctl, irq, tick, ended, setup, panic, missed, twice>>
    BY <1>5 DEF TestSelected, At, Goto
  <2>2. /\ change' \in ChangeType /\ change'.pc \in {"read", "full", "on"}
        /\ change'.pc = "full" => drv.selected
    BY <1>2, <2>1 DEF ChangeType
  <2> QED BY <1>1, <2>1, <2>2, ChangeStep
<1>6. CASE SleepOnSelect
  <2>1. /\ change.pc = "full" /\ change' = [change EXCEPT !.pc = "wait"]
        /\ ~tick
        /\ UNCHANGED <<queue, drv, motor, timers, ctl, irq, tick, ended, setup, panic, missed, twice>>
    BY <1>6 DEF SleepOnSelect, At, Goto
  <2>2. change' \in ChangeType /\ change'.pc = "wait"
    BY <1>2, <2>1 DEF ChangeType
  <2>3. change.pc = "full" /\ ~missed => drv.selected
    BY <1>1 DEF Woken
  <2> QED BY <1>1, <2>1, <2>2, <2>3, ChangeStep
<1>7. CASE ReadChange
  <2> DEFINE d == change.nr
             m == [motor EXCEPT !.moff[d] = Off]
             w == drv.drive
  <2>1. /\ motor' = m /\ change' = [change EXCEPT !.pc = "out"]
        /\ ~tick
        /\ UNCHANGED <<queue, drv, timers, ctl, irq, tick, ended, setup, panic, missed, twice>>
    <3> DEFINE c == [change EXCEPT !.pc = "out"]
    <3>1. FloppyOff(Now, d) = [Now EXCEPT !.motor = m]
      BY <1>1 DEF FloppyOff
    <3> DEFINE f == FloppyOff(Now, d)
    <3>2. Become([f EXCEPT !.change.pc = "out"]) /\ ~tick /\ UNCHANGED <<irq, tick, setup>>
      BY <1>7, Zenon DEF ReadChange, At
    <3> HIDE DEF m, f
    <3>3. /\ f \in State /\ f.motor = m /\ f.change = change /\ f.queue = queue /\ f.drv = drv
          /\ f.timers = timers /\ f.ctl = ctl /\ f.ended = ended /\ f.panic = panic
          /\ f.missed = missed /\ f.twice = twice
      <4>1. f \in State
        BY <1>1, <1>2, FloppyOffType DEF f
      <4>2. f = [Now EXCEPT !.motor = m]
        BY <3>1 DEF f
      <4> QED BY <1>1, <4>1, <4>2 DEF State
    <3>4. [f EXCEPT !.change.pc = "out"] = [f EXCEPT !.change = c]
      BY <3>3
    <3> HIDE DEF c
    <3>5. Become([f EXCEPT !.change = c])
      BY <3>2, <3>4
    <3>6. /\ motor' = f.motor /\ change' = c /\ queue' = f.queue /\ drv' = f.drv
          /\ timers' = f.timers /\ ctl' = f.ctl /\ ended' = f.ended /\ panic' = f.panic
          /\ missed' = f.missed /\ twice' = f.twice
      BY <3>3, <3>5 DEF Become, State
    <3> QED BY <3>2, <3>3, <3>6 DEF c
  <2>2. change' \in ChangeType /\ change'.pc = "out"
    BY <1>2, <2>1 DEF ChangeType
  <2>3. /\ motor' \in MotorType /\ motor'.on = motor.on /\ motor'.mon = motor.mon
        /\ motor'.select = motor.select /\ motor'.moff = [motor.moff EXCEPT ![d] = Off]
    <3>1. motor.moff \in [Drives -> 0..Big] /\ Off \in 0..Big
      BY <1>2, Constants DEF MotorType
    <3> DEFINE f == [motor.moff EXCEPT ![d] = Off]
    <3>2. f \in [Drives -> 0..Big] /\ m = [motor EXCEPT !.moff = f]
      BY <3>1
    <3> HIDE DEF f, m
    <3>3. /\ m \in MotorType /\ m.on = motor.on /\ m.mon = motor.mon
          /\ m.select = motor.select /\ m.moff = f
      BY <1>2, <3>2 DEF MotorType
    <3> QED BY <2>1, <3>3 DEF f
  <2>4. /\ Now'.queue = queue /\ Now'.drv = drv /\ Now'.motor = motor' /\ Now'.timers = timers
        /\ Now'.ctl = ctl /\ Now'.change = change' /\ Now'.missed = missed
    BY <2>1 DEF Now
  <2>5. Woken(Now')
    BY <2>2, <2>4 DEF Woken
  <2>6. \A e \in Drives : motor'.moff[e] = motor.moff[e] \/ motor'.moff[e] >= Off
    <3>1. motor.moff \in [Drives -> 0..Big]
      BY <1>2 DEF MotorType
    <3> QED BY <2>3, <3>1, Constants
  <2>7. setup' \in SetupType
    BY <1>1, <2>1
  <2> QED BY <2>1, <2>2, <2>3, <2>5, <2>6, <2>7, TaskStep
<1> QED BY <1>3, <1>4, <1>5, <1>6, <1>7 DEF Task

\* floppy_change() is called.
LEMMA FloppyChangeKeeps ==
  ASSUME FloppyInv, NEW nr \in Drives, FloppyChange(nr)
  PROVE  FloppyInv' /\ BeginsReady
<1>1. /\ ~tick /\ setup.changes > 0
      /\ change' = [pc |-> "on", nr |-> nr] /\ setup' = [setup EXCEPT !.changes = @ - 1]
      /\ UNCHANGED <<queue, drv, motor, timers, ctl, irq, tick, ended, panic, missed, twice>>
  BY DEF FloppyChange, At
<1>2. setup' \in SetupType
  <2>1. setup \in SetupType
    BY InvNow
  <2>2. setup.changes - 1 \in Nat
    BY <1>1, <2>1 DEF SetupType
  <2> QED BY <1>1, <2>1, <2>2 DEF SetupType
<1>3. change' \in ChangeType /\ change'.pc = "on"
  BY <1>1 DEF ChangeType
<1> QED BY <1>1, <1>2, <1>3, ChangeStep

\* The list is begun, or a request goes behind the others.
LEMMA AddRequestKeeps ==
  ASSUME FloppyInv, NEW r \in NewRequests, NEW ok \in BOOLEAN, AddRequest(r, ok)
  PROVE  FloppyInv' /\ BeginsReady
<1> DEFINE s == [Now EXCEPT !.queue = Append(queue, r)]
<1>0. /\ ~tick /\ Len(queue) < MaxQueue
      /\ IF queue = <<>> THEN Fault(ok) /\ Become(DoFdRequest(s, ok))
         ELSE ok /\ Become(s) /\ UNCHANGED setup
      /\ UNCHANGED <<irq, tick>>
  BY Zenon DEF AddRequest
<1>1. /\ Now \in State /\ Woken(Now) /\ Positive(Now) /\ NeverIdle /\ setup \in SetupType
      /\ irq \in BOOLEAN /\ tick \in BOOLEAN
      /\ ~twice => Sound(Now) /\ Prepared(Now, 0)
      /\ Now.queue = queue /\ Now.drv = drv /\ Now.motor = motor /\ Now.timers = timers
      /\ Now.ctl = ctl /\ Now.change = change /\ Now.ended = ended
      /\ Now.panic = panic /\ Now.missed = missed /\ Now.twice = twice
  BY <1>0, InvNow
<1>2. /\ Append(queue, r) \in Queues /\ Append(queue, r) # <<>>
      /\ queue # <<>> => Head(Append(queue, r)) = Head(queue)
  <2>1. queue \in Seq(Requests) /\ r \in Requests /\ Len(queue) \in Nat
    BY <1>1 DEF State, Queues, NewRequests
  <2>2. /\ Append(queue, r) \in Seq(Requests) /\ Append(queue, r) # <<>>
        /\ Len(Append(queue, r)) = Len(queue) + 1
    BY <2>1, AppendProperties
  <2>3. queue # <<>> => Head(Append(queue, r)) = Head(queue)
    BY <2>1, HeadTailAppend
  <2> QED BY <1>0, <2>1, <2>2, <2>3, Constants DEF Queues
<1>3. /\ s \in State /\ s.queue = Append(queue, r) /\ s.drv = drv /\ s.motor = motor
      /\ s.timers = timers /\ s.ctl = ctl /\ s.change = change /\ s.ended = ended
      /\ s.panic = panic /\ s.missed = missed /\ s.twice = twice
  BY <1>1, <1>2 DEF State
<1> HIDE DEF s
<1>4. Woken(s) /\ Positive(s)
  BY <1>1, <1>3 DEF Woken, Positive
<1>5. CASE queue = <<>>
  <2>1. Fault(ok) /\ Become(DoFdRequest(s, ok)) /\ irq' \in BOOLEAN /\ tick' = FALSE
    BY <1>0, <1>1, <1>5
  <2>2. setup' \in SetupType
    BY <2>1, FaultType
  <2>3. Waits(s)
    <3>1. ~twice => timers = <<>> /\ ~panic /\ drv.do_floppy \notin {"rw", "seek"}
      BY <1>1, <1>5 DEF Sound
    <3> QED BY <1>3, <3>1, QuietWaits
  <2> QED BY <1>3, <1>4, <2>1, <2>2, <2>3, Requested
<1>6. CASE queue # <<>>
  <2>1. Become(s) /\ setup' = setup /\ irq' = irq /\ tick' = tick
    BY <1>0, <1>6
  <2>2. Now' = s
    BY <1>3, <2>1, BecomeNow
  <2>3. CURRENT(s) = CURRENT(Now)
    BY <1>1, <1>2, <1>3, <1>6 DEF CURRENT
  <2>4. ASSUME ~twice PROVE Sound(s) /\ Prepared(s, 0)
    <3>1. Sound(s)
      BY <1>1, <1>2, <1>3, <2>3, <2>4 DEF Sound
    <3>2. Prepared(s, 0)
      BY <1>1, <1>3, <2>3, <2>4 DEF Prepared, TimerPrepared, SeekPrepared, OnFor, Chosen
    <3> QED BY <3>1, <3>2
  <2>5. Going(s) \/ NeverIdle'
    <3>1. /\ timers' = timers /\ drv' = drv /\ ctl' = ctl /\ panic' = panic
      BY <1>3, <2>2 DEF Now
    <3> QED BY <1>1, <1>6, <2>1, <3>1 DEF NeverIdle, Busy
  <2>6. FloppyInv'
    BY <1>0, <1>1, <1>3, <1>4, <2>1, <2>2, <2>4, <2>5, InvOfNext
  <2>7. ctl' = ctl
    BY <1>3, <2>2 DEF Now
  <2> QED BY <2>6, <2>7 DEF BeginsReady
<1> QED BY <1>5, <1>6

\* The controller is done with a seek, or with what else it has to do.
LEMMA ControllerKeeps ==
  ASSUME FloppyInv, Controller
  PROVE  FloppyInv' /\ BeginsReady
<1>1. /\ Now \in State /\ Woken(Now) /\ (~tick => Positive(Now)) /\ NeverIdle /\ setup \in SetupType
      /\ irq \in BOOLEAN /\ tick \in BOOLEAN
      /\ ~twice => Sound(Now) /\ Prepared(Now, IF tick THEN 1 ELSE 0)
      /\ Now.queue = queue /\ Now.drv = drv /\ Now.motor = motor /\ Now.timers = timers
      /\ Now.ctl = ctl /\ Now.change = change /\ Now.ended = ended
      /\ Now.panic = panic /\ Now.missed = missed /\ Now.twice = twice
  BY InvNow
<1>2. ctl \in ControllerType
  BY <1>1 DEF State
<1>3. /\ ctl' \in ControllerType /\ ctl'.rw = ctl.rw /\ ctl'.age = ctl.age
      /\ ctl'.exec = "rw" => ctl.exec = "rw"
      /\ Busy /\ irq'
      /\ UNCHANGED <<queue, drv, motor, timers, tick, change, ended, setup, panic, missed, twice>>
  <2>1. CASE SeekDone
    <3>1. PICK at \in Tracks : ctl' = [ctl EXCEPT !.head = NoTrack, !.sense = "seek", !.at = at]
      BY <2>1 DEF SeekDone
    <3> DEFINE c == [ctl EXCEPT !.head = NoTrack]
               d == [c EXCEPT !.sense = "seek"]
               e == [d EXCEPT !.at = at]
    <3>2. c \in ControllerType /\ c.rw = ctl.rw /\ c.age = ctl.age /\ c.exec = ctl.exec
      BY <1>2 DEF ControllerType
    <3>3. ctl' = e
      BY <1>2, <3>1 DEF ControllerType
    <3> HIDE DEF c
    <3>4. d \in ControllerType /\ d.rw = ctl.rw /\ d.age = ctl.age /\ d.exec = ctl.exec
      BY <3>2 DEF ControllerType
    <3> HIDE DEF d
    <3>5. e \in ControllerType /\ e.rw = ctl.rw /\ e.age = ctl.age /\ e.exec = ctl.exec
      BY <3>4 DEF ControllerType
    <3> QED BY <2>1, <3>3, <3>5 DEF SeekDone, Busy
  <2>2. CASE ExecDone
    <3>1. CASE ctl.exec = "rw"
      <4>1. ctl' = [ctl EXCEPT !.exec = "result"]
        BY <2>2, <3>1 DEF ExecDone
      <4>2. ctl' \in ControllerType /\ ctl'.rw = ctl.rw /\ ctl'.age = ctl.age
        BY <1>2, <4>1 DEF ControllerType
      <4> QED BY <2>2, <3>1, <4>2 DEF ExecDone, Busy
    <3>2. CASE ctl.exec # "rw"
      <4>1. ctl' = [ctl EXCEPT !.exec = "none", !.sense = "reset"]
        BY <2>2, <3>2 DEF ExecDone
      <4> DEFINE c == [ctl EXCEPT !.exec = "none"]
                 d == [c EXCEPT !.sense = "reset"]
      <4>2. c \in ControllerType /\ c.rw = ctl.rw /\ c.age = ctl.age /\ c.exec = "none"
        BY <1>2 DEF ControllerType
      <4>3. ctl' = d
        BY <1>2, <4>1 DEF ControllerType
      <4> HIDE DEF c
      <4>4. d \in ControllerType /\ d.rw = ctl.rw /\ d.age = ctl.age /\ d.exec = "none"
        BY <4>2 DEF ControllerType
      <4> QED BY <2>2, <4>3, <4>4 DEF ExecDone, Busy
    <3> QED BY <3>1, <3>2
  <2> QED BY <2>1, <2>2 DEF Controller
<1> DEFINE r == Now'
<1>4. /\ r \in State
      /\ r.queue = queue /\ r.drv = drv /\ r.motor = motor /\ r.timers = timers
      /\ r.ctl = ctl' /\ r.change = change /\ r.ended = ended
      /\ r.panic = panic /\ r.missed = missed /\ r.twice = twice
  <2>1. /\ queue' \in Queues /\ drv' \in DriverType /\ motor' \in MotorType
        /\ timers' \in Seq(TimerType) /\ change' \in ChangeType /\ ended' \in 0..MaxQueue
        /\ panic' \in BOOLEAN /\ missed' \in BOOLEAN /\ twice' \in BOOLEAN
    BY <1>1, <1>3 DEF State
  <2> QED BY <1>3, <2>1, NowNextType
<1>5. Now' = r
  OBVIOUS
<1> HIDE DEF r
<1>6. Woken(r) /\ (~tick' => Positive(r))
  BY <1>1, <1>3, <1>4 DEF Woken, Positive
<1>7. CURRENT(r) = CURRENT(Now)
  BY <1>1, <1>4 DEF CURRENT
<1>8. ~r.twice => Sound(r) /\ Prepared(r, IF tick' THEN 1 ELSE 0)
  <2>1. ~twice => Sound(r)
    BY <1>1, <1>3, <1>4, <1>7 DEF Sound
  <2>2. ASSUME NEW n, Prepared(Now, n) PROVE Prepared(r, n)
    BY <1>1, <1>3, <1>4, <1>7, <2>2 DEF Prepared, TimerPrepared, SeekPrepared, OnFor, Chosen
  <2> QED BY <1>1, <1>3, <1>4, <2>1, <2>2
<1>9. NeverIdle'
  <2>1. Busy'
    BY <1>3 DEF Busy
  <2> QED BY <1>1, <1>3, <2>1 DEF NeverIdle
<1>10. irq' \in BOOLEAN /\ tick' \in BOOLEAN /\ setup' \in SetupType
  <2>1. irq' = TRUE
    BY DEF Controller, SeekDone, ExecDone
  <2> QED BY <1>1, <1>3, <2>1
<1>11. FloppyInv'
  BY <1>4, <1>5, <1>6, <1>8, <1>9, <1>10, InvOfNext
<1> QED BY <1>3, <1>11 DEF BeginsReady

-----------------------------------------------------------------------------
(* The timer interrupt.                                                    *)

\* What a tick does to the motors that are on
Ticks(m, k) ==
  /\ k.select = m.select
  /\ \A d \in m.on :
       /\ k.mon[d] <= m.mon[d]
       /\ m.mon[d] > 0 => k.mon[d] = m.mon[d] - 1
       /\ k.moff[d] >= m.moff[d] - 1
       /\ m.moff[d] > 0 => d \in k.on

\* do_floppy_timer() does not turn a motor off that is used, and wakes the
\* task that waits for one that is up to speed.
LEMMA DoFloppyTimerKeeps ==
  ASSUME FloppyInv, DoFloppyTimer
  PROVE  /\ motor' \in MotorType /\ change' \in ChangeType /\ missed' \in BOOLEAN
         /\ Ticks(motor, motor')
         /\ change'.pc \in {"motor", "spin"} /\ ~missed'
              => change'.nr \in motor'.on /\ motor'.mon[change'.nr] > 0
         /\ change'.pc \in {"full", "wait"} /\ ~missed' => drv.selected
<1>1. /\ Now \in State /\ Woken(Now) /\ Now.motor = motor /\ Now.change = change
      /\ Now.missed = missed /\ Now.drv = drv
  BY InvNow
<1>2. /\ motor \in MotorType /\ change \in ChangeType /\ missed \in BOOLEAN
      /\ change.nr \in Drives
      /\ motor.on \subseteq Drives /\ motor.select \in Drives
      /\ motor.mon \in [Drives -> 0..Spin] /\ motor.moff \in [Drives -> 0..Big]
  BY <1>1 DEF State, MotorType, ChangeType
<1> DEFINE counts(d) == d \in motor.on /\ motor.mon[d] > 0
           up(d) == d \in motor.on /\ motor.mon[d] = 1
           stop(d) == d \in motor.on /\ motor.mon[d] = 0 /\ motor.moff[d] = 0
           mon == [d \in Drives |-> IF counts(d) THEN motor.mon[d] - 1 ELSE motor.mon[d]]
           on == {d \in motor.on : ~stop(d)}
           moff == [d \in Drives |-> IF d \in motor.on /\ ~counts(d) /\ motor.moff[d] \in 1..Off
                                     THEN motor.moff[d] - 1 ELSE motor.moff[d]]
<1>3. /\ motor'.select = motor.select /\ motor'.on = on /\ motor'.mon = mon /\ motor'.moff = moff
      /\ motor' \in [select : Drives, on : SUBSET Drives, mon : {mon}, moff : {moff}]
  <2>1. motor' = [motor EXCEPT
         !.mon = [d \in Drives |-> IF counts(d) THEN @[d] - 1 ELSE @[d]],
         !.on = {d \in @ : ~stop(d)},
         !.moff = [d \in Drives |-> IF d \in motor.on /\ ~counts(d) /\ @[d] \in 1..Off
                                    THEN @[d] - 1 ELSE @[d]]]
    BY Zenon DEF DoFloppyTimer
  <2>2. motor' = [motor EXCEPT !.mon = mon, !.on = on, !.moff = moff]
    BY <2>1, Zenon
  <2>3. on \subseteq Drives
    BY <1>2
  <2> HIDE DEF mon, on, moff
  <2>4. motor' = [select |-> motor.select, on |-> on, mon |-> mon, moff |-> moff]
    BY <1>2, <2>2 DEF MotorType
  <2> QED BY <1>2, <2>3, <2>4
<1>4. mon \in [Drives -> 0..Spin] /\ moff \in [Drives -> 0..Big]
  BY <1>2, Constants
<1>5. motor' \in MotorType
  <2> HIDE DEF mon, on, moff
  <2> QED BY <1>3, <1>4 DEF MotorType
<1>6. Ticks(motor, motor')
  <2> SUFFICES ASSUME NEW d \in motor.on
               PROVE  /\ mon[d] <= motor.mon[d]
                      /\ motor.mon[d] > 0 => mon[d] = motor.mon[d] - 1
                      /\ moff[d] >= motor.moff[d] - 1
                      /\ motor.moff[d] > 0 => d \in on
    <3> HIDE DEF mon, on, moff
    <3> QED BY <1>3 DEF Ticks
  <2> QED BY <1>2, Constants
<1>7. /\ change' = IF change.pc = "spin" /\ up(change.nr) THEN [change EXCEPT !.pc = "on"] ELSE change
      /\ missed' = (missed \/ (change.pc = "motor" /\ up(change.nr)))
  BY Zenon DEF DoFloppyTimer
<1> DEFINE c == change.nr
<1>8. CASE change.pc = "spin" /\ up(c)
  <2>1. change' = [change EXCEPT !.pc = "on"] /\ missed' = missed
    BY <1>2, <1>7, <1>8
  <2> HIDE DEF mon, on, moff
  <2>2. change' \in ChangeType /\ change'.pc = "on"
    BY <1>2, <2>1 DEF ChangeType
  <2> QED BY <1>2, <1>5, <1>6, <2>1, <2>2
<1>9. CASE change.pc = "motor" /\ up(c)
  <2>1. change' = change /\ missed'
    BY <1>7, <1>9
  <2> HIDE DEF mon, on, moff
  <2> QED BY <1>2, <1>5, <1>6, <2>1
<1>10. CASE change.pc \notin {"motor", "spin"} \/ ~up(c)
  <2>1. change' = change /\ missed' = missed
    BY <1>2, <1>7, <1>10
  <2>2. ASSUME change.pc \in {"motor", "spin"}, ~missed
        PROVE  c \in on /\ mon[c] > 0
    <3>1. c \in motor.on /\ motor.mon[c] > 0 /\ motor.mon[c] # 1
      BY <1>1, <1>10, <2>2 DEF Woken
    <3>2. motor.mon[c] \in Nat
      BY <1>2, Constants
    <3> QED BY <1>2, <3>1, <3>2
  <2> HIDE DEF mon, on, moff
  <2>3. change.pc \in {"full", "wait"} /\ ~missed => drv.selected
    BY <1>1 DEF Woken
  <2> HIDE DEF c
  <2>4. change'.nr = c /\ motor'.on = on /\ motor'.mon = mon
    BY <1>3, <2>1 DEF c
  <2>5. change'.pc \in {"motor", "spin"} /\ ~missed'
          => change'.nr \in motor'.on /\ motor'.mon[change'.nr] > 0
    BY <2>1, <2>2, <2>4
  <2>6. change' \in ChangeType /\ missed' \in BOOLEAN
    BY <1>2, <2>1
  <2>7. change'.pc \in {"full", "wait"} /\ ~missed' => drv.selected
    BY <2>1, <2>3
  <2>8. change'.pc \in {"motor", "spin"} /\ ~missed'
          => change'.nr \in motor'.on /\ motor'.mon[change'.nr] > 0
    BY <2>1, <2>5
  <2> QED BY <1>5, <1>6, <2>6, <2>7, <2>8
<1> QED BY <1>8, <1>9, <1>10

\* The motor of a request that is prepared for stays on for one tick less.
LEMMA OnForOneLess ==
  ASSUME NEW s \in State, NEW r \in State, r.queue = s.queue, r.drv = s.drv,
         Ticks(s.motor, r.motor), NEW n \in Nat, OnFor(s, n + 1)
  PROVE  OnFor(r, n)
<1> DEFINE d == s.drv.drive
<1>1. d \in s.motor.on /\ s.motor.moff[d] >= n + 1 /\ CURRENT(s).drive = d
  BY DEF OnFor
<1>2. d \in Drives /\ s.motor.moff[d] \in Int /\ r.motor.moff[d] \in Int
  <2>1. s.drv \in DriverType /\ s.motor \in MotorType /\ r.motor \in MotorType
    BY DEF State
  <2>2. /\ d \in Drives /\ s.motor.moff \in [Drives -> 0..Big]
        /\ r.motor.moff \in [Drives -> 0..Big]
    BY <2>1 DEF DriverType, MotorType
  <2> QED BY <2>2, Constants
<1>3. r.motor.moff[d] >= s.motor.moff[d] - 1 /\ (s.motor.moff[d] > 0 => d \in r.motor.on)
  BY <1>1 DEF Ticks
<1>4. r.motor.moff[d] >= n /\ d \in r.motor.on
  BY <1>1, <1>2, <1>3
<1> QED BY <1>1, <1>4 DEF OnFor, CURRENT

\* The ticks that a motor needs are a number.
LEMMA MonIsNat ==
  ASSUME NEW f \in [Drives -> 0..Spin], NEW e \in Drives
  PROVE  f[e] \in Nat
<1>1. f[e] \in 0..Spin /\ Spin \in Nat
  BY Constants
<1> QED BY <1>1

\* What the first timer and a tick leave of what was prepared: k is how much
\* of the tick is left.
LEMMA TickPrepared ==
  ASSUME NEW s \in State, NEW r \in State, r.queue = s.queue, r.drv = s.drv,
         Ticks(s.motor, r.motor), NEW k \in {0, 1},
         s.timers # <<>> =>
           /\ r.timers # <<>>
           /\ Head(r.timers).fn = Head(s.timers).fn
           /\ Head(r.timers).jiffies = Head(s.timers).jiffies - 1 + k,
         s.timers = <<>> => r.timers = <<>>,
         s.drv.do_floppy = "seek" => r.ctl.age = s.ctl.age + 1 - k,
         Prepared(s, k)
  PROVE  Prepared(r, 0)
<1> DEFINE d == s.drv.drive
<1>1. /\ r.drv.drive = d /\ d \in Drives /\ s.motor.mon[d] \in Nat /\ r.motor.mon[d] \in Nat
      /\ r.motor.select = s.motor.select
      /\ d \in s.motor.on => /\ r.motor.mon[d] <= s.motor.mon[d]
                             /\ s.motor.mon[d] > 0 => r.motor.mon[d] = s.motor.mon[d] - 1
      /\ s.ctl.age \in 0..Answer /\ r.ctl.age \in 0..Answer
      /\ k \in Nat /\ k <= 1
  <2>1. /\ s.drv \in DriverType /\ s.motor \in MotorType /\ r.motor \in MotorType
        /\ s.ctl \in ControllerType /\ r.ctl \in ControllerType
    BY DEF State
  <2>2. d \in Drives /\ s.motor.mon \in [Drives -> 0..Spin] /\ r.motor.mon \in [Drives -> 0..Spin]
    BY <2>1 DEF DriverType, MotorType
  <2>3. s.motor.mon[d] \in Nat /\ r.motor.mon[d] \in Nat
    <3> HIDE DEF d
    <3>1. s.motor.mon[d] \in Nat
      BY ONLY <2>2, MonIsNat
    <3>2. r.motor.mon[d] \in Nat
      BY ONLY <2>2, MonIsNat
    <3> QED BY ONLY <3>1, <3>2
  <2>4. s.ctl.age \in 0..Answer /\ r.ctl.age \in 0..Answer
    BY <2>1 DEF ControllerType
  <2>5. /\ r.motor.select = s.motor.select
        /\ d \in s.motor.on => /\ r.motor.mon[d] <= s.motor.mon[d]
                               /\ s.motor.mon[d] > 0 => r.motor.mon[d] = s.motor.mon[d] - 1
    BY DEF Ticks
  <2> QED BY <2>2, <2>3, <2>4, <2>5
<1>2. Chosen(s) => Chosen(r)
  BY <1>1 DEF Chosen
<1>3. ASSUME r.timers # <<>> PROVE TimerPrepared(r, 0)
  <2> DEFINE j == Head(s.timers).jiffies
             i == Head(r.timers).jiffies
  <2>1. s.timers # <<>> /\ Head(r.timers).fn = Head(s.timers).fn /\ i = j - 1 + k
    BY <1>3
  <2>2. i \in 0..Spin /\ j \in 0..Spin
    <3>1. s.timers \in Seq(TimerType) /\ r.timers \in Seq(TimerType)
      BY DEF State
    <3>2. Head(s.timers) \in TimerType /\ Head(r.timers) \in TimerType
      BY <1>3, <2>1, <3>1, HeadTailProperties
    <3> QED BY <3>2 DEF TimerType
  <2>3. /\ s.motor.mon[d] <= j \/ s.motor.mon[d] <= Select
        /\ IF Head(s.timers).fn = "floppy_on" THEN OnFor(s, k + j + Off - Spin)
           ELSE OnFor(s, k + j + Off - Spin - Select) /\ Chosen(s)
    BY <2>1 DEF Prepared, TimerPrepared
  <2>4. d \in s.motor.on
    BY <2>3 DEF OnFor
  <2> HIDE DEF i, j
  <2>5. r.motor.mon[d] <= i \/ r.motor.mon[d] <= Select
    <3> DEFINE x == r.motor.mon[d]
               y == s.motor.mon[d]
    <3>1. /\ x \in Nat /\ y \in Nat /\ x <= y /\ (y > 0 => x = y - 1)
          /\ y <= j \/ y <= Select
          /\ Select \in Nat /\ i \in Nat /\ j \in Nat /\ i = j - 1 + k /\ k \in Nat
      BY <1>1, <2>1, <2>2, <2>3, <2>4, Constants
    <3> HIDE DEF x, y
    <3>2. x <= i \/ x <= Select
      BY <3>1
    <3> QED BY <3>2 DEF x
  <2> DEFINE a == i + Off - Spin
             b == i + Off - Spin - Select
  <2>6. a \in Nat /\ b \in Nat /\ a + 1 = k + j + Off - Spin /\ b + 1 = k + j + Off - Spin - Select
        /\ a = 0 + i + Off - Spin /\ b = 0 + i + Off - Spin - Select
    <3>1. /\ i \in Nat /\ j \in Nat /\ i = j - 1 + k /\ k \in Nat
          /\ Off \in Nat /\ Spin \in Nat /\ Select \in Nat /\ Spin + Select < Off
      BY <1>1, <2>1, <2>2, Constants
    <3>2. a \in Nat /\ b \in Nat
      BY <3>1
    <3>3. a + 1 = k + j + Off - Spin
      BY <3>1
    <3>4. b + 1 = k + j + Off - Spin - Select
      BY <3>1
    <3>5. a = 0 + i + Off - Spin /\ b = 0 + i + Off - Spin - Select
      BY <3>1
    <3> QED BY <3>2, <3>3, <3>4, <3>5
  <2> HIDE DEF a, b
  <2>7. CASE Head(s.timers).fn = "floppy_on"
    <3>1. OnFor(r, a)
      BY <2>3, <2>6, <2>7, OnForOneLess
    <3> QED BY <1>1, <2>1, <2>5, <2>6, <2>7, <3>1 DEF TimerPrepared, i
  <2>8. CASE Head(s.timers).fn # "floppy_on"
    <3>1. OnFor(r, b)
      BY <2>3, <2>6, <2>8, OnForOneLess
    <3> QED BY <1>1, <1>2, <2>1, <2>3, <2>5, <2>6, <2>8, <3>1 DEF TimerPrepared, i
  <2> QED BY <2>7, <2>8
<1>4. ASSUME s.drv.do_floppy = "seek" PROVE SeekPrepared(r, 0)
  <2> DEFINE a == Off - Spin - Select - r.ctl.age
  <2>1. /\ OnFor(s, k + Off - Spin - Select - s.ctl.age) /\ Chosen(s)
        /\ s.motor.mon[d] <= Select
    BY <1>4 DEF Prepared, SeekPrepared
  <2>2. a \in Nat /\ a + 1 = k + Off - Spin - Select - s.ctl.age
        /\ a = 0 + Off - Spin - Select - r.ctl.age
    <3>1. /\ r.ctl.age \in 0..Answer /\ s.ctl.age \in Nat /\ r.ctl.age = s.ctl.age + 1 - k
          /\ k \in Nat /\ Off \in Nat /\ Spin \in Nat /\ Select \in Nat /\ Answer \in Nat
          /\ Spin + Select + Answer < Off
      BY <1>1, <1>4, Constants
    <3>2. a \in Nat
      BY ONLY <3>1
    <3>3. a + 1 = k + Off - Spin - Select - s.ctl.age
      BY ONLY <3>1
    <3>4. a = 0 + Off - Spin - Select - r.ctl.age
      BY ONLY <3>1
    <3> QED BY <3>2, <3>3, <3>4
  <2>3. d \in s.motor.on
    BY <2>1 DEF OnFor
  <2>4. r.motor.mon[d] <= Select
    <3> DEFINE x == r.motor.mon[d]
               y == s.motor.mon[d]
    <3>1. x \in Nat /\ y \in Nat /\ x <= y /\ y <= Select /\ Select \in Nat
      BY <1>1, <2>1, <2>3, Constants
    <3> HIDE DEF x, y
    <3>2. x <= Select
      BY <3>1
    <3> QED BY <3>2 DEF x
  <2> HIDE DEF a
  <2>5. OnFor(r, a)
    BY <2>1, <2>2, OnForOneLess
  <2> QED BY <1>1, <1>2, <2>1, <2>2, <2>4, <2>5 DEF SeekPrepared
<1> QED BY <1>3, <1>4 DEF Prepared, TimerPrepared, SeekPrepared

\* The tick that counts the first timer down
LEMMA DoTimerKeeps ==
  ASSUME FloppyInv, DoTimer
  PROVE  FloppyInv' /\ BeginsReady
<1> DEFINE t == IF timers = <<>> THEN timers ELSE [timers EXCEPT ![1].jiffies = @ - 1]
           due == Due(t)
           c == [ctl EXCEPT !.age = IF Busy THEN @ + 1 ELSE @]
<1>1. /\ ~tick /\ (Busy => ctl.age < Answer)
      /\ timers' = t /\ ctl' = c /\ tick' = due
      /\ IF due THEN UNCHANGED <<motor, change, missed>> ELSE DoFloppyTimer
      /\ UNCHANGED <<queue, drv, irq, ended, setup, panic, twice>>
  BY Zenon DEF DoTimer
<1>2. /\ Now \in State /\ Woken(Now) /\ Positive(Now) /\ NeverIdle /\ setup \in SetupType
      /\ irq \in BOOLEAN
      /\ ~twice => Sound(Now) /\ Prepared(Now, 0)
      /\ Now.queue = queue /\ Now.drv = drv /\ Now.motor = motor /\ Now.timers = timers
      /\ Now.ctl = ctl /\ Now.change = change /\ Now.ended = ended
      /\ Now.panic = panic /\ Now.missed = missed /\ Now.twice = twice
  BY <1>1, InvNow
<1>3. /\ queue \in Queues /\ drv \in DriverType /\ motor \in MotorType /\ timers \in Seq(TimerType)
      /\ ctl \in ControllerType /\ change \in ChangeType /\ ended \in 0..MaxQueue
      /\ panic \in BOOLEAN /\ missed \in BOOLEAN /\ twice \in BOOLEAN
  BY <1>2 DEF State
<1>4. /\ t \in Seq(TimerType) /\ Len(t) = Len(timers)
      /\ timers = <<>> => t = <<>>
      /\ timers # <<>> => /\ t # <<>> /\ Head(t).fn = Head(timers).fn
                          /\ Head(t).jiffies = Head(timers).jiffies - 1
  <2>1. CASE timers = <<>>
    BY <1>3, <2>1
  <2>2. CASE timers # <<>>
    <3> DEFINE h == Head(timers)
               g == [h EXCEPT !.jiffies = h.jiffies - 1]
    <3>1. h \in TimerType /\ h.jiffies > 0 /\ timers[1] = h /\ Len(timers) \in Nat /\ Len(timers) > 0
      <4>1. h \in TimerType /\ timers[1] = h
        BY <1>3, <2>2
      <4>2. h.jiffies > 0
        BY <1>2, <2>2 DEF Positive
      <4>3. Len(timers) \in Nat /\ Len(timers) > 0
        BY <1>3, <2>2, EmptySeq
      <4> QED BY <4>1, <4>2, <4>3
    <3>2. t = [timers EXCEPT ![1] = g]
      BY <2>2, <3>1
    <3> HIDE DEF t, h
    <3>3. g \in TimerType /\ g.fn = h.fn /\ g.jiffies = h.jiffies - 1
      <4>1. h.jiffies \in 0..Spin /\ Spin \in Nat
        BY <3>1, Constants DEF TimerType
      <4>2. h.jiffies - 1 \in 0..Spin
        BY <3>1, <4>1
      <4> QED BY <3>1, <4>2 DEF TimerType
    <3> HIDE DEF g
    <3>4. t \in Seq(TimerType) /\ Len(t) = Len(timers) /\ t[1] = g
      BY <1>3, <3>1, <3>2, <3>3
    <3>5. t # <<>> /\ Head(t) = g
      BY <3>1, <3>4
    <3> QED BY <2>2, <3>3, <3>4, <3>5 DEF h
  <2> QED BY <2>1, <2>2
<1>5. c \in ControllerType /\ c.exec = ctl.exec /\ c.rw = ctl.rw /\ c.head = ctl.head
      /\ c.age = IF Busy THEN ctl.age + 1 ELSE ctl.age
  <2> DEFINE a == IF Busy THEN ctl.age + 1 ELSE ctl.age
  <2>1. a \in 0..Answer
    <3>1. ctl.age \in 0..Answer
      BY <1>3 DEF ControllerType
    <3> QED BY <1>1, <3>1, Constants
  <2>2. c = [ctl EXCEPT !.age = a]
    BY <1>3 DEF ControllerType
  <2> HIDE DEF a, c
  <2>3. c \in ControllerType /\ c.exec = ctl.exec /\ c.rw = ctl.rw /\ c.head = ctl.head /\ c.age = a
    BY <1>3, <2>1, <2>2 DEF ControllerType
  <2> QED BY <2>3 DEF a
<1>6. due \in BOOLEAN
  BY DEF Due
<1> HIDE DEF t, c, due
<1>7. /\ motor' \in MotorType /\ change' \in ChangeType /\ missed' \in BOOLEAN
      /\ IF due THEN motor' = motor ELSE Ticks(motor, motor')
      /\ change'.pc \in {"motor", "spin"} /\ ~missed'
           => change'.nr \in motor'.on /\ motor'.mon[change'.nr] > 0
      /\ change'.pc \in {"full", "wait"} /\ ~missed' => drv.selected
  <2>1. CASE due
    <3>1. motor' = motor /\ change' = change /\ missed' = missed
      BY <1>1, <2>1
    <3>2. change.pc \in {"motor", "spin"} /\ ~missed => change.nr \in motor.on /\ motor.mon[change.nr] > 0
      BY <1>2 DEF Woken
    <3>3. change.pc \in {"full", "wait"} /\ ~missed => drv.selected
      BY <1>2 DEF Woken
    <3> QED BY <1>3, <2>1, <3>1, <3>2, <3>3
  <2>2. CASE ~due
    BY <1>1, <2>2, DoFloppyTimerKeeps
  <2> QED BY <2>1, <2>2
<1> DEFINE r == Now'
           s == Now
<1>8. /\ r \in State
      /\ r.queue = queue /\ r.drv = drv /\ r.motor = motor' /\ r.timers = t /\ r.ctl = c
      /\ r.change = change' /\ r.ended = ended /\ r.panic = panic /\ r.missed = missed'
      /\ r.twice = twice
  <2>1. /\ queue' \in Queues /\ drv' \in DriverType /\ timers' \in Seq(TimerType)
        /\ ctl' \in ControllerType /\ ended' \in 0..MaxQueue
        /\ panic' \in BOOLEAN /\ twice' \in BOOLEAN
    BY <1>1, <1>3, <1>4, <1>5
  <2> QED BY <1>1, <1>7, <2>1, NowNextType
<1>9. Now' = r /\ Now = s
  OBVIOUS
<1> HIDE DEF r, s
<1>10. Woken(r)
  BY <1>7, <1>8 DEF Woken
<1>11. ~tick' => Positive(r)
  <2> SUFFICES ASSUME ~due, t # <<>> PROVE Head(t).jiffies > 0
    BY <1>1, <1>8 DEF Positive
  <2>1. ~(Head(t).jiffies <= 0)
    BY DEF due, Due
  <2>2. Head(t) \in TimerType
    BY <1>4
  <2>3. Head(t).jiffies \in Int
    BY <2>2, Constants DEF TimerType
  <2> QED BY <2>1, <2>3
<1>12. NeverIdle'
  <2>1. Busy => Busy'
    BY <1>1, <1>5 DEF Busy
  <2> QED BY <1>1, <1>2, <1>4, <2>1 DEF NeverIdle
<1>13. ASSUME ~twice PROVE Sound(r) /\ Prepared(r, IF tick' THEN 1 ELSE 0)
  <2>1. Sound(s) /\ Prepared(s, 0)
    BY <1>2, <1>9, <1>13
  <2>2. /\ s \in State /\ s.queue = queue /\ s.drv = drv /\ s.motor = motor /\ s.timers = timers
        /\ s.ctl = ctl /\ s.ended = ended /\ s.panic = panic
    BY <1>2, <1>9
  <2>3. CURRENT(r) = CURRENT(s)
    BY <1>8, <2>2 DEF CURRENT
  <2>4. Sound(r)
    <3>1. timers = <<>> <=> t = <<>>
      BY <1>4
    <3> QED BY <1>4, <1>5, <1>8, <2>1, <2>2, <2>3, <3>1 DEF Sound
  <2>5. CASE due
    <3>1. timers # <<>> /\ drv.do_floppy # "seek"
      <4>1. t # <<>>
        BY <2>5 DEF due, Due
      <4> QED BY <1>4, <2>1, <2>2, <4>1 DEF Sound
    <3> DEFINE j == Head(timers).jiffies
               i == Head(t).jiffies
               d == drv.drive
    <3>2. i = j - 1 /\ j > 0 /\ i <= 0 /\ i \in 0..Spin /\ j \in 0..Spin
      <4>1. i <= 0
        BY <2>5 DEF due, Due
      <4>2. j > 0
        BY <1>2, <3>1 DEF Positive
      <4>3. Head(timers) \in TimerType /\ Head(t) \in TimerType
        BY <1>3, <1>4, <3>1
      <4> QED BY <1>4, <3>1, <4>1, <4>2, <4>3 DEF TimerType
    <3>3. /\ motor.mon[d] <= j \/ motor.mon[d] <= Select
          /\ IF Head(timers).fn = "floppy_on" THEN OnFor(s, 0 + j + Off - Spin)
             ELSE OnFor(s, 0 + j + Off - Spin - Select) /\ Chosen(s)
      BY <2>1, <2>2, <3>1 DEF Prepared, TimerPrepared
    <3> HIDE DEF i, j
    <3>4. i = 0 /\ j = 1 /\ 0 + j + Off - Spin = 1 + i + Off - Spin
          /\ 0 + j + Off - Spin - Select = 1 + i + Off - Spin - Select
      BY <3>2, Constants
    <3>5. ASSUME NEW n, OnFor(s, n) PROVE OnFor(r, n)
      BY <1>7, <1>8, <2>2, <2>3, <2>5, <3>5 DEF OnFor
    <3>6. Chosen(s) => Chosen(r)
      BY <1>7, <1>8, <2>2, <2>5 DEF Chosen
    <3>7. motor.mon[d] <= Select
      <4>1. motor.mon[d] \in Int
        BY <1>3, Constants DEF MotorType, DriverType
      <4> QED BY <3>3, <3>4, <4>1, Constants
    <3>8. TimerPrepared(r, 1)
      BY <1>4, <1>7, <1>8, <2>5, <3>1, <3>3, <3>4, <3>5, <3>6, <3>7 DEF TimerPrepared, i
    <3>9. SeekPrepared(r, 1)
      BY <1>8, <3>1 DEF SeekPrepared
    <3> QED BY <1>1, <2>4, <2>5, <3>8, <3>9 DEF Prepared
  <2>6. CASE ~due
    <3>1. drv.do_floppy = "seek" => Busy
      <4> SUFFICES ASSUME drv.do_floppy = "seek" PROVE Busy
        OBVIOUS
      <4>1. queue # <<>> /\ ~panic /\ timers = <<>>
        BY <2>1, <2>2 DEF Sound
      <4> QED BY <1>2, <4>1 DEF NeverIdle
    <3>2. s.drv.do_floppy = "seek" => r.ctl.age = s.ctl.age + 1 - 0
      <4>1. ctl.age \in Int
        BY <1>3, Constants DEF ControllerType
      <4> QED BY <1>5, <1>8, <2>2, <3>1, <4>1
    <3>3. s.timers # <<>> =>
            /\ r.timers # <<>>
            /\ Head(r.timers).fn = Head(s.timers).fn
            /\ Head(r.timers).jiffies = Head(s.timers).jiffies - 1 + 0
      <4> SUFFICES ASSUME timers # <<>> PROVE Head(t).jiffies = Head(timers).jiffies - 1 + 0
        BY <1>4, <1>8, <2>2
      <4>1. Head(timers) \in TimerType
        BY <1>3
      <4>2. Head(timers).jiffies \in Int
        BY <4>1, Constants DEF TimerType
      <4> QED BY <1>4, <4>2
    <3>4. s.timers = <<>> => r.timers = <<>>
      BY <1>4, <1>8, <2>2
    <3>5. r.queue = s.queue /\ r.drv = s.drv /\ Ticks(s.motor, r.motor) /\ r \in State
      BY <1>7, <1>8, <2>2, <2>6
    <3>6. Prepared(r, 0)
      BY <2>1, <2>2, <3>2, <3>3, <3>4, <3>5, TickPrepared
    <3> QED BY <1>1, <2>4, <2>6, <3>6
  <2> QED BY <2>5, <2>6
<1>14. FloppyInv'
  <2>1. irq' \in BOOLEAN /\ tick' \in BOOLEAN /\ setup' \in SetupType
    BY <1>1, <1>2, <1>6
  <2>2. ~r.twice => Sound(r) /\ Prepared(r, IF tick' THEN 1 ELSE 0)
    BY <1>8, <1>13
  <2> QED BY <1>8, <1>9, <1>10, <1>11, <1>12, <2>1, <2>2, InvOfNext
<1>15. ctl'.exec = ctl.exec
  BY <1>1, <1>5
<1> QED BY <1>14, <1>15 DEF BeginsReady

\* The end of the tick
LEMMA TimersDoneKeeps ==
  ASSUME FloppyInv, TimersDone
  PROVE  FloppyInv' /\ BeginsReady
<1>1. /\ tick /\ ~Due(timers) /\ DoFloppyTimer /\ tick' = FALSE
      /\ UNCHANGED <<queue, drv, timers, ctl, irq, ended, setup, panic, twice>>
  BY DEF TimersDone
<1>2. /\ Now \in State /\ NeverIdle /\ setup \in SetupType /\ irq \in BOOLEAN
      /\ ~twice => Sound(Now) /\ Prepared(Now, 1)
      /\ Now.queue = queue /\ Now.drv = drv /\ Now.motor = motor /\ Now.timers = timers
      /\ Now.ctl = ctl /\ Now.change = change /\ Now.ended = ended
      /\ Now.panic = panic /\ Now.missed = missed /\ Now.twice = twice
  BY <1>1, InvNow
<1>3. /\ motor' \in MotorType /\ change' \in ChangeType /\ missed' \in BOOLEAN
      /\ Ticks(motor, motor')
      /\ change'.pc \in {"motor", "spin"} /\ ~missed'
           => change'.nr \in motor'.on /\ motor'.mon[change'.nr] > 0
      /\ change'.pc \in {"full", "wait"} /\ ~missed' => drv.selected
  BY <1>1, DoFloppyTimerKeeps
<1> DEFINE r == Now'
           s == Now
<1>4. /\ r \in State
      /\ r.queue = queue /\ r.drv = drv /\ r.motor = motor' /\ r.timers = timers /\ r.ctl = ctl
      /\ r.change = change' /\ r.ended = ended /\ r.panic = panic /\ r.missed = missed'
      /\ r.twice = twice
  <2>1. /\ queue' \in Queues /\ drv' \in DriverType /\ timers' \in Seq(TimerType)
        /\ ctl' \in ControllerType /\ ended' \in 0..MaxQueue
        /\ panic' \in BOOLEAN /\ twice' \in BOOLEAN
    BY <1>1, <1>2 DEF State
  <2> QED BY <1>1, <1>3, <2>1, NowNextType
<1>5. Now' = r /\ Now = s
  OBVIOUS
<1> HIDE DEF r, s
<1>6. Woken(r)
  BY <1>3, <1>4 DEF Woken
<1>7. timers # <<>> => Head(timers).jiffies \in Int
  <2>1. timers \in Seq(TimerType)
    BY <1>2 DEF State
  <2>2. timers # <<>> => Head(timers) \in TimerType
    BY <2>1, HeadTailProperties
  <2> QED BY <2>2, Constants DEF TimerType
<1>8. Positive(r)
  BY <1>1, <1>4, <1>7 DEF Positive, Due
<1>9. NeverIdle'
  BY <1>1, <1>2 DEF NeverIdle, Busy
<1>10. /\ s \in State /\ s.queue = queue /\ s.drv = drv /\ s.motor = motor /\ s.timers = timers
       /\ s.ctl = ctl /\ s.ended = ended /\ s.panic = panic
  BY <1>2, <1>5
<1>11. ASSUME ~twice PROVE Sound(r) /\ Prepared(r, 0)
  <2>1. Sound(s) /\ Prepared(s, 1)
    BY <1>2, <1>5, <1>11
  <2>2. Sound(r)
    BY <1>4, <1>10, <2>1 DEF Sound, CURRENT
  <2>3. s.drv.do_floppy = "seek" => r.ctl.age = s.ctl.age + 1 - 1
    <3>1. ctl.age \in Int
      <4>1. ctl \in ControllerType
        BY <1>2 DEF State
      <4> QED BY <4>1, Constants DEF ControllerType
    <3> QED BY <1>4, <1>10, <3>1
  <2>4. s.timers # <<>> =>
          /\ r.timers # <<>>
          /\ Head(r.timers).fn = Head(s.timers).fn
          /\ Head(r.timers).jiffies = Head(s.timers).jiffies - 1 + 1
    BY <1>4, <1>7, <1>10
  <2>5. s.timers = <<>> => r.timers = <<>>
    BY <1>4, <1>10
  <2>6. r.queue = s.queue /\ r.drv = s.drv /\ Ticks(s.motor, r.motor) /\ r \in State
    BY <1>3, <1>4, <1>10
  <2>7. Prepared(r, 0)
    BY <1>10, <2>1, <2>3, <2>4, <2>5, <2>6, TickPrepared
  <2> QED BY <2>2, <2>7
<1>12. FloppyInv'
  <2>1. irq' \in BOOLEAN /\ tick' = FALSE /\ setup' \in SetupType
    BY <1>1, <1>2
  <2>2. ~r.twice => Sound(r) /\ Prepared(r, IF tick' THEN 1 ELSE 0)
    BY <1>4, <1>11, <2>1
  <2> QED BY <1>4, <1>5, <1>6, <1>8, <1>9, <2>1, <2>2, InvOfNext
<1> QED BY <1>1, <1>12 DEF BeginsReady

\* The function of a timer that is due is called.
LEMMA FireTimerKeeps ==
  ASSUME FloppyInv, NEW ok \in BOOLEAN, FireTimer(ok)
  PROVE  FloppyInv' /\ BeginsReady
<1> DEFINE s == [Now EXCEPT !.timers = Tail(timers)]
           r == IF Head(timers).fn = "transfer" THEN Transfer(s, ok) ELSE FloppyOnInterrupt(s, ok)
           d == drv.drive
<1>1. /\ tick /\ ~panic /\ Due(timers) /\ Fault(ok) /\ Become(r) /\ UNCHANGED <<irq, tick>>
  BY Zenon DEF FireTimer
<1>2. /\ Now \in State /\ Woken(Now) /\ irq \in BOOLEAN /\ tick \in BOOLEAN
      /\ ~twice => Sound(Now) /\ Prepared(Now, 1)
      /\ Now.queue = queue /\ Now.drv = drv /\ Now.motor = motor /\ Now.timers = timers
      /\ Now.ctl = ctl /\ Now.change = change /\ Now.ended = ended
      /\ Now.panic = panic /\ Now.missed = missed /\ Now.twice = twice
  BY <1>1, InvNow
<1>3. /\ timers \in Seq(TimerType) /\ timers # <<>> /\ Tail(timers) \in Seq(TimerType)
      /\ Len(Tail(timers)) = Len(timers) - 1 /\ Len(timers) \in Nat
      /\ Head(timers).jiffies <= 0 /\ Head(timers).jiffies \in 0..Spin
      /\ Head(timers).fn \in {"floppy_on", "transfer"}
  <2>1. timers \in Seq(TimerType) /\ timers # <<>> /\ Head(timers).jiffies <= 0
    BY <1>1, <1>2 DEF State, Due
  <2>2. Head(timers) \in TimerType /\ Tail(timers) \in Seq(TimerType)
        /\ Len(Tail(timers)) = Len(timers) - 1
    BY <2>1, HeadTailProperties
  <2>3. Len(timers) \in Nat
    BY <2>1
  <2> QED BY <2>1, <2>2, <2>3 DEF TimerType
<1>4. /\ s \in State /\ s.queue = queue /\ s.drv = drv /\ s.motor = motor
      /\ s.timers = Tail(timers) /\ s.ctl = ctl /\ s.change = change /\ s.ended = ended
      /\ s.panic = panic /\ s.missed = missed /\ s.twice = twice
  BY <1>2, <1>3 DEF State
<1> HIDE DEF s
<1>5. Woken(s)
  BY <1>2, <1>4 DEF Woken
<1>6. Head(timers).jiffies = 0 /\ d \in Drives /\ motor.mon[d] \in Nat
  <2>1. drv \in DriverType /\ motor \in MotorType
    BY <1>2 DEF State
  <2>2. d \in Drives /\ motor.mon \in [Drives -> 0..Spin]
    BY <2>1 DEF DriverType, MotorType
  <2> QED BY <1>3, <2>2, Constants
\* What was prepared
<1>7. ASSUME ~twice
      PROVE  /\ ~s.panic /\ s.timers = <<>> /\ s.queue # <<>> /\ CURRENT(s).fits
             /\ s.drv.do_floppy \notin {"rw", "seek"}
             /\ s.motor.mon[s.drv.drive] <= Select
             /\ Head(timers).fn = "floppy_on" => OnFor(s, 1 + Off - Spin)
             /\ Head(timers).fn = "transfer" => OnFor(s, 1 + Off - Spin - Select) /\ Chosen(s)
  <2>1. Sound(Now) /\ TimerPrepared(Now, 1)
    BY <1>2, <1>7 DEF Prepared
  <2>2. CURRENT(s) = CURRENT(Now)
    BY <1>2, <1>4 DEF CURRENT
  <2>3. /\ ~panic /\ Len(timers) <= 1 /\ queue # <<>> /\ CURRENT(s).fits
        /\ drv.do_floppy \notin {"rw", "seek"}
    BY <1>2, <1>3, <2>1, <2>2 DEF Sound
  <2>4. Tail(timers) = <<>>
    BY <1>3, <2>3, EmptySeq
  <2>5. /\ motor.mon[d] <= 0 \/ motor.mon[d] <= Select
        /\ IF Head(timers).fn = "floppy_on" THEN OnFor(Now, 1 + 0 + Off - Spin)
           ELSE OnFor(Now, 1 + 0 + Off - Spin - Select) /\ Chosen(Now)
    BY <1>2, <1>3, <1>6, <2>1 DEF TimerPrepared
  <2>6. motor.mon[d] <= Select
    BY <1>6, <2>5, Constants
  <2>7. ASSUME NEW n, OnFor(Now, n) PROVE OnFor(s, n)
    BY <1>2, <1>4, <2>2, <2>7 DEF OnFor
  <2>8. Chosen(Now) => Chosen(s)
    BY <1>2, <1>4 DEF Chosen
  <2>9. 1 + 0 + Off - Spin = 1 + Off - Spin /\ 1 + 0 + Off - Spin - Select = 1 + Off - Spin - Select
    BY Constants
  <2>10. /\ Head(timers).fn = "floppy_on" => OnFor(s, 1 + Off - Spin)
         /\ Head(timers).fn = "transfer" => OnFor(s, 1 + Off - Spin - Select) /\ Chosen(s)
    BY <2>5, <2>7, <2>8, <2>9
  <2> QED BY <1>4, <2>3, <2>4, <2>6, <2>10
<1>8. /\ r \in State /\ Woken(r) /\ Going(r) /\ r.twice = twice
      /\ ~twice => /\ Sound(r) /\ Prepared(r, 1)
                   /\ s.ctl.exec # "rw" /\ r.ctl.exec = "rw" => Begun(r)
  <2>1. CASE Head(timers).fn = "transfer"
    <3>1. r = Transfer(s, ok)
      BY <2>1
    <3> HIDE DEF r
    <3>2. /\ r \in State /\ Same(s, r)
          /\ s.queue # <<>> => r.panic = s.panic /\ Commanded(s, r)
          /\ s.queue = <<>> => r.panic \/ r.ctl.exec # "rw"
      BY <1>4, <3>1, TransferCommands
    <3>3. Woken(r)
      BY <1>5, <3>2 DEF Woken, Same
    <3>4. Going(r)
      BY <3>2 DEF Going, Same, Commanded
    <3>5. ASSUME ~twice
          PROVE  /\ Sound(r) /\ Prepared(r, 1)
                 /\ r.ctl.exec = "rw" /\ s.ctl.exec # "rw" => Begun(r)
      <4>1. /\ ~s.panic /\ s.timers = <<>> /\ s.queue # <<>> /\ CURRENT(s).fits
            /\ s.motor.mon[s.drv.drive] <= Select
            /\ OnFor(s, 1 + Off - Spin - Select) /\ Chosen(s)
        BY <1>7, <2>1, <3>5
      <4>2. /\ CURRENT(r) = CURRENT(s) /\ r.timers = <<>> /\ Len(r.timers) = 0 /\ ~r.panic
            /\ r.queue # <<>> /\ Commanded(s, r)
        BY <3>2, <4>1 DEF CURRENT, Same
      <4>3. Sound(r)
        BY <3>2, <4>2 DEF Sound, Commanded, Same
      <4>4. ASSUME NEW n, OnFor(s, n) PROVE OnFor(r, n)
        BY <3>2, <4>2, <4>4 DEF OnFor, Same
      <4>5. Chosen(r) /\ r.motor.mon[r.drv.drive] <= Select
        BY <3>2, <4>1 DEF Chosen, Same
      <4>6. Prepared(r, 1)
        <5>1. r.drv.do_floppy = "seek" => r.ctl.age = 0
          BY <4>2 DEF Commanded
        <5>2. 1 + Off - Spin - Select - 0 = 1 + Off - Spin - Select
          BY Constants
        <5>3. r.drv.do_floppy = "seek" => OnFor(r, 1 + Off - Spin - Select - r.ctl.age)
          BY <4>1, <4>4, <5>1, <5>2
        <5> QED BY <4>2, <4>5, <5>3 DEF Prepared, TimerPrepared, SeekPrepared
      <4>7. r.ctl.exec = "rw" /\ s.ctl.exec # "rw" => Begun(r)
        <5>1. r.ctl.exec = "rw" /\ s.ctl.exec # "rw" => r.ctl.rw.drive = s.drv.drive
          BY <4>2 DEF Commanded
        <5> QED BY <3>2, <4>1, <4>2, <4>5, <5>1 DEF Begun, OnFor, Chosen, Same
      <4> QED BY <4>3, <4>6, <4>7
    <3> QED BY <1>4, <3>2, <3>3, <3>4, <3>5 DEF Same
  <2>2. CASE Head(timers).fn = "floppy_on"
    <3>1. r = FloppyOnInterrupt(s, ok)
      BY <2>2
    <3> HIDE DEF r
    <3>2. r \in State /\ r.twice = s.twice
      BY <1>4, <3>1, FloppyOnInterruptKeeps
    <3>3. 1 \in {0, 1}
      OBVIOUS
    <3>4. /\ Woken(s) => Woken(r)
          /\ Going(r)
          /\ /\ s.queue # <<>> /\ CURRENT(s).drive = s.drv.drive /\ s.drv.drive \in s.motor.on
             /\ s.motor.mon[s.drv.drive] <= Select /\ s.ctl.exec # "rw" /\ r.ctl.exec = "rw"
             => Begun(r)
          /\ /\ ~s.panic /\ s.timers = <<>> /\ s.queue # <<>> /\ CURRENT(s).fits
             /\ s.drv.do_floppy \notin {"rw", "seek"} /\ OnFor(s, 1 + Off - Spin)
             /\ s.motor.mon[s.drv.drive] <= Select
             => Sound(r) /\ Prepared(r, 1)
      BY <1>4, <3>1, <3>3, FloppyOnInterruptInv
    <3>5. ~twice => /\ Sound(r) /\ Prepared(r, 1)
                    /\ s.ctl.exec # "rw" /\ r.ctl.exec = "rw" => Begun(r)
      <4> SUFFICES ASSUME ~twice
                   PROVE  /\ Sound(r) /\ Prepared(r, 1)
                          /\ s.ctl.exec # "rw" /\ r.ctl.exec = "rw" => Begun(r)
        OBVIOUS
      <4>1. /\ ~s.panic /\ s.timers = <<>> /\ s.queue # <<>> /\ CURRENT(s).fits
            /\ s.drv.do_floppy \notin {"rw", "seek"} /\ OnFor(s, 1 + Off - Spin)
            /\ s.motor.mon[s.drv.drive] <= Select
        BY <1>7, <2>2
      <4>2. CURRENT(s).drive = s.drv.drive /\ s.drv.drive \in s.motor.on
        BY <4>1 DEF OnFor
      <4> QED BY <3>4, <4>1, <4>2
    <3> QED BY <1>4, <1>5, <3>2, <3>4, <3>5
  <2> QED BY <1>3, <2>1, <2>2
<1> HIDE DEF r
<1>9. Now' = r
  BY <1>1, <1>8, BecomeNow
<1>10. FloppyInv'
  <2>1. irq' \in BOOLEAN /\ tick' \in BOOLEAN /\ tick'
    BY <1>1, <1>2
  <2>2. setup' \in SetupType
    BY <1>1, FaultType
  <2>3. ~r.twice => Sound(r) /\ Prepared(r, IF tick' THEN 1 ELSE 0)
    BY <1>8, <2>1
  <2> QED BY <1>8, <1>9, <2>1, <2>2, <2>3, InvOfNext
<1>11. BeginsReady
  <2>1. ctl' = r.ctl /\ s.ctl = ctl
    BY <1>4, <1>9 DEF Now
  <2> QED BY <1>8, <1>9, <2>1 DEF BeginsReady
<1> QED BY <1>10, <1>11

-----------------------------------------------------------------------------
(* The theorems.                                                           *)

\* In the beginning there is nothing to do.
LEMMA FloppyBegins == Init => FloppyInv
<1> SUFFICES ASSUME Init PROVE FloppyInv
  OBVIOUS
<1>1. PICK d \in Drives :
        drv = [do_floppy |-> "NULL", reset |-> FALSE, recalibrate |-> FALSE, seek |-> FALSE,
               drive |-> d, track |-> NoTrack, seek_track |-> 0, selected |-> FALSE]
  <2>1. drv \in [do_floppy : {"NULL"}, reset : {FALSE}, recalibrate : {FALSE}, seek : {FALSE},
              drive : Drives, track : {NoTrack}, seek_track : {0}, selected : {FALSE}]
    BY DEF Init
  <2>2. drv.drive \in Drives
    BY <2>1
  <2>3. drv = [do_floppy |-> "NULL", reset |-> FALSE, recalibrate |-> FALSE, seek |-> FALSE,
               drive |-> drv.drive, track |-> NoTrack, seek_track |-> 0, selected |-> FALSE]
    BY <2>1
  <2> QED BY <2>2, <2>3
<1>2. drv \in DriverType /\ drv.do_floppy = "NULL"
  BY <1>1, Constants DEF DriverType
<1>3. motor \in MotorType
  <2>1. motor = [select |-> d, on |-> {}, mon |-> [e \in Drives |-> 0],
                 moff |-> [e \in Drives |-> 0]]
    BY <1>1 DEF Init
  <2> DEFINE z == [e \in Drives |-> 0]
  <2>2. z \in [Drives -> 0..Spin] /\ z \in [Drives -> 0..Big]
    BY Constants
  <2>3. motor = [select |-> d, on |-> {}, mon |-> z, moff |-> z]
    BY <2>1
  <2> HIDE DEF z
  <2> QED BY <2>2, <2>3 DEF MotorType
<1>4. ctl \in ControllerType
  <2>1. ctl = [exec |-> "none", rw |-> None, head |-> NoTrack, sense |-> "none", at |-> 0, age |-> 0]
    BY DEF Init
  <2>2. None \in [req : 0..MaxQueue, drive : Drives \cup {NoDrive}]
    BY Constants DEF None
  <2> HIDE DEF NoTrack
  <2> QED BY <2>1, <2>2, Constants DEF ControllerType
<1>5. change \in ChangeType /\ change.pc = "out"
  <2>1. change = [pc |-> "out", nr |-> d]
    BY <1>1 DEF Init
  <2> QED BY <2>1 DEF ChangeType
<1>6. setup \in SetupType
  BY FloppyAssumption DEF Init, SetupType
<1>7. /\ queue = <<>> /\ timers = <<>> /\ ended = 0 /\ irq = FALSE /\ tick = FALSE
      /\ panic = FALSE /\ missed = FALSE /\ twice = FALSE
  BY DEF Init
<1>8. queue \in Seq(Requests) /\ Len(queue) = 0 /\ timers \in Seq(TimerType) /\ Len(timers) = 0
  BY <1>7
<1>9. TypeOK
  <2>1. Len(queue) <= MaxQueue /\ ended \in 0..MaxQueue
    BY <1>7, <1>8, Constants
  <2>2. {irq, tick, panic, missed, twice} \subseteq BOOLEAN
    BY <1>7
  <2> QED BY <1>2, <1>3, <1>4, <1>5, <1>6, <1>8, <2>1, <2>2, Zenon
          DEF TypeOK, DriverType, MotorType, TimerType, ControllerType, ChangeType, SetupType
<1>10. /\ Now.queue = queue /\ Now.drv = drv /\ Now.timers = timers /\ Now.change = change
       /\ Now.panic = panic
  BY DEF Now
<1>11. Woken(Now) /\ Positive(Now)
  BY <1>5, <1>7, <1>10 DEF Woken, Positive
<1>12. Sound(Now) /\ Prepared(Now, 0)
  BY <1>2, <1>7, <1>8, <1>10 DEF Sound, Prepared, TimerPrepared, SeekPrepared
<1>13. NeverIdle
  BY <1>7 DEF NeverIdle
<1> QED BY <1>7, <1>9, <1>11, <1>12, <1>13 DEF FloppyInv

\* Every step keeps the invariant and begins a transfer only if all is ready.
LEMMA FloppyKeeps ==
  ASSUME FloppyInv, [Next]_vars
  PROVE  FloppyInv' /\ (BeginsReady \/ UNCHANGED vars)
<1>1. CASE UNCHANGED vars
  <2>1. FloppyInv'
    <3>1. /\ Now \in State /\ Now' = Now /\ irq' = irq /\ tick' = tick /\ setup' = setup
          /\ Now.twice = twice
      BY <1>1, InvNow DEF vars, Now
    <3>2. NeverIdle'
      BY ONLY <1>1, FloppyInv DEF vars, FloppyInv, NeverIdle, Busy
    <3> QED BY ONLY FloppyInv, <3>1, <3>2, InvNow, InvOfNext
  <2> QED BY <1>1, <2>1
<1>2. CASE Controller
  BY <1>2, ControllerKeeps
<1>3. CASE Interrupt
  <2>1. PICK ok \in BOOLEAN, ok2 \in BOOLEAN :
          \/ ok2 /\ (RwInterrupt(ok) \/ UnexpectedFloppyInterrupt(ok))
          \/ SeekInterrupt(ok, ok2) \/ RecalInterrupt(ok, ok2) \/ ResetInterrupt(ok, ok2)
    BY <1>3 DEF Interrupt
  <2> QED BY <2>1, RwInterruptKeeps, UnexpectedKeeps, SeekInterruptKeeps, RecalInterruptKeeps,
             ResetInterruptKeeps
<1>4. CASE TimerInterrupt
  BY <1>4, DoTimerKeeps, FireTimerKeeps, TimersDoneKeeps DEF TimerInterrupt
<1>5. CASE Task
  BY <1>5, TaskKeeps
<1>6. ASSUME NEW r \in NewRequests, NEW ok \in BOOLEAN, AddRequest(r, ok)
      PROVE  FloppyInv' /\ BeginsReady
  BY <1>6, AddRequestKeeps
<1>7. ASSUME NEW nr \in Drives, FloppyChange(nr)
      PROVE  FloppyInv' /\ BeginsReady
  BY <1>7, FloppyChangeKeeps
<1> QED BY <1>1, <1>2, <1>3, <1>4, <1>5, <1>6, <1>7 DEF Next

\* The inductive invariant.
THEOREM FloppyInvariant == Spec => []FloppyInv
<1>1. FloppyInv /\ [Next]_vars => FloppyInv'
  BY FloppyKeeps
<1> QED BY FloppyBegins, <1>1, PTL DEF Spec

(***************************************************************************)
(* Unless a request is begun while its timer runs, the data that the       *)
(* controller moves is that of CURRENT, and CURRENT is never NULL where it *)
(* is used, for any number of drives and requests, any errors and any      *)
(* calls of floppy_change() (floppy.c:233-267).                            *)
(***************************************************************************)
THEOREM RequestsAreMoved == Spec => []MovedForCURRENT
<1>1. FloppyInv => MovedForCURRENT
  <2> SUFFICES ASSUME FloppyInv, ~twice
               PROVE  /\ ~panic
                      /\ drv.do_floppy = "rw" => ctl.rw.req = ended /\ ctl.rw.drive = drv.drive
    BY DEF MovedForCURRENT
  <2>1. Sound(Now)
    BY DEF FloppyInv
  <2> QED BY <2>1 DEF Sound, Now
<1> QED BY <1>1, FloppyInvariant, PTL

(***************************************************************************)
(* The driver never stops with requests in its list: a timer is set, or an *)
(* interrupt will come that do_floppy expects (floppy.c:233-455).          *)
(***************************************************************************)
THEOREM SomebodyGoesOn == Spec => []NeverIdle
<1>1. FloppyInv => NeverIdle
  BY DEF FloppyInv
<1> QED BY <1>1, FloppyInvariant, PTL

(***************************************************************************)
(* A task that sleeps in floppy_on() or floppy_change() waits for a motor  *)
(* that is spinning up, or for a drive that is in use, unless the          *)
(* wake_up() came before the sleep (sched.c:237-267, floppy.c:142-146).    *)
(***************************************************************************)
THEOREM SleepersAreWoken == Spec => []ChangeIsWoken
<1>1. FloppyInv => ChangeIsWoken
  BY DEF FloppyInv, Woken, Now, ChangeIsWoken
<1> QED BY <1>1, FloppyInvariant, PTL

(***************************************************************************)
(* A transfer is begun only for CURRENT, on its drive, with the drive      *)
(* selected and its motor on and up to speed, whatever other tasks do to   *)
(* the motors and to the selection meanwhile: the 3*HZ ticks after which a *)
(* motor goes off are more than the preparations take (floppy.c:304-308,   *)
(* 404-415; sched.c:211-267).                                              *)
(***************************************************************************)
THEOREM TransfersAreReady == Spec => TransferReady
<1> DEFINE A == LET d == ctl'.rw.drive IN
                ~twice /\ ctl.exec # "rw" /\ ctl'.exec = "rw"
                  => /\ Head(queue').drive = d
                     /\ motor'.select = d /\ d \in motor'.on /\ motor'.mon[d] <= Select
<1>1. FloppyInv /\ [Next]_vars => [A]_vars
  <2> SUFFICES ASSUME FloppyInv, [Next]_vars, ~UNCHANGED vars PROVE A
    OBVIOUS
  <2>1. BeginsReady
    BY FloppyKeeps
  <2> QED BY <2>1 DEF BeginsReady, Begun, CURRENT, Now
<1> QED BY <1>1, FloppyInvariant, PTL DEF Spec, TransferReady

=============================================================================
