------------------------------- MODULE Floppy -------------------------------
(***************************************************************************)
(* The floppy driver, kernel/blk_drv/floppy.c, with the motors and the     *)
(* timers of kernel/sched.c that it depends on.  A request waits until the *)
(* motor of its drive is up to speed (a timer), until the drive is         *)
(* selected (another), perhaps for a seek, and then for the transfer (an   *)
(* interrupt each).  Meanwhile a task in floppy_change() turns the motors  *)
(* on and off and selects drives as well.                                  *)
(*                                                                         *)
(* The functions of the driver call one another, from interrupts, timers   *)
(* and tasks: they are functions from states, records of the variables, to *)
(* states.  A handler is one step, which abstracts from the interrupts     *)
(* that a handler lets in (floppy.c:460 sets a trap gate); the loops of    *)
(* do_timer() and the test and the sleep of floppy_change() are steps of   *)
(* their own.  The controller is not part of the source: it is modelled    *)
(* from how the driver uses it.                                            *)
(***************************************************************************)
EXTENDS Integers, Sequences, SequencesExt

CONSTANTS Drives,
          Tracks,      \* 0, and others
          MaxErrors,   \* MAX_ERRORS
          Spin,        \* HZ/2: ticks until a motor is up to speed
          Select,      \* 2: ticks until a drive is selected
          Off,         \* 3*HZ: ticks until a motor that is not used goes off
          Answer,      \* bound: ticks until the controller answers and is heard
          TimeRequests,\* TIME_REQUESTS
          MaxQueue,    \* bound: requests in the list
          Setups       \* bounds: how often the controller may fail to take or give
                       \* bytes, how often floppy_change() is called, and the
                       \* <<drive, track, fits>> of the blocks that are asked for

NoTrack == 255         \* current_track before the first seek

ASSUME FloppyAssumption ==
  /\ 0 \in Tracks /\ NoTrack \notin Tracks
  /\ {MaxErrors, MaxQueue, TimeRequests, Select} \subseteq Nat \ {0}
  /\ {Spin, Answer, Off} \subseteq Nat
  /\ Select < Spin /\ Spin + Select + Answer < Off
  /\ Setups \subseteq [faults : Nat, changes : Nat, blocks : SUBSET (Drives \X Tracks \X BOOLEAN)]

VARIABLES queue,       \* the list from CURRENT on
          drv,         \* the variables of floppy.c
          motor,       \* current_DOR, mon_timer[], moff_timer[]
          timers,      \* the list from next_timer on: delays and functions
          ctl, irq,    \* the controller; is its interrupt pending?
          tick,        \* is do_timer() at its loop over the timers?
          change,      \* the task in floppy_change()
          ended,       \* history: counts the requests that were ended
          setup,       \* what is left of the one of the Setups that was chosen
          panic,       \* did the kernel panic, or the driver use a CURRENT that is NULL?
          missed,      \* history: a wake_up() came between test and sleep
          twice        \* history: a request was begun while its timer ran

vars == <<queue, drv, motor, timers, ctl, irq, tick, change, ended, setup, panic, missed, twice>>

NoDrive == 0
Big == Off + 1         \* 10000 ticks, which are never over
None == [req |-> 0, drive |-> NoDrive]

\* fits: is the block inside the floppy?
Requests == [drive : Drives, track : Tracks, fits : BOOLEAN, errors : 0..MaxErrors]

NewRequests == {r \in Requests : r.errors = 0 /\ <<r.drive, r.track, r.fits>> \in setup.blocks}

Rounds == MaxQueue + 1 \* ended counts modulo this

(***************************************************************************)
(* track is current_track, seek_track and seek are those of the request    *)
(* that do_fd_request() looked at last.  rw is the transfer that the       *)
(* controller works on, exec what else keeps it from taking a command:     *)
(* a reset, or the results of a transfer that nobody has fetched.  head is *)
(* the seek under way, sense what it has to say to a FD_SENSEI.            *)
(***************************************************************************)
TypeOK ==
  /\ queue \in Seq(Requests) /\ Len(queue) <= MaxQueue
  /\ drv \in [do_floppy : {"NULL", "rw", "seek", "recal", "reset"},
              reset : BOOLEAN, recalibrate : BOOLEAN, seek : BOOLEAN,
              drive : Drives, track : Tracks \cup {NoTrack}, seek_track : Tracks,
              selected : BOOLEAN]
  /\ motor \in [select : Drives, on : SUBSET Drives, mon : [Drives -> 0..Spin],
                moff : [Drives -> 0..Big]]
  /\ timers \in Seq([jiffies : 0..Spin, fn : {"floppy_on", "transfer"}])
  /\ ctl \in [exec : {"none", "reset", "rw", "result"}, rw : [req : 0..MaxQueue,
              drive : Drives \cup {NoDrive}], head : Tracks \cup {NoTrack},
              sense : {"none", "seek", "reset"}, at : Tracks, age : 0..Answer]
  /\ {irq, tick, panic, missed, twice} \subseteq BOOLEAN
  /\ change \in [pc : {"out", "on", "motor", "spin", "test", "full", "wait", "read"},
                 nr : Drives]
  /\ ended \in 0..MaxQueue
  /\ setup \in [faults : Nat, changes : Nat, blocks : SUBSET (Drives \X Tracks \X BOOLEAN)]

-----------------------------------------------------------------------------
(* Functions of the state.                                                 *)

Now == [queue |-> queue, drv |-> drv, motor |-> motor, timers |-> timers, ctl |-> ctl,
        change |-> change, ended |-> ended, panic |-> panic, missed |-> missed, twice |-> twice]

Become(s) ==
  /\ queue' = s.queue /\ drv' = s.drv /\ motor' = s.motor /\ timers' = s.timers
  /\ ctl' = s.ctl /\ change' = s.change /\ ended' = s.ended
  /\ panic' = s.panic /\ missed' = s.missed /\ twice' = s.twice

CURRENT(s) == Head(s.queue)
IsNULL(s) == s.queue = <<>>

\* The page directory is taken for the request, and written to.
WritesNULL(s) == [s EXCEPT !.panic = TRUE]

\* floppy_off(), which end_request() calls as DEVICE_OFF
FloppyOff(s, d) == [s EXCEPT !.motor.moff[d] = Off]

EndRequest(s) ==
  IF IsNULL(s) THEN WritesNULL(s)
  ELSE [FloppyOff(s, CURRENT(s).drive)
          EXCEPT !.queue = Tail(s.queue), !.ended = (s.ended + 1) % Rounds]

\* Slip: the task that waits for the drive is not woken.
SlipDeselect(s) == [s EXCEPT !.drv.selected = FALSE]

(***************************************************************************)
(* floppy_deselect(): wakes the task that waits for the drive.  If it has  *)
(* only decided to wait, it will sleep until the next time.                *)
(***************************************************************************)
Deselect(s) ==
  [s EXCEPT !.drv.selected = FALSE,
            !.change.pc = IF @ = "wait" THEN "test" ELSE @,
            !.missed = @ \/ s.change.pc = "full"]

\* Slip: the drive is selected though another one is in use.
SlipTicksToFloppyOn(s, d) ==
  [s EXCEPT !.motor.moff[d] = Big,
            !.motor.on = @ \cup {d},
            !.motor.select = d,
            !.motor.mon[d] = IF d \notin s.motor.on THEN Spin
                             ELSE IF d # s.motor.select /\ @ < Select THEN Select ELSE @]

\* ticks_to_floppy_on(): turns the motor on, and selects the drive unless
\* another one is in use
TicksToFloppyOn(s, d) ==
  LET m == s.motor
      sel == IF s.drv.selected THEN m.select ELSE d
  IN  [s EXCEPT !.motor =
        [moff |-> [m.moff EXCEPT ![d] = Big],
         on |-> m.on \cup {d},
         select |-> sel,
         mon |-> [m.mon EXCEPT ![d] = IF d \notin m.on THEN Spin
                                      ELSE IF sel # m.select /\ @ < Select THEN Select ELSE @]]]

(***************************************************************************)
(* add_timer() of a delay j > 0.  It goes behind the timers that are due   *)
(* before it and its delay counts from theirs; the delay of the timer that *)
(* is then behind it is left as it was.  Without a free timer the kernel   *)
(* panics.                                                                 *)
(***************************************************************************)
AddTimer(s, j, f) ==
  LET t == s.timers
      left[i \in 0..Len(t)] == IF i = 0 THEN j ELSE left[i - 1] - t[i].jiffies
      here == Min({i \in 0..Len(t) : i < Len(t) => t[i + 1].jiffies >= left[i]})
  IN  IF Len(t) = TimeRequests THEN [s EXCEPT !.panic = TRUE]
      ELSE [s EXCEPT !.timers = InsertAt(t, here + 1, [jiffies |-> left[here], fn |-> f])]

\* The controller takes the bytes of a command, unless it is busy.
Ready(s) == s.ctl.exec = "none"

\* reset_floppy(), called by do_fd_request() for whatever function found
\* that the controller takes no bytes
ResetFloppy(s) ==
  [s EXCEPT !.drv.reset = FALSE, !.drv.recalibrate = TRUE, !.drv.seek = FALSE,
            !.drv.do_floppy = "reset",
            !.ctl = [exec |-> "reset", rw |-> None, head |-> NoTrack,
                     sense |-> "none", at |-> 0, age |-> 0]]

\* A seek or recalibrate command, if the bytes are taken (ok)
SendSeek(s, intr, track, ok) ==
  IF ok /\ Ready(s)
  THEN [s EXCEPT !.drv.do_floppy = intr, !.ctl.head = track, !.ctl.age = 0]
  ELSE ResetFloppy(s)

\* setup_rw_floppy(); setup_DMA() needs the buffer of CURRENT.
SetupRwFloppy(s, ok) ==
  IF IsNULL(s) THEN WritesNULL(s)
  ELSE IF ok /\ Ready(s)
  THEN [s EXCEPT !.drv.do_floppy = "rw", !.ctl.exec = "rw",
                 !.ctl.rw = [req |-> s.ended, drive |-> s.drv.drive],
                 !.ctl.age = 0]
  ELSE ResetFloppy(s)

Transfer(s, ok) ==
  CASE s.drv.reset -> ResetFloppy(s)
    [] ~s.drv.reset /\ ~s.drv.seek -> SetupRwFloppy(s, ok)
    [] OTHER -> SendSeek(s, "seek", s.drv.seek_track, ok)

FloppyOnInterrupt(s, ok) ==
  LET r == [s EXCEPT !.drv.selected = TRUE] IN
  IF s.drv.drive # s.motor.select
  THEN AddTimer([r EXCEPT !.motor.select = s.drv.drive], Select, "transfer")
  ELSE Transfer(r, ok)

RecalibrateFloppy(s, ok) ==
  SendSeek([s EXCEPT !.drv.recalibrate = FALSE, !.drv.track = 0], "recal", 0, ok)

\* The requests at the head of the list that lie outside their floppy
Unfit(s) ==
  CHOOSE n \in 0..Len(s.queue) :
    /\ \A i \in 1..n : ~s.queue[i].fits
    /\ n < Len(s.queue) => s.queue[n + 1].fits

\* do_fd_request(): ... those are ended,
EndUnfit(s) ==
  [s EXCEPT !.queue = SubSeq(@, Unfit(s) + 1, Len(@)), !.ended = (@ + Unfit(s)) % Rounds,
            !.motor.moff = [d \in Drives |->
               IF \E i \in 1..Unfit(s) : s.queue[i].drive = d THEN Off ELSE @[d]],
            !.drv.seek = \E i \in 1..Unfit(s) : s.queue[i].drive # s.drv.drive,
            !.drv.drive = IF Unfit(s) = 0 THEN @ ELSE s.queue[Unfit(s)].drive]

\* ... and the first one that remains is begun.
StartCURRENT(s, ok) ==
  LET c == CURRENT(s)
      r == TicksToFloppyOn(
             [s EXCEPT !.twice = @ \/ s.timers # <<>>,
                       !.drv.seek = @ \/ c.drive # s.drv.drive \/ c.track # s.drv.track,
                       !.drv.drive = c.drive, !.drv.seek_track = c.track], c.drive)
  IN  IF r.motor.mon[c.drive] = 0 THEN FloppyOnInterrupt(r, ok)
      ELSE AddTimer(r, r.motor.mon[c.drive], "floppy_on")

DoFdRequest(s, ok) ==
  LET r == [s EXCEPT !.drv.seek = FALSE] IN
  CASE s.drv.reset -> ResetFloppy(r)
    [] ~s.drv.reset /\ s.drv.recalibrate -> RecalibrateFloppy(r, ok)
    [] OTHER -> IF EndUnfit(r).queue = <<>> THEN EndUnfit(r) ELSE StartCURRENT(EndUnfit(r), ok)

(***************************************************************************)
(* bad_flp_intr(): a request with too many errors is ended.  CURRENT then  *)
(* is the next one, or NULL, and an entry of the page directory, which     *)
(* lies at address 0 and is a large number, is taken for the errors.       *)
(***************************************************************************)
BadFlpIntr(s) ==
  LET n == CURRENT(s).errors + 1
      r == IF n > MaxErrors THEN EndRequest(Deselect(s))
           ELSE [s EXCEPT !.queue[1].errors = n]
  IN  IF IsNULL(s) THEN WritesNULL(s)
      ELSE IF IsNULL(r) \/ CURRENT(r).errors > MaxErrors \div 2
      THEN [r EXCEPT !.drv.reset = TRUE]
      ELSE [r EXCEPT !.drv.recalibrate = TRUE]

-----------------------------------------------------------------------------
(* The controller.                                                         *)

\* It has something to do, or its interrupt has not come through.
Busy == ctl.exec \in {"rw", "reset"} \/ ctl.head # NoTrack \/ irq

\* It has been given a command, and interrupts when it is done with it.
SeekDone ==
  /\ ctl.head # NoTrack /\ ~tick /\ ~panic
  /\ \E at \in Tracks : ctl' = [ctl EXCEPT !.head = NoTrack, !.sense = "seek", !.at = at]
  /\ irq' = TRUE
  /\ UNCHANGED <<queue, drv, motor, timers, tick, change, ended, setup, panic, missed, twice>>

ExecDone ==
  /\ ctl.exec \in {"rw", "reset"} /\ ~tick /\ ~panic
  /\ ctl' = IF ctl.exec = "rw" THEN [ctl EXCEPT !.exec = "result"]
            ELSE [ctl EXCEPT !.exec = "none", !.sense = "reset"]
  /\ irq' = TRUE
  /\ UNCHANGED <<queue, drv, motor, timers, tick, change, ended, setup, panic, missed, twice>>

-----------------------------------------------------------------------------
(* The interrupt.                                                          *)

\* The handler takes do_floppy, and calls it.
Takes(intr) ==
  /\ irq /\ ~tick /\ ~panic
  /\ drv.do_floppy = intr
  /\ irq' = FALSE
  /\ UNCHANGED tick

\* Slip: do_floppy is left as it was.
SlipTaken == Now

Taken == [Now EXCEPT !.drv.do_floppy = "NULL"]

\* ok: does the controller take the bytes it should take?
Fault(ok) ==
  /\ ok \/ setup.faults > 0
  /\ setup' = IF ok THEN setup ELSE [setup EXCEPT !.faults = @ - 1]

\* FD_SENSEI, which the controller takes only if it is idle
Sensed(s, ok) == IF ok /\ Ready(s) THEN [s EXCEPT !.ctl.sense = "none", !.ctl.at = 0]
                 ELSE [s EXCEPT !.drv.reset = TRUE]

(***************************************************************************)
(* rw_interrupt(): the transfer has been done, or has failed, or cannot be *)
(* done because of the write protection.  If there are no results at all   *)
(* ST1 is left from an earlier command and may say that, too.              *)
(***************************************************************************)
RwInterrupt(ok) ==
  LET s == IF ctl.exec = "none" THEN Taken
           ELSE IF ctl.exec = "result" /\ ok
           THEN [Taken EXCEPT !.ctl.exec = "none", !.ctl.rw = None]
           ELSE [Taken EXCEPT !.drv.reset = TRUE]
  IN
  /\ Takes("rw")
  /\ Fault(ok)
  /\ \/ Become(DoFdRequest(EndRequest(Deselect(s)), TRUE))
     \/ Become(DoFdRequest(BadFlpIntr(s), TRUE))

SeekInterrupt(ok, ok2) ==
  LET s == Sensed(Taken, ok) IN
  /\ Takes("seek")
  /\ Fault(ok /\ ok2)
  /\ Become(IF ~s.drv.reset /\ ctl.sense = "seek" /\ ctl.at = drv.seek_track
            THEN SetupRwFloppy([s EXCEPT !.drv.track = ctl.at], ok2)
            ELSE DoFdRequest(BadFlpIntr(s), ok2))

\* recal_interrupt(): here a failed recalibration is a fault.
RecalInterrupt(ok, ok2) ==
  LET s == Sensed(Taken, ok) IN
  /\ Takes("recal")
  /\ Fault(ok /\ ok2)
  /\ Become(DoFdRequest(IF s.drv.reset \/ ctl.sense = "none"
                        THEN [s EXCEPT !.drv.reset = TRUE]
                        ELSE [s EXCEPT !.drv.recalibrate = FALSE], ok2))

\* Slip: the requests that wait are forgotten.
SlipResetInterrupt(ok, ok2) ==
  /\ Takes("reset")
  /\ Fault(ok /\ ok2)
  /\ Become(Sensed(Taken, ok))

ResetInterrupt(ok, ok2) ==
  /\ Takes("reset")
  /\ Fault(ok /\ ok2)
  /\ Become(DoFdRequest(Sensed(Taken, ok), ok2))

UnexpectedFloppyInterrupt(ok) ==
  LET s == Sensed(Now, ok) IN
  /\ Takes("NULL")
  /\ Fault(ok)
  /\ Become(IF s.drv.reset \/ ctl.sense = "none" THEN [s EXCEPT !.drv.reset = TRUE]
            ELSE [s EXCEPT !.drv.recalibrate = TRUE])

-----------------------------------------------------------------------------
(* The timer interrupt.                                                    *)

Due(t) == t # <<>> /\ Head(t).jiffies <= 0

(***************************************************************************)
(* do_floppy_timer(): for each motor that is on.  The task that waits for  *)
(* the motor is woken when it is up to speed, unless it does not sleep     *)
(* yet.                                                                    *)
(***************************************************************************)
DoFloppyTimer ==
  LET counts(d) == d \in motor.on /\ motor.mon[d] > 0
      up(d) == d \in motor.on /\ motor.mon[d] = 1
      stop(d) == d \in motor.on /\ motor.mon[d] = 0 /\ motor.moff[d] = 0
  IN
  /\ motor' = [motor EXCEPT
       !.mon = [d \in Drives |-> IF counts(d) THEN @[d] - 1 ELSE @[d]],
       !.on = {d \in @ : ~stop(d)},
       !.moff = [d \in Drives |-> IF d \in motor.on /\ ~counts(d) /\ @[d] \in 1..Off
                                  THEN @[d] - 1 ELSE @[d]]]
  /\ change' = IF change.pc = "spin" /\ up(change.nr) THEN [change EXCEPT !.pc = "on"] ELSE change
  /\ missed' = (missed \/ (change.pc = "motor" /\ up(change.nr)))

\* do_timer() counts the first timer down, if there is one; the motors are
\* looked at when no timer is due.
DoTimer ==
  LET t == IF timers = <<>> THEN timers ELSE [timers EXCEPT ![1].jiffies = @ - 1] IN
  /\ ~tick /\ ~panic /\ (timers # <<>> \/ motor.on # {})
  /\ Busy => ctl.age < Answer
  /\ timers' = t
  /\ ctl' = [ctl EXCEPT !.age = IF Busy THEN @ + 1 ELSE @]
  /\ tick' = Due(t)
  /\ IF Due(t) THEN UNCHANGED <<motor, change, missed>> ELSE DoFloppyTimer
  /\ UNCHANGED <<queue, drv, irq, ended, setup, panic, twice>>

\* The functions of the timers that are due are called.
FireTimer(ok) ==
  LET s == [Now EXCEPT !.timers = Tail(timers)] IN
  /\ tick /\ ~panic /\ Due(timers)
  /\ Fault(ok)
  /\ Become(IF Head(timers).fn = "transfer" THEN Transfer(s, ok) ELSE FloppyOnInterrupt(s, ok))
  /\ UNCHANGED <<irq, tick>>

TimersDone ==
  /\ tick /\ ~panic /\ ~Due(timers)
  /\ DoFloppyTimer
  /\ tick' = FALSE
  /\ UNCHANGED <<queue, drv, timers, ctl, irq, ended, setup, panic, twice>>

-----------------------------------------------------------------------------
(* Tasks.                                                                  *)

\* add_request(): the first request of an empty list starts the driver.  (The
\* place of the others in the list is a matter of BlkRequest.tla.)
AddRequest(r, ok) ==
  LET s == [Now EXCEPT !.queue = Append(queue, r)] IN
  /\ ~tick /\ ~panic /\ Len(queue) < MaxQueue
  /\ IF queue = <<>> THEN Fault(ok) /\ Become(DoFdRequest(s, ok))
     ELSE ok /\ Become(s) /\ UNCHANGED setup
  /\ UNCHANGED <<irq, tick>>

At(l) == ~tick /\ ~panic /\ change.pc = l
Goto(l) == change' = [change EXCEPT !.pc = l]

FloppyChange(nr) ==
  /\ At("out") /\ setup.changes > 0
  /\ change' = [pc |-> "on", nr |-> nr]
  /\ setup' = [setup EXCEPT !.changes = @ - 1]
  /\ UNCHANGED <<queue, drv, motor, timers, ctl, irq, tick, ended, panic, missed, twice>>

\* floppy_on(): while (ticks_to_floppy_on(nr)), which allows interrupts
FloppyOn ==
  LET s == TicksToFloppyOn(Now, change.nr) IN
  /\ At("on")
  /\ Become([s EXCEPT !.change.pc = IF s.motor.mon[change.nr] > 0 THEN "motor" ELSE "test"])
  /\ UNCHANGED <<irq, tick, setup>>

\* sleep_on(nr+wait_motor)
SleepOnMotor ==
  /\ At("motor") /\ Goto("spin")
  /\ UNCHANGED <<queue, drv, motor, timers, ctl, irq, tick, ended, setup, panic, missed, twice>>

\* floppy_change(): the drive is selected, or another one is in use, or
\* everything begins again.
TestSelected ==
  /\ At("test")
  /\ Goto(IF motor.select = change.nr THEN "read" ELSE IF drv.selected THEN "full" ELSE "on")
  /\ UNCHANGED <<queue, drv, motor, timers, ctl, irq, tick, ended, setup, panic, missed, twice>>

\* interruptible_sleep_on(&wait_on_floppy_select)
SleepOnSelect ==
  /\ At("full") /\ Goto("wait")
  /\ UNCHANGED <<queue, drv, motor, timers, ctl, irq, tick, ended, setup, panic, missed, twice>>

\* inb(FD_DIR), floppy_off(nr)
ReadChange ==
  /\ At("read")
  /\ Become([FloppyOff(Now, change.nr) EXCEPT !.change.pc = "out"])
  /\ UNCHANGED <<irq, tick, setup>>

-----------------------------------------------------------------------------
Init ==
  /\ queue = <<>>
  /\ drv \in [do_floppy : {"NULL"}, reset : {FALSE}, recalibrate : {FALSE}, seek : {FALSE},
              drive : Drives, track : {NoTrack}, seek_track : {0}, selected : {FALSE}]
  /\ motor = [select |-> drv.drive, on |-> {}, mon |-> [d \in Drives |-> 0],
              moff |-> [d \in Drives |-> 0]]
  /\ timers = <<>>
  /\ ctl = [exec |-> "none", rw |-> None, head |-> NoTrack, sense |-> "none", at |-> 0, age |-> 0]
  /\ irq = FALSE /\ tick = FALSE
  /\ panic = FALSE /\ missed = FALSE /\ twice = FALSE
  /\ change = [pc |-> "out", nr |-> drv.drive]
  /\ ended = 0 /\ setup \in Setups

Controller == SeekDone \/ ExecDone

Interrupt ==
  \E ok, ok2 \in BOOLEAN :
    \/ ok2 /\ (RwInterrupt(ok) \/ UnexpectedFloppyInterrupt(ok))
    \/ SeekInterrupt(ok, ok2) \/ RecalInterrupt(ok, ok2) \/ ResetInterrupt(ok, ok2)

TimerInterrupt == DoTimer \/ (\E ok \in BOOLEAN : FireTimer(ok)) \/ TimersDone

Task == FloppyOn \/ SleepOnMotor \/ TestSelected \/ SleepOnSelect \/ ReadChange

Next ==
  \/ Controller \/ Interrupt \/ TimerInterrupt \/ Task
  \/ \E r \in NewRequests, ok \in BOOLEAN : AddRequest(r, ok)
  \/ \E nr \in Drives : FloppyChange(nr)

Spec == Init /\ [][Next]_vars

-----------------------------------------------------------------------------
(***************************************************************************)
(* A transfer is begun only for a request that is at the head of the list, *)
(* on its drive, with the drive selected and its motor on and up to speed, *)
(* whatever floppy_change() does to the motors and to the selection        *)
(* (floppy.c:304-308, 404-415; sched.c:211-267).  mon need not be 0: the   *)
(* timer fires in the tick in which the motor comes up to speed, just      *)
(* before it does; and if floppy_change() has selected another drive and   *)
(* then this one again meanwhile, the wait of Select ticks that follows a  *)
(* selection may not be over.                                              *)
(***************************************************************************)
TransferReady ==
  [][LET d == ctl'.rw.drive IN
     ~twice /\ ctl.exec # "rw" /\ ctl'.exec = "rw"
       => /\ Head(queue').drive = d
          /\ motor'.select = d /\ d \in motor'.on /\ motor'.mon[d] <= Select]_vars

(***************************************************************************)
(* The data that the controller has moved is that of the request that is   *)
(* then ended as done, and a NULL CURRENT is never used (floppy.c:233-267).*)
(***************************************************************************)
MovedForCURRENT ==
  ~twice => /\ ~panic
            /\ drv.do_floppy = "rw" => ctl.rw.req = ended /\ ctl.rw.drive = drv.drive

(***************************************************************************)
(* As long as there are requests somebody goes on with them: a timer is    *)
(* set, or the controller will interrupt and the interrupt is expected     *)
(* (floppy.c:233-455).                                                     *)
(***************************************************************************)
NeverIdle ==
  queue # <<>> /\ ~panic =>
    timers # <<>> \/ (drv.do_floppy # "NULL" /\ Busy)

(***************************************************************************)
(* A task that sleeps in floppy_on() or floppy_change() sleeps for         *)
(* something that will happen: the motor is spinning up, another drive is  *)
(* in use (floppy.c:142-146; sched.c:237-267).  The wake_up() is lost if   *)
(* it comes between the test and the sleep.                                *)
(***************************************************************************)
ChangeIsWoken ==
  /\ change.pc = "spin" /\ ~missed => change.nr \in motor.on /\ motor.mon[change.nr] > 0
  /\ change.pc = "wait" /\ ~missed => drv.selected

(***************************************************************************)
(* transfer() "is called when everything should be correctly set up for    *)
(* the transfer" (floppy.c:305-308): there is a request to be served.      *)
(***************************************************************************)
CURRENTIsUsed == ~panic

=============================================================================
