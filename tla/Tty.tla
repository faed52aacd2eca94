-------------------------------- MODULE Tty --------------------------------
(***************************************************************************)
(* A terminal on a serial line: tty_io.c with the interrupt routines of    *)
(* rs_io.s and serial.c.  A received character goes to read_q, from there  *)
(* copy_to_cooked() takes it to the secondary queue and echoes it to       *)
(* write_q, all in the interrupt.  One task reads, one writes.  The kernel *)
(* is not preempted, so a task that has the processor keeps it until it    *)
(* sleeps, calls schedule() or returns; interrupts come between any two of *)
(* its steps.                                                              *)
(*                                                                         *)
(* A queue is the sequence of the characters between tail and head; of     *)
(* write_q only the number matters.  Characters are named for what they    *)
(* are to a terminal with INIT_C_CC.                                       *)
(***************************************************************************)
EXTENDS Integers, Sequences, SequencesExt

CONSTANTS ReadSize, SecondarySize, WriteSize,
                       \* TTY_BUF_SIZE, for each of the queues
          LowWater,    \* the 128 of sleep_if_full()
          Startup,     \* startup of rs_io.s
          Slack,       \* the 20 of tty_read()
          Setups,      \* who may use the terminal, and in which modes: the
                       \* flags, VMIN, VTIME and the characters of c_cc;
                       \* bounds: the characters typed, and the masks of
                       \* signals that its users may have
          MaxCount     \* bound: count of a read() or write()

ASSUME SizeAssumption ==
  /\ {ReadSize, SecondarySize, WriteSize} \subseteq Nat \ {0, 1}
  /\ LowWater \in Nat \ {0, 1} /\ Startup \in Nat \ {0} /\ Startup + LowWater < WriteSize
  /\ Slack \in Nat /\ Slack < SecondarySize - 1

Tasks == {"reader", "writer"}

VARIABLES read_q, secondary,
          data,        \* secondary.data: complete lines in it
          write_q,     \* characters in it
          tx,          \* is the transmit interrupt enabled?
          mode,        \* termios
          reader, writer,   \* where the tasks are, and their variables
          cr_flag, alarm, signal, blocked, asleep,
          cpu,         \* the task in the kernel, if any
          setup,       \* the one of the Setups that was chosen
          underrun,    \* history: a character was taken from an empty queue
          recoded      \* history: VEOF was changed, and with it the number
                       \* of line ends among the characters of secondary

queues == <<read_q, secondary, data>>
output == <<write_q, tx>>
history == <<underrun, recoded>>
vars == <<queues, output, mode, reader, writer, cr_flag, alarm, signal, blocked, asleep, cpu,
          setup, history>>

TypeOK ==
  /\ read_q \in Seq(setup.chars) /\ Len(read_q) < ReadSize
  /\ secondary \in Seq(setup.chars \cup {"print", "ctl", "nl"}) /\ Len(secondary) < SecondarySize
  /\ data \in Int
  /\ write_q \in 0..WriteSize - 1
  /\ {tx, cr_flag, underrun, recoded} \subseteq BOOLEAN
  /\ setup \in Setups /\ mode \in setup.modes
  /\ reader \in [pc : {"idle", "top", "empty", "get", "more", "out"}, nr : 0..MaxCount,
                 got : 0..MaxCount, min : 0..MaxCount, time : BOOLEAN, flag : BOOLEAN,
                 oldalarm : {"none", "caller"}]
  /\ writer \in [pc : {"idle", "top", "full", "fill", "put"}, nr : 0..MaxCount, again : BOOLEAN]
  /\ alarm \in {"none", "caller", "own"}
  /\ signal \in [Tasks -> SUBSET {"INT", "ALRM"}]
  /\ blocked \in [Tasks -> setup.masks]
  /\ asleep \subseteq Tasks
  /\ cpu \in setup.users \cup {"none"}

Has(f) == f \in mode.flags
Canon == Has("ICANON")
LEFT(size, n) == size - 1 - n
FULL(size, n) == LEFT(size, n) = 0
EMPTY == secondary = <<>>

-----------------------------------------------------------------------------
(* Input.  What copy_to_cooked() changes is the record st.                 *)

IsLineEnd(c) == c \in {"nl", mode.cc.VEOF}

\* ICRNL, IGNCR, INLCR
Converted(c) ==
  CASE c = "cr" /\ Has("ICRNL") -> "nl"
    [] c = "cr" /\ ~Has("ICRNL") /\ Has("IGNCR") -> "none"
    [] c = "nl" /\ Has("INLCR") -> "cr"
    [] OTHER -> c

Printing(c) == c \in {"plain", "erase", "print"}

\* What is left of a character in the queue: its code, if it is a newline or
\* may become the end of a file, or else whether it is a control character.
AsStored(c) ==
  CASE c = "nl" \/ \E m \in setup.modes : m.cc.VEOF = c -> c
    [] OTHER -> IF Printing(c) THEN "print" ELSE "ctl"

\* n times PUTCH() to write_q, which does not look whether there is room, and
\* rs_write().
Echo(st, n) ==
  IF ~Has("ECHO") THEN st
  ELSE [st EXCEPT !.write_q = (@ + n) % WriteSize,
                  !.tx = @ \/ (st.write_q + n) % WriteSize # 0]

\* Slip: an end of file can be erased.
SlipEraseLast(st) ==
  IF st.secondary = <<>> \/ Last(st.secondary) = "nl" THEN st
  ELSE [Echo(st, IF Printing(Last(st.secondary)) THEN 1 ELSE 2) EXCEPT !.secondary = Front(@)]

\* The last character of the line is taken back.
EraseLast(st) ==
  IF st.secondary = <<>> \/ IsLineEnd(Last(st.secondary)) THEN st
  ELSE [Echo(st, IF Printing(Last(st.secondary)) THEN 1 ELSE 2) EXCEPT !.secondary = Front(@)]

Kill(st) == FoldLeft(LAMBDA s, c : EraseLast(s), st, st.secondary)

\* How a character is echoed
Width(c) ==
  CASE c = "nl" -> 2
    [] Printing(c) -> 1
    [] OTHER -> IF Has("ECHOCTL") THEN 2 ELSE 0

Cook(st, c) ==
  [Echo(st, Width(c)) EXCEPT !.data = IF IsLineEnd(c) THEN @ + 1 ELSE @,
                             !.secondary = Append(@, c)]

\* One turn of the loop.  group: the tasks of the terminal's process group.
\* STOP and START set tty->stopped, which nothing reads.
CopyOne(st, group) ==
  LET c == Converted(Head(st.read_q))
      s == [st EXCEPT !.read_q = Tail(@)] IN
  CASE c = "none" -> s
    [] Canon /\ c = mode.cc.VKILL -> Kill(s)
    [] Canon /\ c = mode.cc.VERASE -> EraseLast(s)
    [] Canon /\ c \in {mode.cc.VSTOP, mode.cc.VSTART} -> s
    [] Has("ISIG") /\ c = mode.cc.VINTR ->
         [s EXCEPT !.signal = [t \in Tasks |-> IF t \in group THEN @[t] \cup {"INT"} ELSE @[t]]]
    [] OTHER -> Cook(s, AsStored(c))

CopyAll(st, group) ==
  FoldLeft(LAMBDA s, c : IF FULL(SecondarySize, Len(s.secondary)) THEN s ELSE CopyOne(s, group),
           st, st.read_q)

\* Slip: the reader is woken only when the queue is full.
SlipCopyToCooked(st, group) ==
  LET s == CopyAll(st, group) IN
  IF FULL(SecondarySize, Len(s.secondary)) THEN [s EXCEPT !.asleep = @ \ {"reader"}] ELSE s

CopyToCooked(st, group) ==
  [CopyAll(st, group) EXCEPT !.asleep = @ \ {"reader"}]

\* read_char: a character that does not fit is dropped.
Type(c, group) ==
  LET st == CopyToCooked([read_q |-> IF FULL(ReadSize, Len(read_q)) THEN read_q ELSE Append(read_q, c),
                          secondary |-> secondary, data |-> data, write_q |-> write_q, tx |-> tx,
                          signal |-> signal, asleep |-> asleep], group) IN
  /\ ~underrun
  /\ read_q' = st.read_q /\ secondary' = st.secondary /\ data' = st.data
  /\ write_q' = st.write_q /\ tx' = st.tx
  /\ signal' = st.signal /\ asleep' = st.asleep
  /\ UNCHANGED <<mode, reader, writer, cr_flag, alarm, blocked, cpu, setup, history>>

\* Slip: the writer is woken only above the mark.
SlipWakes == write_q > Startup

\* write_char wakes a sleeping writer.
Wakes == write_q <= Startup

\* The line takes a character, and the last one disables the interrupt.
WriteChar ==
  /\ tx /\ ~underrun
  /\ asleep' = IF Wakes THEN asleep \ {"writer"} ELSE asleep
  /\ write_q' = IF write_q = 0 THEN 0 ELSE write_q - 1
  /\ tx' = (write_q > 1)
  /\ UNCHANGED <<queues, mode, reader, writer, cr_flag, alarm, signal, blocked, cpu, setup, history>>

-----------------------------------------------------------------------------
(* The tasks.                                                              *)

Idle == cpu = "none" /\ ~underrun

NoRead == [pc |-> "idle", nr |-> 0, got |-> 0, min |-> 0, time |-> FALSE, flag |-> FALSE,
           oldalarm |-> "none"]

NoWrite == [pc |-> "idle", nr |-> 0, again |-> FALSE]

\* schedule() goes on with a task that was woken or has a signal that it does
\* not block.
Dispatch(t, pc) ==
  /\ Idle /\ pc # "idle"
  /\ t \notin asleep \/ signal[t] \ blocked[t] # {}
  /\ cpu' = t /\ asleep' = asleep \ {t}
  /\ UNCHANGED <<queues, output, mode, reader, writer, cr_flag, alarm, signal, blocked, setup, history>>

\* schedule() looks for alarms that are due.
AlarmFires ==
  /\ Idle /\ alarm # "none"
  /\ alarm' = "none"
  /\ signal' = [signal EXCEPT !["reader"] = @ \cup {"ALRM"}]
  /\ UNCHANGED <<queues, output, mode, reader, writer, cr_flag, blocked, asleep, cpu, setup, history>>

\* sys_alarm() of the reader
SysAlarm ==
  /\ Idle /\ reader.pc = "idle" /\ "reader" \in setup.users
  /\ alarm' \in {"none", "caller"}
  /\ UNCHANGED <<queues, output, mode, reader, writer, cr_flag, signal, blocked, asleep, cpu, setup, history>>

\* sys_ssetmask(), and the signals that are handled at its end
SetMask(t, pc, newmask) ==
  /\ Idle /\ pc = "idle" /\ t \in setup.users
  /\ blocked' = [blocked EXCEPT ![t] = newmask]
  /\ signal' = [signal EXCEPT ![t] = @ \cap newmask]
  /\ UNCHANGED <<queues, output, mode, reader, writer, cr_flag, alarm, asleep, cpu, setup, history>>

\* time+jiffies is taken for the alarm, if the caller has none that is earlier.
SetOwn(r, earlier) ==
  LET own == r.oldalarm = "none" \/ ~earlier IN
  /\ reader' = [r EXCEPT !.flag = own]
  /\ alarm' = IF own THEN "own" ELSE r.oldalarm

\* tty_read() up to its loop
StartRead(n, earlier) ==
  LET timed == mode.time /\ mode.min = 0
      min == IF timed THEN 1 ELSE mode.min
      r == [pc |-> "top", nr |-> n, got |-> 0, min |-> IF min > n THEN n ELSE min,
            time |-> mode.time, flag |-> FALSE,
            oldalarm |-> IF alarm = "none" THEN "none" ELSE "caller"] IN
  /\ Idle /\ reader.pc = "idle" /\ "reader" \in setup.users
  /\ IF timed THEN SetOwn(r, earlier) ELSE reader' = r /\ UNCHANGED alarm
  /\ cpu' = "reader"
  /\ UNCHANGED <<queues, output, mode, writer, cr_flag, signal, blocked, asleep, setup, history>>

ReaderAt(l) == cpu = "reader" /\ reader.pc = l /\ ~underrun
ReaderTo(l) == reader' = [reader EXCEPT !.pc = l]

\* Slip: the timeout is cleared, and the loop goes on.
SlipTop ==
  /\ ReaderAt("top")
  /\ LET timeout == reader.flag /\ "ALRM" \in signal["reader"] IN
     /\ signal' = [signal EXCEPT !["reader"] = IF timeout THEN @ \ {"ALRM"} ELSE @]
     /\ ReaderTo(CASE ~timeout /\ signal["reader"] # {} -> "out"
                   [] EMPTY \/ (Canon /\ data = 0 /\ LEFT(SecondarySize, Len(secondary)) > Slack) -> "empty"
                   [] OTHER -> "get")
  /\ UNCHANGED <<queues, output, mode, writer, cr_flag, alarm, blocked, asleep, cpu, setup, history>>

\* The loop of tty_read(): until a signal, or for characters
Top ==
  /\ ReaderAt("top")
  /\ signal' = [signal EXCEPT !["reader"] = IF reader.flag THEN @ \ {"ALRM"} ELSE @]
  /\ ReaderTo(CASE signal["reader"] # {} -> "out"
                [] EMPTY \/ (Canon /\ data = 0 /\ LEFT(SecondarySize, Len(secondary)) > Slack) -> "empty"
                [] OTHER -> "get")
  /\ UNCHANGED <<queues, output, mode, writer, cr_flag, alarm, blocked, asleep, cpu, setup, history>>

\* sleep_if_empty()
SleepIfEmpty ==
  /\ ReaderAt("empty")
  /\ IF signal["reader"] = {} /\ EMPTY
     THEN asleep' = asleep \cup {"reader"} /\ cpu' = "none" /\ UNCHANGED reader
     ELSE ReaderTo("top") /\ UNCHANGED <<asleep, cpu>>
  /\ UNCHANGED <<queues, output, mode, writer, cr_flag, alarm, signal, blocked, setup, history>>

\* The reader returns to user mode, where the signals are handled that it does
\* not block.
ReaderReturns ==
  /\ reader' = NoRead
  /\ cpu' = "none"
  /\ signal' = [signal EXCEPT !["reader"] = @ \cap blocked["reader"]]

\* GETCH(): the queue was not empty when it was looked at.
Getch ==
  /\ ReaderAt("get")
  /\ IF EMPTY
     THEN underrun' = TRUE /\ UNCHANGED <<secondary, data, reader, cpu, signal>>
     ELSE LET c == Head(secondary) IN
          /\ secondary' = Tail(secondary)
          /\ data' = IF IsLineEnd(c) THEN data - 1 ELSE data
          /\ IF c = mode.cc.VEOF /\ Canon
             THEN ReaderReturns
             ELSE /\ reader' = [reader EXCEPT !.pc = "more", !.got = @ + 1, !.nr = @ - 1]
                  /\ UNCHANGED <<cpu, signal>>
          /\ UNCHANGED underrun
  /\ UNCHANGED <<read_q, output, mode, writer, cr_flag, alarm, blocked, asleep, setup, recoded>>

\* After a character: another one, the end, or another wait
More(earlier) ==
  LET done == IF Canon THEN reader.got > 0 ELSE reader.got >= reader.min
      r == [reader EXCEPT !.pc = IF done \/ reader.nr = 0 THEN "out" ELSE "top"] IN
  /\ ReaderAt("more")
  /\ CASE reader.nr > 0 /\ ~EMPTY -> ReaderTo("get") /\ UNCHANGED alarm
       [] (reader.nr = 0 \/ EMPTY) /\ reader.time /\ ~Canon -> SetOwn(r, earlier)
       [] OTHER -> reader' = r /\ UNCHANGED alarm
  /\ UNCHANGED <<queues, output, mode, writer, cr_flag, signal, blocked, asleep, cpu, setup, history>>

Out ==
  /\ ReaderAt("out")
  /\ alarm' = reader.oldalarm
  /\ ReaderReturns
  /\ UNCHANGED <<queues, output, mode, writer, cr_flag, blocked, asleep, setup, history>>

-----------------------------------------------------------------------------
(* tty_write().                                                            *)

StartWrite(n) ==
  /\ Idle /\ writer.pc = "idle" /\ "writer" \in setup.users
  /\ writer' = [pc |-> "top", nr |-> n, again |-> FALSE]
  /\ cpu' = "writer"
  /\ UNCHANGED <<queues, output, mode, reader, cr_flag, alarm, signal, blocked, asleep, setup, history>>

WriterAt(l) == cpu = "writer" /\ writer.pc = l /\ ~underrun
WriterTo(l) == writer' = [writer EXCEPT !.pc = l]

WriterReturns ==
  /\ writer' = NoWrite
  /\ cpu' = "none"
  /\ signal' = [signal EXCEPT !["writer"] = @ \cap blocked["writer"]]

\* After sleep_if_full()
Proceed ==
  IF signal["writer"] # {} THEN WriterReturns
  ELSE WriterTo("fill") /\ UNCHANGED <<cpu, signal>>

\* sleep_if_full()
SleepIfFull ==
  /\ \/ WriterAt("top") /\ FULL(WriteSize, write_q)
        /\ WriterTo("full") /\ UNCHANGED <<asleep, cpu, signal>>
     \/ WriterAt("top") /\ ~FULL(WriteSize, write_q)
        /\ Proceed /\ UNCHANGED asleep
     \/ /\ WriterAt("full")
        /\ IF signal["writer"] = {} /\ LEFT(WriteSize, write_q) < LowWater
           THEN asleep' = asleep \cup {"writer"} /\ cpu' = "none" /\ UNCHANGED <<writer, signal>>
           ELSE Proceed /\ UNCHANGED asleep
  /\ UNCHANGED <<queues, output, mode, reader, cr_flag, alarm, blocked, setup, history>>

\* The condition of the loop that fills the queue
Room == writer.nr > 0 /\ ~FULL(WriteSize, write_q)

\* ... and what follows it: rs_write(), and schedule() if there is more
Fill ==
  /\ WriterAt("fill")
  /\ CASE Room ->
            WriterTo("put") /\ UNCHANGED <<tx, cpu, signal>>
       [] ~Room /\ writer.nr > 0 ->
            /\ tx' = (tx \/ write_q # 0)
            /\ WriterTo("top") /\ cpu' = "none" /\ UNCHANGED signal
       [] ~Room /\ writer.nr = 0 ->
            /\ tx' = (tx \/ write_q # 0)
            /\ WriterReturns
  /\ UNCHANGED <<queues, write_q, mode, reader, cr_flag, alarm, blocked, asleep, setup, history>>

\* A character goes to the queue; before a newline first a carriage return.
Put(c) ==
  LET cr == c = "nl" /\ Has("OPOST") /\ Has("ONLCR") /\ ~cr_flag IN
  /\ WriterAt("put")
  /\ writer.again => c = "nl"
  /\ cr_flag' = cr
  /\ writer' = [pc |-> "fill", nr |-> IF cr THEN writer.nr ELSE writer.nr - 1, again |-> cr]
  /\ write_q' = (write_q + 1) % WriteSize
  /\ UNCHANGED <<queues, tx, mode, reader, alarm, signal, blocked, asleep, cpu, setup, history>>

\* A writer to another terminal uses the same cr_flag.
OtherTerminal ==
  /\ Idle /\ "writer" \in setup.users
  /\ cr_flag' \in BOOLEAN
  /\ UNCHANGED <<queues, output, mode, reader, writer, alarm, signal, blocked, asleep, cpu, setup, history>>

-----------------------------------------------------------------------------
(* tty_ioctl()                                                             *)

\* set_termios() and set_termio(), with c_cc: what is queued already may become
\* the end of a file, or cease to be it.  Bound: that happens once.
SetTermios(m, flushes) ==
  LET LineEnds(eof) == Len(SelectSeq(secondary, LAMBDA c : c \in {"nl", eof}))
      recodes == LineEnds(m.cc.VEOF) # LineEnds(mode.cc.VEOF) IN
  /\ Idle
  /\ ~(recoded /\ recodes)
  /\ mode' = m
  /\ read_q' = IF flushes THEN <<>> ELSE read_q
  /\ recoded' = (recoded \/ recodes)
  /\ UNCHANGED <<secondary, data, output, reader, writer, cr_flag, alarm, signal, blocked,
                 asleep, cpu, setup, underrun>>

\* TCFLSH: secondary is not flushed.
Flush(read, write) ==
  /\ Idle
  /\ read_q' = IF read THEN <<>> ELSE read_q
  /\ write_q' = IF write THEN 0 ELSE write_q
  /\ UNCHANGED <<secondary, data, tx, mode, reader, writer, cr_flag, alarm, signal,
                 blocked, asleep, cpu, setup, history>>

-----------------------------------------------------------------------------
Init ==
  /\ read_q = <<>> /\ secondary = <<>> /\ data = 0
  /\ write_q = 0 /\ tx = FALSE
  /\ setup \in Setups /\ mode \in setup.modes
  /\ reader = NoRead /\ writer = NoWrite
  /\ cr_flag = FALSE /\ alarm = "none"
  /\ signal = [t \in Tasks |-> {}] /\ blocked = [t \in Tasks |-> {}]
  /\ asleep = {} /\ cpu = "none" /\ underrun = FALSE /\ recoded = FALSE

ReadStep == Top \/ SleepIfEmpty \/ Getch \/ (\E e \in BOOLEAN : More(e)) \/ Out

WriteStep == SleepIfFull \/ Fill \/ \E c \in {"plain", "nl"} : Put(c)

Next ==
  \/ \E c \in setup.chars, group \in SUBSET setup.users : Type(c, group)
  \/ WriteChar
  \/ Dispatch("reader", reader.pc) \/ Dispatch("writer", writer.pc)
  \/ AlarmFires \/ SysAlarm \/ OtherTerminal
  \/ \E S \in setup.masks : SetMask("reader", reader.pc, S) \/ SetMask("writer", writer.pc, S)
  \/ \E n \in 1..MaxCount, e \in BOOLEAN : StartRead(n, e)
  \/ ReadStep
  \/ \E n \in 1..MaxCount : StartWrite(n)
  \/ WriteStep
  \/ \E m \in setup.modes, f \in BOOLEAN : SetTermios(m, f)
  \/ \E r, w \in BOOLEAN : Flush(r, w)

Spec == Init /\ [][Next]_vars

FairSpec == /\ Spec
            /\ WF_vars(ReadStep) /\ WF_vars(WriteStep) /\ WF_vars(WriteChar)
            /\ SF_vars(Dispatch("reader", reader.pc)) /\ SF_vars(Dispatch("writer", writer.pc))
            /\ SF_vars(AlarmFires)

-----------------------------------------------------------------------------
\* The reader goes round its loop without sleeping.
Spins == reader.pc # "idle" /\ Canon /\ data = 0 /\ ~EMPTY

(***************************************************************************)
(* secondary.data counts the complete lines in the queue, whatever is      *)
(* typed, erased, read and switched between modes at any moment            *)
(* (tty_io.c:162-228, 262-265).  It is off only after an erase took away   *)
(* the character a reader was about to take, or after VEOF was changed to  *)
(* or from a character that is in the queue (tty_ioctl.c:66-74, 93-112):   *)
(* what was counted with the one is compared with the other.               *)
(***************************************************************************)
LinesExact == ~underrun /\ ~recoded => data = Len(SelectSeq(secondary, IsLineEnd))

(***************************************************************************)
(* A write() to a terminal that does not echo returns: the line's          *)
(* interrupts empty the queue and wake the writer at the right moments,    *)
(* or the other task spins in tty_read() (tty_io.c:300-326, rs_io.s:114).  *)
(* It may go on for ever if writers to other terminals always clear        *)
(* cr_flag between a carriage return and its newline.                      *)
(***************************************************************************)
WriteReturns ==
  /\ <>[](~Has("ECHO"))
  /\ <>[][cr_flag' # cr_flag => writer' # writer]_vars
  => ((writer.pc # "idle") ~> (writer.pc = "idle" \/ Spins \/ underrun))

(***************************************************************************)
(* A reader is given a line that is complete (tty_io.c:122-129, 228, 257), *)
(* as long as data counts them.                                            *)
(***************************************************************************)
LineIsRead ==
  (reader.pc # "idle" /\ data > 0) ~> (reader.pc = "idle" \/ ~Canon \/ underrun \/ recoded)

(***************************************************************************)
(* A read() by a task that does not block SIGALRM ends after an alarm that *)
(* it has set for VTIME or that its caller has set, unless it spins: only  *)
(* schedule() looks for alarms, and the loop does not call it (tty_io.c:   *)
(* 250-286).  If the task blocks SIGALRM, schedule() does not wake it from *)
(* sleep_if_empty() (sched.c:121), not for VTIME either.  And if VEOF was  *)
(* changed, and data is off, then a character that always comes when the   *)
(* reader has seen an empty queue, and is always erased before the reader  *)
(* looks again, keeps it from sleeping.                                    *)
(***************************************************************************)
ReadTimesOut ==
  <>[][recoded => secondary' = secondary \/ reader' # reader]_vars
  => ((reader.pc # "idle" /\ alarm # "none" /\ "ALRM" \notin blocked["reader"])
        ~> (reader.pc = "idle" \/ Spins \/ underrun))

=============================================================================
