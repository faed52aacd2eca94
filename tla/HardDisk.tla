------------------------------ MODULE HardDisk ------------------------------
(***************************************************************************)
(* The hard disk driver, kernel/blk_drv/hd.c, over a disk controller.      *)
(* do_hd_request() sends a command and leaves in do_hd the function for    *)
(* the interrupt that will answer it; that function moves a sector, counts *)
(* an error, or goes on to the next request, and calls do_hd_request().    *)
(*                                                                         *)
(* do_hd_request() runs in one of two contexts: called by the interrupt    *)
(* handler, with interrupts off, or by add_request() in a task, with       *)
(* interrupts on, so that the handler may come while the task polls the    *)
(* controller.  The controller is not part of the source: it is modelled   *)
(* from how the driver uses it.                                            *)
(***************************************************************************)
EXTENDS Naturals, Sequences

CONSTANT MaxQueue      \* bound: requests in the list

MAX_ERRORS == 7

Contexts == {"task", "irq"}

VARIABLES queue,       \* the list from CURRENT on
          do_hd, reset, recalibrate,
          pc,          \* pc[c]: where in do_hd_request() the context is
          ctl,         \* the controller: its command, sectors left, status
          irq,         \* is an interrupt pending?
          panic,       \* did the kernel panic, or write over its page tables?
          ended,       \* history: changes each time a request is ended
          late         \* history: a write command failed or was given up
                       \* before it asked for data

vars == <<queue, do_hd, reset, recalibrate, pc, ctl, irq, panic, ended, late>>

Sectors == 2           \* nr_sectors of the request for a block

(***************************************************************************)
(* left is nr_sectors, room the sectors from the one the request begins    *)
(* with to the end of the partition: enough for a block and more, just     *)
(* enough, or not enough.                                                  *)
(***************************************************************************)
Requests == [cmd : {"read", "write"}, left : 1..Sectors, errors : 0..MAX_ERRORS,
             room : Sectors - 1 .. Sectors + 1]

NewRequests == {r \in Requests : r.left = Sectors /\ r.errors = 0}

\* do_hd_request() asks for room for two sectors from the current one on,
\* also when only one is left to be moved.
InRange(r) == r.room - (Sectors - r.left) >= 2

TypeOK ==
  /\ queue \in Seq(Requests)
  /\ do_hd \in {"NULL", "read_intr", "write_intr", "recal_intr"}
  /\ {reset, recalibrate, irq, panic, ended, late} \subseteq BOOLEAN
  /\ pc \in [Contexts -> {"idle", "repeat", "poll"}]
  /\ ctl \in [cmd : {"none", "specify", "restore", "read", "write"}, left : 0..Sectors,
              st : {"idle", "busy", "wait", "drq", "ok", "err"}]

CURRENT == Head(queue)
IsNULL == queue = <<>>

\* The context may go on: a task only while the interrupt handler does not run.
Runs(c, l) == pc[c] = l /\ ~panic /\ (c = "task" => pc["irq"] = "idle")

-----------------------------------------------------------------------------
(* The controller.                                                         *)

\* A command, or the transfer of a sector, comes to its end.
Done ==
  /\ ctl.st = "busy" /\ ~panic
  /\ \E st \in {"ok", "err"} : ctl' = [ctl EXCEPT !.st = st]
  /\ irq' = TRUE
  /\ UNCHANGED <<queue, do_hd, reset, recalibrate, pc, panic, ended, late>>

\* A write command asks for the first sector, which causes no interrupt.
AskForData ==
  /\ ctl.st = "wait" /\ ~panic
  /\ ctl' = [ctl EXCEPT !.st = "drq"]
  /\ UNCHANGED <<queue, do_hd, reset, recalibrate, pc, irq, panic, ended, late>>

\* ... or fails.
RefuseData ==
  /\ ctl.st = "wait" /\ ~panic
  /\ ctl' = [ctl EXCEPT !.st = "err"]
  /\ irq' = TRUE /\ late' = TRUE
  /\ UNCHANGED <<queue, do_hd, reset, recalibrate, pc, panic, ended>>

\* What DRQ_STAT says
DRQ == ctl.st = "drq" \/ (ctl.cmd = "read" /\ ctl.st = "ok")

\* port_write(): the controller takes a sector, if it has asked for one.
TakesSector == ctl.cmd = "write" /\ ctl.left > 0 /\ ctl.st \in {"drq", "ok"}

\* port_read(): it gives a sector, and fetches the next one.
GivesSector == ctl.cmd = "read" /\ ctl.left > 0 /\ ctl.st = "ok"

\* ... and takes the next one only if there is one to be written.
AfterWrite ==
  [ctl EXCEPT !.left = @ - 1, !.st = IF ctl.left > 1 THEN "busy" ELSE "idle"]

AfterRead ==
  [ctl EXCEPT !.left = @ - 1, !.st = IF ctl.left > 1 THEN "busy" ELSE "idle"]

-----------------------------------------------------------------------------
(* The driver.                                                             *)

\* hd_out(): the controller must be ready.
HdOut(c, cmd, n, intr) ==
  IF ctl.st \in {"busy", "wait"}
  THEN /\ panic' = TRUE
       /\ UNCHANGED <<pc, do_hd, ctl>>
  ELSE /\ do_hd' = intr
       /\ ctl' = [cmd |-> cmd, left |-> n, st |-> IF cmd = "write" THEN "wait" ELSE "busy"]
       /\ pc' = [pc EXCEPT ![c] = IF cmd = "write" THEN "poll" ELSE "idle"]
       /\ UNCHANGED panic

\* reset_hd(): reset_controller() ends whatever the controller does.
ResetHd(c) ==
  /\ do_hd' = "recal_intr"
  /\ ctl' = [cmd |-> "specify", left |-> 0, st |-> "busy"]
  /\ pc' = [pc EXCEPT ![c] = "idle"]
  /\ UNCHANGED panic

EndRequest == queue' = Tail(queue) /\ ended' = ~ended

\* Slip: all the sectors are asked for again after an error.
SlipTransfer(c) ==
  HdOut(c, CURRENT.cmd, Sectors, IF CURRENT.cmd = "write" THEN "write_intr" ELSE "read_intr")

\* The command that moves the sectors that are left
Transfer(c) ==
  HdOut(c, CURRENT.cmd, CURRENT.left, IF CURRENT.cmd = "write" THEN "write_intr" ELSE "read_intr")

\* do_hd_request(), from repeat: on
Repeat(c) ==
  /\ Runs(c, "repeat")
  /\ CASE IsNULL ->
            /\ pc' = [pc EXCEPT ![c] = "idle"]
            /\ UNCHANGED <<queue, ended, do_hd, reset, recalibrate, ctl, panic>>
       [] ~IsNULL /\ ~InRange(CURRENT) ->
            /\ EndRequest
            /\ UNCHANGED <<do_hd, reset, recalibrate, pc, ctl, panic>>
       [] ~IsNULL /\ InRange(CURRENT) /\ reset ->
            /\ reset' = FALSE /\ recalibrate' = TRUE
            /\ ResetHd(c)
            /\ UNCHANGED <<queue, ended>>
       [] ~IsNULL /\ InRange(CURRENT) /\ ~reset /\ recalibrate ->
            /\ recalibrate' = FALSE
            /\ HdOut(c, "restore", 0, "recal_intr")
            /\ UNCHANGED <<queue, ended, reset>>
       [] OTHER ->
            /\ Transfer(c)
            /\ UNCHANGED <<queue, ended, reset, recalibrate>>
  /\ UNCHANGED <<irq, late>>

\* Slip: a reset begins the count of the errors again.
SlipBadRwIntr ==
  /\ queue' = [queue EXCEPT ![1].errors = IF @ + 1 > MAX_ERRORS \div 2 THEN 0 ELSE @ + 1]
  /\ reset' = (reset \/ CURRENT.errors + 1 > MAX_ERRORS \div 2)
  /\ UNCHANGED ended

(***************************************************************************)
(* bad_rw_intr(): a request with too many errors is ended.  CURRENT then   *)
(* is the next one, or NULL, and an entry of the page directory, which     *)
(* lies at address 0 and is a large number, is taken for the errors.       *)
(***************************************************************************)
BadRwIntr ==
  LET q == [queue EXCEPT ![1].errors = @ + 1] IN
  IF q[1].errors >= MAX_ERRORS
  THEN /\ EndRequest
       /\ reset' = (reset \/ Len(q) = 1 \/ q[2].errors > MAX_ERRORS \div 2)
  ELSE /\ queue' = q
       /\ reset' = (reset \/ q[1].errors > MAX_ERRORS \div 2)
       /\ UNCHANGED ended

\* A NULL CURRENT is written through: the page directory is destroyed.
WritesNULL == panic' = TRUE /\ UNCHANGED <<queue, ended, do_hd, reset, pc, ctl>>

\* do_hd_request(): the controller is polled for DRQ_STAT before the first
\* sector is written, and given up if it is too slow.
Poll(c) ==
  /\ Runs(c, "poll")
  /\ CASE DRQ ->
            /\ ctl' = IF TakesSector THEN [ctl EXCEPT !.st = "busy"] ELSE ctl
            /\ pc' = [pc EXCEPT ![c] = "idle"]
            /\ UNCHANGED <<queue, ended, do_hd, reset, panic, late>>
       [] ~DRQ /\ IsNULL ->
            WritesNULL /\ UNCHANGED late
       [] ~DRQ /\ ~IsNULL ->
            /\ BadRwIntr
            /\ pc' = [pc EXCEPT ![c] = "repeat"]
            /\ late' = TRUE
            /\ UNCHANGED <<do_hd, ctl, panic>>
  /\ UNCHANGED <<recalibrate, irq>>

\* win_result()
Failed == ctl.st \in {"busy", "wait", "err"}

\* hd_interrupt takes do_hd, and calls it
Takes(intr) ==
  /\ irq /\ pc["irq"] = "idle" /\ ~panic
  /\ do_hd = intr
  /\ irq' = FALSE

\* The handler ends with do_hd_request(), and do_hd is NULL until that sets it.
GoesOn ==
  /\ do_hd' = "NULL"
  /\ pc' = [pc EXCEPT !["irq"] = "repeat"]

\* A sector was moved for the request, which now is r: the handler waits for
\* the next, or ends the request.
Moved(r) ==
  IF r.left > 0
  THEN /\ queue' = <<r>> \o Tail(queue)
       /\ UNCHANGED <<do_hd, pc, ended>>
  ELSE EndRequest /\ GoesOn

ReadIntr ==
  /\ Takes("read_intr")
  /\ CASE IsNULL ->
            WritesNULL
       [] ~IsNULL /\ Failed ->
            BadRwIntr /\ GoesOn /\ UNCHANGED <<ctl, panic>>
       [] OTHER ->
            /\ Moved([CURRENT EXCEPT !.left = @ - 1, !.errors = 0])
            /\ ctl' = IF GivesSector THEN AfterRead ELSE ctl
            /\ UNCHANGED <<reset, panic>>
  /\ UNCHANGED <<recalibrate, late>>

\* Slip: a request for a block is taken for one sector.
SlipWriteIntr ==
  /\ Takes("write_intr")
  /\ IF IsNULL THEN WritesNULL
     ELSE /\ IF Failed THEN BadRwIntr ELSE EndRequest /\ UNCHANGED reset
          /\ GoesOn
          /\ UNCHANGED <<ctl, panic>>
  /\ UNCHANGED <<recalibrate, late>>

WriteIntr ==
  /\ Takes("write_intr")
  /\ CASE IsNULL ->
            WritesNULL
       [] ~IsNULL /\ Failed ->
            BadRwIntr /\ GoesOn /\ UNCHANGED <<ctl, panic>>
       [] OTHER ->
            /\ Moved([CURRENT EXCEPT !.left = @ - 1])
            /\ ctl' = IF TakesSector THEN AfterWrite ELSE ctl
            /\ UNCHANGED <<reset, panic>>
  /\ UNCHANGED <<recalibrate, late>>

RecalIntr ==
  /\ Takes("recal_intr")
  /\ IF Failed /\ IsNULL THEN WritesNULL
     ELSE /\ IF Failed THEN BadRwIntr ELSE UNCHANGED <<queue, ended, reset>>
          /\ GoesOn
          /\ UNCHANGED <<ctl, panic>>
  /\ UNCHANGED <<recalibrate, late>>

UnexpectedHdInterrupt ==
  /\ Takes("NULL")
  /\ UNCHANGED <<queue, ended, do_hd, reset, recalibrate, pc, ctl, panic, late>>

\* add_request(): the first request of an empty list starts the driver.
AddRequest(r) ==
  /\ pc = [c \in Contexts |-> "idle"] /\ ~panic
  /\ Len(queue) < MaxQueue
  /\ queue' = Append(queue, r)
  /\ pc' = [pc EXCEPT !["task"] = IF IsNULL THEN "repeat" ELSE "idle"]
  /\ UNCHANGED <<do_hd, reset, recalibrate, ctl, irq, panic, ended, late>>

Init ==
  /\ queue = <<>>
  /\ do_hd = "NULL"
  /\ reset = TRUE /\ recalibrate = TRUE
  /\ pc = [c \in Contexts |-> "idle"]
  /\ ctl = [cmd |-> "none", left |-> 0, st |-> "idle"]
  /\ irq = FALSE /\ panic = FALSE
  /\ ended = FALSE /\ late = FALSE

Controller == Done \/ AskForData \/ RefuseData

Interrupt == ReadIntr \/ WriteIntr \/ RecalIntr \/ UnexpectedHdInterrupt

Next ==
  \/ Controller \/ Interrupt
  \/ \E c \in Contexts : Repeat(c) \/ Poll(c)
  \/ \E r \in NewRequests : AddRequest(r)

Spec == Init /\ [][Next]_vars

FairSpec == /\ Spec
            /\ WF_vars(Done) /\ WF_vars(AskForData) /\ WF_vars(Interrupt)
            /\ \A c \in Contexts : WF_vars(Repeat(c)) /\ WF_vars(Poll(c))

-----------------------------------------------------------------------------
(***************************************************************************)
(* The driver and the controller mean the same request: the function that  *)
(* do_hd names is the one for the command under way, which is about what   *)
(* is left of CURRENT, through errors, retries, resets and requests that   *)
(* come at any time; and the controller is never sent a command while it   *)
(* works on another.  A write command that fails or is given up before it  *)
(* asks for data breaks this: its interrupt may still come                 *)
(* (hd.c:283-387).                                                         *)
(***************************************************************************)
SameRequest ==
  ~late =>
    /\ do_hd # "NULL" => queue # <<>>
    /\ do_hd = "read_intr" => ctl.cmd = "read" /\ CURRENT.cmd = "read"
    /\ do_hd = "write_intr" => ctl.cmd = "write" /\ CURRENT.cmd = "write"
    /\ do_hd \in {"read_intr", "write_intr"} => ctl.left = CURRENT.left
    /\ irq => do_hd # "NULL" /\ ctl.st \in {"ok", "err"}
    /\ ~panic

(***************************************************************************)
(* A request that fits the partition and has not met its last error is     *)
(* ended only when the controller has moved all its sectors (hd.c:291-300, *)
(* 310-318).  For the last block of a partition InRange() is no longer     *)
(* true after its first sector: an error then ends the request at once.    *)
(***************************************************************************)
WholeBlocks ==
  [][~late /\ ended' # ended /\ InRange(CURRENT) /\ CURRENT.errors < MAX_ERRORS - 1
       => ctl.left = 1 /\ ctl'.left = 0]_vars

(***************************************************************************)
(* The driver gets every request done or given up, one after the other,    *)
(* however often the controller fails, as long as it answers; or the       *)
(* kernel goes down (hd.c:275-326, 218).                                   *)
(***************************************************************************)
DiskGoesOn ==
  \A b \in BOOLEAN : (queue # <<>> /\ ended = b) ~> (ended # b \/ panic)

=============================================================================
