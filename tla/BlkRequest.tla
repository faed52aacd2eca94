---------------------------- MODULE BlkRequest -----------------------------
(***************************************************************************)
(* Block device requests: ll_rw_block() and make_request() of              *)
(* kernel/blk_drv/ll_rw_blk.c, run by tasks, and end_request() of blk.h,   *)
(* run by the interrupt handlers of the disks (or at once by the RAM disk).*)
(*                                                                         *)
(* A task in the kernel is interrupted by a disk, never by another task,   *)
(* until it sleeps.  Waiting for the lock of a buffer is done under cli()  *)
(* and is a guard here (WaitQueue.tla shows that such a sleeper is woken); *)
(* waiting for a free request is not, so that wait queue is spelled out.   *)
(***************************************************************************)
EXTENDS Integers, Sequences, FiniteSets

CONSTANTS Tasks,
          NrBlocks,      \* blocks 1..NrBlocks, in the order of (dev, sector)
          NrRequest,     \* NR_REQUEST
          Majors,        \* the block devices
          RamMajors,     \* those whose request_fn ends requests at once
          MajorOf,       \* MajorOf[b]: the device of block b
          NULL

ASSUME NrRequestAssumption == NrRequest \in Nat \ {0}
ASSUME MajorsAssumption == RamMajors \subseteq Majors /\ NULL \notin Tasks
ASSUME MajorOfAssumption == NrBlocks \in Nat \ {0} /\ MajorOf \in [1..NrBlocks -> Majors]

Blocks == 1..NrBlocks    \* each with its buffer_head

Slots == 1..NrRequest    \* request[]

VARIABLES lock, dirt, uptodate,   \* the flags of the buffer_head's
          slot,          \* request[]: NoRequest, or [buf, cmd]
          queue,         \* queue[m]: the list from blk_dev[m].current_request
          pc,            \* where the task is
          op,            \* the arguments of its call: [buf, cmd, ahead]
          waitHead,      \* wait_for_request
          tmp,           \* tmp of sleep_on(&wait_for_request)
          blocked        \* is the task uninterruptible?

bufVars == <<lock, dirt, uptodate>>
reqVars == <<slot, queue>>
waitVars == <<waitHead, tmp, blocked>>
vars == <<bufVars, reqVars, pc, op, waitVars>>

READ == 0
WRITE == 1

NoRequest == [buf |-> 0, cmd |-> READ]     \* request->dev < 0

Requests == [buf : Blocks, cmd : {READ, WRITE}]

Calls == [buf : Blocks, cmd : {READ, WRITE}, ahead : BOOLEAN]

NoCall == [buf |-> 1, cmd |-> READ, ahead |-> FALSE]

(***************************************************************************)
(* "lock": in lock_buffer(); "search": at the label repeat; "none": no     *)
(* free request was found; "queued": in sleep_on(), *p = current is done;  *)
(* "asleep": in the schedule() of sleep_on().                              *)
(***************************************************************************)
PCs == {"out", "lock", "search", "none", "queued", "asleep"}

TypeOK ==
  /\ lock \in [Blocks -> BOOLEAN]
  /\ dirt \in [Blocks -> BOOLEAN]
  /\ uptodate \in [Blocks -> BOOLEAN]
  /\ slot \in [Slots -> Requests \cup {NoRequest}]
  /\ queue \in [Majors -> Seq(Slots)]
  /\ pc \in [Tasks -> PCs]
  /\ op \in [Tasks -> Calls]
  /\ waitHead \in Tasks \cup {NULL}
  /\ tmp \in [Tasks -> Tasks \cup {NULL}]
  /\ blocked \in [Tasks -> BOOLEAN]

-----------------------------------------------------------------------------
\* ll_rw_block() returns
Leave(t) ==
  /\ pc' = [pc EXCEPT ![t] = "out"]
  /\ op' = [op EXCEPT ![t] = NoCall]

\* The kernel is not preempted: t can run unless another task is in it.
MayRun(t) == \A u \in Tasks \ {t} : pc[u] \notin {"none", "queued"}

\* IN_ORDER of blk.h
InOrder(r, s) == r.cmd < s.cmd \/ (r.cmd = s.cmd /\ r.buf < s.buf)

\* Slip: IN_ORDER(req, tmp->next) is forgotten.
SlipInsertAt(q, sl, r) ==
  LET fits(i) == \/ InOrder(sl[q[i]], sl[r])
                 \/ ~InOrder(sl[q[i]], sl[q[i + 1]])
      places == {i \in 1..Len(q) - 1 : fits(i)}
  IN  IF places = {} THEN Len(q)
      ELSE CHOOSE i \in places : \A j \in places : i <= j

\* Slip: a new request always goes right behind the current one.
SlipInsertNext(q, sl, r) == IF q = <<>> THEN 0 ELSE 1

\* The loop of add_request(): the position after which request r goes
InsertAt(q, sl, r) ==
  LET fits(i) == /\ \/ InOrder(sl[q[i]], sl[r])
                    \/ ~InOrder(sl[q[i]], sl[q[i + 1]])
                 /\ InOrder(sl[r], sl[q[i + 1]])
      places == {i \in 1..Len(q) - 1 : fits(i)}
  IN  IF places = {} THEN Len(q)
      ELSE CHOOSE i \in places : \A j \in places : i <= j

\* The empty requests that make_request() looks at for this command
FreeSlots(cmd) ==
  {i \in Slots : /\ slot[i] = NoRequest
                 /\ cmd = WRITE => i <= (NrRequest * 2) \div 3}

\* --req from the top: the last of them is taken.
LastFree(cmd) ==
  CHOOSE i \in FreeSlots(cmd) : \A j \in FreeSlots(cmd) : j <= i

-----------------------------------------------------------------------------
\* ll_rw_block(): a read-ahead or write-ahead of a locked buffer is dropped.
LlRwBlock(t, b, cmd, ahead) ==
  /\ pc[t] = "out" /\ MayRun(t)
  /\ ahead => ~lock[b]
  /\ op' = [op EXCEPT ![t] = [buf |-> b, cmd |-> cmd, ahead |-> ahead]]
  /\ pc' = [pc EXCEPT ![t] = "lock"]
  /\ UNCHANGED <<bufVars, reqVars, waitVars>>

\* A write of a clean buffer, or a read of one that is up to date
Needless(b, cmd) == IF cmd = WRITE THEN ~dirt[b] ELSE uptodate[b]

\* Slip: the buffer is not unlocked when there is nothing to do.
SlipLockBuffer(t) ==
  LET b == op[t].buf IN
  /\ pc[t] = "lock" /\ MayRun(t) /\ ~lock[b]
  /\ lock' = [lock EXCEPT ![b] = TRUE]
  /\ IF Needless(b, op[t].cmd)
     THEN Leave(t)
     ELSE pc' = [pc EXCEPT ![t] = "search"] /\ UNCHANGED op
  /\ UNCHANGED <<dirt, uptodate, reqVars, waitVars>>

\* lock_buffer(), and unlock_buffer() again when there is nothing to do
LockBuffer(t) ==
  LET b == op[t].buf IN
  /\ pc[t] = "lock" /\ MayRun(t) /\ ~lock[b]
  /\ IF Needless(b, op[t].cmd)
     THEN Leave(t) /\ UNCHANGED lock
     ELSE /\ lock' = [lock EXCEPT ![b] = TRUE]
          /\ pc' = [pc EXCEPT ![t] = "search"]
          /\ UNCHANGED op
  /\ UNCHANGED <<dirt, uptodate, reqVars, waitVars>>

\* A free request is found: it is filled and add_request() queues it.
MakeRequest(t) ==
  LET b == op[t].buf
      m == MajorOf[b]
      r == LastFree(op[t].cmd)
      sl == [slot EXCEPT ![r] = [buf |-> b, cmd |-> op[t].cmd]]
      i == InsertAt(queue[m], sl, r)
  IN
  /\ pc[t] = "search" /\ MayRun(t)
  /\ FreeSlots(op[t].cmd) # {}
  /\ MajorOf[b] \notin RamMajors
  /\ slot' = sl
  /\ queue' = [queue EXCEPT ![m] = SubSeq(@, 1, i) \o <<r>> \o SubSeq(@, i + 1, Len(@))]
  /\ dirt' = [dirt EXCEPT ![b] = FALSE]
  /\ Leave(t)
  /\ UNCHANGED <<lock, uptodate, waitVars>>

\* wake_up(&wait_for_request)
WakeWaiter ==
  /\ waitHead' = NULL
  /\ blocked' = [u \in Tasks |-> blocked[u] /\ u # waitHead]

\* The same on the RAM disk: request_fn copies the block and ends the
\* request before add_request() returns; the request is free again.
MakeRamRequest(t, ok) ==
  LET b == op[t].buf IN
  /\ pc[t] = "search" /\ MayRun(t)
  /\ FreeSlots(op[t].cmd) # {}
  /\ MajorOf[b] \in RamMajors
  /\ dirt' = [dirt EXCEPT ![b] = FALSE]
  /\ uptodate' = [uptodate EXCEPT ![b] = ok]
  /\ lock' = [lock EXCEPT ![b] = FALSE]
  /\ WakeWaiter
  /\ Leave(t)
  /\ UNCHANGED <<reqVars, tmp>>

\* No free request: a read-ahead or write-ahead is dropped...
DropAhead(t) ==
  /\ pc[t] = "search" /\ MayRun(t)
  /\ FreeSlots(op[t].cmd) = {} /\ op[t].ahead
  /\ lock' = [lock EXCEPT ![op[t].buf] = FALSE]
  /\ Leave(t)
  /\ UNCHANGED <<dirt, uptodate, reqVars, waitVars>>

\* ... and anybody else goes on to sleep_on(&wait_for_request).
NoneFree(t) ==
  /\ pc[t] = "search" /\ MayRun(t)
  /\ FreeSlots(op[t].cmd) = {} /\ ~op[t].ahead
  /\ pc' = [pc EXCEPT ![t] = "none"]
  /\ UNCHANGED <<bufVars, reqVars, op, waitVars>>

\* sleep_on(): tmp = *p; *p = current
SleepOn(t) ==
  /\ pc[t] = "none" /\ MayRun(t)
  /\ tmp' = [tmp EXCEPT ![t] = waitHead]
  /\ waitHead' = t
  /\ pc' = [pc EXCEPT ![t] = "queued"]
  /\ UNCHANGED <<bufVars, reqVars, op, blocked>>

\* sleep_on(): current->state = TASK_UNINTERRUPTIBLE; schedule()
Sleep(t) ==
  /\ pc[t] = "queued" /\ MayRun(t)
  /\ blocked' = [blocked EXCEPT ![t] = TRUE]
  /\ pc' = [pc EXCEPT ![t] = "asleep"]
  /\ UNCHANGED <<bufVars, reqVars, op, waitHead, tmp>>

\* sleep_on(): if (tmp) tmp->state = 0; then goto repeat
Awake(t) ==
  /\ pc[t] = "asleep" /\ ~blocked[t] /\ MayRun(t)
  /\ blocked' = [u \in Tasks |-> blocked[u] /\ u # tmp[t]]
  /\ tmp' = [tmp EXCEPT ![t] = NULL]
  /\ pc' = [pc EXCEPT ![t] = "search"]
  /\ UNCHANGED <<bufVars, reqVars, op, waitHead>>

\* end_request() in the interrupt handler of device m
EndRequest(m, ok) ==
  LET b == slot[Head(queue[m])].buf IN
  /\ queue[m] # <<>>
  /\ uptodate' = [uptodate EXCEPT ![b] = ok]
  /\ lock' = [lock EXCEPT ![b] = FALSE]
  /\ WakeWaiter
  /\ slot' = [slot EXCEPT ![Head(queue[m])] = NoRequest]
  /\ queue' = [queue EXCEPT ![m] = Tail(@)]
  /\ UNCHANGED <<dirt, pc, op, tmp>>

-----------------------------------------------------------------------------
(* The buffer cache and the file system, as far as they set the flags.     *)

\* A task that holds the buffer changes its data: b_dirt = 1 (fs/).
Modify(b) ==
  /\ ~dirt[b] /\ (lock[b] => uptodate[b])
  /\ \A u \in Tasks : pc[u] \notin {"none", "queued"}
  /\ dirt' = [dirt EXCEPT ![b] = TRUE]
  /\ uptodate' = [uptodate EXCEPT ![b] = TRUE]
  /\ UNCHANGED <<lock, reqVars, pc, op, waitVars>>

\* getblk() has used the buffer for another block meanwhile (fs/buffer.c).
Reuse(b) ==
  /\ ~lock[b] /\ ~dirt[b] /\ uptodate[b]
  /\ \A u \in Tasks : /\ pc[u] \notin {"none", "queued"}
                      /\ pc[u] # "out" => op[u].buf # b
  /\ uptodate' = [uptodate EXCEPT ![b] = FALSE]
  /\ UNCHANGED <<lock, dirt, reqVars, pc, op, waitVars>>

-----------------------------------------------------------------------------
Init ==
  /\ lock = [b \in Blocks |-> FALSE]
  /\ dirt = [b \in Blocks |-> FALSE]
  /\ uptodate = [b \in Blocks |-> FALSE]
  /\ slot = [i \in Slots |-> NoRequest]
  /\ queue = [m \in Majors |-> <<>>]
  /\ pc = [t \in Tasks |-> "out"]
  /\ op = [t \in Tasks |-> NoCall]
  /\ waitHead = NULL
  /\ tmp = [t \in Tasks |-> NULL]
  /\ blocked = [t \in Tasks |-> FALSE]

Work(t) ==
  \/ LockBuffer(t)
  \/ MakeRequest(t) \/ DropAhead(t) \/ NoneFree(t)
  \/ \E ok \in BOOLEAN : MakeRamRequest(t, ok)
  \/ SleepOn(t) \/ Sleep(t) \/ Awake(t)

Interrupt(m) == \E ok \in BOOLEAN : EndRequest(m, ok)

Next ==
  \/ \E t \in Tasks :
       \/ Work(t)
       \/ \E b \in Blocks, cmd \in {READ, WRITE}, ahead \in BOOLEAN :
            LlRwBlock(t, b, cmd, ahead)
  \/ \E m \in Majors : Interrupt(m)
  \/ \E b \in Blocks : Modify(b) \/ Reuse(b)

Spec == Init /\ [][Next]_vars

\* A disk with a request at its head interrupts sooner or later.
FairSpec == /\ Spec
            /\ \A m \in Majors : WF_vars(Interrupt(m))
            /\ \A t \in Tasks : WF_vars(Work(t))

-----------------------------------------------------------------------------
Queued(b) == {i \in Slots : slot[i] # NoRequest /\ slot[i].buf = b}

Owners(b) == {t \in Tasks : pc[t] \in {"search", "none", "queued", "asleep"}
                            /\ op[t].buf = b}

(***************************************************************************)
(* A buffer is locked exactly while one task in make_request() or one      *)
(* request owns it, never both and never two: no buffer stays locked with  *)
(* nobody to unlock it, and no request reaches a driver with its buffer    *)
(* unlocked ("block not locked", blk.h:140-143; ll_rw_blk.c:121-163).      *)
(***************************************************************************)
OneOwnerPerLock ==
  \A b \in Blocks :
    Cardinality(Queued(b)) + Cardinality(Owners(b)) = IF lock[b] THEN 1 ELSE 0

Positions(m) == 1..Len(queue[m])

(***************************************************************************)
(* The lists of the devices hold every request that is in use, once, on    *)
(* the list of its device, and no free one ("request list destroyed",      *)
(* blk.h:138-139; ll_rw_blk.c:80-102).                                     *)
(***************************************************************************)
ListsHoldRequests ==
  /\ \A i \in Slots : slot[i] # NoRequest =>
       Cardinality({p \in Positions(MajorOf[slot[i].buf]) :
                      queue[MajorOf[slot[i].buf]][p] = i}) = 1
  /\ \A m \in Majors : \A p \in Positions(m) :
       /\ slot[queue[m][p]] # NoRequest
       /\ MajorOf[slot[queue[m][p]].buf] = m

(***************************************************************************)
(* The elevator: whatever order requests come in and interrupts go, a list *)
(* is never more than the rest of this sweep followed by the next one: at  *)
(* most one request is followed by one that is not in order after it       *)
(* (ll_rw_blk.c:94-100).                                                   *)
(***************************************************************************)
OneSweepAhead ==
  \A m \in Majors :
    Cardinality({p \in 1..Len(queue[m]) - 1 :
                   ~InOrder(slot[queue[m][p]], slot[queue[m][p + 1]])}) <= 1

(***************************************************************************)
(* Writes leave the last third of the requests to reads (blk.h:7-8,        *)
(* ll_rw_blk.c:127-138).                                                   *)
(***************************************************************************)
RoomForReads ==
  Cardinality({i \in Slots : slot[i] # NoRequest /\ slot[i].cmd = WRITE})
    <= (NrRequest * 2) \div 3

(***************************************************************************)
(* Every request on a list is ended: later requests that are sorted in     *)
(* before it cannot starve it (ll_rw_blk.c:94-100).                        *)
(***************************************************************************)
EveryRequestEnds ==
  \A i \in Slots : (slot[i] # NoRequest) ~> (slot[i] = NoRequest)

(***************************************************************************)
(* "Reads always go before writes" (blk.h:36-38): behind the request that  *)
(* the device is working on, no read waits behind a write.                 *)
(***************************************************************************)
ReadsBeforeWrites ==
  \A m \in Majors : \A p, q \in 2..Len(queue[m]) :
    p < q => slot[queue[m][p]].cmd <= slot[queue[m][q]].cmd

(***************************************************************************)
(* A task that waits for a free request is found by the next wake_up(), or *)
(* by a waiter that will be (ll_rw_blk.c:143-150).                         *)
(***************************************************************************)
WaiterIsFound ==
  \A t \in Tasks : blocked[t] =>
    \/ waitHead = t
    \/ \E u \in Tasks : pc[u] \in {"queued", "asleep"} /\ tmp[u] = t

=============================================================================
