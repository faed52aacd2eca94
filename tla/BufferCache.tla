---------------------------- MODULE BufferCache ----------------------------
(***************************************************************************)
(* The buffer cache of fs/buffer.c: getblk() with its races, bread(),      *)
(* breada(), brelse() and sync_dev(), run by tasks that sleep in           *)
(* wait_on_buffer(), sleep_on(&buffer_wait) and ll_rw_block(), against a   *)
(* disk that ends the transfers.  A task is not preempted: everything up   *)
(* to the next point where it may sleep is one action.                     *)
(*                                                                         *)
(* BlkRequest.tla has the requests; here ll_rw_block() locks the buffer    *)
(* and starts the transfer.  A wait for b_lock is a guard (WaitQueue.tla). *)
(***************************************************************************)
EXTENDS Integers, FiniteSets

CONSTANTS Tasks,
          NrBuffers,     \* NR_BUFFERS
          Blocks,        \* the blocks of the device
          MaxFailures,   \* bound: how many blocks a write to the disk fails for
          Ops,           \* what the tasks do, a subset of AllOps
          NULL

AllOps == {"bread", "breada", "new_block", "sync", "file_write", "block_write"}

ASSUME TasksAssumption == IsFiniteSet(Tasks)
ASSUME BuffersAssumption == NrBuffers \in Nat \ {0}
ASSUME FailuresAssumption == MaxFailures \in Nat
ASSUME OpsAssumption == Ops \subseteq AllOps
ASSUME NULLAssumption == NULL \notin Blocks

Buffers == 1..NrBuffers  \* the buffer_head's

(***************************************************************************)
(* Of data the model knows whether it is the newest, what a task wrote to  *)
(* the block last: `newest' of a buffer, `snap' for the data a buffer had  *)
(* when a write of it was started, `disk' for the blocks on the disk.      *)
(***************************************************************************)
VARIABLES buf,           \* buf[b]: the fields of the buffer_head and its data
          disk,          \* the blocks of which the disk has the newest contents
          task,          \* task[t]: where the task is, and its local variables
          failed         \* history: blocks of which a write to the disk failed

vars == <<buf, disk, task, failed>>

\* io: the transfer under way
Heads == [blk : Blocks \cup {NULL}, count : Nat, lock : BOOLEAN,
          dirt : BOOLEAN, uptodate : BOOLEAN, newest : BOOLEAN,
          io : {"none", "read", "write"}, snap : BOOLEAN]

(***************************************************************************)
(* "getblk": at the label repeat; "hash": in get_hash_table(), waiting for *)
(* the lock; "nobuf": in sleep_on(&buffer_wait); "claim": in one of the    *)
(* wait_on_buffer()s of getblk(); "sync": in sync_dev() or sys_sync();     *)
(* "read": waiting for a read; "have": the caller has the buffer;          *)
(* "brelse": in brelse().                                                  *)
(***************************************************************************)
PCs == {"out", "getblk", "hash", "nobuf", "claim", "sync", "read", "have", "brelse"}

TypeOK ==
  /\ buf \in [Buffers -> Heads]
  /\ disk \subseteq Blocks
  /\ task \in [Tasks -> [pc : PCs, op : AllOps,
                         blk : Blocks \cup {NULL}, next : Blocks \cup {NULL},
                         bh : Buffers \cup {0}, first : Buffers \cup {0},
                         i : 1..2 * NrBuffers]]
  /\ failed \subseteq Blocks

-----------------------------------------------------------------------------
\* find_buffer()
Find(B, k) == {b \in Buffers : B[b].blk = k}

\* BADNESS()
Badness(h) == (IF h.dirt THEN 2 ELSE 0) + (IF h.lock THEN 1 ELSE 0)

Unused == {b \in Buffers : buf[b].count = 0}

\* ll_rw_block() of an unlocked buffer: add_request() clears b_dirt
StartIO(B, b, cmd) ==
  [B EXCEPT ![b].lock = TRUE, ![b].dirt = FALSE, ![b].io = cmd, ![b].snap = B[b].newest]

\* ll_rw_block(READ) and ll_rw_block(READA): nothing if up to date or locked
ReadBlock(B, b) ==
  IF B[b].uptodate \/ B[b].lock THEN B ELSE StartIO(B, b, "read")

\* Slip: the holder is not counted.
SlipAddRef(B, b) == B

AddRef(B, b) == [B EXCEPT ![b].count = @ + 1]

DropRef(B, b) == [B EXCEPT ![b].count = @ - 1]

\* A task stores into the buffer b: whatever else is known of the block is old.
Write(B, b) ==
  [c \in Buffers |->
     IF B[c].blk # B[b].blk THEN B[c]
     ELSE [B[c] EXCEPT !.newest = (c = b), !.snap = FALSE]]

NoCall == [pc |-> "out", op |-> "bread", blk |-> NULL, next |-> NULL,
           bh |-> 0, first |-> 0, i |-> 1]

Goto(t, l) == [task EXCEPT ![t].pc = l]

(***************************************************************************)
(* getblk() returns b, with the buffers in the state B, and the caller     *)
(* goes on until it sleeps or has its buffer:                              *)
(*   bread        starts a read if b is not up to date and waits for it;   *)
(*   breada       does not wait but calls getblk() for the next block;     *)
(*   new_block    clears the block and sets b_uptodate and b_dirt;         *)
(*   file_write   has called bread(), and sets b_dirt before it copies;    *)
(*   block_write  of a whole block overwrites it, and sets b_dirt.         *)
(***************************************************************************)
Got(t, b, B) ==
  LET op == task[t].op
      next == task[t].next
      first == task[t].first
      k == task[t].blk
  IN
  CASE op \in {"bread", "file_write"} ->
         /\ buf' = LET C == ReadBlock(B, b)
                   IN  IF op = "file_write" /\ C[b].uptodate
                       THEN [C EXCEPT ![b].dirt = TRUE] ELSE C
         /\ task' = [task EXCEPT ![t].bh = b,
                                 ![t].pc = IF B[b].uptodate THEN "have" ELSE "read"]
         /\ UNCHANGED disk
    [] op = "breada" /\ next # NULL ->
         /\ buf' = ReadBlock(B, b)
         /\ task' = [task EXCEPT ![t].first = b, ![t].bh = 0, ![t].blk = next,
                                 ![t].next = NULL, ![t].pc = "getblk"]
         /\ UNCHANGED disk
    [] op = "breada" /\ next = NULL ->
         /\ buf' = DropRef(IF B[b].uptodate THEN B ELSE ReadBlock(B, first), b)
         /\ task' = [task EXCEPT ![t].bh = first, ![t].first = 0, ![t].pc = "read"]
         /\ UNCHANGED disk
    [] op = "new_block" ->
         /\ buf' = [Write(B, b) EXCEPT ![b].uptodate = TRUE, ![b].dirt = TRUE]
         /\ task' = [task EXCEPT ![t].bh = b, ![t].pc = "brelse"]
         /\ disk' = disk \ {k}
    [] op = "block_write" ->
         /\ buf' = [Write(B, b) EXCEPT ![b].dirt = TRUE]
         /\ task' = [task EXCEPT ![t].bh = b, ![t].pc = "brelse"]
         /\ disk' = disk \ {k}

-----------------------------------------------------------------------------
\* A system call begins; next is the block that breada() reads ahead.
Start(t, op, k, next) ==
  /\ task[t].pc = "out"
  /\ IF op = "breada" THEN next \in Blocks \ {k} ELSE next = NULL
  /\ task' = [task EXCEPT ![t].op = op, ![t].next = next,
                          ![t].blk = IF op = "sync" THEN NULL ELSE k,
                          ![t].pc = IF op = "sync" THEN "sync" ELSE "getblk"]
  /\ UNCHANGED <<buf, disk, failed>>

\* repeat: get_hash_table() finds the block, unlocked
GetHashTable(t) ==
  /\ task[t].pc = "getblk"
  /\ \E b \in Find(buf, task[t].blk) :
       ~buf[b].lock /\ Got(t, b, AddRef(buf, b))
  /\ UNCHANGED failed

\* ... or locked, and the task sleeps with the buffer counted
GetHashLocked(t) ==
  /\ task[t].pc = "getblk"
  /\ \E b \in Find(buf, task[t].blk) :
       /\ buf[b].lock
       /\ buf' = AddRef(buf, b)
       /\ task' = [task EXCEPT ![t].pc = "hash", ![t].bh = b]
  /\ UNCHANGED <<disk, failed>>

\* wait_on_buffer() of get_hash_table() returns
HashUnlocked(t) ==
  LET b == task[t].bh IN
  /\ task[t].pc = "hash" /\ ~buf[b].lock
  /\ buf[b].blk = task[t].blk
  /\ Got(t, b, buf)
  /\ UNCHANGED failed

\* The free list has no unused buffer: sleep_on(&buffer_wait)
NoBuffer(t) ==
  /\ task[t].pc = "getblk"
  /\ Find(buf, task[t].blk) = {} /\ Unused = {}
  /\ task' = Goto(t, "nobuf")
  /\ UNCHANGED <<buf, disk, failed>>

\* Slip: the second find_buffer() is forgotten.
SlipClaim(t, b) ==
  /\ ~buf[b].lock /\ buf[b].count = 0 /\ ~buf[b].dirt
  /\ Got(t, b, [buf EXCEPT ![b].count = 1, ![b].uptodate = FALSE,
                           ![b].blk = task[t].blk, ![b].newest = FALSE])

\* The buffer is made one for the block; b_dirt is 0 already.
Claim(t, b) ==
  /\ ~buf[b].lock /\ buf[b].count = 0 /\ ~buf[b].dirt
  /\ Find(buf, task[t].blk) = {}
  /\ Got(t, b, [buf EXCEPT ![b].count = 1, ![b].uptodate = FALSE,
                           ![b].blk = task[t].blk, ![b].newest = FALSE])

\* It is dirty: sync_dev()
ClaimDirty(t, b) ==
  /\ ~buf[b].lock /\ buf[b].count = 0 /\ buf[b].dirt
  /\ task' = [task EXCEPT ![t].pc = "sync", ![t].bh = b]
  /\ UNCHANGED <<buf, disk>>

\* It was taken while the task slept, or somebody else has added the block
\* to the cache: goto repeat
Repeat(t, b) ==
  /\ ~buf[b].lock
  /\ buf[b].count > 0 \/ (~buf[b].dirt /\ Find(buf, task[t].blk) # {})
  /\ task' = [task EXCEPT ![t].pc = "getblk", ![t].bh = 0]
  /\ UNCHANGED <<buf, disk>>

\* The scan of the free list finds b, an unused buffer of least badness.
ScanFreeList(t) ==
  /\ task[t].pc = "getblk"
  /\ Find(buf, task[t].blk) = {}
  /\ \E b \in Unused :
       /\ \A c \in Unused : Badness(buf[b]) <= Badness(buf[c])
       /\ \/ Claim(t, b)
          \/ ClaimDirty(t, b)
          \/ /\ buf[b].lock
             /\ task' = [task EXCEPT ![t].pc = "claim", ![t].bh = b]
             /\ UNCHANGED <<buf, disk>>
  /\ UNCHANGED failed

\* wait_on_buffer() of getblk() returns
ClaimUnlocked(t) ==
  /\ task[t].pc = "claim"
  /\ LET b == task[t].bh IN Repeat(t, b) \/ ClaimDirty(t, b) \/ Claim(t, b)
  /\ UNCHANGED failed

\* sys_sync() goes through the buffers once, sync_dev() twice.
SyncEnd(op) == IF op = "sync" THEN NrBuffers ELSE 2 * NrBuffers

\* One buffer of sys_sync(), or of sync_dev() called by getblk()
SyncBuffer(t) ==
  LET i == task[t].i
      b == ((i - 1) % NrBuffers) + 1
      op == task[t].op
  IN
  /\ task[t].pc = "sync" /\ ~buf[b].lock
  /\ buf' = IF buf[b].blk # NULL /\ buf[b].dirt THEN StartIO(buf, b, "write") ELSE buf
  /\ task' = IF i < SyncEnd(op) THEN [task EXCEPT ![t].i = i + 1]
             ELSE IF op = "sync" THEN [task EXCEPT ![t] = NoCall]
             ELSE [task EXCEPT ![t].i = 1, ![t].pc = "claim"]
  /\ UNCHANGED <<disk, failed>>

\* wait_on_buffer() after the read: NULL is returned if it failed
ReadDone(t) ==
  LET b == task[t].bh IN
  /\ task[t].pc = "read" /\ ~buf[b].lock
  /\ task' = Goto(t, IF buf[b].uptodate THEN "have" ELSE "brelse")
  /\ buf' = IF buf[b].uptodate /\ task[t].op = "file_write"
            THEN [buf EXCEPT ![b].dirt = TRUE] ELSE buf
  /\ UNCHANGED <<disk, failed>>

\* Slip: b_dirt is not set.
SlipModify(t) ==
  LET b == task[t].bh IN
  /\ task[t].pc = "have"
  /\ buf' = Write(buf, b)
  /\ disk' = disk \ {buf[b].blk}
  /\ task' = Goto(t, "brelse")
  /\ UNCHANGED failed

\* The caller changes the block and sets b_dirt, without sleeping between;
\* file_write() has set it before, and may have slept since (get_fs_byte).
Modify(t) ==
  LET b == task[t].bh IN
  /\ task[t].pc = "have"
  /\ buf' = [Write(buf, b) EXCEPT ![b].dirt = @ \/ task[t].op # "file_write"]
  /\ disk' = disk \ {buf[b].blk}
  /\ task' = Goto(t, "brelse")
  /\ UNCHANGED failed

\* The caller was only reading.
Use(t) ==
  /\ task[t].pc = "have"
  /\ task' = Goto(t, "brelse")
  /\ UNCHANGED <<buf, disk, failed>>

\* wake_up(&buffer_wait)
WakeAll(T) ==
  [u \in Tasks |-> IF T[u].pc = "nobuf" THEN [T[u] EXCEPT !.pc = "getblk"] ELSE T[u]]

Brelse(t) ==
  LET b == task[t].bh IN
  /\ task[t].pc = "brelse" /\ ~buf[b].lock
  /\ buf' = DropRef(buf, b)
  /\ task' = WakeAll([task EXCEPT ![t] = NoCall])
  /\ UNCHANGED <<disk, failed>>

\* end_request(): the disk took the data when the write was started, or later
EndIO(b, ok, early) ==
  LET k == buf[b].blk
      read == buf[b].io = "read"
      written == IF early THEN buf[b].snap ELSE buf[b].newest
  IN
  /\ buf[b].io # "none"
  /\ read => ~early
  /\ ok \/ read \/ Cardinality(failed) < MaxFailures
  /\ buf' = [buf EXCEPT ![b].lock = FALSE, ![b].io = "none", ![b].uptodate = ok,
                        ![b].newest = IF read /\ ok THEN k \in disk ELSE @,
                        ![b].snap = FALSE]
  /\ disk' = IF ok /\ ~read /\ written THEN disk \cup {k}
             ELSE IF ok /\ ~read THEN disk \ {k} ELSE disk
  /\ failed' = IF ok \/ read THEN failed ELSE failed \cup {k}
  /\ UNCHANGED task

-----------------------------------------------------------------------------
Init ==
  /\ buf = [b \in Buffers |-> [blk |-> NULL, count |-> 0, lock |-> FALSE,
                               dirt |-> FALSE, uptodate |-> FALSE, newest |-> FALSE,
                               io |-> "none", snap |-> FALSE]]
  /\ disk = Blocks
  /\ task = [t \in Tasks |-> NoCall]
  /\ failed = {}

Step(t) ==
  \/ GetHashTable(t) \/ GetHashLocked(t) \/ HashUnlocked(t)
  \/ NoBuffer(t) \/ ScanFreeList(t)
  \/ ClaimUnlocked(t)
  \/ SyncBuffer(t) \/ ReadDone(t)
  \/ Use(t) \/ Modify(t)
  \/ Brelse(t)

Disk(b) == \E ok, early \in BOOLEAN : EndIO(b, ok, early)

Next ==
  \/ \E t \in Tasks :
       \/ Step(t)
       \/ \E op \in Ops, k \in Blocks, next \in Blocks \cup {NULL} :
            Start(t, op, k, next)
  \/ \E b \in Buffers : Disk(b)

Spec == Init /\ [][Next]_vars

\* Transfers end, and a task that can go on does.
FairSpec == /\ Spec
            /\ \A b \in Buffers : WF_vars(Disk(b))
            /\ \A t \in Tasks : WF_vars(Step(t))

-----------------------------------------------------------------------------
(***************************************************************************)
(* A block has at most one buffer, however the tasks that look for it and  *)
(* sleep in getblk() are interleaved (buffer.c:264-271).                   *)
(***************************************************************************)
OneBufferPerBlock ==
  \A b, c \in Buffers : buf[b].blk = buf[c].blk /\ buf[b].blk # NULL => b = c

Holders(b) ==
  Cardinality({t \in Tasks : /\ task[t].pc \in {"hash", "read", "have", "brelse"}
                             /\ task[t].bh = b})
  + Cardinality({t \in Tasks : task[t].first = b})

(***************************************************************************)
(* b_count is the number of callers that have the buffer, and a buffer     *)
(* they have is still the one of their block (buffer.c:200-213, 272-293).  *)
(***************************************************************************)
CountsAreExact ==
  /\ \A b \in Buffers : buf[b].count = Holders(b)
  /\ \A t \in Tasks : task[t].pc \in {"hash", "read", "have", "brelse"}
                        /\ task[t].op # "breada"
                      => buf[task[t].bh].blk = task[t].blk

(***************************************************************************)
(* No write is lost: an up to date buffer has what was last written to its *)
(* block, and so has the disk unless the buffer is dirty or being written  *)
(* (or a transfer failed).  What bread() returns contains the block        *)
(* (buffer.c:296-299).                                                     *)
(***************************************************************************)
Coherent ==
  \A k \in Blocks \ failed :
    /\ \A b \in Find(buf, k) : buf[b].uptodate => buf[b].newest
    /\ (\A b \in Find(buf, k) : ~buf[b].dirt /\ buf[b].io # "write")
         => k \in disk

(***************************************************************************)
(* A task that sleeps in buffer_wait because every buffer is in use is     *)
(* woken by a brelse() (buffer.c:244, 293).                                *)
(***************************************************************************)
BufferWaitEnds ==
  \A t \in Tasks : (task[t].pc = "nobuf") ~> (task[t].pc # "nobuf")

=============================================================================
