------------------------- MODULE BufferCacheProofs -------------------------
(***************************************************************************)
(* What is proved of the buffer cache, for any number of tasks, buffers    *)
(* and blocks: a block has one buffer, b_count is exact, and no write is   *)
(* lost by the operations that keep to the protocol of b_uptodate.         *)
(***************************************************************************)
EXTENDS BufferCache, FiniteSetTheorems, TLAPS

\* Where a caller counts in b_count of task[t].bh
Holding == {"hash", "read", "have", "brelse"}

\* Inside getblk()
InGetblk(r) == r.pc \in {"getblk", "hash", "nobuf", "claim"}
               \/ (r.pc = "sync" /\ r.op # "sync")

(***************************************************************************)
(* The local variables of a task: bh is a buffer wherever it is used, only *)
(* breada() holds a second buffer, and it holds one exactly while it is in *)
(* getblk() for the block that is read ahead.                              *)
(***************************************************************************)
LocalsInv ==
  \A t \in Tasks :
    /\ task[t].pc \in Holding \cup {"claim"} => task[t].bh \in Buffers
    /\ task[t].pc = "sync" /\ task[t].op # "sync" => task[t].bh \in Buffers
    /\ task[t].pc \in {"getblk", "hash", "nobuf", "claim"} => task[t].op # "sync"
    /\ (task[t].first # 0) <=>
         (InGetblk(task[t]) /\ task[t].op = "breada" /\ task[t].next = NULL)
    /\ InGetblk(task[t]) => task[t].blk \in Blocks

(***************************************************************************)
(* A buffer that was never used for a block is not read or written, and    *)
(* the buffer that breada() keeps has a block.                             *)
(***************************************************************************)
TransferInv ==
  /\ \A b \in Buffers : buf[b].io # "none" => buf[b].blk # NULL
  /\ \A t \in Tasks : task[t].first # 0 => buf[task[t].first].blk # NULL

CacheInv ==
  TypeOK /\ LocalsInv /\ TransferInv /\ OneBufferPerBlock /\ CountsAreExact

-----------------------------------------------------------------------------
(* Counting the holders.  Refs(r, b) is how often a task with the local    *)
(* variables r counts in b_count of b.                                     *)

Refs(r, b) == (IF r.pc \in Holding /\ r.bh = b THEN 1 ELSE 0)
              + (IF r.first = b THEN 1 ELSE 0)

\* Changing whether one element belongs to a set changes its size by one.
LEMMA CardinalityChange ==
  ASSUME NEW S, NEW U, IsFiniteSet(S), NEW x, S \ {x} = U \ {x}
  PROVE  /\ IsFiniteSet(U) /\ Cardinality(S) \in Nat /\ Cardinality(U) \in Nat
         /\ Cardinality(U) = Cardinality(S) + (IF x \in U THEN 1 ELSE 0)
                                            - (IF x \in S THEN 1 ELSE 0)
<1> DEFINE R == S \ {x}
<1>1. /\ IsFiniteSet(R) /\ Cardinality(S) \in Nat /\ Cardinality(R) \in Nat
      /\ Cardinality(R) = Cardinality(S) - (IF x \in S THEN 1 ELSE 0)
  <2>1. /\ IsFiniteSet(R)
        /\ Cardinality(R) = IF x \in S THEN Cardinality(S) - 1 ELSE Cardinality(S)
    BY FS_RemoveElement
  <2>2. Cardinality(S) \in Nat /\ Cardinality(R) \in Nat
    BY <2>1, FS_CardinalityType
  <2> QED BY <2>1, <2>2
<1>2. /\ IsFiniteSet(R \cup {x})
      /\ Cardinality(R \cup {x}) = Cardinality(R) + 1
  BY <1>1, FS_AddElement
<1>3. CASE x \in U
  <2>1. U = R \cup {x}
    BY <1>3
  <2> QED BY <1>1, <1>2, <1>3, <2>1
<1>4. CASE x \notin U
  <2>1. U = R
    BY <1>4
  <2> QED BY <1>1, <1>4, <2>1
<1> QED BY <1>3, <1>4

\* A step of one task changes Holders(b) by what the task itself holds.
LEMMA HoldersChange ==
  ASSUME NEW t \in Tasks, NEW b \in Buffers,
         \A u \in Tasks \ {t} : /\ task'[u].pc \in Holding <=> task[u].pc \in Holding
                                /\ task'[u].bh = task[u].bh
                                /\ task'[u].first = task[u].first
  PROVE  Holders(b)' = Holders(b) + Refs(task'[t], b) - Refs(task[t], b)
<1> DEFINE H == {u \in Tasks : task[u].pc \in Holding /\ task[u].bh = b}
           F == {u \in Tasks : task[u].first = b}
           HH == {u \in Tasks : task'[u].pc \in Holding /\ task'[u].bh = b}
           FF == {u \in Tasks : task'[u].first = b}
<1>1. IsFiniteSet(H) /\ IsFiniteSet(F)
  BY TasksAssumption, FS_Subset
<1>2. H \ {t} = HH \ {t} /\ F \ {t} = FF \ {t}
  OBVIOUS
<1>3. /\ Cardinality(H) \in Nat /\ Cardinality(HH) \in Nat
      /\ Cardinality(HH) = Cardinality(H) + (IF t \in HH THEN 1 ELSE 0)
                                          - (IF t \in H THEN 1 ELSE 0)
  <2> HIDE DEF H, HH
  <2> QED BY <1>1, <1>2, CardinalityChange
<1>4. /\ Cardinality(F) \in Nat /\ Cardinality(FF) \in Nat
      /\ Cardinality(FF) = Cardinality(F) + (IF t \in FF THEN 1 ELSE 0)
                                          - (IF t \in F THEN 1 ELSE 0)
  <2> HIDE DEF F, FF
  <2> QED BY <1>1, <1>2, CardinalityChange
<1>5. /\ t \in H <=> task[t].pc \in Holding /\ task[t].bh = b
      /\ t \in HH <=> task'[t].pc \in Holding /\ task'[t].bh = b
      /\ t \in F <=> task[t].first = b
      /\ t \in FF <=> task'[t].first = b
  OBVIOUS
<1>6. /\ Holders(b) = Cardinality(H) + Cardinality(F)
      /\ Holders(b)' = Cardinality(HH) + Cardinality(FF)
  BY DEF Holders, Holding
<1> HIDE DEF H, F, HH, FF
<1> QED BY <1>3, <1>4, <1>5, <1>6 DEF Refs

\* A task that holds a buffer is among its holders.
LEMMA HoldersAtLeast ==
  ASSUME NEW t \in Tasks, NEW b \in Buffers
  PROVE  /\ Holders(b) \in Nat /\ Refs(task[t], b) \in Nat
         /\ Refs(task[t], b) <= Holders(b)
<1> DEFINE H == {u \in Tasks : task[u].pc \in Holding /\ task[u].bh = b}
           F == {u \in Tasks : task[u].first = b}
<1>1. IsFiniteSet(H) /\ IsFiniteSet(F)
  BY TasksAssumption, FS_Subset
<1>2. /\ Cardinality(H) \in Nat /\ Cardinality(F) \in Nat
      /\ t \in H => Cardinality(H) # 0
      /\ t \in F => Cardinality(F) # 0
  <2> HIDE DEF H, F
  <2> QED BY <1>1, FS_CardinalityType, FS_EmptySet
<1>3. /\ t \in H <=> task[t].pc \in Holding /\ task[t].bh = b
      /\ t \in F <=> task[t].first = b
  OBVIOUS
<1>4. Holders(b) = Cardinality(H) + Cardinality(F)
  BY DEF Holders, Holding
<1> HIDE DEF H, F
<1> QED BY <1>2, <1>3, <1>4 DEF Refs

-----------------------------------------------------------------------------
(* What the helpers do to the fields.                                      *)

\* The buffer_head after ll_rw_block() has started a transfer.
StartedHead(h, cmd) ==
  [h EXCEPT !.lock = TRUE, !.dirt = FALSE, !.io = cmd, !.snap = h.newest]

LEMMA StartIOHead ==
  ASSUME NEW B \in [Buffers -> Heads], NEW b \in Buffers, NEW cmd \in {"read", "write"}
  PROVE  /\ StartIO(B, b, cmd) = [B EXCEPT ![b] = StartedHead(B[b], cmd)]
         /\ StartedHead(B[b], cmd) \in Heads
<1>1. B[b] \in Heads
  OBVIOUS
<1>2. StartedHead(B[b], cmd) \in Heads
  BY <1>1 DEF StartedHead, Heads
<1>3. StartIO(B, b, cmd) = [B EXCEPT ![b] = StartedHead(B[b], cmd)]
  BY DEF StartIO, StartedHead
<1> QED BY <1>2, <1>3

\* ll_rw_block() changes neither the block nor the count of a buffer.
LEMMA StartIOKeeps ==
  ASSUME NEW B \in [Buffers -> Heads], NEW b \in Buffers, NEW cmd \in {"read", "write"}
  PROVE  /\ StartIO(B, b, cmd) \in [Buffers -> Heads]
         /\ \A c \in Buffers : /\ StartIO(B, b, cmd)[c].blk = B[c].blk
                               /\ StartIO(B, b, cmd)[c].count = B[c].count
                               /\ StartIO(B, b, cmd)[c].uptodate = B[c].uptodate
                               /\ c # b => StartIO(B, b, cmd)[c].io = B[c].io
<1>1. B[b] \in Heads
  OBVIOUS
<1>2. /\ StartedHead(B[b], cmd).blk = B[b].blk
      /\ StartedHead(B[b], cmd).count = B[b].count
      /\ StartedHead(B[b], cmd).uptodate = B[b].uptodate
  BY <1>1 DEF StartedHead, Heads
<1>3. /\ StartIO(B, b, cmd) = [B EXCEPT ![b] = StartedHead(B[b], cmd)]
      /\ StartedHead(B[b], cmd) \in Heads
  BY StartIOHead
<1> QED BY <1>2, <1>3

LEMMA ReadBlockKeeps ==
  ASSUME NEW B \in [Buffers -> Heads], NEW b \in Buffers
  PROVE  /\ ReadBlock(B, b) \in [Buffers -> Heads]
         /\ \A c \in Buffers : /\ ReadBlock(B, b)[c].blk = B[c].blk
                               /\ ReadBlock(B, b)[c].count = B[c].count
                               /\ ReadBlock(B, b)[c].uptodate = B[c].uptodate
                               /\ c # b => ReadBlock(B, b)[c].io = B[c].io
  BY StartIOKeeps DEF ReadBlock

\* Neither does a store into a buffer.
LEMMA WriteKeeps ==
  ASSUME NEW B \in [Buffers -> Heads], NEW b \in Buffers
  PROVE  /\ Write(B, b) \in [Buffers -> Heads]
         /\ \A c \in Buffers : /\ Write(B, b)[c].blk = B[c].blk
                               /\ Write(B, b)[c].count = B[c].count
                               /\ Write(B, b)[c].uptodate = B[c].uptodate
                               /\ Write(B, b)[c].dirt = B[c].dirt
                               /\ Write(B, b)[c].io = B[c].io
  BY ZenonT(30) DEF Write, Heads

\* b_dirt = 1, without and with b_uptodate = 1
MarkDirty(B, b) == [B EXCEPT ![b].dirt = TRUE]

MarkNew(B, b) == [B EXCEPT ![b].uptodate = TRUE, ![b].dirt = TRUE]

\* Setting the flags changes neither the block nor the count of a buffer.
LEMMA MarkKeeps ==
  ASSUME NEW B \in [Buffers -> Heads], NEW b \in Buffers
  PROVE  /\ MarkDirty(B, b) \in [Buffers -> Heads]
         /\ MarkNew(B, b) \in [Buffers -> Heads]
         /\ \A c \in Buffers :
              /\ MarkDirty(B, b)[c].blk = B[c].blk
              /\ MarkDirty(B, b)[c].count = B[c].count
              /\ MarkDirty(B, b)[c].uptodate = B[c].uptodate
              /\ MarkDirty(B, b)[c].io = B[c].io
              /\ MarkNew(B, b)[c].io = B[c].io
              /\ MarkNew(B, b)[c].blk = B[c].blk
              /\ MarkNew(B, b)[c].count = B[c].count
              /\ B[c].uptodate => MarkNew(B, b)[c].uptodate
<1> DEFINE h1 == [B[b] EXCEPT !.dirt = TRUE]
           h2 == [B[b] EXCEPT !.uptodate = TRUE, !.dirt = TRUE]
<1>1. B[b] \in Heads
  OBVIOUS
<1>2. /\ h1 \in Heads /\ h1.blk = B[b].blk /\ h1.count = B[b].count
      /\ h1.uptodate = B[b].uptodate
      /\ h2 \in Heads /\ h2.blk = B[b].blk /\ h2.count = B[b].count /\ h2.uptodate
      /\ h1.io = B[b].io /\ h2.io = B[b].io
  BY <1>1 DEF Heads
<1>3. /\ MarkDirty(B, b) = [B EXCEPT ![b] = h1]
      /\ MarkNew(B, b) = [B EXCEPT ![b] = h2]
  BY DEF MarkDirty, MarkNew
<1> HIDE DEF h1, h2
<1> QED BY <1>2, <1>3

\* b_count++
LEMMA AddRefKeeps ==
  ASSUME NEW B \in [Buffers -> Heads], NEW b \in Buffers
  PROVE  /\ AddRef(B, b) \in [Buffers -> Heads]
         /\ \A c \in Buffers :
              /\ AddRef(B, b)[c].blk = B[c].blk
              /\ AddRef(B, b)[c].uptodate = B[c].uptodate
              /\ AddRef(B, b)[c].io = B[c].io
              /\ AddRef(B, b)[c].count = B[c].count + (IF c = b THEN 1 ELSE 0)
  BY DEF AddRef, Heads

\* b_count--, of a buffer that is held
LEMMA DropRefKeeps ==
  ASSUME NEW B \in [Buffers -> Heads], NEW b \in Buffers, B[b].count > 0
  PROVE  /\ DropRef(B, b) \in [Buffers -> Heads]
         /\ \A c \in Buffers :
              /\ DropRef(B, b)[c].blk = B[c].blk
              /\ DropRef(B, b)[c].uptodate = B[c].uptodate
              /\ DropRef(B, b)[c].io = B[c].io
              /\ DropRef(B, b)[c].count = B[c].count - (IF c = b THEN 1 ELSE 0)
  BY DEF DropRef, Heads
-----------------------------------------------------------------------------
(* The step of getblk() that has found its buffer.                         *)

Locals == [pc : PCs, op : AllOps, blk : Blocks \cup {NULL}, next : Blocks \cup {NULL},
           bh : Buffers \cup {0}, first : Buffers \cup {0}, i : 1..2 * NrBuffers]

\* LocalsInv for one task
GoodLocals(r) ==
  /\ r.pc \in Holding \cup {"claim"} => r.bh \in Buffers
  /\ r.pc = "sync" /\ r.op # "sync" => r.bh \in Buffers
  /\ r.pc \in {"getblk", "hash", "nobuf", "claim"} => r.op # "sync"
  /\ (r.first # 0) <=> (InGetblk(r) /\ r.op = "breada" /\ r.next = NULL)
  /\ InGetblk(r) => r.blk \in Blocks

\* getblk() returns b with its count taken in B; the caller keeps, exchanges
\* or drops what it holds, and B's counts follow.
LEMMA GotEffect ==
  ASSUME TypeOK, LocalsInv, NEW t \in Tasks, NEW b \in Buffers,
         task[t].pc \in {"getblk", "hash", "claim"},
         NEW B \in [Buffers -> Heads], B[b].count > 0, Got(t, b, B),
         B[b].blk # NULL, task[t].first # 0 => B[task[t].first].blk # NULL
  PROVE  /\ buf' \in [Buffers -> Heads] /\ disk' \subseteq Blocks
         /\ \A c \in Buffers :
              /\ buf'[c].blk = B[c].blk
              /\ buf'[c].io = B[c].io \/ buf'[c].blk # NULL
              /\ buf'[c].count = B[c].count - (IF c = b THEN 1 ELSE 0)
                                 - (IF task[t].first = c THEN 1 ELSE 0)
                                 + Refs(task'[t], c)
         /\ task' = [task EXCEPT ![t] = task'[t]]
         /\ task'[t] \in Locals /\ GoodLocals(task'[t])
         /\ task'[t].op = task[t].op /\ task'[t].first \in {0, b}
         /\ task'[t].op # "breada" => /\ task'[t].bh = b
                                      /\ task'[t].blk = task[t].blk
<1> DEFINE op == task[t].op
           next == task[t].next
           first == task[t].first
           k == task[t].blk
<1>1. /\ task \in [Tasks -> Locals] /\ task[t] \in Locals /\ GoodLocals(task[t])
      /\ disk \subseteq Blocks /\ op # "sync" /\ InGetblk(task[t])
  BY DEF TypeOK, LocalsInv, Locals, GoodLocals, InGetblk
<1>2. \A c \in Buffers : c # 0
  BY DEF Buffers
<1>3. \A c \in Buffers : B[c].count \in Nat
  BY DEF Heads
<1> USE DEF Holding, InGetblk
<1>4. CASE op \in {"bread", "file_write"}
  <2>1. /\ buf' = LET C == ReadBlock(B, b)
                  IN  IF op = "file_write" /\ C[b].uptodate
                      THEN [C EXCEPT ![b].dirt = TRUE] ELSE C
        /\ task' = [task EXCEPT ![t].bh = b,
                                ![t].pc = IF B[b].uptodate THEN "have" ELSE "read"]
        /\ disk' = disk
    BY <1>4 DEF Got
  <2>2. /\ buf' \in [Buffers -> Heads]
        /\ \A c \in Buffers : /\ buf'[c].blk = B[c].blk /\ buf'[c].count = B[c].count
                              /\ buf'[c].io = B[c].io \/ buf'[c].blk # NULL
    <3> DEFINE C == ReadBlock(B, b)
    <3>1. /\ C \in [Buffers -> Heads]
          /\ \A c \in Buffers : /\ C[c].blk = B[c].blk /\ C[c].count = B[c].count
                                /\ C[c].io = B[c].io \/ B[c].blk # NULL
      BY ReadBlockKeeps
    <3>2. buf' = IF op = "file_write" /\ C[b].uptodate THEN [C EXCEPT ![b].dirt = TRUE] ELSE C
      BY <2>1
    <3>3. buf' \in {C, MarkDirty(C, b), MarkNew(C, b)}
      BY <3>2 DEF MarkDirty, MarkNew
    <3> HIDE DEF C
    <3> QED BY <3>1, <3>3, MarkKeeps, SMTT(30)
  <2>3. /\ task' = [task EXCEPT ![t] = task'[t]]
        /\ task'[t] = [task[t] EXCEPT !.bh = b, !.pc = IF B[b].uptodate THEN "have" ELSE "read"]
    BY <1>1, <2>1
  <2>4. /\ task'[t] \in Locals /\ GoodLocals(task'[t]) /\ task'[t].op = op
        /\ task'[t].bh = b /\ task'[t].blk = k /\ task'[t].first = 0 /\ first = 0
        /\ task'[t].pc \in {"have", "read"}
    BY <1>1, <1>4, <2>3 DEF Locals, PCs, GoodLocals
  <2>5. \A c \in Buffers : Refs(task'[t], c) = IF c = b THEN 1 ELSE 0
    BY <1>2, <2>4 DEF Refs
  <2> QED BY <1>1, <1>2, <1>3, <2>1, <2>2, <2>3, <2>4, <2>5
<1>5. CASE op = "breada" /\ next # NULL
  <2>1. /\ buf' = ReadBlock(B, b)
        /\ task' = [task EXCEPT ![t].first = b, ![t].bh = 0, ![t].blk = next,
                                ![t].next = NULL, ![t].pc = "getblk"]
        /\ disk' = disk
    BY <1>5 DEF Got
  <2>2. /\ buf' \in [Buffers -> Heads]
        /\ \A c \in Buffers : /\ buf'[c].blk = B[c].blk /\ buf'[c].count = B[c].count
                              /\ buf'[c].io = B[c].io \/ buf'[c].blk # NULL
    <3>1. /\ ReadBlock(B, b) \in [Buffers -> Heads]
          /\ \A c \in Buffers : /\ ReadBlock(B, b)[c].blk = B[c].blk
                                /\ ReadBlock(B, b)[c].count = B[c].count
                                /\ c # b => ReadBlock(B, b)[c].io = B[c].io
      BY ReadBlockKeeps
    <3> QED BY <2>1, <3>1
  <2>3. /\ task' = [task EXCEPT ![t] = task'[t]]
        /\ task'[t] = [task[t] EXCEPT !.first = b, !.bh = 0, !.blk = next,
                                      !.next = NULL, !.pc = "getblk"]
    BY <1>1, <2>1
  <2>4. /\ task'[t] \in Locals /\ GoodLocals(task'[t]) /\ task'[t].op = op
        /\ task'[t].first = b /\ first = 0 /\ task'[t].pc = "getblk"
    BY <1>1, <1>2, <1>5, <2>3, ZenonT(30) DEF Locals, PCs, GoodLocals
  <2>5. \A c \in Buffers : Refs(task'[t], c) = IF c = b THEN 1 ELSE 0
    BY <1>2, <2>4 DEF Refs
  <2> QED BY <1>1, <1>2, <1>3, <1>5, <2>1, <2>2, <2>3, <2>4, <2>5
<1>6. CASE op = "breada" /\ next = NULL
  <2>1. /\ buf' = DropRef(IF B[b].uptodate THEN B ELSE ReadBlock(B, first), b)
        /\ task' = [task EXCEPT ![t].bh = first, ![t].first = 0, ![t].pc = "read"]
        /\ disk' = disk
    BY <1>6 DEF Got
  <2>2. first \in Buffers
    BY <1>1, <1>6 DEF GoodLocals, Locals
  <2>3. /\ buf' \in [Buffers -> Heads]
        /\ \A c \in Buffers : /\ buf'[c].blk = B[c].blk
                              /\ buf'[c].io = B[c].io \/ buf'[c].blk # NULL
                              /\ buf'[c].count = B[c].count - (IF c = b THEN 1 ELSE 0)
    <3> DEFINE C == IF B[b].uptodate THEN B ELSE ReadBlock(B, first)
    <3>1. /\ C \in [Buffers -> Heads]
          /\ \A c \in Buffers : /\ C[c].blk = B[c].blk /\ C[c].count = B[c].count
                                /\ C[c].io = B[c].io \/ B[c].blk # NULL
      <4>1. /\ ReadBlock(B, first) \in [Buffers -> Heads]
            /\ \A c \in Buffers : /\ ReadBlock(B, first)[c].blk = B[c].blk
                                  /\ ReadBlock(B, first)[c].count = B[c].count
                                  /\ c # first => ReadBlock(B, first)[c].io = B[c].io
        BY <2>2, ReadBlockKeeps
      <4>2. B[first].blk # NULL
        BY <1>2, <2>2
      <4> QED BY <4>1, <4>2
    <3>2. buf' = DropRef(C, b)
      BY <2>1
    <3> HIDE DEF C
    <3> QED BY <3>1, <3>2, DropRefKeeps
  <2>4. /\ task' = [task EXCEPT ![t] = task'[t]]
        /\ task'[t] = [task[t] EXCEPT !.bh = first, !.first = 0, !.pc = "read"]
    BY <1>1, <2>1
  <2>5. /\ task'[t] \in Locals /\ GoodLocals(task'[t]) /\ task'[t].op = op
        /\ task'[t].first = 0 /\ task'[t].bh = first /\ task'[t].pc = "read"
    BY <1>1, <1>2, <1>6, <2>2, <2>4 DEF Locals, PCs, GoodLocals
  <2>6. \A c \in Buffers : Refs(task'[t], c) = IF first = c THEN 1 ELSE 0
    BY <1>2, <2>5 DEF Refs
  <2> QED BY <1>1, <1>2, <1>3, <1>6, <2>1, <2>3, <2>4, <2>5, <2>6
<1>7. CASE op \in {"new_block", "block_write"}
  <2>1. /\ buf' = IF op = "new_block"
                  THEN [Write(B, b) EXCEPT ![b].uptodate = TRUE, ![b].dirt = TRUE]
                  ELSE [Write(B, b) EXCEPT ![b].dirt = TRUE]
        /\ task' = [task EXCEPT ![t].bh = b, ![t].pc = "brelse"]
        /\ disk' = disk \ {k}
    BY <1>7 DEF Got
  <2>2. /\ buf' \in [Buffers -> Heads]
        /\ \A c \in Buffers : /\ buf'[c].blk = B[c].blk /\ buf'[c].count = B[c].count
                              /\ buf'[c].io = B[c].io \/ buf'[c].blk # NULL
    <3> DEFINE C == Write(B, b)
    <3>1. /\ C \in [Buffers -> Heads]
          /\ \A c \in Buffers : /\ C[c].blk = B[c].blk /\ C[c].count = B[c].count
                                /\ C[c].io = B[c].io \/ B[c].blk # NULL
      BY WriteKeeps
    <3>2. buf' = IF op = "new_block"
                 THEN [C EXCEPT ![b].uptodate = TRUE, ![b].dirt = TRUE]
                 ELSE [C EXCEPT ![b].dirt = TRUE]
      BY <2>1
    <3>3. buf' \in {C, MarkDirty(C, b), MarkNew(C, b)}
      BY <3>2 DEF MarkDirty, MarkNew
    <3> HIDE DEF C
    <3> QED BY <3>1, <3>3, MarkKeeps, SMTT(30)
  <2>3. /\ task' = [task EXCEPT ![t] = task'[t]]
        /\ task'[t] = [task[t] EXCEPT !.bh = b, !.pc = "brelse"]
    BY <1>1, <2>1
  <2>4. /\ task'[t] \in Locals /\ GoodLocals(task'[t]) /\ task'[t].op = op
        /\ task'[t].bh = b /\ task'[t].blk = k /\ task'[t].first = 0 /\ first = 0
        /\ task'[t].pc = "brelse"
    BY <1>1, <1>7, <2>3 DEF Locals, PCs, GoodLocals
  <2>5. \A c \in Buffers : Refs(task'[t], c) = IF c = b THEN 1 ELSE 0
    BY <1>2, <2>4 DEF Refs
  <2>6. \A c \in Buffers :
          buf'[c].count = B[c].count - (IF c = b THEN 1 ELSE 0)
                          - (IF task[t].first = c THEN 1 ELSE 0) + Refs(task'[t], c)
    BY <1>2, <1>3, <2>2, <2>4, <2>5
  <2> QED BY <1>1, <2>1, <2>2, <2>3, <2>4, <2>6
<1> QED BY <1>1, <1>4, <1>5, <1>6, <1>7 DEF Locals, AllOps
-----------------------------------------------------------------------------
(* What every step of a task has in common: it changes its own local       *)
(* variables, wakes tasks that wait for a buffer, and takes at most one    *)
(* buffer, an unused one, for a block that has none.                       *)

OthersKeep(t) ==
  \A u \in Tasks \ {t} :
    \/ task'[u] = task[u]
    \/ task[u].pc = "nobuf" /\ task'[u] = [task[u] EXCEPT !.pc = "getblk"]

SameBlocks == \A c \in Buffers : buf'[c].blk = buf[c].blk

TakesBuffer(b, k) ==
  /\ buf[b].count = 0 /\ Find(buf, k) = {} /\ buf'[b].blk = k /\ k # NULL
  /\ \A c \in Buffers \ {b} : buf'[c].blk = buf[c].blk

\* b_count changes by what the task itself has.
CountsFollow(t) ==
  \A c \in Buffers :
    buf'[c].count = buf[c].count + Refs(task'[t], c) - Refs(task[t], c)

LEMMA TaskStep ==
  ASSUME CacheInv, NEW t \in Tasks,
         buf' \in [Buffers -> Heads], disk' \subseteq Blocks, failed' \subseteq Blocks,
         task' \in [Tasks -> Locals], GoodLocals(task'[t]), OthersKeep(t),
         SameBlocks \/ (\E b \in Buffers : TakesBuffer(b, task[t].blk)),
         CountsFollow(t),
         \A c \in Buffers : buf'[c].io = buf[c].io \/ buf'[c].blk # NULL,
         \/ task'[t].first \in {0, task[t].first}
         \/ buf'[task'[t].first].blk # NULL,
         task'[t].pc \in Holding /\ task'[t].op # "breada"
           => buf'[task'[t].bh].blk = task'[t].blk
  PROVE  CacheInv'
<1> USE DEF CacheInv
<1>1. TypeOK'
  BY DEF TypeOK, Locals
<1>2. \A u \in Tasks \ {t} :
        /\ task'[u].pc \in Holding <=> task[u].pc \in Holding
        /\ task'[u].bh = task[u].bh /\ task'[u].first = task[u].first
        /\ task'[u].blk = task[u].blk /\ task'[u].op = task[u].op
        /\ GoodLocals(task[u]) => GoodLocals(task'[u])
  BY DEF OthersKeep, TypeOK, Holding, GoodLocals, InGetblk
<1>3. LocalsInv'
  BY <1>2 DEF LocalsInv, GoodLocals
<1>4. OneBufferPerBlock'
  BY DEF OneBufferPerBlock, SameBlocks, TakesBuffer, Find
<1>5. ASSUME NEW b \in Buffers PROVE buf'[b].count = Holders(b)'
  <2>1. Holders(b)' = Holders(b) + Refs(task'[t], b) - Refs(task[t], b)
    BY <1>2, HoldersChange
  <2> QED BY <2>1 DEF CountsFollow, CountsAreExact
<1>6. ASSUME NEW u \in Tasks, NEW b \in Buffers, Refs(task[u], b) >= 1
      PROVE  buf'[b].blk = buf[b].blk
  <2>1. /\ Holders(b) \in Nat /\ Refs(task[u], b) \in Nat
        /\ Refs(task[u], b) <= Holders(b)
    BY HoldersAtLeast
  <2>2. buf[b].count > 0
    BY <1>6, <2>1 DEF CountsAreExact
  <2> QED BY <2>2 DEF SameBlocks, TakesBuffer
<1>7. ASSUME NEW u \in Tasks, task'[u].pc \in Holding, task'[u].op # "breada"
      PROVE  buf'[task'[u].bh].blk = task'[u].blk
  <2>1. CASE u = t
    BY <1>7, <2>1
  <2>2. CASE u # t
    <3>1. /\ task[u].pc \in Holding /\ task[u].op # "breada" /\ task[u].bh \in Buffers
          /\ buf[task[u].bh].blk = task[u].blk
      BY <1>2, <1>7, <2>2 DEF CountsAreExact, LocalsInv, Holding
    <3>2. Refs(task[u], task[u].bh) >= 1
      BY <3>1 DEF Refs
    <3> QED BY <1>2, <1>6, <2>2, <3>1, <3>2
  <2> QED BY <2>1, <2>2
<1>8. CountsAreExact'
  BY <1>5, <1>7 DEF CountsAreExact, Holding
<1>9. ASSUME NEW u \in Tasks, task'[u].first # 0
      PROVE  buf'[task'[u].first].blk # NULL
  <2>1. CASE task'[u].first = task[u].first
    <3>1. task[u].first \in Buffers /\ buf[task[u].first].blk # NULL
      BY <1>9, <2>1 DEF TypeOK, TransferInv
    <3>2. Refs(task[u], task[u].first) >= 1
      BY DEF Refs
    <3> QED BY <1>6, <2>1, <3>1, <3>2
  <2> QED BY <1>2, <1>9, <2>1
<1>10. ASSUME NEW b \in Buffers, buf'[b].io # "none"
       PROVE  buf'[b].blk # NULL
  BY <1>10 DEF TransferInv, SameBlocks, TakesBuffer
<1>11. TransferInv'
  BY <1>9, <1>10 DEF TransferInv
<1> QED BY <1>1, <1>3, <1>4, <1>8, <1>11

\* The common case: one task moves, and neither takes nor gives up a buffer.
LEMMA QuietStep ==
  ASSUME CacheInv, NEW t \in Tasks, NEW r \in Locals,
         buf' \in [Buffers -> Heads], disk' \subseteq Blocks, failed' \subseteq Blocks,
         task' = [task EXCEPT ![t] = r], GoodLocals(r),
         \A c \in Buffers : /\ buf'[c].blk = buf[c].blk /\ buf'[c].count = buf[c].count
                            /\ buf'[c].io = buf[c].io \/ buf[c].blk # NULL,
         r.first = task[t].first,
         r.pc \in Holding => /\ task[t].pc \in Holding /\ r.bh = task[t].bh
                             /\ r.op = task[t].op /\ r.blk = task[t].blk,
         task[t].pc \in Holding => r.pc \in Holding
  PROVE  CacheInv'
<1>1. task \in [Tasks -> Locals] /\ buf \in [Buffers -> Heads]
  BY DEF CacheInv, TypeOK, Locals
<1>2. task' \in [Tasks -> Locals] /\ task'[t] = r /\ OthersKeep(t)
  BY <1>1 DEF OthersKeep
<1>3. SameBlocks
  BY DEF SameBlocks
<1>4. CountsFollow(t)
  <2>1. \A c \in Buffers : buf[c].count \in Int /\ Refs(task[t], c) \in Int
    BY <1>1 DEF Heads, Refs
  <2>2. \A c \in Buffers : Refs(task'[t], c) = Refs(task[t], c)
    BY <1>2 DEF Refs
  <2> QED BY <2>1, <2>2 DEF CountsFollow
<1>5. task'[t].pc \in Holding /\ task'[t].op # "breada"
        => buf'[task'[t].bh].blk = task'[t].blk
  BY <1>2 DEF CacheInv, CountsAreExact, LocalsInv, Holding
<1> QED BY <1>2, <1>3, <1>4, <1>5, TaskStep
-----------------------------------------------------------------------------
(* One lemma for each kind of step.                                        *)

\* getblk() has its buffer: found in the cache with its count taken now or
\* before it slept, or claimed.
LEMMA GotStep ==
  ASSUME CacheInv, NEW t \in Tasks, NEW b \in Buffers,
         task[t].pc \in {"getblk", "hash", "claim"},
         NEW B \in [Buffers -> Heads], Got(t, b, B), UNCHANGED failed,
         \A c \in Buffers : B[c].count = buf[c].count + (IF c = b THEN 1 ELSE 0)
                                         - (IF task[t].pc = "hash" /\ task[t].bh = c
                                            THEN 1 ELSE 0),
         B[b].count > 0, B[b].blk = task[t].blk,
         \A c \in Buffers : B[c].io = buf[c].io,
         \/ \A c \in Buffers : B[c].blk = buf[c].blk
         \/ /\ buf[b].count = 0 /\ Find(buf, task[t].blk) = {}
            /\ \A c \in Buffers \ {b} : B[c].blk = buf[c].blk
  PROVE  CacheInv'
<1>1. TypeOK /\ LocalsInv /\ task \in [Tasks -> Locals] /\ failed' \subseteq Blocks
  BY DEF CacheInv, TypeOK, Locals
<1>a. task[t].blk \in Blocks /\ task[t].blk # NULL
  BY <1>1, NULLAssumption DEF LocalsInv, InGetblk
<1>b. task[t].first # 0 => B[task[t].first].blk # NULL
  BY <1>1, <1>a DEF CacheInv, TransferInv, TypeOK
<1>2. /\ buf' \in [Buffers -> Heads] /\ disk' \subseteq Blocks
      /\ \A c \in Buffers :
           /\ buf'[c].blk = B[c].blk
           /\ buf'[c].io = B[c].io \/ buf'[c].blk # NULL
           /\ buf'[c].count = B[c].count - (IF c = b THEN 1 ELSE 0)
                              - (IF task[t].first = c THEN 1 ELSE 0)
                              + Refs(task'[t], c)
      /\ task' = [task EXCEPT ![t] = task'[t]]
      /\ task'[t] \in Locals /\ GoodLocals(task'[t])
      /\ task'[t].op = task[t].op /\ task'[t].first \in {0, b}
      /\ task'[t].op # "breada" => /\ task'[t].bh = b
                                   /\ task'[t].blk = task[t].blk
  BY <1>1, <1>a, <1>b, GotEffect
<1>3. task' \in [Tasks -> Locals] /\ OthersKeep(t)
  <2> DEFINE r == task'[t]
  <2>1. task' = [task EXCEPT ![t] = r] /\ r \in Locals
    BY <1>2
  <2> HIDE DEF r
  <2> QED BY <1>1, <2>1 DEF OthersKeep
<1>4. SameBlocks \/ \E c \in Buffers : TakesBuffer(c, task[t].blk)
  BY <1>2, <1>a DEF SameBlocks, TakesBuffer
<1>5. CountsFollow(t)
  <2> SUFFICES ASSUME NEW c \in Buffers
               PROVE  buf'[c].count = buf[c].count + Refs(task'[t], c) - Refs(task[t], c)
    BY DEF CountsFollow
  <2>1. buf[c].count \in Int /\ B[c].count \in Int /\ Refs(task'[t], c) \in Int
    BY <1>1 DEF TypeOK, Heads, Refs
  <2>2. Refs(task[t], c) = (IF task[t].pc = "hash" /\ task[t].bh = c THEN 1 ELSE 0)
                           + (IF task[t].first = c THEN 1 ELSE 0)
    BY DEF Refs, Holding
  <2> DEFINE x == IF c = b THEN 1 ELSE 0
             y == IF task[t].first = c THEN 1 ELSE 0
             z == IF task[t].pc = "hash" /\ task[t].bh = c THEN 1 ELSE 0
  <2>3. x \in Int /\ y \in Int /\ z \in Int
    OBVIOUS
  <2>4. buf'[c].count = B[c].count - x - y + Refs(task'[t], c)
    BY <1>2
  <2>5. B[c].count = buf[c].count + x - z
    OBVIOUS
  <2>6. Refs(task[t], c) = z + y
    BY <2>2
  <2> HIDE DEF x, y, z
  <2> QED BY <2>1, <2>3, <2>4, <2>5, <2>6
<1>6. task'[t].pc \in Holding /\ task'[t].op # "breada"
        => buf'[task'[t].bh].blk = task'[t].blk
  BY <1>2
<1>7. /\ \A c \in Buffers : buf'[c].io = buf[c].io \/ buf'[c].blk # NULL
      /\ \/ task'[t].first \in {0, task[t].first}
         \/ buf'[task'[t].first].blk # NULL
  BY <1>2, <1>a
<1> QED BY <1>1, <1>2, <1>3, <1>4, <1>5, <1>6, <1>7, TaskStep

\* The buffer is made one for the block of task t.
LEMMA ClaimStep ==
  ASSUME CacheInv, NEW t \in Tasks, NEW b \in Buffers,
         task[t].pc \in {"getblk", "claim"}, Claim(t, b), UNCHANGED failed
  PROVE  CacheInv'
<1> DEFINE h == [buf[b] EXCEPT !.count = 1, !.uptodate = FALSE,
                               !.blk = task[t].blk, !.newest = FALSE]
           B == [buf EXCEPT ![b] = h]
<1>1. buf \in [Buffers -> Heads] /\ task[t].blk \in Blocks \cup {NULL} /\ buf[b] \in Heads
  BY DEF CacheInv, TypeOK
<1>2. h \in Heads /\ h.count = 1 /\ h.blk = task[t].blk /\ h.io = buf[b].io
  BY <1>1 DEF Heads
<1>3. B \in [Buffers -> Heads] /\ B[b] = h /\ \A c \in Buffers \ {b} : B[c] = buf[c]
  <2> HIDE DEF h
  <2> QED BY <1>1, <1>2
<1>4. Got(t, b, B) /\ buf[b].count = 0 /\ Find(buf, task[t].blk) = {}
  BY <1>1 DEF Claim
<1>5. \A c \in Buffers : buf[c].count \in Int
  BY <1>1 DEF Heads
<1> HIDE DEF B, h
<1> QED BY <1>2, <1>3, <1>4, <1>5, GotStep

\* A step that only moves the task to another label of getblk() keeps its
\* buffers; bh may name a buffer it does not count in.
LEMMA GetblkMove ==
  ASSUME CacheInv, NEW t \in Tasks, InGetblk(task[t]), task[t].pc # "hash",
         task[t].op # "sync",
         NEW l \in {"getblk", "nobuf", "claim", "sync"}, NEW b \in Buffers \cup {0},
         NEW n \in 1..2 * NrBuffers,
         l \in {"claim", "sync"} => b \in Buffers,
         task' = [task EXCEPT ![t].pc = l, ![t].bh = b, ![t].i = n],
         buf' \in [Buffers -> Heads],
         \A c \in Buffers : /\ buf'[c].blk = buf[c].blk /\ buf'[c].count = buf[c].count
                            /\ buf'[c].io = buf[c].io \/ buf[c].blk # NULL,
         UNCHANGED <<disk, failed>>
  PROVE  CacheInv'
<1> DEFINE r == [task[t] EXCEPT !.pc = l, !.bh = b, !.i = n]
<1>1. task \in [Tasks -> Locals] /\ task[t] \in Locals /\ GoodLocals(task[t])
      /\ disk' \subseteq Blocks /\ failed' \subseteq Blocks
  BY DEF CacheInv, TypeOK, Locals, LocalsInv, GoodLocals
<1>2. task' = [task EXCEPT ![t] = r]
  BY <1>1
<1>3. r \in Locals /\ GoodLocals(r) /\ r.first = task[t].first /\ r.pc = l
  BY <1>1 DEF Locals, PCs, GoodLocals, InGetblk, Holding
<1>4. r.pc \notin Holding /\ task[t].pc \notin Holding
  BY <1>3 DEF Holding, InGetblk
<1> HIDE DEF r
<1> QED BY <1>1, <1>2, <1>3, <1>4, QuietStep
\* A step of a task on its way out of a call or into one: it counts in the
\* same buffer as before, or in none.
LEMMA HolderMove ==
  ASSUME CacheInv, NEW t \in Tasks, task[t].pc \in Holding, task[t].first = 0,
         NEW l \in {"have", "brelse"},
         task' = [task EXCEPT ![t].pc = l],
         buf' \in [Buffers -> Heads],
         \A c \in Buffers : /\ buf'[c].blk = buf[c].blk /\ buf'[c].count = buf[c].count
                            /\ buf'[c].io = buf[c].io \/ buf[c].blk # NULL,
         disk' \subseteq Blocks, UNCHANGED failed
  PROVE  CacheInv'
<1> DEFINE r == [task[t] EXCEPT !.pc = l]
<1>1. task \in [Tasks -> Locals] /\ task[t] \in Locals /\ GoodLocals(task[t])
      /\ failed' \subseteq Blocks
  BY DEF CacheInv, TypeOK, Locals, LocalsInv, GoodLocals
<1>2. task' = [task EXCEPT ![t] = r]
  BY <1>1
<1>3. /\ r \in Locals /\ GoodLocals(r) /\ r.first = task[t].first /\ r.pc \in Holding
      /\ r.bh = task[t].bh /\ r.op = task[t].op /\ r.blk = task[t].blk
  BY <1>1 DEF Locals, PCs, GoodLocals, InGetblk, Holding
<1> HIDE DEF r
<1> QED BY <1>1, <1>2, <1>3, QuietStep

\* A system call begins.
LEMMA StartStep ==
  ASSUME CacheInv, NEW t \in Tasks, NEW op \in Ops, NEW k \in Blocks,
         NEW next \in Blocks \cup {NULL}, Start(t, op, k, next)
  PROVE  CacheInv'
<1> DEFINE r == [task[t] EXCEPT !.op = op, !.next = next,
                                !.blk = IF op = "sync" THEN NULL ELSE k,
                                !.pc = IF op = "sync" THEN "sync" ELSE "getblk"]
<1>1. task \in [Tasks -> Locals] /\ task[t] \in Locals /\ GoodLocals(task[t])
      /\ disk' \subseteq Blocks /\ failed' \subseteq Blocks
      /\ buf' = buf /\ buf \in [Buffers -> Heads]
  BY DEF CacheInv, TypeOK, Locals, LocalsInv, GoodLocals, Start
<1>2. task' = [task EXCEPT ![t] = r] /\ task[t].pc = "out"
      /\ IF op = "breada" THEN next \in Blocks \ {k} ELSE next = NULL
  BY <1>1 DEF Start
<1>3. op \in AllOps /\ NULL \notin Blocks
  BY OpsAssumption, NULLAssumption
<1>4. r \in Locals /\ GoodLocals(r) /\ r.first = task[t].first
      /\ r.pc \in {"sync", "getblk"}
  BY <1>1, <1>2, <1>3 DEF Locals, PCs, GoodLocals, InGetblk, Holding
<1>5. r.pc \notin Holding /\ task[t].pc \notin Holding
  BY <1>2, <1>4 DEF Holding
<1> HIDE DEF r
<1> QED BY <1>1, <1>2, <1>4, <1>5, QuietStep

\* brelse(): the count goes down, and everybody that waits for a buffer looks
\* again.
LEMMA BrelseStep ==
  ASSUME CacheInv, NEW t \in Tasks, Brelse(t)
  PROVE  CacheInv'
<1> DEFINE b == task[t].bh
<1>1. task \in [Tasks -> Locals] /\ task[t] \in Locals /\ GoodLocals(task[t])
      /\ disk' \subseteq Blocks /\ failed' \subseteq Blocks
      /\ buf \in [Buffers -> Heads]
  BY DEF CacheInv, TypeOK, Locals, LocalsInv, GoodLocals, Brelse
<1>2. task[t].pc = "brelse" /\ b \in Buffers /\ task[t].first = 0
  BY <1>1 DEF Brelse, GoodLocals, Holding, InGetblk, Locals
<1>3. \A c \in Buffers : Refs(task[t], c) = IF c = b THEN 1 ELSE 0
  BY <1>2 DEF Refs, Holding, Buffers
<1>4. buf[b].count > 0
  <2>1. Holders(b) \in Nat /\ Refs(task[t], b) <= Holders(b)
    BY <1>2, HoldersAtLeast
  <2> QED BY <1>2, <1>3, <2>1 DEF CacheInv, CountsAreExact
<1>5. /\ buf' \in [Buffers -> Heads]
      /\ \A c \in Buffers :
           /\ buf'[c].blk = buf[c].blk /\ buf'[c].io = buf[c].io
           /\ buf'[c].count = buf[c].count - (IF c = b THEN 1 ELSE 0)
  BY <1>1, <1>2, <1>4, DropRefKeeps DEF Brelse
<1>6. NoCall \in Locals /\ GoodLocals(NoCall) /\ NoCall.pc = "out" /\ NoCall.first = 0
  BY BuffersAssumption DEF NoCall, Locals, PCs, AllOps, GoodLocals, Holding, InGetblk
<1>7. task'[t] = NoCall /\ task' \in [Tasks -> Locals] /\ OthersKeep(t)
  <2> DEFINE T == [task EXCEPT ![t] = NoCall]
  <2>1. T \in [Tasks -> Locals] /\ T[t] = NoCall /\ \A u \in Tasks \ {t} : T[u] = task[u]
    BY <1>1, <1>6
  <2>2. task' = [u \in Tasks |-> IF T[u].pc = "nobuf" THEN [T[u] EXCEPT !.pc = "getblk"] ELSE T[u]]
    BY DEF Brelse, WakeAll
  <2>3. \A u \in Tasks : [T[u] EXCEPT !.pc = "getblk"] \in Locals
    <3>1. \A q \in Locals : [q EXCEPT !.pc = "getblk"] \in Locals
      BY DEF Locals, PCs
    <3> HIDE DEF T
    <3> QED BY <2>1, <3>1
  <2> HIDE DEF T
  <2> QED BY <1>6, <2>1, <2>2, <2>3 DEF OthersKeep
<1>8. CountsFollow(t)
  <2> SUFFICES ASSUME NEW c \in Buffers
               PROVE  buf'[c].count = buf[c].count + Refs(task'[t], c) - Refs(task[t], c)
    BY DEF CountsFollow
  <2>1. Refs(task'[t], c) = 0
    BY <1>6, <1>7 DEF Refs, Holding, Buffers
  <2>2. buf[c].count \in Int
    BY <1>1 DEF Heads
  <2> QED BY <1>3, <1>5, <2>1, <2>2
<1>9. SameBlocks /\ task'[t].pc \notin Holding
  BY <1>5, <1>6, <1>7 DEF SameBlocks, Holding
<1> HIDE DEF b
<1> QED BY <1>1, <1>5, <1>6, <1>7, <1>8, <1>9, TaskStep
\* One buffer of sys_sync() or sync_dev().
LEMMA SyncStep ==
  ASSUME CacheInv, NEW t \in Tasks, SyncBuffer(t)
  PROVE  CacheInv'
<1> DEFINE n == task[t].i
           b == ((n - 1) % NrBuffers) + 1
           op == task[t].op
           r == IF n < SyncEnd(op) THEN [task[t] EXCEPT !.i = n + 1]
                ELSE IF op = "sync" THEN NoCall
                ELSE [task[t] EXCEPT !.i = 1, !.pc = "claim"]
<1>1. task \in [Tasks -> Locals] /\ task[t] \in Locals /\ GoodLocals(task[t])
      /\ disk' \subseteq Blocks /\ failed' \subseteq Blocks
      /\ buf \in [Buffers -> Heads]
  BY DEF CacheInv, TypeOK, Locals, LocalsInv, GoodLocals, SyncBuffer
<1>2. b \in Buffers /\ n \in 1..2 * NrBuffers
  <2>1. n \in 1..2 * NrBuffers
    BY <1>1 DEF Locals
  <2>2. \A m \in Nat : m % NrBuffers \in 0..NrBuffers - 1
    BY BuffersAssumption
  <2>3. (n - 1) % NrBuffers \in 0..NrBuffers - 1
    BY <2>1, <2>2, BuffersAssumption
  <2> QED BY <2>1, <2>3, BuffersAssumption DEF Buffers
<1>3. /\ task[t].pc = "sync"
      /\ buf' = buf \/ (buf[b].blk # NULL /\ buf' = StartIO(buf, b, "write"))
      /\ task' = [task EXCEPT ![t] = r]
  BY <1>1 DEF SyncBuffer
<1>4. /\ buf' \in [Buffers -> Heads]
      /\ \A c \in Buffers : /\ buf'[c].blk = buf[c].blk /\ buf'[c].count = buf[c].count
                            /\ buf'[c].io = buf[c].io \/ buf[c].blk # NULL
  <2> HIDE DEF b
  <2>1. /\ StartIO(buf, b, "write") \in [Buffers -> Heads]
        /\ \A c \in Buffers : /\ StartIO(buf, b, "write")[c].blk = buf[c].blk
                              /\ StartIO(buf, b, "write")[c].count = buf[c].count
                              /\ c # b => StartIO(buf, b, "write")[c].io = buf[c].io
    BY <1>1, <1>2, StartIOKeeps
  <2> QED BY <1>1, <1>3, <2>1
<1>5. n < SyncEnd(op) => n + 1 \in 1..2 * NrBuffers
  BY <1>2, BuffersAssumption DEF SyncEnd
<1>6. /\ r \in Locals /\ GoodLocals(r) /\ r.first = task[t].first
      /\ r.pc \in {"sync", "claim", "out"}
  <2>1. CASE n < SyncEnd(op)
    <3>1. r = [task[t] EXCEPT !.i = n + 1]
      BY <2>1
    <3> HIDE DEF r
    <3> QED BY <1>1, <1>3, <1>5, <2>1, <3>1 DEF Locals, GoodLocals, InGetblk
  <2>2. CASE ~(n < SyncEnd(op)) /\ op = "sync"
    <3>1. r = NoCall
      BY <2>2
    <3>2. task[t].first = 0
      BY <1>1, <1>3, <2>2 DEF GoodLocals, InGetblk
    <3> HIDE DEF r
    <3> QED BY <3>1, <3>2, BuffersAssumption
        DEF NoCall, Locals, PCs, AllOps, GoodLocals, Holding, InGetblk
  <2>3. CASE ~(n < SyncEnd(op)) /\ op # "sync"
    <3>1. r = [task[t] EXCEPT !.i = 1, !.pc = "claim"]
      BY <2>3
    <3> HIDE DEF r
    <3>2. 1 \in 1..2 * NrBuffers
      BY BuffersAssumption
    <3> QED BY <1>1, <1>3, <2>3, <3>1, <3>2 DEF Locals, PCs, GoodLocals, InGetblk
  <2> QED BY <2>1, <2>2, <2>3
<1>7. r.pc \notin Holding /\ task[t].pc \notin Holding
  BY <1>3, <1>6 DEF Holding
<1> HIDE DEF r, b
<1> QED BY <1>1, <1>3, <1>4, <1>6, <1>7, QuietStep

\* end_request() unlocks a buffer and changes nothing that is counted.
LEMMA EndIOStep ==
  ASSUME CacheInv, NEW b \in Buffers, NEW ok \in BOOLEAN, NEW early \in BOOLEAN,
         EndIO(b, ok, early)
  PROVE  CacheInv'
<1> DEFINE k == buf[b].blk
           n == IF buf[b].io = "read" /\ ok THEN k \in disk ELSE buf[b].newest
           h == [buf[b] EXCEPT !.lock = FALSE, !.io = "none", !.uptodate = ok,
                               !.newest = n, !.snap = FALSE]
<1>1. buf \in [Buffers -> Heads] /\ buf[b] \in Heads /\ disk \subseteq Blocks
      /\ failed \subseteq Blocks /\ task' = task
  BY DEF CacheInv, TypeOK, EndIO
<1>2. buf' = [buf EXCEPT ![b] = h]
  BY <1>1 DEF EndIO
<1>3. h \in Heads /\ h.blk = buf[b].blk /\ h.count = buf[b].count /\ h.io = "none"
  <2>1. n \in BOOLEAN
    <3>1. buf[b].newest \in BOOLEAN
      BY <1>1 DEF Heads
    <3>2. CASE buf[b].io = "read" /\ ok
      BY <3>2
    <3>3. CASE ~(buf[b].io = "read" /\ ok)
      BY <3>1, <3>3
    <3> QED BY <3>2, <3>3
  <2> HIDE DEF n
  <2> QED BY <1>1, <2>1 DEF Heads
<1>4. /\ buf' \in [Buffers -> Heads]
      /\ \A c \in Buffers : /\ buf'[c].blk = buf[c].blk /\ buf'[c].count = buf[c].count
                            /\ buf'[c].io \in {buf[c].io, "none"}
  <2> HIDE DEF h
  <2> QED BY <1>1, <1>2, <1>3
<1>5. disk' \subseteq Blocks /\ failed' \subseteq Blocks
  <2>1. k \in Blocks
    BY <1>1 DEF EndIO, CacheInv, TransferInv, Heads
  <2>2. /\ disk' \in {disk, disk \cup {k}, disk \ {k}}
        /\ failed' \in {failed, failed \cup {k}}
    BY DEF EndIO
  <2> HIDE DEF k
  <2> QED BY <1>1, <2>1, <2>2
<1>6. TypeOK'
  BY <1>1, <1>4, <1>5 DEF CacheInv, TypeOK
<1>7. LocalsInv'
  BY <1>1 DEF CacheInv, LocalsInv, InGetblk
<1>8. OneBufferPerBlock'
  BY <1>4 DEF CacheInv, OneBufferPerBlock
<1>9. \A c \in Buffers : buf'[c].count = Holders(c)'
  <2>1. \A c \in Buffers : Holders(c)' = Holders(c)
    BY <1>1 DEF Holders
  <2> QED BY <1>4, <2>1 DEF CacheInv, CountsAreExact
<1>10. ASSUME NEW t \in Tasks
       PROVE  /\ task[t].first # 0 => buf'[task[t].first].blk # NULL
              /\ task[t].pc \in Holding /\ task[t].op # "breada"
                   => buf'[task[t].bh].blk = task[t].blk
  <2>1. task[t].first # 0 => task[t].first \in Buffers
    BY DEF CacheInv, TypeOK
  <2>2. task[t].pc \in Holding => task[t].bh \in Buffers
    BY DEF CacheInv, LocalsInv
  <2> QED BY <1>4, <2>1, <2>2 DEF CacheInv, TransferInv, CountsAreExact, Holding
<1>11. TransferInv' /\ CountsAreExact'
  BY <1>1, <1>4, <1>9, <1>10 DEF CacheInv, TransferInv, CountsAreExact, Holding
<1> QED BY <1>6, <1>7, <1>8, <1>11 DEF CacheInv
-----------------------------------------------------------------------------
\* No buffer is used at the start.
LEMMA CacheInit == Init => CacheInv
<1> SUFFICES ASSUME Init PROVE CacheInv
  OBVIOUS
<1>1. TypeOK
  <2>1. NoCall \in [pc : PCs, op : AllOps, blk : Blocks \cup {NULL},
                    next : Blocks \cup {NULL}, bh : Buffers \cup {0},
                    first : Buffers \cup {0}, i : 1..2 * NrBuffers]
    BY BuffersAssumption DEF NoCall, PCs, AllOps
  <2> QED BY <2>1 DEF Init, TypeOK, Heads
<1>2. LocalsInv /\ TransferInv /\ OneBufferPerBlock
  BY DEF Init, LocalsInv, TransferInv, OneBufferPerBlock, NoCall, Holding, InGetblk
<1>3. \A b \in Buffers : Holders(b) = 0
  <2> SUFFICES ASSUME NEW b \in Buffers PROVE Holders(b) = 0
    OBVIOUS
  <2>1. /\ {t \in Tasks : task[t].pc \in {"hash", "read", "have", "brelse"} /\ task[t].bh = b} = {}
        /\ {t \in Tasks : task[t].first = b} = {}
    BY DEF Init, NoCall, Buffers
  <2> QED BY <2>1, FS_EmptySet DEF Holders
<1>4. CountsAreExact
  BY <1>3 DEF CountsAreExact, Init, NoCall
<1> QED BY <1>1, <1>2, <1>4 DEF CacheInv

\* Every step keeps the invariant.
LEMMA CacheStep == CacheInv /\ [Next]_vars => CacheInv'
<1> SUFFICES ASSUME CacheInv, [Next]_vars PROVE CacheInv'
  OBVIOUS
<1>1. /\ buf \in [Buffers -> Heads] /\ disk \subseteq Blocks /\ failed \subseteq Blocks
      /\ \A b \in Buffers : buf[b].count \in Nat
  BY DEF CacheInv, TypeOK, Heads
<1>2. \A t \in Tasks : /\ task[t] \in Locals /\ GoodLocals(task[t])
                       /\ task[t].i \in 1..2 * NrBuffers
  BY DEF CacheInv, TypeOK, LocalsInv, GoodLocals, Locals
<1>3. task \in [Tasks -> Locals]
  BY DEF CacheInv, TypeOK, Locals
<1>4. ASSUME NEW t \in Tasks, GetHashTable(t) PROVE CacheInv'
  <2>1. PICK b \in Buffers : buf[b].blk = task[t].blk /\ Got(t, b, AddRef(buf, b))
    BY <1>4 DEF GetHashTable, Find
  <2>2. /\ AddRef(buf, b) \in [Buffers -> Heads]
        /\ \A c \in Buffers :
             /\ AddRef(buf, b)[c].blk = buf[c].blk
             /\ AddRef(buf, b)[c].io = buf[c].io
             /\ AddRef(buf, b)[c].count = buf[c].count + (IF c = b THEN 1 ELSE 0)
    BY <1>1, AddRefKeeps
  <2>3. task[t].pc = "getblk" /\ UNCHANGED failed
    BY <1>4 DEF GetHashTable
  <2> DEFINE B == AddRef(buf, b)
  <2>4. /\ B[b].count > 0 /\ B[b].blk = task[t].blk
        /\ \A c \in Buffers : B[c].count = buf[c].count + (IF c = b THEN 1 ELSE 0)
                                         - (IF task[t].pc = "hash" /\ task[t].bh = c
                                            THEN 1 ELSE 0)
    BY <1>1, <2>1, <2>2, <2>3
  <2> HIDE DEF B
  <2>5. B \in [Buffers -> Heads] /\ Got(t, b, B)
        /\ \A c \in Buffers : B[c].io = buf[c].io /\ B[c].blk = buf[c].blk
    BY <2>1, <2>2 DEF B
  <2> QED BY <2>3, <2>4, <2>5, GotStep
<1>5. ASSUME NEW t \in Tasks, GetHashLocked(t) PROVE CacheInv'
  <2>1. PICK b \in Buffers : /\ buf[b].blk = task[t].blk /\ buf' = AddRef(buf, b)
                             /\ task' = [task EXCEPT ![t].pc = "hash", ![t].bh = b]
    BY <1>5 DEF GetHashLocked, Find
  <2>2. task[t].pc = "getblk" /\ UNCHANGED <<disk, failed>>
    BY <1>5 DEF GetHashLocked
  <2>3. /\ buf' \in [Buffers -> Heads]
        /\ \A c \in Buffers :
             /\ buf'[c].blk = buf[c].blk
             /\ buf'[c].io = buf[c].io
             /\ buf'[c].count = buf[c].count + (IF c = b THEN 1 ELSE 0)
    BY <1>1, <2>1, AddRefKeeps
  <2> DEFINE r == [task[t] EXCEPT !.pc = "hash", !.bh = b]
  <2>4. task' = [task EXCEPT ![t] = r]
    BY <1>3, <2>1
  <2>5. /\ r \in Locals /\ GoodLocals(r) /\ r.pc = "hash" /\ r.bh = b
        /\ r.blk = task[t].blk /\ r.first = task[t].first
    BY <1>2, <2>2 DEF Locals, PCs, GoodLocals, InGetblk
  <2> HIDE DEF r
  <2>6. task' \in [Tasks -> Locals] /\ task'[t] = r /\ OthersKeep(t)
    BY <1>3, <2>4, <2>5 DEF OthersKeep
  <2>7. CountsFollow(t)
    <3> SUFFICES ASSUME NEW c \in Buffers
                 PROVE  buf'[c].count = buf[c].count + Refs(task'[t], c) - Refs(task[t], c)
      BY DEF CountsFollow
    <3>1. Refs(task'[t], c) = (IF c = b THEN 1 ELSE 0) + (IF task[t].first = c THEN 1 ELSE 0)
      BY <2>5, <2>6 DEF Refs, Holding
    <3>2. Refs(task[t], c) = IF task[t].first = c THEN 1 ELSE 0
      BY <2>2 DEF Refs, Holding
    <3> QED BY <1>1, <2>3, <3>1, <3>2
  <2>8. SameBlocks /\ buf'[r.bh].blk = r.blk
    BY <2>1, <2>3, <2>5 DEF SameBlocks
  <2> QED BY <1>1, <2>2, <2>3, <2>5, <2>6, <2>7, <2>8, TaskStep
<1>6. ASSUME NEW t \in Tasks, HashUnlocked(t) PROVE CacheInv'
  <2> DEFINE b == task[t].bh
  <2>1. /\ task[t].pc = "hash" /\ buf[b].blk = task[t].blk /\ Got(t, b, buf)
        /\ UNCHANGED failed
    BY <1>6 DEF HashUnlocked
  <2>2. b \in Buffers
    BY <1>2, <2>1 DEF GoodLocals, Holding
  <2>3. buf[b].count > 0
    <3>1. Refs(task[t], b) >= 1
      BY <2>1 DEF Refs, Holding
    <3>2. /\ Holders(b) \in Nat /\ Refs(task[t], b) \in Nat
          /\ Refs(task[t], b) <= Holders(b)
      BY <2>2, HoldersAtLeast
    <3> QED BY <2>2, <3>1, <3>2 DEF CacheInv, CountsAreExact
  <2>4. \A c \in Buffers : buf[c].count = buf[c].count + (IF c = b THEN 1 ELSE 0)
                                         - (IF task[t].pc = "hash" /\ task[t].bh = c
                                            THEN 1 ELSE 0)
    BY <1>1, <2>1
  <2> QED BY <1>1, <2>1, <2>2, <2>3, <2>4, GotStep
<1>7. ASSUME NEW t \in Tasks, NEW b \in Buffers,
             task[t].pc \in {"getblk", "claim"}, ClaimDirty(t, b), UNCHANGED failed
      PROVE  CacheInv'
  <2>1. task' = [task EXCEPT ![t].pc = "sync", ![t].bh = b, ![t].i = task[t].i]
    BY <1>3, <1>7 DEF ClaimDirty, Locals
  <2>2. InGetblk(task[t]) /\ task[t].op # "sync" /\ task[t].pc # "hash"
    BY <1>2, <1>7 DEF InGetblk, GoodLocals
  <2> QED BY <1>1, <1>2, <1>7, <2>1, <2>2, GetblkMove DEF ClaimDirty
<1>8. ASSUME NEW t \in Tasks, NoBuffer(t) PROVE CacheInv'
  <2>1. task' = [task EXCEPT ![t].pc = "nobuf", ![t].bh = task[t].bh, ![t].i = task[t].i]
    BY <1>3, <1>8 DEF NoBuffer, Goto, Locals
  <2>2. InGetblk(task[t]) /\ task[t].op # "sync" /\ task[t].pc # "hash"
        /\ task[t].bh \in Buffers \cup {0}
    BY <1>2, <1>8 DEF InGetblk, GoodLocals, NoBuffer, Locals
  <2> QED BY <1>1, <1>2, <1>8, <2>1, <2>2, GetblkMove DEF NoBuffer
<1>9. ASSUME NEW t \in Tasks, ScanFreeList(t) PROVE CacheInv'
  <2>1. PICK b \in Buffers :
          \/ Claim(t, b)
          \/ ClaimDirty(t, b)
          \/ /\ task' = [task EXCEPT ![t].pc = "claim", ![t].bh = b]
             /\ UNCHANGED <<buf, disk>>
    BY <1>9 DEF ScanFreeList, Unused
  <2>2. task[t].pc = "getblk" /\ UNCHANGED failed
    BY <1>9 DEF ScanFreeList
  <2>3. CASE task' = [task EXCEPT ![t].pc = "claim", ![t].bh = b] /\ UNCHANGED <<buf, disk>>
    <3>1. task' = [task EXCEPT ![t].pc = "claim", ![t].bh = b, ![t].i = task[t].i]
      BY <1>3, <2>3 DEF Locals
    <3>2. InGetblk(task[t]) /\ task[t].op # "sync"
      BY <1>2, <2>2 DEF InGetblk, GoodLocals
    <3> QED BY <1>1, <1>2, <2>2, <2>3, <3>1, <3>2, GetblkMove
  <2> QED BY <1>7, <2>1, <2>2, <2>3, ClaimStep
<1>10. ASSUME NEW t \in Tasks, ClaimUnlocked(t) PROVE CacheInv'
  <2> DEFINE b == task[t].bh
  <2>1. /\ task[t].pc = "claim" /\ UNCHANGED failed
        /\ Repeat(t, b) \/ ClaimDirty(t, b) \/ Claim(t, b)
    BY <1>10 DEF ClaimUnlocked
  <2>2. b \in Buffers
    BY <1>2, <2>1 DEF GoodLocals
  <2>3. CASE Repeat(t, b)
    <3>1. task' = [task EXCEPT ![t].pc = "getblk", ![t].bh = 0, ![t].i = task[t].i]
      BY <1>3, <2>3 DEF Locals, Repeat
    <3>2. InGetblk(task[t]) /\ task[t].op # "sync"
      BY <1>2, <2>1 DEF InGetblk, GoodLocals
    <3> QED BY <1>1, <1>2, <2>1, <2>3, <3>1, <3>2, GetblkMove DEF Repeat
  <2> QED BY <1>7, <2>1, <2>2, <2>3, ClaimStep
<1>11. ASSUME NEW t \in Tasks, ReadDone(t) \/ Use(t) \/ Modify(t) PROVE CacheInv'
  <2> DEFINE b == task[t].bh
  <2>1. task[t].pc \in Holding /\ task[t].first = 0 /\ b \in Buffers
    <3>1. task[t].pc \in {"read", "have"}
      BY <1>11 DEF ReadDone, Use, Modify
    <3> QED BY <1>2, <3>1 DEF GoodLocals, Holding, InGetblk
  <2>2. /\ task' = Goto(t, "have") \/ task' = Goto(t, "brelse")
        /\ disk' \subseteq Blocks /\ UNCHANGED failed
    BY <1>1, <1>11 DEF ReadDone, Use, Modify
  <2>3. /\ buf' \in [Buffers -> Heads]
        /\ \A c \in Buffers : /\ buf'[c].blk = buf[c].blk /\ buf'[c].count = buf[c].count
                              /\ buf'[c].io = buf[c].io
    <3>1. CASE ReadDone(t) \/ Use(t)
      <4>1. buf' = buf \/ buf' = MarkDirty(buf, b)
        BY <3>1 DEF ReadDone, Use, MarkDirty
      <4> QED BY <1>1, <2>1, <4>1, MarkKeeps
    <3>2. CASE Modify(t)
      <4> DEFINE W == Write(buf, b)
                 h == [W[b] EXCEPT !.dirt = W[b].dirt \/ task[t].op # "file_write"]
      <4>1. /\ W \in [Buffers -> Heads]
            /\ \A c \in Buffers : W[c].blk = buf[c].blk /\ W[c].count = buf[c].count
                                  /\ W[c].io = buf[c].io
        BY <1>1, <2>1, WriteKeeps
      <4>2. buf' = [W EXCEPT ![b] = h]
        <5>1. buf' = [Write(buf, b) EXCEPT ![b].dirt = @ \/ task[t].op # "file_write"]
          BY <3>2 DEF Modify
        <5> HIDE DEF W
        <5> QED BY <5>1 DEF W
      <4> HIDE DEF W
      <4>3. /\ h \in Heads /\ h.blk = W[b].blk /\ h.count = W[b].count /\ h.io = W[b].io
        <5>1. W[b] \in Heads
          BY <2>1, <4>1
        <5> QED BY <5>1 DEF Heads
      <4> HIDE DEF h
      <4> QED BY <2>1, <4>1, <4>2, <4>3
    <3> QED BY <1>11, <3>1, <3>2
  <2> QED BY <2>1, <2>2, <2>3, HolderMove DEF Goto
<1>12. CASE UNCHANGED vars
  <2>1. \A b \in Buffers : Holders(b)' = Holders(b)
    BY <1>12 DEF vars, Holders
  <2>2. CountsAreExact'
    BY <1>12, <2>1 DEF vars, CacheInv, CountsAreExact
  <2> QED BY <1>12, <2>2
      DEF vars, CacheInv, TypeOK, LocalsInv, InGetblk, TransferInv, OneBufferPerBlock
<1> QED
  BY <1>4, <1>5, <1>6, <1>8, <1>9, <1>10, <1>11, <1>12,
     StartStep, BrelseStep, SyncStep, EndIOStep
  DEF Next, Step, Disk

\* The invariant of the proof holds in every reachable state.
LEMMA CacheCorrect == Spec => []CacheInv
BY CacheInit, CacheStep, PTL DEF Spec

(***************************************************************************)
(* However many tasks race in getblk(), a block never gets two buffers     *)
(* (buffer.c:264-271).                                                     *)
(***************************************************************************)
THEOREM NoTwoBuffers == Spec => []OneBufferPerBlock
<1>1. CacheInv => OneBufferPerBlock
  BY DEF CacheInv
<1> QED BY <1>1, CacheCorrect, PTL

(***************************************************************************)
(* b_count is exact, and a buffer that is held keeps its block: it is not  *)
(* taken for another one while a task sleeps with it (buffer.c:200-213,    *)
(* 272-293).                                                               *)
(***************************************************************************)
THEOREM CountsExact == Spec => []CountsAreExact
<1>1. CacheInv => CountsAreExact
  BY DEF CacheInv
<1> QED BY <1>1, CacheCorrect, PTL
-----------------------------------------------------------------------------
(* No write is lost.                                                       *)

(***************************************************************************)
(* The operations that use the flags as the others expect.  file_write()   *)
(* sets b_dirt before it copies, and block_write() leaves b_uptodate       *)
(* alone.                                                                  *)
(***************************************************************************)
OrderedOps == AllOps \ {"file_write", "block_write"}

(***************************************************************************)
(* The buffer of a block of which no write failed, with D the blocks that  *)
(* are up to date on the disk: it is not dirty without being up to date,   *)
(* nor up to date while it is read, and what the disk lacks is in a buffer *)
(* that is dirty or being written.                                         *)
(***************************************************************************)
GoodHead(h, D) ==
  /\ h.dirt => h.uptodate
  /\ h.uptodate => h.newest
  /\ h.io = "read" => ~h.uptodate
  /\ h.io = "write" => h.uptodate /\ (h.snap \/ h.dirt)
  /\ h.io # "write" /\ ~h.dirt => h.blk \in D

GoodBufs(B, D, F) ==
  /\ \A b \in Buffers : B[b].lock <=> B[b].io # "none"
  /\ \A b \in Buffers : B[b].blk \in Blocks \ F => GoodHead(B[b], D)
  /\ \A k \in Blocks \ F : (\A b \in Buffers : B[b].blk # k) => k \in D

\* What bread() returned stays up to date, unless a write of it fails.
HaveInv ==
  \A t \in Tasks : task[t].pc = "have" /\ buf[task[t].bh].blk \notin failed
                   => buf[task[t].bh].uptodate

ContentsInv ==
  /\ \A t \in Tasks : task[t].op \in OrderedOps
  /\ GoodBufs(buf, disk, failed)
  /\ HaveInv

\* One buffer per block, as a predicate of the buffers
OneEach(B) ==
  \A b, c \in Buffers : B[b].blk = B[c].blk /\ B[b].blk # NULL => b = c

\* A change of one buffer, of whether the disk has its block, and of whether
\* a write of it failed, is judged by that buffer alone.
LEMMA OneHeadGood ==
  ASSUME NEW B \in [Buffers -> Heads], NEW C \in [Buffers -> Heads], NEW b \in Buffers,
         NEW D, NEW E, NEW F, NEW G,
         GoodBufs(B, D, F), OneEach(B),
         \A c \in Buffers \ {b} : /\ C[c].blk = B[c].blk /\ C[c].io = B[c].io
                                  /\ C[c].lock = B[c].lock
                                  /\ B[c].blk \in Blocks => C[c] = B[c],
         C[b].blk = B[b].blk, C[b].lock <=> C[b].io # "none",
         D \ {B[b].blk} = E \ {B[b].blk}, F \ {B[b].blk} = G \ {B[b].blk},
         C[b].blk \in Blocks \ G => GoodHead(C[b], E)
  PROVE  GoodBufs(C, E, G)
<1>1. \A c \in Buffers : C[c].lock <=> C[c].io # "none"
  BY DEF GoodBufs
<1>2. ASSUME NEW c \in Buffers, C[c].blk \in Blocks \ G
      PROVE  GoodHead(C[c], E)
  <2>1. CASE c = b
    BY <1>2, <2>1
  <2>2. CASE c # b
    <3>1. C[c] = B[c] /\ B[c].blk # B[b].blk
      BY <1>2, <2>2, NULLAssumption DEF OneEach
    <3>2. B[c].blk \in Blocks \ F /\ (B[c].blk \in D <=> B[c].blk \in E)
      BY <1>2, <3>1
    <3> QED BY <3>1, <3>2 DEF GoodBufs, GoodHead
  <2> QED BY <2>1, <2>2
<1>3. ASSUME NEW k \in Blocks \ G, \A c \in Buffers : C[c].blk # k
      PROVE  k \in E
  <2>1. \A c \in Buffers : B[c].blk # k
    BY <1>3
  <2>2. k \in Blocks \ F /\ (k \in D <=> k \in E)
    BY <2>1
  <2> QED BY <2>1, <2>2 DEF GoodBufs
<1> QED BY <1>1, <1>2, <1>3 DEF GoodBufs

\* Counts play no part.
LEMMA CountsGood ==
  ASSUME NEW B \in [Buffers -> Heads], NEW C \in [Buffers -> Heads], NEW D, NEW F,
         GoodBufs(B, D, F),
         \A c \in Buffers : /\ C[c].blk = B[c].blk /\ C[c].io = B[c].io
                            /\ C[c].lock = B[c].lock /\ C[c].dirt = B[c].dirt
                            /\ C[c].uptodate = B[c].uptodate
                            /\ C[c].newest = B[c].newest /\ C[c].snap = B[c].snap
  PROVE  GoodBufs(C, D, F)
  BY DEF GoodBufs, GoodHead

\* The start of a transfer: a read of a buffer that is not up to date, or a
\* write of one that is dirty.
LEMMA StartIOGood ==
  ASSUME NEW B \in [Buffers -> Heads], NEW b \in Buffers, NEW D, NEW F,
         NEW cmd \in {"read", "write"},
         GoodBufs(B, D, F), OneEach(B),
         cmd = "read" => ~B[b].uptodate, cmd = "write" => B[b].dirt
  PROVE  GoodBufs(StartIO(B, b, cmd), D, F)
<1> DEFINE C == StartIO(B, b, cmd)
<1>1. /\ C = [B EXCEPT ![b] = StartedHead(B[b], cmd)]
      /\ StartedHead(B[b], cmd) \in Heads
  BY StartIOHead
<1>2. B[b] \in Heads
  OBVIOUS
<1>3. C \in [Buffers -> Heads] /\ C[b] = StartedHead(B[b], cmd)
      /\ \A c \in Buffers \ {b} : C[c] = B[c]
  <2> HIDE DEF C
  <2> QED BY <1>1
<1>4. /\ C[b].blk = B[b].blk /\ C[b].lock = TRUE /\ C[b].io = cmd /\ C[b].dirt = FALSE
      /\ C[b].uptodate = B[b].uptodate /\ C[b].newest = B[b].newest
      /\ C[b].snap = B[b].newest
  <2> HIDE DEF C
  <2> QED BY <1>2, <1>3 DEF StartedHead, Heads
<1> HIDE DEF C
<1>5. C[b].blk \in Blocks \ F => GoodHead(C[b], D)
  BY <1>2, <1>4 DEF GoodBufs, GoodHead, Heads
<1> QED BY <1>3, <1>4, <1>5, OneHeadGood DEF C

LEMMA ReadBlockGood ==
  ASSUME NEW B \in [Buffers -> Heads], NEW b \in Buffers, NEW D, NEW F,
         GoodBufs(B, D, F), OneEach(B)
  PROVE  GoodBufs(ReadBlock(B, b), D, F) /\ OneEach(ReadBlock(B, b))
<1>1. GoodBufs(ReadBlock(B, b), D, F)
  BY StartIOGood DEF ReadBlock
<1>2. \A c \in Buffers : ReadBlock(B, b)[c].blk = B[c].blk
  BY ReadBlockKeeps
<1> QED BY <1>1, <1>2 DEF OneEach
\* A task stores into a buffer and marks it dirty, with the block up to date
\* in it unless a write of it has failed.
LEMMA WriteGood ==
  ASSUME NEW B \in [Buffers -> Heads], NEW C \in [Buffers -> Heads], NEW b \in Buffers,
         NEW D, NEW F, GoodBufs(B, D, F), OneEach(B),
         \A c \in Buffers \ {b} : C[c] = Write(B, b)[c],
         C[b].blk = B[b].blk, C[b].io = B[b].io, C[b].lock = B[b].lock,
         C[b].dirt = TRUE, C[b].newest = TRUE,
         B[b].blk \notin F => C[b].uptodate = TRUE /\ (B[b].io = "none" \/ B[b].uptodate)
  PROVE  GoodBufs(C, D \ {B[b].blk}, F)
<1>1. ASSUME NEW c \in Buffers \ {b}
      PROVE  /\ C[c].blk = B[c].blk /\ C[c].io = B[c].io /\ C[c].lock = B[c].lock
             /\ B[c].blk \in Blocks => C[c] = B[c]
  <2>1. C[c] = IF B[c].blk # B[b].blk THEN B[c]
               ELSE [B[c] EXCEPT !.newest = (c = b), !.snap = FALSE]
    BY DEF Write
  <2>2. B[c] \in Heads
    OBVIOUS
  <2>3. B[c].blk \in Blocks => B[c].blk # B[b].blk
    BY NULLAssumption DEF OneEach
  <2> QED BY <2>1, <2>2, <2>3 DEF Heads
<1>2. C[b].blk \in Blocks \ F => GoodHead(C[b], D \ {B[b].blk})
  <2>1. B[b].blk \in Blocks \ F => GoodHead(B[b], D)
    BY DEF GoodBufs
  <2> QED BY <2>1 DEF GoodHead
<1>3. C[b].lock <=> C[b].io # "none"
  BY DEF GoodBufs
<1> DEFINE E == D \ {B[b].blk}
<1>4. D \ {B[b].blk} = E \ {B[b].blk}
  OBVIOUS
<1>5. GoodBufs(C, E, F)
  <2> HIDE DEF E
  <2>1. C[b].blk \in Blocks \ F => GoodHead(C[b], E)
    BY <1>2 DEF E
  <2> QED BY <1>1, <1>3, <1>4, <2>1, OneHeadGood
<1> QED BY <1>5

\* getblk() takes an unused clean buffer for a block that has none: the disk
\* has the block it had, and the block it gets.
ClaimedHead(h, k) ==
  [h EXCEPT !.count = 1, !.uptodate = FALSE, !.blk = k, !.newest = FALSE]

Claimed(B, b, k) == [B EXCEPT ![b] = ClaimedHead(B[b], k)]

LEMMA ClaimGood ==
  ASSUME NEW B \in [Buffers -> Heads], NEW b \in Buffers, NEW k \in Blocks,
         NEW D, NEW F, GoodBufs(B, D, F), OneEach(B),
         ~B[b].lock, ~B[b].dirt, \A c \in Buffers : B[c].blk # k
  PROVE  LET C == Claimed(B, b, k)
         IN  /\ C \in [Buffers -> Heads] /\ GoodBufs(C, D, F) /\ OneEach(C)
             /\ C[b].blk = k /\ ~C[b].lock /\ C[b].io = "none" /\ C[b].count = 1
             /\ \A c \in Buffers \ {b} : C[c] = B[c]
<1> DEFINE h == ClaimedHead(B[b], k)
           C == [B EXCEPT ![b] = h]
<1>1. B[b] \in Heads /\ B[b].io = "none"
  BY DEF GoodBufs
<1>2. /\ h \in Heads /\ h.blk = k /\ h.count = 1 /\ h.lock = B[b].lock /\ h.dirt = B[b].dirt
      /\ h.io = B[b].io /\ h.uptodate = FALSE
  BY <1>1 DEF ClaimedHead, Heads
<1> HIDE DEF h
<1>3. C \in [Buffers -> Heads] /\ C[b] = h /\ \A c \in Buffers \ {b} : C[c] = B[c]
  BY <1>2
<1> HIDE DEF C
<1>4. OneEach(C)
  BY <1>2, <1>3 DEF OneEach
<1>5. \A c \in Buffers : C[c].lock <=> C[c].io # "none"
  BY <1>1, <1>2, <1>3 DEF GoodBufs
<1>6. ASSUME NEW c \in Buffers, C[c].blk \in Blocks \ F
      PROVE  GoodHead(C[c], D)
  <2>1. CASE c = b
    <3>1. k \in D
      BY <1>2, <1>3, <1>6, <2>1 DEF GoodBufs
    <3> QED BY <1>1, <1>2, <1>3, <2>1, <3>1 DEF GoodHead
  <2>2. CASE c # b
    BY <1>3, <1>6, <2>2 DEF GoodBufs
  <2> QED BY <2>1, <2>2
<1>7. ASSUME NEW j \in Blocks \ F, \A c \in Buffers : C[c].blk # j
      PROVE  j \in D
  <2>1. CASE B[b].blk = j
    BY <1>1, <2>1 DEF GoodBufs, GoodHead
  <2>2. CASE B[b].blk # j
    <3>1. \A c \in Buffers : B[c].blk # j
      BY <1>3, <1>7, <2>2
    <3> QED BY <3>1 DEF GoodBufs
  <2> QED BY <2>1, <2>2
<1>8. GoodBufs(C, D, F)
  BY <1>5, <1>6, <1>7 DEF GoodBufs
<1>9. Claimed(B, b, k) = C
  BY DEF Claimed, C, h
<1> QED BY <1>1, <1>2, <1>3, <1>4, <1>8, <1>9

\* The count of a buffer somebody holds
LEMMA HeldCount ==
  ASSUME CacheInv, NEW t \in Tasks, task[t].pc \in Holding
  PROVE  task[t].bh \in Buffers /\ buf[task[t].bh].count > 0
<1>1. task[t].bh \in Buffers
  BY DEF CacheInv, LocalsInv
<1>2. Refs(task[t], task[t].bh) >= 1
  BY DEF Refs
<1>3. /\ Holders(task[t].bh) \in Nat /\ Refs(task[t], task[t].bh) \in Nat
      /\ Refs(task[t], task[t].bh) <= Holders(task[t].bh)
  BY <1>1, HoldersAtLeast
<1> QED BY <1>1, <1>2, <1>3 DEF CacheInv, CountsAreExact

\* A step of one task keeps what the others have.
LEMMA ContentsTaskStep ==
  ASSUME CacheInv, ContentsInv, NEW t \in Tasks, OthersKeep(t),
         task'[t].op \in OrderedOps,
         GoodBufs(buf', disk', failed), UNCHANGED failed,
         \A c \in Buffers : buf[c].count > 0 =>
                              /\ buf'[c].blk = buf[c].blk
                              /\ buf[c].uptodate => buf'[c].uptodate,
         task'[t].pc = "have" /\ buf'[task'[t].bh].blk \notin failed
           => buf'[task'[t].bh].uptodate
  PROVE  ContentsInv'
<1>1. \A u \in Tasks \ {t} :
        /\ task'[u].op = task[u].op /\ task'[u].bh = task[u].bh
        /\ task'[u].pc = "have" => task[u].pc = "have"
  BY ZenonT(30) DEF OthersKeep, CacheInv, TypeOK
<1>2. \A u \in Tasks : task'[u].op \in OrderedOps
  BY <1>1 DEF ContentsInv
<1>3. ASSUME NEW u \in Tasks, task'[u].pc = "have", buf'[task'[u].bh].blk \notin failed
      PROVE  buf'[task'[u].bh].uptodate
  <2>1. CASE u = t
    BY <1>3, <2>1
  <2>2. CASE u # t
    <3>1. task[u].pc = "have" /\ task[u].bh \in Buffers /\ buf[task[u].bh].count > 0
      BY <1>1, <1>3, <2>2, HeldCount DEF Holding
    <3> QED BY <1>1, <1>3, <2>2, <3>1 DEF ContentsInv, HaveInv
  <2> QED BY <2>1, <2>2
<1> QED BY <1>2, <1>3 DEF ContentsInv, HaveInv

\* getblk() returns an unlocked buffer of its block.
LEMMA GotGood ==
  ASSUME CacheInv, ContentsInv, NEW t \in Tasks, NEW b \in Buffers,
         task[t].pc \in {"getblk", "hash", "claim"},
         NEW B \in [Buffers -> Heads], B[b].count > 0, Got(t, b, B),
         B[b].blk = task[t].blk, ~B[b].lock,
         GoodBufs(B, disk, failed), OneEach(B)
  PROVE  /\ GoodBufs(buf', disk', failed)
         /\ task'[t].op \in OrderedOps /\ OthersKeep(t)
         /\ \A c \in Buffers : /\ buf'[c].blk = B[c].blk
                               /\ B[c].uptodate => buf'[c].uptodate
         /\ task'[t].pc = "have" => buf'[task'[t].bh].uptodate
<1> DEFINE op == task[t].op
           next == task[t].next
           first == task[t].first
           k == task[t].blk
<1>1. /\ task \in [Tasks -> Locals] /\ task[t] \in Locals /\ GoodLocals(task[t])
      /\ op \in OrderedOps /\ op # "sync" /\ InGetblk(task[t])
  BY DEF CacheInv, TypeOK, LocalsInv, Locals, GoodLocals, InGetblk, ContentsInv
<1>2. CASE op = "bread"
  <2>1. /\ buf' = ReadBlock(B, b)
        /\ task' = [task EXCEPT ![t].bh = b,
                                ![t].pc = IF B[b].uptodate THEN "have" ELSE "read"]
        /\ disk' = disk
    BY <1>2 DEF Got
  <2>2. /\ task'[t].op = op /\ task'[t].bh = b
        /\ task'[t].pc = IF B[b].uptodate THEN "have" ELSE "read"
        /\ OthersKeep(t)
    BY <1>1, <2>1 DEF OthersKeep, Locals
  <2>3. \A c \in Buffers : /\ buf'[c].blk = B[c].blk
                           /\ buf'[c].uptodate = B[c].uptodate
    BY <2>1, ReadBlockKeeps
  <2>4. GoodBufs(ReadBlock(B, b), disk, failed)
    BY ReadBlockGood
  <2> QED BY <1>1, <2>1, <2>2, <2>3, <2>4
<1>3. CASE op = "breada" /\ next # NULL
  <2>1. /\ buf' = ReadBlock(B, b)
        /\ task' = [task EXCEPT ![t].first = b, ![t].bh = 0, ![t].blk = next,
                                ![t].next = NULL, ![t].pc = "getblk"]
        /\ disk' = disk
    BY <1>3 DEF Got
  <2>2. task'[t].op = op /\ task'[t].pc = "getblk" /\ OthersKeep(t)
    BY <1>1, <2>1 DEF OthersKeep, Locals
  <2>3. \A c \in Buffers : /\ buf'[c].blk = B[c].blk
                           /\ buf'[c].uptodate = B[c].uptodate
    BY <2>1, ReadBlockKeeps
  <2>4. GoodBufs(ReadBlock(B, b), disk, failed)
    BY ReadBlockGood
  <2> QED BY <1>1, <2>1, <2>2, <2>3, <2>4
<1>4. CASE op = "breada" /\ next = NULL
  <2> DEFINE C == IF B[b].uptodate THEN B ELSE ReadBlock(B, first)
  <2>1. /\ buf' = DropRef(C, b)
        /\ task' = [task EXCEPT ![t].bh = first, ![t].first = 0, ![t].pc = "read"]
        /\ disk' = disk
    BY <1>4 DEF Got
  <2>2. first \in Buffers
    BY <1>1, <1>4 DEF GoodLocals, Locals
  <2>3. /\ C \in [Buffers -> Heads] /\ GoodBufs(C, disk, failed)
        /\ \A c \in Buffers : /\ C[c].blk = B[c].blk /\ C[c].uptodate = B[c].uptodate
                              /\ C[c].count = B[c].count
    BY <2>2, ReadBlockKeeps, ReadBlockGood
  <2>4. task'[t].op = op /\ task'[t].pc = "read" /\ OthersKeep(t)
    BY <1>1, <2>1 DEF OthersKeep, Locals
  <2> HIDE DEF C
  <2>5. /\ DropRef(C, b) \in [Buffers -> Heads]
        /\ \A c \in Buffers :
             LET d == DropRef(C, b)[c]
             IN  /\ d.blk = C[c].blk /\ d.io = C[c].io
                 /\ d.lock = C[c].lock /\ d.dirt = C[c].dirt
                 /\ d.uptodate = C[c].uptodate
                 /\ d.newest = C[c].newest /\ d.snap = C[c].snap
    <3>1. C[b].count > 0
      BY <2>3
    <3> QED BY <2>3, <3>1, DropRefKeeps DEF DropRef, Heads
  <2>6. GoodBufs(DropRef(C, b), disk, failed)
    BY <2>3, <2>5, CountsGood
  <2> QED BY <1>1, <2>1, <2>3, <2>4, <2>5, <2>6
<1>5. CASE op = "new_block"
  <2> DEFINE W == Write(B, b)
             C == MarkNew(W, b)
  <2>1. /\ buf' = C
        /\ task' = [task EXCEPT ![t].bh = b, ![t].pc = "brelse"]
        /\ disk' = disk \ {k}
    BY <1>5 DEF Got, MarkNew
  <2>2. task'[t].op = op /\ task'[t].pc = "brelse" /\ OthersKeep(t)
    BY <1>1, <2>1 DEF OthersKeep, Locals
  <2>3. /\ W \in [Buffers -> Heads] /\ W[b].newest = TRUE
        /\ W[b].lock = B[b].lock /\ W[b].io = B[b].io /\ W[b].blk = B[b].blk
        /\ \A c \in Buffers : W[c].blk = B[c].blk /\ W[c].uptodate = B[c].uptodate
    <3>1. B[b] \in Heads
      OBVIOUS
    <3>2. W[b] = [B[b] EXCEPT !.newest = TRUE, !.snap = FALSE]
      BY DEF Write
    <3> QED BY <3>1, <3>2, WriteKeeps DEF Heads
  <2> HIDE DEF W
  <2>4. /\ C \in [Buffers -> Heads] /\ \A c \in Buffers \ {b} : C[c] = W[c]
        /\ C[b].blk = W[b].blk /\ C[b].io = W[b].io /\ C[b].lock = W[b].lock
        /\ C[b].dirt = TRUE /\ C[b].newest = W[b].newest /\ C[b].uptodate = TRUE
    <3>1. W[b] \in Heads
      BY <2>3
    <3>2. /\ C[b] = [W[b] EXCEPT !.uptodate = TRUE, !.dirt = TRUE]
          /\ \A c \in Buffers \ {b} : C[c] = W[c]
      BY <2>3 DEF MarkNew
    <3>3. C \in [Buffers -> Heads]
      BY <2>3, MarkKeeps
    <3> HIDE DEF C
    <3> QED BY <3>1, <3>2, <3>3 DEF Heads
  <2> HIDE DEF C
  <2>5. B[b].io = "none"
    BY DEF GoodBufs
  <2>6. \A c \in Buffers \ {b} : C[c] = Write(B, b)[c]
    BY <2>4 DEF W
  <2>7. GoodBufs(C, disk \ {B[b].blk}, failed)
    BY <2>3, <2>4, <2>5, <2>6, WriteGood
  <2> QED BY <1>1, <2>1, <2>2, <2>3, <2>4, <2>7
<1> QED BY <1>1, <1>2, <1>3, <1>4, <1>5 DEF OrderedOps, AllOps
\* A task moves, and the buffers stay as they are.
LEMMA ContentsMove ==
  ASSUME CacheInv, ContentsInv, NEW t \in Tasks, OthersKeep(t),
         task'[t].op \in OrderedOps, UNCHANGED <<buf, disk, failed>>,
         task'[t].pc # "have"
  PROVE  ContentsInv'
<1>1. GoodBufs(buf', disk', failed)
  BY DEF ContentsInv
<1> QED BY <1>1, ContentsTaskStep

\* end_request(): a read gets what the disk has, a write leaves there what
\* the buffer had when it was started, or later.
LEMMA EndIOGood ==
  ASSUME CacheInv, ContentsInv, NEW b \in Buffers,
         NEW ok \in BOOLEAN, NEW early \in BOOLEAN, EndIO(b, ok, early)
  PROVE  ContentsInv'
<1> DEFINE k == buf[b].blk
           read == buf[b].io = "read"
           written == IF early THEN buf[b].snap ELSE buf[b].newest
           n == IF read /\ ok THEN k \in disk ELSE buf[b].newest
           h == [buf[b] EXCEPT !.lock = FALSE, !.io = "none", !.uptodate = ok,
                               !.newest = n, !.snap = FALSE]
<1>1. /\ buf \in [Buffers -> Heads] /\ buf[b] \in Heads /\ task' = task
      /\ OneEach(buf) /\ GoodBufs(buf, disk, failed) /\ HaveInv
  BY DEF CacheInv, TypeOK, EndIO, OneBufferPerBlock, OneEach, ContentsInv
<1>2. /\ buf' = [buf EXCEPT ![b] = h]
      /\ buf[b].io # "none"
      /\ disk' = IF ok /\ ~read /\ written THEN disk \cup {k}
                 ELSE IF ok /\ ~read THEN disk \ {k} ELSE disk
      /\ failed' = IF ok \/ read THEN failed ELSE failed \cup {k}
  BY <1>1 DEF EndIO
<1>3. buf' \in [Buffers -> Heads]
  BY EndIOStep DEF CacheInv, TypeOK
<1>4. /\ buf'[b] = h /\ \A c \in Buffers \ {b} : buf'[c] = buf[c]
  <2> HIDE DEF h
  <2> QED BY <1>1, <1>2
<1>5. /\ h.blk = k /\ h.lock = FALSE /\ h.io = "none" /\ h.uptodate = ok
      /\ h.dirt = buf[b].dirt /\ h.newest = n
  BY <1>1 DEF Heads
<1>6. k \in Blocks \ failed' => GoodHead(h, disk')
  <2> SUFFICES ASSUME k \in Blocks \ failed' PROVE GoodHead(h, disk')
    OBVIOUS
  <2>1. GoodHead(buf[b], disk) /\ (ok \/ read)
    BY <1>1, <1>2 DEF GoodBufs
  <2>2. /\ buf[b].dirt => buf[b].uptodate
        /\ buf[b].uptodate => buf[b].newest
        /\ read => ~buf[b].uptodate /\ ~buf[b].dirt /\ k \in disk
        /\ ~read => buf[b].uptodate /\ buf[b].newest /\ (buf[b].snap \/ buf[b].dirt)
    BY <1>1, <1>2, <2>1 DEF GoodHead, Heads
  <2>3. CASE read
    <3>1. disk' = disk /\ (ok => n)
      BY <1>2, <2>2, <2>3
    <3> HIDE DEF h, n
    <3> QED BY <1>5, <2>2, <2>3, <3>1 DEF GoodHead
  <2>4. CASE ~read
    <3>1. ok /\ n = buf[b].newest
      BY <2>1, <2>4
    <3>2. ~buf[b].dirt => k \in disk'
      <4>1. ~buf[b].dirt => written
        BY <2>2, <2>4
      <4> HIDE DEF written
      <4> QED BY <1>2, <2>4, <3>1, <4>1
    <3> HIDE DEF h, n
    <3> QED BY <1>5, <2>2, <2>4, <3>1, <3>2 DEF GoodHead
  <2> QED BY <2>3, <2>4
<1>7. /\ disk \ {k} = disk' \ {k} /\ failed \ {k} = failed' \ {k}
      /\ failed \subseteq failed'
  BY <1>2
<1>8. GoodBufs(buf', disk', failed')
  <2> DEFINE C == buf'
             E == disk'
             G == failed'
  <2>1. /\ C \in [Buffers -> Heads] /\ C[b].blk = buf[b].blk
        /\ C[b].lock <=> C[b].io # "none"
        /\ \A c \in Buffers \ {b} : C[c] = buf[c]
        /\ C[b].blk \in Blocks \ G => GoodHead(C[b], E)
        /\ disk \ {buf[b].blk} = E \ {buf[b].blk}
        /\ failed \ {buf[b].blk} = G \ {buf[b].blk}
    <3> HIDE DEF h
    <3> QED BY <1>3, <1>4, <1>5, <1>6, <1>7
  <2> HIDE DEF C, E, G
  <2>2. GoodBufs(C, E, G)
    BY <1>1, <2>1, OneHeadGood
  <2> QED BY <2>2 DEF C, E, G
<1>9. ASSUME NEW u \in Tasks, task[u].pc = "have", buf'[task[u].bh].blk \notin failed'
      PROVE  buf'[task[u].bh].uptodate
  <2>1. task[u].bh \in Buffers
    BY <1>9 DEF CacheInv, LocalsInv, Holding
  <2>2. CASE task[u].bh # b
    BY <1>1, <1>4, <1>7, <1>9, <2>1, <2>2 DEF HaveInv
  <2>3. CASE task[u].bh = b
    <3>1. k \notin failed' /\ k \notin failed
      BY <1>4, <1>5, <1>7, <1>9, <2>3
    <3>2. buf[b].uptodate
      BY <1>1, <1>9, <2>3, <3>1 DEF HaveInv
    <3>3. k \in Blocks
      BY <1>1, <1>2 DEF CacheInv, TransferInv, Heads
    <3>4. ~read
      BY <1>1, <3>1, <3>2, <3>3 DEF GoodBufs, GoodHead
    <3>5. ok
      BY <1>2, <3>1, <3>4
    <3> QED BY <1>4, <1>5, <2>3, <3>5
  <2> QED BY <2>2, <2>3
<1> QED BY <1>1, <1>8, <1>9 DEF ContentsInv, HaveInv

\* Every step keeps the contents, if the tasks only use the operations that
\* keep to the protocol of the flags.
LEMMA ContentsStep ==
  Ops \subseteq OrderedOps /\ CacheInv /\ ContentsInv /\ [Next]_vars => ContentsInv'
<1> SUFFICES ASSUME Ops \subseteq OrderedOps, CacheInv, ContentsInv, [Next]_vars
             PROVE  ContentsInv'
  OBVIOUS
<1>1. /\ buf \in [Buffers -> Heads] /\ task \in [Tasks -> Locals]
      /\ \A b \in Buffers : buf[b].count \in Nat /\ buf[b] \in Heads
      /\ \A t \in Tasks : task[t] \in Locals /\ GoodLocals(task[t])
      /\ \A t \in Tasks : task[t].op \in OrderedOps
      /\ OneEach(buf) /\ GoodBufs(buf, disk, failed) /\ HaveInv
  BY DEF CacheInv, TypeOK, Heads, Locals, LocalsInv, GoodLocals, ContentsInv,
         OneBufferPerBlock, OneEach
<1>2. ASSUME NEW t \in Tasks, GetHashTable(t) PROVE ContentsInv'
  <2>1. PICK b \in Buffers : /\ buf[b].blk = task[t].blk /\ ~buf[b].lock
                             /\ Got(t, b, AddRef(buf, b))
    BY <1>2 DEF GetHashTable, Find
  <2> DEFINE B == AddRef(buf, b)
  <2>2. /\ B \in [Buffers -> Heads] /\ B[b].count > 0
        /\ \A c \in Buffers : /\ B[c].blk = buf[c].blk /\ B[c].io = buf[c].io
                              /\ B[c].lock = buf[c].lock /\ B[c].dirt = buf[c].dirt
                              /\ B[c].uptodate = buf[c].uptodate
                              /\ B[c].newest = buf[c].newest /\ B[c].snap = buf[c].snap
    BY <1>1, AddRefKeeps DEF AddRef, Heads
  <2>3. Got(t, b, B) /\ task[t].pc = "getblk" /\ UNCHANGED failed
    BY <1>2, <2>1 DEF GetHashTable
  <2> HIDE DEF B
  <2>4. GoodBufs(B, disk, failed) /\ OneEach(B)
    BY <1>1, <2>2, CountsGood DEF OneEach
  <2>5. /\ GoodBufs(buf', disk', failed)
        /\ task'[t].op \in OrderedOps /\ OthersKeep(t)
        /\ \A c \in Buffers : /\ buf'[c].blk = B[c].blk
                              /\ B[c].uptodate => buf'[c].uptodate
        /\ task'[t].pc = "have" => buf'[task'[t].bh].uptodate
    BY <2>1, <2>2, <2>3, <2>4, GotGood
  <2> QED BY <2>2, <2>3, <2>5, ContentsTaskStep
<1>3. ASSUME NEW t \in Tasks, GetHashLocked(t) PROVE ContentsInv'
  <2>1. PICK b \in Buffers : /\ buf' = AddRef(buf, b)
                             /\ task' = [task EXCEPT ![t].pc = "hash", ![t].bh = b]
    BY <1>3 DEF GetHashLocked, Find
  <2>2. /\ buf' \in [Buffers -> Heads]
        /\ \A c \in Buffers : /\ buf'[c].blk = buf[c].blk /\ buf'[c].io = buf[c].io
                              /\ buf'[c].lock = buf[c].lock /\ buf'[c].dirt = buf[c].dirt
                              /\ buf'[c].uptodate = buf[c].uptodate
                              /\ buf'[c].newest = buf[c].newest /\ buf'[c].snap = buf[c].snap
    BY <1>1, <2>1, AddRefKeeps DEF AddRef, Heads
  <2>3. GoodBufs(buf', disk, failed)
    BY <1>1, <2>2, CountsGood
  <2>4. task'[t].op = task[t].op /\ task'[t].pc = "hash" /\ OthersKeep(t)
    BY <1>1, <2>1 DEF Locals, OthersKeep
  <2> QED BY <1>1, <1>3, <2>2, <2>3, <2>4, ContentsTaskStep DEF GetHashLocked
<1>4. ASSUME NEW t \in Tasks, HashUnlocked(t) PROVE ContentsInv'
  <2> DEFINE b == task[t].bh
  <2>1. /\ task[t].pc = "hash" /\ ~buf[b].lock /\ buf[b].blk = task[t].blk
        /\ Got(t, b, buf) /\ UNCHANGED failed
    BY <1>4 DEF HashUnlocked
  <2>2. b \in Buffers /\ buf[b].count > 0
    BY <2>1, HeldCount DEF Holding
  <2>3. /\ GoodBufs(buf', disk', failed)
        /\ task'[t].op \in OrderedOps /\ OthersKeep(t)
        /\ \A c \in Buffers : /\ buf'[c].blk = buf[c].blk
                              /\ buf[c].uptodate => buf'[c].uptodate
        /\ task'[t].pc = "have" => buf'[task'[t].bh].uptodate
    BY <1>1, <2>1, <2>2, GotGood
  <2> QED BY <2>1, <2>3, ContentsTaskStep
<1>5. ASSUME NEW t \in Tasks, NEW b \in Buffers, Claim(t, b),
             task[t].pc \in {"getblk", "claim"}, UNCHANGED failed
      PROVE  ContentsInv'
  <2> DEFINE k == task[t].blk
             C == Claimed(buf, b, k)
  <2>1. /\ ~buf[b].lock /\ ~buf[b].dirt /\ buf[b].count = 0 /\ Got(t, b, C)
        /\ \A c \in Buffers : buf[c].blk # k
    BY <1>1, <1>5 DEF Claim, Claimed, ClaimedHead, Find
  <2>2. k \in Blocks
    BY <1>1, <1>5 DEF GoodLocals, InGetblk
  <2>3. /\ C \in [Buffers -> Heads] /\ GoodBufs(C, disk, failed) /\ OneEach(C)
        /\ C[b].blk = k /\ ~C[b].lock /\ C[b].io = "none" /\ C[b].count = 1
        /\ \A c \in Buffers \ {b} : C[c] = buf[c]
    BY <1>1, <2>1, <2>2, ClaimGood
  <2> HIDE DEF C
  <2>4. /\ GoodBufs(buf', disk', failed)
        /\ task'[t].op \in OrderedOps /\ OthersKeep(t)
        /\ \A c \in Buffers : /\ buf'[c].blk = C[c].blk
                              /\ C[c].uptodate => buf'[c].uptodate
        /\ task'[t].pc = "have" => buf'[task'[t].bh].uptodate
    BY <1>5, <2>1, <2>3, GotGood
  <2> QED BY <1>5, <2>1, <2>3, <2>4, ContentsTaskStep
<1>6. ASSUME NEW t \in Tasks, NEW b \in Buffers, ClaimDirty(t, b) \/ Repeat(t, b),
             UNCHANGED failed
      PROVE  ContentsInv'
  <2>1. /\ UNCHANGED <<buf, disk, failed>> /\ OthersKeep(t)
        /\ task'[t].op = task[t].op /\ task'[t].pc \in {"sync", "getblk"}
    BY <1>1, <1>6 DEF ClaimDirty, Repeat, Locals, OthersKeep
  <2> QED BY <1>1, <2>1, ContentsMove
<1>7. ASSUME NEW t \in Tasks, NoBuffer(t) PROVE ContentsInv'
  <2>1. /\ UNCHANGED <<buf, disk, failed>> /\ OthersKeep(t)
        /\ task'[t].op = task[t].op /\ task'[t].pc = "nobuf"
    BY <1>1, <1>7 DEF NoBuffer, Goto, Locals, OthersKeep
  <2> QED BY <1>1, <2>1, ContentsMove
<1>8. ASSUME NEW t \in Tasks, ScanFreeList(t) PROVE ContentsInv'
  <2>1. PICK b \in Buffers :
          \/ Claim(t, b)
          \/ ClaimDirty(t, b)
          \/ /\ task' = [task EXCEPT ![t].pc = "claim", ![t].bh = b]
             /\ UNCHANGED <<buf, disk>>
    BY <1>8 DEF ScanFreeList, Unused
  <2>2. task[t].pc = "getblk" /\ UNCHANGED failed
    BY <1>8 DEF ScanFreeList
  <2>3. CASE task' = [task EXCEPT ![t].pc = "claim", ![t].bh = b] /\ UNCHANGED <<buf, disk>>
    <3>1. OthersKeep(t) /\ task'[t].op = task[t].op /\ task'[t].pc = "claim"
      BY <1>1, <2>3 DEF Locals, OthersKeep
    <3> QED BY <1>1, <2>2, <2>3, <3>1, ContentsMove
  <2> QED BY <1>5, <1>6, <2>1, <2>2, <2>3
<1>9. ASSUME NEW t \in Tasks, ClaimUnlocked(t) PROVE ContentsInv'
  <2>1. /\ task[t].pc = "claim" /\ UNCHANGED failed /\ task[t].bh \in Buffers
        /\ \/ Repeat(t, task[t].bh) \/ ClaimDirty(t, task[t].bh)
           \/ Claim(t, task[t].bh)
    BY <1>1, <1>9 DEF ClaimUnlocked, GoodLocals
  <2> QED BY <1>5, <1>6, <2>1
<1>10. ASSUME NEW t \in Tasks, SyncBuffer(t) PROVE ContentsInv'
  <2> DEFINE b == ((task[t].i - 1) % NrBuffers) + 1
  <2>1. b \in Buffers
    <3>1. task[t].i \in 1..2 * NrBuffers
      BY <1>1 DEF Locals
    <3>2. \A m \in Nat : m % NrBuffers \in 0..NrBuffers - 1
      BY BuffersAssumption
    <3>3. (task[t].i - 1) % NrBuffers \in 0..NrBuffers - 1
      BY <3>1, <3>2, BuffersAssumption
    <3> QED BY <3>3, BuffersAssumption DEF Buffers
  <2>2. /\ buf' = buf \/ (buf[b].dirt /\ buf' = StartIO(buf, b, "write"))
        /\ UNCHANGED <<disk, failed>>
    BY <1>10 DEF SyncBuffer
  <2>3. /\ OthersKeep(t) /\ task'[t].op \in OrderedOps /\ task'[t].pc # "have"
    <3>1. task[t].pc = "sync"
          /\ \/ task' = [task EXCEPT ![t].i = task[t].i + 1]
             \/ task' = [task EXCEPT ![t] = NoCall]
             \/ task' = [task EXCEPT ![t].i = 1, ![t].pc = "claim"]
      BY <1>10 DEF SyncBuffer
    <3>2. NoCall.op \in OrderedOps /\ NoCall.pc = "out"
      BY DEF NoCall, OrderedOps, AllOps
    <3> QED BY <1>1, <3>1, <3>2 DEF Locals, OthersKeep
  <2> HIDE DEF b
  <2>4. /\ GoodBufs(StartIO(buf, b, "write"), disk, failed)
           \/ ~buf[b].dirt
        /\ \A c \in Buffers : /\ StartIO(buf, b, "write")[c].blk = buf[c].blk
                              /\ StartIO(buf, b, "write")[c].uptodate = buf[c].uptodate
    BY <1>1, <2>1, StartIOGood, StartIOKeeps
  <2>5. /\ GoodBufs(buf', disk', failed)
        /\ \A c \in Buffers : /\ buf'[c].blk = buf[c].blk
                              /\ buf'[c].uptodate = buf[c].uptodate
    BY <1>1, <2>2, <2>4
  <2> QED BY <2>2, <2>3, <2>5, ContentsTaskStep
<1>11. ASSUME NEW t \in Tasks, ReadDone(t) PROVE ContentsInv'
  <2> DEFINE b == task[t].bh
  <2>1. /\ task[t].op # "file_write" /\ UNCHANGED <<buf, disk, failed>>
        /\ task' = Goto(t, IF buf[b].uptodate THEN "have" ELSE "brelse")
    BY <1>1, <1>11 DEF ReadDone, OrderedOps
  <2>2. /\ OthersKeep(t) /\ task'[t].op = task[t].op /\ task'[t].bh = b
        /\ task'[t].pc = IF buf[b].uptodate THEN "have" ELSE "brelse"
    BY <1>1, <2>1 DEF Goto, Locals, OthersKeep
  <2>3. GoodBufs(buf', disk', failed)
    BY <1>1, <2>1
  <2> QED BY <1>1, <2>1, <2>2, <2>3, ContentsTaskStep
<1>12. ASSUME NEW t \in Tasks, Use(t) PROVE ContentsInv'
  <2>1. /\ UNCHANGED <<buf, disk, failed>> /\ OthersKeep(t)
        /\ task'[t].op = task[t].op /\ task'[t].pc = "brelse"
    BY <1>1, <1>12 DEF Use, Goto, Locals, OthersKeep
  <2> QED BY <1>1, <2>1, ContentsMove
<1>13. ASSUME NEW t \in Tasks, Modify(t) PROVE ContentsInv'
  <2> DEFINE b == task[t].bh
             W == Write(buf, b)
             C == MarkDirty(W, b)
  <2>1. task[t].pc = "have" /\ b \in Buffers
    BY <1>1, <1>13 DEF Modify, GoodLocals, Holding
  <2>2. /\ W \in [Buffers -> Heads] /\ W[b].newest = TRUE
        /\ W[b].lock = buf[b].lock /\ W[b].io = buf[b].io /\ W[b].blk = buf[b].blk
        /\ \A c \in Buffers : W[c].blk = buf[c].blk /\ W[c].uptodate = buf[c].uptodate
    <3>1. buf[b] \in Heads
      BY <1>1, <2>1
    <3>2. W[b] = [buf[b] EXCEPT !.newest = TRUE, !.snap = FALSE]
      BY <2>1 DEF Write
    <3>3. /\ W \in [Buffers -> Heads]
          /\ \A c \in Buffers : W[c].blk = buf[c].blk /\ W[c].uptodate = buf[c].uptodate
      BY <1>1, <2>1, WriteKeeps
    <3> HIDE DEF W
    <3> QED BY <2>1, <3>1, <3>2, <3>3 DEF Heads
  <2>3. /\ buf' = C /\ disk' = disk \ {buf[b].blk} /\ UNCHANGED failed
        /\ task' = Goto(t, "brelse")
    <3>1. task[t].op # "file_write"
      BY <1>1 DEF OrderedOps
    <3>2. buf' = [W EXCEPT ![b].dirt = @ \/ task[t].op # "file_write"]
      BY <1>13 DEF Modify
    <3>3. (W[b].dirt \/ task[t].op # "file_write") = TRUE
      BY <3>1
    <3>4. buf' = [W EXCEPT ![b].dirt = TRUE]
      <4> HIDE DEF W
      <4> QED BY <3>2, <3>3
    <3> QED BY <1>13, <3>4 DEF Modify, MarkDirty
  <2> HIDE DEF W
  <2>4. /\ C \in [Buffers -> Heads] /\ \A c \in Buffers \ {b} : C[c] = W[c]
        /\ C[b].blk = W[b].blk /\ C[b].io = W[b].io /\ C[b].lock = W[b].lock
        /\ C[b].dirt = TRUE /\ C[b].newest = W[b].newest /\ C[b].uptodate = W[b].uptodate
    <3>1. W[b] \in Heads
      BY <2>1, <2>2
    <3>2. /\ C[b] = [W[b] EXCEPT !.dirt = TRUE]
          /\ \A c \in Buffers \ {b} : C[c] = W[c]
      BY <2>1, <2>2 DEF MarkDirty
    <3>3. C \in [Buffers -> Heads]
      BY <2>1, <2>2, MarkKeeps
    <3> HIDE DEF C
    <3> QED BY <3>1, <3>2, <3>3 DEF Heads
  <2> HIDE DEF C
  <2>5. \A c \in Buffers \ {b} : C[c] = Write(buf, b)[c]
    BY <2>4 DEF W
  <2>6. buf[b].blk \notin failed => buf[b].uptodate
    BY <1>1, <2>1 DEF HaveInv
  <2>7. buf[b].blk \notin failed => C[b].uptodate = TRUE
    <3>1. buf[b].uptodate \in BOOLEAN
      BY <1>1, <2>1 DEF Heads
    <3> QED BY <2>1, <2>2, <2>4, <2>6, <3>1
  <2>8. GoodBufs(C, disk \ {buf[b].blk}, failed)
    <3>1. /\ C[b].blk = buf[b].blk /\ C[b].io = buf[b].io /\ C[b].lock = buf[b].lock
          /\ C[b].dirt = TRUE /\ C[b].newest = TRUE
          /\ buf[b].blk \notin failed
               => C[b].uptodate = TRUE /\ (buf[b].io = "none" \/ buf[b].uptodate)
      BY <2>2, <2>4, <2>6, <2>7
    <3> HIDE DEF b
    <3> QED BY <1>1, <2>1, <2>4, <2>5, <3>1, WriteGood
  <2>9. OthersKeep(t) /\ task'[t].op = task[t].op /\ task'[t].pc = "brelse"
    BY <1>1, <2>3 DEF Goto, Locals, OthersKeep
  <2>10. \A c \in Buffers : buf'[c].blk = buf[c].blk /\ buf'[c].uptodate = buf[c].uptodate
    BY <2>1, <2>2, <2>3, <2>4
  <2> QED BY <1>1, <2>3, <2>8, <2>9, <2>10, ContentsTaskStep
<1>14. ASSUME NEW t \in Tasks, Brelse(t) PROVE ContentsInv'
  <2> DEFINE b == task[t].bh
             T == [task EXCEPT ![t] = NoCall]
  <2>1. /\ task[t].pc = "brelse" /\ buf' = DropRef(buf, b) /\ UNCHANGED <<disk, failed>>
        /\ task' = [u \in Tasks |-> IF T[u].pc = "nobuf" THEN [T[u] EXCEPT !.pc = "getblk"]
                                    ELSE T[u]]
    BY <1>14 DEF Brelse, WakeAll
  <2>2. b \in Buffers /\ buf[b].count > 0
    BY <2>1, HeldCount DEF Holding
  <2>3. /\ buf' \in [Buffers -> Heads]
        /\ \A c \in Buffers : /\ buf'[c].blk = buf[c].blk /\ buf'[c].io = buf[c].io
                              /\ buf'[c].lock = buf[c].lock /\ buf'[c].dirt = buf[c].dirt
                              /\ buf'[c].uptodate = buf[c].uptodate
                              /\ buf'[c].newest = buf[c].newest /\ buf'[c].snap = buf[c].snap
    BY <1>1, <2>1, <2>2, DropRefKeeps DEF DropRef, Heads
  <2>4. GoodBufs(buf', disk, failed)
    BY <1>1, <2>3, CountsGood
  <2>5. T[t] = NoCall /\ NoCall.pc = "out" /\ NoCall.op \in OrderedOps
        /\ \A u \in Tasks \ {t} : T[u] = task[u]
    BY <1>1 DEF NoCall, OrderedOps, AllOps
  <2> HIDE DEF T
  <2>6. OthersKeep(t) /\ task'[t] = NoCall
    BY <2>1, <2>5 DEF OthersKeep
  <2> QED BY <2>1, <2>3, <2>4, <2>5, <2>6, ContentsTaskStep
<1>15. ASSUME NEW t \in Tasks, NEW op \in Ops, NEW k \in Blocks,
              NEW next \in Blocks \cup {NULL}, Start(t, op, k, next)
       PROVE  ContentsInv'
  <2>1. /\ UNCHANGED <<buf, disk, failed>> /\ OthersKeep(t)
        /\ task'[t].op = op /\ task'[t].pc \in {"sync", "getblk"}
    BY <1>1, <1>15 DEF Start, Locals, OthersKeep
  <2> QED BY <2>1, ContentsMove
<1>16. CASE UNCHANGED vars
  BY <1>16 DEF vars, ContentsInv, GoodBufs, GoodHead, HaveInv
<1> QED
  BY <1>2, <1>3, <1>4, <1>7, <1>8, <1>9, <1>10, <1>11, <1>12, <1>13, <1>14, <1>15,
     <1>16, EndIOGood
  DEF Next, Step, Disk

(***************************************************************************)
(* For any number of tasks, buffers and blocks, and any interleaving of    *)
(* their sleeps with the disk: if the callers set b_uptodate and b_dirt    *)
(* together with the data, as bread(), breada(), new_block() and sync do,  *)
(* no write is lost (buffer.c:281-320, ll_rw_blk.c:51-69).                 *)
(***************************************************************************)
THEOREM NoLostWrite == Ops \subseteq OrderedOps => (Spec => []Coherent)
<1> SUFFICES ASSUME Ops \subseteq OrderedOps PROVE Spec => []Coherent
  OBVIOUS
<1>1. Init => ContentsInv
  <2> SUFFICES ASSUME Init PROVE ContentsInv
    OBVIOUS
  <2>1. GoodBufs(buf, disk, failed)
    BY NULLAssumption DEF Init, GoodBufs
  <2> QED BY <2>1 DEF Init, ContentsInv, HaveInv, NoCall, OrderedOps, AllOps
<1>2. CacheInv /\ ContentsInv /\ [Next]_vars => (CacheInv /\ ContentsInv)'
  BY CacheStep, ContentsStep
<1>3. CacheInv /\ ContentsInv => Coherent
  <2> SUFFICES ASSUME CacheInv, ContentsInv, NEW k \in Blocks \ failed
               PROVE  /\ \A b \in Find(buf, k) : buf[b].uptodate => buf[b].newest
                      /\ (\A b \in Find(buf, k) : ~buf[b].dirt /\ buf[b].io # "write")
                           => k \in disk
    BY DEF Coherent
  <2> QED BY DEF ContentsInv, GoodBufs, GoodHead, Find
<1> QED BY <1>1, <1>2, <1>3, CacheInit, PTL DEF Spec

=============================================================================
