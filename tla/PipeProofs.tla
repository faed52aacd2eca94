----------------------------- MODULE PipeProofs -----------------------------
(***************************************************************************)
(* What is proved of pipes, for any tasks, tables, page size and counts:   *)
(* the reference counts are right, so that "i_count != 2" is the question  *)
(* whether the other end is closed; bytes are read in the order in which   *)
(* they were written; nobody sleeps for what has happened; and the pipe is *)
(* that of PipeAbs.                                                        *)
(***************************************************************************)
EXTENDS Pipe, FiniteSetTheorems, WellFoundedInduction, TLAPS

CallRecord == [op : {"none", "read", "write"}, count : Nat, chars : Nat, size : Nat,
               seq : Nat, faulted : BOOLEAN]

FileRecord == [count : Nat, mode : {"read", "write"}]

InodeRecord == [count : 0..2, head : 0..PageSize - 1, tail : 0..PageSize - 1,
                page : [0..PageSize - 1 -> Nat]]

\* The types, without the bound that MaxSent puts on the numbers of bytes
Types ==
  /\ current \in Tasks \cup {NULL}
  /\ alive \subseteq Tasks
  /\ filp \in [Tasks -> [Fds -> Files \cup {NULL}]]
  /\ file \in [Files -> FileRecord]
  /\ inode \in InodeRecord
  /\ call \in [Tasks -> CallRecord]
  /\ asleep \subseteq Tasks
  /\ sent \in Nat /\ received \in Nat
  /\ torn \in BOOLEAN /\ wrong \in BOOLEAN

\* A task that has exited has no descriptor and is in no call.
DeadHasNothing ==
  \A t \in Tasks \ alive : call[t].op = "none" /\ \A fd \in Fds : filp[t][fd] = NULL

\* A task in a call has something to do; only such tasks sleep.
CallsGoOn ==
  /\ \A t \in Tasks : IF call[t].op = "none" THEN call[t].chars = 0
                      ELSE call[t].count + call[t].chars > 0
  /\ \A t \in asleep : call[t].op # "none"

FileCounts == \A f \in Files : file[f].count = Descriptors(f)

Open(f) == file[f].count > 0

\* A pipe has one file for each end.
OneFilePerEnd ==
  \A f, g \in Files : Open(f) /\ Open(g) /\ file[f].mode = file[g].mode => f = g

EndOpen(m) == \E f \in Files : Open(f) /\ file[f].mode = m

One(P) == IF P THEN 1 ELSE 0

InodeCount == inode.count = One(EndOpen("read")) + One(EndOpen("write"))

\* A task in a call has its file open.
CallsHaveFile ==
  \A t \in Tasks : call[t].op # "none" =>
    \E fd \in Fds : filp[t][fd] # NULL /\ file[filp[t][fd]].mode = call[t].op

Tables == FileCounts /\ OneFilePerEnd /\ InodeCount /\ CallsHaveFile

-----------------------------------------------------------------------------
Wrap(i) == IF i >= PageSize THEN i - PageSize ELSE i

\* Where byte k is, one of those in the pipe
Place(k) == Wrap(inode.tail + (k - received - 1))

\* PIPE_HEAD and PIPE_TAIL count the bytes moved.
Ring ==
  inode.count > 0 =>
    /\ received <= sent /\ sent - received < PageSize
    /\ inode.head = Wrap(inode.tail + (sent - received))

(***************************************************************************)
(* Without a fault the task that has moved PIPE_HEAD or PIPE_TAIL keeps    *)
(* the processor until the bytes are copied.                               *)
(***************************************************************************)
Copying(t) ==
  LET c == call[t] IN
  c.chars > 0 =>
    /\ current = t
    /\ c.size + c.chars <= PageSize
    /\ c.op = "read" => \A i \in c.size..c.size + c.chars - 1 : inode.page[i] = c.seq + (i - c.size)
    /\ c.op = "write" => /\ c.seq + c.chars = sent + 1 /\ c.chars <= sent - received
                         /\ c.size = Place(c.seq)

\* The bytes in the pipe, but for those that a writer is copying
Held ==
  inode.count > 0 =>
    \A k \in received + 1..sent :
      (\A t \in Tasks : call[t].op = "write" /\ call[t].chars > 0 => k < call[t].seq)
        => inode.page[Place(k)] = k

InStep == ~torn => ~wrong /\ (\A t \in Tasks : Copying(t)) /\ Held

PipeInv == Types /\ DeadHasNothing /\ CallsGoOn /\ Tables /\ Ring /\ InStep

-----------------------------------------------------------------------------
(* Counting.                                                               *)

Before == {p \in Nat \X Nat : p[1] < p[2]}

\* A set of natural numbers has a least element, and Min is in it.
LEMMA MinIsIn ==
  ASSUME NEW S, S \subseteq Nat, S # {}
  PROVE  Min(S) \in S /\ \A m \in S : Min(S) <= m
<1>1. IsWellFoundedOn(Before, Nat)
  BY NatLessThanWellFounded DEF OpToRel, Before
<1>2. PICK n \in S : \A m \in S : <<m, n>> \notin Before
  BY <1>1, WFMin
<1>3. \E k \in S : \A m \in S : k <= m
  <2>1. \A m \in S : ~(m < n)
    BY <1>2 DEF Before
  <2> QED BY <2>1
<1> QED BY <1>3, Zenon DEF Min

\* Changing whether one element belongs to a set changes its size by one.
LEMMA CardinalityChange ==
  ASSUME NEW S, NEW U, IsFiniteSet(S), NEW x, S \ {x} = U \ {x}
  PROVE  /\ IsFiniteSet(U) /\ Cardinality(S) \in Nat /\ Cardinality(U) \in Nat
         /\ Cardinality(U) = Cardinality(S) + One(x \in U) - One(x \in S)
<1> DEFINE R == S \ {x}
<1>1. /\ IsFiniteSet(R) /\ Cardinality(S) \in Nat /\ Cardinality(R) \in Nat
      /\ Cardinality(R) = Cardinality(S) - One(x \in S)
  <2>1. /\ IsFiniteSet(R)
        /\ Cardinality(R) = IF x \in S THEN Cardinality(S) - 1 ELSE Cardinality(S)
    BY FS_RemoveElement
  <2>2. Cardinality(S) \in Nat /\ Cardinality(R) \in Nat
    BY <2>1, FS_CardinalityType
  <2> QED BY <2>1, <2>2 DEF One
<1>2. IsFiniteSet(R \cup {x}) /\ Cardinality(R \cup {x}) = Cardinality(R) + 1
  BY <1>1, FS_AddElement
<1>3. CASE x \in U
  <2>1. U = R \cup {x}
    BY <1>3
  <2> QED BY <1>1, <1>2, <1>3, <2>1 DEF One
<1>4. CASE x \notin U
  <2>1. U = R
    BY <1>4
  <2> QED BY <1>1, <1>4, <2>1 DEF One
<1> QED BY <1>3, <1>4

Off(R, t) == {x \in R : x[1] # t}

RowOf(R, C, t) == {c \in C : <<t, c>> \in R}

\* A finite relation between tasks and columns, split into the row of t and
\* the other rows
LEMMA RowSplit ==
  ASSUME NEW C, NEW R \in SUBSET (Tasks \X C), IsFiniteSet(R), NEW t \in Tasks
  PROVE  /\ IsFiniteSet(RowOf(R, C, t)) /\ Cardinality(RowOf(R, C, t)) \in Nat
         /\ Cardinality(Off(R, t)) \in Nat
         /\ Cardinality(R) = Cardinality(Off(R, t)) + Cardinality(RowOf(R, C, t))
<1> DEFINE off == {x \in R : x[1] # t}
           row == {c \in C : <<t, c>> \in R}
           on == {x \in R : x[1] = t}
           f == [x \in on |-> x[2]]
<1>1. IsFiniteSet(on) /\ IsFiniteSet(off)
  BY FS_Subset
<1>2. /\ Cardinality(on) \in Nat /\ Cardinality(off) \in Nat
      /\ Cardinality(R) = Cardinality(off) + Cardinality(on)
  <2>1. R = off \cup on /\ off \cap on = {}
    OBVIOUS
  <2> HIDE DEF on, off
  <2>2. Cardinality(off \cup on) = Cardinality(off) + Cardinality(on) - Cardinality(off \cap on)
    BY <1>1, FS_Union
  <2>3. Cardinality(on) \in Nat /\ Cardinality(off) \in Nat /\ Cardinality(off \cap on) = 0
    BY <1>1, <2>1, FS_CardinalityType, FS_EmptySet
  <2> QED BY <2>1, <2>2, <2>3
<1>3. f \in Bijection(on, row)
  <2>1. f \in [on -> row]
    OBVIOUS
  <2>2. \A a, b \in on : f[a] = f[b] => a = b
    OBVIOUS
  <2>3. \A c \in row : \E x \in on : f[x] = c
    <3> SUFFICES ASSUME NEW c \in row PROVE \E x \in on : f[x] = c
      OBVIOUS
    <3>1. <<t, c>> \in on /\ f[<<t, c>>] = c
      OBVIOUS
    <3> HIDE DEF f, row, on
    <3> QED BY <3>1
  <2> HIDE DEF f, row, on
  <2>4. f \in Injection(on, row)
    BY <2>1, <2>2 DEF Injection, IsInjective
  <2>5. f \in Surjection(on, row)
    BY <2>1, <2>3 DEF Surjection
  <2> QED BY <2>4, <2>5 DEF Bijection
<1>4. IsFiniteSet(row) /\ Cardinality(row) = Cardinality(on)
  <2> HIDE DEF f, row, on
  <2>1. ExistsBijection(on, row)
    BY <1>3 DEF ExistsBijection
  <2> QED BY <1>1, <2>1, FS_Bijection
<1>5. row = RowOf(R, C, t) /\ off = Off(R, t)
  BY DEF RowOf, Off
<1> HIDE DEF f, row, on, off
<1>6. Cardinality(row) \in Nat /\ Cardinality(R) = Cardinality(off) + Cardinality(row)
  BY <1>2, <1>4
<1> QED BY <1>2, <1>4, <1>5, <1>6

\* How many of the descriptors d of one task are of the file
Mine(d, f) == Cardinality({fd \in Fds : d[fd] = f})

\* Descriptors(f) changes with the descriptors of one task.
LEMMA DescriptorsChange ==
  ASSUME NEW t \in Tasks, NEW f, \A u \in Tasks \ {t} : filp'[u] = filp[u]
  PROVE  /\ Descriptors(f) \in Nat /\ Descriptors(f)' \in Nat
         /\ Mine(filp[t], f) \in Nat /\ Mine(filp'[t], f) \in Nat
         /\ Mine(filp[t], f) <= Descriptors(f)
         /\ Descriptors(f)' = Descriptors(f) - Mine(filp[t], f) + Mine(filp'[t], f)
<1> DEFINE R == {d \in Tasks \X Fds : filp[d[1]][d[2]] = f}
           U == {d \in Tasks \X Fds : filp'[d[1]][d[2]] = f}
           offR == Off(R, t)
           offU == Off(U, t)
           rowR == RowOf(R, Fds, t)
           rowU == RowOf(U, Fds, t)
<1>1. IsFiniteSet(Tasks \X Fds)
  <2>1. IsFiniteSet(Fds)
    BY TablesAssumption, FS_Interval DEF Fds
  <2> QED BY <2>1, TasksAssumption, FS_Product
<1>2. IsFiniteSet(R) /\ IsFiniteSet(U)
  BY <1>1, FS_Subset
<1>3. offR = offU
  BY DEF Off
<1>4. rowR = {fd \in Fds : filp[t][fd] = f} /\ rowU = {fd \in Fds : filp'[t][fd] = f}
  BY DEF RowOf
<1>5. /\ Cardinality(rowR) \in Nat /\ Cardinality(offR) \in Nat
      /\ Cardinality(R) = Cardinality(offR) + Cardinality(rowR)
  <2>1. R \in SUBSET (Tasks \X Fds)
    OBVIOUS
  <2> HIDE DEF R
  <2> QED BY <1>2, <2>1, RowSplit
<1>6. /\ Cardinality(rowU) \in Nat /\ Cardinality(offU) \in Nat
      /\ Cardinality(U) = Cardinality(offU) + Cardinality(rowU)
  <2>1. U \in SUBSET (Tasks \X Fds)
    OBVIOUS
  <2> HIDE DEF U
  <2> QED BY <1>2, <2>1, RowSplit
<1>7. /\ Descriptors(f) = Cardinality(R) /\ Descriptors(f)' = Cardinality(U)
      /\ Mine(filp[t], f) = Cardinality(rowR) /\ Mine(filp'[t], f) = Cardinality(rowU)
  BY <1>4 DEF Descriptors, Mine
<1>8. Cardinality(offR) = Cardinality(offU)
  BY <1>3
<1> HIDE DEF R, U, offR, offU, rowR, rowU
<1> QED BY <1>5, <1>6, <1>7, <1>8

\* The descriptors d and e are the same but for that one.
SameBut(d, e, fd) == \A n \in Fds \ {fd} : e[n] = d[n]

\* One descriptor of a task changes.
LEMMA MineChange ==
  ASSUME NEW d, NEW e, NEW fd \in Fds, SameBut(d, e, fd), NEW f
  PROVE  /\ Mine(d, f) \in Nat /\ Mine(e, f) \in Nat
         /\ (e[fd] = f /\ d[fd] # f) => Mine(e, f) = Mine(d, f) + 1
         /\ (e[fd] # f /\ d[fd] = f) => Mine(e, f) = Mine(d, f) - 1
         /\ (e[fd] = f <=> d[fd] = f) => Mine(e, f) = Mine(d, f)
<1> DEFINE S == {n \in Fds : d[n] = f}
           U == {n \in Fds : e[n] = f}
<1>1. IsFiniteSet(S)
  <2>1. IsFiniteSet(Fds)
    BY TablesAssumption, FS_Interval DEF Fds
  <2> QED BY <2>1, FS_Subset
<1>2. S \ {fd} = U \ {fd}
  BY DEF SameBut
<1>3. (fd \in S <=> d[fd] = f) /\ (fd \in U <=> e[fd] = f)
  OBVIOUS
<1>4. Mine(d, f) = Cardinality(S) /\ Mine(e, f) = Cardinality(U)
  BY DEF Mine
<1> HIDE DEF S, U
<1>5. /\ Cardinality(S) \in Nat /\ Cardinality(U) \in Nat
      /\ Cardinality(U) = Cardinality(S) + One(fd \in U) - One(fd \in S)
  BY <1>1, <1>2, CardinalityChange
<1> QED BY <1>3, <1>4, <1>5 DEF One

\* A task has a descriptor of the file, or none.
LEMMA MineIsZero ==
  ASSUME NEW d, NEW f
  PROVE  Mine(d, f) \in Nat /\ (Mine(d, f) = 0 <=> \A fd \in Fds : d[fd] # f)
<1> DEFINE S == {n \in Fds : d[n] = f}
<1>1. IsFiniteSet(S)
  <2>1. IsFiniteSet(Fds)
    BY TablesAssumption, FS_Interval DEF Fds
  <2> QED BY <2>1, FS_Subset
<1>2. S = {} <=> \A fd \in Fds : d[fd] # f
  OBVIOUS
<1>3. Cardinality(S) \in Nat /\ (Cardinality(S) = 0 <=> S = {})
  <2> HIDE DEF S
  <2> QED BY <1>1, FS_CardinalityType, FS_EmptySet
<1> HIDE DEF S
<1> QED BY <1>2, <1>3 DEF Mine, S

\* A file that a descriptor refers to is open.
LEMMA DescriptorOpens ==
  ASSUME Types, FileCounts, NEW t \in Tasks, NEW fd \in Fds, filp[t][fd] # NULL
  PROVE  filp[t][fd] \in Files /\ Open(filp[t][fd])
<1> DEFINE f == filp[t][fd]
<1>1. f \in Files
  BY DEF Types
<1> HIDE DEF f
<1>2. Mine(filp[t], f) \in Nat /\ Mine(filp[t], f) # 0
  BY MineIsZero DEF f
<1> DEFINE R == {d \in Tasks \X Fds : filp[d[1]][d[2]] = f}
           off == Off(R, t)
           row == RowOf(R, Fds, t)
<1>3. IsFiniteSet(R) /\ R \in SUBSET (Tasks \X Fds)
  <2>1. IsFiniteSet(Fds)
    BY TablesAssumption, FS_Interval DEF Fds
  <2>2. IsFiniteSet(Tasks \X Fds)
    BY <2>1, TasksAssumption, FS_Product
  <2> QED BY <2>2, FS_Subset
<1>4. Mine(filp[t], f) = Cardinality(row) /\ Descriptors(f) = Cardinality(R)
  BY DEF Mine, Descriptors, RowOf
<1>5. Cardinality(off) \in Nat /\ Cardinality(R) = Cardinality(off) + Cardinality(row)
  <2> HIDE DEF R
  <2> QED BY <1>3, RowSplit
<1> HIDE DEF R, off, row
<1>6. Descriptors(f) > 0
  BY <1>2, <1>4, <1>5
<1> QED BY <1>1, <1>6 DEF FileCounts, Open, f

-----------------------------------------------------------------------------
(* The tables.                                                             *)

\* The descriptors of one task w that is in no call change, with f_count, and
\* no file is opened.
LEMMA OneRowStep ==
  ASSUME Types, Tables, NEW w \in Tasks, call[w].op = "none", call' = call,
         \A u \in Tasks \ {w} : filp'[u] = filp[u],
         \A f \in Files :
           /\ file'[f].mode = file[f].mode
           /\ file'[f].count = file[f].count - Mine(filp[w], f) + Mine(filp'[w], f)
           /\ file'[f].count > 0 => file[f].count > 0,
         InodeCount'
  PROVE  Tables'
<1>1. FileCounts'
  <2> SUFFICES ASSUME NEW f \in Files PROVE file'[f].count = Descriptors(f)'
    BY DEF FileCounts
  <2>1. Descriptors(f)' = Descriptors(f) - Mine(filp[w], f) + Mine(filp'[w], f)
    BY DescriptorsChange
  <2> QED BY <2>1 DEF Tables, FileCounts
<1>2. OneFilePerEnd'
  BY DEF Tables, OneFilePerEnd, Open
<1>3. CallsHaveFile'
  <2> SUFFICES ASSUME NEW u \in Tasks, call[u].op # "none"
               PROVE  \E fd \in Fds : /\ filp'[u][fd] # NULL
                                      /\ file'[filp'[u][fd]].mode = call[u].op
    BY DEF CallsHaveFile
  <2>1. PICK fd \in Fds : filp[u][fd] # NULL /\ file[filp[u][fd]].mode = call[u].op
    BY DEF Tables, CallsHaveFile
  <2>2. filp[u][fd] \in Files /\ filp'[u] = filp[u]
    BY <2>1 DEF Types
  <2> QED BY <2>1, <2>2
<1> QED BY <1>1, <1>2, <1>3 DEF Tables

\* The files G are closed for good: iput() for each of them
LEMMA GoneStep ==
  ASSUME Types, OneFilePerEnd, InodeCount, NEW G, G \subseteq {f \in Files : Open(f)},
         \A f \in Files : /\ file'[f].mode = file[f].mode
                          /\ (file'[f].count > 0) <=> (Open(f) /\ f \notin G),
         inode' = CASE Cardinality(G) = 0 -> inode
                    [] Cardinality(G) = 1 -> Iput(inode)
                    [] OTHER -> Iput(Iput(inode))
  PROVE  /\ InodeCount' /\ inode' \in InodeRecord
         /\ inode'.count > 0 => /\ inode.count > 0 /\ inode'.head = inode.head
                                /\ inode'.tail = inode.tail /\ inode'.page = inode.page
<1>0. IsFiniteSet(G)
  <2>1. IsFiniteSet(Files)
    BY TablesAssumption, FS_Interval DEF Files
  <2> QED BY <2>1, FS_Subset
<1>1. inode \in InodeRecord /\ \A f \in Files : file[f].mode \in {"read", "write"}
  BY DEF Types, FileRecord
<1>2. NoInode \in InodeRecord /\ NoInode.count = 0
  BY PageAssumption DEF NoInode, InodeRecord
<1>3. inode.count > 1 => /\ Iput(inode) \in InodeRecord /\ Iput(inode).count = inode.count - 1
                         /\ Iput(inode).head = inode.head /\ Iput(inode).tail = inode.tail
                         /\ Iput(inode).page = inode.page
  BY <1>1 DEF Iput, InodeRecord
<1>4. ~(inode.count > 1) => Iput(inode) = NoInode
  BY <1>1 DEF Iput
<1>5. CASE G = {}
  <2>1. inode' = inode
    BY <1>5, FS_EmptySet
  <2>2. EndOpen("read")' = EndOpen("read") /\ EndOpen("write")' = EndOpen("write")
    BY <1>5 DEF EndOpen, Open
  <2> QED BY <1>1, <2>1, <2>2 DEF InodeCount
<1>6. ASSUME NEW f \in G, G = {f}
      PROVE  /\ InodeCount' /\ inode' \in InodeRecord
             /\ inode'.count > 0 => /\ inode.count > 0 /\ inode'.head = inode.head
                                    /\ inode'.tail = inode.tail /\ inode'.page = inode.page
  <2>1. Cardinality(G) = 1
    BY <1>6, FS_Singleton
  <2>2. inode' = Iput(inode)
    BY <2>1
  <2>3. f \in Files /\ Open(f) /\ file[f].mode \in {"read", "write"}
    BY <1>1
  <2>4. CASE file[f].mode = "read"
    <3>1. EndOpen("read") /\ ~EndOpen("read")' /\ (EndOpen("write")' <=> EndOpen("write"))
      BY <1>6, <2>3, <2>4 DEF EndOpen, Open, OneFilePerEnd
    <3>2. /\ inode.count = 1 + One(EndOpen("write"))
          /\ InodeCount' <=> inode'.count = One(EndOpen("write"))
      BY <3>1 DEF InodeCount, One
    <3> QED BY <1>1, <1>2, <1>3, <1>4, <2>2, <3>2 DEF One
  <2>5. CASE file[f].mode = "write"
    <3>1. EndOpen("write") /\ ~EndOpen("write")' /\ (EndOpen("read")' <=> EndOpen("read"))
      BY <1>6, <2>3, <2>5 DEF EndOpen, Open, OneFilePerEnd
    <3>2. /\ inode.count = 1 + One(EndOpen("read"))
          /\ InodeCount' <=> inode'.count = One(EndOpen("read"))
      BY <3>1 DEF InodeCount, One
    <3> QED BY <1>1, <1>2, <1>3, <1>4, <2>2, <3>2 DEF One
  <2> QED BY <2>3, <2>4, <2>5
<1>7. ASSUME NEW f \in G, NEW g \in G, f # g
      PROVE  InodeCount' /\ inode' \in InodeRecord /\ ~(inode'.count > 0)
  <2>1. Cardinality(G) # 0 /\ Cardinality(G) # 1
    <3>1. ~ \E x : G = {x}
      BY <1>7
    <3> QED BY <1>0, <1>7, <3>1, FS_EmptySet, FS_Singleton
  <2>2. inode' = Iput(Iput(inode))
    BY <2>1
  <2>3. /\ f \in Files /\ Open(f) /\ file[f].mode \in {"read", "write"}
        /\ g \in Files /\ Open(g) /\ file[g].mode \in {"read", "write"}
        /\ file[f].mode # file[g].mode
    BY <1>1, <1>7 DEF OneFilePerEnd
  <2>4. EndOpen("read") /\ EndOpen("write")
    BY <2>3 DEF EndOpen
  <2>5. \A h \in Files : Open(h) => h = f \/ h = g
    BY <1>1, <2>3 DEF OneFilePerEnd
  <2>6. ~EndOpen("read")' /\ ~EndOpen("write")'
    BY <1>7, <2>5 DEF EndOpen, Open
  <2>7. inode.count = 2
    BY <2>4 DEF InodeCount, One
  <2>8. inode' = NoInode
    <3>1. Iput(inode).count = 1
      BY <1>3, <2>7
    <3> HIDE DEF Iput
    <3>2. Iput(Iput(inode)) = NoInode
      BY <3>1 DEF Iput
    <3> QED BY <2>2, <3>2
  <2> QED BY <1>2, <2>6, <2>8 DEF InodeCount, One
<1>8. G = {} \/ (\E f \in G : G = {f}) \/ (\E f, g \in G : f # g)
  OBVIOUS
<1> QED BY <1>5, <1>6, <1>7, <1>8

-----------------------------------------------------------------------------
(* The ring.                                                               *)

\* PIPE_SIZE is the number of bytes in the pipe.
LEMMA SizeIs ==
  ASSUME Types, Ring, inode.count > 0
  PROVE  Size = sent - received /\ Size \in 0..PageSize - 1
<1>1. /\ PageSize \in Nat /\ PageSize > 1 /\ inode.head \in 0..PageSize - 1
      /\ inode.tail \in 0..PageSize - 1 /\ sent \in Nat /\ received \in Nat
  BY PageAssumption DEF Types, InodeRecord
<1>2. \A a \in 0..PageSize - 1 : a % PageSize = a /\ (a + PageSize) % PageSize = a
  BY <1>1
<1> DEFINE n == sent - received
<1>3. /\ n \in 0..PageSize - 1
      /\ inode.head + PageSize - inode.tail = n \/ inode.head + PageSize - inode.tail = n + PageSize
  BY <1>1 DEF Ring, Wrap
<1> HIDE DEF n
<1>4. Size = n
  BY <1>2, <1>3 DEF Size
<1> QED BY <1>3, <1>4 DEF n

\* A step between two calls, which may free the pipe
LEMMA IdleStep ==
  ASSUME Types, Ring, InStep,
         current = NULL \/ \E t \in Tasks : current = t /\ call[t].chars = 0,
         \A t \in Tasks : call'[t].chars = call[t].chars,
         sent' = sent, received' = received, torn' = torn, wrong' = wrong,
         inode'.count > 0 => /\ inode.count > 0 /\ inode'.head = inode.head
                             /\ inode'.tail = inode.tail /\ inode'.page = inode.page
  PROVE  Ring' /\ InStep'
<1>1. Ring'
  BY DEF Ring, Wrap
<1>2. ASSUME ~torn' PROVE ~wrong' /\ (\A t \in Tasks : Copying(t))' /\ Held'
  <2>1. ~torn /\ ~wrong /\ (\A t \in Tasks : Copying(t)) /\ Held
    BY <1>2 DEF InStep
  <2>2. \A t \in Tasks : call[t].chars \in Nat
    BY DEF Types, CallRecord
  <2>3. \A t \in Tasks : ~(call[t].chars > 0)
    BY <2>1, TasksAssumption DEF Copying
  <2>4. (\A t \in Tasks : Copying(t))'
    BY <2>3 DEF Copying
  <2>5. Held'
    BY <2>1, <2>3 DEF Held, Place, Wrap
  <2> QED BY <2>1, <2>4, <2>5
<1> QED BY <1>1, <1>2 DEF InStep

-----------------------------------------------------------------------------
(* System calls that change the tables.                                    *)

\* The files G, and no others, are closed for good; their iput() wakes i_wait.
Closes(G) ==
  /\ G \subseteq {f \in Files : Open(f)}
  /\ \A f \in Files : /\ file'[f].mode = file[f].mode
                      /\ (file'[f].count > 0) <=> (Open(f) /\ f \notin G)
  /\ G = {} => asleep' = asleep /\ report' = report /\ inode' = inode
  /\ G # {} => asleep' = {} /\ report' = "none"
  /\ UNCHANGED <<sent, received>>

\* Descriptors are closed: what CloseAll says of f_count and the inode
LEMMA CloseAllEffect ==
  ASSUME Types, Tables, NEW t \in Tasks, call[t].op = "none", call' = call,
         NEW D \in SUBSET Fds, CloseAll(t, D)
  PROVE  /\ filp' \in [Tasks -> [Fds -> Files \cup {NULL}]]
         /\ \A u \in Tasks \ {t} : filp'[u] = filp[u]
         /\ \A fd \in Fds : filp'[t][fd] = IF fd \in D THEN NULL ELSE filp[t][fd]
         /\ file' \in [Files -> FileRecord]
         /\ inode' \in InodeRecord /\ Tables'
         /\ inode'.count > 0 => /\ inode.count > 0 /\ inode'.head = inode.head
                                /\ inode'.tail = inode.tail /\ inode'.page = inode.page
         /\ \E G : Closes(G)
<1> DEFINE Cut(f) == Cardinality({fd \in D : filp[t][fd] = f})
           gone == {f \in Files : file[f].count > 0 /\ file[f].count - Cut(f) = 0}
<1>1. /\ filp' \in [Tasks -> [Fds -> Files \cup {NULL}]]
      /\ \A u \in Tasks \ {t} : filp'[u] = filp[u]
      /\ \A fd \in Fds : filp'[t][fd] = IF fd \in D THEN NULL ELSE filp[t][fd]
  BY DEF CloseAll, Types
<1>2. ASSUME NEW f \in Files
      PROVE  /\ Cut(f) \in Nat /\ Mine(filp[t], f) \in Nat /\ Mine(filp'[t], f) \in Nat
             /\ Mine(filp[t], f) = Cut(f) + Mine(filp'[t], f)
             /\ file[f].count \in Nat /\ Mine(filp[t], f) <= file[f].count
  <2> DEFINE A == {fd \in D : filp[t][fd] = f}
             B == {fd \in Fds : filp'[t][fd] = f}
             C == {fd \in Fds : filp[t][fd] = f}
  <2>1. f # NULL
    BY TasksAssumption DEF Files
  <2>2. C = A \cup B /\ A \cap B = {}
    BY <1>1, <2>1
  <2>3. IsFiniteSet(A) /\ IsFiniteSet(B)
    <3>1. IsFiniteSet(Fds)
      BY TablesAssumption, FS_Interval DEF Fds
    <3>2. A \subseteq Fds /\ B \subseteq Fds
      OBVIOUS
    <3> HIDE DEF A, B
    <3> QED BY <3>1, <3>2, FS_Subset
  <2>4. Cut(f) = Cardinality(A) /\ Mine(filp[t], f) = Cardinality(C)
        /\ Mine(filp'[t], f) = Cardinality(B)
    BY DEF Mine
  <2>5. Mine(filp[t], f) <= Descriptors(f)
    BY <1>1, DescriptorsChange
  <2>6. file[f].count \in Nat /\ file[f].count = Descriptors(f)
    BY DEF Types, FileRecord, Tables, FileCounts
  <2> HIDE DEF A, B, C, Cut
  <2>7. /\ Cardinality(A \cap B) = 0 /\ Cardinality(A) \in Nat /\ Cardinality(B) \in Nat
        /\ Cardinality(A \cup B) = Cardinality(A) + Cardinality(B) - Cardinality(A \cap B)
    BY <2>2, <2>3, FS_Union, FS_EmptySet, FS_CardinalityType
  <2> QED BY <2>2, <2>4, <2>5, <2>6, <2>7
<1>3. /\ file' = [f \in Files |-> [file[f] EXCEPT !.count = file[f].count - Cut(f)]]
      /\ inode' = CASE Cardinality(gone) = 0 -> inode
                    [] Cardinality(gone) = 1 -> Iput(inode)
                    [] OTHER -> Iput(Iput(inode))
      /\ asleep' = Woken(Cardinality(gone))
      /\ report' = IF gone = {} THEN report ELSE "none"
      /\ UNCHANGED <<sent, received>>
  <2> DEFINE left == [f \in Files |-> file[f].count - Cut(f)]
             gone2 == {f \in Files : file[f].count > 0 /\ left[f] = 0}
  <2>1. file' = [f \in Files |-> [file[f] EXCEPT !.count = left[f]]]
    BY DEF CloseAll
  <2>2. inode' = CASE Cardinality(gone2) = 0 -> inode
                    [] Cardinality(gone2) = 1 -> Iput(inode)
                    [] OTHER -> Iput(Iput(inode))
    BY DEF CloseAll
  <2>3. gone2 = gone
    <3> HIDE DEF Cut
    <3> QED OBVIOUS
  <2>4. \A f \in Files : left[f] = file[f].count - Cut(f)
    <3> HIDE DEF Cut
    <3> QED OBVIOUS
  <2>7. /\ asleep' = Woken(Cardinality(gone2))
        /\ report' = IF gone2 = {} THEN report ELSE "none"
        /\ UNCHANGED <<sent, received>>
    BY DEF CloseAll
  <2> HIDE DEF Cut, left, gone, gone2
  <2>8. /\ asleep' = Woken(Cardinality(gone))
        /\ report' = IF gone = {} THEN report ELSE "none"
        /\ UNCHANGED <<sent, received>>
    BY <2>3, <2>7
  <2>5. inode' = CASE Cardinality(gone) = 0 -> inode
                    [] Cardinality(gone) = 1 -> Iput(inode)
                    [] OTHER -> Iput(Iput(inode))
    BY <2>2, <2>3
  <2>6. file' = [f \in Files |-> [file[f] EXCEPT !.count = file[f].count - Cut(f)]]
    BY <2>1, <2>4
  <2> QED BY <2>5, <2>6, <2>8
<1> HIDE DEF Cut
<1>4. ASSUME NEW f \in Files
      PROVE  /\ file'[f] \in FileRecord /\ file'[f].mode = file[f].mode
             /\ file'[f].count = file[f].count - Mine(filp[t], f) + Mine(filp'[t], f)
             /\ file'[f].count > 0 <=> (Open(f) /\ f \notin gone)
  <2>1. file[f] \in FileRecord
    BY DEF Types
  <2>2. file'[f] = [file[f] EXCEPT !.count = file[f].count - Cut(f)]
    BY <1>3
  <2>3. file[f].count - Cut(f) \in Nat
    BY <1>2
  <2>4. /\ file'[f] \in FileRecord /\ file'[f].mode = file[f].mode
        /\ file'[f].count = file[f].count - Cut(f)
    BY <2>1, <2>2, <2>3 DEF FileRecord
  <2> QED BY <1>2, <2>4 DEF Open
<1>5. file' \in [Files -> FileRecord]
  BY <1>3, <1>4
<1>6. /\ InodeCount' /\ inode' \in InodeRecord
      /\ inode'.count > 0 => /\ inode.count > 0 /\ inode'.head = inode.head
                             /\ inode'.tail = inode.tail /\ inode'.page = inode.page
  <2>1. gone \subseteq {f \in Files : Open(f)}
    BY DEF Open
  <2> HIDE DEF gone
  <2> QED BY <1>3, <1>4, <2>1, GoneStep DEF Tables
<1>7. Tables'
  <2> HIDE DEF gone
  <2>1. \A f \in Files : /\ file'[f].mode = file[f].mode
                         /\ file'[f].count = file[f].count - Mine(filp[t], f) + Mine(filp'[t], f)
                         /\ file'[f].count > 0 => file[f].count > 0
    BY <1>4 DEF Open
  <2> QED BY <1>1, <1>6, <2>1, OneRowStep
<1>8. Closes(gone)
  <2>1. gone \subseteq {f \in Files : Open(f)} /\ gone \subseteq Files
    BY DEF Open
  <2> HIDE DEF gone
  <2>2. IsFiniteSet(gone)
    <3>1. IsFiniteSet(Files)
      BY TablesAssumption, FS_Interval DEF Files
    <3> QED BY <2>1, <3>1, FS_Subset
  <2>3. Cardinality(gone) = 0 <=> gone = {}
    BY <2>2, FS_EmptySet
  <2>4. \A f \in Files : /\ file'[f].mode = file[f].mode
                         /\ (file'[f].count > 0) <=> (Open(f) /\ f \notin gone)
    BY <1>4
  <2>5. /\ gone = {} => inode' = inode /\ asleep' = asleep /\ report' = report
        /\ gone # {} => asleep' = {} /\ report' = "none"
    BY <1>3, <2>3 DEF Woken
  <2> QED BY <1>3, <2>1, <2>4, <2>5 DEF Closes
<1>9. \E G : Closes(G)
  <2> HIDE DEF gone
  <2> QED BY <1>8
<1> QED BY <1>1, <1>5, <1>6, <1>7, <1>9

\* close() and exit() keep the invariant.
LEMMA CloseStep ==
  ASSUME PipeInv, NEW t \in Tasks, Calls(t), NEW D \in SUBSET Fds, CloseAll(t, D),
         current' = current, call' = call,
         alive' = alive \/ (alive' = alive \ {t} /\ D = Fds)
  PROVE  PipeInv' /\ \E G : Closes(G)
<1>1. call[t].op = "none" /\ current = NULL /\ Types /\ Tables
  BY DEF Calls, PipeInv
<1>2. /\ filp' \in [Tasks -> [Fds -> Files \cup {NULL}]]
      /\ \A u \in Tasks \ {t} : filp'[u] = filp[u]
      /\ \A fd \in Fds : filp'[t][fd] = IF fd \in D THEN NULL ELSE filp[t][fd]
      /\ file' \in [Files -> FileRecord]
      /\ inode' \in InodeRecord /\ Tables'
      /\ inode'.count > 0 => /\ inode.count > 0 /\ inode'.head = inode.head
                             /\ inode'.tail = inode.tail /\ inode'.page = inode.page
      /\ \E G : Closes(G)
  BY <1>1, CloseAllEffect
<1>3. /\ sent' = sent /\ received' = received /\ torn' = torn /\ wrong' = wrong
      /\ asleep' = asleep \/ asleep' = {}
  BY DEF CloseAll, Woken
<1>4. Types'
  BY <1>1, <1>2, <1>3 DEF Types
<1>5. DeadHasNothing'
  BY <1>1, <1>2 DEF PipeInv, DeadHasNothing
<1>6. CallsGoOn'
  BY <1>3 DEF PipeInv, CallsGoOn
<1>7. Ring' /\ InStep'
  BY <1>1, <1>2, <1>3, IdleStep DEF PipeInv
<1> QED BY <1>2, <1>4, <1>5, <1>6, <1>7 DEF PipeInv

\* fork(): the child has the descriptors of its father.
LEMMA ForkStep ==
  ASSUME PipeInv, NEW t \in Tasks, NEW c \in Tasks, Fork(t, c)
  PROVE  /\ PipeInv'
         /\ \A f \in Files : /\ file'[f].mode = file[f].mode
                             /\ file'[f].count > 0 <=> file[f].count > 0
<1>1. /\ Types /\ Tables /\ current = NULL /\ c # t /\ t \in alive /\ c \notin alive
      /\ call[c].op = "none" /\ \A fd \in Fds : filp[c][fd] = NULL
  BY DEF Fork, Calls, PipeInv, DeadHasNothing
<1>2. /\ filp' \in [Tasks -> [Fds -> Files \cup {NULL}]] /\ filp'[c] = filp[t]
      /\ \A u \in Tasks \ {c} : filp'[u] = filp[u]
  BY <1>1 DEF Fork, Types
<1>3. /\ inode' = inode /\ call' = call /\ asleep' = asleep /\ current' = current
      /\ sent' = sent /\ received' = received /\ torn' = torn /\ wrong' = wrong
      /\ alive' = alive \cup {c}
  BY DEF Fork, history
<1>4. ASSUME NEW f \in Files
      PROVE  /\ file'[f] \in FileRecord /\ file'[f].mode = file[f].mode
             /\ file'[f].count = file[f].count - Mine(filp[c], f) + Mine(filp'[c], f)
             /\ file'[f].count > 0 <=> file[f].count > 0
  <2>1. file[f] \in FileRecord
    BY <1>1 DEF Types
  <2>2. file'[f] = [file[f] EXCEPT !.count = file[f].count + Mine(filp[t], f)]
    BY DEF Fork, Mine
  <2>3. Mine(filp[t], f) \in Nat /\ Mine(filp[c], f) \in Nat
    BY MineIsZero
  <2>4. Mine(filp[c], f) = 0
    <3>1. f # NULL
      BY TasksAssumption DEF Files
    <3> QED BY <1>1, <3>1, MineIsZero
  <2>5. Mine(filp[t], f) > 0 => file[f].count > 0
    <3> SUFFICES ASSUME Mine(filp[t], f) > 0 PROVE Open(f)
      BY DEF Open
    <3>1. PICK fd \in Fds : filp[t][fd] = f
      BY <2>3, MineIsZero
    <3>2. f # NULL
      BY TasksAssumption DEF Files
    <3> QED BY <1>1, <3>1, <3>2, DescriptorOpens DEF Tables
  <2>6. /\ file'[f] \in FileRecord /\ file'[f].mode = file[f].mode
        /\ file'[f].count = file[f].count + Mine(filp[t], f) /\ file[f].count \in Nat
    BY <2>1, <2>2, <2>3 DEF FileRecord
  <2> QED BY <1>2, <2>3, <2>4, <2>5, <2>6
<1>5. file' \in [Files -> FileRecord]
  <2>1. file' = [f \in Files |-> file'[f]]
    BY DEF Fork
  <2> QED BY <1>4, <2>1
<1>6. InodeCount'
  <2>1. EndOpen("read")' = EndOpen("read") /\ EndOpen("write")' = EndOpen("write")
    BY <1>4 DEF EndOpen, Open
  <2> QED BY <1>1, <1>3, <2>1 DEF Tables, InodeCount
<1>7. Tables'
  BY <1>1, <1>2, <1>3, <1>4, <1>6, OneRowStep
<1>8. Types'
  BY <1>1, <1>2, <1>3, <1>5 DEF Types
<1>9. DeadHasNothing' /\ CallsGoOn'
  BY <1>2, <1>3 DEF PipeInv, DeadHasNothing, CallsGoOn
<1>10. Ring' /\ InStep'
  BY <1>1, <1>3, IdleStep DEF PipeInv
<1> QED BY <1>4, <1>7, <1>8, <1>9, <1>10 DEF PipeInv

\* A free descriptor becomes one of an open file.
LEMMA DescriptorAdded ==
  ASSUME PipeInv, NEW t \in Tasks, NEW new \in Fds, NEW g, Calls(t), filp[t][new] = NULL,
         g \in Files, Open(g), g # NULL,
         filp' = [filp EXCEPT ![t][new] = g], file' = [file EXCEPT ![g].count = @ + 1],
         UNCHANGED <<inode, call, asleep, current, sent, received, torn, wrong, alive>>
  PROVE  PipeInv'
<1>1. Types /\ Tables /\ current = NULL /\ t \in alive /\ call[t].op = "none"
  BY DEF Calls, PipeInv
<1>6. /\ filp' \in [Tasks -> [Fds -> Files \cup {NULL}]]
      /\ \A u \in Tasks \ {t} : filp'[u] = filp[u]
      /\ \A n \in Fds \ {new} : filp'[t][n] = filp[t][n]
      /\ filp'[t][new] = g
  BY <1>1 DEF Types
<1>7. ASSUME NEW h \in Files
      PROVE  /\ file'[h] \in FileRecord /\ file'[h].mode = file[h].mode
             /\ file'[h].count = file[h].count - Mine(filp[t], h) + Mine(filp'[t], h)
             /\ file'[h].count > 0 <=> file[h].count > 0
  <2>1. file[h] \in FileRecord /\ file[h].count \in Nat
    BY <1>1 DEF Types, FileRecord
  <2>2. /\ file'[h] \in FileRecord /\ file'[h].mode = file[h].mode
        /\ file'[h].count = file[h].count + One(g = h)
    BY <1>1, <2>1 DEF One, Types, FileRecord
  <2>3. /\ Mine(filp[t], h) \in Nat /\ Mine(filp'[t], h) \in Nat
        /\ g = h => Mine(filp'[t], h) = Mine(filp[t], h) + 1
        /\ g # h => Mine(filp'[t], h) = Mine(filp[t], h)
    <3>1. h # NULL
      BY TasksAssumption DEF Files
    <3>2. SameBut(filp[t], filp'[t], new)
      BY <1>6 DEF SameBut
    <3>3. filp'[t][new] = g /\ filp[t][new] # h
      BY <1>6, <3>1
    <3> QED BY <3>2, <3>3, MineChange
  <2> QED BY <2>1, <2>2, <2>3 DEF One, Open
<1>8. file' \in [Files -> FileRecord]
  BY <1>1, <1>7 DEF Types
<1>9. InodeCount'
  <2>1. EndOpen("read")' = EndOpen("read") /\ EndOpen("write")' = EndOpen("write")
    BY <1>7 DEF EndOpen, Open
  <2> QED BY <1>1, <2>1 DEF Tables, InodeCount
<1>10. Tables'
  BY <1>1, <1>6, <1>7, <1>9, OneRowStep
<1>11. Types'
  BY <1>1, <1>6, <1>8 DEF Types
<1>12. DeadHasNothing' /\ CallsGoOn'
  BY <1>1, <1>6 DEF PipeInv, DeadHasNothing, CallsGoOn
<1>13. Ring' /\ InStep'
  BY <1>1, IdleStep DEF PipeInv
<1> QED BY <1>10, <1>11, <1>12, <1>13 DEF PipeInv

\* dup() and F_DUPFD keep the invariant.
LEMMA DupfdStep ==
  ASSUME PipeInv, NEW t \in Tasks, NEW old \in Fds, NEW arg \in Fds, Dupfd(t, old, arg)
  PROVE  PipeInv'
<1> DEFINE free == {n \in FreeFds(t) : n >= arg}
           g == filp[t][old]
<1>1. /\ Types /\ Tables /\ current = NULL /\ t \in alive /\ call[t].op = "none"
      /\ filp[t][old] # NULL
  BY DEF Dupfd, Calls, PipeInv
<1>2. PICK new \in Fds : new = Min(free) /\ filp[t][new] = NULL
  <2>1. free # {} /\ free \subseteq Nat
    BY DEF Dupfd, FreeFds, Fds
  <2>2. Min(free) \in free
    <3> HIDE DEF free
    <3> QED BY <2>1, MinIsIn
  <2>3. \A n \in free : n \in Fds /\ filp[t][n] = NULL
    BY DEF FreeFds
  <2> QED BY <2>2, <2>3
<1>3. filp' = [filp EXCEPT ![t][new] = g] /\ file' = [file EXCEPT ![g].count = @ + 1]
  BY <1>2 DEF Dupfd
<1>4. /\ inode' = inode /\ call' = call /\ asleep' = asleep /\ current' = current
      /\ sent' = sent /\ received' = received /\ torn' = torn /\ wrong' = wrong
      /\ alive' = alive
  BY DEF Dupfd, history
<1>5. g \in Files /\ Open(g) /\ g # NULL
  BY <1>1, DescriptorOpens DEF Tables
<1> HIDE DEF free, g
<1> QED BY <1>1, <1>2, <1>3, <1>4, <1>5, DescriptorAdded DEF Dupfd

\* dup2() keeps the invariant: the file that new was a descriptor of may be
\* closed for good.
LEMMA SysDup2Step ==
  ASSUME PipeInv, NEW t \in Tasks, NEW old \in Fds, NEW new \in Fds, SysDup2(t, old, new),
         filp[t][old] # filp[t][new]
  PROVE  PipeInv' /\ \E G : Closes(G)
<1> DEFINE f == filp[t][old]
           g == filp[t][new]
           G == IF file[g].count = 1 THEN {g} ELSE {}
<1>1. /\ Types /\ Tables /\ current = NULL /\ t \in alive /\ call[t].op = "none"
      /\ f # NULL /\ g # NULL /\ f # g
  BY DEF SysDup2, Calls, PipeInv
<1>2. f \in Files /\ Open(f) /\ g \in Files /\ Open(g)
  BY <1>1, DescriptorOpens DEF Tables
<1>3. /\ filp' = [filp EXCEPT ![t][new] = f]
      /\ file' = [file EXCEPT ![f].count = @ + 1, ![g].count = @ - 1]
      /\ inode' = IF file[g].count = 1 THEN Iput(inode) ELSE inode
      /\ asleep' = asleep \/ asleep' = {}
      /\ asleep' = IF file[g].count = 1 THEN {} ELSE asleep
      /\ report' = IF file[g].count = 1 THEN "none" ELSE report
  BY DEF SysDup2, Woken
<1>4. /\ call' = call /\ current' = current /\ alive' = alive
      /\ sent' = sent /\ received' = received /\ torn' = torn /\ wrong' = wrong
  BY DEF SysDup2, history
<1>5. g = filp[t][new]
  OBVIOUS
<1> HIDE DEF f, g
<1>6. /\ filp' \in [Tasks -> [Fds -> Files \cup {NULL}]]
      /\ \A u \in Tasks \ {t} : filp'[u] = filp[u]
      /\ \A n \in Fds \ {new} : filp'[t][n] = filp[t][n]
      /\ filp'[t][new] = f
  BY <1>1, <1>2, <1>3 DEF Types
<1>7. ASSUME NEW h \in Files
      PROVE  /\ file'[h] \in FileRecord /\ file'[h].mode = file[h].mode
             /\ file'[h].count = file[h].count - Mine(filp[t], h) + Mine(filp'[t], h)
             /\ file'[h].count > 0 <=> (Open(h) /\ h \notin G)
  <2>1. file[h] \in FileRecord /\ file[h].count \in Nat
    BY <1>1 DEF Types, FileRecord
  <2>2. /\ file'[h] \in FileRecord /\ file'[h].mode = file[h].mode
        /\ file'[h].count = file[h].count + One(f = h) - One(g = h)
    <3>1. CASE h = f
      BY <1>1, <1>2, <1>3, <2>1, <3>1 DEF One, Types, FileRecord
    <3>2. CASE h = g
      BY <1>1, <1>2, <1>3, <2>1, <3>2 DEF One, Types, FileRecord, Open
    <3>3. CASE h # f /\ h # g
      BY <1>1, <1>2, <1>3, <2>1, <3>3 DEF One, Types, FileRecord
    <3> QED BY <3>1, <3>2, <3>3
  <2>3. /\ Mine(filp[t], h) \in Nat /\ Mine(filp'[t], h) \in Nat
        /\ h = f => Mine(filp'[t], h) = Mine(filp[t], h) + 1
        /\ h = g => Mine(filp'[t], h) = Mine(filp[t], h) - 1
        /\ (h # f /\ h # g) => Mine(filp'[t], h) = Mine(filp[t], h)
    <3>1. SameBut(filp[t], filp'[t], new)
      BY <1>6 DEF SameBut
    <3> QED BY <1>1, <1>5, <1>6, <3>1, MineChange
  <2>5. file'[h].count = file[h].count - Mine(filp[t], h) + Mine(filp'[t], h)
    BY <1>1, <2>1, <2>2, <2>3 DEF One
  <2>6. file'[h].count > 0 <=> (Open(h) /\ h \notin G)
    BY <1>1, <1>2, <2>1, <2>2 DEF One, Open
  <2> QED BY <2>2, <2>5, <2>6
<1>8. file' \in [Files -> FileRecord]
  BY <1>1, <1>2, <1>3, <1>7 DEF Types
<1>9. /\ InodeCount' /\ inode' \in InodeRecord
      /\ inode'.count > 0 => /\ inode.count > 0 /\ inode'.head = inode.head
                             /\ inode'.tail = inode.tail /\ inode'.page = inode.page
  <2>1. G \subseteq {h \in Files : Open(h)}
    BY <1>2
  <2>2. Cardinality(G) = IF file[g].count = 1 THEN 1 ELSE 0
    BY FS_EmptySet, FS_Singleton
  <2>3. inode' = CASE Cardinality(G) = 0 -> inode
                   [] Cardinality(G) = 1 -> Iput(inode)
                   [] OTHER -> Iput(Iput(inode))
    BY <1>3, <2>2
  <2> HIDE DEF G
  <2> QED BY <1>1, <1>7, <2>1, <2>3, GoneStep DEF Tables
<1>14. Closes(G)
  BY <1>2, <1>3, <1>4, <1>7 DEF Closes
<1> HIDE DEF G
<1>10. Tables'
  <2>1. \A h \in Files : /\ file'[h].mode = file[h].mode
                         /\ file'[h].count = file[h].count - Mine(filp[t], h) + Mine(filp'[t], h)
                         /\ file'[h].count > 0 => file[h].count > 0
    BY <1>7 DEF Open
  <2> QED BY <1>1, <1>4, <1>6, <1>9, <2>1, OneRowStep
<1>11. Types'
  BY <1>1, <1>3, <1>4, <1>6, <1>8, <1>9 DEF Types
<1>12. DeadHasNothing' /\ CallsGoOn'
  BY <1>1, <1>3, <1>4, <1>6 DEF PipeInv, DeadHasNothing, CallsGoOn
<1>13. Ring' /\ InStep'
  BY <1>1, <1>4, <1>9, IdleStep DEF PipeInv
<1> QED BY <1>10, <1>11, <1>12, <1>13, <1>14 DEF PipeInv

\* There are two least elements of a set that has two elements.
LEMMA TwoLeast ==
  ASSUME NEW S, S \subseteq Nat, IsFiniteSet(S), Cardinality(S) >= 2
  PROVE  Min(S) \in S /\ Min(S \ {Min(S)}) \in S /\ Min(S \ {Min(S)}) # Min(S)
<1>1. S # {}
  BY FS_EmptySet
<1>2. Min(S) \in S
  BY <1>1, MinIsIn
<1> DEFINE m == Min(S)
           R == S \ {m}
<1> HIDE DEF m
<1>3. m \in S
  BY <1>2 DEF m
<1>4. Cardinality(R) = Cardinality(S) - 1 /\ IsFiniteSet(R) /\ Cardinality(S) \in Nat
  BY <1>3, FS_RemoveElement, FS_CardinalityType
<1>5. R # {} /\ R \subseteq Nat
  <2>1. Cardinality(R) # 0
    BY <1>4
  <2> QED BY <1>4, <2>1, FS_EmptySet
<1>6. Min(R) \in R
  <2> HIDE DEF R
  <2> QED BY <1>5, MinIsIn
<1> QED BY <1>3, <1>6 DEF m

\* A pipe is made only when there is none: no file is open, nobody is in a call.
LEMMA NoPipe ==
  ASSUME Types, Tables, CallsGoOn, inode.count = 0
  PROVE  /\ \A f \in Files : file[f].count = 0
         /\ \A t \in Tasks : /\ call[t].op = "none" /\ call[t].chars = 0
                             /\ \A fd \in Fds : filp[t][fd] = NULL
         /\ asleep = {}
<1>1. ~EndOpen("read") /\ ~EndOpen("write")
  BY DEF Tables, InodeCount, One
<1>2. \A f \in Files : file[f].count = 0
  <2>1. \A f \in Files : file[f].count \in Nat /\ file[f].mode \in {"read", "write"}
    BY DEF Types, FileRecord
  <2> QED BY <1>1, <2>1 DEF EndOpen, Open
<1>3. \A t \in Tasks : \A fd \in Fds : filp[t][fd] = NULL
  BY <1>2, DescriptorOpens DEF Open, Tables
<1>4. \A t \in Tasks : call[t].op = "none"
  BY <1>3 DEF Tables, CallsHaveFile
<1>5. \A t \in Tasks : call[t].chars = 0
  BY <1>4 DEF CallsGoOn
<1>6. asleep = {}
  BY <1>4 DEF CallsGoOn, Types
<1> QED BY <1>2, <1>3, <1>4, <1>5, <1>6

\* sys_pipe() keeps the invariant.
LEMMA SysPipeStep ==
  ASSUME PipeInv, NEW t \in Tasks, SysPipe(t)
  PROVE  PipeInv'
<1>1. Types /\ Tables /\ CallsGoOn /\ DeadHasNothing /\ t \in alive /\ current = NULL /\ inode.count = 0
  BY DEF PipeInv, SysPipe, Calls
<1>2. /\ \A f \in Files : file[f].count = 0
      /\ \A u \in Tasks : /\ call[u].op = "none" /\ call[u].chars = 0
                          /\ \A fd \in Fds : filp[u][fd] = NULL
      /\ asleep = {}
  BY <1>1, NoPipe
<1>3. PICK f0 \in Files, f1 \in Files :
        f0 = Min(FreeFiles) /\ f1 = Min(FreeFiles \ {Min(FreeFiles)}) /\ f0 # f1
  <2>1. FreeFiles \subseteq Nat /\ FreeFiles \subseteq Files
    BY DEF FreeFiles, Files
  <2>2. IsFiniteSet(FreeFiles)
    <3>1. IsFiniteSet(Files)
      BY TablesAssumption, FS_Interval DEF Files
    <3> QED BY <2>1, <3>1, FS_Subset
  <2>3. Cardinality(FreeFiles) >= 2
    BY DEF SysPipe
  <2>4. /\ Min(FreeFiles) \in FreeFiles /\ Min(FreeFiles \ {Min(FreeFiles)}) \in FreeFiles
        /\ Min(FreeFiles \ {Min(FreeFiles)}) # Min(FreeFiles)
    BY <2>1, <2>2, <2>3, TwoLeast
  <2> QED BY <2>1, <2>4
<1>4. PICK fd0 \in Fds, fd1 \in Fds :
        fd0 = Min(FreeFds(t)) /\ fd1 = Min(FreeFds(t) \ {Min(FreeFds(t))}) /\ fd0 # fd1
  <2> DEFINE S == FreeFds(t)
  <2>1. S \subseteq Nat /\ S \subseteq Fds
    BY DEF FreeFds, Fds
  <2>2. IsFiniteSet(S)
    <3>1. IsFiniteSet(Fds)
      BY TablesAssumption, FS_Interval DEF Fds
    <3> QED BY <2>1, <3>1, FS_Subset
  <2>3. Cardinality(S) >= 2
    BY DEF SysPipe
  <2> HIDE DEF S
  <2>4. Min(S) \in S /\ Min(S \ {Min(S)}) \in S /\ Min(S \ {Min(S)}) # Min(S)
    BY <2>1, <2>2, <2>3, TwoLeast
  <2> QED BY <2>1, <2>4 DEF S
<1>5. /\ filp' = [filp EXCEPT ![t][fd0] = f0, ![t][fd1] = f1]
      /\ file' = [file EXCEPT ![f0] = [count |-> 1, mode |-> "read"],
                              ![f1] = [count |-> 1, mode |-> "write"]]
  BY <1>3, <1>4 DEF SysPipe
<1>6. /\ f0 \in Files /\ f1 \in Files /\ f0 # f1 /\ fd0 \in Fds /\ fd1 \in Fds /\ fd0 # fd1
      /\ f0 # NULL /\ f1 # NULL
  BY <1>3, <1>4, TasksAssumption DEF Files
<1>7. /\ inode' = [NoInode EXCEPT !.count = 2]
      /\ sent' = 0 /\ received' = 0 /\ torn' = FALSE /\ wrong' = FALSE
      /\ current' = current /\ alive' = alive /\ call' = call /\ asleep' = asleep
  BY DEF SysPipe
<1> DEFINE d == filp[t]
           m == [d EXCEPT ![fd0] = f0]
           e == [m EXCEPT ![fd1] = f1]
<1>8. /\ filp' \in [Tasks -> [Fds -> Files \cup {NULL}]]
      /\ \A u \in Tasks \ {t} : filp'[u] = filp[u]
      /\ filp'[t] = e
  <2>1. filp' = [filp EXCEPT ![t] = e]
    BY <1>5
  <2>2. d \in [Fds -> Files \cup {NULL}]
    BY <1>1 DEF Types
  <2> HIDE DEF d
  <2>3. e \in [Fds -> Files \cup {NULL}]
    BY <1>6, <2>2
  <2> HIDE DEF e
  <2> QED BY <1>1, <2>1, <2>3 DEF Types
<1>9. /\ SameBut(d, m, fd0) /\ SameBut(m, e, fd1)
      /\ \A fd \in Fds : d[fd] = NULL
      /\ m[fd0] = f0 /\ m[fd1] = NULL /\ e[fd0] = f0 /\ e[fd1] = f1
      /\ \A fd \in Fds \ {fd0, fd1} : e[fd] = NULL
  <2>1. d \in [Fds -> Files \cup {NULL}] /\ \A fd \in Fds : d[fd] = NULL
    BY <1>1, <1>2 DEF Types
  <2> HIDE DEF d
  <2> QED BY <1>6, <2>1 DEF SameBut
<1>10. d = filp[t]
  OBVIOUS
<1> HIDE DEF d, m, e
<1>11. ASSUME NEW f \in Files
       PROVE  /\ Mine(d, f) = 0 /\ Mine(e, f) \in Nat
              /\ (f = f0 \/ f = f1) => Mine(e, f) = 1
              /\ (f # f0 /\ f # f1) => Mine(e, f) = 0
  <2>1. f # NULL
    BY TasksAssumption DEF Files
  <2>2. Mine(d, f) = 0
    BY <1>9, <2>1, MineIsZero
  <2>3. /\ Mine(m, f) \in Nat
        /\ f = f0 => Mine(m, f) = Mine(d, f) + 1
        /\ f # f0 => Mine(m, f) = Mine(d, f)
    <3>1. d[fd0] # f /\ m[fd0] = f0 /\ SameBut(d, m, fd0)
      BY <1>6, <1>9, <2>1
    <3> QED BY <1>6, <3>1, MineChange
  <2>4. /\ Mine(e, f) \in Nat
        /\ f = f1 => Mine(e, f) = Mine(m, f) + 1
        /\ f # f1 => Mine(e, f) = Mine(m, f)
    <3>1. m[fd1] # f /\ e[fd1] = f1 /\ SameBut(m, e, fd1)
      BY <1>9, <2>1
    <3> QED BY <1>6, <3>1, MineChange
  <2> QED BY <1>6, <2>2, <2>3, <2>4
<1>12. /\ file' \in [Files -> FileRecord]
       /\ file'[f0].count = 1 /\ file'[f0].mode = "read"
       /\ file'[f1].count = 1 /\ file'[f1].mode = "write"
       /\ \A f \in Files : f # f0 /\ f # f1 => file'[f].count = 0
  BY <1>1, <1>2, <1>5, <1>6 DEF Types, FileRecord
<1>13. FileCounts'
  <2> SUFFICES ASSUME NEW f \in Files PROVE file'[f].count = Descriptors(f)'
    BY DEF FileCounts
  <2>1. Descriptors(f) = 0
    BY <1>1, <1>2 DEF Tables, FileCounts
  <2>2. Descriptors(f)' = Descriptors(f) - Mine(filp[t], f) + Mine(filp'[t], f)
    BY <1>8, DescriptorsChange
  <2>3. Descriptors(f)' = Mine(e, f)
    BY <1>8, <1>10, <1>11, <2>1, <2>2
  <2> QED BY <1>11, <1>12, <2>3
<1>14. OneFilePerEnd' /\ EndOpen("read")' /\ EndOpen("write")'
  BY <1>6, <1>12 DEF OneFilePerEnd, EndOpen, Open
<1>15. /\ inode' \in InodeRecord /\ inode'.count = 2 /\ inode'.head = 0 /\ inode'.tail = 0
  BY <1>7, PageAssumption, SMTT(30) DEF InodeRecord, NoInode
<1>16. Tables'
  <2>1. InodeCount'
    BY <1>14, <1>15 DEF InodeCount, One
  <2>2. CallsHaveFile'
    BY <1>2, <1>7 DEF CallsHaveFile
  <2> QED BY <1>13, <1>14, <2>1, <2>2 DEF Tables
<1>17. Types'
  BY <1>1, <1>7, <1>8, <1>12, <1>15 DEF Types
<1>18. DeadHasNothing' /\ CallsGoOn'
  BY <1>1, <1>2, <1>7, <1>8 DEF DeadHasNothing, CallsGoOn
<1>19. Ring'
  BY <1>7, <1>15, PageAssumption DEF Ring, Wrap
<1>20. InStep'
  <2>1. (\A u \in Tasks : Copying(u))'
    BY <1>2, <1>7 DEF Copying
  <2>2. Held'
    BY <1>7 DEF Held
  <2> QED BY <1>7, <2>1, <2>2 DEF InStep
<1> QED BY <1>16, <1>17, <1>18, <1>19, <1>20 DEF PipeInv

-----------------------------------------------------------------------------
(* read_pipe() and write_pipe().                                           *)

\* A step of a call that leaves the tables alone: of two tasks only one is
\* in the kernel, and only it has a call that changes.
LEMMA CallStep ==
  ASSUME PipeInv, NEW t \in Tasks, NEW c \in CallRecord, call' = [call EXCEPT ![t] = c],
         UNCHANGED <<alive, filp, file>>, inode'.count = inode.count,
         c.op # "none" => /\ c.count + c.chars > 0
                          /\ \E fd \in Fds : filp[t][fd] # NULL /\ file[filp[t][fd]].mode = c.op,
         c.op = "none" => c.chars = 0,
         t \in alive,
         asleep' \subseteq asleep \cup {t}, t \in asleep' => c.op # "none"
  PROVE  DeadHasNothing' /\ CallsGoOn' /\ Tables'
<1>1. call'[t] = c /\ \A u \in Tasks \ {t} : call'[u] = call[u]
  BY DEF PipeInv, Types
<1>2. DeadHasNothing'
  BY <1>1 DEF PipeInv, DeadHasNothing
<1>3. CallsGoOn'
  BY <1>1 DEF PipeInv, CallsGoOn, Types
<1>4. FileCounts' /\ OneFilePerEnd' /\ InodeCount'
  BY DEF PipeInv, Tables, FileCounts, OneFilePerEnd, InodeCount, Open, EndOpen, Descriptors
<1>5. CallsHaveFile'
  BY <1>1 DEF PipeInv, Tables, CallsHaveFile
<1> QED BY <1>2, <1>3, <1>4, <1>5 DEF Tables

\* A task in a call is alive and has its file open.
LEMMA InCall ==
  ASSUME PipeInv, NEW t \in Tasks, call[t].op # "none"
  PROVE  /\ t \in alive /\ inode.count > 0 /\ call[t] \in CallRecord /\ inode.count \in Nat
         /\ call[t].count + call[t].chars > 0
         /\ \E fd \in Fds : filp[t][fd] # NULL /\ file[filp[t][fd]].mode = call[t].op
<1>1. PICK fd \in Fds : filp[t][fd] # NULL /\ file[filp[t][fd]].mode = call[t].op
  BY DEF PipeInv, Tables, CallsHaveFile
<1>2. filp[t][fd] \in Files /\ Open(filp[t][fd])
  BY <1>1, DescriptorOpens DEF PipeInv, Tables
<1>3. call[t] \in CallRecord /\ call[t].op \in {"read", "write"} /\ inode.count \in Nat
  BY DEF PipeInv, Types, CallRecord, InodeRecord
<1>4. EndOpen("read") \/ EndOpen("write")
  BY <1>1, <1>2, <1>3 DEF EndOpen
<1>5. inode.count > 0
  BY <1>4 DEF PipeInv, Tables, InodeCount, One
<1>6. t \in alive
  BY DEF PipeInv, DeadHasNothing
<1>7. call[t].count + call[t].chars > 0
  BY DEF PipeInv, CallsGoOn
<1> QED BY <1>1, <1>3, <1>5, <1>6, <1>7

\* read() and write() enter the kernel.
LEMMA EnterStep ==
  ASSUME PipeInv, NEW t \in Tasks, NEW fd \in Fds, NEW op \in {"read", "write"}, NEW n \in Counts,
         Enter(t, fd, op, n)
  PROVE  PipeInv'
<1> DEFINE c == [NoCall EXCEPT !.op = op, !.count = n]
<1>1. /\ t \in alive /\ current = NULL /\ call[t].op = "none"
      /\ filp[t][fd] # NULL /\ file[filp[t][fd]].mode = op
      /\ call' = [call EXCEPT ![t] = c] /\ current' = t
      /\ UNCHANGED <<alive, filp, file, inode, asleep, sent, received, torn, wrong>>
  BY DEF Enter, Calls, history
<1>2. n \in Nat /\ n > 0
  BY CountsAssumption
<1>3. c \in CallRecord /\ c.op = op /\ c.count = n /\ c.chars = 0
  BY <1>2 DEF NoCall, CallRecord
<1> HIDE DEF c
<1>4. call[t].chars = 0 /\ t \notin asleep
  BY <1>1 DEF PipeInv, CallsGoOn
<1>5. DeadHasNothing' /\ CallsGoOn' /\ Tables'
  <2>1. c.count + c.chars > 0 /\ c.op # "none"
    BY <1>2, <1>3
  <2>2. \E n0 \in Fds : filp[t][n0] # NULL /\ file[filp[t][n0]].mode = c.op
    BY <1>1, <1>3
  <2>3. inode'.count = inode.count /\ asleep' \subseteq asleep \cup {t}
    BY <1>1
  <2> QED BY <1>1, <1>3, <2>1, <2>2, <2>3, CallStep
<1>6. \A u \in Tasks : call'[u].chars = call[u].chars
  BY <1>1, <1>3, <1>4 DEF PipeInv, Types
<1>7. Ring' /\ InStep'
  BY <1>1, <1>6, IdleStep DEF PipeInv
<1>8. Types'
  BY <1>1, <1>3 DEF PipeInv, Types
<1> QED BY <1>5, <1>7, <1>8 DEF PipeInv

\* A call that finds the pipe empty or full returns or goes to sleep.
LEMMA WaitStep ==
  ASSUME PipeInv, NEW t \in Tasks, NEW op \in {"read", "write"}, AtLoop(t, op),
         Return(t) \/ (WakeAndSleep(t) /\ UNCHANGED call),
         UNCHANGED <<alive, filp, file, inode, sent, received, torn, wrong>>
  PROVE  PipeInv'
<1>1. current \in {NULL, t} /\ call[t].op = op /\ call[t].chars = 0
  BY DEF AtLoop, Runs
<1>2. /\ t \in alive /\ call[t] \in CallRecord /\ call[t].count + call[t].chars > 0
      /\ \E fd \in Fds : filp[t][fd] # NULL /\ file[filp[t][fd]].mode = call[t].op
  BY <1>1, InCall
<1>3. NoCall \in CallRecord /\ NoCall.op = "none" /\ NoCall.chars = 0
  BY DEF NoCall, CallRecord
<1>4. PICK c \in CallRecord : /\ call' = [call EXCEPT ![t] = c] /\ c.chars = 0
                              /\ c = call[t] \/ c = NoCall
                              /\ asleep' \subseteq {t} /\ (t \in asleep' => c = call[t])
  <2>1. CASE Return(t)
    BY <1>3, <2>1 DEF Return
  <2>2. CASE WakeAndSleep(t) /\ UNCHANGED call
    <3>1. call' = [call EXCEPT ![t] = call[t]]
      BY <2>2 DEF PipeInv, Types
    <3> QED BY <1>1, <1>2, <2>2, <3>1 DEF WakeAndSleep
  <2> QED BY <2>1, <2>2
<1>5. current' = NULL
  BY DEF Return, WakeAndSleep
<1>6. DeadHasNothing' /\ CallsGoOn' /\ Tables'
  BY <1>1, <1>2, <1>3, <1>4, CallStep
<1>7. \A u \in Tasks : call'[u].chars = call[u].chars
  BY <1>1, <1>4 DEF PipeInv, Types
<1>8. Ring' /\ InStep'
  BY <1>1, <1>7, IdleStep DEF PipeInv
<1>9. Types'
  BY <1>4, <1>5 DEF PipeInv, Types
<1> QED BY <1>6, <1>8, <1>9 DEF PipeInv

\* What moving PIPE_HEAD or PIPE_TAIL does to the call
Moved(t, n, z, q) ==
  [call EXCEPT ![t].count = @ - n, ![t].chars = n, ![t].size = z, ![t].seq = q]

\* It is a change of the call of t to one that has bytes to copy.
LEMMA MoveCall ==
  ASSUME call \in [Tasks -> CallRecord], NEW t \in Tasks, NEW n \in Nat, n <= call[t].count,
         NEW z \in Nat, NEW q \in Nat,
         call' = Moved(t, n, z, q)
  PROVE  \E c \in CallRecord :
           /\ call' = [call EXCEPT ![t] = c] /\ c.op = call[t].op
           /\ c.count = call[t].count - n /\ c.chars = n /\ c.size = z /\ c.seq = q
<1> DEFINE r == call[t]
           s == [r EXCEPT !.count = r.count - n, !.chars = n]
           c == [s EXCEPT !.size = z, !.seq = q]
<1>1. r \in CallRecord /\ n <= r.count
  OBVIOUS
<1>2. call' = [call EXCEPT ![t] = c]
  BY DEF Moved
<1> HIDE DEF r
<1>3. s \in CallRecord /\ s.op = r.op /\ s.count = r.count - n /\ s.chars = n
  <2>1. r.count - n \in Nat
    BY <1>1 DEF CallRecord
  <2> DEFINE a == r.count - n
  <2> HIDE DEF a
  <2>2. a \in Nat /\ s = [r EXCEPT !.count = a, !.chars = n]
    BY <2>1 DEF a
  <2>3. s \in CallRecord /\ s.op = r.op /\ s.count = a /\ s.chars = n
    BY <1>1, <2>2 DEF CallRecord
  <2> QED BY <2>3 DEF a
<1> HIDE DEF s
<1>4. /\ c \in CallRecord /\ c.op = r.op /\ c.count = r.count - n /\ c.chars = n
      /\ c.size = z /\ c.seq = q
  BY <1>3 DEF CallRecord
<1> QED BY <1>2, <1>4 DEF r

\* When the task that may run has nothing to copy nobody has, without a fault.
LEMMA NobodyCopies ==
  ASSUME Types, InStep, ~torn, NEW t \in Tasks, current \in {NULL, t}, call[t].chars = 0
  PROVE  \A u \in Tasks : ~(call[u].chars > 0)
<1>1. \A u \in Tasks : call[u].chars \in Nat
  BY DEF Types, CallRecord
<1>2. \A u \in Tasks : call[u].chars > 0 => current = u
  BY DEF InStep, Copying
<1> QED BY <1>1, <1>2, TasksAssumption

\* The remainder of a position that is at most one page on
LEMMA WrapIsMod ==
  ASSUME NEW a \in Nat, a <= PageSize
  PROVE  a % PageSize = Wrap(a) /\ Wrap(a) \in 0..PageSize - 1
<1>1. PageSize \in Nat /\ PageSize > 1
  BY PageAssumption
<1>2. CASE a = PageSize
  <2>1. PageSize % PageSize = 0
    BY <1>1
  <2> QED BY <1>1, <1>2, <2>1 DEF Wrap
<1>3. CASE a < PageSize
  BY <1>1, <1>3 DEF Wrap
<1> QED BY <1>1, <1>2, <1>3

\* read_pipe() moves PIPE_TAIL.
LEMMA ReadMoveStep ==
  ASSUME PipeInv, NEW t \in Tasks, ReadMove(t)
  PROVE  PipeInv' /\ received' \in received + 1..sent
<1> DEFINE S == {PageSize - inode.tail, call[t].count, Size}
<1>1. /\ current \in {NULL, t} /\ call[t].op = "read" /\ call[t].chars = 0 /\ Size > 0
      /\ current' = t /\ t \notin asleep
      /\ UNCHANGED <<alive, filp, file, asleep, sent, torn, wrong>>
  BY DEF ReadMove, AtLoop, Runs
<1>2. /\ t \in alive /\ inode.count > 0 /\ call[t] \in CallRecord /\ call[t].count + call[t].chars > 0
      /\ \E fd \in Fds : filp[t][fd] # NULL /\ file[filp[t][fd]].mode = call[t].op
  BY <1>1, InCall
<1>3. Types /\ Ring /\ InStep
  BY DEF PipeInv
<1>4. /\ PageSize \in Nat /\ PageSize > 1 /\ inode \in InodeRecord /\ inode.head \in 0..PageSize - 1
      /\ inode.tail \in 0..PageSize - 1 /\ sent \in Nat /\ received \in Nat
      /\ call[t].count \in Nat /\ call[t].count > 0
  BY <1>1, <1>2, <1>3, PageAssumption DEF Types, InodeRecord, CallRecord
<1>5. Size = sent - received /\ Size \in 0..PageSize - 1
  BY <1>2, <1>3, SizeIs
<1>6. PICK n \in Nat : /\ n = Min(S) /\ n >= 1 /\ n <= PageSize - inode.tail
                       /\ n <= call[t].count /\ n <= sent - received
  <2>1. S \subseteq Nat /\ S # {} /\ \A m \in S : m >= 1
    BY <1>1, <1>4, <1>5
  <2> HIDE DEF S
  <2>2. Min(S) \in S /\ \A m \in S : Min(S) <= m
    BY <2>1, MinIsIn
  <2> DEFINE m == Min(S)
  <2> HIDE DEF m
  <2>3. m \in S /\ \A k \in S : m <= k
    BY <2>2 DEF m
  <2>4. m \in Nat /\ m >= 1 /\ m <= PageSize - inode.tail /\ m <= call[t].count /\ m <= Size
    BY <2>1, <2>3 DEF S
  <2> QED BY <1>5, <2>4 DEF m
<1>7. /\ call' = Moved(t, n, inode.tail, received + 1)
      /\ inode' = [inode EXCEPT !.tail = (@ + n) % PageSize]
      /\ received' = received + n
  BY <1>6 DEF ReadMove, Moved
<1> HIDE DEF S
<1>8. PICK c \in CallRecord :
           /\ call' = [call EXCEPT ![t] = c] /\ c.op = "read"
           /\ c.count = call[t].count - n /\ c.chars = n /\ c.size = inode.tail
           /\ c.seq = received + 1
  <2> DEFINE z == inode.tail
             q == received + 1
  <2>1. /\ z \in Nat /\ q \in Nat /\ call \in [Tasks -> CallRecord]
        /\ call' = Moved(t, n, z, q)
    BY <1>3, <1>4, <1>7 DEF Types
  <2> HIDE DEF z, q
  <2>2. \E c \in CallRecord :
           /\ call' = [call EXCEPT ![t] = c] /\ c.op = call[t].op
           /\ c.count = call[t].count - n /\ c.chars = n /\ c.size = z /\ c.seq = q
    BY <1>6, <2>1, MoveCall
  <2> QED BY <1>1, <2>2 DEF z, q
<1>9. /\ inode' \in InodeRecord /\ inode'.count = inode.count /\ inode'.head = inode.head
      /\ inode'.page = inode.page /\ inode'.tail = Wrap(inode.tail + n)
      /\ Wrap(inode.tail + n) \in 0..PageSize - 1
  <2> DEFINE a == inode.tail + n
  <2>1. a \in Nat /\ a <= PageSize
    BY <1>4, <1>6
  <2> HIDE DEF a
  <2>2. a % PageSize = Wrap(a) /\ Wrap(a) \in 0..PageSize - 1
    BY <2>1, WrapIsMod
  <2> DEFINE w == Wrap(a)
  <2>3. inode' = [inode EXCEPT !.tail = w] /\ w \in 0..PageSize - 1
    BY <1>7, <2>2 DEF a
  <2> HIDE DEF w
  <2>4. /\ inode' \in InodeRecord /\ inode'.count = inode.count /\ inode'.head = inode.head
        /\ inode'.page = inode.page /\ inode'.tail = w
    BY <1>4, <2>3 DEF InodeRecord
  <2> QED BY <2>3, <2>4 DEF a, w
<1>10. call'[t] = c /\ \A u \in Tasks \ {t} : call'[u] = call[u]
  BY <1>3, <1>8 DEF Types
<1>11. DeadHasNothing' /\ CallsGoOn' /\ Tables'
  <2>1. c.count + c.chars > 0 /\ c.op # "none" /\ asleep' \subseteq asleep \cup {t}
    BY <1>1, <1>4, <1>6, <1>8
  <2>2. \E fd \in Fds : filp[t][fd] # NULL /\ file[filp[t][fd]].mode = c.op
    BY <1>1, <1>2, <1>8
  <2> QED BY <1>1, <1>2, <1>8, <1>9, <2>1, <2>2, CallStep
<1>12. Types'
  <2>1. call' \in [Tasks -> CallRecord] /\ received' \in Nat
    BY <1>3, <1>4, <1>7, <1>8 DEF Types
  <2> QED BY <1>1, <1>3, <1>9, <2>1 DEF Types
<1>13. Ring'
  <2>1. /\ received <= sent /\ sent - received < PageSize
        /\ inode.head = Wrap(inode.tail + (sent - received))
    BY <1>2, <1>3 DEF Ring
  <2>2. sent' = sent /\ received' = received + n
    BY <1>1, <1>7
  <2>3. received' <= sent' /\ sent' - received' < PageSize
    BY <1>4, <1>6, <2>1, <2>2
  <2>4. inode.head = Wrap(Wrap(inode.tail + n) + (sent - (received + n)))
    BY <1>4, <1>6, <2>1 DEF Wrap
  <2> QED BY <1>9, <2>2, <2>3, <2>4 DEF Ring, Wrap
<1>14. ASSUME ~torn PROVE ~wrong' /\ (\A u \in Tasks : Copying(u))' /\ Held'
  <2>1. \A u \in Tasks : ~(call[u].chars > 0)
    BY <1>1, <1>3, <1>14, NobodyCopies
  <2>2. \A k \in received + 1..sent : inode.page[Place(k)] = k
    BY <1>2, <1>3, <1>14, <2>1 DEF InStep, Held
  <2>3. Copying(t)'
    <3>1. \A i \in inode.tail..inode.tail + n - 1 :
            inode.page[i] = received + 1 + (i - inode.tail)
      <4> SUFFICES ASSUME NEW i \in inode.tail..inode.tail + n - 1
                   PROVE  inode.page[i] = received + 1 + (i - inode.tail)
        OBVIOUS
      <4> DEFINE k == received + 1 + (i - inode.tail)
      <4>1. k \in received + 1..sent /\ Place(k) = i
        BY <1>4, <1>6 DEF Place, Wrap
      <4> HIDE DEF k
      <4>2. inode.page[Place(k)] = k
        BY <2>2, <4>1
      <4> QED BY <4>1, <4>2 DEF k
    <3>2. c.size + c.chars <= PageSize
      BY <1>4, <1>6, <1>8
    <3>3. \A i \in c.size..c.size + c.chars - 1 : inode'.page[i] = c.seq + (i - c.size)
      BY <1>8, <1>9, <3>1
    <3> QED BY <1>1, <1>8, <1>10, <3>2, <3>3 DEF Copying
  <2>4. \A u \in Tasks \ {t} : Copying(u)'
    BY <1>10, <2>1 DEF Copying
  <2>5. Held'
    <3> SUFFICES ASSUME NEW k \in received' + 1..sent' PROVE inode'.page[Place(k)'] = k
      BY DEF Held
    <3>1. k \in received + 1..sent
      BY <1>1, <1>4, <1>6, <1>7
    <3>2. Place(k)' = Place(k)
      BY <1>1, <1>4, <1>6, <1>7, <1>9, <1>3, <1>2 DEF Place, Wrap, Ring
    <3> QED BY <1>9, <2>2, <3>1, <3>2
  <2>6. ~wrong'
    BY <1>1, <1>3, <1>14 DEF InStep
  <2> QED BY <2>3, <2>4, <2>5, <2>6
<1>15. InStep'
  BY <1>1, <1>14 DEF InStep
<1>16. received' \in received + 1..sent
  BY <1>4, <1>6, <1>7
<1> QED BY <1>11, <1>12, <1>13, <1>15, <1>16 DEF PipeInv

\* write_pipe() moves PIPE_HEAD.
LEMMA WriteMoveStep ==
  ASSUME PipeInv, NEW t \in Tasks, WriteMove(t)
  PROVE  PipeInv' /\ sent' \in sent + 1..received + (PageSize - 1)
<1> DEFINE S == {PageSize - inode.head, call[t].count, PageSize - 1 - Size}
<1>1. /\ current \in {NULL, t} /\ call[t].op = "write" /\ call[t].chars = 0
      /\ Size < PageSize - 1 /\ current' = t /\ t \notin asleep
      /\ UNCHANGED <<alive, filp, file, asleep, received, torn, wrong>>
  BY DEF WriteMove, AtLoop, Runs
<1>2. /\ t \in alive /\ inode.count > 0 /\ call[t] \in CallRecord /\ call[t].count + call[t].chars > 0
      /\ \E fd \in Fds : filp[t][fd] # NULL /\ file[filp[t][fd]].mode = call[t].op
  BY <1>1, InCall
<1>3. Types /\ Ring /\ InStep
  BY DEF PipeInv
<1>4. /\ PageSize \in Nat /\ PageSize > 1 /\ inode \in InodeRecord /\ inode.head \in 0..PageSize - 1
      /\ inode.tail \in 0..PageSize - 1 /\ sent \in Nat /\ received \in Nat
      /\ call[t].count \in Nat /\ call[t].count > 0
  BY <1>1, <1>2, <1>3, PageAssumption DEF Types, InodeRecord, CallRecord
<1>5. Size = sent - received /\ Size \in 0..PageSize - 1
  BY <1>2, <1>3, SizeIs
<1>6. PICK n \in Nat : /\ n = Min(S) /\ n >= 1 /\ n <= PageSize - inode.head
                       /\ n <= call[t].count /\ n <= PageSize - 1 - (sent - received)
  <2>1. S \subseteq Nat /\ S # {} /\ \A m \in S : m >= 1
    BY <1>1, <1>4, <1>5
  <2> HIDE DEF S
  <2>2. Min(S) \in S /\ \A m \in S : Min(S) <= m
    BY <2>1, MinIsIn
  <2> DEFINE m == Min(S)
  <2> HIDE DEF m
  <2>3. m \in S /\ \A k \in S : m <= k
    BY <2>2 DEF m
  <2>4. /\ m \in Nat /\ m >= 1 /\ m <= PageSize - inode.head /\ m <= call[t].count
        /\ m <= PageSize - 1 - Size
    BY <2>1, <2>3 DEF S
  <2> QED BY <1>5, <2>4 DEF m
<1>7. /\ call' = Moved(t, n, inode.head, sent + 1)
      /\ inode' = [inode EXCEPT !.head = (@ + n) % PageSize]
      /\ sent' = sent + n
  BY <1>6 DEF WriteMove, Moved
<1> HIDE DEF S
<1>8. PICK c \in CallRecord :
           /\ call' = [call EXCEPT ![t] = c] /\ c.op = "write"
           /\ c.count = call[t].count - n /\ c.chars = n /\ c.size = inode.head
           /\ c.seq = sent + 1
  <2> DEFINE z == inode.head
             q == sent + 1
  <2>1. /\ z \in Nat /\ q \in Nat /\ call \in [Tasks -> CallRecord]
        /\ call' = Moved(t, n, z, q)
    BY <1>3, <1>4, <1>7 DEF Types
  <2> HIDE DEF z, q
  <2>2. \E c \in CallRecord :
           /\ call' = [call EXCEPT ![t] = c] /\ c.op = call[t].op
           /\ c.count = call[t].count - n /\ c.chars = n /\ c.size = z /\ c.seq = q
    BY <1>6, <2>1, MoveCall
  <2> QED BY <1>1, <2>2 DEF z, q
<1>9. /\ inode' \in InodeRecord /\ inode'.count = inode.count /\ inode'.tail = inode.tail
      /\ inode'.page = inode.page /\ inode'.head = Wrap(inode.head + n)
  <2> DEFINE a == inode.head + n
  <2>1. a \in Nat /\ a <= PageSize
    BY <1>4, <1>6
  <2> HIDE DEF a
  <2>2. a % PageSize = Wrap(a) /\ Wrap(a) \in 0..PageSize - 1
    BY <2>1, WrapIsMod
  <2> DEFINE w == Wrap(a)
  <2>3. inode' = [inode EXCEPT !.head = w] /\ w \in 0..PageSize - 1
    BY <1>7, <2>2 DEF a
  <2> HIDE DEF w
  <2>4. /\ inode' \in InodeRecord /\ inode'.count = inode.count /\ inode'.tail = inode.tail
        /\ inode'.page = inode.page /\ inode'.head = w
    BY <1>4, <2>3 DEF InodeRecord
  <2> QED BY <2>4 DEF a, w
<1>10. call'[t] = c /\ \A u \in Tasks \ {t} : call'[u] = call[u]
  BY <1>3, <1>8 DEF Types
<1>11. DeadHasNothing' /\ CallsGoOn' /\ Tables'
  <2>1. c.count + c.chars > 0 /\ c.op # "none" /\ asleep' \subseteq asleep \cup {t}
    BY <1>1, <1>4, <1>6, <1>8
  <2>2. \E fd \in Fds : filp[t][fd] # NULL /\ file[filp[t][fd]].mode = c.op
    BY <1>1, <1>2, <1>8
  <2> QED BY <1>1, <1>2, <1>8, <1>9, <2>1, <2>2, CallStep
<1>12. Types'
  <2>1. call' \in [Tasks -> CallRecord] /\ sent' \in Nat
    BY <1>3, <1>4, <1>7, <1>8 DEF Types
  <2> QED BY <1>1, <1>3, <1>9, <2>1 DEF Types
<1>13. Ring'
  BY <1>1, <1>2, <1>3, <1>4, <1>6, <1>7, <1>9 DEF Ring, Wrap
<1>14. ASSUME ~torn PROVE ~wrong' /\ (\A u \in Tasks : Copying(u))' /\ Held'
  <2>1. \A u \in Tasks : ~(call[u].chars > 0)
    BY <1>1, <1>3, <1>14, NobodyCopies
  <2>2. \A k \in received + 1..sent : inode.page[Place(k)] = k
    BY <1>2, <1>3, <1>14, <2>1 DEF InStep, Held
  <2>3. Copying(t)'
    <3>1. c.size + c.chars <= PageSize
      BY <1>4, <1>6, <1>8
    <3>2. c.seq + c.chars = sent' + 1 /\ c.chars <= sent' - received'
      BY <1>1, <1>2, <1>3, <1>4, <1>6, <1>7, <1>8 DEF Ring
    <3>3. c.size = Wrap(inode'.tail + (c.seq - received' - 1))
      BY <1>1, <1>2, <1>3, <1>4, <1>8, <1>9 DEF Ring, Wrap
    <3> QED BY <1>1, <1>8, <1>10, <3>1, <3>2, <3>3 DEF Copying, Place
  <2>4. \A u \in Tasks \ {t} : Copying(u)'
    BY <1>10, <2>1 DEF Copying
  <2>5. Held'
    <3> SUFFICES ASSUME NEW k \in received' + 1..sent', k < c.seq
                 PROVE  inode'.page[Place(k)'] = k
      <4>1. call'[t].op = "write" /\ call'[t].chars > 0 /\ call'[t].seq = c.seq
        BY <1>6, <1>8, <1>10
      <4> QED BY <4>1 DEF Held
    <3>1. k \in received + 1..sent
      BY <1>1, <1>4, <1>6, <1>7, <1>8
    <3>2. Place(k)' = Place(k)
      BY <1>1, <1>9 DEF Place, Wrap
    <3> QED BY <1>9, <2>2, <3>1, <3>2
  <2>6. ~wrong'
    BY <1>1, <1>3, <1>14 DEF InStep
  <2> QED BY <2>3, <2>4, <2>5, <2>6
<1>15. InStep'
  BY <1>1, <1>14 DEF InStep
<1>16. sent' \in sent + 1..received + (PageSize - 1)
  BY <1>4, <1>6, <1>7
<1> QED BY <1>11, <1>12, <1>13, <1>15, <1>16 DEF PipeInv

\* What copying n bytes of the round does to the page
LEMMA CopyEffect ==
  ASSUME Types, NEW t \in Tasks, call[t].op # "none", NEW n \in Nat, CopyBytes(t, n)
  PROVE  /\ inode' \in InodeRecord /\ inode'.count = inode.count
         /\ inode'.head = inode.head /\ inode'.tail = inode.tail /\ wrong' \in BOOLEAN
         /\ call[t].op = "read" =>
              /\ inode' = inode
              /\ wrong' <=> (wrong \/ \E i \in call[t].size..call[t].size + n - 1 :
                               inode.page[i] # call[t].seq + (i - call[t].size))
         /\ call[t].op = "write" =>
              /\ wrong' = wrong
              /\ \A i \in 0..PageSize - 1 :
                   inode'.page[i] = IF i \in call[t].size..call[t].size + n - 1
                                    THEN call[t].seq + (i - call[t].size) ELSE inode.page[i]
<1>1. /\ inode \in InodeRecord /\ call[t].op \in {"read", "write"} /\ wrong \in BOOLEAN
      /\ call[t].size \in Nat /\ call[t].seq \in Nat
      /\ inode.page \in [0..PageSize - 1 -> Nat]
  BY DEF Types, CallRecord, InodeRecord
<1>2. CASE call[t].op = "read"
  BY <1>1, <1>2 DEF CopyBytes
<1>3. CASE call[t].op = "write"
  <2> DEFINE p == [i \in 0..PageSize - 1 |->
                     IF i \in call[t].size..call[t].size + n - 1
                     THEN call[t].seq + (i - call[t].size) ELSE inode.page[i]]
  <2>1. DOMAIN inode.page = 0..PageSize - 1
    BY <1>1
  <2>2. inode' = [inode EXCEPT !.page = p] /\ wrong' = wrong
    BY <1>3, <2>1 DEF CopyBytes
  <2>3. p \in [0..PageSize - 1 -> Nat]
    <3>1. ASSUME NEW i \in 0..PageSize - 1
          PROVE  (IF i \in call[t].size..call[t].size + n - 1
                  THEN call[t].seq + (i - call[t].size) ELSE inode.page[i]) \in Nat
      <4>1. inode.page[i] \in Nat
        BY <1>1
      <4>2. i \in Nat
        BY PageAssumption
      <4> QED BY <1>1, <4>1, <4>2, SMTT(30)
    <3> QED BY <3>1
  <2>4. \A i \in 0..PageSize - 1 :
          p[i] = IF i \in call[t].size..call[t].size + n - 1
                 THEN call[t].seq + (i - call[t].size) ELSE inode.page[i]
    OBVIOUS
  <2> HIDE DEF p
  <2>5. /\ inode' \in InodeRecord /\ inode'.count = inode.count
        /\ inode'.head = inode.head /\ inode'.tail = inode.tail /\ inode'.page = p
    BY <1>1, <2>2, <2>3 DEF InodeRecord
  <2> QED BY <1>1, <1>3, <2>2, <2>4, <2>5
<1> QED BY <1>1, <1>2, <1>3

\* A fault in the middle of a transfer
LEMMA CopyFaultStep ==
  ASSUME PipeInv, NEW t \in Tasks, NEW n \in 0..PageSize - 1, CopyFault(t, n)
  PROVE  PipeInv'
<1> DEFINE r == call[t]
           s == [r EXCEPT !.chars = r.chars - n, !.size = r.size + n]
           c == [s EXCEPT !.seq = r.seq + n, !.faulted = TRUE]
<1>1. /\ call[t].op # "none" /\ t \notin asleep /\ n < call[t].chars /\ CopyBytes(t, n)
      /\ current' = NULL /\ torn' = TRUE
      /\ UNCHANGED <<alive, filp, file, asleep, sent, received>>
  BY DEF CopyFault, Runs
<1>2. n \in Nat
  BY PageAssumption
<1>3. call' = [call EXCEPT ![t] = c]
  BY DEF CopyFault
<1>4. /\ t \in alive /\ r \in CallRecord /\ r.op # "none" /\ n < r.chars
      /\ \E fd \in Fds : filp[t][fd] # NULL /\ file[filp[t][fd]].mode = r.op
  BY <1>1, InCall
<1>5. /\ inode' \in InodeRecord /\ inode'.count = inode.count
      /\ inode'.head = inode.head /\ inode'.tail = inode.tail /\ wrong' \in BOOLEAN
  BY <1>1, <1>2, CopyEffect DEF PipeInv
<1> HIDE DEF r
<1>6. r.chars - n \in Nat /\ r.chars - n > 0 /\ r.size + n \in Nat /\ r.seq + n \in Nat /\ r.count \in Nat
  BY <1>2, <1>4 DEF CallRecord
<1>7. s \in CallRecord /\ s.op = r.op /\ s.count = r.count /\ s.chars = r.chars - n
  <2> DEFINE a == r.chars - n
             b == r.size + n
  <2>1. a \in Nat /\ b \in Nat
    BY <1>6
  <2> HIDE DEF a, b
  <2>2. s = [r EXCEPT !.chars = a, !.size = b]
    BY DEF a, b
  <2>3. s \in CallRecord /\ s.op = r.op /\ s.count = r.count /\ s.chars = a
    BY <1>4, <2>1, <2>2 DEF CallRecord
  <2> QED BY <2>3 DEF a
<1> HIDE DEF s
<1>8. c \in CallRecord /\ c.op = r.op /\ c.count = r.count /\ c.chars = r.chars - n
  <2> DEFINE q == r.seq + n
  <2>1. q \in Nat
    BY <1>6
  <2> HIDE DEF q
  <2>2. c = [s EXCEPT !.seq = q, !.faulted = TRUE]
    BY DEF q
  <2>3. c \in CallRecord /\ c.op = s.op /\ c.count = s.count /\ c.chars = s.chars
    BY <1>7, <2>1, <2>2 DEF CallRecord
  <2> QED BY <1>7, <2>3
<1> HIDE DEF c
<1>9. DeadHasNothing' /\ CallsGoOn' /\ Tables'
  <2>1. c.count + c.chars > 0 /\ c.op # "none" /\ asleep' \subseteq asleep \cup {t}
    BY <1>1, <1>4, <1>6, <1>8
  <2>2. \E fd \in Fds : filp[t][fd] # NULL /\ file[filp[t][fd]].mode = c.op
    BY <1>4, <1>8
  <2> QED BY <1>1, <1>3, <1>4, <1>5, <1>8, <2>1, <2>2, CallStep
<1>10. Types'
  <2>1. call' \in [Tasks -> CallRecord]
    BY <1>3, <1>8 DEF PipeInv, Types
  <2> QED BY <1>1, <1>5, <2>1 DEF PipeInv, Types
<1>11. Ring'
  BY <1>1, <1>5 DEF PipeInv, Ring, Wrap
<1>12. InStep'
  BY <1>1 DEF InStep
<1> QED BY <1>9, <1>10, <1>11, <1>12 DEF PipeInv

\* The bytes that a writer copies go where they belong.
LEMMA WrittenInPlace ==
  ASSUME NEW q \in Nat, NEW n \in Nat, NEW z \in Nat, z + n <= PageSize, q + n = sent + 1,
         n <= sent - received, z = Place(q), sent - received < PageSize, received <= sent,
         sent \in Nat, received \in Nat, inode.tail \in 0..PageSize - 1, n > 0
  PROVE  \A k \in received + 1..sent :
           /\ Place(k) \in 0..PageSize - 1
           /\ k >= q => Place(k) \in z..z + n - 1 /\ q + (Place(k) - z) = k
           /\ k < q => Place(k) \notin z..z + n - 1
<1> SUFFICES ASSUME NEW k \in received + 1..sent
             PROVE  /\ Place(k) \in 0..PageSize - 1
                    /\ k >= q => Place(k) \in z..z + n - 1 /\ q + (Place(k) - z) = k
                    /\ k < q => Place(k) \notin z..z + n - 1
  OBVIOUS
<1>1. PageSize \in Nat /\ PageSize > 1
  BY PageAssumption
<1>2. Place(k) \in 0..PageSize - 1
  BY <1>1 DEF Place, Wrap
<1>3. ASSUME k >= q PROVE Place(k) \in z..z + n - 1 /\ q + (Place(k) - z) = k
  BY <1>1, <1>3 DEF Place, Wrap
<1>4. ASSUME k < q PROVE Place(k) \notin z..z + n - 1
  BY <1>1, <1>4 DEF Place, Wrap
<1> QED BY <1>2, <1>3, <1>4

\* The rest of a round is copied.
LEMMA CopyStep ==
  ASSUME PipeInv, NEW t \in Tasks, Copy(t)
  PROVE  PipeInv'
<1> DEFINE r == call[t]
           n == call[t].chars
<1>1. /\ r.op # "none" /\ t \notin asleep /\ n > 0 /\ CopyBytes(t, n) /\ current \in {NULL, t}
      /\ current' \in {NULL, t} /\ (asleep' = asleep \/ asleep' = {})
      /\ UNCHANGED <<alive, filp, file, sent, received, torn>>
  BY DEF Copy, Runs, Return
<1>2. /\ t \in alive /\ inode.count > 0 /\ r \in CallRecord
      /\ \E fd \in Fds : filp[t][fd] # NULL /\ file[filp[t][fd]].mode = r.op
  BY <1>1, InCall
<1>3. Types /\ Ring /\ InStep
  BY DEF PipeInv
<1>4. r.op \in {"read", "write"} /\ n \in Nat /\ r.size \in Nat /\ r.seq \in Nat /\ r.count \in Nat
  BY <1>1, <1>2 DEF CallRecord
<1>5. /\ inode' \in InodeRecord /\ inode'.count = inode.count
      /\ inode'.head = inode.head /\ inode'.tail = inode.tail /\ wrong' \in BOOLEAN
      /\ r.op = "read" =>
           /\ inode' = inode
           /\ wrong' <=> (wrong \/ \E i \in r.size..r.size + n - 1 :
                            inode.page[i] # r.seq + (i - r.size))
      /\ r.op = "write" =>
           /\ wrong' = wrong
           /\ \A i \in 0..PageSize - 1 :
                inode'.page[i] = IF i \in r.size..r.size + n - 1
                                 THEN r.seq + (i - r.size) ELSE inode.page[i]
  BY <1>1, <1>3, <1>4, CopyEffect
<1>6. PICK c \in CallRecord :
           /\ call' = [call EXCEPT ![t] = c] /\ c.chars = 0
           /\ c.op = "none" \/ (c.op = r.op /\ c.count > 0)
  <2>1. CASE r.count = 0
    <3>1. NoCall \in CallRecord /\ NoCall.op = "none" /\ NoCall.chars = 0
      BY DEF NoCall, CallRecord
    <3> QED BY <2>1, <3>1 DEF Copy, Return
  <2>2. CASE r.count # 0
    <3> DEFINE c == [r EXCEPT !.chars = 0, !.size = 0, !.seq = 0]
    <3>1. call' = [call EXCEPT ![t] = c]
      BY <2>2 DEF Copy
    <3> HIDE DEF r
    <3>2. c \in CallRecord /\ c.chars = 0 /\ c.op = r.op /\ c.count = r.count
      BY <1>2 DEF CallRecord
    <3>3. c.count > 0
      BY <1>4, <2>2, <3>2
    <3> HIDE DEF c
    <3> QED BY <3>1, <3>2, <3>3
  <2> QED BY <2>1, <2>2
<1>7. call'[t] = c /\ \A u \in Tasks \ {t} : call'[u] = call[u]
  BY <1>3, <1>6 DEF Types
<1>8. r = call[t] /\ n = call[t].chars
  OBVIOUS
<1> HIDE DEF r, n
<1>9. DeadHasNothing' /\ CallsGoOn' /\ Tables'
  <2>1. c.op # "none" => c.count + c.chars > 0 /\ c.op = r.op
    BY <1>6 DEF CallRecord
  <2>2. c.op # "none" => \E fd \in Fds : filp[t][fd] # NULL /\ file[filp[t][fd]].mode = c.op
    BY <1>2, <2>1
  <2>3. asleep' \subseteq asleep \cup {t} /\ t \notin asleep'
    BY <1>1
  <2> QED BY <1>1, <1>2, <1>5, <1>6, <2>1, <2>2, <2>3, CallStep
<1>10. Types'
  <2>1. call' \in [Tasks -> CallRecord]
    BY <1>3, <1>6 DEF Types
  <2> QED BY <1>1, <1>3, <1>5, <2>1 DEF Types
<1>11. Ring'
  BY <1>1, <1>3, <1>5 DEF Ring, Wrap
<1>12. ASSUME ~torn PROVE ~wrong' /\ (\A u \in Tasks : Copying(u))' /\ Held'
  <2>1. ~wrong /\ (\A u \in Tasks : Copying(u)) /\ Held
    BY <1>3, <1>12 DEF InStep
  <2>2. /\ current = t /\ r.size + n <= PageSize
        /\ r.op = "read" => \A i \in r.size..r.size + n - 1 : inode.page[i] = r.seq + (i - r.size)
        /\ r.op = "write" => /\ r.seq + n = sent + 1 /\ n <= sent - received
                             /\ r.size = Place(r.seq)
    BY <1>1, <1>8, <2>1 DEF Copying
  <2>3. \A u \in Tasks \ {t} : ~(call[u].chars > 0)
    BY <2>1, <2>2 DEF Copying
  <2>4. (\A u \in Tasks : Copying(u))'
    BY <1>6, <1>7, <2>3 DEF Copying
  <2>5. ~wrong'
    BY <1>4, <1>5, <2>1, <2>2
  <2>6. \A k : Place(k)' = Place(k)
    BY <1>1, <1>5 DEF Place, Wrap
  <2>7. CASE r.op = "read"
    <3>1. Held'
      <4> SUFFICES ASSUME NEW k \in received' + 1..sent' PROVE inode'.page[Place(k)'] = k
        BY DEF Held
      <4>1. inode.page[Place(k)] = k
        BY <1>1, <1>2, <1>8, <2>1, <2>3, <2>7 DEF Held
      <4> QED BY <1>5, <2>6, <2>7, <4>1
    <3> QED BY <2>4, <2>5, <3>1
  <2>8. CASE r.op = "write"
    <3>1. Held'
      <4> SUFFICES ASSUME NEW k \in received' + 1..sent' PROVE inode'.page[Place(k)'] = k
        BY DEF Held
      <4>1. k \in received + 1..sent
        BY <1>1
      <4>2. /\ sent \in Nat /\ received \in Nat /\ received <= sent /\ sent - received < PageSize
            /\ inode.tail \in 0..PageSize - 1
        BY <1>2, <1>3 DEF Types, InodeRecord, Ring
      <4>3. /\ Place(k) \in 0..PageSize - 1
            /\ k >= r.seq => Place(k) \in r.size..r.size + n - 1 /\ r.seq + (Place(k) - r.size) = k
            /\ k < r.seq => Place(k) \notin r.size..r.size + n - 1
        <5> DEFINE q == r.seq
                   z == r.size
        <5>1. /\ q \in Nat /\ z \in Nat /\ n \in Nat /\ n > 0 /\ z + n <= PageSize
              /\ q + n = sent + 1 /\ n <= sent - received /\ z = Place(q)
          BY <1>1, <1>4, <2>2, <2>8
        <5> HIDE DEF q, z
        <5>2. \A j \in received + 1..sent :
                /\ Place(j) \in 0..PageSize - 1
                /\ j >= q => Place(j) \in z..z + n - 1 /\ q + (Place(j) - z) = j
                /\ j < q => Place(j) \notin z..z + n - 1
          <6> HIDE DEF Place
          <6> QED BY <4>2, <5>1, WrittenInPlace
        <5> QED BY <4>1, <5>2 DEF q, z
      <4>4. CASE k >= r.seq
        BY <1>5, <2>6, <2>8, <4>3, <4>4
      <4>5. CASE k < r.seq
        <5>1. inode.page[Place(k)] = k
          BY <1>2, <1>8, <2>1, <2>3, <4>1, <4>5 DEF Held
        <5> QED BY <1>5, <2>6, <2>8, <4>3, <4>5, <5>1
      <4> QED BY <1>4, <4>1, <4>2, <4>4, <4>5
    <3> QED BY <2>4, <2>5, <3>1
  <2> QED BY <1>4, <2>7, <2>8
<1>13. InStep'
  BY <1>1, <1>12 DEF InStep
<1> QED BY <1>9, <1>10, <1>11, <1>13 DEF PipeInv

-----------------------------------------------------------------------------
(* The theorems.                                                           *)

\* There is no pipe at the start.
LEMMA PipeInit ==
  ASSUME Init
  PROVE  PipeInv
<1>1. NoCall \in CallRecord /\ NoCall.op = "none" /\ NoCall.chars = 0
  BY DEF NoCall, CallRecord
<1>2. NoInode \in InodeRecord /\ NoInode.count = 0
  BY PageAssumption DEF NoInode, InodeRecord
<1>3. Types
  BY <1>1, <1>2, FirstAssumption DEF Init, Types, FileRecord
<1>4. \A f \in Files : Descriptors(f) = 0
  <2> SUFFICES ASSUME NEW f \in Files PROVE Descriptors(f) = 0
    OBVIOUS
  <2>1. f # NULL
    BY TasksAssumption DEF Files
  <2>2. {d \in Tasks \X Fds : filp[d[1]][d[2]] = f} = {}
    BY <2>1 DEF Init
  <2> QED BY <2>2, FS_EmptySet DEF Descriptors
<1>5. Tables
  BY <1>1, <1>2, <1>4 DEF Init, Tables, FileCounts, OneFilePerEnd, InodeCount, CallsHaveFile,
     EndOpen, Open, One
<1>6. DeadHasNothing /\ CallsGoOn
  BY <1>1 DEF Init, DeadHasNothing, CallsGoOn
<1>7. Ring /\ InStep
  BY <1>1, <1>2 DEF Init, Ring, InStep, Copying, Held
<1> QED BY <1>3, <1>5, <1>6, <1>7 DEF PipeInv

\* What a step of the pipe is to its invariant
LEMMA PipeStep ==
  ASSUME PipeInv, [Next]_vars
  PROVE  PipeInv'
<1>1. CASE UNCHANGED vars
  <2>1. Types' /\ DeadHasNothing' /\ CallsGoOn'
    BY <1>1 DEF vars, PipeInv, Types, DeadHasNothing, CallsGoOn
  <2>2. Tables'
    BY <1>1 DEF vars, PipeInv, Tables, FileCounts, Descriptors, OneFilePerEnd, Open, InodeCount,
       EndOpen, CallsHaveFile
  <2>3. Ring'
    BY <1>1 DEF vars, PipeInv, Ring, Wrap
  <2>4. (\A t \in Tasks : Copying(t)) => (\A t \in Tasks : Copying(t))'
    BY <1>1 DEF vars, Copying, Place, Wrap
  <2>5. Held => Held'
    BY <1>1 DEF vars, Held, Place, Wrap
  <2>6. InStep'
    BY <1>1, <2>4, <2>5 DEF vars, PipeInv, InStep
  <2> QED BY <2>1, <2>2, <2>3, <2>6 DEF PipeInv
<1>2. ASSUME NEW t \in Tasks, ReadEmpty(t) PROVE PipeInv'
  <2>1. Return(t) \/ (WakeAndSleep(t) /\ UNCHANGED call)
    BY <1>2 DEF ReadEmpty
  <2>2. AtLoop(t, "read") /\ UNCHANGED <<alive, filp, file, inode, sent, received, torn, wrong>>
    BY <1>2 DEF ReadEmpty
  <2> QED BY <2>1, <2>2, WaitStep
<1>3. ASSUME NEW t \in Tasks, WriteFull(t) PROVE PipeInv'
  <2>1. Return(t) \/ (WakeAndSleep(t) /\ UNCHANGED call)
    BY <1>3 DEF WriteFull
  <2>2. AtLoop(t, "write") /\ UNCHANGED <<alive, filp, file, inode, sent, received, torn, wrong>>
    BY <1>3 DEF WriteFull
  <2> QED BY <2>1, <2>2, WaitStep
<1>4. ASSUME NEW t \in Tasks, Step(t) PROVE PipeInv'
  BY <1>2, <1>3, <1>4, ReadMoveStep, WriteMoveStep, CopyStep, CopyFaultStep DEF Step
<1>5. ASSUME NEW t \in Tasks, DoExit(t) PROVE PipeInv'
  BY <1>5, CloseStep DEF DoExit
<1>6. ASSUME NEW t \in Tasks, NEW fd \in Fds, SysClose(t, fd) PROVE PipeInv'
  <2>1. /\ Calls(t) /\ CloseAll(t, {fd}) /\ current' = current /\ call' = call
        /\ alive' = alive /\ {fd} \in SUBSET Fds
    BY <1>6 DEF SysClose
  <2> QED BY <2>1, CloseStep
<1>7. ASSUME NEW t \in Tasks, NEW fd \in Fds, NEW n \in Fds, SysDup2(t, fd, n) PROVE PipeInv'
  <2>1. CASE filp[t][fd] = filp[t][n]
    <3>1. UNCHANGED vars
      BY <1>7, <2>1 DEF SysDup2, vars, history
    <3> QED BY <1>1, <3>1
  <2>2. CASE filp[t][fd] # filp[t][n]
    BY <1>7, <2>2, SysDup2Step
  <2> QED BY <2>1, <2>2
<1> QED BY <1>1, <1>4, <1>5, <1>6, <1>7, SysPipeStep, ForkStep, DupfdStep, EnterStep DEF Next

(***************************************************************************)
(* i_count is the number of open files and f_count that of descriptors,    *)
(* through fork(), dup(), dup2(), close() and exit() of any tasks, and a   *)
(* task in read_pipe() or write_pipe() has its file open.                  *)
(***************************************************************************)
THEOREM CountsAlwaysMatch == Spec => []CountsMatch
<1>1. Spec => []PipeInv
  BY PipeInit, PipeStep, PTL DEF Spec
<1>2. PipeInv => CountsMatch
  <2> SUFFICES ASSUME PipeInv PROVE CountsMatch
    OBVIOUS
  <2> DEFINE G == {f \in Files : file[f].count > 0}
  <2>1. IsFiniteSet(G)
    <3>1. IsFiniteSet(Files)
      BY TablesAssumption, FS_Interval DEF Files
    <3> QED BY <3>1, FS_Subset
  <2>2. \A f \in Files : file[f].mode \in {"read", "write"}
    BY DEF PipeInv, Types, FileRecord
  <2>3. \A f, g \in G : file[f].mode = file[g].mode => f = g
    BY DEF PipeInv, Tables, OneFilePerEnd, Open
  <2>4. CASE EndOpen("read") /\ EndOpen("write")
    <3>1. PICK f \in G, g \in G : file[f].mode = "read" /\ file[g].mode = "write"
      BY <2>4 DEF EndOpen, Open
    <3>2. G = {f, g} /\ f # g
      BY <2>2, <2>3, <3>1
    <3> HIDE DEF G
    <3>3. Cardinality(G) = 2
      <4>1. IsFiniteSet({f}) /\ Cardinality({f}) = 1
        BY FS_Singleton
      <4>2. Cardinality({f} \cup {g}) = Cardinality({f}) + 1
        BY <3>2, <4>1, FS_AddElement
      <4>3. G = {f} \cup {g}
        BY <3>2
      <4> QED BY <4>1, <4>2, <4>3
    <3>4. inode.count = 2
      BY <2>4 DEF PipeInv, Tables, InodeCount, One
    <3> QED BY <3>3, <3>4 DEF PipeInv, Tables, FileCounts, CallsHaveFile, CountsMatch, G
  <2>5. ASSUME NEW m, NEW w, m # w, m \in {"read", "write"}, w \in {"read", "write"},
               EndOpen(m), ~EndOpen(w)
        PROVE  CountsMatch
    <3>1. PICK f \in G : file[f].mode = m
      BY <2>5 DEF EndOpen, Open
    <3>2. G = {f}
      BY <2>2, <2>3, <2>5, <3>1 DEF EndOpen, Open
    <3> HIDE DEF G
    <3>3. Cardinality(G) = 1
      BY <3>2, FS_Singleton
    <3>4. inode.count = 1
      BY <2>5 DEF PipeInv, Tables, InodeCount, One
    <3> QED BY <3>3, <3>4 DEF PipeInv, Tables, FileCounts, CallsHaveFile, CountsMatch, G
  <2>6. CASE ~EndOpen("read") /\ ~EndOpen("write")
    <3>1. G = {}
      BY <2>2, <2>6 DEF EndOpen, Open
    <3> HIDE DEF G
    <3>2. Cardinality(G) = 0
      BY <3>1, FS_EmptySet
    <3>3. inode.count = 0
      BY <2>6 DEF PipeInv, Tables, InodeCount, One
    <3> QED BY <3>2, <3>3 DEF PipeInv, Tables, FileCounts, CallsHaveFile, CountsMatch, G
  <2> QED BY <2>4, <2>5, <2>6
<1> QED BY <1>1, <1>2, PTL

(***************************************************************************)
(* The bytes come out of a pipe in the order in which they went in, where  *)
(* the ring wraps around too, unless a task faulted on its buffer during a *)
(* transfer.                                                               *)
(***************************************************************************)
THEOREM BytesInOrder == Spec => []InOrder
<1>1. PipeInv => InOrder
  BY DEF PipeInv, InStep, InOrder
<1> QED BY <1>1, PipeInit, PipeStep, PTL DEF Spec

\* A step that leaves calls, sleepers and the inode alone, or leaves nobody
\* asleep, or is of a task that is in a call and awake
LEMMA SleepersKept ==
  ASSUME PipeInv, NoForgottenSleeper,
         \/ UNCHANGED <<call, asleep, inode>>
         \/ asleep' = {}
         \/ \E t \in Tasks : call'[t].op # "none" /\ t \notin asleep'
  PROVE  NoForgottenSleeper'
<1>1. CASE UNCHANGED <<call, asleep, inode>>
  BY <1>1 DEF NoForgottenSleeper, Size
<1>2. CASE asleep' = {}
  BY <1>2 DEF NoForgottenSleeper
<1>3. CASE \E t \in Tasks : call'[t].op # "none" /\ t \notin asleep'
  BY <1>3 DEF NoForgottenSleeper
<1> QED BY <1>1, <1>2, <1>3

\* No step forgets a sleeper.
LEMMA SleepersStep ==
  ASSUME PipeInv, NoForgottenSleeper, [Next]_vars
  PROVE  NoForgottenSleeper'
<1>1. CASE UNCHANGED vars
  BY <1>1, SleepersKept DEF vars
<1>2. ASSUME NEW t \in Tasks, ReadEmpty(t) PROVE NoForgottenSleeper'
  <2>1. CASE inode.count # 2
    BY <1>2, <2>1, SleepersKept DEF ReadEmpty, Return
  <2>2. CASE inode.count = 2
    <3>1. /\ asleep' = {t} /\ call' = call /\ inode' = inode /\ Size = 0
          /\ call[t].op = "read"
      BY <1>2, <2>2 DEF ReadEmpty, WakeAndSleep, AtLoop
    <3> QED BY <2>2, <3>1 DEF NoForgottenSleeper, Size
  <2> QED BY <2>1, <2>2
<1>3. ASSUME NEW t \in Tasks, WriteFull(t) PROVE NoForgottenSleeper'
  <2>1. CASE inode.count # 2
    BY <1>3, <2>1, SleepersKept DEF WriteFull, Return
  <2>2. CASE inode.count = 2
    <3>1. /\ asleep' = {t} /\ call' = call /\ inode' = inode /\ Size = PageSize - 1
          /\ call[t].op = "write"
      BY <1>3, <2>2 DEF WriteFull, WakeAndSleep, AtLoop
    <3> QED BY <2>2, <3>1 DEF NoForgottenSleeper, Size
  <2> QED BY <2>1, <2>2
<1>4. ASSUME NEW t \in Tasks, NEW n,
             ReadMove(t) \/ WriteMove(t) \/ CopyFault(t, n) \/ (Copy(t) /\ call[t].count # 0)
      PROVE  NoForgottenSleeper'
  <2>1. t \notin asleep' /\ call[t].op # "none"
    BY <1>4 DEF ReadMove, WriteMove, Copy, CopyFault, AtLoop, Runs
  <2>2. call[t] \in CallRecord /\ call \in [Tasks -> CallRecord]
    BY DEF PipeInv, Types
  <2>3. call'[t].op = call[t].op
    <3>1. CASE ReadMove(t)
      BY <2>2, <3>1 DEF ReadMove, CallRecord
    <3>2. CASE WriteMove(t)
      BY <2>2, <3>2 DEF WriteMove, CallRecord
    <3>3. CASE CopyFault(t, n)
      BY <2>2, <3>3 DEF CopyFault, CallRecord
    <3>4. CASE Copy(t) /\ call[t].count # 0
      BY <2>2, <3>4 DEF Copy, CallRecord
    <3> QED BY <1>4, <3>1, <3>2, <3>3, <3>4
  <2> QED BY <2>1, <2>3, SleepersKept
<1>5. ASSUME NEW t \in Tasks, Copy(t), call[t].count = 0 PROVE NoForgottenSleeper'
  BY <1>5, SleepersKept DEF Copy, Return
<1>6. ASSUME NEW t \in Tasks, Step(t) PROVE NoForgottenSleeper'
  <2>1. ASSUME NEW n \in 0..PageSize - 1, CopyFault(t, n) PROVE NoForgottenSleeper'
    BY <1>4, <2>1
  <2>2. CASE Copy(t)
    BY <1>4, <1>5, <2>2
  <2>3. CASE ReadMove(t) \/ WriteMove(t)
    BY <1>4, <2>3
  <2> QED BY <1>2, <1>3, <1>6, <2>1, <2>2, <2>3 DEF Step
<1>7. ASSUME call' = call, \E G : Closes(G) PROVE NoForgottenSleeper'
  BY <1>7, SleepersKept DEF Closes
<1>8. ASSUME NEW t \in Tasks, DoExit(t) PROVE NoForgottenSleeper'
  <2>1. call' = call /\ \E G : Closes(G)
    BY <1>8, CloseStep DEF DoExit
  <2> QED BY <1>7, <2>1
<1>9. ASSUME NEW t \in Tasks, NEW fd \in Fds, SysClose(t, fd) PROVE NoForgottenSleeper'
  <2>1. /\ Calls(t) /\ CloseAll(t, {fd}) /\ current' = current /\ call' = call
        /\ alive' = alive /\ {fd} \in SUBSET Fds
    BY <1>9 DEF SysClose
  <2>2. \E G : Closes(G)
    BY <2>1, CloseStep
  <2> QED BY <1>7, <2>1, <2>2
<1>10. ASSUME NEW t \in Tasks, NEW fd \in Fds, NEW n \in Fds, SysDup2(t, fd, n)
       PROVE  NoForgottenSleeper'
  <2>1. CASE filp[t][fd] = filp[t][n]
    BY <1>10, <2>1, SleepersKept DEF SysDup2
  <2>2. CASE filp[t][fd] # filp[t][n]
    <3>1. call' = call /\ \E G : Closes(G)
      BY <1>10, <2>2, SysDup2Step DEF SysDup2
    <3> QED BY <1>7, <3>1
  <2> QED BY <2>1, <2>2
<1>11. ASSUME NEW t \in Tasks, SysPipe(t) PROVE NoForgottenSleeper'
  <2>1. asleep = {} /\ asleep' = asleep
    BY <1>11, NoPipe DEF SysPipe, PipeInv
  <2> QED BY <2>1, SleepersKept
<1>12. ASSUME NEW t \in Tasks, NEW c \in Tasks, Fork(t, c) PROVE NoForgottenSleeper'
  BY <1>12, SleepersKept DEF Fork
<1>13. ASSUME NEW t \in Tasks, NEW fd \in Fds, NEW n \in Fds, Dupfd(t, fd, n)
       PROVE  NoForgottenSleeper'
  BY <1>13, SleepersKept DEF Dupfd
<1>14. ASSUME NEW t \in Tasks, NEW fd \in Fds, NEW op \in {"read", "write"}, NEW n \in Counts,
              Enter(t, fd, op, n)
       PROVE  NoForgottenSleeper'
  <2>1. call[t].op = "none" /\ asleep' = asleep
        /\ call' = [call EXCEPT ![t] = [NoCall EXCEPT !.op = op, !.count = n]]
    BY <1>14 DEF Enter, Calls
  <2>2. t \notin asleep'
    BY <2>1 DEF PipeInv, CallsGoOn
  <2>3. call'[t].op = op
    BY <2>1 DEF PipeInv, Types, NoCall
  <2> QED BY <2>2, <2>3, SleepersKept
<1> QED BY <1>1, <1>6, <1>8, <1>9, <1>10, <1>11, <1>12, <1>13, <1>14 DEF Next

(***************************************************************************)
(* If all tasks in the pipe are asleep, the readers among them wait for an *)
(* open writer and the pipe is empty, the writers for an open reader and   *)
(* it is full: every wake_up() of pipe.c and iput() is where it has to be. *)
(***************************************************************************)
THEOREM NobodyForgotten == Spec => []NoForgottenSleeper
<1>1. Init => NoForgottenSleeper
  BY DEF Init, NoForgottenSleeper
<1> QED BY <1>1, PipeInit, PipeStep, SleepersStep, PTL DEF Spec

-----------------------------------------------------------------------------
(* The pipe of PipeAbs.                                                    *)

Ends == {file[f].mode : f \in {g \in Files : file[g].count > 0}}

\* An end is open if its file is, and i_count tells whether both are.
LEMMA EndsAre ==
  ASSUME PipeInv
  PROVE  /\ \A m : m \in Ends <=> EndOpen(m)
         /\ Ends \subseteq {"read", "write"}
         /\ inode.count # 2 => "read" \notin Ends \/ "write" \notin Ends
<1>1. \A m : m \in Ends <=> EndOpen(m)
  BY DEF Ends, EndOpen, Open
<1>2. \A f \in Files : file[f].mode \in {"read", "write"}
  BY DEF PipeInv, Types, FileRecord
<1>3. Ends \subseteq {"read", "write"}
  BY <1>2 DEF Ends
<1>4. inode.count # 2 => ~EndOpen("read") \/ ~EndOpen("write")
  BY DEF PipeInv, Tables, InodeCount, One
<1> QED BY <1>1, <1>3, <1>4

\* A task in a call has its end open.
LEMMA MyEndIsOpen ==
  ASSUME PipeInv, NEW t \in Tasks, call[t].op # "none"
  PROVE  call[t].op \in Ends
<1>1. PICK fd \in Fds : filp[t][fd] # NULL /\ file[filp[t][fd]].mode = call[t].op
  BY InCall
<1>2. filp[t][fd] \in Files /\ Open(filp[t][fd])
  BY <1>1, DescriptorOpens DEF PipeInv, Tables
<1> QED BY <1>1, <1>2 DEF Ends, Open

\* Closing files for good closes ends.
LEMMA CloseAbstractly ==
  ASSUME PipeInv, NEW G, Closes(G)
  PROVE  /\ Ends' \subseteq Ends
         /\ G = {} => Ends' = Ends /\ UNCHANGED <<sent, received, report>>
         /\ G # {} => Ends' # Ends /\ report' = "none" /\ UNCHANGED <<sent, received>>
<1>1. /\ \A f \in G : f \in Files /\ Open(f)
      /\ \A f \in Files : /\ file'[f].mode = file[f].mode
                          /\ (file'[f].count > 0) <=> (Open(f) /\ f \notin G)
  BY DEF Closes
<1>2. Ends' \subseteq Ends
  BY <1>1 DEF Ends, Open
<1>3. G = {} => Ends \subseteq Ends'
  BY <1>1 DEF Ends, Open
<1>4. ASSUME NEW g \in G PROVE Ends' # Ends
  <2>1. file[g].mode \in Ends
    BY <1>1 DEF Ends, Open
  <2>2. file[g].mode \notin Ends'
    <3> SUFFICES ASSUME file[g].mode \in Ends' PROVE FALSE
      OBVIOUS
    <3>1. PICK f \in Files : file'[f].count > 0 /\ file'[f].mode = file[g].mode
      BY DEF Ends
    <3>2. Open(f) /\ f \notin G /\ file[f].mode = file[g].mode
      BY <1>1, <3>1
    <3> QED BY <1>1, <3>2 DEF PipeInv, Tables, OneFilePerEnd
  <2> QED BY <2>1, <2>2
<1> QED BY <1>2, <1>3, <1>4 DEF Closes

\* A step that leaves the open files and the bytes alone is none of PipeAbs.
LEMMA NoAbstractStep ==
  ASSUME PipeInv, UNCHANGED <<sent, received, report>>,
         \A f \in Files : /\ file'[f].mode = file[f].mode
                          /\ file'[f].count > 0 <=> file[f].count > 0
  PROVE  UNCHANGED Abs!vars
<1>1. Ends' = Ends
  BY DEF Ends
<1> QED BY <1>1 DEF Abs!vars, Ends

\* Every step of the pipe is one of PipeAbs, or none.
LEMMA AbstractStep ==
  ASSUME PipeInv, [Next]_vars
  PROVE  [Abs!Next]_(Abs!vars)
<1>1. CASE UNCHANGED vars
  BY <1>1, NoAbstractStep DEF vars
<1>2. ASSUME NEW t \in Tasks, ReadEmpty(t) PROVE [Abs!Next]_(Abs!vars)
  <2>1. CASE inode.count = 2
    BY <1>2, <2>1, NoAbstractStep DEF ReadEmpty
  <2>2. CASE inode.count # 2
    <3>1. call[t].op = "read" /\ Size = 0 /\ report' = "eof" /\ UNCHANGED <<file, sent, received>>
      BY <1>2, <2>2 DEF ReadEmpty, AtLoop
    <3>2. "read" \in Ends /\ "write" \notin Ends /\ Ends' = Ends
      BY <2>2, <3>1, MyEndIsOpen, EndsAre DEF Ends
    <3>3. sent \in Nat /\ received \in Nat /\ sent - received = 0
      <4>1. inode.count > 0
        BY <3>1, InCall
      <4> QED BY <3>1, <4>1, SizeIs DEF PipeInv, Types
    <3>4. received = sent
      BY <3>3
    <3> QED BY <3>1, <3>2, <3>4 DEF Abs!Next, Abs!EndOfFile, Ends
  <2> QED BY <2>1, <2>2
<1>3. ASSUME NEW t \in Tasks, WriteFull(t) PROVE [Abs!Next]_(Abs!vars)
  <2>1. CASE inode.count = 2
    BY <1>3, <2>1, NoAbstractStep DEF WriteFull
  <2>2. CASE inode.count # 2
    <3>1. /\ call[t].op = "write" /\ Size = PageSize - 1 /\ report' = "sigpipe"
          /\ UNCHANGED <<file, sent, received>>
      BY <1>3, <2>2 DEF WriteFull, AtLoop
    <3>2. "write" \in Ends /\ "read" \notin Ends /\ Ends' = Ends
      BY <2>2, <3>1, MyEndIsOpen, EndsAre DEF Ends
    <3>3. sent \in Nat /\ received \in Nat /\ sent - received = PageSize - 1
      <4>1. inode.count > 0
        BY <3>1, InCall
      <4> QED BY <3>1, <4>1, SizeIs DEF PipeInv, Types
    <3>4. sent = received + (PageSize - 1)
      BY <3>3, PageAssumption
    <3> QED BY <3>1, <3>2, <3>4 DEF Abs!Next, Abs!BrokenPipe, Ends
  <2> QED BY <2>1, <2>2
<1>4. ASSUME NEW t \in Tasks, ReadMove(t) PROVE [Abs!Next]_(Abs!vars)
  <2>1. call[t].op = "read" /\ report' = "none" /\ UNCHANGED <<file, sent>>
    BY <1>4 DEF ReadMove, AtLoop
  <2>2. "read" \in Ends /\ Ends' = Ends
    BY <2>1, MyEndIsOpen DEF Ends
  <2>3. received' \in received + 1..sent
    BY <1>4, ReadMoveStep
  <2> QED BY <2>1, <2>2, <2>3 DEF Abs!Next, Abs!Read, Ends
<1>5. ASSUME NEW t \in Tasks, WriteMove(t) PROVE [Abs!Next]_(Abs!vars)
  <2>1. call[t].op = "write" /\ report' = "none" /\ UNCHANGED <<file, received>>
    BY <1>5 DEF WriteMove, AtLoop
  <2>2. "write" \in Ends /\ Ends' = Ends
    BY <2>1, MyEndIsOpen DEF Ends
  <2>3. sent' \in sent + 1..received + (PageSize - 1)
    BY <1>5, WriteMoveStep
  <2> QED BY <2>1, <2>2, <2>3 DEF Abs!Next, Abs!Write, Ends
<1>6. ASSUME NEW t \in Tasks, Step(t) PROVE [Abs!Next]_(Abs!vars)
  <2>1. ASSUME NEW n \in 0..PageSize - 1, CopyFault(t, n) PROVE [Abs!Next]_(Abs!vars)
    BY <2>1, NoAbstractStep DEF CopyFault
  <2>2. CASE Copy(t)
    BY <2>2, NoAbstractStep DEF Copy
  <2> QED BY <1>2, <1>3, <1>4, <1>5, <1>6, <2>1, <2>2 DEF Step
<1>7. ASSUME \E G : Closes(G) PROVE [Abs!Next]_(Abs!vars)
  <2>1. PICK G : Closes(G)
    BY <1>7
  <2>2. /\ Ends' \subseteq Ends
        /\ G = {} => Ends' = Ends /\ UNCHANGED <<sent, received, report>>
        /\ G # {} => Ends' # Ends /\ report' = "none" /\ UNCHANGED <<sent, received>>
    BY <2>1, CloseAbstractly
  <2> QED BY <2>2 DEF Abs!Next, Abs!Close, Abs!vars, Ends
<1>8. ASSUME NEW t \in Tasks, DoExit(t) PROVE [Abs!Next]_(Abs!vars)
  BY <1>7, <1>8, CloseStep DEF DoExit
<1>9. ASSUME NEW t \in Tasks, NEW fd \in Fds, SysClose(t, fd) PROVE [Abs!Next]_(Abs!vars)
  <2>1. /\ Calls(t) /\ CloseAll(t, {fd}) /\ current' = current /\ call' = call
        /\ alive' = alive /\ {fd} \in SUBSET Fds
    BY <1>9 DEF SysClose
  <2>2. \E G : Closes(G)
    BY <2>1, CloseStep
  <2> QED BY <1>7, <2>2
<1>10. ASSUME NEW t \in Tasks, NEW fd \in Fds, NEW n \in Fds, SysDup2(t, fd, n)
       PROVE  [Abs!Next]_(Abs!vars)
  <2>1. CASE filp[t][fd] = filp[t][n]
    BY <1>10, <2>1, NoAbstractStep DEF SysDup2, history
  <2>2. CASE filp[t][fd] # filp[t][n]
    BY <1>7, <1>10, <2>2, SysDup2Step
  <2> QED BY <2>1, <2>2
<1>11. ASSUME NEW t \in Tasks, SysPipe(t) PROVE [Abs!Next]_(Abs!vars)
  <2>1. sent' = 0 /\ received' = 0 /\ report' = "none" /\ inode.count = 0 /\ inode'.count = 2
    BY <1>11 DEF SysPipe, NoInode
  <2>2. Ends = {}
    BY <2>1, NoPipe DEF PipeInv, Ends
  <2>3. Ends' = {"read", "write"}
    <3>1. PipeInv'
      BY <1>11, SysPipeStep
    <3>2. EndOpen("read")' /\ EndOpen("write")'
      BY <2>1, <3>1 DEF PipeInv, Tables, InodeCount, One
    <3>3. Ends' \subseteq {"read", "write"}
      BY <3>1 DEF PipeInv, Types, FileRecord, Ends
    <3> QED BY <3>2, <3>3 DEF Ends, EndOpen, Open
  <2> QED BY <2>1, <2>2, <2>3 DEF Abs!Next, Abs!Create, Ends
<1>12. ASSUME NEW t \in Tasks, NEW c \in Tasks, Fork(t, c) PROVE [Abs!Next]_(Abs!vars)
  <2>1. \A f \in Files : /\ file'[f].mode = file[f].mode
                         /\ file'[f].count > 0 <=> file[f].count > 0
    BY <1>12, ForkStep
  <2> QED BY <1>12, <2>1, NoAbstractStep DEF Fork, history
<1>13. ASSUME NEW t \in Tasks, NEW fd \in Fds, NEW n \in Fds, Dupfd(t, fd, n)
       PROVE  [Abs!Next]_(Abs!vars)
  <2> DEFINE g == filp[t][fd]
  <2>1. g \in Files /\ Open(g) /\ file' = [file EXCEPT ![g].count = @ + 1]
    BY <1>13, DescriptorOpens DEF Dupfd, PipeInv, Tables
  <2> HIDE DEF g
  <2>2. \A f \in Files : /\ file'[f].mode = file[f].mode
                         /\ file'[f].count > 0 <=> file[f].count > 0
    BY <2>1 DEF PipeInv, Types, FileRecord, Open
  <2> QED BY <1>13, <2>2, NoAbstractStep DEF Dupfd, history
<1>14. ASSUME NEW t \in Tasks, NEW fd \in Fds, NEW op \in {"read", "write"}, NEW n \in Counts,
              Enter(t, fd, op, n)
       PROVE  [Abs!Next]_(Abs!vars)
  BY <1>14, NoAbstractStep DEF Enter, history
<1> QED BY <1>1, <1>6, <1>8, <1>9, <1>10, <1>11, <1>12, <1>13, <1>14 DEF Next

(***************************************************************************)
(* read_pipe(), write_pipe() and the calls that open and close files       *)
(* implement the pipe of PipeAbs: end of file and SIGPIPE are reported     *)
(* when the other end is closed and the pipe is empty or full, and not     *)
(* otherwise.                                                              *)
(***************************************************************************)
THEOREM PipeImplementsAbs == Spec => IsPipe
<1>1. Init => Abs!Init
  BY DEF Init, Abs!Init
<1>2. Spec => []PipeInv
  BY PipeInit, PipeStep, PTL DEF Spec
<1> QED BY <1>1, <1>2, AbstractStep, PTL DEF Spec, IsPipe, Abs!Spec

=============================================================================
