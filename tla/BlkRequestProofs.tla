-------------------------- MODULE BlkRequestProofs --------------------------
(***************************************************************************)
(* What is proved of the block device requests, for any tasks, blocks and  *)
(* devices and any number of requests: a locked buffer has one owner, the  *)
(* lists of the devices are not destroyed, and the elevator never has more *)
(* than one sweep ahead.  Then, of the driver of the hard disk: it and the *)
(* controller mean the same request, and blocks are moved as a whole.      *)
(***************************************************************************)
EXTENDS MCBlockDevices, FiniteSetTheorems, WellFoundedInduction, TLAPS

\* The places of a task in make_request()
Making == {"search", "none", "queued", "asleep"}

\* Who has a lock: every request and every task in make_request()
OwnersLock ==
  /\ \A i \in Slots : slot[i] # NoRequest => lock[slot[i].buf]
  /\ \A t \in Tasks : pc[t] \in Making => lock[op[t].buf]

\* No two of them have the lock of the same buffer.
OwnersDiffer ==
  /\ \A i, j \in Slots : slot[i] # NoRequest /\ slot[j] # NoRequest
                         /\ slot[i].buf = slot[j].buf => i = j
  /\ \A t, u \in Tasks : pc[t] \in Making /\ pc[u] \in Making
                         /\ op[t].buf = op[u].buf => t = u
  /\ \A i \in Slots, t \in Tasks :
       slot[i] # NoRequest /\ pc[t] \in Making => slot[i].buf # op[t].buf

\* No lock is forgotten.
LocksOwned ==
  \A b \in Blocks : lock[b] =>
    \/ \E i \in Slots : slot[i] # NoRequest /\ slot[i].buf = b
    \/ \E t \in Tasks : pc[t] \in Making /\ op[t].buf = b

\* The lists of the devices, position by position
ListsGood ==
  /\ \A m \in Majors : \A p \in 1..Len(queue[m]) :
       slot[queue[m][p]] # NoRequest /\ MajorOf[slot[queue[m][p]].buf] = m
  /\ \A m \in Majors : \A p, q \in 1..Len(queue[m]) : queue[m][p] = queue[m][q] => p = q
  /\ \A i \in Slots : slot[i] # NoRequest =>
       \E p \in 1..Len(queue[MajorOf[slot[i].buf]]) : queue[MajorOf[slot[i].buf]][p] = i

\* The requests that a write may take
WritesLow ==
  \A i \in Slots : slot[i] # NoRequest /\ slot[i].cmd = WRITE => i <= (NrRequest * 2) \div 3

\* A list of requests has at most one place where a new sweep begins.
OneTurn(q, sl) ==
  \A j, k \in 1..Len(q) - 1 : /\ ~InOrder(sl[q[j]], sl[q[j + 1]])
                              /\ ~InOrder(sl[q[k]], sl[q[k + 1]])
                              => j = k

OneTurnEach == \A m \in Majors : OneTurn(queue[m], slot)

BlkInv == /\ TypeOK /\ OwnersLock /\ OwnersDiffer /\ LocksOwned
          /\ ListsGood /\ WritesLow /\ OneTurnEach

-----------------------------------------------------------------------------
(* Numbers and sequences.                                                  *)

Before == {p \in Nat \X Nat : p[1] < p[2]}

\* A set of natural numbers has a least element.
LEMMA Least ==
  ASSUME NEW S, S \subseteq Nat, S # {}
  PROVE  \E n \in S : \A m \in S : n <= m
<1>1. IsWellFoundedOn(Before, Nat)
  BY NatLessThanWellFounded DEF OpToRel, Before
<1>2. PICK n \in S : \A m \in S : <<m, n>> \notin Before
  BY <1>1, WFMin
<1>3. \A m \in S : ~(m < n)
  BY <1>2 DEF Before
<1> QED BY <1>3

\* A set of natural numbers up to N has a greatest element.
LEMMA Greatest ==
  ASSUME NEW N \in Nat, NEW S, S \subseteq 0..N, S # {}
  PROVE  \E n \in S : \A m \in S : m <= n
<1> DEFINE R == {N - s : s \in S}
<1>1. R \subseteq Nat /\ R # {}
  <2>1. \A m \in S : N - m \in Nat
    OBVIOUS
  <2>2. PICK m \in S : TRUE
    OBVIOUS
  <2>3. N - m \in R
    OBVIOUS
  <2> QED BY <2>1, <2>3
<1>2. PICK r \in R : \A s \in R : r <= s
  <2> HIDE DEF R
  <2> QED BY <1>1, Least
<1>3. PICK n \in S : r = N - n
  OBVIOUS
<1>4. ASSUME NEW m \in S PROVE m <= n
  <2>1. r <= N - m
    BY <1>2
  <2> QED BY <1>3, <2>1
<1> QED BY <1>4

\* The list q with r behind position i
Put(q, i, r) == SubSeq(q, 1, i) \o <<r>> \o SubSeq(q, i + 1, Len(q))

\* What add_request() makes of a list
LEMMA PutEffect ==
  ASSUME NEW S, NEW q \in Seq(S), NEW r \in S, NEW i \in 0..Len(q)
  PROVE  /\ Put(q, i, r) \in Seq(S)
         /\ Len(Put(q, i, r)) = Len(q) + 1
         /\ \A k \in 1..Len(q) + 1 :
              Put(q, i, r)[k] = IF k <= i THEN q[k] ELSE IF k = i + 1 THEN r ELSE q[k - 1]
<1> DEFINE a == SubSeq(q, 1, i)
           c == SubSeq(q, i + 1, Len(q))
           d == a \o <<r>>
<1>0. Len(q) \in Nat
  OBVIOUS
<1>1. a \in Seq(S) /\ Len(a) = i /\ \A k \in 1..i : a[k] = q[k]
  BY <1>0
<1>2. c \in Seq(S) /\ Len(c) = Len(q) - i /\ \A k \in 1..Len(q) - i : c[k] = q[i + k]
  <2>1. CASE i = Len(q)
    BY <1>0, <2>1
  <2>2. CASE i < Len(q)
    <3>1. Len(c) = Len(q) - i /\ c \in Seq(S)
      BY <1>0, <2>2
    <3>2. ASSUME NEW k \in 1..Len(q) - i PROVE c[k] = q[i + k]
      <4>1. c[k] = q[(i + 1) + k - 1] /\ (i + 1) + k - 1 = i + k
        BY <1>0, <2>2
      <4> QED BY <4>1
    <3> QED BY <3>1, <3>2
  <2> QED BY <1>0, <2>1, <2>2
<1> HIDE DEF a, c
<1>3. /\ d \in Seq(S) /\ Len(d) = i + 1
      /\ \A k \in 1..i + 1 : d[k] = IF k <= i THEN q[k] ELSE r
  BY <1>1
<1> HIDE DEF d
<1>4. Put(q, i, r) = d \o c
  BY DEF Put, a, c, d
<1>5. d \o c \in Seq(S) /\ Len(d \o c) = Len(q) + 1
  BY <1>0, <1>2, <1>3
<1>6. ASSUME NEW k \in 1..Len(q) + 1
      PROVE  (d \o c)[k] = IF k <= i THEN q[k] ELSE IF k = i + 1 THEN r ELSE q[k - 1]
  <2>1. CASE k <= i + 1
    BY <1>0, <1>2, <1>3, <2>1
  <2>2. CASE k > i + 1
    <3>1. (d \o c)[k] = c[k - (i + 1)]
      BY <1>0, <1>2, <1>3, <2>2
    <3>2. k - (i + 1) \in 1..Len(q) - i /\ i + (k - (i + 1)) = k - 1
      BY <1>0, <2>2
    <3>3. c[k - (i + 1)] = q[k - 1]
      BY <1>2, <3>2
    <3> QED BY <1>0, <2>2, <3>1, <3>3
  <2>3. k <= i + 1 \/ k > i + 1
    BY <1>0
  <2> QED BY <2>1, <2>2, <2>3
<1> QED BY <1>4, <1>5, <1>6

-----------------------------------------------------------------------------
(* The elevator.                                                           *)

\* IN_ORDER is a strict order, total on requests of different buffers.
LEMMA OrderTotal ==
  /\ \A r, s \in Requests : r.buf # s.buf => InOrder(r, s) \/ InOrder(s, r)
  /\ \A r, s \in Requests : ~(InOrder(r, s) /\ InOrder(s, r))
  /\ \A r, s, u \in Requests : InOrder(r, s) /\ InOrder(s, u) => InOrder(r, u)
BY MajorOfAssumption DEF InOrder, Requests, Blocks, READ, WRITE

Fits(q, sl, r, i) ==
  /\ InOrder(sl[q[i]], sl[r]) \/ ~InOrder(sl[q[i]], sl[q[i + 1]])
  /\ InOrder(sl[r], sl[q[i + 1]])

\* The loop of add_request() stops at a place that fits, or at the end.
LEMMA InsertAtPlace ==
  ASSUME NEW q \in Seq(Slots), NEW sl, NEW r
  PROVE  \/ /\ InsertAt(q, sl, r) \in 1..Len(q) - 1
            /\ Fits(q, sl, r, InsertAt(q, sl, r))
         \/ /\ InsertAt(q, sl, r) = Len(q)
            /\ \A i \in 1..Len(q) - 1 : ~Fits(q, sl, r, i)
<1> DEFINE places == {i \in 1..Len(q) - 1 : Fits(q, sl, r, i)}
           first == CHOOSE i \in places : \A j \in places : i <= j
<1>1. InsertAt(q, sl, r) = IF places = {} THEN Len(q) ELSE first
  BY DEF InsertAt, Fits
<1>2. CASE places = {}
  BY <1>1, <1>2
<1>3. CASE places # {}
  <2>1. places \subseteq Nat
    OBVIOUS
  <2>2. \E i \in places : \A j \in places : i <= j
    <3> HIDE DEF places
    <3> QED BY <1>3, <2>1, Least
  <2>3. first \in places
    <3> HIDE DEF places
    <3> QED BY <2>2
  <2> HIDE DEF first
  <2> QED BY <1>1, <1>3, <2>3
<1> QED BY <1>2, <1>3

\* A request that is put in by add_request() begins no second sweep: if it
\* goes to the end although it does not belong there, the list was one sweep.
LEMMA InsertKeepsOneTurn ==
  ASSUME NEW q \in Seq(Slots), NEW sl, NEW r \in Slots, sl[r] \in Requests,
         \A k \in 1..Len(q) : sl[q[k]] \in Requests /\ sl[q[k]].buf # sl[r].buf,
         OneTurn(q, sl)
  PROVE  OneTurn(Put(q, InsertAt(q, sl, r), r), sl)
<1> DEFINE n == Len(q)
           i == InsertAt(q, sl, r)
           w == Put(q, i, r)
           X(k) == sl[q[k]]
           D(k) == ~InOrder(sl[q[k]], sl[q[k + 1]])
           E(k) == ~InOrder(sl[w[k]], sl[w[k + 1]])
<1>0. n \in Nat
  OBVIOUS
<1>1. i \in 0..n
  BY <1>0, InsertAtPlace
<1>2. /\ Len(w) = n + 1
      /\ \A k \in 1..n + 1 : w[k] = IF k <= i THEN q[k] ELSE IF k = i + 1 THEN r ELSE q[k - 1]
  <2> HIDE DEF i
  <2> QED BY <1>1, PutEffect
<1>3. SUFFICES ASSUME NEW j \in 1..n, NEW k \in 1..n, E(j), E(k) PROVE j = k
  BY <1>0, <1>2 DEF OneTurn
<1>4. \A a, b \in 1..n - 1 : D(a) /\ D(b) => a = b
  BY DEF OneTurn
<1>5. ASSUME NEW k1 \in 1..n, k1 < i, E(k1) PROVE D(k1)
  <2>1. w[k1] = q[k1] /\ w[k1 + 1] = q[k1 + 1]
    <3> HIDE DEF w, i
    <3> QED BY <1>0, <1>1, <1>2, <1>5
  <2> QED BY <1>5, <2>1
<1>6. ASSUME NEW k1 \in 1..n, k1 > i + 1, E(k1) PROVE D(k1 - 1)
  <2>1. w[k1] = q[k1 - 1] /\ w[k1 + 1] = q[k1]
    <3> HIDE DEF w, i
    <3> QED BY <1>0, <1>1, <1>2, <1>6
  <2>2. (k1 - 1) + 1 = k1
    OBVIOUS
  <2> QED BY <1>6, <2>1, <2>2
<1>7. CASE i \in 1..n - 1 /\ Fits(q, sl, r, i)
  <2>1. w[i] = q[i] /\ w[i + 1] = r /\ w[i + 2] = q[i + 1]
    <3> HIDE DEF w, i
    <3> QED BY <1>0, <1>1, <1>2, <1>7
  <2>2. ~E(i + 1)
    BY <1>7, <2>1 DEF Fits
  <2>3. E(i) => D(i)
    BY <1>7, <2>1 DEF Fits
  <2> HIDE DEF E, D, w, i
  <2>4. \A k1 \in 1..n : E(k1) => \/ k1 <= i /\ D(k1)
                                  \/ k1 > i + 1 /\ D(k1 - 1)
    BY <1>0, <1>5, <1>6, <1>7, <2>2, <2>3
  <2> QED BY <1>0, <1>3, <1>4, <1>7, <2>4, SMTT(30)
<1>8. CASE i = n /\ \A k1 \in 1..n - 1 : ~Fits(q, sl, r, k1)
  <2>1. \A k1 \in 1..n - 1 : E(k1) => D(k1)
    <3> HIDE DEF E, D, w, i
    <3> QED BY <1>0, <1>5, <1>8
  <2>2. ASSUME NEW d \in 1..n - 1, D(d), E(n) PROVE FALSE
    <3>1. X(n) \in Requests /\ ~InOrder(X(n), sl[r])
      <4>1. w[n] = q[n] /\ w[n + 1] = r
        <5> HIDE DEF w, i
        <5> QED BY <1>0, <1>1, <1>2, <1>8, <2>2
      <4> QED BY <1>0, <2>2, <4>1
    <3> DEFINE Bad == {k1 \in d + 1..n : ~InOrder(X(k1), sl[r])}
    <3>2. n \in Bad /\ Bad \subseteq Nat
      BY <1>0, <2>2, <3>1
    <3>3. PICK b \in Bad : \A c \in Bad : b <= c
      <4> HIDE DEF Bad
      <4> QED BY <3>2, Least
    <3>4. /\ b \in 2..n /\ b - 1 \in 1..n - 1 /\ (b - 1) + 1 = b
          /\ X(b) \in Requests /\ X(b).buf # sl[r].buf /\ ~InOrder(X(b), sl[r])
      BY <1>0, <2>2, <3>3
    <3>5. InOrder(sl[r], X(b))
      BY <3>4, OrderTotal
    <3>6. CASE b = d + 1
      <4>1. Fits(q, sl, r, d)
        BY <2>2, <3>5, <3>6 DEF Fits
      <4> QED BY <1>8, <4>1
    <3>7. CASE b # d + 1
      <4>1. b - 1 \notin Bad /\ b - 1 \in d + 1..n
        BY <1>0, <3>3, <3>7, <2>2
      <4>2. InOrder(X(b - 1), sl[r])
        BY <4>1
      <4>3. Fits(q, sl, r, b - 1)
        BY <3>4, <3>5, <4>2 DEF Fits
      <4> QED BY <1>8, <3>4, <4>3
    <3> QED BY <3>6, <3>7
  <2> HIDE DEF E, D, w, i
  <2> QED BY <1>0, <1>3, <1>4, <2>1, <2>2
<1> QED BY <1>7, <1>8, InsertAtPlace

-----------------------------------------------------------------------------
(* Types.                                                                  *)

\* NoRequest is none of the requests.
LEMMA NoRequestIsNone ==
  NoRequest \notin Requests
BY MajorOfAssumption DEF NoRequest, Requests, Blocks

\* make_request() takes a free request that its command may take.
LEMMA LastFreeIsFree ==
  ASSUME NEW cmd, FreeSlots(cmd) # {}
  PROVE  LastFree(cmd) \in FreeSlots(cmd)
<1>1. FreeSlots(cmd) \subseteq 0..NrRequest /\ NrRequest \in Nat
  BY NrRequestAssumption DEF FreeSlots, Slots
<1>2. \E i \in FreeSlots(cmd) : \A j \in FreeSlots(cmd) : j <= i
  BY <1>1, Greatest
<1> QED BY <1>2 DEF LastFree

\* ll_rw_block() returns: the task is outside, with no call.
LEMMA LeaveEffect ==
  ASSUME TypeOK, NEW t \in Tasks, Leave(t)
  PROVE  /\ pc' \in [Tasks -> PCs] /\ op' \in [Tasks -> Calls]
         /\ pc'[t] = "out"
         /\ \A u \in Tasks \ {t} : pc'[u] = pc[u] /\ op'[u] = op[u]
<1>1. NoCall \in Calls
  BY MajorOfAssumption DEF NoCall, Calls, Blocks, READ
<1> QED BY <1>1 DEF TypeOK, Leave, PCs

\* MakeRequest, its values named
LEMMA MakeRequestEffect ==
  ASSUME TypeOK, NEW t \in Tasks, MakeRequest(t)
  PROVE  \E r \in Slots :
           LET b == op[t].buf
               m == MajorOf[b]
               q == queue[m]
               i == InsertAt(q, slot', r)
           IN  /\ b \in Blocks /\ m \in Majors /\ q \in Seq(Slots) /\ i \in 0..Len(q)
               /\ slot[r] = NoRequest
               /\ op[t].cmd = WRITE => r <= (NrRequest * 2) \div 3
               /\ slot' \in [Slots -> Requests \cup {NoRequest}]
               /\ slot'[r] = [buf |-> b, cmd |-> op[t].cmd]
               /\ slot'[r] \in Requests
               /\ \A j \in Slots \ {r} : slot'[j] = slot[j]
               /\ queue' \in [Majors -> Seq(Slots)]
               /\ queue'[m] = Put(q, i, r)
               /\ \A n \in Majors \ {m} : queue'[n] = queue[n]
<1> DEFINE b == op[t].buf
           m == MajorOf[b]
           q == queue[m]
           r == LastFree(op[t].cmd)
           req == [buf |-> b, cmd |-> op[t].cmd]
           i == InsertAt(q, slot', r)
<1>1. op[t] \in Calls /\ b \in Blocks /\ op[t].cmd \in {READ, WRITE} /\ req \in Requests
  BY DEF TypeOK, Calls, Requests
<1>2. m \in Majors /\ q \in Seq(Slots)
  BY <1>1, MajorOfAssumption DEF TypeOK, Blocks
<1>3. r \in Slots /\ slot[r] = NoRequest /\ (op[t].cmd = WRITE => r <= (NrRequest * 2) \div 3)
  BY LastFreeIsFree DEF MakeRequest, FreeSlots
<1>4. slot' = [slot EXCEPT ![r] = req]
  BY DEF MakeRequest
<1>5. queue' = [queue EXCEPT ![m] = Put(q, i, r)]
  BY <1>2 DEF MakeRequest, Put, TypeOK
<1> HIDE DEF r, req, m
<1>6. i \in 0..Len(q)
  <2>1. Len(q) \in Nat
    BY <1>2
  <2> QED BY <1>2, <2>1, InsertAtPlace
<1>7. Put(q, i, r) \in Seq(Slots)
  <2> HIDE DEF i, q
  <2> QED BY <1>2, <1>3, <1>6, PutEffect
<1>8. /\ slot' \in [Slots -> Requests \cup {NoRequest}] /\ slot'[r] = req
      /\ \A j \in Slots \ {r} : slot'[j] = slot[j]
  BY <1>1, <1>3, <1>4 DEF TypeOK
<1>9. /\ queue' \in [Majors -> Seq(Slots)] /\ queue'[m] = Put(q, i, r)
      /\ \A n \in Majors \ {m} : queue'[n] = queue[n]
  <2> HIDE DEF i, q
  <2> QED BY <1>2, <1>5, <1>7 DEF TypeOK
<1> HIDE DEF i, q, b
<1> QED BY <1>1, <1>2, <1>3, <1>6, <1>8, <1>9 DEF i, q, m, b, req

\* Every step keeps the types.
LEMMA TypeStep ==
  TypeOK /\ [Next]_vars => TypeOK'
<1> SUFFICES ASSUME TypeOK, [Next]_vars PROVE TypeOK'
  OBVIOUS
<1> USE DEF bufVars, reqVars, waitVars
<1>1. ASSUME NEW t \in Tasks, NEW b \in Blocks, NEW cmd \in {READ, WRITE},
             NEW ahead \in BOOLEAN, LlRwBlock(t, b, cmd, ahead)
      PROVE  TypeOK'
  <2>1. [buf |-> b, cmd |-> cmd, ahead |-> ahead] \in Calls
    BY DEF Calls
  <2> QED BY <1>1, <2>1 DEF TypeOK, LlRwBlock, PCs
<1>2. ASSUME NEW t \in Tasks, LockBuffer(t) PROVE TypeOK'
  <2>1. CASE Leave(t)
    BY <1>2, <2>1, LeaveEffect DEF TypeOK, LockBuffer
  <2>2. CASE ~Leave(t)
    BY <1>2, <2>2 DEF TypeOK, LockBuffer, PCs
  <2> QED BY <2>1, <2>2
<1>3. ASSUME NEW t \in Tasks, MakeRequest(t) PROVE TypeOK'
  <2>1. slot' \in [Slots -> Requests \cup {NoRequest}] /\ queue' \in [Majors -> Seq(Slots)]
    BY <1>3, MakeRequestEffect
  <2>2. pc' \in [Tasks -> PCs] /\ op' \in [Tasks -> Calls]
    BY <1>3, LeaveEffect DEF MakeRequest
  <2> QED BY <1>3, <2>1, <2>2 DEF TypeOK, MakeRequest
<1>4. ASSUME NEW t \in Tasks, NEW ok \in BOOLEAN, MakeRamRequest(t, ok) PROVE TypeOK'
  <2>2. pc' \in [Tasks -> PCs] /\ op' \in [Tasks -> Calls]
    BY <1>4, LeaveEffect DEF MakeRamRequest
  <2> QED BY <1>4, <2>2 DEF TypeOK, MakeRamRequest, WakeWaiter
<1>5. ASSUME NEW t \in Tasks, DropAhead(t) PROVE TypeOK'
  <2>2. pc' \in [Tasks -> PCs] /\ op' \in [Tasks -> Calls]
    BY <1>5, LeaveEffect DEF DropAhead
  <2> QED BY <1>5, <2>2 DEF TypeOK, DropAhead
<1>6. ASSUME NEW t \in Tasks, NoneFree(t) \/ SleepOn(t) \/ Sleep(t) \/ Awake(t)
      PROVE  TypeOK'
  BY <1>6 DEF TypeOK, NoneFree, SleepOn, Sleep, Awake, PCs
<1>7. ASSUME NEW m \in Majors, NEW ok \in BOOLEAN, EndRequest(m, ok) PROVE TypeOK'
  <2>1. queue[m] \in Seq(Slots) /\ queue[m] # <<>>
    BY <1>7 DEF TypeOK, EndRequest
  <2>2. Head(queue[m]) \in Slots /\ Tail(queue[m]) \in Seq(Slots)
    BY <2>1
  <2> QED BY <1>7, <2>2 DEF TypeOK, EndRequest, WakeWaiter
<1>8. ASSUME NEW b \in Blocks, Modify(b) \/ Reuse(b) PROVE TypeOK'
  BY <1>8 DEF TypeOK, Modify, Reuse
<1>9. CASE UNCHANGED vars
  BY <1>9 DEF TypeOK, vars
<1> QED
  BY <1>1, <1>2, <1>3, <1>4, <1>5, <1>6, <1>7, <1>8, <1>9 DEF Next, Work, Interrupt

-----------------------------------------------------------------------------
(* Locks and lists.                                                        *)

Owned == OwnersLock /\ OwnersDiffer /\ LocksOwned

Listed == ListsGood /\ WritesLow /\ OneTurnEach

\* A step that leaves request[] and the lists alone
LEMMA ListedKept ==
  ASSUME Listed, slot' = slot, queue' = queue
  PROVE  Listed'
<1>1. ListsGood'
  <2>1. ListsGood
    BY DEF Listed
  <2> QED BY <2>1 DEF ListsGood
<1>2. WritesLow'
  BY DEF Listed, WritesLow
<1>3. OneTurnEach'
  <2>1. ASSUME NEW m \in Majors PROVE OneTurn(queue'[m], slot')
    BY DEF Listed, OneTurnEach
  <2> QED BY <2>1 DEF OneTurnEach
<1> QED BY <1>1, <1>2, <1>3 DEF Listed

\* A step that leaves the locks alone, and who is in make_request() with what
LEMMA OwnedKept ==
  ASSUME Owned, slot' = slot, lock' = lock,
         \A t \in Tasks : /\ pc'[t] \in Making <=> pc[t] \in Making
                          /\ pc[t] \in Making => op'[t].buf = op[t].buf
  PROVE  Owned'
<1>1. OwnersLock' /\ OwnersDiffer'
  BY DEF Owned, OwnersLock, OwnersDiffer
<1>2. LocksOwned'
  BY DEF Owned, LocksOwned
<1> QED BY <1>1, <1>2 DEF Owned

\* lock_buffer(): the task is the owner of a lock that nobody had.
LEMMA LockStep ==
  ASSUME TypeOK, Owned, NEW t \in Tasks, pc[t] = "lock", ~lock[op[t].buf],
         slot' = slot, lock' = [lock EXCEPT ![op[t].buf] = TRUE],
         pc' = [pc EXCEPT ![t] = "search"], op' = op
  PROVE  Owned'
<1>1. /\ op[t].buf \in Blocks /\ pc' \in [Tasks -> PCs] /\ lock'[op[t].buf] = TRUE
      /\ \A b \in Blocks \ {op[t].buf} : lock'[b] = lock[b]
      /\ pc'[t] = "search" /\ \A u \in Tasks \ {t} : pc'[u] = pc[u]
  BY DEF TypeOK, Calls, PCs
<1>2. \A i \in Slots : slot[i] # NoRequest => slot[i].buf \in Blocks
  BY DEF TypeOK, Requests
<1>3. \A u \in Tasks : op[u].buf \in Blocks
  BY DEF TypeOK, Calls
<1>4. OwnersLock'
  BY <1>1, <1>2, <1>3 DEF Owned, OwnersLock
<1>5. OwnersDiffer'
  BY <1>1 DEF Owned, OwnersDiffer, OwnersLock
<1>6. LocksOwned'
  BY <1>1 DEF Owned, LocksOwned, Making
<1> QED BY <1>4, <1>5, <1>6 DEF Owned

\* A task in make_request() gives its lock back, and leaves.
LEMMA UnlockStep ==
  ASSUME TypeOK, Owned, NEW t \in Tasks, pc[t] \in Making, Leave(t),
         slot' = slot, lock' = [lock EXCEPT ![op[t].buf] = FALSE]
  PROVE  Owned'
<1>1. /\ op[t].buf \in Blocks /\ lock'[op[t].buf] = FALSE
      /\ \A b \in Blocks \ {op[t].buf} : lock'[b] = lock[b]
  BY DEF TypeOK, Calls
<1>2. pc'[t] = "out" /\ \A u \in Tasks \ {t} : pc'[u] = pc[u] /\ op'[u] = op[u]
  BY LeaveEffect
<1>3. \A i \in Slots : slot[i] # NoRequest => slot[i].buf \in Blocks
  BY DEF TypeOK, Requests
<1>4. \A u \in Tasks : op[u].buf \in Blocks
  BY DEF TypeOK, Calls
<1>5. OwnersLock'
  BY <1>1, <1>2, <1>3, <1>4 DEF Owned, OwnersLock, OwnersDiffer, Making
<1>6. OwnersDiffer'
  BY <1>2 DEF Owned, OwnersDiffer, Making
<1>7. LocksOwned'
  BY <1>1, <1>2 DEF Owned, LocksOwned, Making
<1> QED BY <1>5, <1>6, <1>7 DEF Owned

\* make_request() hands the lock over to the request, which add_request()
\* puts on the list of its device.
LEMMA MakeRequestStep ==
  ASSUME TypeOK, Owned, Listed, NEW t \in Tasks, MakeRequest(t)
  PROVE  Owned' /\ Listed'
<1> DEFINE b == op[t].buf
           m == MajorOf[b]
           q == queue[m]
<1>1. PICK r \in Slots :
        LET i == InsertAt(q, slot', r)
        IN  /\ b \in Blocks /\ m \in Majors /\ q \in Seq(Slots) /\ i \in 0..Len(q)
            /\ slot[r] = NoRequest
            /\ op[t].cmd = WRITE => r <= (NrRequest * 2) \div 3
            /\ slot' \in [Slots -> Requests \cup {NoRequest}]
            /\ slot'[r] = [buf |-> b, cmd |-> op[t].cmd]
            /\ slot'[r] \in Requests
            /\ \A j \in Slots \ {r} : slot'[j] = slot[j]
            /\ queue' \in [Majors -> Seq(Slots)]
            /\ queue'[m] = Put(q, i, r)
            /\ \A n \in Majors \ {m} : queue'[n] = queue[n]
  BY MakeRequestEffect
<1> DEFINE i == InsertAt(q, slot', r)
<1>2. pc'[t] = "out" /\ \A u \in Tasks \ {t} : pc'[u] = pc[u] /\ op'[u] = op[u]
  BY LeaveEffect DEF MakeRequest
<1>3. pc[t] \in Making /\ lock' = lock
  BY DEF MakeRequest, Making
<1>4. slot'[r] # NoRequest /\ slot'[r].buf = b /\ slot'[r].cmd = op[t].cmd
  BY <1>1, NoRequestIsNone
<1> HIDE DEF b
<1>5. Owned'
  <2>0. /\ \A j \in Slots \ {r} : slot'[j] = slot[j]
        /\ slot[r] = NoRequest /\ b \in Blocks /\ b = op[t].buf
    BY <1>1 DEF b
  <2>1. OwnersLock'
    BY <2>0, <1>2, <1>3, <1>4 DEF Owned, OwnersLock, Making
  <2>2. OwnersDiffer'
    <3>1. \A x, y \in Slots : slot'[x] # NoRequest /\ slot'[y] # NoRequest
                              /\ slot'[x].buf = slot'[y].buf => x = y
      BY <2>0, <1>3, <1>4 DEF Owned, OwnersDiffer
    <3>2. \A x, y \in Tasks : pc'[x] \in Making /\ pc'[y] \in Making
                              /\ op'[x].buf = op'[y].buf => x = y
      BY <1>2 DEF Owned, OwnersDiffer, Making
    <3>3. \A x \in Slots, y \in Tasks :
            slot'[x] # NoRequest /\ pc'[y] \in Making => slot'[x].buf # op'[y].buf
      <4> SUFFICES ASSUME NEW x \in Slots, NEW y \in Tasks,
                          slot'[x] # NoRequest, pc'[y] \in Making
                   PROVE  slot'[x].buf # op'[y].buf
        OBVIOUS
      <4>1. y # t /\ pc[y] \in Making /\ op'[y] = op[y]
        BY <1>2 DEF Making
      <4>2. CASE x = r
        BY <2>0, <1>3, <1>4, <4>1, <4>2 DEF Owned, OwnersDiffer
      <4>3. CASE x # r
        BY <2>0, <4>1, <4>3 DEF Owned, OwnersDiffer
      <4> QED BY <4>2, <4>3
    <3> QED BY <3>1, <3>2, <3>3 DEF OwnersDiffer
  <2>3. LocksOwned'
    <3> SUFFICES ASSUME NEW c \in Blocks, lock[c]
                 PROVE  \/ \E x \in Slots : slot'[x] # NoRequest /\ slot'[x].buf = c
                        \/ \E y \in Tasks : pc'[y] \in Making /\ op'[y].buf = c
      BY <1>3 DEF LocksOwned
    <3>1. CASE c = b
      BY <1>4, <3>1
    <3>2. CASE \E x \in Slots : slot[x] # NoRequest /\ slot[x].buf = c
      BY <2>0, <3>2
    <3>3. CASE c # b /\ \E y \in Tasks : pc[y] \in Making /\ op[y].buf = c
      BY <2>0, <1>2, <3>3
    <3> QED BY <3>1, <3>2, <3>3 DEF Owned, LocksOwned
  <2> QED BY <2>1, <2>2, <2>3 DEF Owned
<1>6. /\ q \in Seq(Slots) /\ Len(q) \in Nat /\ i \in 0..Len(q)
      /\ Len(queue'[m]) = Len(q) + 1
      /\ \A k \in 1..Len(q) + 1 :
           queue'[m][k] = IF k <= i THEN q[k] ELSE IF k = i + 1 THEN r ELSE q[k - 1]
  <2>1. q \in Seq(Slots) /\ Len(q) \in Nat /\ i \in 0..Len(q) /\ queue'[m] = Put(q, i, r)
    BY <1>1
  <2> HIDE DEF i, q, m
  <2>2. /\ Len(Put(q, i, r)) = Len(q) + 1
        /\ \A k \in 1..Len(q) + 1 :
             Put(q, i, r)[k] = IF k <= i THEN q[k] ELSE IF k = i + 1 THEN r ELSE q[k - 1]
    BY <2>1, PutEffect
  <2> QED BY <2>1, <2>2
<1>7. \A k \in 1..Len(q) : q[k] \in Slots /\ q[k] # r
  BY <1>1 DEF Listed, ListsGood
<1>8. ListsGood'
  <2>1. \A n \in Majors : \A p \in 1..Len(queue'[n]) :
          slot'[queue'[n][p]] # NoRequest /\ MajorOf[slot'[queue'[n][p]].buf] = n
    <3> SUFFICES ASSUME NEW n \in Majors, NEW p \in 1..Len(queue'[n])
                 PROVE  slot'[queue'[n][p]] # NoRequest /\ MajorOf[slot'[queue'[n][p]].buf] = n
      OBVIOUS
    <3>1. CASE n = m
      <4>1. queue'[m][p] = r \/ \E k \in 1..Len(q) : queue'[m][p] = q[k]
        <5>1. p \in 1..Len(q) + 1
          BY <1>6, <3>1
        <5> HIDE DEF i, q, m
        <5>2. CASE p <= i
          BY <1>6, <5>1, <5>2
        <5>3. CASE p = i + 1
          BY <1>6, <5>1, <5>3
        <5>4. CASE p > i + 1
          <6>1. queue'[m][p] = q[p - 1] /\ p - 1 \in 1..Len(q)
            BY <1>6, <5>1, <5>4
          <6> QED BY <6>1
        <5> QED BY <1>6, <5>1, <5>2, <5>3, <5>4
      <4>2. CASE queue'[m][p] = r
        BY <1>4, <3>1, <4>2
      <4>3. CASE \E k \in 1..Len(q) : queue'[m][p] = q[k]
        <5>1. PICK k \in 1..Len(q) : queue'[m][p] = q[k]
          BY <4>3
        <5>2. slot'[q[k]] = slot[q[k]]
          BY <1>1, <1>7
        <5>3. slot[q[k]] # NoRequest /\ MajorOf[slot[q[k]].buf] = m
          BY <1>1 DEF Listed, ListsGood
        <5> HIDE DEF q, m
        <5> QED BY <3>1, <5>1, <5>2, <5>3
      <4> QED BY <4>1, <4>2, <4>3
    <3>2. CASE n # m
      <4>1. queue'[n] = queue[n]
        BY <1>1, <3>2
      <4>2. queue[n][p] \in Slots
        BY <4>1 DEF TypeOK
      <4>3. slot[queue[n][p]] # NoRequest /\ MajorOf[slot[queue[n][p]].buf] = n
        BY <4>1 DEF Listed, ListsGood
      <4> QED BY <1>1, <4>1, <4>2, <4>3
    <3> QED BY <3>1, <3>2
  <2>2. \A n \in Majors : \A p, k \in 1..Len(queue'[n]) : queue'[n][p] = queue'[n][k] => p = k
    <3> SUFFICES ASSUME NEW n \in Majors, NEW p \in 1..Len(queue'[n]),
                        NEW k \in 1..Len(queue'[n]), queue'[n][p] = queue'[n][k]
                 PROVE  p = k
      OBVIOUS
    <3>1. CASE n = m
      <4>1. \A x, y \in 1..Len(q) : q[x] = q[y] => x = y
        BY <1>1 DEF Listed, ListsGood
      <4>2. p \in 1..Len(q) + 1 /\ k \in 1..Len(q) + 1 /\ queue'[m][p] = queue'[m][k]
        BY <1>6, <3>1
      <4> DEFINE back(x) == IF x <= i THEN x ELSE x - 1
      <4>3. ASSUME NEW x \in 1..Len(q) + 1
            PROVE  \/ x = i + 1 /\ queue'[m][x] = r
                   \/ /\ x # i + 1 /\ back(x) \in 1..Len(q)
                      /\ queue'[m][x] = q[back(x)]
        <5> HIDE DEF i, q, m
        <5> QED BY <1>6, SMTT(30)
      <4>4. \A x, y \in 1..Len(q) + 1 : x # i + 1 /\ y # i + 1 /\ back(x) = back(y) => x = y
        <5> HIDE DEF i, q, m
        <5> QED BY <1>6
      <4> HIDE DEF i, q, m, back
      <4> QED BY <1>7, <4>1, <4>2, <4>3, <4>4, SMTT(30)
    <3>2. CASE n # m
      <4>1. queue'[n] = queue[n]
        BY <1>1, <3>2
      <4> QED BY <4>1 DEF Listed, ListsGood
    <3> QED BY <3>1, <3>2
  <2>3. ASSUME NEW j \in Slots, slot'[j] # NoRequest
        PROVE  \E p \in 1..Len(queue'[MajorOf[slot'[j].buf]]) :
                 queue'[MajorOf[slot'[j].buf]][p] = j
    <3>1. CASE j = r
      <4>1. MajorOf[slot'[j].buf] = m
        BY <1>4, <3>1
      <4>2. i + 1 \in 1..Len(queue'[m]) /\ queue'[m][i + 1] = r
        <5> HIDE DEF i, q, m
        <5> QED BY <1>6
      <4> HIDE DEF i, q, m
      <4> QED BY <3>1, <4>1, <4>2
    <3>2. CASE j # r
      <4> DEFINE n == MajorOf[slot[j].buf]
      <4>1. slot'[j] = slot[j]
        BY <1>1, <3>2
      <4>2. PICK p \in 1..Len(queue[n]) : queue[n][p] = j
        BY <2>3, <4>1 DEF Listed, ListsGood
      <4>3. n \in Majors
        <5>1. slot[j].buf \in Blocks
          BY <2>3, <4>1 DEF TypeOK, Requests
        <5> QED BY <5>1, MajorOfAssumption DEF Blocks
      <4>4. CASE n = m
        <5>1. \E k \in 1..Len(queue'[m]) : queue'[m][k] = q[p]
          <6>1. p \in 1..Len(q)
            BY <4>4
          <6> HIDE DEF i, q, m, n
          <6>2. CASE p <= i
            BY <1>6, <6>1, <6>2
          <6>3. CASE p > i
            <7>1. p + 1 \in 1..Len(queue'[m]) /\ queue'[m][p + 1] = q[p]
              BY <1>6, <6>1, <6>3
            <7> QED BY <7>1
          <6> QED BY <1>6, <6>1, <6>2, <6>3
        <5> QED BY <4>1, <4>2, <4>4, <5>1
      <4>5. CASE n # m
        <5>1. queue'[n] = queue[n]
          BY <1>1, <4>3, <4>5
        <5> QED BY <4>1, <4>2, <5>1
      <4> QED BY <4>4, <4>5
    <3> QED BY <3>1, <3>2
  <2> QED BY <2>1, <2>2, <2>3 DEF ListsGood
<1>9. WritesLow'
  BY <1>1, <1>4 DEF Listed, WritesLow
<1>10. OneTurnEach'
  <2> SUFFICES ASSUME NEW n \in Majors PROVE OneTurn(queue'[n], slot')
    BY DEF OneTurnEach, OneTurn, InOrder
  <2>1. ASSUME NEW k \in 1..Len(queue[n]), queue[n][k] # r
        PROVE  slot'[queue[n][k]] = slot[queue[n][k]]
    BY <1>1, <2>1 DEF TypeOK
  <2>2. \A k \in 1..Len(queue[n]) : queue[n][k] # r
    BY <1>1 DEF Listed, ListsGood
  <2>3. OneTurn(queue[n], slot')
    <3>1. OneTurn(queue[n], slot) /\ Len(queue[n]) \in Nat
      BY DEF Listed, OneTurnEach, TypeOK
    <3>2. ASSUME NEW j \in 1..Len(queue[n]) - 1
          PROVE  /\ slot'[queue[n][j]] = slot[queue[n][j]]
                 /\ slot'[queue[n][j + 1]] = slot[queue[n][j + 1]]
      <4>1. j \in 1..Len(queue[n]) /\ j + 1 \in 1..Len(queue[n])
        BY <3>1
      <4> QED BY <2>1, <2>2, <4>1
    <3> QED BY <3>1, <3>2 DEF OneTurn
  <2>4. CASE n = m
    <3>1. queue'[m] = Put(q, i, r)
      BY <1>1
    <3>2. \A k \in 1..Len(q) : slot'[q[k]] \in Requests /\ slot'[q[k]].buf # slot'[r].buf
      <4> SUFFICES ASSUME NEW k \in 1..Len(q)
                   PROVE  slot'[q[k]] \in Requests /\ slot'[q[k]].buf # slot'[r].buf
        OBVIOUS
      <4>1. q[k] \in Slots /\ slot'[q[k]] = slot[q[k]] /\ slot[q[k]] # NoRequest
        BY <1>1, <1>7 DEF Listed, ListsGood
      <4>2. slot[q[k]] \in Requests
        BY <4>1 DEF TypeOK
      <4>3. slot[q[k]].buf # b
        BY <1>3, <4>1 DEF Owned, OwnersDiffer, b
      <4> HIDE DEF q
      <4> QED BY <1>4, <4>1, <4>2, <4>3
    <3>3. OneTurn(q, slot')
      BY <2>3, <2>4
    <3>4. slot'[r] \in Requests /\ q \in Seq(Slots)
      BY <1>1
    <3> HIDE DEF q, m
    <3> QED BY <2>4, <3>1, <3>2, <3>3, <3>4, InsertKeepsOneTurn
  <2>5. CASE n # m
    <3>1. queue'[n] = queue[n]
      BY <1>1, <2>5
    <3> QED BY <2>3, <3>1
  <2> QED BY <2>4, <2>5
<1> QED BY <1>5, <1>8, <1>9, <1>10 DEF Listed

\* end_request(): the lock goes with the request, and the list loses its head.
LEMMA EndRequestStep ==
  ASSUME TypeOK, Owned, Listed, NEW m \in Majors, NEW ok, EndRequest(m, ok)
  PROVE  Owned' /\ Listed'
<1> DEFINE q == queue[m]
           h == Head(q)
           b == slot[h].buf
<1>1. /\ q \in Seq(Slots) /\ q # <<>> /\ Len(q) \in Nat /\ Len(q) >= 1
      /\ h = q[1] /\ h \in Slots
  BY DEF TypeOK, EndRequest
<1>2. /\ Tail(q) \in Seq(Slots) /\ Len(Tail(q)) = Len(q) - 1
      /\ \A k \in 1..Len(q) - 1 : Tail(q)[k] = q[k + 1]
  BY <1>1
<1>3. slot[h] # NoRequest /\ MajorOf[b] = m /\ b \in Blocks
  <2>1. slot[h] # NoRequest /\ MajorOf[b] = m
    BY <1>1 DEF Listed, ListsGood
  <2> QED BY <1>1, <2>1 DEF TypeOK, Requests
<1>4. /\ slot' = [slot EXCEPT ![h] = NoRequest] /\ queue' = [queue EXCEPT ![m] = Tail(q)]
      /\ lock' = [lock EXCEPT ![b] = FALSE] /\ pc' = pc /\ op' = op
  BY DEF EndRequest
<1> HIDE DEF h, b
<1>5. /\ slot'[h] = NoRequest /\ \A i \in Slots \ {h} : slot'[i] = slot[i]
      /\ queue'[m] = Tail(q) /\ \A n \in Majors \ {m} : queue'[n] = queue[n]
      /\ lock'[b] = FALSE /\ \A c \in Blocks \ {b} : lock'[c] = lock[c]
  BY <1>1, <1>3, <1>4 DEF TypeOK
<1>6. \A i \in Slots : slot[i] # NoRequest => slot[i].buf \in Blocks
  BY DEF TypeOK, Requests
<1>7. \A u \in Tasks : op[u].buf \in Blocks
  BY DEF TypeOK, Calls
<1>8. Owned'
  <2>1. OwnersLock'
    BY <1>1, <1>3, <1>4, <1>5, <1>6, <1>7 DEF Owned, OwnersLock, OwnersDiffer, b
  <2>2. OwnersDiffer'
    BY <1>1, <1>4, <1>5 DEF Owned, OwnersDiffer
  <2>3. LocksOwned'
    BY <1>1, <1>3, <1>4, <1>5 DEF Owned, LocksOwned, b
  <2> QED BY <2>1, <2>2, <2>3 DEF Owned
<1>9. ASSUME NEW n \in Majors, NEW k \in 1..Len(queue'[n])
      PROVE  \E j \in 1..Len(queue[n]) :
               /\ queue'[n][k] = queue[n][j] /\ queue[n][j] # h /\ queue[n][j] \in Slots
               /\ j = IF n = m THEN k + 1 ELSE k
  <2>1. CASE n = m
    <3>1. k + 1 \in 2..Len(q) /\ queue'[n][k] = q[k + 1]
      <4>1. queue'[n] = Tail(q)
        BY <1>5, <2>1
      <4>2. k \in 1..Len(q) - 1
        BY <1>2, <4>1
      <4>3. queue'[n][k] = q[k + 1]
        BY <1>2, <4>1, <4>2
      <4> QED BY <1>1, <4>2, <4>3
    <3>2. q[k + 1] # q[1]
      <4>1. k + 1 \in 1..Len(q) /\ 1 \in 1..Len(q) /\ k + 1 # 1
        BY <1>1, <3>1
      <4> QED BY <4>1 DEF Listed, ListsGood
    <3> QED BY <1>1, <2>1, <3>1, <3>2
  <2>2. CASE n # m
    <3>1. queue'[n] = queue[n] /\ queue[n] \in Seq(Slots)
      BY <1>5, <2>2 DEF TypeOK
    <3>2. queue[n][k] # h
      BY <1>3, <2>2, <3>1 DEF Listed, ListsGood, b
    <3> QED BY <2>2, <3>1, <3>2
  <2> QED BY <2>1, <2>2
<1>10. ListsGood'
  <2>1. \A n \in Majors : \A p \in 1..Len(queue'[n]) :
          slot'[queue'[n][p]] # NoRequest /\ MajorOf[slot'[queue'[n][p]].buf] = n
    <3> SUFFICES ASSUME NEW n \in Majors, NEW p \in 1..Len(queue'[n])
                 PROVE  slot'[queue'[n][p]] # NoRequest /\ MajorOf[slot'[queue'[n][p]].buf] = n
      OBVIOUS
    <3>1. PICK j \in 1..Len(queue[n]) :
             queue'[n][p] = queue[n][j] /\ queue[n][j] # h /\ queue[n][j] \in Slots
      BY <1>9
    <3>2. slot[queue[n][j]] # NoRequest /\ MajorOf[slot[queue[n][j]].buf] = n
      BY DEF Listed, ListsGood
    <3> QED BY <1>5, <3>1, <3>2
  <2>2. \A n \in Majors : \A p, k \in 1..Len(queue'[n]) : queue'[n][p] = queue'[n][k] => p = k
    <3> SUFFICES ASSUME NEW n \in Majors, NEW p \in 1..Len(queue'[n]),
                        NEW k \in 1..Len(queue'[n]), queue'[n][p] = queue'[n][k]
                 PROVE  p = k
      OBVIOUS
    <3>1. PICK x \in 1..Len(queue[n]) : /\ queue'[n][p] = queue[n][x]
                                        /\ x = IF n = m THEN p + 1 ELSE p
      BY <1>9
    <3>2. PICK y \in 1..Len(queue[n]) : /\ queue'[n][k] = queue[n][y]
                                        /\ y = IF n = m THEN k + 1 ELSE k
      BY <1>9
    <3>3. x = y
      <4>1. queue[n][x] = queue[n][y]
        BY <3>1, <3>2
      <4>2. \A a, c \in 1..Len(queue[n]) : queue[n][a] = queue[n][c] => a = c
        BY DEF Listed, ListsGood
      <4> QED BY <4>1, <4>2
    <3>4. p \in Nat /\ k \in Nat
      BY <1>1, <1>2, <1>5 DEF TypeOK
    <3> QED BY <3>1, <3>2, <3>3, <3>4
  <2>3. ASSUME NEW j \in Slots, slot'[j] # NoRequest
        PROVE  \E p \in 1..Len(queue'[MajorOf[slot'[j].buf]]) :
                 queue'[MajorOf[slot'[j].buf]][p] = j
    <3> DEFINE n == MajorOf[slot[j].buf]
    <3>1. j # h /\ slot'[j] = slot[j]
      BY <1>5, <2>3
    <3>2. PICK p \in 1..Len(queue[n]) : queue[n][p] = j
      BY <2>3, <3>1 DEF Listed, ListsGood
    <3>3. n \in Majors
      BY <1>6, <2>3, <3>1, MajorOfAssumption DEF Blocks
    <3>4. CASE n = m
      <4>1. p # 1 /\ p \in 1..Len(q) /\ q[p] = j
        BY <1>1, <3>1, <3>2, <3>4
      <4>2. p - 1 \in 1..Len(queue'[m]) /\ queue'[m][p - 1] = j
        BY <1>1, <1>2, <1>5, <4>1
      <4> QED BY <3>1, <3>4, <4>2
    <3>5. CASE n # m
      BY <1>5, <3>1, <3>2, <3>3, <3>5
    <3> QED BY <3>4, <3>5
  <2> QED BY <2>1, <2>2, <2>3 DEF ListsGood
<1>11. WritesLow'
  BY <1>5 DEF Listed, WritesLow
<1>12. OneTurnEach'
  <2> SUFFICES ASSUME NEW n \in Majors PROVE OneTurn(queue'[n], slot')
    BY DEF OneTurnEach, OneTurn, InOrder
  <2> DEFINE g(k) == IF n = m THEN k + 1 ELSE k
  <2>1. Len(queue'[n]) \in Nat /\ Len(queue[n]) \in Nat
    BY <1>1, <1>2, <1>5 DEF TypeOK
  <2>2. ASSUME NEW k \in 1..Len(queue'[n])
        PROVE  /\ g(k) \in 1..Len(queue[n])
               /\ slot'[queue'[n][k]] = slot[queue[n][g(k)]]
    BY <1>5, <1>9
  <2>3. ASSUME NEW k \in 1..Len(queue'[n]) - 1
        PROVE  /\ g(k) \in 1..Len(queue[n]) - 1
               /\ slot'[queue'[n][k]] = slot[queue[n][g(k)]]
               /\ slot'[queue'[n][k + 1]] = slot[queue[n][g(k) + 1]]
    <3>1. k \in 1..Len(queue'[n]) /\ k + 1 \in 1..Len(queue'[n]) /\ g(k + 1) = g(k) + 1
          /\ g(k) \in Int
      BY <2>1
    <3> HIDE DEF g
    <3>2. g(k) \in 1..Len(queue[n]) /\ g(k) + 1 \in 1..Len(queue[n])
      BY <2>2, <3>1
    <3> QED BY <2>1, <2>2, <3>1, <3>2
  <2>4. \A j, k \in 1..Len(queue'[n]) - 1 : g(j) = g(k) => j = k
    BY <2>1
  <2>5. OneTurn(queue[n], slot)
    BY DEF Listed, OneTurnEach
  <2> HIDE DEF g
  <2> QED BY <2>3, <2>4, <2>5 DEF OneTurn
<1> QED BY <1>8, <1>10, <1>11, <1>12 DEF Listed

-----------------------------------------------------------------------------
(* The invariant.                                                          *)

\* At the start nothing is locked and no request is in use.
LEMMA BlkInit ==
  Init => BlkInv
<1> SUFFICES ASSUME Init PROVE BlkInv
  OBVIOUS
<1>1. NoCall \in Calls
  BY MajorOfAssumption DEF NoCall, Calls, Blocks, READ
<1>2. TypeOK
  BY <1>1 DEF Init, TypeOK, PCs
<1>3. OwnersLock /\ OwnersDiffer /\ LocksOwned
  BY DEF Init, OwnersLock, OwnersDiffer, LocksOwned, Making
<1>4. ListsGood /\ WritesLow /\ OneTurnEach
  BY DEF Init, ListsGood, WritesLow, OneTurnEach, OneTurn
<1> QED BY <1>2, <1>3, <1>4 DEF BlkInv

\* What a task does in ll_rw_block() keeps the invariant.
LEMMA WorkStep ==
  ASSUME TypeOK, Owned, Listed, NEW t \in Tasks,
         \/ Work(t)
         \/ \E b \in Blocks, cmd \in {READ, WRITE}, ahead \in BOOLEAN :
              LlRwBlock(t, b, cmd, ahead)
  PROVE  Owned' /\ Listed'
<1> USE DEF bufVars, reqVars, waitVars
<1>1. ASSUME NEW b \in Blocks, NEW cmd \in {READ, WRITE}, NEW ahead \in BOOLEAN,
             LlRwBlock(t, b, cmd, ahead)
      PROVE  Owned' /\ Listed'
  <2>1. /\ slot' = slot /\ queue' = queue /\ lock' = lock
        /\ \A u \in Tasks : /\ pc'[u] \in Making <=> pc[u] \in Making
                            /\ pc[u] \in Making => op'[u].buf = op[u].buf
    BY <1>1 DEF LlRwBlock, TypeOK, Making
  <2> QED BY <2>1, OwnedKept, ListedKept
<1>2. CASE LockBuffer(t)
  <2>1. slot' = slot /\ queue' = queue /\ pc[t] = "lock" /\ ~lock[op[t].buf]
    BY <1>2 DEF LockBuffer
  <2>2. CASE Leave(t) /\ lock' = lock
    <3>1. \A u \in Tasks : /\ pc'[u] \in Making <=> pc[u] \in Making
                           /\ pc[u] \in Making => op'[u].buf = op[u].buf
      BY <2>1, <2>2, LeaveEffect DEF Making
    <3> QED BY <2>1, <2>2, <3>1, OwnedKept, ListedKept
  <2>3. CASE /\ lock' = [lock EXCEPT ![op[t].buf] = TRUE]
             /\ pc' = [pc EXCEPT ![t] = "search"] /\ op' = op
    BY <2>1, <2>3, LockStep, ListedKept
  <2> QED BY <1>2, <2>2, <2>3 DEF LockBuffer
<1>3. CASE MakeRequest(t)
  BY <1>3, MakeRequestStep
<1>4. ASSUME DropAhead(t) \/ \E ok \in BOOLEAN : MakeRamRequest(t, ok)
      PROVE  Owned' /\ Listed'
  <2>1. /\ slot' = slot /\ queue' = queue /\ pc[t] \in Making /\ Leave(t)
        /\ lock' = [lock EXCEPT ![op[t].buf] = FALSE]
    BY <1>4 DEF DropAhead, MakeRamRequest, Making
  <2> QED BY <2>1, UnlockStep, ListedKept
<1>5. CASE NoneFree(t) \/ SleepOn(t) \/ Sleep(t) \/ Awake(t)
  <2>1. slot' = slot /\ queue' = queue /\ lock' = lock /\ op' = op
    BY <1>5 DEF NoneFree, SleepOn, Sleep, Awake
  <2>2. \A u \in Tasks : pc'[u] \in Making <=> pc[u] \in Making
    BY <1>5 DEF NoneFree, SleepOn, Sleep, Awake, TypeOK, Making
  <2> QED BY <2>1, <2>2, OwnedKept, ListedKept
<1> QED BY <1>1, <1>2, <1>3, <1>4, <1>5 DEF Work

\* Every step keeps the invariant.
LEMMA BlkStep ==
  BlkInv /\ [Next]_vars => BlkInv'
<1> SUFFICES ASSUME BlkInv, [Next]_vars PROVE BlkInv'
  OBVIOUS
<1>0. TypeOK /\ Owned /\ Listed
  BY DEF BlkInv, Owned, Listed
<1>1. ASSUME NEW t \in Tasks,
             \/ Work(t)
             \/ \E b \in Blocks, cmd \in {READ, WRITE}, ahead \in BOOLEAN :
                  LlRwBlock(t, b, cmd, ahead)
      PROVE  Owned' /\ Listed'
  BY <1>0, <1>1, WorkStep
<1>2. ASSUME NEW m \in Majors, Interrupt(m) PROVE Owned' /\ Listed'
  BY <1>0, <1>2, EndRequestStep DEF Interrupt
<1>3. ASSUME NEW b \in Blocks, Modify(b) \/ Reuse(b) PROVE Owned' /\ Listed'
  <2>1. slot' = slot /\ queue' = queue /\ lock' = lock /\ pc' = pc /\ op' = op
    BY <1>3 DEF Modify, Reuse, reqVars
  <2> QED BY <1>0, <2>1, OwnedKept, ListedKept
<1>4. ASSUME UNCHANGED vars PROVE Owned' /\ Listed'
  <2>1. slot' = slot /\ queue' = queue /\ lock' = lock /\ pc' = pc /\ op' = op
    BY <1>4 DEF vars, bufVars, reqVars
  <2>2. \A u \in Tasks : /\ pc'[u] \in Making <=> pc[u] \in Making
                         /\ pc[u] \in Making => op'[u].buf = op[u].buf
    BY <2>1
  <2>3. Owned'
    BY <1>0, <2>1, <2>2, OwnedKept
  <2>4. Listed'
    BY <1>0, <2>1, ListedKept
  <2> QED BY <2>3, <2>4
<1>5. Owned' /\ Listed'
  <2>1. ASSUME Next PROVE Owned' /\ Listed'
    BY <1>1, <1>2, <1>3, <2>1, Zenon DEF Next
  <2> QED BY <1>4, <2>1
<1>6. TypeOK'
  BY <1>0, TypeStep
<1> QED BY <1>5, <1>6 DEF BlkInv, Owned, Listed

\* The invariant holds of every reachable state.
LEMMA BlkInvariant ==
  Spec => []BlkInv
BY BlkInit, BlkStep, PTL DEF Spec

-----------------------------------------------------------------------------
(***************************************************************************)
(* A locked buffer belongs to one task in make_request() or to one         *)
(* request, and an unlocked one to nobody, however tasks, read-aheads and  *)
(* disk interrupts interleave (ll_rw_blk.c:42-61, 105-163; blk.h:130-151). *)
(***************************************************************************)
THEOREM EveryLockHasOneOwner == Spec => []OneOwnerPerLock
<1>1. BlkInv => OneOwnerPerLock
  <2> SUFFICES ASSUME BlkInv, NEW b \in Blocks
               PROVE  Cardinality(Queued(b)) + Cardinality(Owners(b))
                        = IF lock[b] THEN 1 ELSE 0
    BY DEF OneOwnerPerLock
  <2>0. Cardinality({}) = 0 /\ \A x : Cardinality({x}) = 1
    BY FS_EmptySet, FS_Singleton
  <2>1. CASE ~lock[b]
    <3>1. Queued(b) = {} /\ Owners(b) = {}
      BY <2>1 DEF BlkInv, OwnersLock, Queued, Owners, Making
    <3> QED BY <2>0, <2>1, <3>1
  <2>2. CASE lock[b]
    <3>1. CASE \E i \in Slots : slot[i] # NoRequest /\ slot[i].buf = b
      <4>1. PICK i \in Slots : slot[i] # NoRequest /\ slot[i].buf = b
        BY <3>1
      <4>2. Queued(b) = {i} /\ Owners(b) = {}
        BY <4>1 DEF BlkInv, OwnersDiffer, Queued, Owners, Making
      <4>3. Cardinality(Queued(b)) = 1 /\ Cardinality(Owners(b)) = 0
        BY <2>0, <4>2, Zenon
      <4> QED BY <2>2, <4>3
    <3>2. CASE \E t \in Tasks : pc[t] \in Making /\ op[t].buf = b
      <4>1. PICK t \in Tasks : pc[t] \in Making /\ op[t].buf = b
        BY <3>2
      <4>2. Queued(b) = {}
        BY <4>1 DEF BlkInv, OwnersDiffer, Queued
      <4>3. Owners(b) = {t}
        BY <4>1 DEF BlkInv, OwnersDiffer, Owners, Making
      <4>4. Cardinality(Queued(b)) = 0 /\ Cardinality(Owners(b)) = 1
        BY <2>0, <4>2, <4>3, Zenon
      <4> QED BY <2>2, <4>4
    <3> QED BY <2>2, <3>1, <3>2 DEF BlkInv, LocksOwned
  <2> QED BY <2>1, <2>2
<1> QED BY <1>1, BlkInvariant, PTL

(***************************************************************************)
(* The elevator of add_request() keeps every list one sweep and the next,  *)
(* for any requests in any order (ll_rw_blk.c:80-102): the argument needs  *)
(* that no two requests on a list are for the same buffer, that is, the    *)
(* lock of the buffer.                                                     *)
(***************************************************************************)
THEOREM ElevatorSweeps == Spec => []OneSweepAhead
<1>1. BlkInv => OneSweepAhead
  <2> SUFFICES ASSUME BlkInv, NEW m \in Majors
               PROVE  Cardinality({p \in 1..Len(queue[m]) - 1 :
                        ~InOrder(slot[queue[m][p]], slot[queue[m][p + 1]])}) <= 1
    BY DEF OneSweepAhead
  <2> DEFINE T == {p \in 1..Len(queue[m]) - 1 :
                     ~InOrder(slot[queue[m][p]], slot[queue[m][p + 1]])}
  <2> SUFFICES Cardinality(T) <= 1
    OBVIOUS
  <2>0. Cardinality({}) = 0 /\ \A x : Cardinality({x}) = 1
    BY FS_EmptySet, FS_Singleton
  <2>1. \A p, q \in T : p = q
    BY DEF BlkInv, OneTurnEach, OneTurn
  <2>2. CASE T = {}
    <3>1. Cardinality(T) = 0
      BY <2>0, <2>2, Zenon
    <3> HIDE DEF T
    <3> QED BY <3>1
  <2>3. CASE T # {}
    <3>1. PICK p \in T : TRUE
      BY <2>3
    <3>2. T = {p}
      <4> HIDE DEF T
      <4> QED BY <2>1, <3>1
    <3>3. Cardinality(T) = 1
      <4> HIDE DEF T
      <4> QED BY <2>0, <3>2, Zenon
    <3> HIDE DEF T
    <3> QED BY <3>3
  <2> QED BY <2>2, <2>3
<1> QED BY <1>1, BlkInvariant, PTL

(***************************************************************************)
(* The lists of the devices hold every request in use once, on the list of *)
(* its device, and no free one: "request list destroyed" (blk.h:138-139)   *)
(* is never printed.                                                       *)
(***************************************************************************)
THEOREM ListsAreGood == Spec => []ListsHoldRequests
<1>1. BlkInv => ListsHoldRequests
  <2> SUFFICES ASSUME BlkInv PROVE ListsHoldRequests
    OBVIOUS
  <2>1. ASSUME NEW i \in Slots, slot[i] # NoRequest
        PROVE  Cardinality({p \in Positions(MajorOf[slot[i].buf]) :
                              queue[MajorOf[slot[i].buf]][p] = i}) = 1
    <3> DEFINE m == MajorOf[slot[i].buf]
    <3>1. m \in Majors
      <4>1. slot[i].buf \in Blocks
        BY <2>1 DEF BlkInv, TypeOK, Requests
      <4> QED BY <4>1, MajorOfAssumption DEF Blocks
    <3>2. PICK p \in 1..Len(queue[m]) : queue[m][p] = i
      BY <2>1 DEF BlkInv, ListsGood
    <3>3. {k \in Positions(m) : queue[m][k] = i} = {p}
      BY <3>1, <3>2 DEF BlkInv, ListsGood, Positions
    <3> QED BY <3>3, FS_Singleton
  <2>2. \A m \in Majors : \A p \in Positions(m) :
          slot[queue[m][p]] # NoRequest /\ MajorOf[slot[queue[m][p]].buf] = m
    BY DEF BlkInv, ListsGood, Positions
  <2> QED BY <2>1, <2>2 DEF ListsHoldRequests
<1> QED BY <1>1, BlkInvariant, PTL

(***************************************************************************)
(* However many tasks write, the last third of the requests is left to     *)
(* reads (blk.h:7-8, ll_rw_blk.c:127-138).                                 *)
(***************************************************************************)
THEOREM ReadsHaveRoom == Spec => []RoomForReads
<1>1. BlkInv => RoomForReads
  <2> SUFFICES ASSUME BlkInv PROVE RoomForReads
    OBVIOUS
  <2> DEFINE k == (NrRequest * 2) \div 3
             W == {i \in Slots : slot[i] # NoRequest /\ slot[i].cmd = WRITE}
  <2>1. k \in Nat
    BY NrRequestAssumption
  <2>2. W \subseteq 1..k
    <3>1. \A i \in W : i \in Nat /\ i >= 1 /\ i <= k
      BY NrRequestAssumption DEF BlkInv, WritesLow, Slots
    <3> HIDE DEF W, k
    <3> QED BY <2>1, <3>1
  <2>3. IsFiniteSet(1..k) /\ Cardinality(1..k) = k
    <3> HIDE DEF k
    <3> QED BY <2>1, FS_Interval
  <2>4. Cardinality(W) <= k
    <3> HIDE DEF W, k
    <3> QED BY <2>2, <2>3, FS_Subset
  <2> QED BY <2>4 DEF RoomForReads
<1> QED BY <1>1, BlkInvariant, PTL

-----------------------------------------------------------------------------
(* The driver of the hard disk.                                            *)

\* The values that the variables have
HdFunctions == {"NULL", "read_intr", "write_intr", "recal_intr"}
HdPlaces == [Hd!Contexts -> {"idle", "repeat", "poll"}]
HdController == [cmd : {"none", "specify", "restore", "read", "write"}, left : 0..Hd!Sectors,
                 st : {"idle", "busy", "wait", "drq", "ok", "err"}]

\* A context in do_hd_request() is the only one, and the controller does not
\* work: it is idle, done, or, for a write, at its first sector.
OneContext ==
  \A c \in Hd!Contexts : context[c] # "idle" =>
    /\ \A d \in Hd!Contexts : d # c => context[d] = "idle"
    /\ ~irq
    /\ context[c] = "repeat" => do_hd = "NULL"
    /\ context[c] = "poll" => do_hd = "write_intr" /\ ctl.st \in {"wait", "drq"}

\* The controller is at work on what do_hd is for, or its interrupt is pending.
Answers ==
  /\ do_hd = "NULL" => ~irq /\ ctl.st \notin {"busy", "wait"}
  /\ do_hd = "recal_intr" => ctl.cmd \in {"specify", "restore"}
  /\ do_hd # "NULL" /\ (\A c \in Hd!Contexts : context[c] = "idle") =>
       /\ ctl.st \in {"busy", "ok", "err"}
       /\ irq = (ctl.st # "busy")

\* What do_hd and the controller mean is what is left of CURRENT.
MeansCURRENT ==
  /\ do_hd # "NULL" => hdqueue # <<>>
  /\ do_hd = "read_intr" => ctl.cmd = "read" /\ Hd!CURRENT.cmd = "read"
  /\ do_hd = "write_intr" => ctl.cmd = "write" /\ Hd!CURRENT.cmd = "write"
  /\ do_hd \in {"read_intr", "write_intr"} => ctl.left = Hd!CURRENT.left

\* The inductive invariant: as long as no write command was given up
HdInv == Hd!TypeOK /\ (~late => OneContext /\ Answers /\ MeansCURRENT /\ ~panic)

\* The rest of a list of requests is one.
LEMMA HdTail ==
  ASSUME NEW q \in Seq(Hd!Requests), q # <<>>
  PROVE  Head(q) \in Hd!Requests /\ Head(q) = q[1] /\ Tail(q) \in Seq(Hd!Requests) /\ Len(q) \in Nat \ {0}
  <1>1. Len(q) \in Nat \ {0}
    OBVIOUS
  <1> QED
    BY <1>1

\* An error counted for the first request changes nothing else.
LEMMA HdCount ==
  ASSUME NEW q \in Seq(Hd!Requests), q # <<>>, NEW p,
         p = [q EXCEPT ![1].errors = @ + 1], Head(q).errors < 6
  PROVE  /\ p \in Seq(Hd!Requests) /\ p # <<>>
         /\ Head(p).cmd = Head(q).cmd /\ Head(p).left = Head(q).left
         /\ p[1].errors = Head(q).errors + 1
  <1> DEFINE r == [q[1] EXCEPT !.errors = @ + 1]
  <1>1. Len(q) \in Nat \ {0} /\ Head(q) = q[1] /\ q[1] \in Hd!Requests
    BY HdTail
  <1>2. r \in Hd!Requests /\ r.errors = q[1].errors + 1 /\ r.cmd = q[1].cmd /\ r.left = q[1].left
    <2>1. q[1].errors \in 0..7 /\ q[1].errors < 6
      BY <1>1 DEF Hd!Requests, Hd!MAX_ERRORS
    <2>2. q[1].errors + 1 \in 0..7
      BY <2>1
    <2> QED
      BY <1>1, <2>2 DEF Hd!Requests, Hd!MAX_ERRORS
  <1>3. p = [q EXCEPT ![1] = r]
    BY <1>1
  <1> HIDE DEF r
  <1>4. p \in Seq(Hd!Requests) /\ Len(p) = Len(q) /\ p[1] = r
    BY <1>1, <1>2, <1>3
  <1> QED
    BY <1>1, <1>2, <1>4

\* A request put in the place of the first one
LEMMA HdReplace ==
  ASSUME NEW q \in Seq(Hd!Requests), q # <<>>, NEW r \in Hd!Requests
  PROVE  <<r>> \o Tail(q) \in Seq(Hd!Requests) /\ <<r>> \o Tail(q) # <<>> /\ Head(<<r>> \o Tail(q)) = r
  <1>1. Tail(q) \in Seq(Hd!Requests)
    BY HdTail
  <1>2. <<r>> \o Tail(q) \in Seq(Hd!Requests) /\ Len(<<r>> \o Tail(q)) = 1 + Len(Tail(q))
    BY <1>1
  <1> QED
    BY <1>1, <1>2

\* bad_rw_intr() counts an error for CURRENT, or ends it at the last one.
LEMMA HdBad ==
  ASSUME Hd!TypeOK, hdqueue # <<>>, Hd!BadRwIntr
  PROVE  /\ hdqueue' \in Seq(Hd!Requests) /\ reset' \in BOOLEAN /\ ended' \in BOOLEAN
         /\ Hd!CURRENT.errors < 6 => ended' = ended
  <1>0. hdqueue \in Seq(Hd!Requests) /\ {reset, ended} \subseteq BOOLEAN
    BY DEF Hd!TypeOK
  <1> DEFINE q == [hdqueue EXCEPT ![1].errors = @ + 1]
  <1>1. Head(hdqueue) \in Hd!Requests /\ Head(hdqueue) = hdqueue[1] /\ Tail(hdqueue) \in Seq(Hd!Requests)
    BY <1>0, HdTail
  <1>2. q[1].errors = Head(hdqueue).errors + 1
    BY <1>0, <1>1, HdTail DEF Hd!Requests
  <1>3. CASE Head(hdqueue).errors < 6
    <2>1. q \in Seq(Hd!Requests)
      BY <1>0, <1>3, HdCount
    <2>2. ~(q[1].errors >= 7)
      BY <1>1, <1>2, <1>3 DEF Hd!Requests
    <2> HIDE DEF q
    <2> QED
      BY <1>0, <2>1, <2>2 DEF Hd!BadRwIntr, Hd!MAX_ERRORS, q
  <1>4. CASE ~(Head(hdqueue).errors < 6)
    <2>1. q[1].errors >= 7
      BY <1>1, <1>2, <1>4 DEF Hd!Requests
    <2> HIDE DEF q
    <2>2. hdqueue' = Tail(hdqueue) /\ ended' = ~ended /\ reset' \in BOOLEAN
      BY <2>1 DEF Hd!BadRwIntr, Hd!EndRequest, Hd!MAX_ERRORS, q
    <2> QED
      BY <1>0, <1>1, <1>4, <2>2 DEF Hd!CURRENT
  <1> QED
    BY <1>3, <1>4

\* hd_out() and reset_hd() leave the variables in their types.
LEMMA HdOutType ==
  ASSUME Hd!TypeOK, NEW c \in Hd!Contexts,
         NEW cmd \in {"restore", "read", "write"}, NEW n \in 0..Hd!Sectors,
         NEW intr \in {"read_intr", "write_intr", "recal_intr"},
         Hd!HdOut(c, cmd, n, intr)
  PROVE  /\ do_hd' \in HdFunctions
         /\ panic' \in BOOLEAN
         /\ context' \in HdPlaces
         /\ ctl' \in HdController
  <1>0. do_hd \in HdFunctions /\ panic \in BOOLEAN /\ context \in HdPlaces /\ ctl \in HdController
    BY DEF Hd!TypeOK, HdFunctions, HdPlaces, HdController
  <1>1. CASE ctl.st \in {"busy", "wait"}
    BY <1>0, <1>1 DEF Hd!HdOut
  <1>2. CASE ctl.st \notin {"busy", "wait"}
    <2>1. /\ do_hd' = intr /\ UNCHANGED panic
          /\ ctl' = [cmd |-> cmd, left |-> n, st |-> IF cmd = "write" THEN "wait" ELSE "busy"]
          /\ context' = [context EXCEPT ![c] = IF cmd = "write" THEN "poll" ELSE "idle"]
      BY <1>2 DEF Hd!HdOut
    <2>2. ctl' \in HdController
      BY <2>1 DEF HdController
    <2>3. context' \in HdPlaces
      BY <1>0, <2>1 DEF HdPlaces
    <2> QED
      BY <1>0, <2>1, <2>2, <2>3 DEF HdFunctions
  <1> QED
    BY <1>1, <1>2

\* Every step of the driver and of the controller keeps the types.
LEMMA HdTypeStep ==
  ASSUME Hd!TypeOK, Hd!Next
  PROVE  Hd!TypeOK'
  <1>0. hdqueue \in Seq(Hd!Requests) /\ {reset, recalibrate, irq, panic, ended, late} \subseteq BOOLEAN
    BY DEF Hd!TypeOK, HdFunctions, HdPlaces, HdController
  <1>00. /\ do_hd \in HdFunctions
         /\ context \in HdPlaces
         /\ ctl \in HdController
    BY DEF Hd!TypeOK, HdFunctions, HdPlaces, HdController
  <1>c. "irq" \in Hd!Contexts /\ "task" \in Hd!Contexts
    BY DEF Hd!Contexts
  <1>h. hdqueue # <<>> => Hd!CURRENT \in Hd!Requests /\ Tail(hdqueue) \in Seq(Hd!Requests)
    BY <1>0, HdTail DEF Hd!CURRENT
  <1>m. ASSUME hdqueue # <<>>, NEW r,
               r.cmd = Hd!CURRENT.cmd, r.left = Hd!CURRENT.left - 1, r.room = Hd!CURRENT.room,
               r = [cmd |-> r.cmd, left |-> r.left, errors |-> r.errors, room |-> r.room],
               r.errors \in 0..Hd!MAX_ERRORS,
               Hd!Moved(r)
        PROVE  /\ hdqueue' \in Seq(Hd!Requests) /\ ended' \in BOOLEAN
               /\ do_hd' \in HdFunctions
               /\ context' \in HdPlaces
    <2>0. Hd!CURRENT \in Hd!Requests
      BY <1>h, <1>m
    <2>1. CASE r.left > 0
      <3>1. r.left \in 1..Hd!Sectors
        BY <2>0, <2>1, <1>m DEF Hd!Requests, Hd!Sectors
      <3>2. r \in Hd!Requests
        BY <2>0, <3>1, <1>m DEF Hd!Requests
      <3>3. <<r>> \o Tail(hdqueue) \in Seq(Hd!Requests)
        BY <1>0, <1>m, <3>2, HdReplace
      <3> QED
        BY <1>0, <1>00, <1>m, <2>1, <3>3 DEF Hd!Moved
    <2>2. CASE ~(r.left > 0)
      BY <1>0, <1>00, <1>c, <1>h, <1>m, <2>2 DEF Hd!Moved, Hd!EndRequest, Hd!GoesOn, HdPlaces, HdFunctions
    <2> QED
      BY <2>1, <2>2
  <1>1. ASSUME Hd!Controller PROVE Hd!TypeOK'
    BY <1>0, <1>00, <1>1 DEF Hd!Controller, Hd!Done, Hd!AskForData, Hd!RefuseData, Hd!TypeOK, HdFunctions, HdPlaces, HdController
  <1>2. ASSUME Hd!ReadIntr PROVE Hd!TypeOK'
    <2>0. irq' = FALSE /\ UNCHANGED <<recalibrate, late>>
      BY <1>2 DEF Hd!ReadIntr, Hd!Takes
    <2>1. CASE hdqueue = <<>>
      BY <1>0, <1>00, <1>2, <2>0, <2>1 DEF Hd!ReadIntr, Hd!IsNULL, Hd!WritesNULL, Hd!TypeOK, HdFunctions, HdPlaces, HdController
    <2>2. CASE hdqueue # <<>> /\ Hd!Failed
      <3>1. Hd!BadRwIntr /\ Hd!GoesOn /\ UNCHANGED <<ctl, panic>>
        BY <1>2, <2>2 DEF Hd!ReadIntr, Hd!IsNULL
      <3>2. hdqueue' \in Seq(Hd!Requests) /\ reset' \in BOOLEAN /\ ended' \in BOOLEAN
        BY <2>2, <3>1, HdBad
      <3> QED
        BY <1>0, <1>00, <1>c, <2>0, <3>1, <3>2 DEF Hd!GoesOn, Hd!TypeOK, HdFunctions, HdPlaces, HdController
    <2>3. CASE hdqueue # <<>> /\ ~Hd!Failed
      <3>1. /\ Hd!Moved([Hd!CURRENT EXCEPT !.left = @ - 1, !.errors = 0])
            /\ ctl' = IF Hd!GivesSector THEN Hd!AfterRead ELSE ctl
            /\ UNCHANGED <<reset, panic>>
        BY <1>2, <2>3 DEF Hd!ReadIntr, Hd!IsNULL
      <3>2. PICK r : r = [Hd!CURRENT EXCEPT !.left = @ - 1, !.errors = 0]
        OBVIOUS
      <3>3. /\ r.cmd = Hd!CURRENT.cmd /\ r.left = Hd!CURRENT.left - 1 /\ r.room = Hd!CURRENT.room
            /\ r = [cmd |-> r.cmd, left |-> r.left, errors |-> r.errors, room |-> r.room]
            /\ r.errors \in 0..Hd!MAX_ERRORS
        <4>1. Hd!CURRENT \in Hd!Requests
          BY <1>h, <2>3
        <4>2. r = [cmd |-> Hd!CURRENT.cmd, left |-> Hd!CURRENT.left - 1, errors |-> 0, room |-> Hd!CURRENT.room]
          BY <3>2, <4>1 DEF Hd!Requests
        <4> QED
          BY <4>2 DEF Hd!MAX_ERRORS
      <3>4. Hd!Moved(r)
        BY <3>1, <3>2
      <3>5. /\ hdqueue' \in Seq(Hd!Requests) /\ ended' \in BOOLEAN
            /\ do_hd' \in HdFunctions
            /\ context' \in HdPlaces
        BY <1>m, <2>3, <3>3, <3>4
      <3>6. ctl' \in HdController
        <4>1. CASE Hd!GivesSector
          <5>1. ctl.left - 1 \in 0..Hd!Sectors
            BY <1>00, <4>1 DEF Hd!GivesSector, Hd!Sectors, HdController
          <5>2. ctl' = [ctl EXCEPT !.left = ctl.left - 1, !.st = IF ctl.left > 1 THEN "busy" ELSE "idle"]
            BY <3>1, <4>1 DEF Hd!AfterRead
          <5> QED
            BY <1>00, <5>1, <5>2 DEF HdController
        <4> QED
          BY <1>00, <3>1, <4>1
      <3> QED
        BY <1>0, <2>0, <3>1, <3>5, <3>6 DEF Hd!TypeOK, HdFunctions, HdPlaces, HdController
    <2> QED
      BY <2>1, <2>2, <2>3
  <1>3. ASSUME Hd!WriteIntr PROVE Hd!TypeOK'
    <2>0. irq' = FALSE /\ UNCHANGED <<recalibrate, late>>
      BY <1>3 DEF Hd!WriteIntr, Hd!Takes
    <2>1. CASE hdqueue = <<>>
      BY <1>0, <1>00, <1>3, <2>0, <2>1 DEF Hd!WriteIntr, Hd!IsNULL, Hd!WritesNULL, Hd!TypeOK, HdFunctions, HdPlaces, HdController
    <2>2. CASE hdqueue # <<>> /\ Hd!Failed
      <3>1. Hd!BadRwIntr /\ Hd!GoesOn /\ UNCHANGED <<ctl, panic>>
        BY <1>3, <2>2 DEF Hd!WriteIntr, Hd!IsNULL
      <3>2. hdqueue' \in Seq(Hd!Requests) /\ reset' \in BOOLEAN /\ ended' \in BOOLEAN
        BY <2>2, <3>1, HdBad
      <3> QED
        BY <1>0, <1>00, <1>c, <2>0, <3>1, <3>2 DEF Hd!GoesOn, Hd!TypeOK, HdFunctions, HdPlaces, HdController
    <2>3. CASE hdqueue # <<>> /\ ~Hd!Failed
      <3>1. /\ Hd!Moved([Hd!CURRENT EXCEPT !.left = @ - 1])
            /\ ctl' = IF Hd!TakesSector THEN Hd!AfterWrite ELSE ctl
            /\ UNCHANGED <<reset, panic>>
        BY <1>3, <2>3 DEF Hd!WriteIntr, Hd!IsNULL
      <3>2. PICK r : r = [Hd!CURRENT EXCEPT !.left = @ - 1]
        OBVIOUS
      <3>3. /\ r.cmd = Hd!CURRENT.cmd /\ r.left = Hd!CURRENT.left - 1 /\ r.room = Hd!CURRENT.room
            /\ r = [cmd |-> r.cmd, left |-> r.left, errors |-> r.errors, room |-> r.room]
            /\ r.errors \in 0..Hd!MAX_ERRORS
        BY <1>h, <2>3, <3>2 DEF Hd!Requests, Hd!MAX_ERRORS
      <3>4. Hd!Moved(r)
        BY <3>1, <3>2
      <3>5. /\ hdqueue' \in Seq(Hd!Requests) /\ ended' \in BOOLEAN
            /\ do_hd' \in HdFunctions
            /\ context' \in HdPlaces
        BY <1>m, <2>3, <3>3, <3>4
      <3>6. ctl' \in HdController
        <4>1. CASE Hd!TakesSector
          <5>1. ctl.left - 1 \in 0..Hd!Sectors
            BY <1>00, <4>1 DEF Hd!TakesSector, Hd!Sectors, HdController
          <5>2. ctl' = [ctl EXCEPT !.left = ctl.left - 1, !.st = IF ctl.left > 1 THEN "busy" ELSE "idle"]
            BY <3>1, <4>1 DEF Hd!AfterWrite
          <5> QED
            BY <1>00, <5>1, <5>2 DEF HdController
        <4> QED
          BY <1>00, <3>1, <4>1
      <3> QED
        BY <1>0, <2>0, <3>1, <3>5, <3>6 DEF Hd!TypeOK, HdFunctions, HdPlaces, HdController
    <2> QED
      BY <2>1, <2>2, <2>3
  <1>4. ASSUME Hd!RecalIntr PROVE Hd!TypeOK'
    <2>0. irq' = FALSE /\ UNCHANGED <<recalibrate, late>>
      BY <1>4 DEF Hd!RecalIntr, Hd!Takes
    <2>1. CASE hdqueue = <<>> /\ Hd!Failed
      BY <1>0, <1>00, <1>4, <2>0, <2>1 DEF Hd!RecalIntr, Hd!IsNULL, Hd!WritesNULL, Hd!TypeOK, HdFunctions, HdPlaces, HdController
    <2>2. CASE hdqueue # <<>> /\ Hd!Failed
      <3>1. Hd!BadRwIntr /\ Hd!GoesOn /\ UNCHANGED <<ctl, panic>>
        BY <1>4, <2>2 DEF Hd!RecalIntr, Hd!IsNULL
      <3>2. hdqueue' \in Seq(Hd!Requests) /\ reset' \in BOOLEAN /\ ended' \in BOOLEAN
        BY <2>2, <3>1, HdBad
      <3> QED
        BY <1>0, <1>00, <1>c, <2>0, <3>1, <3>2 DEF Hd!GoesOn, Hd!TypeOK, HdFunctions, HdPlaces, HdController
    <2>3. CASE ~Hd!Failed
      BY <1>0, <1>00, <1>c, <1>4, <2>0, <2>3 DEF Hd!RecalIntr, Hd!GoesOn, Hd!TypeOK, HdFunctions, HdPlaces, HdController
    <2> QED
      BY <2>1, <2>2, <2>3
  <1>5. ASSUME Hd!UnexpectedHdInterrupt PROVE Hd!TypeOK'
    BY <1>0, <1>00, <1>5 DEF Hd!UnexpectedHdInterrupt, Hd!Takes, Hd!TypeOK, HdFunctions, HdPlaces, HdController
  <1>6. ASSUME NEW c \in Hd!Contexts, Hd!Repeat(c) PROVE Hd!TypeOK'
    <2>0. UNCHANGED <<irq, late>>
      BY <1>6 DEF Hd!Repeat
    <2>1. CASE hdqueue = <<>>
      BY <1>0, <1>00, <1>6, <2>0, <2>1 DEF Hd!Repeat, Hd!IsNULL, Hd!TypeOK, HdFunctions, HdPlaces, HdController
    <2>2. CASE hdqueue # <<>> /\ ~Hd!InRange(Hd!CURRENT)
      BY <1>0, <1>00, <1>h, <1>6, <2>0, <2>2 DEF Hd!Repeat, Hd!IsNULL, Hd!EndRequest, Hd!TypeOK, HdFunctions, HdPlaces, HdController
    <2>3. CASE hdqueue # <<>> /\ Hd!InRange(Hd!CURRENT) /\ reset
      <3>1. /\ reset' = FALSE /\ recalibrate' = TRUE /\ UNCHANGED <<hdqueue, ended>>
            /\ do_hd' = "recal_intr" /\ UNCHANGED panic
            /\ ctl' = [cmd |-> "specify", left |-> 0, st |-> "busy"]
            /\ context' = [context EXCEPT ![c] = "idle"]
        BY <1>6, <2>3 DEF Hd!Repeat, Hd!IsNULL, Hd!ResetHd
      <3>2. ctl' \in HdController /\ context' \in HdPlaces
        BY <1>00, <3>1 DEF HdController, HdPlaces, Hd!Sectors
      <3> QED
        BY <1>0, <1>00, <2>0, <3>1, <3>2 DEF Hd!TypeOK, HdFunctions, HdPlaces, HdController
    <2>4. CASE hdqueue # <<>> /\ Hd!InRange(Hd!CURRENT) /\ ~reset /\ recalibrate
      <3>1. recalibrate' = FALSE /\ Hd!HdOut(c, "restore", 0, "recal_intr") /\ UNCHANGED <<hdqueue, ended, reset>>
        BY <1>6, <2>4 DEF Hd!Repeat, Hd!IsNULL
      <3>2. /\ do_hd' \in HdFunctions
            /\ panic' \in BOOLEAN
            /\ context' \in HdPlaces
            /\ ctl' \in HdController
        BY <3>1, HdOutType DEF Hd!Sectors
      <3> QED
        BY <1>0, <2>0, <3>1, <3>2 DEF Hd!TypeOK, HdFunctions, HdPlaces, HdController
    <2>5. CASE hdqueue # <<>> /\ Hd!InRange(Hd!CURRENT) /\ ~reset /\ ~recalibrate
      <3>1. Hd!Transfer(c) /\ UNCHANGED <<hdqueue, ended, reset, recalibrate>>
        BY <1>6, <2>5 DEF Hd!Repeat, Hd!IsNULL
      <3>2. Hd!CURRENT.cmd \in {"read", "write"} /\ Hd!CURRENT.left \in 0..Hd!Sectors
        BY <1>h, <2>5 DEF Hd!Requests, Hd!Sectors
      <3>3. PICK cmd, n, intr :
              /\ cmd = Hd!CURRENT.cmd /\ n = Hd!CURRENT.left
              /\ intr = IF Hd!CURRENT.cmd = "write" THEN "write_intr" ELSE "read_intr"
        OBVIOUS
      <3>4. Hd!HdOut(c, cmd, n, intr)
        BY <3>1, <3>3 DEF Hd!Transfer
      <3>5. cmd \in {"restore", "read", "write"} /\ n \in 0..Hd!Sectors
            /\ intr \in {"read_intr", "write_intr", "recal_intr"}
        BY <3>2, <3>3
      <3>6. /\ do_hd' \in HdFunctions
            /\ panic' \in BOOLEAN
            /\ context' \in HdPlaces
            /\ ctl' \in HdController
        BY <1>6, <3>4, <3>5, HdOutType
      <3> QED
        BY <1>0, <2>0, <3>1, <3>6 DEF Hd!TypeOK, HdFunctions, HdPlaces, HdController
    <2> QED
      BY <1>0, <2>1, <2>2, <2>3, <2>4, <2>5
  <1>7. ASSUME NEW c \in Hd!Contexts, Hd!Poll(c) PROVE Hd!TypeOK'
    <2>0. UNCHANGED <<recalibrate, irq>>
      BY <1>7 DEF Hd!Poll
    <2>1. CASE Hd!DRQ
      BY <1>0, <1>00, <1>7, <2>0, <2>1 DEF Hd!Poll, Hd!TypeOK, HdFunctions, HdPlaces, HdController
    <2>2. CASE ~Hd!DRQ /\ hdqueue = <<>>
      BY <1>0, <1>00, <1>7, <2>0, <2>2 DEF Hd!Poll, Hd!IsNULL, Hd!WritesNULL, Hd!TypeOK, HdFunctions, HdPlaces, HdController
    <2>3. CASE ~Hd!DRQ /\ hdqueue # <<>>
      <3>1. /\ Hd!BadRwIntr
            /\ context' = [context EXCEPT ![c] = "repeat"]
            /\ late' = TRUE
            /\ UNCHANGED <<do_hd, ctl, panic>>
        BY <1>7, <2>3 DEF Hd!Poll, Hd!IsNULL
      <3>2. hdqueue' \in Seq(Hd!Requests) /\ reset' \in BOOLEAN /\ ended' \in BOOLEAN
        BY <2>3, <3>1, HdBad
      <3> QED
        BY <1>0, <1>00, <2>0, <3>1, <3>2 DEF Hd!TypeOK, HdFunctions, HdPlaces, HdController
    <2> QED
      BY <2>1, <2>2, <2>3
  <1>8. ASSUME NEW r \in Hd!NewRequests, Hd!AddRequest(r) PROVE Hd!TypeOK'
    <2>1. r \in Hd!Requests
      BY DEF Hd!NewRequests
    <2>2. hdqueue' \in Seq(Hd!Requests)
      BY <1>0, <1>8, <2>1 DEF Hd!AddRequest
    <2>3. context' \in HdPlaces
      BY <1>00, <1>8 DEF Hd!AddRequest, HdPlaces
    <2> QED
      BY <1>0, <1>00, <1>8, <2>2, <2>3 DEF Hd!AddRequest, Hd!TypeOK, HdFunctions, HdPlaces, HdController
  <1> QED
    BY <1>1, <1>2, <1>3, <1>4, <1>5, <1>6, <1>7, <1>8 DEF Hd!Next, Hd!Interrupt

\* What hd_out() does when the controller is ready
LEMMA HdOutReady ==
  ASSUME NEW c, NEW cmd, NEW n, NEW intr, Hd!HdOut(c, cmd, n, intr),
         ctl.st \notin {"busy", "wait"}
  PROVE  /\ do_hd' = intr /\ UNCHANGED panic
         /\ ctl' = [cmd |-> cmd, left |-> n, st |-> IF cmd = "write" THEN "wait" ELSE "busy"]
         /\ context' = [context EXCEPT ![c] = IF cmd = "write" THEN "poll" ELSE "idle"]
  BY DEF Hd!HdOut

\* Every step keeps the driver and the controller together.
LEMMA HdStep ==
  ASSUME HdInv, Hd!Next, ~late'
  PROVE  OneContext' /\ Answers' /\ MeansCURRENT' /\ ~panic'
  <1> DEFINE Good == OneContext' /\ Answers' /\ MeansCURRENT' /\ ~panic'
  <1>0. Hd!TypeOK /\ Hd!TypeOK'
    BY HdTypeStep DEF HdInv
  <1>q. hdqueue \in Seq(Hd!Requests) /\ irq \in BOOLEAN
    BY <1>0 DEF Hd!TypeOK
  <1>p. context \in HdPlaces /\ ctl \in HdController /\ do_hd \in HdFunctions
    BY <1>0 DEF Hd!TypeOK, HdFunctions, HdPlaces, HdController
  <1>g. ASSUME ~late PROVE OneContext /\ Answers /\ MeansCURRENT /\ ~panic
    BY <1>g DEF HdInv
  <1>i. ASSUME ~late, irq
        PROVE  /\ do_hd # "NULL" /\ hdqueue # <<>> /\ ctl.st \in {"ok", "err"}
               /\ context = [c \in Hd!Contexts |-> "idle"]
    <2>1. \A c \in Hd!Contexts : context[c] = "idle"
      BY <1>g, <1>i DEF OneContext
    <2>2. do_hd # "NULL" /\ hdqueue # <<>> /\ ctl.st \in {"ok", "err"}
      BY <1>g, <1>i, <2>1 DEF Answers, MeansCURRENT
    <2> QED
      BY <1>p, <2>1, <2>2 DEF HdPlaces
  <1>e. ASSUME ~late, ctl.st \notin {"busy", "wait"}, do_hd' = "NULL", irq' = FALSE,
               ctl'.st \notin {"busy", "wait"}, ~panic', NEW c \in Hd!Contexts,
               \A d \in Hd!Contexts : d # c => context'[d] = "idle",
               context'[c] # "poll"
        PROVE  Good
    BY <1>e DEF OneContext, Answers, MeansCURRENT, Hd!Contexts
  <1>b. ASSUME ~late, irq, irq' = FALSE, Hd!GoesOn, UNCHANGED <<ctl, panic>>
        PROVE  Good
    <2>1. ctl.st \notin {"busy", "wait"} /\ ~panic /\ \A c \in Hd!Contexts : context[c] = "idle"
      BY <1>g, <1>i, <1>b
    <2>2. do_hd' = "NULL" /\ context' = [context EXCEPT !["irq"] = "repeat"] /\ "irq" \in Hd!Contexts
      BY <1>b DEF Hd!GoesOn, Hd!Contexts
    <2> QED
      BY <1>e, <1>b, <1>p, <2>1, <2>2 DEF HdPlaces
  <1>1. ASSUME Hd!Done PROVE Good
    <2>1. ~late /\ ctl.st = "busy" /\ irq' = TRUE /\ UNCHANGED <<hdqueue, do_hd, context, panic>>
      BY <1>1 DEF Hd!Done
    <2>2. ctl'.st \in {"ok", "err"} /\ ctl'.cmd = ctl.cmd /\ ctl'.left = ctl.left
      BY <1>1, <1>p DEF Hd!Done, HdController
    <2>3. do_hd # "NULL" /\ \A c \in Hd!Contexts : context[c] = "idle"
      BY <1>g, <1>p, <2>1 DEF OneContext, Answers, HdPlaces
    <2> QED
      BY <1>g, <2>1, <2>2, <2>3 DEF OneContext, Answers, MeansCURRENT, Hd!CURRENT
  <1>2. ASSUME Hd!AskForData PROVE Good
    <2>1. ~late /\ ctl.st = "wait" /\ UNCHANGED <<hdqueue, do_hd, context, panic, irq>>
      BY <1>2 DEF Hd!AskForData
    <2>2. ctl'.st = "drq" /\ ctl'.cmd = ctl.cmd /\ ctl'.left = ctl.left
      BY <1>2, <1>p DEF Hd!AskForData, HdController
    <2> QED
      BY <1>g, <2>1, <2>2 DEF OneContext, Answers, MeansCURRENT, Hd!CURRENT
  <1>3. ASSUME Hd!RefuseData PROVE FALSE
    BY <1>3 DEF Hd!RefuseData
  <1>4. ASSUME Hd!ReadIntr PROVE Good
    <2>0. ~late /\ irq /\ irq' = FALSE /\ do_hd = "read_intr"
      BY <1>4 DEF Hd!ReadIntr, Hd!Takes
    <2>1. CASE Hd!Failed
      BY <1>b, <1>i, <1>4, <2>0, <2>1 DEF Hd!ReadIntr, Hd!IsNULL
    <2>2. CASE ~Hd!Failed
      <3>1. /\ Hd!Moved([Hd!CURRENT EXCEPT !.left = @ - 1, !.errors = 0])
            /\ ctl' = IF Hd!GivesSector THEN Hd!AfterRead ELSE ctl
            /\ UNCHANGED panic
        BY <1>i, <1>4, <2>0, <2>2 DEF Hd!ReadIntr, Hd!IsNULL
      <3>2. hdqueue # <<>> /\ Hd!CURRENT \in Hd!Requests
        BY <1>i, <1>q, <2>0, HdTail DEF Hd!CURRENT
      <3>3. ctl.cmd = "read" /\ Hd!CURRENT.cmd = "read" /\ ctl.left = Hd!CURRENT.left /\ ctl.st = "ok"
        BY <1>g, <1>i, <2>0, <2>2 DEF MeansCURRENT, Hd!Failed
      <3>4. Hd!CURRENT.left \in 1..2
        BY <3>2 DEF Hd!Requests, Hd!Sectors
      <3>5. ctl' = [ctl EXCEPT !.left = ctl.left - 1, !.st = IF ctl.left > 1 THEN "busy" ELSE "idle"]
        BY <3>1, <3>3, <3>4 DEF Hd!GivesSector, Hd!AfterRead
      <3>6. PICK r : r = [Hd!CURRENT EXCEPT !.left = @ - 1, !.errors = 0]
        OBVIOUS
      <3>7. r = [cmd |-> "read", left |-> Hd!CURRENT.left - 1, errors |-> 0, room |-> Hd!CURRENT.room]
        BY <3>2, <3>3, <3>6 DEF Hd!Requests
      <3>8. Hd!Moved(r)
        BY <3>1, <3>6
      <3>9. CASE Hd!CURRENT.left = 2
        <4>1. r \in Hd!Requests /\ r.left = 1 /\ r.cmd = "read"
          BY <3>2, <3>7, <3>9 DEF Hd!Requests, Hd!Sectors, Hd!MAX_ERRORS
        <4>2. hdqueue' = <<r>> \o Tail(hdqueue) /\ UNCHANGED <<do_hd, context>>
          BY <3>8, <4>1 DEF Hd!Moved
        <4>3. hdqueue' # <<>> /\ Head(hdqueue') = r
          BY <1>q, <3>2, <4>1, <4>2, HdReplace
        <4>4. ctl'.left = 1 /\ ctl'.st = "busy" /\ ctl'.cmd = "read"
          BY <1>p, <3>3, <3>5, <3>9 DEF HdController
        <4>5. \A c \in Hd!Contexts : context[c] = "idle"
          BY <1>i, <2>0
        <4> QED
          BY <1>g, <2>0, <3>1, <4>1, <4>2, <4>3, <4>4, <4>5
          DEF OneContext, Answers, MeansCURRENT, Hd!CURRENT
      <3>10. CASE Hd!CURRENT.left = 1
        <4>1. Hd!GoesOn
          BY <3>7, <3>8, <3>10 DEF Hd!Moved
        <4>2. ctl'.st = "idle"
          BY <1>p, <3>3, <3>5, <3>10 DEF HdController
        <4>3. ctl.st \notin {"busy", "wait"} /\ ~panic' /\ \A c \in Hd!Contexts : context[c] = "idle"
          BY <1>g, <1>i, <2>0, <3>1
        <4>4. do_hd' = "NULL" /\ context' = [context EXCEPT !["irq"] = "repeat"] /\ "irq" \in Hd!Contexts
          BY <4>1 DEF Hd!GoesOn, Hd!Contexts
        <4> QED
          BY <1>e, <1>p, <2>0, <4>2, <4>3, <4>4 DEF HdPlaces
      <3> QED
        BY <3>4, <3>9, <3>10
    <2> QED
      BY <2>1, <2>2
  <1>5. ASSUME Hd!WriteIntr PROVE Good
    <2>0. ~late /\ irq /\ irq' = FALSE /\ do_hd = "write_intr"
      BY <1>5 DEF Hd!WriteIntr, Hd!Takes
    <2>1. CASE Hd!Failed
      BY <1>b, <1>i, <1>5, <2>0, <2>1 DEF Hd!WriteIntr, Hd!IsNULL
    <2>2. CASE ~Hd!Failed
      <3>1. /\ Hd!Moved([Hd!CURRENT EXCEPT !.left = @ - 1])
            /\ ctl' = IF Hd!TakesSector THEN Hd!AfterWrite ELSE ctl
            /\ UNCHANGED panic
        BY <1>i, <1>5, <2>0, <2>2 DEF Hd!WriteIntr, Hd!IsNULL
      <3>2. hdqueue # <<>> /\ Hd!CURRENT \in Hd!Requests
        BY <1>i, <1>q, <2>0, HdTail DEF Hd!CURRENT
      <3>3. ctl.cmd = "write" /\ Hd!CURRENT.cmd = "write" /\ ctl.left = Hd!CURRENT.left /\ ctl.st = "ok"
        BY <1>g, <1>i, <2>0, <2>2 DEF MeansCURRENT, Hd!Failed
      <3>4. Hd!CURRENT.left \in 1..2
        BY <3>2 DEF Hd!Requests, Hd!Sectors
      <3>5. ctl' = [ctl EXCEPT !.left = ctl.left - 1, !.st = IF ctl.left > 1 THEN "busy" ELSE "idle"]
        BY <3>1, <3>3, <3>4 DEF Hd!TakesSector, Hd!AfterWrite
      <3>6. PICK r : r = [Hd!CURRENT EXCEPT !.left = @ - 1]
        OBVIOUS
      <3>7. r = [cmd |-> "write", left |-> Hd!CURRENT.left - 1, errors |-> Hd!CURRENT.errors, room |-> Hd!CURRENT.room]
        BY <3>2, <3>3, <3>6 DEF Hd!Requests
      <3>8. Hd!Moved(r)
        BY <3>1, <3>6
      <3>9. CASE Hd!CURRENT.left = 2
        <4>1. r \in Hd!Requests /\ r.left = 1 /\ r.cmd = "write"
          BY <3>2, <3>7, <3>9 DEF Hd!Requests, Hd!Sectors, Hd!MAX_ERRORS
        <4>2. hdqueue' = <<r>> \o Tail(hdqueue) /\ UNCHANGED <<do_hd, context>>
          BY <3>8, <4>1 DEF Hd!Moved
        <4>3. hdqueue' # <<>> /\ Head(hdqueue') = r
          BY <1>q, <3>2, <4>1, <4>2, HdReplace
        <4>4. ctl'.left = 1 /\ ctl'.st = "busy" /\ ctl'.cmd = "write"
          BY <1>p, <3>3, <3>5, <3>9 DEF HdController
        <4>5. \A c \in Hd!Contexts : context[c] = "idle"
          BY <1>i, <2>0
        <4> QED
          BY <1>g, <2>0, <3>1, <4>1, <4>2, <4>3, <4>4, <4>5
          DEF OneContext, Answers, MeansCURRENT, Hd!CURRENT
      <3>10. CASE Hd!CURRENT.left = 1
        <4>1. Hd!GoesOn
          BY <3>7, <3>8, <3>10 DEF Hd!Moved
        <4>2. ctl'.st = "idle"
          BY <1>p, <3>3, <3>5, <3>10 DEF HdController
        <4>3. ctl.st \notin {"busy", "wait"} /\ ~panic' /\ \A c \in Hd!Contexts : context[c] = "idle"
          BY <1>g, <1>i, <2>0, <3>1
        <4>4. do_hd' = "NULL" /\ context' = [context EXCEPT !["irq"] = "repeat"] /\ "irq" \in Hd!Contexts
          BY <4>1 DEF Hd!GoesOn, Hd!Contexts
        <4> QED
          BY <1>e, <1>p, <2>0, <4>2, <4>3, <4>4 DEF HdPlaces
      <3> QED
        BY <3>4, <3>9, <3>10
    <2> QED
      BY <2>1, <2>2
  <1>6. ASSUME Hd!RecalIntr PROVE Good
    <2>0. ~late /\ irq /\ irq' = FALSE
      BY <1>6 DEF Hd!RecalIntr, Hd!Takes
    <2> QED
      BY <1>b, <1>i, <1>6, <2>0 DEF Hd!RecalIntr, Hd!IsNULL
  <1>7. ASSUME Hd!UnexpectedHdInterrupt PROVE FALSE
    BY <1>7, <1>i DEF Hd!UnexpectedHdInterrupt, Hd!Takes
  <1>8. ASSUME NEW c \in Hd!Contexts, Hd!Repeat(c) PROVE Good
    <2>0. ~late /\ UNCHANGED irq /\ context[c] = "repeat"
      BY <1>8 DEF Hd!Repeat, Hd!Runs
    <2>1. /\ irq = FALSE /\ do_hd = "NULL" /\ ctl.st \notin {"busy", "wait"} /\ ~panic
          /\ \A d \in Hd!Contexts : d # c => context[d] = "idle"
      BY <1>g, <1>q, <2>0 DEF OneContext, Answers
    <2>2. CASE hdqueue = <<>>
      <3>1. context' = [context EXCEPT ![c] = "idle"] /\ UNCHANGED <<do_hd, ctl, panic>>
        BY <1>8, <2>2 DEF Hd!Repeat, Hd!IsNULL
      <3> QED
        BY <1>e, <1>p, <2>0, <2>1, <3>1 DEF HdPlaces
    <2>3. CASE hdqueue # <<>> /\ ~Hd!InRange(Hd!CURRENT)
      <3>1. UNCHANGED <<context, do_hd, ctl, panic>>
        BY <1>8, <2>3 DEF Hd!Repeat, Hd!IsNULL
      <3> QED
        BY <1>e, <1>p, <2>0, <2>1, <3>1 DEF HdPlaces
    <2>4. CASE hdqueue # <<>> /\ Hd!InRange(Hd!CURRENT) /\ (reset \/ recalibrate)
      <3>1. /\ hdqueue' = hdqueue /\ do_hd' = "recal_intr" /\ UNCHANGED panic
            /\ context' = [context EXCEPT ![c] = "idle"]
            /\ \E m \in {"specify", "restore"} : ctl' = [cmd |-> m, left |-> 0, st |-> "busy"]
        <4>1. CASE reset
          BY <1>8, <2>4, <4>1 DEF Hd!Repeat, Hd!IsNULL, Hd!ResetHd
        <4>2. CASE ~reset
          <5>1. Hd!HdOut(c, "restore", 0, "recal_intr") /\ UNCHANGED hdqueue
            BY <1>8, <2>4, <4>2 DEF Hd!Repeat, Hd!IsNULL
          <5> QED
            BY <2>1, <5>1, HdOutReady
        <4> QED
          BY <4>1, <4>2
      <3>2. ctl'.st = "busy" /\ ctl'.cmd \in {"specify", "restore"}
        BY <3>1
      <3>3. \A d \in Hd!Contexts : context'[d] = "idle"
        BY <1>p, <2>1, <3>1 DEF HdPlaces
      <3> QED
        BY <2>0, <2>1, <2>4, <3>1, <3>2, <3>3 DEF OneContext, Answers, MeansCURRENT
    <2>5. CASE hdqueue # <<>> /\ Hd!InRange(Hd!CURRENT) /\ ~reset /\ ~recalibrate
      <3>1. Hd!Transfer(c) /\ UNCHANGED hdqueue
        BY <1>8, <2>5 DEF Hd!Repeat, Hd!IsNULL
      <3>2. Hd!CURRENT.cmd \in {"read", "write"}
        BY <1>q, <2>5, HdTail DEF Hd!Requests, Hd!CURRENT
      <3>3. CASE Hd!CURRENT.cmd = "read"
        <4>1. Hd!HdOut(c, "read", Hd!CURRENT.left, "read_intr")
          BY <3>1, <3>3 DEF Hd!Transfer
        <4>2. /\ do_hd' = "read_intr" /\ UNCHANGED panic
              /\ ctl' = [cmd |-> "read", left |-> Hd!CURRENT.left, st |-> "busy"]
              /\ context' = [context EXCEPT ![c] = "idle"]
          BY <2>1, <4>1 DEF Hd!HdOut
        <4>3. \A d \in Hd!Contexts : context'[d] = "idle"
          BY <1>p, <2>1, <4>2 DEF HdPlaces
        <4> QED
          BY <2>0, <2>1, <2>5, <3>1, <3>3, <4>2, <4>3 DEF OneContext, Answers, MeansCURRENT, Hd!CURRENT
      <3>4. CASE Hd!CURRENT.cmd = "write"
        <4>1. Hd!HdOut(c, "write", Hd!CURRENT.left, "write_intr")
          BY <3>1, <3>4 DEF Hd!Transfer
        <4>2. /\ do_hd' = "write_intr" /\ UNCHANGED panic
              /\ ctl' = [cmd |-> "write", left |-> Hd!CURRENT.left, st |-> "wait"]
              /\ context' = [context EXCEPT ![c] = "poll"]
          BY <2>1, <4>1 DEF Hd!HdOut
        <4>3. context'[c] = "poll" /\ \A d \in Hd!Contexts : d # c => context'[d] = "idle"
          BY <1>p, <2>1, <4>2 DEF HdPlaces
        <4> QED
          BY <2>0, <2>1, <2>5, <3>1, <3>4, <4>2, <4>3 DEF OneContext, Answers, MeansCURRENT, Hd!CURRENT
      <3> QED
        BY <3>2, <3>3, <3>4
    <2>6. reset \in BOOLEAN /\ recalibrate \in BOOLEAN
      BY <1>0 DEF Hd!TypeOK
    <2> QED
      BY <2>2, <2>3, <2>4, <2>5, <2>6
  <1>9. ASSUME NEW c \in Hd!Contexts, Hd!Poll(c) PROVE Good
    <2>0. ~late /\ UNCHANGED irq /\ context[c] = "poll"
      BY <1>9, <1>0 DEF Hd!Poll, Hd!Runs, Hd!WritesNULL
    <2>1. /\ irq = FALSE /\ do_hd = "write_intr" /\ ctl.cmd = "write" /\ hdqueue # <<>> /\ ~panic
          /\ \A d \in Hd!Contexts : d # c => context[d] = "idle"
      BY <1>g, <1>q, <2>0 DEF OneContext, MeansCURRENT
    <2>2. CASE Hd!DRQ
      <3>1. /\ ctl' = IF Hd!TakesSector THEN [ctl EXCEPT !.st = "busy"] ELSE ctl
            /\ context' = [context EXCEPT ![c] = "idle"]
            /\ UNCHANGED <<hdqueue, do_hd, panic>>
        BY <1>9, <2>2 DEF Hd!Poll
      <3>2. ctl.left = Hd!CURRENT.left /\ Hd!CURRENT.left > 0 /\ ctl.st = "drq"
        <4>1. Hd!CURRENT \in Hd!Requests
          BY <1>q, <2>1, HdTail DEF Hd!CURRENT
        <4> QED
          BY <1>g, <2>0, <2>1, <2>2, <4>1 DEF MeansCURRENT, OneContext, Hd!DRQ, Hd!Requests, Hd!Sectors
      <3>3. ctl'.st = "busy" /\ ctl'.cmd = ctl.cmd /\ ctl'.left = ctl.left
        BY <1>p, <2>1, <3>1, <3>2 DEF Hd!TakesSector, HdController
      <3>4. \A d \in Hd!Contexts : context'[d] = "idle"
        BY <1>p, <2>1, <3>1 DEF HdPlaces
      <3> QED
        BY <1>g, <2>0, <2>1, <3>1, <3>3, <3>4 DEF OneContext, Answers, MeansCURRENT, Hd!CURRENT
    <2>3. CASE ~Hd!DRQ
      BY <1>9, <2>1, <2>3 DEF Hd!Poll, Hd!IsNULL
    <2> QED
      BY <2>2, <2>3
  <1>10. ASSUME NEW r \in Hd!NewRequests, Hd!AddRequest(r) PROVE Good
    <2>0. /\ ~late /\ UNCHANGED <<do_hd, ctl, irq, panic>>
          /\ context = [c \in Hd!Contexts |-> "idle"]
          /\ hdqueue' = Append(hdqueue, r)
          /\ context' = [context EXCEPT !["task"] = IF hdqueue = <<>> THEN "repeat" ELSE "idle"]
      BY <1>10 DEF Hd!AddRequest, Hd!IsNULL
    <2>1. r \in Hd!Requests
      BY DEF Hd!NewRequests
    <2>2. CASE hdqueue = <<>>
      <3>1. do_hd = "NULL"
        BY <1>g, <2>0, <2>2 DEF MeansCURRENT
      <3>2. ~irq /\ ctl.st \notin {"busy", "wait"} /\ ~panic
        BY <1>g, <2>0, <3>1 DEF Answers
      <3>3. /\ "task" \in Hd!Contexts
            /\ context'["task"] # "poll" /\ \A d \in Hd!Contexts : d # "task" => context'[d] = "idle"
        BY <2>0, <2>2 DEF Hd!Contexts
      <3> QED
        BY <1>e, <1>q, <2>0, <3>1, <3>2, <3>3
    <2>3. CASE hdqueue # <<>>
      <3>1. hdqueue' # <<>> /\ Head(hdqueue') = Head(hdqueue)
        BY <1>q, <2>0, <2>1, <2>3
      <3>2. context' = context
        BY <2>0, <2>3
      <3> QED
        BY <1>g, <2>0, <2>3, <3>1, <3>2 DEF OneContext, Answers, MeansCURRENT, Hd!CURRENT
    <2> QED
      BY <2>2, <2>3
  <1> QED
    BY <1>1, <1>2, <1>3, <1>4, <1>5, <1>6, <1>7, <1>8, <1>9, <1>10 DEF Hd!Next, Hd!Controller, Hd!Interrupt

\* The driver begins in the inductive invariant and stays there.
LEMMA HdInvariant == Hd!Spec => []HdInv
  <1>1. Hd!Init => HdInv
    <2> SUFFICES ASSUME Hd!Init PROVE HdInv
      OBVIOUS
    <2>1. Hd!TypeOK
      <3>1. hdqueue \in Seq(Hd!Requests) /\ context \in HdPlaces
        BY DEF Hd!Init, HdPlaces
      <3>2. {reset, recalibrate, irq, panic, ended, late} \subseteq BOOLEAN /\ do_hd \in HdFunctions
        BY DEF Hd!Init, HdFunctions
      <3>3. ctl \in HdController
        BY DEF Hd!Init, HdController, Hd!Sectors
      <3> QED
        BY <3>1, <3>2, <3>3 DEF Hd!TypeOK, HdPlaces, HdFunctions, HdController
    <2>2. OneContext /\ Answers /\ MeansCURRENT /\ ~panic
      BY DEF Hd!Init, OneContext, Answers, MeansCURRENT
    <2> QED
      BY <2>1, <2>2 DEF HdInv
  <1>2. HdInv /\ [Hd!Next]_(Hd!vars) => HdInv'
    <2> SUFFICES ASSUME HdInv, [Hd!Next]_(Hd!vars) PROVE HdInv'
      OBVIOUS
    <2>1. CASE Hd!Next
      <3>1. Hd!TypeOK'
        BY <2>1, HdTypeStep DEF HdInv
      <3>2. ~late' => OneContext' /\ Answers' /\ MeansCURRENT' /\ ~panic'
        BY <2>1, HdStep
      <3> QED
        BY <3>1, <3>2 DEF HdInv
    <2>2. CASE UNCHANGED Hd!vars
      BY <2>2 DEF HdInv, Hd!vars, Hd!TypeOK, OneContext, Answers, MeansCURRENT, Hd!CURRENT
    <2> QED
      BY <2>1, <2>2
  <1> QED
    BY <1>1, <1>2, PTL DEF Hd!Spec

(***************************************************************************)
(* For lists of any length, as long as no write command fails or is given  *)
(* up before it asks for data: do_hd names the function for the command    *)
(* under way, which is about what is left of CURRENT, and the controller   *)
(* is sent no command while it works on another (hd.c:283-387).            *)
(***************************************************************************)
THEOREM DriverMeansCURRENT == Hd!Spec => []SameRequest
  <1>1. HdInv => SameRequest
    <2> SUFFICES ASSUME HdInv, ~late PROVE SameRequest
      BY DEF SameRequest, Hd!SameRequest
    <2>1. OneContext /\ Answers /\ MeansCURRENT /\ ~panic
      BY DEF HdInv
    <2>2. irq => do_hd # "NULL" /\ ctl.st \in {"ok", "err"}
      BY <2>1 DEF OneContext, Answers
    <2> QED
      BY <2>1, <2>2 DEF SameRequest, Hd!SameRequest, MeansCURRENT
  <1> QED
    BY <1>1, HdInvariant, PTL

(***************************************************************************)
(* A request that fits the partition and has not met its last error is     *)
(* ended only by the interrupt for the last of its sectors, which the      *)
(* controller has moved (hd.c:291-300, 310-318).                           *)
(***************************************************************************)
THEOREM BlocksAreWhole == Hd!Spec => WholeBlocks
  <1> DEFINE A == ~late /\ ended' # ended /\ Hd!InRange(Hd!CURRENT) /\ Hd!CURRENT.errors < Hd!MAX_ERRORS - 1
                  => ctl.left = 1 /\ ctl'.left = 0
  <1>1. HdInv /\ [Hd!Next]_(Hd!vars) => [A]_(Hd!vars)
    <2> SUFFICES ASSUME HdInv, Hd!Next, ~late, ended' # ended, Hd!InRange(Hd!CURRENT),
                        Hd!CURRENT.errors < 6
                 PROVE  ctl.left = 1 /\ ctl'.left = 0
      BY DEF Hd!MAX_ERRORS
    <2>0. Hd!TypeOK /\ OneContext /\ Answers /\ MeansCURRENT /\ ~panic
      BY DEF HdInv
    <2>q. hdqueue \in Seq(Hd!Requests) /\ ctl \in HdController
      BY <2>0 DEF Hd!TypeOK, HdController
    <2>b. ASSUME hdqueue # <<>>, Hd!BadRwIntr PROVE FALSE
      BY <2>0, <2>b, HdBad
    <2>1. ASSUME Hd!Controller PROVE FALSE
      BY <2>1 DEF Hd!Controller, Hd!Done, Hd!AskForData, Hd!RefuseData
    <2>2. ASSUME NEW c \in Hd!Contexts, Hd!Repeat(c) PROVE FALSE
      BY <2>2 DEF Hd!Repeat
    <2>3. ASSUME NEW c \in Hd!Contexts, Hd!Poll(c) PROVE FALSE
      BY <2>3, <2>b DEF Hd!Poll, Hd!IsNULL, Hd!WritesNULL
    <2>4. ASSUME NEW r \in Hd!NewRequests, Hd!AddRequest(r) PROVE FALSE
      BY <2>4 DEF Hd!AddRequest
    <2>5. ASSUME Hd!RecalIntr \/ Hd!UnexpectedHdInterrupt PROVE FALSE
      BY <2>5, <2>b DEF Hd!RecalIntr, Hd!UnexpectedHdInterrupt, Hd!IsNULL, Hd!WritesNULL
    <2>m. ASSUME NEW r, Hd!Moved(r), r.left = Hd!CURRENT.left - 1, hdqueue # <<>>,
                 ctl.left = Hd!CURRENT.left
          PROVE  ctl.left = 1
      <3>1. Hd!CURRENT \in Hd!Requests
        BY <2>q, <2>m, HdTail DEF Hd!CURRENT
      <3>2. ~(r.left > 0)
        BY <2>m DEF Hd!Moved
      <3> QED
        BY <2>m, <3>1, <3>2 DEF Hd!Requests, Hd!Sectors
    <2>i. ASSUME irq PROVE ctl.st \in {"ok", "err"}
      BY <2>0, <2>i DEF OneContext, Answers
    <2>6. ASSUME Hd!ReadIntr PROVE ctl.left = 1 /\ ctl'.left = 0
      <3>1. do_hd = "read_intr" /\ hdqueue # <<>> /\ ctl.cmd = "read" /\ ctl.left = Hd!CURRENT.left /\ irq
        BY <2>0, <2>6 DEF Hd!ReadIntr, Hd!Takes, MeansCURRENT
      <3>2. ~Hd!Failed
        BY <2>6, <2>b, <3>1 DEF Hd!ReadIntr, Hd!IsNULL
      <3>3. /\ Hd!Moved([Hd!CURRENT EXCEPT !.left = @ - 1, !.errors = 0])
            /\ ctl' = IF Hd!GivesSector THEN Hd!AfterRead ELSE ctl
        BY <2>6, <3>1, <3>2 DEF Hd!ReadIntr, Hd!IsNULL
      <3>4. PICK r : r = [Hd!CURRENT EXCEPT !.left = @ - 1, !.errors = 0]
        OBVIOUS
      <3>5. Hd!Moved(r) /\ r.left = Hd!CURRENT.left - 1
        <4>1. Hd!CURRENT \in Hd!Requests
          BY <2>q, <3>1, HdTail DEF Hd!CURRENT
        <4>2. r.left = Hd!CURRENT.left - 1
          BY <3>4, <4>1 DEF Hd!Requests
        <4> QED
          BY <3>3, <3>4, <4>2
      <3>6. ctl.left = 1
        BY <2>m, <3>1, <3>5
      <3>7. Hd!GivesSector
        BY <2>i, <3>1, <3>2, <3>6 DEF Hd!Failed, Hd!GivesSector
      <3>8. ctl' = [ctl EXCEPT !.left = 0, !.st = "idle"]
        BY <3>3, <3>6, <3>7 DEF Hd!AfterRead
      <3> QED
        BY <2>q, <3>6, <3>8 DEF HdController
    <2>7. ASSUME Hd!WriteIntr PROVE ctl.left = 1 /\ ctl'.left = 0
      <3>1. do_hd = "write_intr" /\ hdqueue # <<>> /\ ctl.cmd = "write" /\ ctl.left = Hd!CURRENT.left /\ irq
        BY <2>0, <2>7 DEF Hd!WriteIntr, Hd!Takes, MeansCURRENT
      <3>2. ~Hd!Failed
        BY <2>7, <2>b, <3>1 DEF Hd!WriteIntr, Hd!IsNULL
      <3>3. /\ Hd!Moved([Hd!CURRENT EXCEPT !.left = @ - 1])
            /\ ctl' = IF Hd!TakesSector THEN Hd!AfterWrite ELSE ctl
        BY <2>7, <3>1, <3>2 DEF Hd!WriteIntr, Hd!IsNULL
      <3>4. PICK r : r = [Hd!CURRENT EXCEPT !.left = @ - 1]
        OBVIOUS
      <3>5. Hd!Moved(r) /\ r.left = Hd!CURRENT.left - 1
        <4>1. Hd!CURRENT \in Hd!Requests
          BY <2>q, <3>1, HdTail DEF Hd!CURRENT
        <4>2. r.left = Hd!CURRENT.left - 1
          BY <3>4, <4>1 DEF Hd!Requests
        <4> QED
          BY <3>3, <3>4, <4>2
      <3>6. ctl.left = 1
        BY <2>m, <3>1, <3>5
      <3>7. Hd!TakesSector
        BY <2>i, <3>1, <3>2, <3>6 DEF Hd!Failed, Hd!TakesSector
      <3>8. ctl' = [ctl EXCEPT !.left = 0, !.st = "idle"]
        BY <3>3, <3>6, <3>7 DEF Hd!AfterWrite
      <3> QED
        BY <2>q, <3>6, <3>8 DEF HdController
    <2> QED
      BY <2>1, <2>2, <2>3, <2>4, <2>5, <2>6, <2>7 DEF Hd!Next, Hd!Interrupt
  <1> QED
    BY <1>1, HdInvariant, PTL DEF Hd!Spec, WholeBlocks, Hd!WholeBlocks, A

=============================================================================
