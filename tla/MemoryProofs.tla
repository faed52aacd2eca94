---------------------------- MODULE MemoryProofs ----------------------------
(***************************************************************************)
(* What is proved of pages of memory, for any tasks, pages, page tables    *)
(* and executables: mem_map[] counts the references to every page, a page  *)
(* that a task may write to is referred to by nothing else, and so every   *)
(* task has what it wrote.                                                 *)
(***************************************************************************)
EXTENDS Memory, FiniteSetTheorems, WellFoundedInduction, TLAPS

TaskRecord ==
  [state : {"none", "user", "load", "call", "copy", "close", "fill", "zombie"},
   page : MaybePages, addr : Addrs, hand : MaybePages, args : MaybePages,
   from : {"user", "call", "copy", "fill"}, exe : Executables]

\* The types of what refers to pages
TypesOfTasks ==
  /\ dir \in [Tasks -> [Dirs -> MaybePages]]
  /\ pte \in [Tasks -> [Addrs -> PTEs]]
  /\ task \in [Tasks -> TaskRecord]

Types ==
  /\ mem_map \in [Pages -> Nat]
  /\ TypesOfTasks
  /\ lost \subseteq Pages

\* Which pages a task has, by what it does
Shape(t) ==
  LET k == task[t] IN
  /\ k.hand # NoPage <=> k.state = "load"
  /\ k.args # NoPage <=> k.state \in {"copy", "close"} \/ (k.state = "load" /\ k.from = "copy")
  /\ k.page # NoPage <=> k.state # "none"
  /\ k.state = "load" => ~Present(t, k.addr)
  /\ k.state \in {"none", "zombie"} =>
       (\A d \in Dirs : dir[t][d] = NoPage) /\ (\A a \in Addrs : pte[t][a] = NoPte)

\* An entry that is present is in a page table, and only such an entry is
\* writable.
Tabled(t) ==
  \A a \in Addrs : /\ Present(t, a) => ~NoTable(t, a)
                   /\ pte[t][a].rw => Present(t, a)

\* mem_map[] counts the references.  A lost page has none.
Counted ==
  \A p \in Pages : /\ p \in lost => Refs(p) = 0
                   /\ mem_map[p] = IF p \in lost THEN 1 ELSE Refs(p)

\* The place is an entry of a page table that is write-protected.
Protected(t, c) == c[1] = "pte" /\ ~pte[t][c[2]].rw

\* Two places refer to the same page only if both are such entries.
Sharing ==
  \A t, u \in Tasks, c, d \in Pointers :
    PointsTo(t, c) = PointsTo(u, d) /\ PointsTo(t, c) # NoPage /\ <<t, c>> # <<u, d>>
      => Protected(t, c) /\ Protected(u, d)

MemInv == Types /\ (\A t \in Tasks : Shape(t) /\ Tabled(t)) /\ Counted /\ Sharing

-----------------------------------------------------------------------------
(* Counting.                                                               *)

One(P) == IF P THEN 1 ELSE 0

\* Changing whether one element belongs to a set changes its size by one.
LEMMA CardinalityChange ==
  ASSUME NEW S, NEW U, IsFiniteSet(S), NEW x, S \ {x} = U \ {x}
  PROVE  /\ IsFiniteSet(U) /\ Cardinality(S) \in Nat /\ Cardinality(U) \in Nat
         /\ Cardinality(U) = Cardinality(S) + One(x \in U) - One(x \in S)
<1> DEFINE R == S \ {x}
<1>1. /\ IsFiniteSet(R) /\ Cardinality(S) \in Nat /\ Cardinality(R) \in Nat
      /\ Cardinality(R) = Cardinality(S) - One(x \in S)
  <2>1. /\ IsFiniteSet(R)
        /\ Cardinality(R) = IF x \in S THEN Cardinality(S) - 1 ELSE Cardinality(S)
    BY FS_RemoveElement
  <2>2. Cardinality(S) \in Nat /\ Cardinality(R) \in Nat
    BY <2>1, FS_CardinalityType
  <2> QED BY <2>1, <2>2 DEF One
<1>2. IsFiniteSet(R \cup {x}) /\ Cardinality(R \cup {x}) = Cardinality(R) + 1
  BY <1>1, FS_AddElement
<1>3. CASE x \in U
  <2>1. U = R \cup {x}
    BY <1>3
  <2> QED BY <1>1, <1>2, <1>3, <2>1 DEF One
<1>4. CASE x \notin U
  <2>1. U = R
    BY <1>4
  <2> QED BY <1>1, <1>4, <2>1 DEF One
<1> QED BY <1>3, <1>4

Off(R, t) == {x \in R : x[1] # t}

RowOf(R, C, t) == {c \in C : <<t, c>> \in R}

\* A finite relation, split into the row of t and
\* the other rows
LEMMA RowSplit ==
  ASSUME NEW T, NEW C, NEW R \in SUBSET (T \X C), IsFiniteSet(R), NEW t \in T
  PROVE  /\ IsFiniteSet(RowOf(R, C, t)) /\ Cardinality(RowOf(R, C, t)) \in Nat
         /\ Cardinality(Off(R, t)) \in Nat
         /\ Cardinality(R) = Cardinality(Off(R, t)) + Cardinality(RowOf(R, C, t))
<1> DEFINE off == {x \in R : x[1] # t}
           row == {c \in C : <<t, c>> \in R}
           on == {x \in R : x[1] = t}
           f == [x \in on |-> x[2]]
<1>1. IsFiniteSet(on) /\ IsFiniteSet(off)
  BY FS_Subset
<1>2. /\ Cardinality(on) \in Nat /\ Cardinality(off) \in Nat
      /\ Cardinality(R) = Cardinality(off) + Cardinality(on)
  <2>1. R = off \cup on /\ off \cap on = {}
    OBVIOUS
  <2> HIDE DEF on, off
  <2>2. Cardinality(off \cup on) = Cardinality(off) + Cardinality(on) - Cardinality(off \cap on)
    BY <1>1, FS_Union
  <2>3. Cardinality(on) \in Nat /\ Cardinality(off) \in Nat /\ Cardinality(off \cap on) = 0
    BY <1>1, <2>1, FS_CardinalityType, FS_EmptySet
  <2> QED BY <2>1, <2>2, <2>3
<1>3. f \in Bijection(on, row)
  <2>1. f \in [on -> row]
    OBVIOUS
  <2>2. \A a, b \in on : f[a] = f[b] => a = b
    OBVIOUS
  <2>3. \A c \in row : \E x \in on : f[x] = c
    <3> SUFFICES ASSUME NEW c \in row PROVE \E x \in on : f[x] = c
      OBVIOUS
    <3>1. <<t, c>> \in on /\ f[<<t, c>>] = c
      OBVIOUS
    <3> HIDE DEF f, row, on
    <3> QED BY <3>1
  <2> HIDE DEF f, row, on
  <2>4. f \in Injection(on, row)
    BY <2>1, <2>2 DEF Injection, IsInjective
  <2>5. f \in Surjection(on, row)
    BY <2>1, <2>3 DEF Surjection
  <2> QED BY <2>4, <2>5 DEF Bijection
<1>4. IsFiniteSet(row) /\ Cardinality(row) = Cardinality(on)
  <2> HIDE DEF f, row, on
  <2>1. ExistsBijection(on, row)
    BY <1>3 DEF ExistsBijection
  <2> QED BY <1>1, <2>1, FS_Bijection
<1>5. row = RowOf(R, C, t) /\ off = Off(R, t)
  BY DEF RowOf, Off
<1> HIDE DEF f, row, on, off
<1>6. Cardinality(row) \in Nat /\ Cardinality(R) = Cardinality(off) + Cardinality(row)
  BY <1>2, <1>4
<1> QED BY <1>2, <1>4, <1>5, <1>6

\* There are finitely many places.
LEMMA PointersFinite == IsFiniteSet(Pointers) /\ IsFiniteSet(Dirs) /\ IsFiniteSet(Addrs)
<1> DEFINE A == {<<"page", 0>>, <<"hand", 0>>, <<"args", 0>>}
           B == {"dir"} \X Dirs
           C == {"pte"} \X Addrs
<1>1. IsFiniteSet(Dirs)
  BY DirsAssumption, FS_Interval DEF Dirs
<1>2. IsFiniteSet(Addrs)
  BY <1>1, FiniteAssumption, FS_Product DEF Addrs
<1>3. IsFiniteSet(B) /\ IsFiniteSet(C)
  <2>1. IsFiniteSet({"dir"}) /\ IsFiniteSet({"pte"})
    BY FS_Singleton
  <2> QED BY <1>1, <1>2, <2>1, FS_Product
<1>4. IsFiniteSet(A)
  <2>1. IsFiniteSet({<<"page", 0>>})
    BY FS_Singleton
  <2>2. IsFiniteSet({<<"page", 0>>} \cup {<<"hand", 0>>})
    BY <2>1, FS_AddElement
  <2>3. IsFiniteSet(({<<"page", 0>>} \cup {<<"hand", 0>>}) \cup {<<"args", 0>>})
    BY <2>2, FS_AddElement
  <2>4. A = ({<<"page", 0>>} \cup {<<"hand", 0>>}) \cup {<<"args", 0>>}
    OBVIOUS
  <2> QED BY <2>3, <2>4
<1>5. Pointers = (A \cup B) \cup C
  BY DEF Pointers
<1> HIDE DEF A, B, C
<1>6. IsFiniteSet((A \cup B) \cup C)
  BY <1>3, <1>4, FS_Union
<1> QED BY <1>1, <1>2, <1>5, <1>6

\* The kinds of places
LEMMA PointerKinds ==
  /\ <<"page", 0>> \in Pointers /\ <<"hand", 0>> \in Pointers /\ <<"args", 0>> \in Pointers
  /\ \A d \in Dirs : <<"dir", d>> \in Pointers
  /\ \A a \in Addrs : <<"pte", a>> \in Pointers
  /\ \A c \in Pointers : \/ c = <<"page", 0>> \/ c = <<"hand", 0>> \/ c = <<"args", 0>>
                         \/ \E d \in Dirs : c = <<"dir", d>>
                         \/ \E a \in Addrs : c = <<"pte", a>>
BY DEF Pointers

\* What is at each of them
LEMMA PointsToIs ==
  ASSUME NEW t
  PROVE  /\ PointsTo(t, <<"page", 0>>) = task[t].page
         /\ PointsTo(t, <<"hand", 0>>) = task[t].hand
         /\ PointsTo(t, <<"args", 0>>) = task[t].args
         /\ \A d : PointsTo(t, <<"dir", d>>) = dir[t][d]
         /\ \A a : PointsTo(t, <<"pte", a>>) = pte[t][a].page
BY DEF PointsTo

\* The same after the step
LEMMA PointsToWillBe ==
  ASSUME NEW t
  PROVE  /\ PointsTo(t, <<"page", 0>>)' = task'[t].page
         /\ PointsTo(t, <<"hand", 0>>)' = task'[t].hand
         /\ PointsTo(t, <<"args", 0>>)' = task'[t].args
         /\ \A d : PointsTo(t, <<"dir", d>>)' = dir'[t][d]
         /\ \A a : PointsTo(t, <<"pte", a>>)' = pte'[t][a].page
BY DEF PointsTo

\* The places of a task, as a function, and how many of them are the page p
Row(t) == [c \in Pointers |-> PointsTo(t, c)]

Num(d, p) == Cardinality({c \in Pointers : d[c] = p})

Is(d, c, p) == IF d[c] = p THEN 1 ELSE 0

\* The functions d and e are the same outside C.
SameBut(d, e, C) == \A c \in Pointers \ C : e[c] = d[c]

\* One place changes.
LEMMA OnePlace ==
  ASSUME NEW d, NEW e, NEW x \in Pointers, SameBut(d, e, {x}), NEW p
  PROVE  /\ Num(d, p) \in Nat /\ Num(e, p) \in Nat
         /\ Num(e, p) = Num(d, p) + Is(e, x, p) - Is(d, x, p)
<1> DEFINE S == {c \in Pointers : d[c] = p}
           U == {c \in Pointers : e[c] = p}
<1>1. IsFiniteSet(S)
  BY PointersFinite, FS_Subset
<1>2. S \ {x} = U \ {x}
  BY DEF SameBut
<1>3. (x \in S <=> d[x] = p) /\ (x \in U <=> e[x] = p)
  OBVIOUS
<1>4. Num(d, p) = Cardinality(S) /\ Num(e, p) = Cardinality(U)
  BY DEF Num
<1> HIDE DEF S, U
<1>5. /\ Cardinality(S) \in Nat /\ Cardinality(U) \in Nat
      /\ Cardinality(U) = Cardinality(S) + One(x \in U) - One(x \in S)
  BY <1>1, <1>2, CardinalityChange
<1> QED BY <1>3, <1>4, <1>5 DEF One, Is

\* Two places change.
LEMMA TwoPlaces ==
  ASSUME NEW d, NEW e, NEW x \in Pointers, NEW y \in Pointers, x # y, SameBut(d, e, {x, y}), NEW p
  PROVE  /\ Num(d, p) \in Nat /\ Num(e, p) \in Nat
         /\ Num(e, p) = Num(d, p) + Is(e, x, p) + Is(e, y, p) - Is(d, x, p) - Is(d, y, p)
<1> DEFINE m == [c \in Pointers |-> IF c = x THEN e[c] ELSE d[c]]
<1>1. SameBut(d, m, {x}) /\ SameBut(m, e, {y}) /\ m[x] = e[x] /\ m[y] = d[y]
  BY DEF SameBut
<1> HIDE DEF m
<1>2. /\ Num(d, p) \in Nat /\ Num(m, p) \in Nat
      /\ Num(m, p) = Num(d, p) + Is(m, x, p) - Is(d, x, p)
  BY <1>1, OnePlace
<1>3. /\ Num(e, p) \in Nat
      /\ Num(e, p) = Num(m, p) + Is(e, y, p) - Is(m, y, p)
  BY <1>1, OnePlace
<1>4. Is(m, x, p) = Is(e, x, p) /\ Is(m, y, p) = Is(d, y, p)
  BY <1>1 DEF Is
<1>5. \A c, f : Is(f, c, p) \in {0, 1}
  BY DEF Is
<1> QED BY <1>2, <1>3, <1>4, <1>5

\* Three places change.
LEMMA ThreePlaces ==
  ASSUME NEW d, NEW e, NEW x \in Pointers, NEW y \in Pointers, NEW z \in Pointers,
         x # y, x # z, y # z, SameBut(d, e, {x, y, z}), NEW p
  PROVE  /\ Num(d, p) \in Nat /\ Num(e, p) \in Nat
         /\ Num(e, p) = Num(d, p) + Is(e, x, p) + Is(e, y, p) + Is(e, z, p)
                                  - Is(d, x, p) - Is(d, y, p) - Is(d, z, p)
<1> DEFINE m == [c \in Pointers |-> IF c = x THEN e[c] ELSE d[c]]
<1>1. /\ SameBut(d, m, {x}) /\ SameBut(m, e, {y, z})
      /\ m[x] = e[x] /\ m[y] = d[y] /\ m[z] = d[z]
  BY DEF SameBut
<1> HIDE DEF m
<1>2. /\ Num(d, p) \in Nat /\ Num(m, p) \in Nat
      /\ Num(m, p) = Num(d, p) + Is(m, x, p) - Is(d, x, p)
  BY <1>1, OnePlace
<1>3. /\ Num(e, p) \in Nat
      /\ Num(e, p) = Num(m, p) + Is(e, y, p) + Is(e, z, p) - Is(m, y, p) - Is(m, z, p)
  BY <1>1, TwoPlaces
<1>4. /\ Is(m, x, p) = Is(e, x, p) /\ Is(m, y, p) = Is(d, y, p) /\ Is(m, z, p) = Is(d, z, p)
  BY <1>1 DEF Is
<1>5. \A c, f : Is(f, c, p) \in {0, 1}
  BY DEF Is
<1> QED BY <1>2, <1>3, <1>4, <1>5

\* A page that is at no place of a task
LEMMA NumIsZero ==
  ASSUME NEW d, NEW p
  PROVE  Num(d, p) \in Nat /\ (Num(d, p) = 0 <=> \A c \in Pointers : d[c] # p)
<1> DEFINE S == {c \in Pointers : d[c] = p}
<1>1. IsFiniteSet(S)
  BY PointersFinite, FS_Subset
<1>2. S = {} <=> \A c \in Pointers : d[c] # p
  OBVIOUS
<1>3. Num(d, p) = Cardinality(S)
  BY DEF Num
<1> HIDE DEF S
<1> QED BY <1>1, <1>2, <1>3, FS_CardinalityType, FS_EmptySet

\* The references to a page, those of one task and the others
LEMMA RefsChange ==
  ASSUME NEW t \in Tasks, NEW p,
         \A u \in Tasks \ {t}, c \in Pointers : PointsTo(u, c)' = PointsTo(u, c)
  PROVE  /\ Refs(p) \in Nat /\ Refs(p)' \in Nat
         /\ Num(Row(t), p) \in Nat /\ Num(Row(t)', p) \in Nat
         /\ Num(Row(t), p) <= Refs(p)
         /\ Refs(p)' = Refs(p) - Num(Row(t), p) + Num(Row(t)', p)
<1> DEFINE R == {r \in Tasks \X Pointers : PointsTo(r[1], r[2]) = p}
           U == {r \in Tasks \X Pointers : PointsTo(r[1], r[2])' = p}
           offR == Off(R, t)
           offU == Off(U, t)
           rowR == RowOf(R, Pointers, t)
           rowU == RowOf(U, Pointers, t)
<1>1. IsFiniteSet(R) /\ IsFiniteSet(U)
  <2>1. IsFiniteSet(Tasks \X Pointers)
    BY FiniteAssumption, PointersFinite, FS_Product
  <2> QED BY <2>1, FS_Subset
<1>2. offR = offU
  BY DEF Off
<1>3. rowR = {c \in Pointers : Row(t)[c] = p} /\ rowU = {c \in Pointers : Row(t)'[c] = p}
  BY DEF RowOf, Row
<1>4. /\ Cardinality(rowR) \in Nat /\ Cardinality(offR) \in Nat
      /\ Cardinality(R) = Cardinality(offR) + Cardinality(rowR)
  <2>1. R \in SUBSET (Tasks \X Pointers)
    OBVIOUS
  <2> HIDE DEF R
  <2> QED BY <1>1, <2>1, RowSplit
<1>5. /\ Cardinality(rowU) \in Nat /\ Cardinality(offU) \in Nat
      /\ Cardinality(U) = Cardinality(offU) + Cardinality(rowU)
  <2>1. U \in SUBSET (Tasks \X Pointers)
    OBVIOUS
  <2> HIDE DEF U
  <2> QED BY <1>1, <2>1, RowSplit
<1>6. /\ Refs(p) = Cardinality(R) /\ Refs(p)' = Cardinality(U)
      /\ Num(Row(t), p) = Cardinality(rowR) /\ Num(Row(t)', p) = Cardinality(rowU)
  BY <1>3 DEF Refs, Num
<1>7. Cardinality(offR) = Cardinality(offU)
  BY <1>2
<1> HIDE DEF R, U, offR, offU, rowR, rowU
<1> QED BY <1>4, <1>5, <1>6, <1>7

-----------------------------------------------------------------------------
(* The page tables of a task, as free_page_tables() counts them.           *)

NumDirs(dr, p) == Cardinality({d \in Dirs : dr[d] = p})

NumAddrs(pt, p) == Cardinality({a \in Addrs : pt[a].page = p})

\* d are the places of a task with the pages x, y, z and the page tables dr, pt.
IsRow(d, x, y, z, dr, pt) ==
  /\ d[<<"page", 0>>] = x /\ d[<<"hand", 0>>] = y /\ d[<<"args", 0>>] = z
  /\ \A i \in Dirs : d[<<"dir", i>>] = dr[i]
  /\ \A a \in Addrs : d[<<"pte", a>>] = pt[a].page

\* The places of a task are those of its task_struct and of its page tables.
LEMMA RowTotal ==
  ASSUME NEW d, NEW x, NEW y, NEW z, NEW dr, NEW pt, IsRow(d, x, y, z, dr, pt), NEW p
  PROVE  /\ NumDirs(dr, p) \in Nat /\ NumAddrs(pt, p) \in Nat
         /\ Num(d, p) = (IF x = p THEN 1 ELSE 0) + (IF y = p THEN 1 ELSE 0)
                         + (IF z = p THEN 1 ELSE 0) + NumDirs(dr, p) + NumAddrs(pt, p)
<1> DEFINE K == {"page", "hand", "args", "dir", "pte"}
           I == {0} \cup Dirs \cup Addrs
           S == {c \in Pointers : d[c] = p}
           S1 == Off(S, "page")
           S2 == Off(S1, "hand")
           S3 == Off(S2, "args")
           S4 == Off(S3, "dir")
           S5 == Off(S4, "pte")
           r1 == RowOf(S, I, "page")
           r2 == RowOf(S1, I, "hand")
           r3 == RowOf(S2, I, "args")
           r4 == RowOf(S3, I, "dir")
           r5 == RowOf(S4, I, "pte")
<1>1. S \in SUBSET (K \X I) /\ IsFiniteSet(S)
  <2>1. S \in SUBSET (K \X I)
    BY DEF Pointers
  <2> QED BY <2>1, PointersFinite, FS_Subset
<1>2. /\ S1 \in SUBSET S /\ S2 \in SUBSET S1 /\ S3 \in SUBSET S2 /\ S4 \in SUBSET S3
      /\ S5 = {}
  <2>1. S1 \in SUBSET S /\ S2 \in SUBSET S1 /\ S3 \in SUBSET S2 /\ S4 \in SUBSET S3
    BY DEF Off
  <2>2. \A c \in S : c[1] \in K
    BY <1>1
  <2> HIDE DEF S
  <2>3. S5 = {}
    BY <2>2 DEF Off
  <2> QED BY <2>1, <2>3
<1>3. r1 = IF x = p THEN {0} ELSE {}
  BY DEF RowOf, Pointers, IsRow
<1>4. r2 = IF y = p THEN {0} ELSE {}
  BY DEF RowOf, Pointers, IsRow, Off
<1>5. r3 = IF z = p THEN {0} ELSE {}
  BY DEF RowOf, Pointers, IsRow, Off
<1>6. r4 = {i \in Dirs : dr[i] = p}
  BY DEF RowOf, Pointers, IsRow, Off
<1>7. r5 = {a \in Addrs : pt[a].page = p}
  BY DEF RowOf, Pointers, IsRow, Off
<1>8. /\ Num(d, p) = Cardinality(S) /\ NumDirs(dr, p) = Cardinality(r4)
      /\ NumAddrs(pt, p) = Cardinality(r5)
  BY <1>6, <1>7 DEF Num, NumDirs, NumAddrs
<1> HIDE DEF S, I
<1>9. /\ IsFiniteSet(S1) /\ IsFiniteSet(S2) /\ IsFiniteSet(S3) /\ IsFiniteSet(S4)
      /\ S1 \in SUBSET (K \X I) /\ S2 \in SUBSET (K \X I) /\ S3 \in SUBSET (K \X I)
      /\ S4 \in SUBSET (K \X I)
  <2> HIDE DEF S1, S2, S3, S4, K
  <2> QED BY <1>1, <1>2, FS_Subset
<1>0. "page" \in K /\ "hand" \in K /\ "args" \in K /\ "dir" \in K /\ "pte" \in K
  OBVIOUS
<1> HIDE DEF K
<1>10. /\ Cardinality(r1) \in Nat /\ Cardinality(S1) \in Nat
       /\ Cardinality(S) = Cardinality(S1) + Cardinality(r1)
  <2>1. "page" \in K /\ S \in SUBSET (K \X I) /\ IsFiniteSet(S)
    BY <1>0, <1>1
  <2> QED BY <2>1, RowSplit
<1>11. /\ Cardinality(r2) \in Nat /\ Cardinality(S2) \in Nat
       /\ Cardinality(S1) = Cardinality(S2) + Cardinality(r2)
  <2> HIDE DEF S1
  <2>1. "hand" \in K /\ S1 \in SUBSET (K \X I) /\ IsFiniteSet(S1)
    BY <1>0, <1>9
  <2> QED BY <2>1, RowSplit
<1>12. /\ Cardinality(r3) \in Nat /\ Cardinality(S3) \in Nat
       /\ Cardinality(S2) = Cardinality(S3) + Cardinality(r3)
  <2> HIDE DEF S2
  <2>1. "args" \in K /\ S2 \in SUBSET (K \X I) /\ IsFiniteSet(S2)
    BY <1>0, <1>9
  <2> QED BY <2>1, RowSplit
<1>13. /\ Cardinality(r4) \in Nat /\ Cardinality(S4) \in Nat
       /\ Cardinality(S3) = Cardinality(S4) + Cardinality(r4)
  <2> HIDE DEF S3
  <2>1. "dir" \in K /\ S3 \in SUBSET (K \X I) /\ IsFiniteSet(S3)
    BY <1>0, <1>9
  <2> QED BY <2>1, RowSplit
<1>14. /\ Cardinality(r5) \in Nat /\ Cardinality(S5) \in Nat
       /\ Cardinality(S4) = Cardinality(S5) + Cardinality(r5)
  <2> HIDE DEF S4
  <2>1. "pte" \in K /\ S4 \in SUBSET (K \X I) /\ IsFiniteSet(S4)
    BY <1>0, <1>9
  <2> QED BY <2>1, RowSplit
<1> HIDE DEF S1, S2, S3, S4, S5, r1, r2, r3, r4, r5
<1>15. Cardinality(S5) = 0
  BY <1>2, FS_EmptySet
<1>16. Cardinality({0}) = 1 /\ Cardinality({}) = 0
  BY FS_Singleton, FS_EmptySet
<1>17. /\ Cardinality(r1) = IF x = p THEN 1 ELSE 0
       /\ Cardinality(r2) = IF y = p THEN 1 ELSE 0
       /\ Cardinality(r3) = IF z = p THEN 1 ELSE 0
  BY <1>3, <1>4, <1>5, <1>16
<1> QED BY <1>8, <1>10, <1>11, <1>12, <1>13, <1>14, <1>15, <1>17

\* The row of a task, before and after the step
LEMMA RowsAre ==
  ASSUME NEW t
  PROVE  /\ IsRow(Row(t), task[t].page, task[t].hand, task[t].args, dir[t], pte[t])
         /\ IsRow(Row(t)', task'[t].page, task'[t].hand, task'[t].args, dir'[t], pte'[t])
         /\ \A c \in Pointers : Row(t)[c] = PointsTo(t, c) /\ Row(t)'[c] = PointsTo(t, c)'
<1>1. \A c \in Pointers : Row(t)[c] = PointsTo(t, c) /\ Row(t)'[c] = PointsTo(t, c)'
  BY DEF Row
<1> QED BY <1>1, PointerKinds, PointsToIs, PointsToWillBe DEF IsRow

-----------------------------------------------------------------------------
(* Pages.                                                                  *)

\* A free page is not lost, and nothing refers to it.
LEMMA FreshPage ==
  ASSUME Types, Counted, NEW p \in Pages, mem_map[p] = 0
  PROVE  p \notin lost /\ Refs(p) = 0 /\ \A u \in Tasks, c \in Pointers : PointsTo(u, c) # p
<1>1. p \notin lost /\ Refs(p) = 0
  BY DEF Counted
<1> DEFINE R == {r \in Tasks \X Pointers : PointsTo(r[1], r[2]) = p}
<1>2. R = {}
  <2>1. IsFiniteSet(R)
    <3>1. IsFiniteSet(Tasks \X Pointers)
      BY FiniteAssumption, PointersFinite, FS_Product
    <3> QED BY <3>1, FS_Subset
  <2>2. Cardinality(R) = 0
    BY <1>1 DEF Refs
  <2> HIDE DEF R
  <2> QED BY <2>1, <2>2, FS_EmptySet
<1>3. ASSUME NEW u \in Tasks, NEW c \in Pointers PROVE PointsTo(u, c) # p
  <2>1. <<u, c>> \notin R
    BY <1>2
  <2> QED BY <2>1
<1> QED BY <1>1, <1>3

\* A page that is referred to is counted and not lost.
LEMMA UsedPage ==
  ASSUME Types, Counted, NEW u \in Tasks, NEW c \in Pointers, NEW p \in Pages, PointsTo(u, c) = p
  PROVE  p \notin lost /\ Refs(p) \in Nat /\ Refs(p) > 0 /\ mem_map[p] = Refs(p)
<1> DEFINE R == {r \in Tasks \X Pointers : PointsTo(r[1], r[2]) = p}
<1>1. <<u, c>> \in R
  OBVIOUS
<1>2. IsFiniteSet(R)
  <2>1. IsFiniteSet(Tasks \X Pointers)
    BY FiniteAssumption, PointersFinite, FS_Product
  <2> QED BY <2>1, FS_Subset
<1>3. Refs(p) = Cardinality(R)
  BY DEF Refs
<1> HIDE DEF R
<1>4. Refs(p) \in Nat /\ Refs(p) # 0
  BY <1>1, <1>2, <1>3, FS_CardinalityType, FS_EmptySet
<1> QED BY <1>4 DEF Counted

\* No other place refers to what this one does.
Alone(t, c) ==
  \A u \in Tasks, d \in Pointers : PointsTo(u, d) = PointsTo(t, c) => u = t /\ d = c

\* A page with one reference has it at one place, and the other way round.
LEMMA OneReference ==
  ASSUME Types, NEW t \in Tasks, NEW c \in Pointers
  PROVE  Refs(PointsTo(t, c)) = 1 <=> Alone(t, c)
<1> DEFINE p == PointsTo(t, c)
           R == {r \in Tasks \X Pointers : PointsTo(r[1], r[2]) = p}
<1>1. IsFiniteSet(R)
  <2>1. IsFiniteSet(Tasks \X Pointers)
    BY FiniteAssumption, PointersFinite, FS_Product
  <2> QED BY <2>1, FS_Subset
<1>2. <<t, c>> \in R
  OBVIOUS
<1>3. Alone(t, c) <=> R = {<<t, c>>}
  <2>1. ASSUME Alone(t, c) PROVE R = {<<t, c>>}
    BY <2>1 DEF Alone
  <2>2. ASSUME R = {<<t, c>>}, NEW u \in Tasks, NEW d \in Pointers, PointsTo(u, d) = p
        PROVE  u = t /\ d = c
    <3>1. <<u, d>> \in R
      BY <2>2
    <3> QED BY <2>2, <3>1
  <2> QED BY <2>1, <2>2 DEF Alone
<1>4. Cardinality(R) = 1 <=> R = {<<t, c>>}
  <2> HIDE DEF R
  <2>1. Cardinality(R) = 1 <=> \E x : R = {x}
    BY <1>1, FS_Singleton
  <2> QED BY <1>2, <2>1
<1>5. Refs(p) = Cardinality(R)
  BY DEF Refs
<1> HIDE DEF R
<1> QED BY <1>3, <1>4, <1>5

\* The same after the step
LEMMA OneReferenceNext ==
  ASSUME NEW t \in Tasks, NEW c \in Pointers
  PROVE  Refs(PointsTo(t, c))' = 1 <=> Alone(t, c)'
<1> DEFINE p == PointsTo(t, c)'
           R == {r \in Tasks \X Pointers : PointsTo(r[1], r[2])' = p}
<1>1. IsFiniteSet(R)
  <2>1. IsFiniteSet(Tasks \X Pointers)
    BY FiniteAssumption, PointersFinite, FS_Product
  <2> QED BY <2>1, FS_Subset
<1>2. <<t, c>> \in R
  OBVIOUS
<1>3. Alone(t, c)' <=> R = {<<t, c>>}
  <2>1. ASSUME Alone(t, c)' PROVE R = {<<t, c>>}
    BY <2>1 DEF Alone
  <2>2. ASSUME R = {<<t, c>>}, NEW u \in Tasks, NEW d \in Pointers, PointsTo(u, d)' = p
        PROVE  u = t /\ d = c
    <3>1. <<u, d>> \in R
      BY <2>2
    <3> QED BY <2>2, <3>1
  <2> QED BY <2>1, <2>2 DEF Alone
<1>4. Cardinality(R) = 1 <=> R = {<<t, c>>}
  <2> HIDE DEF R
  <2>1. Cardinality(R) = 1 <=> \E x : R = {x}
    BY <1>1, FS_Singleton
  <2> QED BY <1>2, <2>1
<1>5. Refs(PointsTo(t, c))' = Cardinality(R)
  BY DEF Refs
<1> HIDE DEF R
<1> QED BY <1>3, <1>4, <1>5

-----------------------------------------------------------------------------
(* Steps.                                                                  *)

\* The place has what it had, and is not made writable.
Kept(u, c) == PointsTo(u, c)' = PointsTo(u, c) /\ (Protected(u, c) => Protected(u, c)')

Others(t) == \A u \in Tasks \ {t}, c \in Pointers : Kept(u, c)

\* mem_map[] changes as the references from t do.
Balanced(t) ==
  \A p \in Pages : mem_map'[p] = mem_map[p] + Num(Row(t)', p) - Num(Row(t), p)

MapOfPages == mem_map' = [p \in Pages |-> mem_map'[p]]

\* Nothing that refers to the page of this place can write to it.
Guarded(u, c) ==
  \A v \in Tasks, d \in Pointers : PointsTo(v, d) = PointsTo(u, c) => Protected(v, d)

Settled(u, c) ==
  PointsTo(u, c)' = NoPage \/ Kept(u, c) \/ Alone(u, c)' \/ Guarded(u, c)'

\* A step that changes the references from one task
LEMMA CountedStep ==
  ASSUME Types, Counted, NEW t \in Tasks, Others(t), Balanced(t), lost' = lost,
         \A c \in Pointers : PointsTo(t, c)' \notin lost
  PROVE  Counted' /\ \A p \in Pages : mem_map'[p] \in Nat
<1> SUFFICES ASSUME NEW p \in Pages
             PROVE  /\ p \in lost => Refs(p)' = 0
                    /\ mem_map'[p] = IF p \in lost THEN 1 ELSE Refs(p)'
                    /\ mem_map'[p] \in Nat
  BY DEF Counted
<1>1. \A u \in Tasks \ {t}, c \in Pointers : PointsTo(u, c)' = PointsTo(u, c)
  BY DEF Others, Kept
<1>2. /\ Refs(p) \in Nat /\ Refs(p)' \in Nat
      /\ Num(Row(t), p) \in Nat /\ Num(Row(t)', p) \in Nat
      /\ Num(Row(t), p) <= Refs(p)
      /\ Refs(p)' = Refs(p) - Num(Row(t), p) + Num(Row(t)', p)
  BY <1>1, RefsChange
<1>3. mem_map'[p] = mem_map[p] + Num(Row(t)', p) - Num(Row(t), p)
  BY DEF Balanced
<1>4. p \in lost => Num(Row(t)', p) = 0
  <2>1. \A c \in Pointers : Row(t)'[c] = PointsTo(t, c)'
    BY RowsAre
  <2> QED BY <2>1, NumIsZero
<1>5. (p \in lost => Refs(p) = 0) /\ mem_map[p] = IF p \in lost THEN 1 ELSE Refs(p)
  BY DEF Counted
<1>6. CASE p \in lost
  BY <1>2, <1>3, <1>4, <1>5, <1>6
<1>7. CASE p \notin lost
  BY <1>2, <1>3, <1>5, <1>7
<1> QED BY <1>6, <1>7

\* A step that leaves every place settled
LEMMA SharingStep ==
  ASSUME Sharing, \A u \in Tasks, c \in Pointers : Settled(u, c)
  PROVE  Sharing'
<1> SUFFICES ASSUME NEW t \in Tasks, NEW u \in Tasks, NEW c \in Pointers, NEW d \in Pointers,
                    PointsTo(t, c)' = PointsTo(u, d)', PointsTo(t, c)' # NoPage,
                    <<t, c>> # <<u, d>>
             PROVE  Protected(t, c)' /\ Protected(u, d)'
  BY DEF Sharing
<1>1. ~Alone(t, c)' /\ ~Alone(u, d)'
  BY DEF Alone
<1>2. CASE Guarded(t, c)' \/ Guarded(u, d)'
  BY <1>2 DEF Guarded
<1>3. CASE ~Guarded(t, c)' /\ ~Guarded(u, d)'
  <2>1. Kept(t, c) /\ Kept(u, d)
    BY <1>1, <1>3 DEF Settled
  <2>2. PointsTo(t, c) = PointsTo(u, d) /\ PointsTo(t, c) # NoPage
    BY <2>1 DEF Kept
  <2>3. Protected(t, c) /\ Protected(u, d)
    BY <2>2 DEF Sharing
  <2> QED BY <2>1, <2>3 DEF Kept
<1> QED BY <1>2, <1>3

\* What is referred to once after the step
LEMMA AloneNext ==
  ASSUME Counted', NEW t \in Tasks, NEW c \in Pointers, PointsTo(t, c)' \in Pages,
         mem_map'[PointsTo(t, c)'] = 1, PointsTo(t, c)' \notin lost'
  PROVE  Alone(t, c)'
<1>1. Refs(PointsTo(t, c))' = 1
  BY DEF Counted
<1> QED BY <1>1, OneReferenceNext

\* What no page table protects is referred to once.
LEMMA OnlyReference ==
  ASSUME Types, Counted, Sharing, NEW t \in Tasks, NEW c \in Pointers, ~Protected(t, c),
         PointsTo(t, c) \in Pages
  PROVE  /\ PointsTo(t, c) \notin lost
         /\ mem_map[PointsTo(t, c)] = 1 /\ Refs(PointsTo(t, c)) = 1 /\ Alone(t, c)
<1>1. PointsTo(t, c) # NoPage
  BY SizesAssumption DEF Pages, NoPage
<1>2. Alone(t, c)
  BY <1>1 DEF Alone, Sharing
<1>3. Refs(PointsTo(t, c)) = 1
  BY <1>2, OneReference
<1> QED BY <1>2, <1>3, UsedPage

\* The places of a task that keep what they had
LEMMA KeptKinds ==
  ASSUME NEW t
  PROVE  /\ task'[t].page = task[t].page => Kept(t, <<"page", 0>>)
         /\ task'[t].hand = task[t].hand => Kept(t, <<"hand", 0>>)
         /\ task'[t].args = task[t].args => Kept(t, <<"args", 0>>)
         /\ \A d : dir'[t][d] = dir[t][d] => Kept(t, <<"dir", d>>)
         /\ \A a : pte'[t][a].page = pte[t][a].page /\ (pte'[t][a].rw => pte[t][a].rw)
                     => Kept(t, <<"pte", a>>)
BY PointsToIs, PointsToWillBe DEF Kept, Protected

\* A task that keeps its pages
LEMMA KeptAll ==
  ASSUME NEW u, task'[u] = task[u], dir'[u] = dir[u], pte'[u] = pte[u]
  PROVE  \A c \in Pointers : Kept(u, c)
<1>1. /\ Kept(u, <<"page", 0>>) /\ Kept(u, <<"hand", 0>>) /\ Kept(u, <<"args", 0>>)
      /\ \A d \in Dirs : Kept(u, <<"dir", d>>)
      /\ \A a \in Addrs : Kept(u, <<"pte", a>>)
  BY KeptKinds
<1> QED BY <1>1, PointerKinds

\* The other tasks keep all they have.
Unmoved(t) ==
  \A u \in Tasks \ {t} : task'[u] = task[u] /\ dir'[u] = dir[u] /\ pte'[u] = pte[u]

\* They stay as they should be.
LEMMA UnmovedTasks ==
  ASSUME MemInv, NEW t \in Tasks, Unmoved(t)
  PROVE  Others(t) /\ \A u \in Tasks \ {t} : Shape(u)' /\ Tabled(u)'
<1>1. ASSUME NEW u \in Tasks \ {t} PROVE (\A c \in Pointers : Kept(u, c)) /\ Shape(u)' /\ Tabled(u)'
  <2>1. task'[u] = task[u] /\ dir'[u] = dir[u] /\ pte'[u] = pte[u] /\ Shape(u) /\ Tabled(u)
    BY <1>1 DEF MemInv, Unmoved
  <2>2. \A c \in Pointers : Kept(u, c)
    BY <2>1, KeptAll
  <2>3. Shape(u)'
    BY <2>1 DEF Shape, Present
  <2>4. Tabled(u)'
    BY <2>1 DEF Tabled, Present, NoTable
  <2> QED BY <2>2, <2>3, <2>4
<1> QED BY <1>1 DEF Others

\* A step that changes the references of one task, and may protect other places
LEMMA RowStep ==
  ASSUME MemInv, NEW t \in Tasks, Others(t), TypesOfTasks', lost' = lost, MapOfPages, Balanced(t),
         \A u \in Tasks : Shape(u)' /\ Tabled(u)',
         \A c \in Pointers : PointsTo(t, c)' \notin lost /\ (Counted' => Settled(t, c))
  PROVE  MemInv'
<1>1. Types /\ Counted /\ Sharing
  BY DEF MemInv
<1>2. Counted' /\ \A p \in Pages : mem_map'[p] \in Nat
  BY <1>1, CountedStep
<1>3. Types'
  <2>1. mem_map' \in [Pages -> Nat]
    BY <1>2 DEF MapOfPages
  <2> QED BY <1>1, <2>1 DEF Types
<1>4. Sharing'
  <2>1. \A u \in Tasks, c \in Pointers : Settled(u, c)
    BY <1>2 DEF Others, Settled
  <2> QED BY <1>1, <2>1, SharingStep
<1> QED BY <1>2, <1>3, <1>4 DEF MemInv

\* A step of one task
LEMMA LocalStep ==
  ASSUME MemInv, NEW t \in Tasks, Unmoved(t), TypesOfTasks', lost' = lost,
         MapOfPages, Balanced(t), Shape(t)', Tabled(t)',
         \A c \in Pointers : PointsTo(t, c)' \notin lost /\ (Counted' => Settled(t, c))
  PROVE  MemInv'
<1>1. Others(t) /\ \A u \in Tasks \ {t} : Shape(u)' /\ Tabled(u)'
  BY UnmovedTasks
<1>2. \A u \in Tasks : Shape(u)' /\ Tabled(u)'
  BY <1>1
<1> QED BY <1>1, <1>2, RowStep

\* What a place refers to is not lost.
LEMMA NotLost ==
  ASSUME MemInv, NEW t \in Tasks, NEW c \in Pointers, Kept(t, c) \/ PointsTo(t, c)' = NoPage
  PROVE  PointsTo(t, c)' \notin lost
<1>1. Types /\ Counted
  BY DEF MemInv
<1>2. NoPage \notin Pages /\ lost \subseteq Pages
  BY <1>1, SizesAssumption DEF Pages, NoPage, Types
<1>3. CASE PointsTo(t, c)' = NoPage
  BY <1>2, <1>3
<1>4. CASE PointsTo(t, c)' = PointsTo(t, c)
  BY <1>1, <1>2, <1>4, UsedPage
<1> QED BY <1>3, <1>4 DEF Kept

\* A step of one task that changes no reference, and makes a page writable only
\* if nothing else refers to it
LEMMA QuietStep ==
  ASSUME MemInv, NEW t \in Tasks, Unmoved(t), TypesOfTasks', UNCHANGED <<mem_map, lost>>,
         Shape(t)', Tabled(t)',
         \A c \in Pointers : PointsTo(t, c)' = PointsTo(t, c) /\ (Kept(t, c) \/ Alone(t, c))
  PROVE  MemInv'
<1>1. Row(t)' = Row(t)
  BY DEF Row
<1>2. \A p : Num(Row(t), p) \in Nat /\ Num(Row(t)', p) = Num(Row(t), p)
  BY <1>1, NumIsZero
<1>3. mem_map \in [Pages -> Nat]
  BY DEF MemInv, Types
<1>4. Balanced(t) /\ MapOfPages
  <2>1. ASSUME NEW p \in Pages
        PROVE  mem_map'[p] = mem_map[p] + Num(Row(t)', p) - Num(Row(t), p)
    <3>1. mem_map'[p] = mem_map[p] /\ mem_map[p] \in Nat
      BY <1>3
    <3> QED BY <1>2, <3>1
  <2> QED BY <1>3, <2>1 DEF Balanced, MapOfPages
<1>5. Others(t)
  BY UnmovedTasks
<1>6. ASSUME NEW c \in Pointers PROVE PointsTo(t, c)' \notin lost /\ Settled(t, c)
  <2>1. PointsTo(t, c)' \notin lost
    BY UsedPage DEF MemInv, Types
  <2>2. Alone(t, c) => Alone(t, c)'
    BY <1>5 DEF Alone, Others, Kept
  <2> QED BY <2>1, <2>2 DEF Settled
<1> QED BY <1>4, <1>6, LocalStep

-----------------------------------------------------------------------------
(* Steps that change no reference.                                         *)

Awake == {"user", "call", "copy", "close", "fill"}

\* The task is in none of the states that have places of their own.
Plain(k) ==
  /\ k.state \in Awake /\ k.hand = NoPage /\ k.page # NoPage
  /\ k.args # NoPage <=> k.state \in {"copy", "close"}

\* What is known of a task that is awake, and what has to be shown of it
LEMMA PlainTask ==
  ASSUME NEW t
  PROVE  /\ Shape(t) /\ task[t].state \in Awake => Plain(task[t])
         /\ Plain(task'[t]) => Shape(t)'
BY DEF Shape, Plain, Awake

\* The task keeps its pages, and makes one writable only if it is its own.
LEMMA QuietTask ==
  ASSUME MemInv, NEW t \in Tasks, Unmoved(t), TypesOfTasks', UNCHANGED <<mem_map, lost>>,
         dir' = dir, task'[t].page = task[t].page, task'[t].hand = task[t].hand,
         task'[t].args = task[t].args, Plain(task'[t]),
         \A a \in Addrs : /\ pte'[t][a].page = pte[t][a].page
                          /\ pte'[t][a].rw => \/ pte[t][a].rw
                                              \/ Present(t, a) /\ Alone(t, <<"pte", a>>)
  PROVE  MemInv'
<1>1. Shape(t)'
  BY PlainTask
<1>2. Tabled(t)'
  <2>1. Tabled(t)
    BY DEF MemInv
  <2> QED BY <2>1 DEF Tabled, Present, NoTable
<1>3. /\ Kept(t, <<"page", 0>>) /\ Kept(t, <<"hand", 0>>) /\ Kept(t, <<"args", 0>>)
      /\ \A d \in Dirs : Kept(t, <<"dir", d>>)
  BY KeptKinds
<1>4. ASSUME NEW a \in Addrs
      PROVE  /\ PointsTo(t, <<"pte", a>>)' = PointsTo(t, <<"pte", a>>)
             /\ Kept(t, <<"pte", a>>) \/ Alone(t, <<"pte", a>>)
  BY PointsToIs, PointsToWillBe, KeptKinds
<1>5. \A c \in Pointers : PointsTo(t, c)' = PointsTo(t, c) /\ (Kept(t, c) \/ Alone(t, c))
  <2>1. \A c \in Pointers : Kept(t, c) => PointsTo(t, c)' = PointsTo(t, c)
    BY DEF Kept
  <2> QED BY <1>3, <1>4, <2>1, PointerKinds
<1> QED BY <1>1, <1>2, <1>5, QuietStep

\* The task only changes what it does.
LEMMA QuietState ==
  ASSUME MemInv, NEW t \in Tasks, NEW k \in TaskRecord, task' = [task EXCEPT ![t] = k],
         UNCHANGED <<mem_map, dir, pte, lost>>, task[t].state \in Awake,
         k.page = task[t].page, k.hand = task[t].hand, k.args = task[t].args, k.state \in Awake,
         k.state \in {"copy", "close"} <=> task[t].state \in {"copy", "close"}
  PROVE  MemInv'
<1>1. TypesOfTasks /\ Shape(t)
  BY DEF MemInv, Types
<1>2. TypesOfTasks' /\ Unmoved(t) /\ task'[t] = k
  BY <1>1 DEF TypesOfTasks, Unmoved
<1>3. Plain(task'[t])
  BY <1>1, <1>2, PlainTask DEF Plain
<1> QED BY <1>2, <1>3, QuietTask

\* An entry changes that keeps its page.
LEMMA QuietEntry ==
  ASSUME MemInv, NEW t \in Tasks, NEW a \in Addrs, NEW e \in PTEs,
         pte' = [pte EXCEPT ![t] = [pte[t] EXCEPT ![a] = e]], UNCHANGED <<mem_map, dir, lost>>,
         e.page = pte[t][a].page,
         e.rw => pte[t][a].rw \/ (Present(t, a) /\ Alone(t, <<"pte", a>>)),
         NEW k \in TaskRecord, task' = [task EXCEPT ![t] = k], task[t].state \in Awake,
         k.page = task[t].page, k.hand = task[t].hand, k.args = task[t].args, k.state \in Awake,
         k.state \in {"copy", "close"} <=> task[t].state \in {"copy", "close"}
  PROVE  MemInv'
<1>1. TypesOfTasks /\ Shape(t)
  BY DEF MemInv, Types
<1>2. /\ TypesOfTasks' /\ Unmoved(t) /\ task'[t] = k /\ pte'[t][a] = e
      /\ \A b \in Addrs \ {a} : pte'[t][b] = pte[t][b]
  <2>1. task' \in [Tasks -> TaskRecord] /\ task'[t] = k /\ \A u \in Tasks \ {t} : task'[u] = task[u]
    BY <1>1 DEF TypesOfTasks
  <2> DEFINE row == [pte[t] EXCEPT ![a] = e]
  <2>2. row \in [Addrs -> PTEs] /\ row[a] = e /\ \A b \in Addrs \ {a} : row[b] = pte[t][b]
    BY <1>1 DEF TypesOfTasks
  <2> HIDE DEF row
  <2>3. /\ pte' \in [Tasks -> [Addrs -> PTEs]] /\ pte'[t] = row
        /\ \A u \in Tasks \ {t} : pte'[u] = pte[u]
    BY <1>1, <2>2 DEF TypesOfTasks, row
  <2> QED BY <1>1, <2>1, <2>2, <2>3 DEF TypesOfTasks, Unmoved
<1>3. Plain(task'[t])
  BY <1>1, <1>2, PlainTask DEF Plain
<1>4. \A b \in Addrs : /\ pte'[t][b].page = pte[t][b].page
                       /\ pte'[t][b].rw => \/ pte[t][b].rw
                                           \/ Present(t, b) /\ Alone(t, <<"pte", b>>)
  BY <1>2
<1> QED BY <1>2, <1>3, <1>4, QuietTask

BackToUser(t) ==
  task' = task \/ task' = [task EXCEPT ![t].state = "user", ![t].addr = Stack]

\* The processor sets the dirty bit: Store(), or the end of an exec.
LEMMA DirtyStep ==
  ASSUME MemInv, NEW t \in Tasks, NEW a \in Addrs, pte' = [pte EXCEPT ![t][a].dirty = TRUE],
         UNCHANGED <<mem_map, dir, lost>>, BackToUser(t),
         task[t].state \in {"user", "call", "fill"}
  PROVE  MemInv'
<1> DEFINE e == [pte[t][a] EXCEPT !.dirty = TRUE]
           k1 == [task[t] EXCEPT !.state = "user", !.addr = Stack]
<1>1. TypesOfTasks
  BY DEF MemInv, Types
<1>2. e \in PTEs /\ e.page = pte[t][a].page /\ (e.rw => pte[t][a].rw)
  <2>1. pte[t][a] \in PTEs
    BY <1>1 DEF TypesOfTasks
  <2> QED BY <2>1 DEF PTEs
<1>3. pte' = [pte EXCEPT ![t] = [pte[t] EXCEPT ![a] = e]]
  OBVIOUS
<1>4. task[t] \in TaskRecord /\ Stack \in Addrs
  BY <1>1, AddrsAssumption DEF TypesOfTasks
<1> HIDE DEF e
<1>5. \E k \in TaskRecord :
        /\ task' = [task EXCEPT ![t] = k] /\ k.page = task[t].page /\ k.hand = task[t].hand
        /\ k.args = task[t].args /\ k.state \in {"user", "call", "fill"}
  <2> USE DEF BackToUser
  <2>1. CASE task' = task
    <3>1. task' = [task EXCEPT ![t] = task[t]]
      BY <1>1, <2>1 DEF TypesOfTasks
    <3> QED BY <1>4, <3>1
  <2>2. CASE task' = [task EXCEPT ![t].state = "user", ![t].addr = Stack]
    <3>1. /\ k1 \in TaskRecord /\ k1.page = task[t].page /\ k1.hand = task[t].hand
          /\ k1.args = task[t].args /\ k1.state = "user"
      BY <1>4 DEF TaskRecord
    <3>2. task' = [task EXCEPT ![t] = k1]
      BY <2>2
    <3> HIDE DEF k1
    <3> QED BY <3>1, <3>2
  <2> QED BY <2>1, <2>2
<1>6. PICK k \in TaskRecord :
        /\ task' = [task EXCEPT ![t] = k] /\ k.page = task[t].page /\ k.hand = task[t].hand
        /\ k.args = task[t].args /\ k.state \in {"user", "call", "fill"}
  BY <1>5
<1>7. /\ k.state \in Awake /\ task[t].state \in Awake
      /\ k.state \in {"copy", "close"} <=> task[t].state \in {"copy", "close"}
  BY <1>6 DEF Awake
<1> HIDE DEF k1
<1>8. /\ task' = [task EXCEPT ![t] = k] /\ k.page = task[t].page /\ k.hand = task[t].hand
      /\ k.args = task[t].args
  BY <1>6
<1> QED BY <1>2, <1>3, <1>7, <1>8, QuietEntry

\* un_wp_page() of a page with one reference
LEMMA UnprotectStep ==
  ASSUME MemInv, NEW t \in Tasks, NEW a \in Addrs, Present(t, a), mem_map[pte[t][a].page] = 1,
         pte' = [pte EXCEPT ![t][a].rw = TRUE], UNCHANGED <<mem_map, dir, lost>>,
         NEW k \in TaskRecord, task' = [task EXCEPT ![t] = k], task[t].state \in Awake,
         k.page = task[t].page, k.hand = task[t].hand, k.args = task[t].args, k.state \in Awake,
         k.state \in {"copy", "close"} <=> task[t].state \in {"copy", "close"}
  PROVE  MemInv'
<1> DEFINE e == [pte[t][a] EXCEPT !.rw = TRUE]
           c == <<"pte", a>>
<1>1. TypesOfTasks /\ Types /\ Counted
  BY DEF MemInv, Types
<1>2. e \in PTEs /\ e.page = pte[t][a].page
  <2>1. pte[t][a] \in PTEs
    BY <1>1 DEF TypesOfTasks
  <2> QED BY <2>1 DEF PTEs
<1>3. pte' = [pte EXCEPT ![t] = [pte[t] EXCEPT ![a] = e]]
  OBVIOUS
<1>4. c \in Pointers /\ PointsTo(t, c) = pte[t][a].page
  BY PointerKinds, PointsToIs
<1>5. pte[t][a].page \in Pages
  BY <1>1 DEF Present, TypesOfTasks, PTEs, MaybePages
<1> HIDE DEF e, c
<1>6. Alone(t, c)
  <2>1. Refs(PointsTo(t, c)) = 1
    BY <1>1, <1>4, <1>5, UsedPage
  <2> QED BY <1>1, <1>4, <2>1, OneReference
<1> QED BY <1>2, <1>3, <1>6, QuietEntry, ZenonT(30) DEF c

\* The parent's pages are write-protected, and nothing else happens.
LEMMA ForkFailsStep ==
  ASSUME MemInv, NEW t \in Tasks, NEW u \in Tasks, ForkFails(t, u)
  PROVE  MemInv'
<1> DEFINE n == Cardinality(Free)
           D == {d \in UsedDirs(t) : Cardinality({c \in UsedDirs(t) : c <= d}) < n}
<1>1. TypesOfTasks /\ Shape(t)
  BY DEF MemInv, Types
<1>2. /\ task[t].state = "user" /\ pte' = [pte EXCEPT ![t] = Protect(t, D)]
      /\ UNCHANGED <<mem_map, dir, task, data, history>>
  BY DEF ForkFails
<1> HIDE DEF n, D
<1>3. pte[t] \in [Addrs -> PTEs]
  BY <1>1 DEF TypesOfTasks
<1>4. /\ Protect(t, D) \in [Addrs -> PTEs]
      /\ \A a \in Addrs : /\ Protect(t, D)[a].page = pte[t][a].page
                          /\ Protect(t, D)[a].rw => pte[t][a].rw
  <2>1. ASSUME NEW a \in Addrs
        PROVE  LET e == [pte[t][a] EXCEPT !.rw = FALSE]
               IN  e \in PTEs /\ e.page = pte[t][a].page /\ ~e.rw
    BY <1>3 DEF PTEs
  <2> QED BY <1>3, <2>1 DEF Protect
<1>5. TypesOfTasks' /\ Unmoved(t) /\ pte'[t] = Protect(t, D) /\ UNCHANGED lost
  BY <1>1, <1>2, <1>4 DEF TypesOfTasks, Unmoved, history
<1>6. Plain(task'[t]) /\ task' = task /\ dir' = dir /\ UNCHANGED <<mem_map, lost>>
  BY <1>1, <1>2, <1>5, PlainTask DEF Awake
<1> QED BY <1>4, <1>5, <1>6, QuietTask

-----------------------------------------------------------------------------
(* Steps that change some references of one task.                          *)

KeptBut(t, C) == \A c \in Pointers \ C : Kept(t, c)

KeptButTwo(t, x, y) == KeptBut(t, {x, y})

KeptButThree(t, x, y, z) == KeptBut(t, {x, y, z})

Hit(q, p) == IF q = p THEN 1 ELSE 0

\* The row of the task, when it changes at one place
LEMMA RowOne ==
  ASSUME NEW t, NEW x \in Pointers, KeptBut(t, {x}), NEW p
  PROVE  /\ Num(Row(t), p) \in Nat /\ Num(Row(t)', p) \in Nat
         /\ Num(Row(t)', p) = Num(Row(t), p) + Hit(PointsTo(t, x)', p) - Hit(PointsTo(t, x), p)
<1> DEFINE d == Row(t)
           e == Row(t)'
<1>1. \A c \in Pointers : d[c] = PointsTo(t, c) /\ e[c] = PointsTo(t, c)'
  BY RowsAre
<1>2. SameBut(d, e, {x})
  BY <1>1 DEF SameBut, KeptBut, Kept
<1> HIDE DEF d, e
<1>3. /\ Num(d, p) \in Nat /\ Num(e, p) \in Nat
      /\ Num(e, p) = Num(d, p) + Is(e, x, p) - Is(d, x, p)
  BY <1>2, OnePlace
<1>4. Is(e, x, p) = Hit(PointsTo(t, x)', p) /\ Is(d, x, p) = Hit(PointsTo(t, x), p)
  BY <1>1 DEF Is, Hit
<1>5. /\ Num(d, p) \in Nat /\ Num(e, p) \in Nat
      /\ Num(e, p) = Num(d, p) + Hit(PointsTo(t, x)', p) - Hit(PointsTo(t, x), p)
  BY <1>3, <1>4
<1> QED BY <1>5 DEF d, e

\* The same at two places
LEMMA RowTwo ==
  ASSUME NEW t, NEW x \in Pointers, NEW y \in Pointers, x # y, KeptButTwo(t, x, y), NEW p
  PROVE  /\ Num(Row(t), p) \in Nat /\ Num(Row(t)', p) \in Nat
         /\ Num(Row(t)', p) = Num(Row(t), p) + Hit(PointsTo(t, x)', p) + Hit(PointsTo(t, y)', p)
                                - Hit(PointsTo(t, x), p) - Hit(PointsTo(t, y), p)
<1> DEFINE d == Row(t)
           e == Row(t)'
<1>1. \A c \in Pointers : d[c] = PointsTo(t, c) /\ e[c] = PointsTo(t, c)'
  BY RowsAre
<1>2. SameBut(d, e, {x, y})
  BY <1>1 DEF SameBut, KeptBut, KeptButTwo, Kept
<1> HIDE DEF d, e
<1>3. /\ Num(d, p) \in Nat /\ Num(e, p) \in Nat
      /\ Num(e, p) = Num(d, p) + Is(e, x, p) + Is(e, y, p) - Is(d, x, p) - Is(d, y, p)
  BY <1>2, TwoPlaces
<1>4. /\ Is(e, x, p) = Hit(PointsTo(t, x)', p) /\ Is(d, x, p) = Hit(PointsTo(t, x), p)
      /\ Is(e, y, p) = Hit(PointsTo(t, y)', p) /\ Is(d, y, p) = Hit(PointsTo(t, y), p)
  BY <1>1 DEF Is, Hit
<1>5. /\ Num(d, p) \in Nat /\ Num(e, p) \in Nat
      /\ Num(e, p) = Num(d, p) + Hit(PointsTo(t, x)', p) + Hit(PointsTo(t, y)', p)
                       - Hit(PointsTo(t, x), p) - Hit(PointsTo(t, y), p)
  BY <1>3, <1>4
<1> QED BY <1>5 DEF d, e

\* The same at three places
LEMMA RowThree ==
  ASSUME NEW t, NEW x \in Pointers, NEW y \in Pointers, NEW z \in Pointers, x # y, x # z, y # z,
         KeptButThree(t, x, y, z), NEW p
  PROVE  /\ Num(Row(t), p) \in Nat /\ Num(Row(t)', p) \in Nat
         /\ Num(Row(t)', p) = Num(Row(t), p) + Hit(PointsTo(t, x)', p) + Hit(PointsTo(t, y)', p)
                                + Hit(PointsTo(t, z)', p) - Hit(PointsTo(t, x), p)
                                - Hit(PointsTo(t, y), p) - Hit(PointsTo(t, z), p)
<1> DEFINE d == Row(t)
           e == Row(t)'
<1>1. \A c \in Pointers : d[c] = PointsTo(t, c) /\ e[c] = PointsTo(t, c)'
  BY RowsAre
<1>2. SameBut(d, e, {x, y, z})
  BY <1>1 DEF SameBut, KeptBut, KeptButThree, Kept
<1> HIDE DEF d, e
<1>3. /\ Num(d, p) \in Nat /\ Num(e, p) \in Nat
      /\ Num(e, p) = Num(d, p) + Is(e, x, p) + Is(e, y, p) + Is(e, z, p)
                               - Is(d, x, p) - Is(d, y, p) - Is(d, z, p)
  BY <1>2, ThreePlaces
<1>4. /\ Is(e, x, p) = Hit(PointsTo(t, x)', p) /\ Is(d, x, p) = Hit(PointsTo(t, x), p)
      /\ Is(e, y, p) = Hit(PointsTo(t, y)', p) /\ Is(d, y, p) = Hit(PointsTo(t, y), p)
      /\ Is(e, z, p) = Hit(PointsTo(t, z)', p) /\ Is(d, z, p) = Hit(PointsTo(t, z), p)
  BY <1>1 DEF Is, Hit
<1>5. /\ Num(d, p) \in Nat /\ Num(e, p) \in Nat
      /\ Num(e, p) = Num(d, p) + Hit(PointsTo(t, x)', p) + Hit(PointsTo(t, y)', p)
                       + Hit(PointsTo(t, z)', p) - Hit(PointsTo(t, x), p)
                       - Hit(PointsTo(t, y), p) - Hit(PointsTo(t, z), p)
  BY <1>3, <1>4
<1> QED BY <1>5 DEF d, e

\* Nothing, or a page that will be counted once
Taken(q) == q = NoPage \/ (q \in Pages \ lost /\ mem_map'[q] = 1)

AllTaken(t, C) == \A c \in C : Taken(PointsTo(t, c)')

\* A step of one task that changes places C, to nothing or to pages of their own
LEMMA PlacesStep ==
  ASSUME MemInv, NEW t \in Tasks, Unmoved(t), TypesOfTasks', lost' = lost,
         MapOfPages, Balanced(t), Shape(t)', Tabled(t)',
         NEW C, KeptBut(t, C), AllTaken(t, C)
  PROVE  MemInv'
<1>1. NoPage \notin lost
  BY SizesAssumption DEF MemInv, Types, Pages, NoPage
<1>2. ASSUME NEW c \in Pointers
      PROVE  PointsTo(t, c)' \notin lost /\ (Counted' => Settled(t, c))
  <2>1. CASE c \notin C
    <3>1. Kept(t, c)
      BY <2>1 DEF KeptBut
    <3> QED BY <3>1, NotLost DEF Settled
  <2>2. CASE c \in C
    <3>1. CASE PointsTo(t, c)' = NoPage
      BY <1>1, <3>1 DEF Settled
    <3>2. CASE PointsTo(t, c)' \in Pages \ lost /\ mem_map'[PointsTo(t, c)'] = 1
      BY <3>2, AloneNext DEF Settled
    <3> QED BY <2>2, <3>1, <3>2 DEF Taken, AllTaken
  <2> QED BY <2>1, <2>2
<1> QED BY <1>2, LocalStep

\* The step changes one place, from nothing to a free page.
LEMMA OneTaken ==
  ASSUME MemInv, NEW t \in Tasks, Unmoved(t), TypesOfTasks', lost' = lost,
         NEW q \in Pages, mem_map[q] = 0, mem_map' = [mem_map EXCEPT ![q] = 1],
         Shape(t)', Tabled(t)', NEW x \in Pointers, KeptBut(t, {x}),
         PointsTo(t, x) = NoPage, PointsTo(t, x)' = q
  PROVE  MemInv'
<1>1. mem_map \in [Pages -> Nat] /\ Types /\ Counted
  BY DEF MemInv, Types
<1>2. NoPage \notin Pages
  BY SizesAssumption DEF Pages, NoPage
<1>3. ASSUME NEW p \in Pages
      PROVE  mem_map'[p] = mem_map[p] + Num(Row(t)', p) - Num(Row(t), p)
  <2>1. /\ Num(Row(t), p) \in Nat /\ Num(Row(t)', p) \in Nat
        /\ Num(Row(t)', p) = Num(Row(t), p) + Hit(PointsTo(t, x)', p) - Hit(PointsTo(t, x), p)
    BY RowOne
  <2>2. Hit(PointsTo(t, x), p) = 0 /\ Hit(PointsTo(t, x)', p) = IF p = q THEN 1 ELSE 0
    BY <1>2 DEF Hit
  <2>3. mem_map'[p] = mem_map[p] + (IF p = q THEN 1 ELSE 0) /\ mem_map[p] \in Nat
    BY <1>1
  <2> QED BY <2>1, <2>2, <2>3
<1>4. Balanced(t) /\ MapOfPages
  BY <1>1, <1>3 DEF Balanced, MapOfPages
<1>5. AllTaken(t, {x})
  BY <1>1, FreshPage DEF Taken, AllTaken
<1> QED BY <1>4, <1>5, PlacesStep

\* The step changes one place, from a page to nothing.
LEMMA OneFreed ==
  ASSUME MemInv, NEW t \in Tasks, Unmoved(t), TypesOfTasks', lost' = lost,
         NEW q \in Pages, mem_map' = [mem_map EXCEPT ![q] = @ - 1],
         Shape(t)', Tabled(t)', NEW x \in Pointers, KeptBut(t, {x}),
         PointsTo(t, x) = q, PointsTo(t, x)' = NoPage
  PROVE  MemInv'
<1>1. mem_map \in [Pages -> Nat]
  BY DEF MemInv, Types
<1>2. NoPage \notin Pages
  BY SizesAssumption DEF Pages, NoPage
<1>3. ASSUME NEW p \in Pages
      PROVE  mem_map'[p] = mem_map[p] + Num(Row(t)', p) - Num(Row(t), p)
  <2>1. /\ Num(Row(t), p) \in Nat /\ Num(Row(t)', p) \in Nat
        /\ Num(Row(t)', p) = Num(Row(t), p) + Hit(PointsTo(t, x)', p) - Hit(PointsTo(t, x), p)
    BY RowOne
  <2>2. Hit(PointsTo(t, x)', p) = 0 /\ Hit(PointsTo(t, x), p) = IF p = q THEN 1 ELSE 0
    BY <1>2 DEF Hit
  <2>3. mem_map'[p] = mem_map[p] - (IF p = q THEN 1 ELSE 0) /\ mem_map[p] \in Nat
    BY <1>1
  <2> QED BY <2>1, <2>2, <2>3
<1>4. Balanced(t) /\ MapOfPages
  BY <1>1, <1>3 DEF Balanced, MapOfPages
<1>5. AllTaken(t, {x})
  BY DEF Taken, AllTaken
<1> QED BY <1>4, <1>5, PlacesStep

\* get_free_page() returns a page that is free.
LEMMA FreePage ==
  ASSUME NEW M, NEW q \in GetFreePage(M)
  PROVE  q \in Pages /\ M[q] = 0
BY DEF GetFreePage, FreeIn

\* copy_strings() gets its page.
LEMMA CopyStringsStep ==
  ASSUME MemInv, NEW t \in Tasks, CopyStrings(t)
  PROVE  MemInv'
<1>1. TypesOfTasks /\ Shape(t) /\ Tabled(t)
  BY DEF MemInv, Types
<1>2. PICK q \in GetFreePage(mem_map) :
        /\ mem_map' = [mem_map EXCEPT ![q] = 1]
        /\ task' = [task EXCEPT ![t].state = "copy", ![t].args = q]
  BY DEF CopyStrings
<1>3. task[t].state = "user" /\ dir' = dir /\ pte' = pte /\ lost' = lost
  BY DEF CopyStrings, history
<1>4. q \in Pages /\ mem_map[q] = 0 /\ q # NoPage
  BY <1>2, FreePage, SizesAssumption DEF Pages, NoPage
<1> DEFINE k == [task[t] EXCEPT !.state = "copy", !.args = q]
           x == <<"args", 0>>
<1>5. task[t] \in TaskRecord
  BY <1>1 DEF TypesOfTasks
<1>6. /\ k \in TaskRecord /\ k.page = task[t].page /\ k.hand = task[t].hand /\ k.args = q
      /\ k.state = "copy"
  BY <1>4, <1>5 DEF TaskRecord, MaybePages
<1>7. task' = [task EXCEPT ![t] = k]
  BY <1>2
<1> HIDE DEF k
<1>8. TypesOfTasks' /\ task'[t] = k /\ Unmoved(t)
  BY <1>1, <1>3, <1>6, <1>7 DEF TypesOfTasks, Unmoved
<1>9. Plain(task[t]) /\ task[t].args = NoPage
  BY <1>1, <1>3, PlainTask DEF Awake, Plain
<1>10. Shape(t)' /\ Tabled(t)'
  <2>1. Plain(task'[t])
    BY <1>4, <1>6, <1>8, <1>9 DEF Plain, Awake
  <2> QED BY <1>1, <1>3, <2>1, PlainTask DEF Tabled, Present, NoTable
<1>11. KeptBut(t, {x}) /\ PointsTo(t, x) = NoPage /\ PointsTo(t, x)' = q /\ x \in Pointers
  <2>1. /\ Kept(t, <<"page", 0>>) /\ Kept(t, <<"hand", 0>>)
        /\ \A d \in Dirs : Kept(t, <<"dir", d>>)
        /\ \A a \in Addrs : Kept(t, <<"pte", a>>)
    BY <1>3, <1>6, <1>8, KeptKinds
  <2>2. KeptBut(t, {x})
    BY <2>1, PointerKinds DEF KeptBut
  <2> QED BY <1>6, <1>8, <1>9, <2>2, PointerKinds, PointsToIs, PointsToWillBe
<1> QED BY <1>2, <1>3, <1>4, <1>8, <1>10, <1>11, OneTaken

GoesToLoad(t, a, q) ==
  task' = [task EXCEPT ![t].state = "load", ![t].from = task[t].state,
                       ![t].addr = a, ![t].hand = q]

\* do_no_page() gets a page and sleeps in bread_page().
LEMMA LoadStep ==
  ASSUME MemInv, NEW t \in Tasks, NEW a \in Addrs, ~Present(t, a),
         task[t].state \in {"user", "call", "copy", "fill"},
         NEW q \in GetFreePage(mem_map), mem_map' = [mem_map EXCEPT ![q] = 1],
         GoesToLoad(t, a, q), UNCHANGED <<dir, pte, lost>>
  PROVE  MemInv'
<1>1. TypesOfTasks /\ Shape(t) /\ Tabled(t)
  BY DEF MemInv, Types
<1>2. q \in Pages /\ mem_map[q] = 0 /\ q # NoPage
  BY FreePage, SizesAssumption DEF Pages, NoPage
<1> DEFINE s == task[t].state
           h == [task[t] EXCEPT !.state = "load", !.from = s]
           k == [h EXCEPT !.addr = a, !.hand = q]
           x == <<"hand", 0>>
<1>3. task[t] \in TaskRecord /\ s \in {"user", "call", "copy", "fill"}
  BY <1>1 DEF TypesOfTasks
<1>4. task' = [task EXCEPT ![t] = k]
  BY DEF GoesToLoad
<1> HIDE DEF s
<1>5. /\ h \in TaskRecord /\ h.page = task[t].page /\ h.args = task[t].args /\ h.state = "load"
      /\ h.from = s
  BY <1>3 DEF TaskRecord
<1> HIDE DEF h
<1>6. /\ k \in TaskRecord /\ k.page = task[t].page /\ k.args = task[t].args /\ k.state = "load"
      /\ k.from = s /\ k.addr = a /\ k.hand = q
  BY <1>2, <1>5 DEF TaskRecord, MaybePages
<1> HIDE DEF k
<1>7. TypesOfTasks' /\ task'[t] = k /\ Unmoved(t)
  BY <1>1, <1>4, <1>6 DEF TypesOfTasks, Unmoved
<1>8. Plain(task[t])
  BY <1>1, <1>3, PlainTask DEF Awake, s
<1>9. Tabled(t)' /\ ~Present(t, a)'
  BY <1>1 DEF Tabled, Present, NoTable
<1>10. Shape(t)'
  BY <1>2, <1>3, <1>6, <1>7, <1>8, <1>9 DEF Shape, Plain, s
<1>11. KeptBut(t, {x}) /\ PointsTo(t, x) = NoPage /\ PointsTo(t, x)' = q /\ x \in Pointers
  <2>1. /\ Kept(t, <<"page", 0>>) /\ Kept(t, <<"args", 0>>)
        /\ \A d \in Dirs : Kept(t, <<"dir", d>>)
        /\ \A b \in Addrs : Kept(t, <<"pte", b>>)
    BY <1>6, <1>7, KeptKinds
  <2>2. KeptBut(t, {x})
    BY <2>1, PointerKinds DEF KeptBut
  <2> QED BY <1>6, <1>7, <1>8, <2>2, PointerKinds, PointsToIs, PointsToWillBe DEF Plain
<1> HIDE DEF x
<1>12. lost' = lost /\ q \in Pages /\ mem_map[q] = 0
  BY <1>2
<1> QED BY <1>7, <1>9, <1>10, <1>11, <1>12, OneTaken

\* exec_error: the page of the arguments is freed.
LEMMA ExecErrorStep ==
  ASSUME MemInv, NEW t \in Tasks, ExecError(t)
  PROVE  MemInv'
<1>1. TypesOfTasks /\ Shape(t) /\ Tabled(t)
  BY DEF MemInv, Types
<1> DEFINE q == task[t].args
           k == [task[t] EXCEPT !.state = "user", !.args = NoPage]
           x == <<"args", 0>>
<1>2. /\ task[t].state = "copy" /\ mem_map' = [mem_map EXCEPT ![q] = @ - 1]
      /\ task' = [task EXCEPT ![t] = k] /\ dir' = dir /\ pte' = pte /\ lost' = lost
  BY DEF ExecError, history
<1>3. task[t] \in TaskRecord
  BY <1>1 DEF TypesOfTasks
<1>4. Plain(task[t]) /\ q # NoPage
  BY <1>1, <1>2, PlainTask DEF Awake, Plain
<1>5. q \in Pages
  BY <1>3, <1>4 DEF TaskRecord, MaybePages
<1>6. /\ k \in TaskRecord /\ k.page = task[t].page /\ k.hand = task[t].hand /\ k.args = NoPage
      /\ k.state = "user"
  BY <1>3 DEF TaskRecord, MaybePages
<1> HIDE DEF k
<1>7. TypesOfTasks' /\ task'[t] = k /\ Unmoved(t)
  BY <1>1, <1>2, <1>6 DEF TypesOfTasks, Unmoved
<1>8. Shape(t)' /\ Tabled(t)'
  <2>1. Plain(task'[t])
    BY <1>4, <1>6, <1>7 DEF Plain, Awake
  <2> QED BY <1>1, <1>2, <2>1, PlainTask DEF Tabled, Present, NoTable
<1>9. KeptBut(t, {x}) /\ PointsTo(t, x) = q /\ PointsTo(t, x)' = NoPage /\ x \in Pointers
  <2>1. /\ Kept(t, <<"page", 0>>) /\ Kept(t, <<"hand", 0>>)
        /\ \A d \in Dirs : Kept(t, <<"dir", d>>)
        /\ \A a \in Addrs : Kept(t, <<"pte", a>>)
    BY <1>2, <1>6, <1>7, KeptKinds
  <2>2. KeptBut(t, {x})
    BY <2>1, PointerKinds DEF KeptBut
  <2> QED BY <1>6, <1>7, <2>2, PointerKinds, PointsToIs, PointsToWillBe
<1> HIDE DEF x, q
<1> QED BY <1>2, <1>5, <1>7, <1>8, <1>9, OneFreed

\* release() frees the task_struct.
LEMMA ReleaseStep ==
  ASSUME MemInv, NEW t \in Tasks, Release(t)
  PROVE  MemInv'
<1>1. TypesOfTasks /\ Shape(t) /\ Tabled(t)
  BY DEF MemInv, Types
<1> DEFINE q == task[t].page
           x == <<"page", 0>>
<1>2. /\ task[t].state = "zombie" /\ mem_map' = [mem_map EXCEPT ![q] = @ - 1]
      /\ task' = [task EXCEPT ![t] = NoTask] /\ dir' = dir /\ pte' = pte /\ lost' = lost
  BY DEF Release, history
<1>3. task[t] \in TaskRecord
  BY <1>1 DEF TypesOfTasks
<1>4. /\ task[t].hand = NoPage /\ task[t].args = NoPage /\ q # NoPage
      /\ \A d \in Dirs : dir[t][d] = NoPage
      /\ \A a \in Addrs : pte[t][a] = NoPte
  BY <1>1, <1>2 DEF Shape
<1>5. q \in Pages
  BY <1>3, <1>4 DEF TaskRecord, MaybePages
<1>6. /\ NoTask \in TaskRecord /\ NoTask.page = NoPage /\ NoTask.hand = NoPage
      /\ NoTask.args = NoPage /\ NoTask.state = "none"
  BY AddrsAssumption, ExecutablesAssumption DEF TaskRecord, NoTask, MaybePages
<1>7. TypesOfTasks' /\ task'[t] = NoTask /\ Unmoved(t)
  BY <1>1, <1>2, <1>6 DEF TypesOfTasks, Unmoved
<1>8. Shape(t)' /\ Tabled(t)'
  BY <1>1, <1>2, <1>4, <1>6, <1>7 DEF Shape, Tabled, Present, NoTable
<1>9. KeptBut(t, {x}) /\ PointsTo(t, x) = q /\ PointsTo(t, x)' = NoPage /\ x \in Pointers
  <2>1. /\ Kept(t, <<"args", 0>>) /\ Kept(t, <<"hand", 0>>)
        /\ \A d \in Dirs : Kept(t, <<"dir", d>>)
        /\ \A a \in Addrs : Kept(t, <<"pte", a>>)
    BY <1>2, <1>4, <1>6, <1>7, KeptKinds
  <2>2. KeptBut(t, {x})
    BY <2>1, PointerKinds DEF KeptBut
  <2> QED BY <1>6, <1>7, <2>2, PointerKinds, PointsToIs, PointsToWillBe
<1> HIDE DEF x, q
<1> QED BY <1>2, <1>5, <1>7, <1>8, <1>9, OneFreed

-----------------------------------------------------------------------------
(* Steps that free all page tables.                                        *)

\* No entry is the page.
LEMMA NoEntries ==
  ASSUME NEW p
  PROVE  /\ \A dr : (\A d \in Dirs : dr[d] # p) => NumDirs(dr, p) = 0
         /\ \A pt : (\A a \in Addrs : pt[a].page # p) => NumAddrs(pt, p) = 0
<1>1. ASSUME NEW dr, \A d \in Dirs : dr[d] # p PROVE NumDirs(dr, p) = 0
  <2>1. {d \in Dirs : dr[d] = p} = {}
    BY <1>1
  <2> QED BY <2>1, FS_EmptySet DEF NumDirs
<1>2. ASSUME NEW pt, \A a \in Addrs : pt[a].page # p PROVE NumAddrs(pt, p) = 0
  <2>1. {a \in Addrs : pt[a].page = p} = {}
    BY <1>2
  <2> QED BY <2>1, FS_EmptySet DEF NumAddrs
<1> QED BY <1>1, <1>2

\* The references from a task before and after the step
LEMMA RowBefore ==
  ASSUME NEW t, NEW p
  PROVE  /\ NumDirs(dir[t], p) \in Nat /\ NumAddrs(pte[t], p) \in Nat
         /\ TableRefs(t, p) = NumDirs(dir[t], p) + NumAddrs(pte[t], p)
         /\ Num(Row(t), p) = Hit(task[t].page, p) + Hit(task[t].hand, p) + Hit(task[t].args, p)
                               + NumDirs(dir[t], p) + NumAddrs(pte[t], p)
<1> DEFINE d == Row(t)
           x == task[t].page
           y == task[t].hand
           z == task[t].args
           dr == dir[t]
           pt == pte[t]
<1>1. IsRow(d, x, y, z, dr, pt)
  BY RowsAre
<1>2. TableRefs(t, p) = NumDirs(dr, p) + NumAddrs(pt, p)
  BY DEF TableRefs, NumDirs, NumAddrs
<1> HIDE DEF d, x, y, z, dr, pt
<1>3. /\ NumDirs(dr, p) \in Nat /\ NumAddrs(pt, p) \in Nat
      /\ Num(d, p) = (IF x = p THEN 1 ELSE 0) + (IF y = p THEN 1 ELSE 0)
                         + (IF z = p THEN 1 ELSE 0) + NumDirs(dr, p) + NumAddrs(pt, p)
  BY <1>1, RowTotal
<1>4. Num(d, p) = Hit(x, p) + Hit(y, p) + Hit(z, p) + NumDirs(dr, p) + NumAddrs(pt, p)
  BY <1>3 DEF Hit
<1> QED BY <1>2, <1>3, <1>4 DEF d, x, y, z, dr, pt

\* The same after the step
LEMMA RowAfter ==
  ASSUME NEW t, NEW p
  PROVE  /\ NumDirs(dir'[t], p) \in Nat /\ NumAddrs(pte'[t], p) \in Nat
         /\ Num(Row(t)', p) = Hit(task'[t].page, p) + Hit(task'[t].hand, p)
                                + Hit(task'[t].args, p) + NumDirs(dir'[t], p)
                                + NumAddrs(pte'[t], p)
<1> DEFINE d == Row(t)'
           x == task'[t].page
           y == task'[t].hand
           z == task'[t].args
           dr == dir'[t]
           pt == pte'[t]
<1>1. IsRow(d, x, y, z, dr, pt)
  BY RowsAre
<1> HIDE DEF d, x, y, z, dr, pt
<1>2. /\ NumDirs(dr, p) \in Nat /\ NumAddrs(pt, p) \in Nat
      /\ Num(d, p) = (IF x = p THEN 1 ELSE 0) + (IF y = p THEN 1 ELSE 0)
                         + (IF z = p THEN 1 ELSE 0) + NumDirs(dr, p) + NumAddrs(pt, p)
  BY <1>1, RowTotal
<1>3. Num(d, p) = Hit(x, p) + Hit(y, p) + Hit(z, p) + NumDirs(dr, p) + NumAddrs(pt, p)
  BY <1>2 DEF Hit
<1> QED BY <1>2, <1>3 DEF d, x, y, z, dr, pt

\* do_exit(), with the page that a page fault has in its hand
LEMMA ExitStep ==
  ASSUME MemInv, NEW t \in Tasks, task[t].state \notin {"none", "zombie"},
         DoExit(t, task[t].hand)
  PROVE  MemInv'
<1>1. TypesOfTasks /\ Shape(t) /\ Tabled(t) /\ Types /\ Counted /\ Sharing
  BY DEF MemInv, Types
<1> DEFINE k == [NoTask EXCEPT !.state = "zombie", !.page = task[t].page]
           z == task[t].args
<1>2. /\ dir' = [dir EXCEPT ![t] = [d \in Dirs |-> NoPage]]
      /\ pte' = [pte EXCEPT ![t] = [a \in Addrs |-> NoPte]]
      /\ task' = [task EXCEPT ![t] = k]
      /\ lost' = lost \cup ({z} \ {NoPage})
  BY DEF DoExit
<1>3. task[t] \in TaskRecord /\ task[t].page # NoPage
  BY <1>1 DEF TypesOfTasks, Shape
<1>4. /\ k \in TaskRecord /\ k.page = task[t].page /\ k.hand = NoPage /\ k.args = NoPage
      /\ k.state = "zombie"
  BY <1>3, AddrsAssumption, ExecutablesAssumption DEF TaskRecord, NoTask, MaybePages
<1>5. NoPte \in PTEs /\ NoPte.page = NoPage /\ ~NoPte.rw
  BY DEF NoPte, PTEs, MaybePages
<1> HIDE DEF k
<1>6. /\ TypesOfTasks' /\ Unmoved(t) /\ task'[t] = k
      /\ \A d \in Dirs : dir'[t][d] = NoPage
      /\ \A a \in Addrs : pte'[t][a] = NoPte
  BY <1>1, <1>2, <1>4, <1>5 DEF TypesOfTasks, Unmoved, MaybePages
<1>7. Shape(t)' /\ Tabled(t)'
  BY <1>3, <1>4, <1>5, <1>6 DEF Shape, Tabled, Present, NoTable
<1>8. Others(t) /\ \A u \in Tasks \ {t} : Shape(u)' /\ Tabled(u)'
  BY <1>6, UnmovedTasks
<1>9. NoPage \notin Pages /\ (z = NoPage \/ z \in Pages)
  BY <1>3, SizesAssumption DEF Pages, NoPage, TaskRecord, MaybePages
<1>10. ASSUME NEW p \in Pages
       PROVE  /\ p \in lost' => Refs(p)' = 0
              /\ mem_map'[p] = IF p \in lost' THEN 1 ELSE Refs(p)'
              /\ mem_map'[p] \in Nat
  <2> DEFINE nd == NumDirs(dir[t], p)
             na == NumAddrs(pte[t], p)
             hp == Hit(task[t].page, p)
             hh == Hit(task[t].hand, p)
             hz == Hit(z, p)
  <2>1. /\ nd \in Nat /\ na \in Nat /\ TableRefs(t, p) = nd + na
        /\ Num(Row(t), p) = hp + hh + hz + nd + na
    BY RowBefore
  <2>2. Num(Row(t)', p) = hp
    <3>1. Hit(NoPage, p) = 0 /\ hp \in Nat
      BY <1>9 DEF Hit
    <3>2. NumDirs(dir'[t], p) = 0
      BY <1>6, <1>9, NoEntries
    <3>3. NumAddrs(pte'[t], p) = 0
      BY <1>5, <1>6, <1>9, NoEntries
    <3>4. Num(Row(t)', p) = Hit(k.page, p) + Hit(k.hand, p) + Hit(k.args, p)
                              + NumDirs(dir'[t], p) + NumAddrs(pte'[t], p)
      BY <1>6, RowAfter
    <3>5. Hit(k.page, p) = hp /\ Hit(k.hand, p) = 0 /\ Hit(k.args, p) = 0
      BY <1>4, <3>1
    <3> HIDE DEF hp
    <3> QED BY <3>1, <3>2, <3>3, <3>4, <3>5
  <2>3. \A u \in Tasks \ {t}, c \in Pointers : PointsTo(u, c)' = PointsTo(u, c)
    BY <1>8 DEF Others, Kept
  <2>4. /\ Refs(p) \in Nat /\ Refs(p)' \in Nat
        /\ Num(Row(t), p) <= Refs(p)
        /\ Refs(p)' = Refs(p) - Num(Row(t), p) + Num(Row(t)', p)
    BY <2>3, RefsChange
  <2>5. mem_map'[p] = mem_map[p] - TableRefs(t, p) - hh
    BY DEF DoExit, FreeTables, Hit
  <2>6. (p \in lost => Refs(p) = 0) /\ mem_map[p] = IF p \in lost THEN 1 ELSE Refs(p)
    BY <1>1 DEF Counted
  <2>7. hp \in {0, 1} /\ hh \in {0, 1} /\ hz \in {0, 1}
    BY DEF Hit
  <2>8. /\ p = z => hz = 1 /\ Refs(p) = 1 /\ mem_map[p] = 1 /\ p \notin lost
        /\ p # z => hz = 0
    <3>1. p # z => hz = 0
      BY DEF Hit
    <3>2. ASSUME p = z PROVE hz = 1 /\ Refs(p) = 1 /\ mem_map[p] = 1 /\ p \notin lost
      <4>1. <<"args", 0>> \in Pointers /\ PointsTo(t, <<"args", 0>>) = p
        BY <3>2, PointerKinds, PointsToIs
      <4>2. ~Protected(t, <<"args", 0>>)
        BY DEF Protected
      <4> QED BY <1>1, <3>2, <4>1, <4>2, OnlyReference DEF Hit
    <3> QED BY <3>1, <3>2
  <2>9. p \in lost' <=> p \in lost \/ p = z
    BY <1>2, <1>9
  <2> HIDE DEF nd, na, hp, hh, hz, z
  <2>10. CASE p = z
    BY <2>1, <2>2, <2>4, <2>5, <2>7, <2>8, <2>9, <2>10
  <2>11. CASE p \in lost
    BY <2>1, <2>2, <2>4, <2>5, <2>6, <2>7, <2>8, <2>9, <2>11
  <2>12. CASE p # z /\ p \notin lost
    BY <2>1, <2>2, <2>4, <2>5, <2>6, <2>7, <2>8, <2>9, <2>12
  <2> QED BY <2>10, <2>11, <2>12
<1>11. Counted'
  BY <1>10 DEF Counted
<1>12. Types'
  <2>1. mem_map' \in [Pages -> Nat]
    BY <1>10 DEF DoExit
  <2>2. lost' \subseteq Pages
    BY <1>1, <1>2, <1>9 DEF Types
  <2> QED BY <1>6, <2>1, <2>2 DEF Types
<1>13. Sharing'
  <2>1. Kept(t, <<"page", 0>>)
    BY <1>4, <1>6, KeptKinds
  <2>2. /\ PointsTo(t, <<"hand", 0>>)' = NoPage /\ PointsTo(t, <<"args", 0>>)' = NoPage
        /\ \A d \in Dirs : PointsTo(t, <<"dir", d>>)' = NoPage
        /\ \A a \in Addrs : PointsTo(t, <<"pte", a>>)' = NoPage
    BY <1>4, <1>5, <1>6, PointsToWillBe
  <2>3. \A c \in Pointers : Settled(t, c)
    BY <2>1, <2>2, PointerKinds DEF Settled
  <2>4. \A u \in Tasks, c \in Pointers : Settled(u, c)
    BY <1>8, <2>3 DEF Others, Settled
  <2> QED BY <1>1, <2>4, SharingStep
<1> QED BY <1>7, <1>8, <1>11, <1>12, <1>13 DEF MemInv

Before == {p \in Nat \X Nat : p[1] < p[2]}

\* There is a last page table with text: exec clears the end of a page there.
LEMMA LastText ==
  (CHOOSE a \in Text : \A b \in Text : b[1] <= a[1]) \in Addrs
<1> DEFINE S == {NrDirs - a[1] : a \in Text}
<1>1. \A a \in Text : a[1] \in 1..NrDirs /\ a \in Addrs
  BY AddrsAssumption DEF Addrs, Dirs
<1>2. S \subseteq Nat /\ S # {} /\ \A a \in Text : NrDirs - a[1] \in S
  BY <1>1, AddrsAssumption, DirsAssumption
<1>3. IsWellFoundedOn(Before, Nat)
  BY NatLessThanWellFounded DEF OpToRel, Before
<1>4. PICK n \in S : \A m \in S : <<m, n>> \notin Before
  <2> HIDE DEF S
  <2> QED BY <1>2, <1>3, WFMin
<1>5. PICK a \in Text : n = NrDirs - a[1]
  OBVIOUS
<1>6. ASSUME NEW b \in Text PROVE b[1] <= a[1]
  <2>1. NrDirs - b[1] \in S /\ NrDirs - b[1] \in Nat /\ n \in Nat
    BY <1>2
  <2>2. ~(NrDirs - b[1] < n)
    BY <1>4, <2>1 DEF Before
  <2> QED BY <1>1, <1>5, <2>1, <2>2, DirsAssumption
<1> HIDE DEF S
<1>7. \E x \in Text : \A b \in Text : b[1] <= x[1]
  BY <1>6
<1>8. (CHOOSE x \in Text : \A b \in Text : b[1] <= x[1]) \in Text
  BY <1>7
<1> QED BY <1>1, <1>8

NoOther(dr, i, pt, a) ==
  (\A d \in Dirs \ {i} : dr[d] = NoPage) /\ (\A b \in Addrs \ {a} : pt[b].page = NoPage)

\* A page table and an entry are all there is.
LEMMA OneEntry ==
  ASSUME NEW i \in Dirs, NEW a \in Addrs, NEW dr, NEW pt, NEW p \in Pages, NoOther(dr, i, pt, a)
  PROVE  NumDirs(dr, p) = Hit(dr[i], p) /\ NumAddrs(pt, p) = Hit(pt[a].page, p)
<1>1. NoPage # p
  BY SizesAssumption DEF Pages, NoPage
<1>2. {d \in Dirs : dr[d] = p} = IF dr[i] = p THEN {i} ELSE {}
  BY <1>1 DEF NoOther
<1>3. {b \in Addrs : pt[b].page = p} = IF pt[a].page = p THEN {a} ELSE {}
  BY <1>1 DEF NoOther
<1>4. Cardinality({i}) = 1 /\ Cardinality({a}) = 1 /\ Cardinality({}) = 0
  BY FS_Singleton, FS_EmptySet
<1> QED BY <1>2, <1>3, <1>4 DEF NumDirs, NumAddrs, Hit

\* change_ldt() after free_page_tables(): the end of do_execve()
LEMMA ChangeMemoryStep ==
  ASSUME MemInv, NEW t \in Tasks, NEW aligned \in BOOLEAN, ChangeMemory(t, aligned)
  PROVE  MemInv'
<1>1. TypesOfTasks /\ Shape(t) /\ Tabled(t) /\ Types /\ Counted /\ Sharing
  BY DEF MemInv, Types
<1> DEFINE s == IF aligned THEN "user" ELSE "fill"
           b == IF aligned THEN Stack ELSE (CHOOSE a \in Text : \A c \in Text : c[1] <= a[1])
           k == [task[t] EXCEPT !.args = NoPage, !.state = s, !.addr = b]
           z == task[t].args
           e == [page |-> z, rw |-> TRUE, dirty |-> TRUE]
           i == Stack[1]
<1>2. PICK q \in GetFreePage(FreeTables(t)) :
        /\ mem_map' = [FreeTables(t) EXCEPT ![q] = 1]
        /\ dir' = [dir EXCEPT ![t] = [d \in Dirs |-> IF d = i THEN q ELSE NoPage]]
  BY DEF ChangeMemory, ChangeLdt
<1>3. /\ task[t].state = "close" /\ task' = [task EXCEPT ![t] = k] /\ lost' = lost
      /\ pte' = [pte EXCEPT ![t] = [a \in Addrs |-> IF a = Stack THEN e ELSE NoPte]]
  <2>1. task[t].state = "close" /\ lost' = lost
    BY DEF ChangeMemory
  <2>2. task' = [task EXCEPT ![t] = k]
    <3>1. task' = [task EXCEPT ![t].args = NoPage, ![t].state = s, ![t].addr = b]
      BY Zenon DEF ChangeMemory
    <3> HIDE DEF s, b
    <3> QED BY <3>1
  <2>3. pte' = [pte EXCEPT ![t] = [a \in Addrs |-> IF a = Stack THEN e ELSE NoPte]]
    BY Zenon DEF ChangeMemory, ChangeLdt
  <2> QED BY <2>1, <2>2, <2>3
<1>4. q \in Pages /\ FreeTables(t)[q] = 0 /\ NoPage \notin Pages
  BY <1>2, FreePage, SizesAssumption DEF Pages, NoPage
<1>5. task[t] \in TaskRecord /\ s \in {"user", "fill"} /\ b \in Addrs /\ Stack \in Addrs /\ i \in Dirs
  BY <1>1, LastText, AddrsAssumption DEF TypesOfTasks, Addrs
<1>6. Plain(task[t]) /\ z # NoPage
  BY <1>1, <1>3, PlainTask DEF Plain, Awake
<1>7. z \in Pages
  BY <1>5, <1>6 DEF TaskRecord, MaybePages
<1> HIDE DEF s, b
<1>8. /\ k \in TaskRecord /\ k.page = task[t].page /\ k.hand = task[t].hand /\ k.args = NoPage
      /\ k.state = s
  BY <1>5 DEF TaskRecord, MaybePages
<1>9. e \in PTEs /\ e.page = z /\ NoPte \in PTEs /\ NoPte.page = NoPage /\ ~NoPte.rw
  BY <1>7 DEF PTEs, NoPte, MaybePages
<1> HIDE DEF k, z, e, i
<1>10. /\ TypesOfTasks' /\ Unmoved(t) /\ task'[t] = k
       /\ dir'[t] = [d \in Dirs |-> IF d = i THEN q ELSE NoPage]
       /\ pte'[t] = [a \in Addrs |-> IF a = Stack THEN e ELSE NoPte]
  BY <1>1, <1>2, <1>3, <1>4, <1>8, <1>9 DEF TypesOfTasks, Unmoved, MaybePages
<1>11. /\ dir'[t][i] = q /\ \A d \in Dirs \ {i} : dir'[t][d] = NoPage
       /\ pte'[t][Stack].page = z /\ \A a \in Addrs \ {Stack} : pte'[t][a] = NoPte
  BY <1>5, <1>9, <1>10
<1>12. Shape(t)' /\ Tabled(t)'
  <2>1. Plain(task'[t])
    BY <1>5, <1>6, <1>8, <1>10 DEF Plain, Awake
  <2>2. q # NoPage /\ z # NoPage
    BY <1>4, <1>7
  <2>3. \A a \in Addrs : /\ Present(t, a)' => ~NoTable(t, a)'
                         /\ pte'[t][a].rw => Present(t, a)'
    BY <1>9, <1>11, <2>2 DEF Present, NoTable, i
  <2> QED BY <2>1, <2>3, PlainTask DEF Tabled
<1>13. Others(t)
  BY <1>10, UnmovedTasks
<1>14. Refs(z) = 1 /\ mem_map[z] = 1 /\ z \notin lost
  <2>1. <<"args", 0>> \in Pointers /\ PointsTo(t, <<"args", 0>>) = z
    BY PointerKinds, PointsToIs DEF z
  <2>2. ~Protected(t, <<"args", 0>>)
    BY DEF Protected
  <2> QED BY <1>1, <1>7, <2>1, <2>2, OnlyReference
<1>15. ASSUME NEW p \in Pages
       PROVE  /\ mem_map'[p] = mem_map[p] + Num(Row(t)', p) - Num(Row(t), p)
              /\ p = q => mem_map'[p] = 1 /\ p \notin lost
              /\ p = z => mem_map'[p] = 1
  <2> DEFINE nd == NumDirs(dir[t], p)
             na == NumAddrs(pte[t], p)
             hp == Hit(task[t].page, p)
             hz == Hit(z, p)
             hq == Hit(q, p)
  <2>1. Hit(NoPage, p) = 0 /\ task[t].hand = NoPage
    BY <1>4, <1>6 DEF Hit, Plain
  <2>2. hp \in {0, 1} /\ hq = (IF p = q THEN 1 ELSE 0) /\ hz = (IF p = z THEN 1 ELSE 0)
    BY DEF Hit
  <2>3. /\ nd \in Nat /\ na \in Nat /\ TableRefs(t, p) = nd + na
        /\ Num(Row(t), p) = hp + hz + nd + na
    <3>1. /\ nd \in Nat /\ na \in Nat /\ TableRefs(t, p) = nd + na
          /\ Num(Row(t), p) = hp + Hit(task[t].hand, p) + hz + nd + na
      BY RowBefore DEF z
    <3> HIDE DEF nd, na, hp, hz
    <3> QED BY <2>1, <2>2, <3>1
  <2>4. Num(Row(t)', p) = hp + hq + hz
    <3>1. NoOther(dir'[t], i, pte'[t], Stack)
      BY <1>9, <1>11 DEF NoOther
    <3>2. NumDirs(dir'[t], p) = hq /\ NumAddrs(pte'[t], p) = hz
      BY <1>5, <1>11, <3>1, OneEntry
    <3>3. Num(Row(t)', p) = Hit(k.page, p) + Hit(k.hand, p) + Hit(k.args, p)
                              + NumDirs(dir'[t], p) + NumAddrs(pte'[t], p)
      BY <1>10, RowAfter
    <3>4. Hit(k.page, p) = hp /\ Hit(k.hand, p) = 0 /\ Hit(k.args, p) = 0
      BY <1>8, <2>1
    <3> HIDE DEF hp, hq, hz
    <3> QED BY <2>2, <3>2, <3>3, <3>4
  <2>5. Num(Row(t), p) <= Refs(p) /\ Refs(p) \in Nat
    <3>1. \A u \in Tasks \ {t}, c \in Pointers : PointsTo(u, c)' = PointsTo(u, c)
      BY <1>13 DEF Others, Kept
    <3> QED BY <3>1, RefsChange
  <2>6. /\ FreeTables(t)[p] = mem_map[p] - (nd + na)
        /\ mem_map'[p] = IF p = q THEN 1 ELSE mem_map[p] - (nd + na)
    BY <1>2, <2>3 DEF FreeTables
  <2>7. /\ (p \in lost => Refs(p) = 0) /\ mem_map[p] = IF p \in lost THEN 1 ELSE Refs(p)
        /\ mem_map[p] \in Nat
    BY <1>1 DEF Counted, Types
  <2> HIDE DEF nd, na, hp, hz, hq
  <2>8. mem_map'[p] = mem_map[p] + Num(Row(t)', p) - Num(Row(t), p)
    BY <1>4, <2>2, <2>3, <2>4, <2>6, <2>7
  <2>9. p = q => mem_map'[p] = 1 /\ p \notin lost
    BY <1>4, <2>2, <2>3, <2>5, <2>6, <2>7
  <2>10. p = z => mem_map'[p] = 1
    <3> SUFFICES ASSUME p = z PROVE mem_map'[p] = 1
      OBVIOUS
    <3>1. Refs(p) = 1 /\ mem_map[p] = 1
      BY <1>14
    <3> QED BY <2>2, <2>3, <2>5, <2>6, <3>1
  <2> QED BY <2>8, <2>9, <2>10
<1>16. Balanced(t) /\ MapOfPages
  <2>1. mem_map' = [p \in Pages |-> mem_map'[p]]
    BY <1>2 DEF FreeTables
  <2> QED BY <1>15, <2>1 DEF Balanced, MapOfPages
<1> DEFINE C == Pointers \ {<<"page", 0>>}
<1>17. KeptBut(t, C)
  BY <1>8, <1>10, KeptKinds DEF KeptBut
<1>18. AllTaken(t, C)
  <2>1. Taken(NoPage) /\ Taken(q) /\ Taken(z)
    BY <1>4, <1>7, <1>14, <1>15 DEF Taken
  <2>2. Taken(task'[t].hand) /\ Taken(task'[t].args)
    BY <1>6, <1>8, <1>10, <2>1 DEF Plain
  <2>3. \A d \in Dirs : Taken(dir'[t][d])
    BY <1>11, <2>1
  <2>4. \A a \in Addrs : Taken(pte'[t][a].page)
    BY <1>9, <1>11, <2>1
  <2> QED BY <2>2, <2>3, <2>4, PointerKinds, PointsToWillBe DEF AllTaken
<1> HIDE DEF C
<1> QED BY <1>3, <1>10, <1>12, <1>16, <1>17, <1>18, PlacesStep

-----------------------------------------------------------------------------
(* Steps that put a page in a page table.                                  *)

\* The entry a of the directory of t has a page table, and no other changes.
TableThere(t, a) ==
  /\ dir' \in [Tasks -> [Dirs -> MaybePages]]
  /\ \A u \in Tasks \ {t} : dir'[u] = dir[u]
  /\ \A d \in Dirs \ {a[1]} : dir'[t][d] = dir[t][d]
  /\ dir'[t][a[1]] # NoPage

\* A table is made.
LEMMA TableMade ==
  ASSUME TypesOfTasks, NEW t \in Tasks, NEW a \in Addrs, NEW q \in Pages,
         dir' = [dir EXCEPT ![t][a[1]] = q]
  PROVE  TableThere(t, a) /\ dir'[t][a[1]] = q
<1> DEFINE i == a[1]
           h == [dir[t] EXCEPT ![i] = q]
<1>1. i \in Dirs /\ q # NoPage
  BY SizesAssumption DEF Addrs, Pages, NoPage
<1>2. h \in [Dirs -> MaybePages] /\ h[i] = q /\ \A d \in Dirs \ {i} : h[d] = dir[t][d]
  BY <1>1 DEF TypesOfTasks, MaybePages
<1>3. dir' = [dir EXCEPT ![t] = h]
  OBVIOUS
<1> HIDE DEF h, i
<1>4. /\ dir' \in [Tasks -> [Dirs -> MaybePages]] /\ dir'[t] = h
      /\ \A u \in Tasks \ {t} : dir'[u] = dir[u]
  BY <1>2, <1>3 DEF TypesOfTasks
<1>5. /\ \A d \in Dirs \ {i} : dir'[t][d] = dir[t][d]
      /\ dir'[t][i] = q
  BY <1>2, <1>4
<1> QED BY <1>1, <1>4, <1>5 DEF TableThere, i

\* The table that is there stays there.
LEMMA TableKept ==
  ASSUME TypesOfTasks, NEW t \in Tasks, NEW a \in Addrs, ~NoTable(t, a), dir' = dir
  PROVE  TableThere(t, a) /\ dir'[t][a[1]] = dir[t][a[1]]
BY DEF TypesOfTasks, TableThere, NoTable

\* A page of its own for the address a: what does not depend on where it is from
LEMMA PutEntry ==
  ASSUME MemInv, NEW t \in Tasks, NEW a \in Addrs, NEW page \in Pages, TableThere(t, a),
         pte' = [pte EXCEPT ![t][a] = [page |-> page, rw |-> TRUE, dirty |-> FALSE]],
         task' \in [Tasks -> TaskRecord], \A u \in Tasks \ {t} : task'[u] = task[u],
         Plain(task'[t])
  PROVE  /\ TypesOfTasks' /\ Unmoved(t) /\ Shape(t)' /\ Tabled(t)'
         /\ PointsTo(t, <<"pte", a>>)' = page
         /\ \A b \in Addrs \ {a} : Kept(t, <<"pte", b>>)
         /\ \A d \in Dirs \ {a[1]} : Kept(t, <<"dir", d>>)
<1> DEFINE e == [page |-> page, rw |-> TRUE, dirty |-> FALSE]
           h == [pte[t] EXCEPT ![a] = e]
<1>1. TypesOfTasks /\ Tabled(t) /\ page # NoPage
  BY SizesAssumption DEF MemInv, Types, Pages, NoPage
<1>2. e \in PTEs /\ e.page = page
  BY DEF PTEs, MaybePages
<1>3. pte' = [pte EXCEPT ![t] = h]
  OBVIOUS
<1> HIDE DEF e
<1>4. h \in [Addrs -> PTEs] /\ h[a] = e /\ \A b \in Addrs \ {a} : h[b] = pte[t][b]
  BY <1>1, <1>2 DEF TypesOfTasks
<1> HIDE DEF h
<1>5. /\ pte' \in [Tasks -> [Addrs -> PTEs]] /\ pte'[t] = h
      /\ \A u \in Tasks \ {t} : pte'[u] = pte[u]
  BY <1>1, <1>3, <1>4 DEF TypesOfTasks
<1>6. pte'[t][a] = e /\ \A b \in Addrs \ {a} : pte'[t][b] = pte[t][b]
  BY <1>4, <1>5
<1>7. TypesOfTasks' /\ Unmoved(t)
  BY <1>5 DEF TypesOfTasks, Unmoved, TableThere
<1>8. Tabled(t)'
  <2>1. ASSUME NEW b \in Addrs PROVE (Present(t, b)' => ~NoTable(t, b)') /\ (pte'[t][b].rw => Present(t, b)')
    <3>1. b[1] \in Dirs
      BY DEF Addrs
    <3>2. dir'[t][b[1]] = dir[t][b[1]] \/ dir'[t][b[1]] # NoPage
      BY <3>1 DEF TableThere
    <3>3. CASE b = a
      BY <1>1, <1>2, <1>6, <3>3 DEF Present, NoTable, TableThere
    <3>4. CASE b # a
      BY <1>1, <1>6, <3>2, <3>4 DEF Present, NoTable, Tabled
    <3> QED BY <3>3, <3>4
  <2> QED BY <2>1 DEF Tabled
<1>9. PointsTo(t, <<"pte", a>>)' = page
  BY <1>2, <1>6, PointsToWillBe
<1>10. \A b \in Addrs \ {a} : Kept(t, <<"pte", b>>)
  BY <1>6, KeptKinds
<1>11. \A d \in Dirs \ {a[1]} : Kept(t, <<"dir", d>>)
  BY KeptKinds DEF TableThere
<1> QED BY <1>7, <1>8, <1>9, <1>10, <1>11, PlainTask

\* get_empty_page() gets the page, and put_page() puts it there.
LEMMA GetEmptyStep ==
  ASSUME MemInv, NEW t \in Tasks, NEW a \in Addrs, ~Present(t, a),
         task[t].state \in {"user", "call", "copy", "fill"},
         NEW page \in GetFreePage(mem_map), PutPage(t, a, page, [mem_map EXCEPT ![page] = 1]),
         task' = Resumed(t), lost' = lost
  PROVE  MemInv'
<1> DEFINE M == [mem_map EXCEPT ![page] = 1]
           x == <<"pte", a>>
           y == <<"dir", a[1]>>
<1>1. TypesOfTasks /\ Shape(t) /\ Types /\ Counted /\ mem_map \in [Pages -> Nat]
  BY DEF MemInv, Types
<1>2. page \in Pages /\ mem_map[page] = 0 /\ NoPage \notin Pages /\ page \notin lost
  BY <1>1, FreePage, FreshPage, SizesAssumption DEF Pages, NoPage
<1>3. /\ M[page] = 1 /\ \A p \in Pages \ {page} : M[p] = mem_map[p]
      /\ M \in [Pages -> Nat]
  BY <1>1, <1>2
<1>4. Plain(task[t]) /\ task' = task
  BY <1>1, PlainTask DEF Awake, Resumed
<1>5. /\ Plain(task'[t]) /\ task' \in [Tasks -> TaskRecord]
      /\ \A u \in Tasks \ {t} : task'[u] = task[u]
  BY <1>1, <1>4 DEF TypesOfTasks
<1>6. /\ Kept(t, <<"page", 0>>) /\ Kept(t, <<"hand", 0>>) /\ Kept(t, <<"args", 0>>)
  BY <1>4, KeptKinds
<1>7. x \in Pointers /\ y \in Pointers /\ x # y
  BY PointerKinds DEF Addrs
<1>8. PointsTo(t, x) = NoPage /\ PointsTo(t, y) = dir[t][a[1]]
  BY PointsToIs DEF Present
<1>9. pte' = [pte EXCEPT ![t][a] = [page |-> page, rw |-> TRUE, dirty |-> FALSE]]
  BY DEF PutPage
<1>10. CASE ~NoTable(t, a)
  <2>1. mem_map' = M /\ dir' = dir
    BY <1>10 DEF PutPage
  <2>2. TableThere(t, a)
    BY <1>1, <1>10, <2>1, TableKept
  <2>3. /\ TypesOfTasks' /\ Unmoved(t) /\ Shape(t)' /\ Tabled(t)' /\ PointsTo(t, x)' = page
        /\ \A b \in Addrs \ {a} : Kept(t, <<"pte", b>>)
    BY <1>2, <1>5, <1>9, <2>2, PutEntry
  <2>4. \A d \in Dirs : Kept(t, <<"dir", d>>)
    BY <2>1, KeptKinds
  <2>5. KeptBut(t, {x})
    BY <1>6, <2>3, <2>4, PointerKinds DEF KeptBut
  <2> QED BY <1>2, <1>7, <1>8, <2>1, <2>3, <2>5, OneTaken
<1>11. CASE NoTable(t, a)
  <2>1. PICK q \in GetFreePage(M) : /\ mem_map' = [M EXCEPT ![q] = 1]
                                    /\ dir' = [dir EXCEPT ![t][a[1]] = q]
    BY <1>11 DEF PutPage
  <2> HIDE DEF M
  <2>2. q \in Pages /\ M[q] = 0
    BY <2>1, FreePage
  <2>3. q # page /\ mem_map[q] = 0
    BY <1>3, <2>2
  <2>4. q \notin lost
    BY <1>1, <2>2, <2>3, FreshPage
  <2>5. TableThere(t, a) /\ dir'[t][a[1]] = q
    BY <1>1, <2>1, <2>2, TableMade
  <2>6. /\ TypesOfTasks' /\ Unmoved(t) /\ Shape(t)' /\ Tabled(t)' /\ PointsTo(t, x)' = page
        /\ \A b \in Addrs \ {a} : Kept(t, <<"pte", b>>)
        /\ \A d \in Dirs \ {a[1]} : Kept(t, <<"dir", d>>)
    BY <1>2, <1>5, <1>9, <2>5, PutEntry
  <2>7. KeptBut(t, {x, y})
    BY <1>6, <2>6, PointerKinds DEF KeptBut
  <2>8. PointsTo(t, y)' = q /\ PointsTo(t, y) = NoPage
    BY <1>8, <1>11, <2>5, PointsToWillBe DEF NoTable
  <2>9. ASSUME NEW p \in Pages
        PROVE  mem_map'[p] = mem_map[p] + Num(Row(t)', p) - Num(Row(t), p)
    <3>1. /\ Num(Row(t), p) \in Nat /\ Num(Row(t)', p) \in Nat
          /\ Num(Row(t)', p) = Num(Row(t), p) + Hit(PointsTo(t, x)', p) + Hit(PointsTo(t, y)', p)
                                 - Hit(PointsTo(t, x), p) - Hit(PointsTo(t, y), p)
      <4> HIDE DEF x, y
      <4>1. KeptButTwo(t, x, y)
        BY <2>7 DEF KeptButTwo
      <4> QED BY <1>7, <4>1, RowTwo
    <3>2. /\ Hit(PointsTo(t, x), p) = 0 /\ Hit(PointsTo(t, y), p) = 0
          /\ Hit(PointsTo(t, x)', p) = IF p = page THEN 1 ELSE 0
          /\ Hit(PointsTo(t, y)', p) = IF p = q THEN 1 ELSE 0
      BY <1>2, <1>8, <2>6, <2>8 DEF Hit
    <3>3. /\ mem_map'[p] = mem_map[p] + (IF p = page THEN 1 ELSE 0) + (IF p = q THEN 1 ELSE 0)
          /\ mem_map[p] \in Nat
      BY <1>1, <1>2, <1>3, <2>1, <2>2, <2>3
    <3> QED BY <3>1, <3>2, <3>3
  <2>10. Balanced(t) /\ MapOfPages
    <3>1. mem_map' = [p \in Pages |-> mem_map'[p]]
      BY <1>3, <2>1
    <3> QED BY <2>9, <3>1 DEF Balanced, MapOfPages
  <2>11. AllTaken(t, {x, y})
    <3>1. mem_map'[page] = 1 /\ mem_map'[q] = 1
      BY <1>2, <1>3, <2>1, <2>2, <2>3
    <3> QED BY <1>2, <2>2, <2>4, <2>6, <2>8, <3>1 DEF AllTaken, Taken
  <2> HIDE DEF x, y
  <2> QED BY <2>6, <2>7, <2>10, <2>11, PlacesStep
<1> QED BY <1>10, <1>11

\* Where a task goes on that slept in bread_page()
LEMMA ResumedIs ==
  ASSUME MemInv, NEW t \in Tasks, task[t].state = "load", task' = Resumed(t)
  PROVE  /\ task' \in [Tasks -> TaskRecord] /\ \A u \in Tasks \ {t} : task'[u] = task[u]
         /\ task'[t].page = task[t].page /\ task'[t].args = task[t].args
         /\ task'[t].hand = NoPage /\ Plain(task'[t])
<1> DEFINE s == task[t].from
           b == IF task[t].from \in {"call", "fill"} THEN task[t].addr ELSE Stack
           h == [task[t] EXCEPT !.state = s, !.hand = NoPage]
           k == [h EXCEPT !.from = "user", !.addr = b]
<1>1. TypesOfTasks /\ Shape(t)
  BY DEF MemInv, Types
<1>2. task[t] \in TaskRecord
  BY <1>1 DEF TypesOfTasks
<1>3. s \in {"user", "call", "copy", "fill"} /\ b \in Addrs
  BY <1>2, AddrsAssumption DEF TaskRecord
<1>4. task' = [task EXCEPT ![t] = k]
  BY DEF Resumed
<1>5. task[t].page # NoPage /\ (task[t].args # NoPage <=> s = "copy")
  BY <1>1 DEF Shape
<1> HIDE DEF s, b
<1>6. /\ h \in TaskRecord /\ h.page = task[t].page /\ h.args = task[t].args /\ h.state = s
      /\ h.hand = NoPage
  BY <1>2, <1>3 DEF TaskRecord, MaybePages
<1> HIDE DEF h
<1>7. /\ k \in TaskRecord /\ k.page = task[t].page /\ k.args = task[t].args /\ k.state = s
      /\ k.hand = NoPage
  BY <1>3, <1>6 DEF TaskRecord
<1> HIDE DEF k
<1>8. /\ task' \in [Tasks -> TaskRecord] /\ task'[t] = k
      /\ \A u \in Tasks \ {t} : task'[u] = task[u]
  BY <1>1, <1>4, <1>7 DEF TypesOfTasks
<1>9. Plain(k)
  BY <1>3, <1>5, <1>7 DEF Plain, Awake
<1> QED BY <1>7, <1>8, <1>9

LoadsTo(t, a, page) == task[t].addr = a /\ task[t].hand = page

\* do_no_page() goes on, and put_page() puts the page there.
LEMMA LoadedStep ==
  ASSUME MemInv, NEW t \in Tasks, task[t].state = "load",
         NEW a, NEW page, LoadsTo(t, a, page),
         PutPage(t, a, page, mem_map), task' = Resumed(t), lost' = lost
  PROVE  MemInv'
<1> DEFINE x == <<"hand", 0>>
           y == <<"pte", a>>
           z == <<"dir", a[1]>>
<1>1. TypesOfTasks /\ Shape(t) /\ Types /\ Counted /\ Sharing /\ mem_map \in [Pages -> Nat]
  BY DEF MemInv, Types
<1>2. page # NoPage /\ ~Present(t, a) /\ page \in Pages /\ a \in Addrs /\ NoPage \notin Pages
  <2>1. task[t] \in TaskRecord
    BY <1>1 DEF TypesOfTasks
  <2> QED BY <1>1, <2>1, SizesAssumption DEF Shape, TaskRecord, MaybePages, Pages, NoPage, LoadsTo
<1>3. pte' = [pte EXCEPT ![t][a] = [page |-> page, rw |-> TRUE, dirty |-> FALSE]]
  BY DEF PutPage
<1>4. PointsTo(t, x) = page /\ PointsTo(t, y) = NoPage /\ PointsTo(t, z) = dir[t][a[1]]
  BY <1>2, PointsToIs DEF Present, LoadsTo
<1>5. x \in Pointers /\ y \in Pointers /\ z \in Pointers /\ x # y /\ x # z /\ y # z
  BY <1>2, PointerKinds DEF Addrs
<1>6. mem_map[page] = 1 /\ page \notin lost
  <2>1. ~Protected(t, x)
    BY DEF Protected
  <2> HIDE DEF x
  <2> QED BY <1>1, <1>2, <1>4, <1>5, <2>1, OnlyReference
<1>7. /\ task' \in [Tasks -> TaskRecord] /\ \A u \in Tasks \ {t} : task'[u] = task[u]
      /\ task'[t].page = task[t].page /\ task'[t].args = task[t].args
      /\ task'[t].hand = NoPage /\ Plain(task'[t])
  BY ResumedIs
<1>8. Kept(t, <<"page", 0>>) /\ Kept(t, <<"args", 0>>) /\ PointsTo(t, x)' = NoPage
  BY <1>7, KeptKinds, PointsToWillBe
<1>9. CASE ~NoTable(t, a)
  <2>1. mem_map' = mem_map /\ dir' = dir
    BY <1>9 DEF PutPage
  <2>2. TableThere(t, a)
    BY <1>1, <1>2, <1>9, <2>1, TableKept
  <2>3. /\ TypesOfTasks' /\ Unmoved(t) /\ Shape(t)' /\ Tabled(t)' /\ PointsTo(t, y)' = page
        /\ \A b \in Addrs \ {a} : Kept(t, <<"pte", b>>)
    BY <1>2, <1>3, <1>7, <2>2, PutEntry
  <2>4. \A d \in Dirs : Kept(t, <<"dir", d>>)
    BY <2>1, KeptKinds
  <2>5. KeptBut(t, {x, y})
    BY <1>8, <2>3, <2>4, PointerKinds DEF KeptBut
  <2>6. ASSUME NEW p \in Pages
        PROVE  mem_map'[p] = mem_map[p] + Num(Row(t)', p) - Num(Row(t), p)
    <3>1. /\ Num(Row(t), p) \in Nat /\ Num(Row(t)', p) \in Nat
          /\ Num(Row(t)', p) = Num(Row(t), p) + Hit(PointsTo(t, x)', p) + Hit(PointsTo(t, y)', p)
                                 - Hit(PointsTo(t, x), p) - Hit(PointsTo(t, y), p)
      <4> HIDE DEF x, y, z
      <4>1. KeptButTwo(t, x, y)
        BY <2>5 DEF KeptButTwo
      <4> QED BY <1>5, <4>1, RowTwo
    <3>2. /\ Hit(PointsTo(t, x)', p) = Hit(PointsTo(t, y), p)
          /\ Hit(PointsTo(t, y)', p) = Hit(PointsTo(t, x), p)
      BY <1>4, <1>8, <2>3
    <3>3. Hit(PointsTo(t, x), p) \in Nat /\ Hit(PointsTo(t, y), p) \in Nat /\ mem_map[p] \in Nat
      BY <1>1 DEF Hit
    <3> QED BY <2>1, <3>1, <3>2, <3>3
  <2>7. Balanced(t) /\ MapOfPages
    BY <1>1, <2>1, <2>6 DEF Balanced, MapOfPages
  <2>8. AllTaken(t, {x, y})
    BY <1>2, <1>6, <1>8, <2>1, <2>3 DEF AllTaken, Taken
  <2> HIDE DEF x, y
  <2> QED BY <2>3, <2>5, <2>7, <2>8, PlacesStep
<1>10. CASE NoTable(t, a)
  <2>1. PICK q \in GetFreePage(mem_map) : /\ mem_map' = [mem_map EXCEPT ![q] = 1]
                                          /\ dir' = [dir EXCEPT ![t][a[1]] = q]
    BY <1>10 DEF PutPage
  <2>2. q \in Pages /\ mem_map[q] = 0 /\ q # page
    BY <1>6, <2>1, FreePage
  <2>3. q \notin lost
    BY <1>1, <2>2, FreshPage
  <2>4. TableThere(t, a) /\ dir'[t][a[1]] = q
    BY <1>1, <1>2, <2>1, <2>2, TableMade, ZenonT(30)
  <2>5. /\ TypesOfTasks' /\ Unmoved(t) /\ Shape(t)' /\ Tabled(t)' /\ PointsTo(t, y)' = page
        /\ \A b \in Addrs \ {a} : Kept(t, <<"pte", b>>)
        /\ \A d \in Dirs \ {a[1]} : Kept(t, <<"dir", d>>)
    BY <1>2, <1>3, <1>7, <2>4, PutEntry
  <2>6. KeptBut(t, {x, y, z})
    BY <1>8, <2>5, PointerKinds DEF KeptBut
  <2>7. PointsTo(t, z)' = q /\ PointsTo(t, z) = NoPage
    BY <1>4, <1>10, <2>4, PointsToWillBe DEF NoTable
  <2>8. ASSUME NEW p \in Pages
        PROVE  mem_map'[p] = mem_map[p] + Num(Row(t)', p) - Num(Row(t), p)
    <3>1. /\ Num(Row(t), p) \in Nat /\ Num(Row(t)', p) \in Nat
          /\ Num(Row(t)', p) = Num(Row(t), p) + Hit(PointsTo(t, x)', p) + Hit(PointsTo(t, y)', p)
                                 + Hit(PointsTo(t, z)', p) - Hit(PointsTo(t, x), p)
                                 - Hit(PointsTo(t, y), p) - Hit(PointsTo(t, z), p)
      <4> HIDE DEF x, y, z
      <4>1. KeptButThree(t, x, y, z)
        BY <2>6 DEF KeptButThree
      <4> QED BY <1>5, <4>1, RowThree
    <3>2. /\ Hit(PointsTo(t, x)', p) = Hit(PointsTo(t, y), p)
          /\ Hit(PointsTo(t, y)', p) = Hit(PointsTo(t, x), p)
          /\ Hit(PointsTo(t, z), p) = 0
          /\ Hit(PointsTo(t, z)', p) = IF p = q THEN 1 ELSE 0
      BY <1>2, <1>4, <1>8, <2>5, <2>7 DEF Hit
    <3>3. /\ Hit(PointsTo(t, x), p) \in Nat /\ Hit(PointsTo(t, y), p) \in Nat /\ mem_map[p] \in Nat
          /\ mem_map'[p] = mem_map[p] + (IF p = q THEN 1 ELSE 0)
      BY <1>1, <2>1, <2>2 DEF Hit
    <3> QED BY <3>1, <3>2, <3>3
  <2>9. Balanced(t) /\ MapOfPages
    BY <1>1, <2>1, <2>8 DEF Balanced, MapOfPages
  <2>10. AllTaken(t, {x, y, z})
    <3>1. mem_map'[page] = 1 /\ mem_map'[q] = 1
      BY <1>1, <1>2, <1>6, <2>1, <2>2
    <3> QED BY <1>2, <1>6, <1>8, <2>2, <2>3, <2>5, <2>7, <3>1 DEF AllTaken, Taken
  <2> HIDE DEF x, y, z
  <2> QED BY <2>5, <2>6, <2>9, <2>10, PlacesStep
<1> QED BY <1>9, <1>10

\* un_wp_page() copies a page that has more references.
LEMMA CopyPageStep ==
  ASSUME MemInv, NEW t \in Tasks, NEW a \in Addrs, Present(t, a),
         NEW new \in GetFreePage(mem_map),
         mem_map' = [mem_map EXCEPT ![new] = 1, ![pte[t][a].page] = @ - 1],
         pte' = [pte EXCEPT ![t][a] = [page |-> new, rw |-> TRUE, dirty |-> FALSE]],
         task' \in [Tasks -> TaskRecord], \A u \in Tasks \ {t} : task'[u] = task[u],
         task'[t].page = task[t].page, task'[t].hand = task[t].hand,
         task'[t].args = task[t].args, Plain(task'[t]), UNCHANGED <<dir, lost>>
  PROVE  MemInv'
<1> DEFINE old == pte[t][a].page
           x == <<"pte", a>>
<1>1. TypesOfTasks /\ Shape(t) /\ Tabled(t) /\ Types /\ Counted /\ mem_map \in [Pages -> Nat]
  BY DEF MemInv, Types
<1>2. new \in Pages /\ mem_map[new] = 0 /\ NoPage \notin Pages /\ new \notin lost
  BY <1>1, FreePage, FreshPage, SizesAssumption DEF Pages, NoPage
<1>3. x \in Pointers /\ PointsTo(t, x) = old
  BY PointerKinds, PointsToIs
<1>4. old \in Pages
  <2>1. pte[t][a] \in PTEs
    BY <1>1 DEF TypesOfTasks
  <2> QED BY <2>1 DEF PTEs, MaybePages, Present
<1>5. mem_map' = [mem_map EXCEPT ![new] = 1, ![old] = @ - 1]
  OBVIOUS
<1> HIDE DEF old
<1>6. mem_map[old] \in Nat /\ mem_map[old] > 0 /\ old # new
  <2> HIDE DEF x
  <2>1. Refs(old) \in Nat /\ Refs(old) > 0 /\ mem_map[old] = Refs(old)
    BY <1>1, <1>3, <1>4, UsedPage
  <2> QED BY <1>2, <2>1
<1>7. TableThere(t, a)
  BY <1>1, TableKept DEF Tabled
<1>8. /\ TypesOfTasks' /\ Unmoved(t) /\ Shape(t)' /\ Tabled(t)' /\ PointsTo(t, x)' = new
      /\ \A b \in Addrs \ {a} : Kept(t, <<"pte", b>>)
  BY <1>2, <1>7, PutEntry
<1>9. KeptBut(t, {x})
  <2>1. /\ Kept(t, <<"page", 0>>) /\ Kept(t, <<"hand", 0>>) /\ Kept(t, <<"args", 0>>)
        /\ \A d \in Dirs : Kept(t, <<"dir", d>>)
    BY KeptKinds
  <2> QED BY <1>8, <2>1, PointerKinds DEF KeptBut
<1>10. ASSUME NEW p \in Pages
       PROVE  mem_map'[p] = mem_map[p] + Num(Row(t)', p) - Num(Row(t), p)
  <2>1. /\ Num(Row(t), p) \in Nat /\ Num(Row(t)', p) \in Nat
        /\ Num(Row(t)', p) = Num(Row(t), p) + Hit(PointsTo(t, x)', p) - Hit(PointsTo(t, x), p)
    <3> HIDE DEF x
    <3> QED BY <1>3, <1>9, RowOne
  <2>2. /\ Hit(PointsTo(t, x), p) = (IF p = old THEN 1 ELSE 0)
        /\ Hit(PointsTo(t, x)', p) = (IF p = new THEN 1 ELSE 0)
    BY <1>3, <1>8 DEF Hit
  <2>3. /\ mem_map'[p] = mem_map[p] + (IF p = new THEN 1 ELSE 0) - (IF p = old THEN 1 ELSE 0)
        /\ mem_map[p] \in Nat
    BY <1>1, <1>2, <1>4, <1>5, <1>6
  <2> QED BY <2>1, <2>2, <2>3
<1>11. Balanced(t) /\ MapOfPages
  <2>1. mem_map' = [p \in Pages |-> mem_map'[p]]
    BY <1>1, <1>5
  <2> QED BY <1>10, <2>1 DEF Balanced, MapOfPages
<1>12. AllTaken(t, {x})
  <2>1. mem_map'[new] = 1
    BY <1>1, <1>2, <1>4, <1>5, <1>6
  <2> QED BY <1>2, <1>8, <2>1 DEF AllTaken, Taken
<1> HIDE DEF x
<1>13. lost' = lost
  OBVIOUS
<1> QED BY <1>8, <1>9, <1>11, <1>12, <1>13, PlacesStep

-----------------------------------------------------------------------------
(* try_to_share().                                                         *)

SharedBy(t, u, a) ==
  pte' = [pte EXCEPT ![u][a] = Shared(pte[u][a]), ![t][a] = [Shared(pte[u][a]) EXCEPT !.rw = FALSE]]

\* The page P of u is put, protected, in the page table of t as well: what does
\* not depend on whether a table was made
LEMMA ShareEntry ==
  ASSUME MemInv, NEW t \in Tasks, NEW u \in Tasks, NEW a \in Addrs, CanShare(t, u, a),
         Plain(task[t]), NEW P, P = pte[u][a].page, SharedBy(t, u, a), task' = task, TableThere(t, a)
  PROVE  /\ TypesOfTasks' /\ Others(t) /\ P \in Pages
         /\ \A v \in Tasks : Shape(v)' /\ Tabled(v)'
         /\ PointsTo(t, <<"pte", a>>)' = P /\ PointsTo(u, <<"pte", a>>) = P
         /\ Protected(t, <<"pte", a>>)' /\ Protected(u, <<"pte", a>>)'
         /\ \A b \in Addrs \ {a} : Kept(t, <<"pte", b>>)
         /\ \A d \in Dirs \ {a[1]} : Kept(t, <<"dir", d>>)
         /\ Kept(t, <<"page", 0>>) /\ Kept(t, <<"hand", 0>>) /\ Kept(t, <<"args", 0>>)
<1> DEFINE e == Shared(pte[u][a])
           f == [e EXCEPT !.rw = FALSE]
           h == [pte[u] EXCEPT ![a] = e]
           g == [pte[t] EXCEPT ![a] = f]
<1>1. TypesOfTasks /\ (\A v \in Tasks : Shape(v) /\ Tabled(v))
  BY DEF MemInv, Types
<1>2. u # t /\ P # NoPage /\ task[u].state \notin {"none", "zombie"}
  BY DEF CanShare, Present
<1>3. pte[u][a] \in PTEs
  BY <1>1 DEF TypesOfTasks
<1>4. /\ e \in PTEs /\ e.page = P /\ ~e.rw
      /\ P \in Pages
  BY <1>2, <1>3 DEF Shared, PTEs, MaybePages
<1> HIDE DEF e
<1>5. f \in PTEs /\ f.page = P /\ ~f.rw
  BY <1>4 DEF PTEs
<1> HIDE DEF f
<1>6. pte' = [pte EXCEPT ![u][a] = e, ![t][a] = f]
  BY DEF SharedBy, e, f
<1>7. /\ h \in [Addrs -> PTEs] /\ h[a] = e /\ \A b \in Addrs \ {a} : h[b] = pte[u][b]
      /\ g \in [Addrs -> PTEs] /\ g[a] = f /\ \A b \in Addrs \ {a} : g[b] = pte[t][b]
  BY <1>1, <1>4, <1>5 DEF TypesOfTasks
<1>8. pte' = [pte EXCEPT ![u] = h, ![t] = g]
  <2>1. pte \in [Tasks -> [Addrs -> PTEs]]
    BY <1>1 DEF TypesOfTasks
  <2> QED BY <1>2, <1>6, <2>1
<1> HIDE DEF h, g
<1>9. /\ pte' \in [Tasks -> [Addrs -> PTEs]] /\ pte'[u] = h /\ pte'[t] = g
      /\ \A v \in Tasks \ {t, u} : pte'[v] = pte[v]
  BY <1>1, <1>2, <1>7, <1>8 DEF TypesOfTasks
<1>10. /\ pte'[t][a] = f /\ pte'[u][a] = e
       /\ \A b \in Addrs \ {a} : pte'[t][b] = pte[t][b] /\ pte'[u][b] = pte[u][b]
  BY <1>7, <1>9
<1>11. TypesOfTasks'
  BY <1>1, <1>9 DEF TypesOfTasks, TableThere
<1>12. /\ \A v \in Tasks \ {t} : dir'[v] = dir[v]
       /\ \A v \in Tasks \ {t}, b \in Addrs : /\ pte'[v][b].page = pte[v][b].page
                                              /\ pte'[v][b].rw => pte[v][b].rw
  <2>1. \A v \in Tasks \ {t} : dir'[v] = dir[v]
    BY DEF TableThere
  <2>2. ASSUME NEW v \in Tasks \ {t}, NEW b \in Addrs
        PROVE  pte'[v][b].page = pte[v][b].page /\ (pte'[v][b].rw => pte[v][b].rw)
    <3>1. CASE v = u /\ b = a
      BY <1>4, <1>10, <3>1
    <3>2. CASE v = u /\ b # a
      BY <1>10, <3>2
    <3>3. CASE v # u
      BY <1>9, <3>3
    <3> QED BY <3>1, <3>2, <3>3
  <2> QED BY <2>1, <2>2
<1>13. Others(t)
  <2>1. ASSUME NEW v \in Tasks \ {t} PROVE \A c \in Pointers : Kept(v, c)
    <3>1. /\ Kept(v, <<"page", 0>>) /\ Kept(v, <<"hand", 0>>) /\ Kept(v, <<"args", 0>>)
          /\ \A d \in Dirs : Kept(v, <<"dir", d>>)
          /\ \A b \in Addrs : Kept(v, <<"pte", b>>)
      BY <1>12, KeptKinds
    <3> QED BY <3>1, PointerKinds
  <2> QED BY <2>1 DEF Others
<1>14. ASSUME NEW v \in Tasks PROVE Shape(v)' /\ Tabled(v)'
  <2>1. CASE v = t
    <3>1. Shape(t)'
      BY PlainTask
    <3>2. ASSUME NEW b \in Addrs
          PROVE  (Present(t, b)' => ~NoTable(t, b)') /\ (pte'[t][b].rw => Present(t, b)')
      <4>1. b[1] \in Dirs
        BY DEF Addrs
      <4>2. dir'[t][b[1]] = dir[t][b[1]] \/ dir'[t][b[1]] # NoPage
        BY <4>1 DEF TableThere
      <4>3. CASE b = a
        BY <1>5, <1>10, <4>3 DEF Present, NoTable, TableThere
      <4>4. CASE b # a
        BY <1>1, <1>10, <4>2, <4>4 DEF Present, NoTable, Tabled
      <4> QED BY <4>3, <4>4
    <3> QED BY <2>1, <3>1, <3>2 DEF Tabled
  <2>2. CASE v # t
    <3>1. dir'[v] = dir[v] /\ Shape(v) /\ Tabled(v) /\ task'[v] = task[v]
      BY <1>1, <1>12, <2>2
    <3>2. \A b \in Addrs : pte'[v][b].page = pte[v][b].page /\ (pte'[v][b].rw => pte[v][b].rw)
      BY <1>12, <2>2
    <3>3. Tabled(v)'
      BY <3>1, <3>2 DEF Tabled, Present, NoTable
    <3>4. task[v].addr \in Addrs
      BY <1>1 DEF TypesOfTasks, TaskRecord
    <3>5. task[v].state \in {"none", "zombie"} => pte'[v] = pte[v]
      BY <1>2, <1>9, <2>2
    <3>6. Shape(v)'
      BY <3>1, <3>2, <3>4, <3>5 DEF Shape, Present
    <3> QED BY <3>3, <3>6
  <2> QED BY <2>1, <2>2
<1>15. /\ PointsTo(t, <<"pte", a>>)' = P /\ PointsTo(u, <<"pte", a>>) = P
       /\ Protected(t, <<"pte", a>>)' /\ Protected(u, <<"pte", a>>)'
  BY <1>4, <1>5, <1>10, PointsToIs, PointsToWillBe DEF Protected
<1>16. \A b \in Addrs \ {a} : Kept(t, <<"pte", b>>)
  BY <1>10, KeptKinds
<1>17. \A d \in Dirs \ {a[1]} : Kept(t, <<"dir", d>>)
  BY KeptKinds DEF TableThere
<1>18. Kept(t, <<"page", 0>>) /\ Kept(t, <<"hand", 0>>) /\ Kept(t, <<"args", 0>>)
  BY KeptKinds
<1> QED BY <1>4, <1>11, <1>13, <1>14, <1>15, <1>16, <1>17, <1>18

\* A page that becomes shared is protected wherever it is.
LEMMA ShareGuarded ==
  ASSUME Sharing, NEW t \in Tasks, NEW u \in Tasks, u # t, NEW x \in Pointers, Others(t),
         PointsTo(t, x)' = PointsTo(u, x), PointsTo(u, x) # NoPage,
         Protected(t, x)', Protected(u, x)',
         \A d \in Pointers \ {x} : Kept(t, d) \/ PointsTo(t, d)' # PointsTo(u, x)
  PROVE  Guarded(t, x)'
<1> SUFFICES ASSUME NEW v \in Tasks, NEW d \in Pointers, PointsTo(v, d)' = PointsTo(t, x)'
             PROVE  Protected(v, d)'
  BY DEF Guarded
<1>1. CASE (v = t /\ d = x) \/ (v = u /\ d = x)
  BY <1>1
<1>2. CASE ~(v = t /\ d = x) /\ ~(v = u /\ d = x)
  <2>1. Kept(v, d)
    BY <1>2 DEF Others
  <2>2. PointsTo(v, d) = PointsTo(u, x) /\ <<v, d>> # <<u, x>>
    BY <1>2, <2>1 DEF Kept
  <2>3. Protected(v, d)
    BY <2>2 DEF Sharing
  <2> QED BY <2>1, <2>3 DEF Kept
<1> QED BY <1>1, <1>2

ShareCounted(t, a, P) ==
  IF NoTable(t, a)
  THEN \E q \in GetFreePage(mem_map) :
         /\ mem_map' = [mem_map EXCEPT ![q] = 1, ![P] = @ + 1]
         /\ dir' = [dir EXCEPT ![t][a[1]] = q]
  ELSE mem_map' = [mem_map EXCEPT ![P] = @ + 1] /\ UNCHANGED dir

\* try_to_share() shares the page.
LEMMA ShareStep ==
  ASSUME MemInv, NEW t \in Tasks, NEW u \in Tasks, NEW a \in Addrs, ~Present(t, a),
         task[t].state \in {"user", "call", "copy", "fill"}, CanShare(t, u, a),
         NEW P, P = pte[u][a].page, SharedBy(t, u, a), task' = Resumed(t), lost' = lost,
         ShareCounted(t, a, P)
  PROVE  MemInv'
<1> DEFINE x == <<"pte", a>>
           y == <<"dir", a[1]>>
<1>1. TypesOfTasks /\ Shape(t) /\ Types /\ Counted /\ Sharing /\ mem_map \in [Pages -> Nat]
  BY DEF MemInv, Types
<1>2. Plain(task[t]) /\ task' = task /\ u # t
  BY <1>1, PlainTask DEF Awake, Resumed, CanShare
<1>3. x \in Pointers /\ y \in Pointers /\ x # y
  BY PointerKinds DEF Addrs
<1>4. PointsTo(t, x) = NoPage /\ PointsTo(t, y) = dir[t][a[1]] /\ PointsTo(u, x) = P
  BY PointsToIs DEF Present
<1>5. P \in Pages /\ P # NoPage /\ NoPage \notin Pages
  <2>1. pte[u][a] \in PTEs
    BY <1>1 DEF TypesOfTasks
  <2> QED BY <2>1, SizesAssumption DEF CanShare, Present, PTEs, MaybePages, Pages, NoPage
<1>6. mem_map[P] \in Nat /\ mem_map[P] > 0 /\ P \notin lost
  <2> HIDE DEF x
  <2> QED BY <1>1, <1>3, <1>4, <1>5, UsedPage
<1>7. CASE ~NoTable(t, a)
  <2>1. mem_map' = [mem_map EXCEPT ![P] = @ + 1] /\ dir' = dir
    BY <1>7 DEF ShareCounted
  <2>2. TableThere(t, a)
    BY <1>1, <1>7, <2>1, TableKept
  <2>3. /\ TypesOfTasks' /\ Others(t) /\ (\A v \in Tasks : Shape(v)' /\ Tabled(v)')
        /\ PointsTo(t, x)' = P /\ Protected(t, x)' /\ Protected(u, x)'
        /\ \A b \in Addrs \ {a} : Kept(t, <<"pte", b>>)
        /\ Kept(t, <<"page", 0>>) /\ Kept(t, <<"hand", 0>>) /\ Kept(t, <<"args", 0>>)
    BY <1>2, <2>2, ShareEntry
  <2>4. \A d \in Dirs : Kept(t, <<"dir", d>>)
    BY <2>1, KeptKinds
  <2>5. KeptBut(t, {x})
    BY <2>3, <2>4, PointerKinds DEF KeptBut
  <2>6. ASSUME NEW p \in Pages
        PROVE  mem_map'[p] = mem_map[p] + Num(Row(t)', p) - Num(Row(t), p)
    <3>1. /\ Num(Row(t), p) \in Nat /\ Num(Row(t)', p) \in Nat
          /\ Num(Row(t)', p) = Num(Row(t), p) + Hit(PointsTo(t, x)', p) - Hit(PointsTo(t, x), p)
      <4> HIDE DEF x, y
      <4> QED BY <1>3, <2>5, RowOne
    <3>2. Hit(PointsTo(t, x), p) = 0 /\ Hit(PointsTo(t, x)', p) = IF p = P THEN 1 ELSE 0
      BY <1>4, <1>5, <2>3 DEF Hit
    <3>3. mem_map'[p] = mem_map[p] + (IF p = P THEN 1 ELSE 0) /\ mem_map[p] \in Nat
      BY <1>1, <2>1
    <3> QED BY <3>1, <3>2, <3>3
  <2>7. Balanced(t) /\ MapOfPages
    BY <1>1, <2>1, <2>6 DEF Balanced, MapOfPages
  <2> HIDE DEF x, y
  <2>8. Guarded(t, x)'
    <3>1. \A d \in Pointers \ {x} : Kept(t, d)
      BY <2>5 DEF KeptBut
    <3> QED BY <1>1, <1>2, <1>3, <1>4, <1>5, <2>3, <3>1, ShareGuarded
  <2>9. ASSUME NEW c \in Pointers PROVE PointsTo(t, c)' \notin lost /\ Settled(t, c)
    <3>1. CASE c = x
      BY <1>6, <2>3, <2>8, <3>1 DEF Settled
    <3>2. CASE c # x
      <4>1. Kept(t, c)
        BY <2>5, <3>2 DEF KeptBut
      <4> QED BY <4>1, NotLost DEF Settled
    <3> QED BY <3>1, <3>2
  <2> QED BY <2>3, <2>7, <2>9, RowStep
<1>8. CASE NoTable(t, a)
  <2>1. PICK q \in GetFreePage(mem_map) : /\ mem_map' = [mem_map EXCEPT ![q] = 1, ![P] = @ + 1]
                                          /\ dir' = [dir EXCEPT ![t][a[1]] = q]
    BY <1>8 DEF ShareCounted
  <2>2. q \in Pages /\ mem_map[q] = 0 /\ q # P /\ q # NoPage
    BY <1>5, <1>6, <2>1, FreePage
  <2>3. q \notin lost
    BY <1>1, <2>2, FreshPage
  <2>4. TableThere(t, a) /\ dir'[t][a[1]] = q
    BY <1>1, <2>1, <2>2, TableMade, ZenonT(30)
  <2>5. /\ TypesOfTasks' /\ Others(t) /\ (\A v \in Tasks : Shape(v)' /\ Tabled(v)')
        /\ PointsTo(t, x)' = P /\ Protected(t, x)' /\ Protected(u, x)'
        /\ \A b \in Addrs \ {a} : Kept(t, <<"pte", b>>)
        /\ \A d \in Dirs \ {a[1]} : Kept(t, <<"dir", d>>)
        /\ Kept(t, <<"page", 0>>) /\ Kept(t, <<"hand", 0>>) /\ Kept(t, <<"args", 0>>)
    BY <1>2, <2>4, ShareEntry
  <2>6. KeptBut(t, {x, y})
    BY <2>5, PointerKinds DEF KeptBut
  <2>7. PointsTo(t, y)' = q /\ PointsTo(t, y) = NoPage
    BY <1>4, <1>8, <2>4, PointsToWillBe DEF NoTable
  <2>8. ASSUME NEW p \in Pages
        PROVE  mem_map'[p] = mem_map[p] + Num(Row(t)', p) - Num(Row(t), p)
    <3>1. /\ Num(Row(t), p) \in Nat /\ Num(Row(t)', p) \in Nat
          /\ Num(Row(t)', p) = Num(Row(t), p) + Hit(PointsTo(t, x)', p) + Hit(PointsTo(t, y)', p)
                                 - Hit(PointsTo(t, x), p) - Hit(PointsTo(t, y), p)
      <4> HIDE DEF x, y
      <4>1. KeptButTwo(t, x, y)
        BY <2>6 DEF KeptButTwo
      <4> QED BY <1>3, <4>1, RowTwo
    <3>2. /\ Hit(PointsTo(t, x), p) = 0 /\ Hit(PointsTo(t, y), p) = 0
          /\ Hit(PointsTo(t, x)', p) = IF p = P THEN 1 ELSE 0
          /\ Hit(PointsTo(t, y)', p) = IF p = q THEN 1 ELSE 0
      BY <1>4, <1>5, <2>5, <2>7 DEF Hit
    <3>3. /\ mem_map'[p] = mem_map[p] + (IF p = P THEN 1 ELSE 0) + (IF p = q THEN 1 ELSE 0)
          /\ mem_map[p] \in Nat
      BY <1>1, <1>5, <2>1, <2>2
    <3> QED BY <3>1, <3>2, <3>3
  <2>9. Balanced(t) /\ MapOfPages
    <3>1. mem_map' = [p \in Pages |-> mem_map'[p]]
      BY <1>1, <2>1
    <3> QED BY <2>8, <3>1 DEF Balanced, MapOfPages
  <2>10. mem_map'[q] = 1
    BY <1>1, <1>5, <2>1, <2>2
  <2> HIDE DEF x, y
  <2>11. Guarded(t, x)'
    <3>1. \A d \in Pointers \ {x} : Kept(t, d) \/ PointsTo(t, d)' # P
      BY <2>2, <2>6, <2>7 DEF KeptBut
    <3> QED BY <1>1, <1>2, <1>3, <1>4, <1>5, <2>5, <3>1, ShareGuarded
  <2>12. ASSUME NEW c \in Pointers
         PROVE  PointsTo(t, c)' \notin lost /\ (Counted' => Settled(t, c))
    <3>1. CASE c = x
      BY <1>6, <2>5, <2>11, <3>1 DEF Settled
    <3>2. CASE c = y
      BY <1>3, <2>2, <2>3, <2>7, <2>10, <3>2, AloneNext DEF Settled
    <3>3. CASE c # x /\ c # y
      <4>1. Kept(t, c)
        BY <2>6, <3>3 DEF KeptBut
      <4> QED BY <4>1, NotLost DEF Settled
    <3> QED BY <3>1, <3>2, <3>3
  <2> QED BY <2>5, <2>9, <2>12, RowStep
<1> QED BY <1>7, <1>8

-----------------------------------------------------------------------------
(* fork().                                                                 *)

\* The pages of a fork: one for the task_struct, one for each page table
Allocated(t, al) ==
  /\ al[0] \in Free
  /\ \A d \in UsedDirs(t) : al[d] \in Free /\ al[d] # al[0]
  /\ \A d, i \in UsedDirs(t) : d # i => al[d] # al[i]

Has(t, al, p) == al[0] = p \/ \E d \in UsedDirs(t) : al[d] = p

\* What copy_process() does to the task u
Forked(t, u, al) ==
  /\ mem_map' = [p \in Pages |-> IF Has(t, al, p) THEN 1 ELSE mem_map[p] + NumAddrs(pte[t], p)]
  /\ dir' = [dir EXCEPT ![u] = [d \in Dirs |-> IF d \in UsedDirs(t) THEN al[d] ELSE NoPage]]
  /\ task' = [task EXCEPT ![u] = [task[t] EXCEPT !.page = al[0]]]
  /\ pte' = [pte EXCEPT ![u] = [a \in Addrs |-> [pte[t][a] EXCEPT !.rw = FALSE]],
                        ![t] = Protect(t, UsedDirs(t))]
  /\ lost' = lost

\* The pages it gets are free and different.
LEMMA ForkAllocates ==
  ASSUME NEW t \in Tasks, NEW u \in Tasks, Fork(t, u)
  PROVE  \E al : Allocated(t, al) /\ Forked(t, u, al)
<1> DEFINE D == UsedDirs(t) \cup {0}
<1>1. PICK al \in [D -> Free] :
       /\ \A i, j \in DOMAIN al : i < j => al[i] > al[j]
       /\ mem_map' = [p \in Pages |->
            IF \E i \in DOMAIN al : al[i] = p THEN 1
            ELSE mem_map[p] + Cardinality({a \in Addrs : pte[t][a].page = p})]
       /\ dir' = [dir EXCEPT ![u] = [d \in Dirs |->
                                       IF d \in UsedDirs(t) THEN al[d] ELSE NoPage]]
       /\ task' = [task EXCEPT ![u] = [task[t] EXCEPT !.page = al[0]]]
  BY DEF Fork
<1>2. UsedDirs(t) \subseteq Nat \ {0}
  BY DirsAssumption DEF UsedDirs, Dirs
<1>3. \A i \in D : al[i] \in Free /\ al[i] \in Int
  BY <1>1, SizesAssumption DEF Free, FreeIn, Pages
<1>4. Allocated(t, al)
  <2>1. ASSUME NEW i \in D, NEW j \in D, i < j PROVE al[i] # al[j]
    BY <1>1, <1>3, <2>1
  <2>2. \A d \in UsedDirs(t) : al[d] # al[0]
    BY <1>2, <2>1
  <2>3. ASSUME NEW d \in UsedDirs(t), NEW i \in UsedDirs(t), d # i PROVE al[d] # al[i]
    <3>1. d < i \/ i < d
      BY <1>2, <2>3
    <3> QED BY <2>1, <3>1
  <2> QED BY <1>3, <2>2, <2>3 DEF Allocated
<1>5. mem_map' = [p \in Pages |-> IF Has(t, al, p) THEN 1 ELSE mem_map[p] + NumAddrs(pte[t], p)]
  <2>1. ASSUME NEW p PROVE (\E i \in DOMAIN al : al[i] = p) <=> Has(t, al, p)
    BY <1>1 DEF Has
  <2> QED BY <1>1, <2>1, Zenon DEF NumAddrs
<1>6. Forked(t, u, al)
  BY <1>1, <1>5 DEF Forked, Fork
<1> QED BY <1>4, <1>6

\* The page tables and the task_structs after the fork
LEMMA ForkTypes ==
  ASSUME MemInv, NEW t \in Tasks, NEW u \in Tasks, task[t].state = "user", task[u].state = "none",
         NEW al, Allocated(t, al), Forked(t, u, al)
  PROVE  /\ TypesOfTasks' /\ t # u
         /\ \A v \in Tasks \ {u} : task'[v] = task[v] /\ dir'[v] = dir[v]
         /\ \A v \in Tasks \ {t, u} : pte'[v] = pte[v]
         /\ \A a \in Addrs : /\ pte'[t][a].page = pte[t][a].page /\ ~pte'[t][a].rw
                             /\ pte'[u][a].page = pte[t][a].page /\ ~pte'[u][a].rw
         /\ \A d \in UsedDirs(t) : dir'[u][d] = al[d] /\ al[d] \in Pages
         /\ \A d \in Dirs \ UsedDirs(t) : dir'[u][d] = NoPage
         /\ task'[u].page = al[0] /\ al[0] \in Pages /\ Plain(task'[u])
         /\ task'[u].hand = NoPage /\ task'[u].args = NoPage
<1> DEFINE D == [d \in Dirs |-> IF d \in UsedDirs(t) THEN al[d] ELSE NoPage]
           k == [task[t] EXCEPT !.page = al[0]]
           g == [a \in Addrs |-> [pte[t][a] EXCEPT !.rw = FALSE]]
           h == Protect(t, UsedDirs(t))
<1>1. TypesOfTasks /\ Shape(t) /\ Tabled(t) /\ t # u
  BY DEF MemInv, Types
<1>2. al[0] \in Pages /\ \A d \in UsedDirs(t) : al[d] \in Pages
  BY DEF Allocated, Free, FreeIn
<1>3. task[t] \in TaskRecord /\ Plain(task[t])
  BY <1>1, PlainTask DEF TypesOfTasks, Awake
<1>4. NoPage \notin Pages
  BY SizesAssumption DEF Pages, NoPage
<1>5. /\ dir' = [dir EXCEPT ![u] = D] /\ task' = [task EXCEPT ![u] = k]
      /\ pte' = [pte EXCEPT ![u] = g, ![t] = h]
  BY DEF Forked
<1>6. D \in [Dirs -> MaybePages]
  BY <1>2 DEF MaybePages
<1>7. /\ k \in TaskRecord /\ k.page = al[0] /\ k.hand = task[t].hand /\ k.args = task[t].args
      /\ k.state = "user"
  BY <1>2, <1>3 DEF TaskRecord, MaybePages
<1>8. ASSUME NEW a \in Addrs
      PROVE  LET e == [pte[t][a] EXCEPT !.rw = FALSE]
             IN  e \in PTEs /\ e.page = pte[t][a].page /\ ~e.rw /\ pte[t][a] \in PTEs
  <2>1. pte[t][a] \in PTEs
    BY <1>1 DEF TypesOfTasks
  <2> QED BY <2>1 DEF PTEs
<1>9. g \in [Addrs -> PTEs] /\ \A a \in Addrs : g[a].page = pte[t][a].page /\ ~g[a].rw
  BY <1>8
<1>10. h \in [Addrs -> PTEs] /\ \A a \in Addrs : h[a].page = pte[t][a].page /\ ~h[a].rw
  <2>1. ASSUME NEW a \in Addrs
        PROVE  h[a] \in PTEs /\ h[a].page = pte[t][a].page /\ ~h[a].rw
    <3>1. CASE a[1] \in UsedDirs(t)
      <4>1. h[a] = [pte[t][a] EXCEPT !.rw = FALSE]
        BY <3>1 DEF Protect
      <4> QED BY <1>8, <4>1
    <3>2. CASE a[1] \notin UsedDirs(t)
      <4>1. h[a] = pte[t][a]
        BY <3>2 DEF Protect
      <4>2. ~pte[t][a].rw
        BY <1>1, <3>2 DEF Tabled, NoTable, UsedDirs, Addrs
      <4> QED BY <1>8, <4>1, <4>2
    <3> QED BY <3>1, <3>2
  <2> QED BY <2>1 DEF Protect
<1>11. (\A d \in UsedDirs(t) : D[d] = al[d]) /\ (\A d \in Dirs \ UsedDirs(t) : D[d] = NoPage)
  BY DEF UsedDirs
<1> HIDE DEF D, k, g, h
<1>12. /\ dir' \in [Tasks -> [Dirs -> MaybePages]] /\ dir'[u] = D
       /\ task' \in [Tasks -> TaskRecord] /\ task'[u] = k
       /\ \A v \in Tasks \ {u} : task'[v] = task[v] /\ dir'[v] = dir[v]
  BY <1>1, <1>5, <1>6, <1>7 DEF TypesOfTasks
<1>13. /\ pte' \in [Tasks -> [Addrs -> PTEs]] /\ pte'[u] = g /\ pte'[t] = h
       /\ \A v \in Tasks \ {t, u} : pte'[v] = pte[v]
  BY <1>1, <1>5, <1>9, <1>10 DEF TypesOfTasks
<1>14. TypesOfTasks'
  BY <1>12, <1>13 DEF TypesOfTasks
<1>15. Plain(k) /\ k.hand = NoPage /\ k.args = NoPage
  BY <1>2, <1>3, <1>4, <1>7 DEF Plain, Awake
<1>16. \A a \in Addrs : /\ pte'[t][a].page = pte[t][a].page /\ ~pte'[t][a].rw
                        /\ pte'[u][a].page = pte[t][a].page /\ ~pte'[u][a].rw
  BY <1>9, <1>10, <1>13
<1> QED BY <1>1, <1>2, <1>7, <1>11, <1>12, <1>13, <1>14, <1>15, <1>16

\* copy_process(): the child refers to every page of its parent.
LEMMA ForkStep ==
  ASSUME MemInv, NEW t \in Tasks, NEW u \in Tasks, Fork(t, u)
  PROVE  MemInv'
<1>1. TypesOfTasks /\ Types /\ Counted /\ Sharing /\ mem_map \in [Pages -> Nat]
  BY DEF MemInv, Types
<1>2. task[t].state = "user" /\ task[u].state = "none"
  BY DEF Fork
<1>3. PICK al : Allocated(t, al) /\ Forked(t, u, al)
  BY ForkAllocates
<1>4. /\ TypesOfTasks' /\ t # u
      /\ \A v \in Tasks \ {u} : task'[v] = task[v] /\ dir'[v] = dir[v]
      /\ \A v \in Tasks \ {t, u} : pte'[v] = pte[v]
      /\ \A a \in Addrs : /\ pte'[t][a].page = pte[t][a].page /\ ~pte'[t][a].rw
                          /\ pte'[u][a].page = pte[t][a].page /\ ~pte'[u][a].rw
      /\ \A d \in UsedDirs(t) : dir'[u][d] = al[d] /\ al[d] \in Pages
      /\ \A d \in Dirs \ UsedDirs(t) : dir'[u][d] = NoPage
      /\ task'[u].page = al[0] /\ al[0] \in Pages /\ Plain(task'[u])
      /\ task'[u].hand = NoPage /\ task'[u].args = NoPage
  BY <1>2, <1>3, ForkTypes
<1>5. NoPage \notin Pages
  BY SizesAssumption DEF Pages, NoPage
<1>6. /\ lost' = lost
      /\ mem_map' = [p \in Pages |-> IF Has(t, al, p) THEN 1
                                     ELSE mem_map[p] + NumAddrs(pte[t], p)]
  BY <1>3 DEF Forked
<1>7. ASSUME NEW p \in Pages, Has(t, al, p)
      PROVE  /\ mem_map[p] = 0 /\ p \notin lost /\ mem_map'[p] = 1
             /\ \A v \in Tasks, c \in Pointers : PointsTo(v, c) # p
  <2>1. mem_map[p] = 0
    BY <1>3, <1>7 DEF Has, Allocated, Free, FreeIn
  <2> QED BY <1>1, <1>6, <1>7, <2>1, FreshPage
<1>8. Others(u)
  <2>1. ASSUME NEW v \in Tasks \ {u} PROVE \A c \in Pointers : Kept(v, c)
    <3>1. CASE v = t
      <4>1. /\ Kept(t, <<"page", 0>>) /\ Kept(t, <<"hand", 0>>) /\ Kept(t, <<"args", 0>>)
            /\ \A d \in Dirs : Kept(t, <<"dir", d>>)
            /\ \A a \in Addrs : Kept(t, <<"pte", a>>)
        BY <1>4, KeptKinds
      <4> QED BY <3>1, <4>1, PointerKinds
    <3>2. CASE v # t
      BY <1>4, <3>2, KeptAll
    <3> QED BY <3>1, <3>2
  <2> QED BY <2>1 DEF Others
<1>9. ASSUME NEW v \in Tasks PROVE Shape(v)' /\ Tabled(v)'
  <2>1. CASE v = u
    <3>1. ASSUME NEW a \in Addrs PROVE Present(u, a)' => ~NoTable(u, a)'
      <4>1. Present(u, a)' => Present(t, a)
        BY <1>4 DEF Present
      <4>2. Present(t, a) => a[1] \in UsedDirs(t)
        BY DEF MemInv, Tabled, NoTable, UsedDirs, Addrs
      <4>3. a[1] \in UsedDirs(t) => dir'[u][a[1]] \in Pages
        BY <1>4
      <4> QED BY <1>5, <4>1, <4>2, <4>3 DEF NoTable
    <3> QED BY <1>4, <2>1, <3>1, PlainTask DEF Tabled
  <2>2. CASE v = t
    <3>1. Plain(task'[t]) /\ Tabled(t)
      BY <1>2, <1>4, PlainTask DEF MemInv, Awake
    <3>2. Tabled(t)'
      BY <1>4, <3>1 DEF Tabled, Present, NoTable
    <3> QED BY <2>2, <3>1, <3>2, PlainTask
  <2>3. CASE v # u /\ v # t
    <3>1. task'[v] = task[v] /\ dir'[v] = dir[v] /\ pte'[v] = pte[v] /\ Shape(v) /\ Tabled(v)
      BY <1>4, <2>3 DEF MemInv
    <3> QED BY <3>1 DEF Shape, Tabled, Present, NoTable
  <2> QED BY <2>1, <2>2, <2>3
<1>10. ASSUME NEW p \in Pages
       PROVE  mem_map'[p] = mem_map[p] + Num(Row(u)', p) - Num(Row(u), p)
  <2> DEFINE na == NumAddrs(pte[t], p)
             nd == NumDirs(dir'[u], p)
             h == Hit(al[0], p)
  <2>1. Num(Row(u), p) = 0
    <3>1. /\ task[u].page = NoPage /\ task[u].hand = NoPage /\ task[u].args = NoPage
          /\ (\A d \in Dirs : dir[u][d] = NoPage) /\ (\A a \in Addrs : pte[u][a].page = NoPage)
      BY <1>2 DEF MemInv, Shape, NoPte
    <3>2. \A c \in Pointers : Row(u)[c] # p
      <4>1. \A c \in Pointers : PointsTo(u, c) = NoPage
        BY <3>1, PointerKinds, PointsToIs
      <4> QED BY <1>5, <4>1, RowsAre
    <3> QED BY <3>2, NumIsZero
  <2>2. nd \in Nat /\ na \in Nat /\ h \in Nat /\ Num(Row(u)', p) = h + nd + na
    <3>1. Hit(NoPage, p) = 0 /\ h \in Nat
      BY <1>5 DEF Hit
    <3>2. NumAddrs(pte'[u], p) = na
      <4>1. {a \in Addrs : pte'[u][a].page = p} = {a \in Addrs : pte[t][a].page = p}
        BY <1>4
      <4> QED BY <4>1 DEF NumAddrs
    <3>3. /\ nd \in Nat /\ NumAddrs(pte'[u], p) \in Nat
          /\ Num(Row(u)', p) = Hit(task'[u].page, p) + Hit(task'[u].hand, p)
                                 + Hit(task'[u].args, p) + nd + NumAddrs(pte'[u], p)
      BY RowAfter
    <3>4. Hit(task'[u].page, p) = h /\ Hit(task'[u].hand, p) = 0 /\ Hit(task'[u].args, p) = 0
      BY <1>4, <3>1
    <3> HIDE DEF nd, na, h
    <3> QED BY <3>1, <3>2, <3>3, <3>4
  <2>3. mem_map[p] \in Nat
    BY <1>1
  <2>4. CASE ~Has(t, al, p)
    <3>1. h = 0
      BY <2>4 DEF Has, Hit
    <3>2. \A d \in Dirs : dir'[u][d] # p
      BY <1>4, <1>5, <2>4 DEF Has
    <3>3. nd = 0
      BY <3>2, NoEntries
    <3>4. mem_map'[p] = mem_map[p] + na
      BY <1>6, <2>4
    <3> HIDE DEF nd, na, h
    <3> QED BY <2>1, <2>2, <2>3, <3>1, <3>3, <3>4
  <2>5. CASE Has(t, al, p)
    <3>1. mem_map[p] = 0 /\ mem_map'[p] = 1
      BY <1>7, <2>5
    <3>2. na = 0
      <4>1. \A a \in Addrs : pte[t][a].page # p
        BY <1>7, <2>5, PointerKinds, PointsToIs, ZenonT(30)
      <4> QED BY <4>1, NoEntries
    <3>3. h + nd = 1
      <4>1. CASE al[0] = p
        <5>1. \A d \in Dirs : dir'[u][d] # p
          BY <1>3, <1>4, <1>5, <4>1 DEF Allocated
        <5>2. nd = 0
          BY <5>1, NoEntries
        <5> QED BY <4>1, <5>2 DEF Hit
      <4>2. CASE al[0] # p
        <5>1. PICK d \in UsedDirs(t) : al[d] = p
          BY <2>5, <4>2 DEF Has
        <5>2. d \in Dirs
          BY DEF UsedDirs
        <5>3. {i \in Dirs : dir'[u][i] = p} = {d}
          BY <1>3, <1>4, <1>5, <5>1, <5>2 DEF Allocated
        <5>4. nd = 1
          BY <5>3, FS_Singleton DEF NumDirs
        <5> QED BY <4>2, <5>4 DEF Hit
      <4> QED BY <4>1, <4>2
    <3> HIDE DEF nd, na, h
    <3> QED BY <2>1, <2>2, <3>1, <3>2, <3>3
  <2> QED BY <2>4, <2>5
<1>11. Balanced(u) /\ MapOfPages
  BY <1>6, <1>10 DEF Balanced, MapOfPages
<1>12. ASSUME NEW c \in Pointers, \/ PointsTo(u, c)' = NoPage
                                  \/ PointsTo(u, c)' \in Pages /\ Has(t, al, PointsTo(u, c)')
       PROVE  PointsTo(u, c)' \notin lost /\ (Counted' => Settled(u, c))
  <2>1. CASE PointsTo(u, c)' = NoPage
    BY <1>1, <1>5, <2>1 DEF Settled, Types
  <2>2. CASE PointsTo(u, c)' \in Pages /\ Has(t, al, PointsTo(u, c)')
    <3>1. PointsTo(u, c)' \notin lost /\ mem_map'[PointsTo(u, c)'] = 1
      BY <1>7, <2>2
    <3> QED BY <1>6, <2>2, <3>1, AloneNext DEF Settled
  <2> QED BY <1>12, <2>1, <2>2
<1>13. ASSUME NEW a \in Addrs, pte[t][a].page # NoPage
       PROVE  PointsTo(u, <<"pte", a>>)' \notin lost /\ Settled(u, <<"pte", a>>)
  <2> DEFINE x == <<"pte", a>>
  <2>1. x \in Pointers /\ PointsTo(t, x) = pte[t][a].page /\ PointsTo(u, x)' = PointsTo(t, x)
    BY <1>4, PointerKinds, PointsToIs, PointsToWillBe
  <2>2. PointsTo(t, x) \in Pages
    <3>1. pte[t][a] \in PTEs
      BY <1>1 DEF TypesOfTasks
    <3> QED BY <1>13, <2>1, <3>1 DEF PTEs, MaybePages
  <2>3. PointsTo(t, x) \notin lost
    <3> HIDE DEF x
    <3> QED BY <1>1, <2>1, <2>2, UsedPage
  <2>4. Protected(t, x)'
    BY <1>4 DEF Protected
  <2>5. ASSUME NEW b \in Addrs PROVE Protected(u, <<"pte", b>>)'
    BY <1>4 DEF Protected
  <2>6. ASSUME NEW v \in Tasks, NEW d \in Pointers, PointsTo(v, d)' = PointsTo(t, x)
        PROVE  Protected(v, d)'
    <3>1. CASE v = u
      <4>1. ASSUME NEW p \in Pages, Has(t, al, p) PROVE p # PointsTo(t, x)
        BY <1>7, <2>1, <4>1
      <4>2. PointsTo(u, <<"page", 0>>)' # PointsTo(t, x)
        BY <1>4, <4>1, PointsToWillBe DEF Has
      <4>3. /\ PointsTo(u, <<"hand", 0>>)' # PointsTo(t, x)
            /\ PointsTo(u, <<"args", 0>>)' # PointsTo(t, x)
        BY <1>4, <1>5, <2>2, PointsToWillBe
      <4>4. ASSUME NEW i \in Dirs PROVE PointsTo(u, <<"dir", i>>)' # PointsTo(t, x)
        <5>1. CASE i \in UsedDirs(t)
          BY <1>4, <4>1, <5>1, PointsToWillBe DEF Has
        <5>2. CASE i \notin UsedDirs(t)
          BY <1>4, <1>5, <2>2, <5>2, PointsToWillBe
        <5> QED BY <5>1, <5>2
      <4> HIDE DEF x
      <4> QED BY <2>5, <2>6, <3>1, <4>2, <4>3, <4>4, PointerKinds
    <3>2. CASE v = t /\ d = x
      BY <2>4, <3>2
    <3>3. CASE v # u /\ ~(v = t /\ d = x)
      <4> HIDE DEF x
      <4>1. Kept(v, d)
        BY <1>8, <3>3 DEF Others
      <4>2. PointsTo(v, d) = PointsTo(t, x) /\ PointsTo(t, x) # NoPage /\ <<v, d>> # <<t, x>>
        BY <1>5, <2>2, <2>6, <3>3, <4>1 DEF Kept
      <4>3. Protected(v, d)
        BY <1>1, <2>1, <4>2 DEF Sharing
      <4> QED BY <4>1, <4>3 DEF Kept
    <3> QED BY <3>1, <3>2, <3>3
  <2> HIDE DEF x
  <2>7. Guarded(u, x)'
    BY <2>1, <2>6 DEF Guarded
  <2> QED BY <2>1, <2>3, <2>7 DEF Settled, x
<1>14. ASSUME NEW c \in Pointers PROVE PointsTo(u, c)' \notin lost /\ (Counted' => Settled(u, c))
  <2>1. CASE c = <<"page", 0>> \/ c = <<"hand", 0>> \/ c = <<"args", 0>>
    <3>1. PointsTo(u, c)' = NoPage \/ (PointsTo(u, c)' \in Pages /\ Has(t, al, PointsTo(u, c)'))
      BY <1>4, <2>1, PointsToWillBe DEF Has
    <3> QED BY <1>12, <3>1
  <2>2. ASSUME NEW d \in Dirs, c = <<"dir", d>>
        PROVE  PointsTo(u, c)' = NoPage \/ (PointsTo(u, c)' \in Pages /\ Has(t, al, PointsTo(u, c)'))
    <3>1. PointsTo(u, c)' = dir'[u][d]
      BY <2>2, PointsToWillBe
    <3> QED BY <1>4, <3>1 DEF Has
  <2>3. ASSUME NEW a \in Addrs, c = <<"pte", a>>
        PROVE  PointsTo(u, c)' \notin lost /\ (Counted' => Settled(u, c))
    <3>1. CASE pte[t][a].page # NoPage
      BY <1>13, <2>3, <3>1
    <3>2. CASE pte[t][a].page = NoPage
      <4>1. PointsTo(u, c)' = NoPage
        BY <1>4, <2>3, <3>2, PointsToWillBe
      <4> QED BY <1>12, <4>1
    <3> QED BY <3>1, <3>2
  <2> QED BY <1>12, <2>1, <2>2, <2>3, PointerKinds
<1> QED BY <1>4, <1>6, <1>8, <1>9, <1>11, <1>14, RowStep

-----------------------------------------------------------------------------
(* Every step.                                                             *)

\* do_exit() of a task that has no page in its hand
LEMMA PlainExit ==
  ASSUME MemInv, NEW t \in Tasks, Plain(task[t]), DoExit(t, NoPage)
  PROVE  MemInv'
<1>1. task[t].hand = NoPage /\ task[t].state \notin {"none", "zombie"}
  BY DEF Plain, Awake
<1>2. DoExit(t, task[t].hand)
  BY <1>1 DEF DoExit
<1> QED BY <1>1, <1>2, ExitStep

\* get_empty_page()
LEMMA EmptyPageStep ==
  ASSUME MemInv, NEW t \in Tasks, NEW a \in Addrs, ~Present(t, a), Plain(task[t]),
         task[t].state \in {"user", "call", "copy", "fill"}, GetEmptyPage(t, a)
  PROVE  MemInv'
<1>1. CASE DoExit(t, NoPage)
  BY <1>1, PlainExit
<1>2. CASE ~DoExit(t, NoPage)
  <2>1. PICK page \in GetFreePage(mem_map) :
          /\ PutPage(t, a, page, [mem_map EXCEPT ![page] = 1])
          /\ task' = Resumed(t) /\ UNCHANGED history
    BY <1>2 DEF GetEmptyPage
  <2>2. lost' = lost
    BY <2>1 DEF history
  <2> QED BY <2>1, <2>2, GetEmptyStep
<1> QED BY <1>1, <1>2

\* do_no_page(), wherever the fault was
LEMMA NoPageStep ==
  ASSUME MemInv, NEW t \in Tasks, NEW a \in Addrs,
         task[t].state \in {"user", "call", "copy", "fill"}, DoNoPage(t, a)
  PROVE  MemInv'
<1>1. Plain(task[t]) /\ ~Present(t, a)
  BY PlainTask DEF MemInv, Awake, DoNoPage
<1>2. CASE DoExit(t, NoPage)
  BY <1>1, <1>2, PlainExit
<1>3. CASE GetEmptyPage(t, a)
  BY <1>1, <1>3, EmptyPageStep
<1>4. ASSUME NEW u \in Tasks, CanShare(t, u, a), TryToShare(t, u, a), ~DoExit(t, NoPage)
      PROVE  MemInv'
  <2>1. \E P : P = pte[u][a].page
    OBVIOUS
  <2>2. PICK P : P = pte[u][a].page
    BY <2>1
  <2>3. Shared(pte[u][a]).page = P
    <3>1. pte[u][a] \in PTEs
      BY DEF MemInv, Types, TypesOfTasks
    <3> QED BY <2>2, <3>1 DEF Shared, PTEs
  <2>4. SharedBy(t, u, a) /\ task' = Resumed(t) /\ lost' = lost /\ ShareCounted(t, a, P)
    <3>1. /\ IF NoTable(t, a)
             THEN \E q \in GetFreePage(mem_map) :
               /\ mem_map' = [mem_map EXCEPT ![q] = 1, ![Shared(pte[u][a]).page] = @ + 1]
               /\ dir' = [dir EXCEPT ![t][a[1]] = q]
             ELSE /\ mem_map' = [mem_map EXCEPT ![Shared(pte[u][a]).page] = @ + 1]
                  /\ UNCHANGED dir
          /\ SharedBy(t, u, a) /\ task' = Resumed(t) /\ lost' = lost
      BY <1>4 DEF TryToShare, SharedBy
    <3> QED BY <2>3, <3>1 DEF ShareCounted
  <2> QED BY <1>1, <1>4, <2>2, <2>4, ShareStep
<1>5. ASSUME NEW page \in GetFreePage(mem_map), mem_map' = [mem_map EXCEPT ![page] = 1],
             GoesToLoad(t, a, page), UNCHANGED <<dir, pte, history>>
      PROVE  MemInv'
  BY <1>1, <1>5, LoadStep DEF history
<1> QED
  <2>1. \/ GetEmptyPage(t, a)
        \/ \E u \in Tasks : CanShare(t, u, a) /\ TryToShare(t, u, a)
        \/ \E page \in GetFreePage(mem_map) :
             /\ mem_map' = [mem_map EXCEPT ![page] = 1]
             /\ GoesToLoad(t, a, page)
             /\ UNCHANGED <<dir, pte, history>>
        \/ DoExit(t, NoPage)
    BY DEF DoNoPage, GoesToLoad
  <2> QED BY <1>2, <1>3, <1>4, <1>5, <2>1

\* un_wp_page(), in user mode or in write_verify()
LEMMA UnWpStep ==
  ASSUME MemInv, NEW t \in Tasks, NEW a \in Addrs, Present(t, a), task[t].state = "user",
         NEW k \in TaskRecord, k.page = task[t].page, k.hand = task[t].hand,
         k.args = task[t].args, k.state \in {"user", "call"},
         NEW T, T = [task EXCEPT ![t] = k], UnWpPage(t, a, T)
  PROVE  MemInv'
<1>1. Plain(task[t])
  BY PlainTask DEF MemInv, Awake
<1>2. /\ k.state \in Awake /\ task[t].state \in Awake
      /\ k.state \in {"copy", "close"} <=> task[t].state \in {"copy", "close"}
  BY DEF Awake
<1>3. CASE DoExit(t, NoPage)
  BY <1>1, <1>3, PlainExit
<1>4. CASE /\ mem_map[pte[t][a].page] = 1 /\ pte' = [pte EXCEPT ![t][a].rw = TRUE]
           /\ task' = T /\ UNCHANGED <<mem_map, dir, data, history>>
  <2>1. UNCHANGED <<mem_map, dir, lost>> /\ task' = [task EXCEPT ![t] = k]
    BY <1>4 DEF history
  <2> QED BY <1>2, <1>4, <2>1, UnprotectStep
<1>5. ASSUME NEW new \in GetFreePage(mem_map),
             mem_map' = [mem_map EXCEPT ![new] = 1, ![pte[t][a].page] = @ - 1],
             pte' = [pte EXCEPT ![t][a] = [page |-> new, rw |-> TRUE, dirty |-> FALSE]],
             task' = T, UNCHANGED <<dir, view, lost>>
      PROVE  MemInv'
  <2>1. task \in [Tasks -> TaskRecord]
    BY DEF MemInv, Types, TypesOfTasks
  <2>2. /\ task' \in [Tasks -> TaskRecord] /\ task'[t] = k
        /\ \A u \in Tasks \ {t} : task'[u] = task[u]
    BY <1>5, <2>1
  <2>3. Plain(task'[t])
    BY <1>1, <2>2 DEF Plain, Awake
  <2>4. task'[t].page = task[t].page /\ task'[t].hand = task[t].hand /\ task'[t].args = task[t].args
    BY <2>2
  <2> QED BY <1>5, <2>2, <2>3, <2>4, CopyPageStep
<1> QED BY <1>3, <1>4, <1>5 DEF UnWpPage

\* The first program has a task_struct, a page table and a page of its own.
LEMMA MemInit == Init => MemInv
<1> SUFFICES ASSUME Init PROVE MemInv
  OBVIOUS
<1>1. PICK n \in Sizes :
    /\ mem_map = [p \in Pages |-> IF p >= n - 2 THEN 1 ELSE 0]
    /\ dir = [t \in Tasks |-> [d \in Dirs |->
               IF t = First /\ d = Stack[1] THEN n - 2 ELSE NoPage]]
    /\ pte = [t \in Tasks |-> [a \in Addrs |->
               IF t = First /\ a = Stack
               THEN [page |-> n - 1, rw |-> TRUE, dirty |-> FALSE] ELSE NoPte]]
    /\ task = [t \in Tasks |->
               IF t = First THEN [NoTask EXCEPT !.state = "user", !.page = n] ELSE NoTask]
    /\ lost = n + 1 .. NrPages
  BY DEF Init
<1> DEFINE k == [NoTask EXCEPT !.state = "user", !.page = n]
           e == [page |-> n - 1, rw |-> TRUE, dirty |-> FALSE]
           x == <<"page", 0>>
           y == <<"dir", Stack[1]>>
           z == <<"pte", Stack>>
<1>2. /\ n \in Nat /\ n >= 3 /\ n <= NrPages /\ NrPages \in Nat /\ NoPage = 0
      /\ n \in Pages /\ n - 1 \in Pages /\ n - 2 \in Pages
  BY SizesAssumption DEF Pages, NoPage
<1>3. First \in Tasks /\ Stack \in Addrs /\ Stack[1] \in Dirs
  BY FirstAssumption, AddrsAssumption DEF Addrs
<1>4. /\ NoTask \in TaskRecord /\ NoTask.page = NoPage /\ NoTask.hand = NoPage
      /\ NoTask.args = NoPage /\ NoTask.state = "none"
  BY AddrsAssumption, ExecutablesAssumption DEF TaskRecord, NoTask, MaybePages
<1>5. k \in TaskRecord /\ k.page = n /\ k.hand = NoPage /\ k.args = NoPage /\ k.state = "user"
  BY <1>2, <1>4 DEF TaskRecord, MaybePages
<1>6. /\ e \in PTEs /\ e.page = n - 1
      /\ NoPte \in PTEs /\ NoPte.page = NoPage /\ ~NoPte.rw
  BY <1>2 DEF PTEs, NoPte, MaybePages
<1>7. /\ task[First] = k /\ dir[First][Stack[1]] = n - 2 /\ pte[First][Stack] = e
      /\ \A d \in Dirs \ {Stack[1]} : dir[First][d] = NoPage
      /\ \A a \in Addrs \ {Stack} : pte[First][a] = NoPte
      /\ \A t \in Tasks \ {First} : task[t] = NoTask
      /\ \A t \in Tasks \ {First}, d \in Dirs : dir[t][d] = NoPage
      /\ \A t \in Tasks \ {First}, a \in Addrs : pte[t][a] = NoPte
  BY <1>1, <1>3
<1>8. Types
  <2>1. mem_map \in [Pages -> Nat] /\ lost \subseteq Pages
    BY <1>1, <1>2 DEF Pages
  <2>2. dir \in [Tasks -> [Dirs -> MaybePages]]
    BY <1>1, <1>2 DEF MaybePages
  <2>3. task \in [Tasks -> TaskRecord]
    BY <1>1, <1>4, <1>5
  <2>4. pte \in [Tasks -> [Addrs -> PTEs]]
    <3> HIDE DEF e
    <3>1. pte = [t \in Tasks |-> [a \in Addrs |-> IF t = First /\ a = Stack THEN e ELSE NoPte]]
      BY <1>1 DEF e
    <3> QED BY <1>6, <3>1
  <2> QED BY <2>1, <2>2, <2>3, <2>4 DEF Types, TypesOfTasks
<1> HIDE DEF k, e
<1>9. ASSUME NEW t \in Tasks PROVE Shape(t) /\ Tabled(t)
  <2>1. CASE t = First
    <3>1. Shape(First)
      BY <1>2, <1>5, <1>7 DEF Shape
    <3>2. Tabled(First)
      BY <1>2, <1>6, <1>7 DEF Tabled, Present, NoTable
    <3> QED BY <2>1, <3>1, <3>2
  <2>2. CASE t # First
    BY <1>4, <1>6, <1>7, <2>2 DEF Shape, Tabled, Present, NoTable
  <2> QED BY <2>1, <2>2
<1>10. /\ PointsTo(First, x) = n /\ PointsTo(First, y) = n - 2 /\ PointsTo(First, z) = n - 1
       /\ x \in Pointers /\ y \in Pointers /\ z \in Pointers
  BY <1>3, <1>5, <1>6, <1>7, PointerKinds, PointsToIs
<1>11. ASSUME NEW t \in Tasks, NEW c \in Pointers, PointsTo(t, c) # NoPage
       PROVE  t = First /\ (c = x \/ c = y \/ c = z)
  <2>1. CASE t = First
    <3>1. /\ PointsTo(First, <<"hand", 0>>) = NoPage /\ PointsTo(First, <<"args", 0>>) = NoPage
          /\ \A d \in Dirs \ {Stack[1]} : PointsTo(First, <<"dir", d>>) = NoPage
          /\ \A a \in Addrs \ {Stack} : PointsTo(First, <<"pte", a>>) = NoPage
      BY <1>5, <1>6, <1>7, PointsToIs
    <3> QED BY <1>11, <2>1, <3>1, PointerKinds
  <2>2. CASE t # First
    <3>1. /\ PointsTo(t, x) = NoPage /\ PointsTo(t, <<"hand", 0>>) = NoPage
          /\ PointsTo(t, <<"args", 0>>) = NoPage
          /\ \A d \in Dirs : PointsTo(t, <<"dir", d>>) = NoPage
          /\ \A a \in Addrs : PointsTo(t, <<"pte", a>>) = NoPage
      BY <1>4, <1>6, <1>7, <2>2, PointsToIs
    <3> QED BY <1>11, <3>1, PointerKinds
  <2> QED BY <2>1, <2>2
<1> HIDE DEF x, y, z
<1>12. Sharing
  BY <1>2, <1>10, <1>11 DEF Sharing
<1>13. Alone(First, x) /\ Alone(First, y) /\ Alone(First, z)
  BY <1>2, <1>10, <1>11 DEF Alone
<1>14. Refs(n) = 1 /\ Refs(n - 2) = 1 /\ Refs(n - 1) = 1
  <2>1. /\ Refs(PointsTo(First, x)) = 1 /\ Refs(PointsTo(First, y)) = 1
        /\ Refs(PointsTo(First, z)) = 1
    BY <1>3, <1>8, <1>10, <1>13, OneReference
  <2> QED BY <1>10, <2>1
<1>15. ASSUME NEW p \in Pages, p # n, p # n - 1, p # n - 2 PROVE Refs(p) = 0
  <2>1. \A t \in Tasks, c \in Pointers : PointsTo(t, c) # p
    <3>1. p # NoPage
      BY <1>2 DEF Pages
    <3> QED BY <1>10, <1>11, <1>15, <3>1
  <2>2. {r \in Tasks \X Pointers : PointsTo(r[1], r[2]) = p} = {}
    BY <2>1
  <2> QED BY <2>2, FS_EmptySet DEF Refs
<1>16. Counted
  <2> SUFFICES ASSUME NEW p \in Pages
               PROVE  /\ p \in lost => Refs(p) = 0
                      /\ mem_map[p] = IF p \in lost THEN 1 ELSE Refs(p)
    BY DEF Counted
  <2>1. p \in Nat /\ p <= NrPages /\ (p \in lost <=> p > n)
    BY <1>1, <1>2 DEF Pages
  <2>2. mem_map[p] = IF p >= n - 2 THEN 1 ELSE 0
    BY <1>1
  <2>3. CASE p = n \/ p = n - 1 \/ p = n - 2
    BY <1>2, <1>14, <2>1, <2>2, <2>3
  <2>4. CASE ~(p = n \/ p = n - 1 \/ p = n - 2)
    <3>1. Refs(p) = 0
      BY <1>15, <2>4
    <3> QED BY <1>2, <2>1, <2>2, <2>4, <3>1
  <2> QED BY <2>3, <2>4
<1> QED BY <1>8, <1>9, <1>12, <1>16 DEF MemInv

\* Every action keeps the invariant.
LEMMA MemNext == MemInv /\ [Next]_vars => MemInv'
<1> SUFFICES ASSUME MemInv, [Next]_vars PROVE MemInv'
  OBVIOUS
<1>1. TypesOfTasks /\ \A t \in Tasks : task[t] \in TaskRecord /\ task[t].addr \in Addrs
  BY DEF MemInv, Types, TypesOfTasks, TaskRecord
<1>2. \A t \in Tasks : Shape(t)
  BY DEF MemInv
<1>3. ASSUME NEW t \in Tasks, NEW a \in Addrs, PageFault(t, a) \/ CopyFault(t, a) PROVE MemInv'
  BY <1>3, NoPageStep DEF PageFault, CopyFault
<1>4. ASSUME NEW t \in Tasks, KernelFault(t) \/ ClearFault(t) PROVE MemInv'
  <2>1. PICK a \in Addrs : a = task[t].addr
    BY <1>1
  <2>2. DoNoPage(t, a) /\ task[t].state \in {"user", "call", "copy", "fill"}
    BY <1>4, <2>1 DEF KernelFault, ClearFault
  <2> QED BY <2>2, NoPageStep
<1>5. ASSUME NEW t \in Tasks, NEW a \in Addrs, DoWpPage(t, a) PROVE MemInv'
  <2>1. \E T, k : T = task /\ k = task[t]
    OBVIOUS
  <2>2. PICK T, k : T = task /\ k = task[t]
    BY <2>1
  <2>3. UnWpPage(t, a, T) /\ Present(t, a) /\ task[t].state = "user"
    BY <1>5, <2>2 DEF DoWpPage
  <2>4. T = [task EXCEPT ![t] = k] /\ k \in TaskRecord
    BY <1>1, <2>2 DEF TypesOfTasks
  <2>5. /\ k.page = task[t].page /\ k.hand = task[t].hand /\ k.args = task[t].args
        /\ k.state \in {"user", "call"}
    BY <2>2, <2>3
  <2> HIDE <2>2
  <2> QED BY <2>3, <2>4, <2>5, UnWpStep
<1>6. ASSUME NEW t \in Tasks, NEW a \in Addrs, VerifyArea(t, a) PROVE MemInv'
  <2> DEFINE h == [task[t] EXCEPT !.state = "call", !.addr = a]
  <2>1. PICK k : k = h
    OBVIOUS
  <2>2. PICK T : T = [task EXCEPT ![t] = k]
    OBVIOUS
  <2>3. /\ k \in TaskRecord /\ k.page = task[t].page /\ k.hand = task[t].hand
        /\ k.args = task[t].args /\ k.state = "call"
    BY <1>1, <2>1 DEF TaskRecord
  <2>4. T = [task EXCEPT ![t].state = "call", ![t].addr = a]
    BY <2>1, <2>2
  <2>5. /\ task[t].state = "user"
        /\ IF Present(t, a) /\ ~pte[t][a].rw
           THEN UnWpPage(t, a, T)
           ELSE task' = T /\ UNCHANGED <<mem_map, dir, pte, data, history>>
    BY <1>6, <2>4 DEF VerifyArea
  <2> HIDE DEF h
  <2>6. CASE Present(t, a) /\ ~pte[t][a].rw
    BY <2>2, <2>3, <2>5, <2>6, UnWpStep
  <2>7. CASE ~(Present(t, a) /\ ~pte[t][a].rw)
    <3>1. task' = [task EXCEPT ![t] = k] /\ UNCHANGED <<mem_map, dir, pte, lost>>
      BY <2>2, <2>5, <2>7 DEF history
    <3>2. /\ task[t].state \in Awake /\ k.state \in Awake
          /\ k.state \in {"copy", "close"} <=> task[t].state \in {"copy", "close"}
      BY <2>3, <2>5 DEF Awake
    <3> QED BY <2>3, <3>1, <3>2, QuietState
  <2> QED BY <2>6, <2>7
<1>7. ASSUME NEW t \in Tasks, NEW a \in Addrs, NEW v \in Values, UserWrite(t, a, v) PROVE MemInv'
  <2>1. /\ pte' = [pte EXCEPT ![t][a].dirty = TRUE] /\ UNCHANGED <<mem_map, dir, lost>>
        /\ BackToUser(t) /\ task[t].state \in {"user", "call", "fill"}
    BY <1>7 DEF UserWrite, Store, BackToUser
  <2> QED BY <2>1, DirtyStep
<1>8. ASSUME NEW t \in Tasks, NEW v \in Values, KernelWrite(t, v) PROVE MemInv'
  <2>1. PICK a \in Addrs : a = task[t].addr
    BY <1>1
  <2>2. /\ pte' = [pte EXCEPT ![t][a].dirty = TRUE] /\ UNCHANGED <<mem_map, dir, lost>>
        /\ BackToUser(t) /\ task[t].state \in {"user", "call", "fill"}
    BY <1>8, <2>1 DEF KernelWrite, Store, BackToUser
  <2> QED BY <2>2, DirtyStep
<1>9. ASSUME NEW t \in Tasks, ClearRest(t) PROVE MemInv'
  <2>1. PICK a \in Addrs : a = task[t].addr
    BY <1>1
  <2>2. /\ pte' = [pte EXCEPT ![t][a].dirty = TRUE] /\ UNCHANGED <<mem_map, dir, lost>>
        /\ BackToUser(t) /\ task[t].state \in {"user", "call", "fill"}
    BY <1>9, <2>1 DEF ClearRest, BackToUser, history
  <2> QED BY <2>2, DirtyStep
<1>10. ASSUME NEW t \in Tasks, Loaded(t) PROVE MemInv'
  <2>1. task[t].state = "load"
    BY <1>10 DEF Loaded
  <2>2. CASE DoExit(t, task[t].hand)
    BY <2>1, <2>2, ExitStep
  <2>3. CASE ~DoExit(t, task[t].hand)
    <3>1. PICK a, page : LoadsTo(t, a, page)
      BY DEF LoadsTo
    <3>2. PutPage(t, a, page, mem_map) /\ task' = Resumed(t) /\ lost' = lost
      BY <1>10, <2>3, <3>1 DEF Loaded, LoadsTo, history
    <3> QED BY <2>1, <3>1, <3>2, LoadedStep
  <2> QED BY <2>2, <2>3
<1>11. ASSUME NEW t \in Tasks, NEW e \in Executables, NoReturn(t, e) PROVE MemInv'
  <2> DEFINE h == [task[t] EXCEPT !.state = "close", !.exe = e]
  <2>1. PICK k : k = h
    OBVIOUS
  <2>2. /\ k \in TaskRecord /\ k.page = task[t].page /\ k.hand = task[t].hand
        /\ k.args = task[t].args /\ k.state = "close"
    BY <1>1, <2>1 DEF TaskRecord
  <2>3. task' = [task EXCEPT ![t] = k] /\ UNCHANGED <<mem_map, dir, pte, lost>>
    BY <1>11, <2>1 DEF NoReturn, history
  <2>4. /\ task[t].state \in Awake /\ k.state \in Awake
        /\ k.state \in {"copy", "close"} <=> task[t].state \in {"copy", "close"}
    BY <1>11, <2>2 DEF NoReturn, Awake
  <2> HIDE DEF h
  <2> QED BY <2>2, <2>3, <2>4, QuietState
<1>12. ASSUME NEW t \in Tasks, SysExit(t) PROVE MemInv'
  <2>1. Plain(task[t]) /\ DoExit(t, NoPage)
    BY <1>2, <1>12, PlainTask DEF SysExit, Awake
  <2> QED BY <2>1, PlainExit
<1>13. CASE UNCHANGED vars
  <2>1. \A u, c : PointsTo(u, c)' = PointsTo(u, c)
    BY <1>13 DEF vars, PointsTo
  <2>2. \A u, c : Protected(u, c)' <=> Protected(u, c)
    BY <1>13 DEF vars, Protected
  <2>3. Types'
    BY <1>13 DEF vars, MemInv, Types, TypesOfTasks
  <2>4. \A u \in Tasks : Shape(u)' /\ Tabled(u)'
    BY <1>13 DEF vars, MemInv, Shape, Tabled, Present, NoTable
  <2>5. Sharing'
    BY <2>1, <2>2 DEF MemInv, Sharing
  <2>6. \A p : Refs(p)' = Refs(p)
    BY <2>1 DEF Refs
  <2>7. Counted'
    BY <1>13, <2>6 DEF vars, MemInv, Counted
  <2> QED BY <2>3, <2>4, <2>5, <2>7 DEF MemInv
<1>14. CASE Next
  <2>1. PICK t \in Tasks :
    \/ \E a \in Addrs :
         \/ PageFault(t, a) \/ DoWpPage(t, a) \/ VerifyArea(t, a) \/ CopyFault(t, a)
         \/ \E v \in Values : UserWrite(t, a, v)
    \/ \E v \in Values : KernelWrite(t, v)
    \/ KernelFault(t) \/ Loaded(t)
    \/ \E u \in Tasks : Fork(t, u) \/ ForkFails(t, u)
    \/ CopyStrings(t) \/ ExecError(t) \/ ClearRest(t) \/ ClearFault(t)
    \/ \E e \in Executables : NoReturn(t, e)
    \/ \E aligned \in BOOLEAN : ChangeMemory(t, aligned)
    \/ SysExit(t) \/ Release(t)
    BY <1>14, Zenon DEF Next
  <2>2. (\E u \in Tasks : Fork(t, u) \/ ForkFails(t, u)) => MemInv'
    BY ForkStep, ForkFailsStep
  <2>3. CopyStrings(t) \/ ExecError(t) \/ Release(t) => MemInv'
    BY CopyStringsStep, ExecErrorStep, ReleaseStep
  <2>4. (\E aligned \in BOOLEAN : ChangeMemory(t, aligned)) => MemInv'
    BY ChangeMemoryStep
  <2> QED BY <1>3, <1>4, <1>5, <1>6, <1>7, <1>8, <1>9, <1>10, <1>11, <1>12, <2>1, <2>2, <2>3, <2>4
<1> QED BY <1>13, <1>14

-----------------------------------------------------------------------------
(***************************************************************************)
(* mem_map[] is the number of references to a page, whatever runs out of   *)
(* memory: get_free_page() and free_page() (memory.c:63-104) never lose a  *)
(* page or free one twice, but for the arguments of an exec that is killed *)
(* by oom().                                                               *)
(***************************************************************************)
THEOREM PagesAreCounted == Spec => []CountsAreReferences
<1>1. MemInv => CountsAreReferences
  BY DEF MemInv, Counted, CountsAreReferences
<1> QED BY <1>1, MemInit, MemNext, PTL DEF Spec

(***************************************************************************)
(* A page that a task may write to is mapped nowhere else and is no page   *)
(* table or task_struct: copy on write and try_to_share() protect it first *)
(* (memory.c:185-191, 232-249, 343-351).                                   *)
(***************************************************************************)
THEOREM WritersAreAlone == Spec => []WritableIsPrivate
<1>1. ASSUME MemInv PROVE WritableIsPrivate
  <2>1. Types /\ Counted /\ Sharing /\ TypesOfTasks
    BY <1>1 DEF MemInv, Types
  <2>2. ASSUME NEW t \in Tasks, NEW a \in Addrs, pte[t][a].rw PROVE Refs(pte[t][a].page) = 1
    <3> DEFINE x == <<"pte", a>>
    <3>1. x \in Pointers /\ PointsTo(t, x) = pte[t][a].page /\ ~Protected(t, x)
      BY <2>2, PointerKinds, PointsToIs DEF Protected
    <3>2. pte[t][a] \in PTEs /\ pte[t][a].page # NoPage
      BY <1>1, <2>1, <2>2 DEF MemInv, Tabled, Present, TypesOfTasks
    <3>3. pte[t][a].page \in Pages
      BY <3>2 DEF PTEs, MaybePages
    <3> HIDE DEF x
    <3> QED BY <2>1, <3>1, <3>3, OnlyReference
  <2> QED BY <2>2 DEF WritableIsPrivate
<1> QED BY <1>1, MemInit, MemNext, PTL DEF Spec

-----------------------------------------------------------------------------
(* What is in the pages.                                                   *)

TypesOfData ==
  /\ data \in [Pages -> Contents]
  /\ view \in [Tasks -> [Addrs -> Contents]]
  /\ misled \in BOOLEAN

\* Entries of page tables with the same page are for the same address.
OneAddress ==
  \A t, u \in Tasks, a, b \in Addrs :
    Present(t, a) /\ pte[t][a].page = pte[u][b].page => a = b

\* The task has what it wrote: DataIsPrivate for one task
HasOwn(t) ==
  \A a \in Addrs : Present(t, a) /\ (a \in Text => ~misled) => data[pte[t][a].page] = view[t][a]

(***************************************************************************)
(* What the task has not written is clear, or as in its executable: what   *)
(* do_no_page() puts there, and what try_to_share() takes from others.     *)
(* Between the change of the executable and that of the memory it need not *)
(* be so.                                                                  *)
(***************************************************************************)
Unwritten(t) ==
  task[t].state \notin {"none", "zombie", "close"} =>
    \A a \in Addrs :
      /\ a \notin Text /\ ~Present(t, a) => view[t][a] = Zero
      /\ a \in Text /\ ~misled /\ (~Present(t, a) \/ ~pte[t][a].dirty)
           => view[t][a] = task[t].exe

\* What write_verify() found stays so, but for text, which may be shared again.
Verified(t) ==
  task[t].state = "call" /\ task[t].addr \notin Text /\ Present(t, task[t].addr)
    => pte[t][task[t].addr].rw

\* The pages that a fault and an exec have and no page table
InHands(t) ==
  /\ task[t].state = "load" => task[t].addr \in Text /\ data[task[t].hand] = task[t].exe
  /\ task[t].args # NoPage => data[task[t].args] = Zero

Contained(t) == HasOwn(t) /\ Unwritten(t) /\ Verified(t) /\ InHands(t)

DataInv == TypesOfData /\ OneAddress /\ \A t \in Tasks : Contained(t)

\* The task goes on as it was, but another may share its text.
Rests(u) ==
  /\ task'[u] = task[u] /\ view'[u] = view[u]
  /\ \A a \in Addrs : /\ pte'[u][a].page = pte[u][a].page /\ pte'[u][a].dirty = pte[u][a].dirty
                      /\ a \in Text \/ pte'[u][a].rw = pte[u][a].rw

\* Nobody has changed what is in the pages of the task, but for text when a
\* task may have that of another.
PagesKept(u) ==
  /\ task[u].hand # NoPage => data'[task[u].hand] = data[task[u].hand]
  /\ task[u].args # NoPage => data'[task[u].args] = data[task[u].args]
  /\ \A a \in Addrs : Present(u, a) /\ (a \in Text => ~misled')
                        => data'[pte[u][a].page] = data[pte[u][a].page]

\* What misled says is not taken back.
Recalled == misled' \in BOOLEAN /\ (misled => misled')

\* A task that does nothing, while its pages are left alone
LEMMA RestingTask ==
  ASSUME NEW u \in Tasks, MemInv, Contained(u), Rests(u), PagesKept(u), Recalled
  PROVE  Contained(u)'
<1>1. Shape(u) /\ task[u].addr \in Addrs
  BY DEF MemInv, Types, TypesOfTasks, TaskRecord
<1>2. \A a \in Addrs : Present(u, a)' <=> Present(u, a)
  BY DEF Rests, Present
<1>3. HasOwn(u)'
  BY <1>2 DEF Contained, HasOwn, Rests, PagesKept, Recalled
<1>4. Unwritten(u)'
  BY <1>2 DEF Contained, Unwritten, Rests, Recalled
<1>5. Verified(u)'
  BY <1>1, <1>2 DEF Contained, Verified, Rests
<1>6. InHands(u)'
  BY <1>1 DEF Contained, InHands, Rests, PagesKept, Shape
<1> QED BY <1>3, <1>4, <1>5, <1>6 DEF Contained

\* Every entry has the page p, and is for the address b, or has a page that a
\* task had at its address.
Moved(p, b) ==
  \A u \in Tasks, a \in Addrs : Present(u, a)' =>
    \/ pte'[u][a].page = p /\ a = b
    \/ \E w \in Tasks : pte'[u][a].page = pte[w][a].page /\ pte[w][a].page # p

\* Entries for different addresses still have different pages.
LEMMA OneAddressStep ==
  ASSUME OneAddress, NEW p, NEW b, Moved(p, b)
  PROVE  OneAddress'
<1> SUFFICES ASSUME NEW t \in Tasks, NEW u \in Tasks, NEW a \in Addrs, NEW c \in Addrs,
                    Present(t, a)', pte'[t][a].page = pte'[u][c].page
             PROVE  a = c
  BY DEF OneAddress
<1>1. Present(u, c)'
  BY DEF Present
<1>2. CASE pte'[t][a].page = p
  BY <1>1, <1>2, ZenonT(60) DEF Moved
<1>3. CASE pte'[t][a].page # p
  <2>1. PICK w \in Tasks : pte'[t][a].page = pte[w][a].page
    BY <1>3 DEF Moved
  <2>2. PICK x \in Tasks : pte'[u][c].page = pte[x][c].page
    BY <1>1, <1>3 DEF Moved
  <2>3. Present(w, a) /\ pte[w][a].page = pte[x][c].page
    BY <2>1, <2>2 DEF Present
  <2> QED BY <2>3 DEF OneAddress
<1> QED BY <1>2, <1>3

\* A page that nothing refers to can be filled.
LEMMA FreshData ==
  ASSUME MemInv, TypesOfData, NEW p \in GetFreePage(mem_map), NEW v \in Contents,
         data' = [data EXCEPT ![p] = v]
  PROVE  /\ p \in Pages /\ data' \in [Pages -> Contents] /\ data'[p] = v
         /\ \A u \in Tasks : PagesKept(u) /\ \A a \in Addrs : pte[u][a].page # p
<1>1. p \in Pages /\ mem_map[p] = 0
  BY DEF GetFreePage, FreeIn
<1>2. data' \in [Pages -> Contents] /\ data'[p] = v /\ \A q : q \in Pages /\ q # p => data'[q] = data[q]
  BY <1>1 DEF TypesOfData
<1>3. \A u \in Tasks, c \in Pointers : PointsTo(u, c) # p
  BY <1>1, FreshPage DEF MemInv
<1>4. ASSUME NEW u \in Tasks
      PROVE  PagesKept(u) /\ \A a \in Addrs : pte[u][a].page # p
  <2>1. /\ PointsTo(u, <<"hand", 0>>) = task[u].hand /\ PointsTo(u, <<"args", 0>>) = task[u].args
        /\ \A a : PointsTo(u, <<"pte", a>>) = pte[u][a].page
    BY PointsToIs
  <2>2. task[u].hand # p /\ task[u].args # p
    BY <1>3, <2>1, PointerKinds
  <2>3. \A a \in Addrs : pte[u][a].page # p
    BY <1>3, <2>1, PointerKinds
  <2>4. /\ task[u].hand \in MaybePages /\ task[u].args \in MaybePages
        /\ \A a \in Addrs : pte[u][a].page \in MaybePages
    BY DEF MemInv, Types, TypesOfTasks, TaskRecord, PTEs
  <2> QED BY <1>2, <2>2, <2>3, <2>4 DEF PagesKept, MaybePages, Present
<1> QED BY <1>1, <1>2, <1>4

\* Nothing is written to any page.
LEMMA UnchangedData ==
  ASSUME data' = data
  PROVE  \A u : PagesKept(u)
BY DEF PagesKept

\* The entries keep their pages, and are not clean again.
SamePages(t) ==
  \A a \in Addrs : /\ pte'[t][a].page = pte[t][a].page
                   /\ pte[t][a].dirty => pte'[t][a].dirty

\* The task goes on with its executable, or has no memory of its own.
GoesOn(t) ==
  \/ task'[t].state \in {"none", "zombie", "close"}
  \/ task[t].state \notin {"none", "zombie", "close"} /\ task'[t].exe = task[t].exe

\* A step in which no entry gets another page
LEMMA QuietData ==
  ASSUME MemInv, DataInv, NEW t \in Tasks, \A u \in Tasks \ {t} : Rests(u),
         \A u \in Tasks : PagesKept(u), data' \in [Pages -> Contents], UNCHANGED <<view, misled>>,
         SamePages(t), GoesOn(t), Verified(t)', InHands(t)'
  PROVE  DataInv'
<1>1. OneAddress'
  <2>1. \A u \in Tasks, a \in Addrs : pte'[u][a].page = pte[u][a].page
    BY DEF Rests, SamePages
  <2> QED BY <2>1 DEF DataInv, OneAddress, Present
<1>2. TypesOfData'
  BY DEF DataInv, TypesOfData
<1>3. \A a \in Addrs : Present(t, a)' <=> Present(t, a)
  BY DEF SamePages, Present
<1>4. Contained(t)
  BY DEF DataInv
<1>5. HasOwn(t)'
  BY <1>3, <1>4 DEF Contained, HasOwn, SamePages, PagesKept
<1>6. Unwritten(t)'
  BY <1>3, <1>4 DEF Contained, Unwritten, SamePages, GoesOn
<1>7. Contained(t)'
  BY <1>5, <1>6 DEF Contained
<1>8. ASSUME NEW u \in Tasks \ {t} PROVE Contained(u)'
  BY RestingTask DEF DataInv, Recalled, TypesOfData
<1> QED BY <1>1, <1>2, <1>7, <1>8 DEF DataInv

\* The task maps the page p, for which nothing was written yet.
Maps(t, a, p) ==
  /\ Present(t, a)' /\ pte'[t][a].page = p /\ ~pte'[t][a].dirty /\ (a \in Text \/ pte'[t][a].rw)
  /\ \A b \in Addrs \ {a} : pte'[t][b] = pte[t][b]

\* ... and goes on.
KeepsOn(t, a) ==
  /\ task[t].state \notin {"none", "zombie", "close"}
  /\ task'[t].state \in {"user", "call", "copy", "fill"}
  /\ task'[t].exe = task[t].exe /\ task'[t].args = task[t].args
  /\ task'[t].state = "call" => task'[t].addr = a

\* put_page(), un_wp_page() and try_to_share()
LEMMA MapData ==
  ASSUME MemInv, DataInv, NEW t \in Tasks, NEW a \in Addrs, NEW p,
         \A u \in Tasks \ {t} : Rests(u), \A u \in Tasks : PagesKept(u),
         data' \in [Pages -> Contents], view' = view, Recalled, OneAddress',
         Maps(t, a, p), KeepsOn(t, a),
         a \notin Text => data'[p] = view[t][a],
         a \in Text /\ ~misled' => data'[p] = view[t][a] /\ view[t][a] = task[t].exe
  PROVE  DataInv'
<1>1. Contained(t)
  BY DEF DataInv
<1>2. HasOwn(t)'
  <2> SUFFICES ASSUME NEW b \in Addrs, Present(t, b)', b \in Text => ~misled'
               PROVE  data'[pte'[t][b].page] = view'[t][b]
    BY DEF HasOwn
  <2>1. CASE b = a
    BY <2>1 DEF Maps
  <2>2. CASE b # a
    <3>1. pte'[t][b] = pte[t][b] /\ Present(t, b)
      BY <2>2 DEF Maps, Present
    <3>2. data'[pte[t][b].page] = data[pte[t][b].page]
      BY <3>1 DEF PagesKept
    <3>3. data[pte[t][b].page] = view[t][b]
      BY <1>1, <3>1 DEF Contained, HasOwn, Recalled
    <3> QED BY <3>1, <3>2, <3>3
  <2> QED BY <2>1, <2>2
<1>3. Unwritten(t)'
  <2> SUFFICES ASSUME NEW b \in Addrs
               PROVE  /\ b \notin Text /\ ~Present(t, b)' => view'[t][b] = Zero
                      /\ b \in Text /\ ~misled' /\ (~Present(t, b)' \/ ~pte'[t][b].dirty)
                           => view'[t][b] = task'[t].exe
    BY DEF Unwritten
  <2>1. CASE b = a
    BY <2>1 DEF Maps, KeepsOn
  <2>2. CASE b # a
    <3>1. pte'[t][b] = pte[t][b] /\ (Present(t, b)' <=> Present(t, b))
      BY <2>2 DEF Maps, Present
    <3> QED BY <1>1, <3>1 DEF Contained, Unwritten, Recalled, KeepsOn
  <2> QED BY <2>1, <2>2
<1>4. Verified(t)'
  BY DEF Verified, KeepsOn, Maps
<1>5. InHands(t)'
  BY <1>1 DEF Contained, InHands, KeepsOn, PagesKept
<1>6. TypesOfData'
  BY DEF DataInv, TypesOfData, Recalled
<1>7. ASSUME NEW u \in Tasks \ {t} PROVE Contained(u)'
  BY RestingTask DEF DataInv
<1> QED BY <1>2, <1>3, <1>4, <1>5, <1>6, <1>7 DEF DataInv, Contained

\* ... of a page that no entry had
LEMMA OneAddressMapped ==
  ASSUME OneAddress, NEW t \in Tasks, NEW a \in Addrs, NEW p,
         \A u \in Tasks \ {t} : Rests(u), Maps(t, a, p),
         \A u \in Tasks, b \in Addrs : pte[u][b].page # p
  PROVE  OneAddress'
<1>1. ASSUME NEW u \in Tasks, NEW b \in Addrs
      PROVE  \/ pte'[u][b].page = p /\ b = a
             \/ \E w \in Tasks : pte'[u][b].page = pte[w][b].page /\ pte[w][b].page # p
  BY DEF Rests, Maps
<1>2. Moved(p, a)
  BY <1>1 DEF Moved
<1> QED BY <1>2, OneAddressStep

\* do_exit()
LEMMA ExitData ==
  ASSUME MemInv, DataInv, NEW t \in Tasks, NEW hand, DoExit(t, hand)
  PROVE  DataInv'
<1>1. task \in [Tasks -> TaskRecord] /\ pte \in [Tasks -> [Addrs -> PTEs]]
      /\ view \in [Tasks -> [Addrs -> Contents]]
  BY DEF MemInv, Types, TypesOfTasks, DataInv, TypesOfData
<1>2. \A u \in Tasks \ {t} : task'[u] = task[u] /\ pte'[u] = pte[u] /\ view'[u] = view[u]
  BY <1>1 DEF DoExit
<1>3. \A a \in Addrs : pte'[t][a] = NoPte
  BY <1>1 DEF DoExit
<1>4. task'[t].state = "zombie" /\ task'[t].args = NoPage
  BY <1>1 DEF DoExit, NoTask
<1>5. data' = data /\ misled' = misled /\ view' \in [Tasks -> [Addrs -> Contents]]
  BY <1>1 DEF DoExit, Contents
<1>6. TypesOfData' /\ Recalled
  BY <1>5 DEF DataInv, TypesOfData, Recalled
<1>7. \A a \in Addrs : ~Present(t, a)'
  BY <1>3 DEF Present, NoPte
<1>8. Contained(t)'
  BY <1>4, <1>7 DEF Contained, HasOwn, Unwritten, Verified, InHands
<1>9. ASSUME NEW u \in Tasks \ {t} PROVE Contained(u)'
  <2>1. Rests(u)
    BY <1>2 DEF Rests
  <2> QED BY <1>5, <1>6, <2>1, RestingTask, UnchangedData DEF DataInv
<1>10. OneAddress'
  <2>1. \A u \in Tasks, a \in Addrs : Present(u, a)' => u # t /\ pte'[u][a].page = pte[u][a].page
    BY <1>2, <1>7
  <2> QED BY <2>1 DEF DataInv, OneAddress, Present
<1> QED BY <1>6, <1>8, <1>9, <1>10 DEF DataInv

\* The old and the new page of an entry that is written to
StoredTo(t, a, p, v) ==
  /\ data' = [data EXCEPT ![p] = v] /\ pte[t][a].page = p
  /\ pte' = [pte EXCEPT ![t][a].dirty = TRUE]
  /\ view' = [view EXCEPT ![t][a] = v]

\* A page with two references is write-protected, and both are text if one is.
LEMMA StoreElsewhere ==
  ASSUME MemInv, DataInv, NEW t \in Tasks, NEW a \in Addrs, NEW p \in Pages, pte[t][a].page = p,
         pte[t][a].rw \/ (a \in Text /\ misled')
  PROVE  /\ \A u \in Tasks : task[u].hand # p /\ task[u].args # p
         /\ \A u \in Tasks \ {t}, b \in Addrs : pte[u][b].page = p => b \in Text /\ misled'
         /\ \A b \in Addrs \ {a} : pte[t][b].page # p
<1> DEFINE x == <<"pte", a>>
<1>1. p # NoPage /\ Sharing
  BY SizesAssumption DEF Pages, NoPage, MemInv
<1>2. x \in Pointers /\ PointsTo(t, x) = p
  BY PointerKinds, PointsToIs
<1>3. ASSUME NEW u \in Tasks, NEW d \in Pointers, PointsTo(u, d) = p, <<t, x>> # <<u, d>>
      PROVE  Protected(t, x) /\ Protected(u, d)
  <2> HIDE DEF x
  <2> QED BY <1>1, <1>2, <1>3 DEF Sharing
<1>4. ASSUME NEW u \in Tasks PROVE task[u].hand # p /\ task[u].args # p
  <2>1. PointsTo(u, <<"hand", 0>>) # p
    BY <1>3, PointerKinds DEF Protected
  <2>2. PointsTo(u, <<"args", 0>>) # p
    BY <1>3, PointerKinds DEF Protected
  <2> QED BY <2>1, <2>2, PointsToIs
<1>5. ASSUME NEW u \in Tasks, NEW b \in Addrs, pte[u][b].page = p PROVE b = a
  BY <1>1, <1>5 DEF DataInv, OneAddress, Present
<1>6. ASSUME NEW u \in Tasks \ {t}, NEW b \in Addrs, pte[u][b].page = p PROVE b \in Text /\ misled'
  <2>1. PointsTo(u, <<"pte", b>>) = p /\ <<"pte", b>> \in Pointers
    BY <1>6, PointerKinds, PointsToIs
  <2>2. Protected(t, x)
    BY <1>3, <1>6, <2>1
  <2>3. ~pte[t][a].rw
    BY <2>2 DEF Protected
  <2> QED BY <1>5, <1>6, <2>3
<1> QED BY <1>4, <1>5, <1>6

\* A store, by the task or by a system call
LEMMA StoreData ==
  ASSUME MemInv, DataInv, NEW t \in Tasks, NEW a \in Addrs, NEW p \in Pages, NEW v \in Values,
         StoredTo(t, a, p, v), pte[t][a].rw \/ (a \in Text /\ misled'), Recalled,
         task[t].state \in {"user", "call"}, BackToUser(t), task'[t].state = "user"
  PROVE  DataInv'
<1>1. task \in [Tasks -> TaskRecord] /\ pte \in [Tasks -> [Addrs -> PTEs]]
      /\ data \in [Pages -> Contents] /\ view \in [Tasks -> [Addrs -> Contents]]
  BY DEF MemInv, Types, TypesOfTasks, DataInv, TypesOfData
<1>2. /\ data' \in [Pages -> Contents] /\ data'[p] = v
      /\ \A q \in Pages \ {p} : data'[q] = data[q]
  BY <1>1 DEF StoredTo, Contents
<1>3. /\ \A b \in Addrs \ {a} : pte'[t][b] = pte[t][b]
      /\ pte'[t][a].page = p /\ pte'[t][a].dirty
      /\ \A u \in Tasks \ {t} : pte'[u] = pte[u]
  BY <1>1 DEF StoredTo, PTEs
<1>4. /\ view' \in [Tasks -> [Addrs -> Contents]] /\ view'[t][a] = v
      /\ \A b \in Addrs \ {a} : view'[t][b] = view[t][b]
      /\ \A u \in Tasks \ {t} : view'[u] = view[u]
  BY <1>1 DEF StoredTo, Contents
<1>5. /\ task'[t].exe = task[t].exe /\ task'[t].args = task[t].args
      /\ \A u \in Tasks \ {t} : task'[u] = task[u]
  BY <1>1 DEF BackToUser, TaskRecord
<1>6. TypesOfData'
  BY <1>2, <1>4 DEF TypesOfData, Recalled
<1>7. pte[t][a].page = p
  BY DEF StoredTo
<1>8. /\ \A u \in Tasks : task[u].hand # p /\ task[u].args # p
      /\ \A u \in Tasks \ {t}, b \in Addrs : pte[u][b].page = p => b \in Text /\ misled'
      /\ \A b \in Addrs \ {a} : pte[t][b].page # p
  BY <1>7, StoreElsewhere
<1>9. /\ \A u \in Tasks : task[u].hand \in MaybePages /\ task[u].args \in MaybePages
      /\ \A u \in Tasks, b \in Addrs : pte[u][b].page \in MaybePages
  BY <1>1 DEF TaskRecord, PTEs
<1>10. ASSUME NEW u \in Tasks \ {t} PROVE Contained(u)'
  <2>1. PagesKept(u)
    BY <1>2, <1>8, <1>9 DEF PagesKept, MaybePages, Present
  <2>2. Rests(u)
    BY <1>3, <1>4, <1>5 DEF Rests
  <2> QED BY <2>1, <2>2, RestingTask DEF DataInv
<1>11. Contained(t) /\ Shape(t)
  BY DEF DataInv, MemInv
<1>12. HasOwn(t)'
  <2> SUFFICES ASSUME NEW b \in Addrs, Present(t, b)', b \in Text => ~misled'
               PROVE  data'[pte'[t][b].page] = view'[t][b]
    BY DEF HasOwn
  <2>1. CASE b = a
    BY <1>2, <1>3, <1>4, <2>1
  <2>2. CASE b # a
    <3>1. pte'[t][b] = pte[t][b] /\ Present(t, b) /\ pte[t][b].page # p /\ view'[t][b] = view[t][b]
      BY <1>3, <1>4, <1>8, <2>2 DEF Present
    <3>2. data'[pte[t][b].page] = data[pte[t][b].page]
      BY <1>2, <1>9, <3>1 DEF MaybePages, Present
    <3>3. data[pte[t][b].page] = view[t][b]
      BY <1>11, <3>1 DEF Contained, HasOwn, Recalled
    <3> QED BY <3>1, <3>2, <3>3
  <2> QED BY <2>1, <2>2
<1>13. Unwritten(t)'
  <2> SUFFICES ASSUME NEW b \in Addrs
               PROVE  /\ b \notin Text /\ ~Present(t, b)' => view'[t][b] = Zero
                      /\ b \in Text /\ ~misled' /\ (~Present(t, b)' \/ ~pte'[t][b].dirty)
                           => view'[t][b] = task'[t].exe
    BY DEF Unwritten
  <2>1. CASE b = a
    <3>1. p # NoPage
      BY SizesAssumption DEF Pages, NoPage
    <3> QED BY <1>3, <2>1, <3>1 DEF Present
  <2>2. CASE b # a
    <3>1. pte'[t][b] = pte[t][b] /\ (Present(t, b)' <=> Present(t, b)) /\ view'[t][b] = view[t][b]
      BY <1>3, <1>4, <2>2 DEF Present
    <3> QED BY <1>5, <1>11, <3>1 DEF Contained, Unwritten, Recalled
  <2> QED BY <2>1, <2>2
<1>14. Verified(t)' /\ InHands(t)'
  <2>1. task[t].args = NoPage
    BY <1>11 DEF Shape
  <2> QED BY <1>5, <2>1 DEF Verified, InHands
<1>15. OneAddress'
  <2>1. \A u \in Tasks, b \in Addrs : pte'[u][b].page = pte[u][b].page
    BY <1>3, <1>7
  <2> QED BY <2>1 DEF DataInv, OneAddress, Present
<1> QED BY <1>6, <1>10, <1>12, <1>13, <1>14, <1>15 DEF DataInv, Contained

\* change_ldt() puts the page of the arguments on top, and nothing else is there.
LEMMA ChangeMemoryData ==
  ASSUME MemInv, DataInv, NEW t \in Tasks, NEW aligned \in BOOLEAN, ChangeMemory(t, aligned)
  PROVE  DataInv'
<1>1. task \in [Tasks -> TaskRecord] /\ pte \in [Tasks -> [Addrs -> PTEs]]
      /\ view \in [Tasks -> [Addrs -> Contents]]
  BY DEF MemInv, Types, TypesOfTasks, DataInv, TypesOfData
<1>2. PICK p : p = task[t].args
  OBVIOUS
<1>3. PICK e : e = task[t].exe
  OBVIOUS
<1>4. task[t].state = "close" /\ Shape(t) /\ Contained(t)
  BY DEF ChangeMemory, MemInv, DataInv
<1>5. p # NoPage /\ p \in Pages /\ e \in Executables /\ data[p] = Zero
  BY <1>1, <1>2, <1>3, <1>4 DEF Shape, TaskRecord, MaybePages, Contained, InHands
<1>6. /\ \A u \in Tasks \ {t} : pte'[u] = pte[u]
      /\ pte'[t][Stack].page = p /\ pte'[t][Stack].rw /\ pte'[t][Stack].dirty
      /\ \A a \in Addrs \ {Stack} : pte'[t][a].page = NoPage
  BY <1>1, <1>2, AddrsAssumption DEF ChangeMemory, ChangeLdt, NoPte
<1>7. /\ \A u \in Tasks \ {t} : view'[u] = view[u]
      /\ \A a \in Addrs : view'[t][a] = IF a \in Text THEN e ELSE Zero
      /\ view' \in [Tasks -> [Addrs -> Contents]]
  <2>1. view' = [view EXCEPT ![t] = [a \in Addrs |-> IF a \in Text THEN e ELSE Zero]]
    BY <1>3 DEF ChangeMemory
  <2> QED BY <1>1, <1>5, <2>1 DEF Contents
<1>8. /\ \A u \in Tasks \ {t} : task'[u] = task[u]
      /\ task'[t].args = NoPage /\ task'[t].exe = e /\ task'[t].state \in {"user", "fill"}
  <2> DEFINE s == IF aligned THEN "user" ELSE "fill"
             b == IF aligned THEN Stack ELSE CHOOSE a \in Text : \A c \in Text : c[1] <= a[1]
  <2>1. task' = [task EXCEPT ![t].args = NoPage, ![t].state = s, ![t].addr = b]
    BY DEF ChangeMemory
  <2>2. s \in {"user", "fill"}
    OBVIOUS
  <2> HIDE DEF s, b
  <2> QED BY <1>1, <1>3, <2>1, <2>2 DEF TaskRecord
<1>9. data' = data /\ misled' = misled
  BY DEF ChangeMemory
<1>10. TypesOfData' /\ Recalled
  BY <1>7, <1>9 DEF DataInv, TypesOfData, Recalled
<1>11. ASSUME NEW u \in Tasks \ {t} PROVE Contained(u)'
  <2>1. Rests(u)
    BY <1>6, <1>7, <1>8 DEF Rests
  <2> QED BY <1>9, <1>10, <2>1, RestingTask, UnchangedData DEF DataInv
<1>12. Contained(t)'
  <2>1. HasOwn(t)'
    BY <1>5, <1>6, <1>7, <1>9, AddrsAssumption DEF HasOwn, Present
  <2>2. Unwritten(t)'
    BY <1>5, <1>6, <1>7, <1>8, AddrsAssumption DEF Unwritten, Present
  <2>3. Verified(t)' /\ InHands(t)'
    BY <1>8 DEF Verified, InHands
  <2> QED BY <2>1, <2>2, <2>3 DEF Contained
<1>13. OneAddress'
  <2>1. \A u \in Tasks, b \in Addrs : pte[u][b].page # p
    <3>1. PointsTo(t, <<"args", 0>>) = p
      BY <1>2, PointsToIs
    <3>2. ASSUME NEW u \in Tasks, NEW b \in Addrs, pte[u][b].page = p PROVE FALSE
      <4>1. PointsTo(u, <<"pte", b>>) = p
        BY <3>2, PointsToIs
      <4>2. Protected(t, <<"args", 0>>)
        BY <1>5, <3>1, <4>1, PointerKinds DEF MemInv, Sharing
      <4> QED BY <4>2 DEF Protected
    <3> QED BY <3>2
  <2>2. ASSUME NEW u \in Tasks, NEW a \in Addrs, Present(u, a)'
        PROVE  \/ pte'[u][a].page = p /\ a = Stack
               \/ \E w \in Tasks : pte'[u][a].page = pte[w][a].page /\ pte[w][a].page # p
    BY <1>6, <2>1, <2>2 DEF Present
  <2>3. Moved(p, Stack)
    BY <2>2 DEF Moved
  <2> QED BY <2>3, OneAddressStep DEF DataInv
<1> QED BY <1>10, <1>11, <1>12, <1>13 DEF DataInv

\* fork() gives the child what its parent has.
LEMMA ForkData ==
  ASSUME MemInv, DataInv, NEW t \in Tasks, NEW u \in Tasks, Fork(t, u)
  PROVE  DataInv'
<1>1. task \in [Tasks -> TaskRecord] /\ pte \in [Tasks -> [Addrs -> PTEs]]
      /\ view \in [Tasks -> [Addrs -> Contents]]
  BY DEF MemInv, Types, TypesOfTasks, DataInv, TypesOfData
<1>2. task[t].state = "user" /\ u # t /\ Shape(t) /\ Contained(t)
  BY DEF Fork, MemInv, DataInv
<1>3. /\ \A w \in Tasks \ {t, u} : pte'[w] = pte[w]
      /\ \A w \in {t, u}, a \in Addrs : /\ pte'[w][a].page = pte[t][a].page
                                        /\ pte'[w][a].dirty = pte[t][a].dirty
  <2> DEFINE P == Protect(t, UsedDirs(t))
             C == [a \in Addrs |-> [pte[t][a] EXCEPT !.rw = FALSE]]
  <2>1. pte' = [pte EXCEPT ![u] = C, ![t] = P]
    BY DEF Fork
  <2>2. ASSUME NEW a \in Addrs
        PROVE  /\ P[a].page = pte[t][a].page /\ P[a].dirty = pte[t][a].dirty
               /\ C[a].page = pte[t][a].page /\ C[a].dirty = pte[t][a].dirty
    <3>1. pte[t][a] \in PTEs
      BY <1>1
    <3>2. PICK e : e = [pte[t][a] EXCEPT !.rw = FALSE]
      OBVIOUS
    <3>3. e.page = pte[t][a].page /\ e.dirty = pte[t][a].dirty
      BY <3>1, <3>2 DEF PTEs
    <3>4. C[a] = e /\ (P[a] = e \/ P[a] = pte[t][a])
      BY <3>2 DEF Protect
    <3> QED BY <3>3, <3>4
  <2> HIDE DEF P, C
  <2> QED BY <1>1, <1>2, <2>1, <2>2
<1>4. /\ \A w \in Tasks \ {u} : task'[w] = task[w]
      /\ task'[u].state = "user" /\ task'[u].args = NoPage /\ task'[u].exe = task[t].exe
  <2>1. PICK q : task' = [task EXCEPT ![u] = [task[t] EXCEPT !.page = q]]
    BY DEF Fork
  <2>2. task[t].args = NoPage
    BY <1>2 DEF Shape
  <2> QED BY <1>1, <1>2, <2>1, <2>2 DEF TaskRecord
<1>5. /\ \A w \in Tasks \ {u} : view'[w] = view[w]
      /\ view'[u] = view[t] /\ view' \in [Tasks -> [Addrs -> Contents]]
  BY <1>1 DEF Fork
<1>6. data' = data /\ misled' = misled
  BY DEF Fork
<1>7. TypesOfData' /\ Recalled
  BY <1>5, <1>6 DEF DataInv, TypesOfData, Recalled
<1>8. ASSUME NEW w \in Tasks \ {t, u} PROVE Contained(w)'
  <2>1. Rests(w)
    BY <1>3, <1>4, <1>5 DEF Rests
  <2> QED BY <1>6, <1>7, <2>1, RestingTask, UnchangedData DEF DataInv
<1>9. ASSUME NEW w \in {t, u} PROVE Contained(w)'
  <2>1. /\ task'[w].state = "user" /\ task'[w].args = NoPage /\ task'[w].exe = task[t].exe
        /\ view'[w] = view[t]
    BY <1>2, <1>4, <1>5, <1>9 DEF Shape
  <2>2. \A a \in Addrs : /\ Present(w, a)' <=> Present(t, a)
                         /\ pte'[w][a].page = pte[t][a].page
                         /\ pte'[w][a].dirty = pte[t][a].dirty
    BY <1>3, <1>9 DEF Present
  <2>3. HasOwn(w)'
    BY <1>2, <1>6, <2>1, <2>2 DEF HasOwn, Contained
  <2>4. Unwritten(w)'
    BY <1>2, <1>6, <2>1, <2>2 DEF Unwritten, Contained
  <2>5. Verified(w)' /\ InHands(w)'
    BY <2>1 DEF Verified, InHands
  <2> QED BY <2>3, <2>4, <2>5 DEF Contained
<1>10. OneAddress'
  <2>1. ASSUME NEW w \in Tasks, NEW a \in Addrs
        PROVE  \E x \in Tasks : pte'[w][a].page = pte[x][a].page
    BY <1>3
  <2>2. Moved(NoPage, Stack)
    BY <2>1 DEF Moved, Present
  <2> QED BY <2>2, OneAddressStep DEF DataInv
<1> QED BY <1>7, <1>8, <1>9, <1>10 DEF DataInv

\* put_page() maps the page.
LEMMA PutMaps ==
  ASSUME MemInv, NEW t \in Tasks, NEW a \in Addrs, NEW p \in Pages, NEW M, PutPage(t, a, p, M)
  PROVE  Maps(t, a, p) /\ \A u \in Tasks \ {t} : pte'[u] = pte[u]
<1>1. pte' = [pte EXCEPT ![t][a] = [page |-> p, rw |-> TRUE, dirty |-> FALSE]]
  BY DEF PutPage
<1>2. pte \in [Tasks -> [Addrs -> PTEs]] /\ p # NoPage
  BY SizesAssumption DEF MemInv, Types, TypesOfTasks, Pages, NoPage
<1> QED BY <1>1, <1>2 DEF Maps, Present

\* do_no_page(), wherever the fault was
LEMMA NoPageData ==
  ASSUME MemInv, DataInv, NEW t \in Tasks, NEW a \in Addrs,
         task[t].state \in {"user", "call", "copy", "fill"},
         task[t].state = "call" => task[t].addr = a, DoNoPage(t, a)
  PROVE  DataInv'
<1>1. ~Present(t, a) /\ Resumed(t) = task /\ Contained(t)
  BY DEF DoNoPage, Resumed, DataInv
<1>2. TypesOfData /\ TypesOfTasks
  BY DEF DataInv, MemInv, Types
<1>3. a \notin Text => view[t][a] = Zero
  BY <1>1 DEF Contained, Unwritten
<1>4. a \in Text /\ ~misled => view[t][a] = task[t].exe
  BY <1>1 DEF Contained, Unwritten
<1>5. task' = task => KeepsOn(t, a)
  BY DEF KeepsOn
<1>6. CASE DoExit(t, NoPage)
  BY <1>6, ExitData
<1>7. ASSUME NEW p \in GetFreePage(mem_map), NEW M, PutPage(t, a, p, M),
             data' = [data EXCEPT ![p] = Zero], task' = task, UNCHANGED history, a \notin Text
      PROVE  DataInv'
  <2>1. /\ p \in Pages /\ data' \in [Pages -> Contents] /\ data'[p] = Zero
        /\ \A u \in Tasks : PagesKept(u) /\ \A b \in Addrs : pte[u][b].page # p
    BY <1>2, <1>7, FreshData DEF Contents
  <2>2. Maps(t, a, p) /\ \A u \in Tasks \ {t} : pte'[u] = pte[u]
    BY <1>7, <2>1, PutMaps
  <2>3. \A u \in Tasks \ {t} : Rests(u)
    BY <1>7, <2>2 DEF Rests, history
  <2>4. OneAddress'
    BY <2>1, <2>2, <2>3, OneAddressMapped DEF DataInv
  <2>5. view' = view /\ Recalled
    BY <1>2, <1>7 DEF history, Recalled, TypesOfData
  <2> QED BY <1>3, <1>5, <1>7, <2>1, <2>2, <2>3, <2>4, <2>5, MapData
<1>8. ASSUME NEW u \in Tasks, CanShare(t, u, a), TryToShare(t, u, a), ~DoExit(t, NoPage), a \in Text
      PROVE  DataInv'
  <2>1. PICK p : p = pte[u][a].page
    OBVIOUS
  <2>2. /\ u # t /\ p # NoPage /\ ~pte[u][a].dirty /\ Present(u, a) /\ task[u].exe = task[t].exe
        /\ task[u].state \notin {"none", "zombie"} /\ Contained(u)
    BY <1>8, <2>1 DEF CanShare, Present, DataInv
  <2>3. /\ SharedBy(t, u, a) /\ task' = task /\ data' = data /\ view' = view
        /\ misled' = (misled \/ task[u].state = "close")
    BY <1>1, <1>8 DEF TryToShare, SharedBy
  <2>4. /\ pte'[t][a].page = p /\ ~pte'[t][a].dirty
        /\ pte'[u][a].page = p /\ pte'[u][a].dirty = pte[u][a].dirty
        /\ \A b \in Addrs \ {a} : pte'[t][b] = pte[t][b] /\ pte'[u][b] = pte[u][b]
        /\ \A w \in Tasks \ {t, u} : pte'[w] = pte[w]
    <3>1. pte \in [Tasks -> [Addrs -> PTEs]] /\ pte[u][a] \in PTEs
      BY <1>2 DEF TypesOfTasks
    <3>2. PICK e : e = [pte[u][a] EXCEPT !.rw = FALSE]
      OBVIOUS
    <3>3. e.page = p /\ ~e.dirty /\ e.dirty = pte[u][a].dirty
      BY <2>1, <2>2, <3>1, <3>2 DEF PTEs
    <3>4. PICK f : f = [e EXCEPT !.rw = FALSE]
      OBVIOUS
    <3>5. f.page = p /\ ~f.dirty
      BY <3>1, <3>2, <3>3, <3>4 DEF PTEs
    <3>6. pte' = [pte EXCEPT ![u][a] = e, ![t][a] = f]
      BY <2>3, <3>2, <3>4 DEF SharedBy, Shared
    <3> QED BY <2>2, <3>1, <3>3, <3>5, <3>6
  <2>5. Maps(t, a, p)
    BY <1>8, <2>2, <2>4 DEF Maps, Present
  <2>6. ASSUME NEW w \in Tasks \ {t} PROVE Rests(w)
    <3>1. CASE w = u
      <4>1. ASSUME NEW b \in Addrs
            PROVE  /\ pte'[u][b].page = pte[u][b].page /\ pte'[u][b].dirty = pte[u][b].dirty
                   /\ b \in Text \/ pte'[u][b].rw = pte[u][b].rw
        BY <1>8, <2>1, <2>4
      <4> QED BY <2>3, <3>1, <4>1 DEF Rests
    <3>2. CASE w # u
      BY <2>3, <2>4, <3>2 DEF Rests
    <3> QED BY <3>1, <3>2
  <2>7. OneAddress'
    <3>1. ASSUME NEW w \in Tasks, NEW b \in Addrs
          PROVE  \E x \in Tasks : pte'[w][b].page = pte[x][b].page
      <4>1. CASE w = t /\ b = a
        BY <2>1, <2>4, <4>1
      <4>2. CASE ~(w = t /\ b = a)
        BY <2>1, <2>4, <4>2
      <4> QED BY <4>1, <4>2
    <3>2. Moved(NoPage, Stack)
      BY <3>1, SMTT(30) DEF Moved, Present
    <3> QED BY <3>2, OneAddressStep DEF DataInv
  <2>8. Recalled /\ data' \in [Pages -> Contents]
    BY <1>2, <2>3 DEF Recalled, TypesOfData
  <2>9. ~misled' => data'[p] = view[t][a] /\ view[t][a] = task[t].exe
    <3> SUFFICES ASSUME ~misled' PROVE data[p] = view[t][a] /\ view[t][a] = task[t].exe
      BY <2>3
    <3>1. ~misled /\ task[u].state # "close"
      BY <2>3
    <3>2. view[u][a] = task[u].exe
      BY <1>8, <2>2, <3>1 DEF Contained, Unwritten
    <3>3. data[p] = view[u][a]
      BY <2>1, <2>2, <3>1 DEF Contained, HasOwn
    <3> QED BY <1>4, <1>8, <2>2, <3>1, <3>2, <3>3
  <2>10. \A w \in Tasks : PagesKept(w)
    BY <2>3, UnchangedData
  <2>11. KeepsOn(t, a)
    BY <1>5, <2>3
  <2> QED BY <1>8, <2>3, <2>5, <2>6, <2>7, <2>8, <2>9, <2>10, <2>11, MapData
<1>9. ASSUME NEW p \in GetFreePage(mem_map), data' = [data EXCEPT ![p] = task[t].exe],
             GoesToLoad(t, a, p), UNCHANGED <<pte, history>>, a \in Text
      PROVE  DataInv'
  <2>1. task[t] \in TaskRecord /\ task \in [Tasks -> TaskRecord]
    BY <1>2 DEF TypesOfTasks
  <2>2. PICK e \in Contents : e = task[t].exe /\ data' = [data EXCEPT ![p] = e]
    BY <1>9, <2>1 DEF TaskRecord, Contents
  <2>3. /\ p \in Pages /\ data' \in [Pages -> Contents] /\ data'[p] = e
        /\ \A u \in Tasks : PagesKept(u) /\ \A b \in Addrs : pte[u][b].page # p
    BY <1>2, <1>9, <2>2, FreshData
  <2>4. /\ task'[t].state = "load" /\ task'[t].addr = a /\ task'[t].hand = p
        /\ task'[t].exe = e /\ task'[t].args = task[t].args
        /\ \A u \in Tasks \ {t} : task'[u] = task[u]
    <3>1. PICK s : s = task[t].state
      OBVIOUS
    <3>2. PICK h : h = [task[t] EXCEPT !.state = "load", !.from = s]
      OBVIOUS
    <3>3. PICK k : k = [h EXCEPT !.addr = a, !.hand = p]
      OBVIOUS
    <3>4. task' = [task EXCEPT ![t] = k]
      BY <1>9, <2>1, <3>1, <3>2, <3>3 DEF GoesToLoad
    <3>5. /\ h \in TaskRecord /\ h.state = "load" /\ h.exe = e /\ h.args = task[t].args
      BY <2>1, <2>2, <3>1, <3>2 DEF TaskRecord
    <3>6. /\ k.state = "load" /\ k.exe = e /\ k.args = task[t].args /\ k.addr = a /\ k.hand = p
      BY <3>3, <3>5 DEF TaskRecord
    <3> QED BY <2>1, <3>4, <3>6
  <2>5. \A u \in Tasks \ {t} : Rests(u)
    BY <1>9, <2>4 DEF Rests, history
  <2>6. SamePages(t) /\ GoesOn(t) /\ Verified(t)'
    BY <1>9, <2>2, <2>4 DEF SamePages, GoesOn, Verified
  <2>7. InHands(t)'
    BY <1>1, <1>9, <2>3, <2>4 DEF Contained, InHands, PagesKept
  <2>8. UNCHANGED <<view, misled>>
    BY <1>9 DEF history
  <2> QED BY <2>3, <2>5, <2>6, <2>7, <2>8, QuietData
<1> QED
  <2>1. \/ a \notin Text /\ GetEmptyPage(t, a)
        \/ a \in Text /\ \E u \in Tasks : CanShare(t, u, a) /\ TryToShare(t, u, a)
        \/ a \in Text /\ \E page \in GetFreePage(mem_map) :
             /\ data' = [data EXCEPT ![page] = task[t].exe]
             /\ GoesToLoad(t, a, page)
             /\ UNCHANGED <<pte, history>>
        \/ DoExit(t, NoPage)
    BY DEF DoNoPage, GoesToLoad
  <2>2. a \notin Text /\ GetEmptyPage(t, a) => DataInv'
    BY <1>1, <1>6, <1>7 DEF GetEmptyPage
  <2> QED BY <1>6, <1>8, <1>9, <2>1, <2>2

\* do_no_page() goes on with the page that was read.
LEMMA LoadedData ==
  ASSUME MemInv, DataInv, NEW t \in Tasks, Loaded(t)
  PROVE  DataInv'
<1>1. CASE DoExit(t, task[t].hand)
  BY <1>1, ExitData
<1>2. CASE ~DoExit(t, task[t].hand)
  <2>1. PICK a, p : LoadsTo(t, a, p)
    BY DEF LoadsTo
  <2>2. PICK M : M = mem_map
    OBVIOUS
  <2>3. /\ task[t].state = "load" /\ PutPage(t, a, p, M)
        /\ task' = Resumed(t) /\ UNCHANGED <<data, history>>
    BY <1>2, <2>1, <2>2 DEF Loaded, LoadsTo
  <2>4. Shape(t) /\ Contained(t) /\ TypesOfData /\ TypesOfTasks /\ OneAddress
    BY DEF MemInv, Types, DataInv
  <2>5. task[t] \in TaskRecord
    BY <2>4 DEF TypesOfTasks
  <2>6. /\ p # NoPage /\ p \in Pages /\ ~Present(t, a) /\ a \in Text /\ a \in Addrs
        /\ data[p] = task[t].exe
    BY <2>1, <2>3, <2>4, <2>5, AddrsAssumption
       DEF LoadsTo, Shape, TaskRecord, MaybePages, Contained, InHands
  <2>7. Maps(t, a, p) /\ \A u \in Tasks \ {t} : pte'[u] = pte[u]
    BY <2>3, <2>6, PutMaps
  <2>8. KeepsOn(t, a) /\ \A u \in Tasks \ {t} : task'[u] = task[u]
    <3> DEFINE b == IF task[t].from \in {"call", "fill"} THEN task[t].addr ELSE Stack
    <3>1. PICK s : s = task[t].from
      OBVIOUS
    <3>2. PICK c : c = b
      OBVIOUS
    <3>3. PICK h : h = [task[t] EXCEPT !.state = s, !.hand = NoPage]
      OBVIOUS
    <3>4. PICK k : k = [h EXCEPT !.from = "user", !.addr = c]
      OBVIOUS
    <3>5. task' = [task EXCEPT ![t] = k]
      BY <2>3, <2>4, <3>1, <3>2, <3>3, <3>4 DEF Resumed, TypesOfTasks
    <3>6. s \in {"user", "call", "copy", "fill"} /\ (s = "call" => c = a)
      BY <2>1, <2>5, <3>1, <3>2 DEF TaskRecord, LoadsTo
    <3> HIDE DEF b
    <3>7. h \in TaskRecord /\ h.state = s /\ h.exe = task[t].exe /\ h.args = task[t].args
      BY <2>5, <3>3, <3>6 DEF TaskRecord, MaybePages
    <3>8. k.state = s /\ k.exe = task[t].exe /\ k.args = task[t].args /\ k.addr = c
      BY <3>4, <3>7 DEF TaskRecord
    <3> QED BY <2>3, <2>4, <3>5, <3>6, <3>8 DEF KeepsOn, TypesOfTasks
  <2>9. \A u \in Tasks \ {t} : Rests(u)
    BY <2>3, <2>7, <2>8 DEF Rests, history
  <2>10. OneAddress'
    <3>1. PointsTo(t, <<"hand", 0>>) = p
      BY <2>1, PointsToIs DEF LoadsTo
    <3>2. ASSUME NEW u \in Tasks, NEW b \in Addrs, pte[u][b].page = p PROVE FALSE
      <4>1. PointsTo(u, <<"pte", b>>) = p
        BY <3>2, PointsToIs
      <4>2. Protected(t, <<"hand", 0>>)
        BY <2>6, <3>1, <4>1, PointerKinds DEF MemInv, Sharing
      <4> QED BY <4>2 DEF Protected
    <3> QED BY <2>4, <2>6, <2>7, <2>9, <3>2, OneAddressMapped
  <2>11. ~misled' => data'[p] = view[t][a] /\ view[t][a] = task[t].exe
    BY <2>3, <2>4, <2>6 DEF Contained, Unwritten, history
  <2>12. /\ data' = data /\ view' = view /\ Recalled /\ data' \in [Pages -> Contents]
    BY <2>3, <2>4 DEF TypesOfData, Recalled, history
  <2> QED BY <2>6, <2>7, <2>8, <2>9, <2>10, <2>11, <2>12, MapData, UnchangedData
<1> QED BY <1>1, <1>2

\* un_wp_page(), in user mode or in write_verify()
LEMMA UnWpData ==
  ASSUME MemInv, DataInv, NEW t \in Tasks, NEW a \in Addrs, Present(t, a), task[t].state = "user",
         NEW k \in TaskRecord, k.args = task[t].args, k.exe = task[t].exe,
         k.state \in {"user", "call"}, k.state = "call" => k.addr = a,
         NEW T, T = [task EXCEPT ![t] = k], UnWpPage(t, a, T)
  PROVE  DataInv'
<1>1. Contained(t) /\ Shape(t) /\ TypesOfData /\ TypesOfTasks /\ OneAddress
  BY DEF DataInv, MemInv, Types
<1>2. task' = T => /\ task'[t] = k
                   /\ \A u \in Tasks \ {t} : task'[u] = task[u]
  BY <1>1 DEF TypesOfTasks
<1>3. PICK old : old = pte[t][a].page
  OBVIOUS
<1>4. pte \in [Tasks -> [Addrs -> PTEs]] /\ pte[t][a] \in PTEs
  BY <1>1 DEF TypesOfTasks
<1>5. old \in Pages
  BY <1>3, <1>4 DEF PTEs, MaybePages, Present
<1>6. CASE DoExit(t, NoPage)
  BY <1>6, ExitData
<1>7. CASE pte' = [pte EXCEPT ![t][a].rw = TRUE] /\ task' = T /\ UNCHANGED <<data, history>>
  <2>1. /\ pte'[t][a].rw /\ pte'[t][a].page = pte[t][a].page
        /\ pte'[t][a].dirty = pte[t][a].dirty
        /\ \A b \in Addrs \ {a} : pte'[t][b] = pte[t][b]
        /\ \A u \in Tasks \ {t} : pte'[u] = pte[u]
    BY <1>4, <1>7 DEF PTEs
  <2>2. \A u \in Tasks \ {t} : Rests(u)
    BY <1>2, <1>7, <2>1 DEF Rests, history
  <2>3. SamePages(t)
    BY <2>1 DEF SamePages
  <2>4. GoesOn(t) /\ Verified(t)'
    BY <1>2, <1>7, <2>1 DEF GoesOn, Verified
  <2>5. InHands(t)'
    BY <1>1, <1>2, <1>7 DEF InHands, Contained
  <2>6. data' = data /\ data' \in [Pages -> Contents] /\ UNCHANGED <<view, misled>>
    BY <1>1, <1>7 DEF TypesOfData, history
  <2> QED BY <2>2, <2>3, <2>4, <2>5, <2>6, QuietData, UnchangedData
<1>8. ASSUME NEW new \in GetFreePage(mem_map),
             pte' = [pte EXCEPT ![t][a] = [page |-> new, rw |-> TRUE, dirty |-> FALSE]],
             data' = [data EXCEPT ![new] = data[old]], task' = T,
             misled' = (misled \/ (a \in Text /\ pte[t][a].dirty)), view' = view
      PROVE  DataInv'
  <2>1. PICK v \in Contents : v = data[old]
    BY <1>1, <1>5 DEF TypesOfData
  <2>2. data' = [data EXCEPT ![new] = v]
    BY <1>8, <2>1
  <2>3. /\ new \in Pages /\ data' \in [Pages -> Contents] /\ data'[new] = v
        /\ \A u \in Tasks : PagesKept(u) /\ \A b \in Addrs : pte[u][b].page # new
    BY <1>1, <2>2, FreshData
  <2>4. new # NoPage
    BY <2>3, SizesAssumption DEF Pages, NoPage
  <2>5. Maps(t, a, new) /\ \A u \in Tasks \ {t} : pte'[u] = pte[u]
    BY <1>4, <1>8, <2>4 DEF Maps, Present
  <2>6. \A u \in Tasks \ {t} : Rests(u)
    BY <1>2, <1>8, <2>5 DEF Rests
  <2>7. OneAddress'
    BY <1>1, <2>3, <2>5, <2>6, OneAddressMapped
  <2>8. KeepsOn(t, a)
    BY <1>2, <1>8 DEF KeepsOn
  <2>9. Recalled
    BY <1>1, <1>4, <1>8 DEF Recalled, TypesOfData, PTEs
  <2>10. a \notin Text => data'[new] = view[t][a]
    BY <1>1, <1>3, <2>1, <2>3 DEF Contained, HasOwn
  <2>11. a \in Text /\ ~misled' => data'[new] = view[t][a] /\ view[t][a] = task[t].exe
    <3>1. ~misled' /\ a \in Text => ~misled /\ ~pte[t][a].dirty
      BY <1>8
    <3> QED BY <1>1, <1>3, <2>1, <2>3, <3>1 DEF Contained, HasOwn, Unwritten
  <2> QED BY <1>8, <2>3, <2>5, <2>6, <2>7, <2>8, <2>9, <2>10, <2>11, MapData
<1> QED BY <1>3, <1>6, <1>7, <1>8 DEF UnWpPage

\* A step that changes the task alone
LEMMA TaskData ==
  ASSUME MemInv, DataInv, NEW t \in Tasks, NEW k, task' = [task EXCEPT ![t] = k],
         UNCHANGED <<pte, data, history>>, k.state # "load", k.args \in {NoPage, task[t].args},
         \/ k.state \in {"none", "zombie", "close"}
         \/ task[t].state \notin {"none", "zombie", "close"} /\ k.exe = task[t].exe,
         k.state = "call" => (Present(t, k.addr) => pte[t][k.addr].rw)
  PROVE  DataInv'
<1>1. task'[t] = k /\ \A u \in Tasks \ {t} : task'[u] = task[u]
  BY DEF MemInv, Types, TypesOfTasks
<1>2. \A u \in Tasks \ {t} : Rests(u)
  BY <1>1 DEF Rests, history
<1>3. SamePages(t) /\ GoesOn(t) /\ Verified(t)'
  BY <1>1 DEF SamePages, GoesOn, Verified, Present
<1>4. InHands(t)'
  <2>1. InHands(t)
    BY DEF DataInv, Contained
  <2> QED BY <1>1, <2>1 DEF InHands
<1>5. data' \in [Pages -> Contents] /\ UNCHANGED <<view, misled>>
  BY DEF DataInv, TypesOfData, history
<1> QED BY <1>2, <1>3, <1>4, <1>5, QuietData, UnchangedData

\* The first task has one page, which is clear.
LEMMA DataInit == Init => DataInv
<1> SUFFICES ASSUME Init PROVE DataInv
  OBVIOUS
<1>1. PICK n \in Sizes :
    /\ pte = [t \in Tasks |-> [a \in Addrs |->
               IF t = First /\ a = Stack
               THEN [page |-> n - 1, rw |-> TRUE, dirty |-> FALSE] ELSE NoPte]]
    /\ task = [t \in Tasks |->
               IF t = First THEN [NoTask EXCEPT !.state = "user", !.page = n] ELSE NoTask]
    /\ data = [p \in Pages |-> Zero]
    /\ view = [t \in Tasks |-> [a \in Addrs |->
                IF t = First /\ a \in Text THEN task[t].exe ELSE Zero]]
    /\ misled = FALSE
  BY DEF Init
<1>2. n - 1 \in Pages
  BY SizesAssumption DEF Pages
<1>3. NoTask.args = NoPage /\ NoTask.state = "none" /\ NoTask.exe \in Executables
  BY ExecutablesAssumption DEF NoTask
<1>4. \A t \in Tasks : /\ task[t].state \in {"none", "user"} /\ task[t].args = NoPage
                       /\ task[t].exe \in Executables /\ (task[t].state = "user" => t = First)
  BY <1>1, <1>3 DEF NoTask
<1>5. \A t \in Tasks, a \in Addrs : Present(t, a) => t = First /\ a = Stack /\ pte[t][a].page = n - 1
  BY <1>1 DEF Present, NoPte
<1>6. TypesOfData
  BY <1>1, <1>4, FirstAssumption DEF TypesOfData, Contents
<1>7. OneAddress
  BY <1>5 DEF OneAddress, Present
<1>8. ASSUME NEW t \in Tasks PROVE Contained(t)
  <2>1. HasOwn(t)
    BY <1>1, <1>2, <1>5, AddrsAssumption DEF HasOwn
  <2>2. Unwritten(t)
    BY <1>1, <1>4 DEF Unwritten
  <2>3. Verified(t) /\ InHands(t)
    BY <1>4 DEF Verified, InHands
  <2> QED BY <2>1, <2>2, <2>3 DEF Contained
<1> QED BY <1>6, <1>7, <1>8 DEF DataInv

\* What a task does in an exec, and when it ends
LEMMA ExecData ==
  ASSUME MemInv, DataInv, NEW t \in Tasks,
         \/ CopyStrings(t) \/ ExecError(t) \/ Release(t) \/ ClearRest(t)
         \/ \E e \in Executables : NoReturn(t, e)
  PROVE  DataInv'
<1>1. /\ task \in [Tasks -> TaskRecord] /\ task[t] \in TaskRecord /\ TypesOfData /\ Contained(t)
      /\ Shape(t) /\ pte \in [Tasks -> [Addrs -> PTEs]]
  BY DEF MemInv, Types, TypesOfTasks, DataInv
<1>2. CASE CopyStrings(t)
  <2>1. PICK p \in GetFreePage(mem_map) :
          /\ data' = [data EXCEPT ![p] = Zero]
          /\ task' = [task EXCEPT ![t].state = "copy", ![t].args = p]
    BY <1>2 DEF CopyStrings
  <2>2. task[t].state = "user" /\ UNCHANGED <<pte, history>>
    BY <1>2 DEF CopyStrings
  <2>3. /\ p \in Pages /\ data' \in [Pages -> Contents] /\ data'[p] = Zero
        /\ \A u \in Tasks : PagesKept(u)
    BY <1>1, <2>1, FreshData DEF Contents
  <2>4. /\ task'[t].state = "copy" /\ task'[t].args = p /\ task'[t].exe = task[t].exe
        /\ \A u \in Tasks \ {t} : task'[u] = task[u]
    BY <1>1, <2>1 DEF TaskRecord
  <2>5. \A u \in Tasks \ {t} : Rests(u)
    BY <2>2, <2>4 DEF Rests, history
  <2>6. SamePages(t) /\ GoesOn(t) /\ Verified(t)' /\ InHands(t)'
    BY <2>2, <2>3, <2>4 DEF SamePages, GoesOn, Verified, InHands
  <2>7. UNCHANGED <<view, misled>>
    BY <2>2 DEF history
  <2> QED BY <2>3, <2>5, <2>6, <2>7, QuietData
<1>3. CASE ExecError(t)
  <2>1. PICK k : k = [task[t] EXCEPT !.state = "user", !.args = NoPage]
    OBVIOUS
  <2>2. k.state = "user" /\ k.args = NoPage /\ k.exe = task[t].exe
    BY <1>1, <2>1 DEF TaskRecord, MaybePages
  <2>3. task' = [task EXCEPT ![t] = k] /\ task[t].state = "copy" /\ UNCHANGED <<pte, data, history>>
    BY <1>1, <1>3, <2>1 DEF ExecError
  <2> QED BY <2>2, <2>3, TaskData
<1>4. CASE Release(t)
  <2>1. PICK k : k = NoTask
    OBVIOUS
  <2>2. k.state = "none" /\ k.args = NoPage
    BY <2>1 DEF NoTask
  <2>3. task' = [task EXCEPT ![t] = k] /\ UNCHANGED <<pte, data, history>>
    BY <1>4, <2>1 DEF Release
  <2> QED BY <2>2, <2>3, TaskData
<1>5. CASE ClearRest(t)
  <2>1. PICK a \in Addrs : a = task[t].addr
    BY <1>1 DEF TaskRecord
  <2>2. /\ task[t].state = "fill" /\ pte' = [pte EXCEPT ![t][a].dirty = TRUE]
        /\ task' = [task EXCEPT ![t].state = "user", ![t].addr = Stack]
        /\ UNCHANGED <<data, history>>
    BY <1>5, <2>1 DEF ClearRest
  <2>3. /\ task'[t].state = "user" /\ task'[t].args = task[t].args /\ task'[t].exe = task[t].exe
        /\ \A u \in Tasks \ {t} : task'[u] = task[u]
    BY <1>1, <2>2 DEF TaskRecord
  <2>4. /\ \A u \in Tasks \ {t} : pte'[u] = pte[u]
        /\ \A b \in Addrs : /\ pte'[t][b].page = pte[t][b].page
                            /\ pte[t][b].dirty => pte'[t][b].dirty
    BY <1>1, <2>2 DEF PTEs
  <2>5. \A u \in Tasks \ {t} : Rests(u)
    BY <2>2, <2>3, <2>4 DEF Rests, history
  <2>6. SamePages(t) /\ GoesOn(t) /\ Verified(t)'
    BY <2>2, <2>3, <2>4 DEF SamePages, GoesOn, Verified
  <2>7. InHands(t)'
    BY <1>1, <2>2, <2>3 DEF Contained, InHands
  <2>8. UNCHANGED <<view, misled>> /\ data' = data /\ data' \in [Pages -> Contents]
    BY <1>1, <2>2 DEF history, TypesOfData
  <2> QED BY <2>5, <2>6, <2>7, <2>8, QuietData, UnchangedData
<1>6. ASSUME NEW e \in Executables, NoReturn(t, e) PROVE DataInv'
  <2>1. PICK k : k = [task[t] EXCEPT !.state = "close", !.exe = e]
    OBVIOUS
  <2>2. k.state = "close" /\ k.args = task[t].args
    BY <1>1, <2>1 DEF TaskRecord
  <2>3. task' = [task EXCEPT ![t] = k] /\ UNCHANGED <<pte, data, history>>
    BY <1>1, <1>6, <2>1 DEF NoReturn
  <2> QED BY <2>2, <2>3, TaskData
<1> QED BY <1>2, <1>3, <1>4, <1>5, <1>6

\* A fork that finds no page protects entries of the parent.
LEMMA ForkFailsData ==
  ASSUME MemInv, DataInv, NEW t \in Tasks, NEW u \in Tasks, ForkFails(t, u)
  PROVE  DataInv'
<1>1. pte \in [Tasks -> [Addrs -> PTEs]] /\ TypesOfData /\ Contained(t) /\ Shape(t)
  BY DEF MemInv, Types, TypesOfTasks, DataInv
<1>2. task[t].state = "user" /\ task' = task /\ data' = data /\ UNCHANGED <<view, misled>>
  BY DEF ForkFails, history
<1>3. PICK D : pte' = [pte EXCEPT ![t] = Protect(t, D)]
  BY DEF ForkFails
<1>4. ASSUME NEW a \in Addrs
      PROVE  pte'[t][a].page = pte[t][a].page /\ (pte[t][a].dirty => pte'[t][a].dirty)
  <2>1. pte[t][a] \in PTEs
    BY <1>1
  <2>2. PICK e : e = [pte[t][a] EXCEPT !.rw = FALSE]
    OBVIOUS
  <2>3. e.page = pte[t][a].page /\ e.dirty = pte[t][a].dirty
    BY <2>1, <2>2 DEF PTEs
  <2>4. pte'[t][a] = e \/ pte'[t][a] = pte[t][a]
    BY <1>1, <1>3, <2>2 DEF Protect
  <2> QED BY <2>3, <2>4
<1>5. \A w \in Tasks \ {t} : Rests(w)
  BY <1>1, <1>2, <1>3 DEF Rests
<1>6. SamePages(t) /\ GoesOn(t) /\ Verified(t)' /\ InHands(t)'
  BY <1>1, <1>2, <1>4 DEF SamePages, GoesOn, Verified, InHands, Shape
<1>7. data' \in [Pages -> Contents]
  BY <1>1, <1>2 DEF TypesOfData
<1> QED BY <1>2, <1>5, <1>6, <1>7, QuietData, UnchangedData

\* Every action keeps what is in the pages.
LEMMA DataNext == MemInv /\ DataInv /\ [Next]_vars => DataInv'
<1> SUFFICES ASSUME MemInv, DataInv, [Next]_vars PROVE DataInv'
  OBVIOUS
<1>1. /\ task \in [Tasks -> TaskRecord] /\ \A t \in Tasks : task[t] \in TaskRecord /\ task[t].addr \in Addrs
      /\ \A t \in Tasks, a \in Addrs : pte[t][a].page \in MaybePages
      /\ misled \in BOOLEAN
  BY DEF MemInv, Types, TypesOfTasks, TaskRecord, PTEs, DataInv, TypesOfData
<1>2. ASSUME NEW t \in Tasks, NEW a \in Addrs, PageFault(t, a) \/ CopyFault(t, a) PROVE DataInv'
  BY <1>2, NoPageData DEF PageFault, CopyFault
<1>3. ASSUME NEW t \in Tasks, KernelFault(t) \/ ClearFault(t) PROVE DataInv'
  <2>1. PICK a \in Addrs : a = task[t].addr
    BY <1>1
  <2>2. DoNoPage(t, a) /\ task[t].state \in {"user", "call", "copy", "fill"}
    BY <1>3, <2>1 DEF KernelFault, ClearFault
  <2> QED BY <2>1, <2>2, NoPageData
<1>4. ASSUME NEW t \in Tasks, NEW a \in Addrs, DoWpPage(t, a) PROVE DataInv'
  <2>1. \E T, k : T = task /\ k = task[t]
    OBVIOUS
  <2>2. PICK T, k : T = task /\ k = task[t]
    BY <2>1
  <2>3. UnWpPage(t, a, T) /\ Present(t, a) /\ task[t].state = "user"
    BY <1>4, <2>2 DEF DoWpPage
  <2>4. T = [task EXCEPT ![t] = k] /\ k \in TaskRecord
    BY <1>1, <2>2
  <2>5. k.args = task[t].args /\ k.exe = task[t].exe /\ k.state = "user"
    BY <2>2, <2>3
  <2> HIDE <2>2
  <2> QED BY <2>3, <2>4, <2>5, UnWpData
<1>5. ASSUME NEW t \in Tasks, NEW a \in Addrs, VerifyArea(t, a) PROVE DataInv'
  <2> DEFINE h == [task[t] EXCEPT !.state = "call", !.addr = a]
  <2>1. PICK k : k = h
    OBVIOUS
  <2>2. PICK T : T = [task EXCEPT ![t] = k]
    OBVIOUS
  <2>3. /\ k \in TaskRecord /\ k.args = task[t].args /\ k.exe = task[t].exe
        /\ k.state = "call" /\ k.addr = a
    BY <1>1, <2>1 DEF TaskRecord
  <2>4. T = [task EXCEPT ![t].state = "call", ![t].addr = a]
    BY <2>1, <2>2
  <2>5. /\ task[t].state = "user"
        /\ IF Present(t, a) /\ ~pte[t][a].rw
           THEN UnWpPage(t, a, T)
           ELSE task' = T /\ UNCHANGED <<mem_map, dir, pte, data, history>>
    BY <1>5, <2>4 DEF VerifyArea
  <2> HIDE DEF h
  <2>6. CASE Present(t, a) /\ ~pte[t][a].rw
    BY <2>2, <2>3, <2>5, <2>6, UnWpData
  <2>7. CASE ~(Present(t, a) /\ ~pte[t][a].rw)
    <3>1. task' = [task EXCEPT ![t] = k] /\ UNCHANGED <<pte, data, history>>
      BY <2>2, <2>5, <2>7
    <3> QED BY <2>3, <2>5, <2>7, <3>1, TaskData
  <2> QED BY <2>6, <2>7
<1>6. ASSUME NEW t \in Tasks, NEW a \in Addrs, NEW v \in Values, UserWrite(t, a, v) PROVE DataInv'
  <2>1. PICK p : p = pte[t][a].page
    OBVIOUS
  <2>2. /\ p \in Pages /\ task[t].state = "user" /\ pte[t][a].rw
        /\ StoredTo(t, a, p, v) /\ BackToUser(t) /\ task' = task /\ misled' = misled
    BY <1>1, <1>6, <2>1 DEF UserWrite, Store, StoredTo, BackToUser, Present, MaybePages
  <2> QED BY <1>1, <2>2, StoreData DEF Recalled
<1>7. ASSUME NEW t \in Tasks, NEW v \in Values, KernelWrite(t, v) PROVE DataInv'
  <2>1. PICK a \in Addrs : a = task[t].addr
    BY <1>1
  <2>2. PICK p : p = pte[t][a].page
    OBVIOUS
  <2>3. /\ p \in Pages /\ task[t].state = "call" /\ Present(t, a)
        /\ StoredTo(t, a, p, v) /\ task' = [task EXCEPT ![t].state = "user", ![t].addr = Stack]
        /\ misled' = (misled \/ ~pte[t][a].rw)
    BY <1>1, <1>7, <2>1, <2>2 DEF KernelWrite, Store, StoredTo, Present, MaybePages
  <2>4. task'[t].state = "user" /\ BackToUser(t)
    BY <1>1, <2>3 DEF BackToUser, TaskRecord
  <2>5. pte[t][a].rw \/ (a \in Text /\ misled')
    <3>1. Verified(t)
      BY DEF DataInv, Contained
    <3> QED BY <2>1, <2>3, <3>1 DEF Verified
  <2>6. Recalled
    <3>1. pte[t][a].rw \in BOOLEAN
      BY DEF MemInv, Types, TypesOfTasks, PTEs
    <3> QED BY <1>1, <2>3, <3>1 DEF Recalled
  <2> QED BY <2>3, <2>4, <2>5, <2>6, StoreData
<1>8. ASSUME NEW t \in Tasks, SysExit(t) PROVE DataInv'
  BY <1>8, ExitData DEF SysExit
<1>9. CASE UNCHANGED vars
  <2>1. \A t, a : Present(t, a)' <=> Present(t, a)
    BY <1>9 DEF vars, Present
  <2>2. OneAddress' /\ TypesOfData'
    BY <1>9, <2>1 DEF vars, DataInv, OneAddress, TypesOfData
  <2>3. ASSUME NEW u \in Tasks PROVE Contained(u)'
    <3>1. Rests(u) /\ PagesKept(u) /\ Recalled
      BY <1>1, <1>9 DEF vars, Rests, PagesKept, Recalled
    <3> QED BY <3>1, RestingTask DEF DataInv
  <2> QED BY <2>2, <2>3 DEF DataInv
<1>10. CASE Next
  <2>1. PICK t \in Tasks :
    \/ \E a \in Addrs :
         \/ PageFault(t, a) \/ DoWpPage(t, a) \/ VerifyArea(t, a) \/ CopyFault(t, a)
         \/ \E v \in Values : UserWrite(t, a, v)
    \/ \E v \in Values : KernelWrite(t, v)
    \/ KernelFault(t) \/ Loaded(t)
    \/ \E u \in Tasks : Fork(t, u) \/ ForkFails(t, u)
    \/ CopyStrings(t) \/ ExecError(t) \/ ClearRest(t) \/ ClearFault(t)
    \/ \E e \in Executables : NoReturn(t, e)
    \/ \E aligned \in BOOLEAN : ChangeMemory(t, aligned)
    \/ SysExit(t) \/ Release(t)
    BY <1>10, Zenon DEF Next
  <2>2. (\E u \in Tasks : Fork(t, u) \/ ForkFails(t, u)) => DataInv'
    BY ForkData, ForkFailsData
  <2>3. \/ CopyStrings(t) \/ ExecError(t) \/ Release(t) \/ ClearRest(t)
        \/ \E e \in Executables : NoReturn(t, e)
        => DataInv'
    BY ExecData
  <2>4. Loaded(t) \/ (\E aligned \in BOOLEAN : ChangeMemory(t, aligned)) => DataInv'
    BY LoadedData, ChangeMemoryData
  <2> QED BY <1>2, <1>3, <1>4, <1>5, <1>6, <1>7, <1>8, <2>1, <2>2, <2>3, <2>4
<1> QED BY <1>9, <1>10

(***************************************************************************)
(* A task has what it wrote, whatever others do and wherever the kernel    *)
(* writes for it: no store reaches a page that somebody else has           *)
(* (memory.c:185-191, 232-249, 277-282), no page comes with what was left  *)
(* in it (63-80, 388-423), and try_to_share() takes pages only of tasks    *)
(* with the same executable that have not written to them (306-385).  Text *)
(* is excepted once a task may have that of another.                       *)
(***************************************************************************)
THEOREM DataStaysPrivate == Spec => []DataIsPrivate
<1>1. DataInv => DataIsPrivate
  BY DEF DataInv, Contained, HasOwn, DataIsPrivate
<1> QED BY <1>1, MemInit, MemNext, DataInit, DataNext, PTL DEF Spec

=============================================================================
