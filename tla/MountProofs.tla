----------------------------- MODULE MountProofs ----------------------------
(***************************************************************************)
(* What is proved of mounted devices, for any tasks, devices, directories  *)
(* and size of super_block[]: i_count is exact on both sides of a mount    *)
(* point, a device in use stays mounted, super blocks and mount points     *)
(* belong together, and the kernel does not panic over them.               *)
(***************************************************************************)
EXTENDS Mount, FiniteSetTheorems, TLAPS

\* What a task's record may be
Recs == [pc : Labels, op : {"chdir", "mount", "umount"}, dev : Devs \cup {NULL},
         x : Inodes \cup {NULL}, rest : {0, Sub, DotDot}, i : Inodes \cup {NULL},
         new : Inodes \cup {NULL}, s : Supers \cup {NULL}, ret : Labels, pwd : Inodes \cup {NULL}]

RootDirs == {ROOT_DEV} \X Dirs
MountRoots == Devs \X {ROOT_INO}

\* The places in iput()
Putting == {"iput", "written", "repeat"}

\* The places in mount() behind its first check
Mounting(r) == r.op = "mount" /\ r.pc \in {"change", "put", "release", "invalidate", "buffers",
                                           "get", "lock", "read_super"}

\* The places at which the task has an entry of super_block[] to itself
Owning == {"release", "lock", "read_super"}

\* The places between which and the next step no other task runs
Atomic == {"namei", "chdir", "up", "unmounted", "lock"}

\* The entry in hand is used.
HasSuperInHand(r) ==
  \/ r.pc \in Owning \/ r.ret = "unmounted"
  \/ (r.pc \in Putting \cup {"up"} /\ r.ret = "up")

\* The local variables of a task, from where it is
Places(r) ==
  /\ r.pc = "out" => r = Return(r)
  /\ r.ret = "chdir" => r.pc \in Putting \cup {"chdir"} /\ r.op = "chdir"
  /\ r.ret = "unmounted" => r.pc \in Putting \cup {"unmounted"}
  /\ r.pc \in {"chdir", "up", "unmounted"} => r.ret = r.pc
  /\ r.pc \in Putting => r.ret \in {"out", "iget", "root", "chdir", "up", "unmounted"}

Locals(r) ==
  /\ r.x # NULL <=> (r.pc \in {"iget", "again", "read"} \/ (r.pc \in Putting /\ r.ret = "iget"))
  /\ r.i # NULL <=> (r.pc \in {"find", "namei", "dotdot"} \cup Putting \/ Mounting(r))
  /\ r.new # NULL => r.ret = "chdir"
  /\ r.pc \in Putting /\ r.ret = "chdir" => r.pwd = r.i
  /\ r.pc \in Putting /\ r.ret = "up" => r.dev = Dev(r.i) /\ r.dev \in Devs
  /\ r.pc = "dotdot" => r.dev = Dev(r.i) /\ r.dev \in Devs
  /\ HasSuperInHand(r) => r.s \in Supers

Calls(r) ==
  /\ r.pc \in {"change", "invalidate", "buffers", "get", "lock", "read_super"} => r.op = "mount"
  /\ r.pc \in {"put", "release"} => r.op \in {"mount", "umount"}
  /\ r.pc = "umount" \/ r.ret = "unmounted" => r.op = "umount"
  /\ r.op # "chdir" => r.dev \in Devs
  /\ r.op = "mount" => r.rest = 0 /\ {r.x, r.i} \subseteq RootDirs \cup MountRoots \cup {NULL}
  /\ Mounting(r) => r.i \in RootDirs
  /\ r.op = "umount" => r.pc \in {"umount", "put", "release", "unmounted"} \/ r.ret = "unmounted"
  /\ r.pc \in {"root", "dotdot"} \/ r.ret \in {"root", "up"} => r.op = "chdir"

TasksOK == \A t \in Tasks : task[t] \in Recs /\ Places(task[t]) /\ Locals(task[t]) /\ Calls(task[t])

InodeRecs == [count : Nat, lock : BOOLEAN, dirt : BOOLEAN, mount : BOOLEAN]
SuperRecs == [dev : Devs \cup {NULL}, lock : BOOLEAN, read : BOOLEAN, imount : Inodes \cup {NULL}]

Types ==
  /\ current \in Tasks \cup {NULL}
  /\ inode \in [Inodes -> InodeRecs]
  /\ super \in [Supers -> SuperRecs]
  /\ task \in [Tasks -> Recs]

\* A task at one of the atomic places has the processor.
KeepsProcessor == \A t \in Tasks : task[t].pc \in Atomic => current = t

\* No device has two super blocks, no directory two that are mounted on it;
\* and a directory that is marked has one.
OneEach ==
  /\ \A s, p \in Supers : super[s].dev = super[p].dev /\ super[s].dev # NULL => s = p
  /\ \A s, p \in Supers : super[s].imount = super[p].imount /\ super[s].imount # NULL => s = p
  /\ \A x \in Inodes : inode[x].mount => \E s \in Supers : super[s].imount = x

Unmounts(t, s) == task[t].ret = "unmounted" /\ task[t].s = s

\* A super block that is mounted is that of a device and has been read; its
\* directory is marked, unless umount() has begun.
MountedOK ==
  \A s \in Supers : super[s].imount # NULL =>
    /\ super[s].dev # NULL /\ super[s].read /\ super[s].imount \in RootDirs
    /\ inode[super[s].imount].mount \/ \E t \in Tasks : Unmounts(t, s)

\* One that has not been read is being read.
BeingRead ==
  \A s \in Supers : super[s].dev # NULL /\ ~super[s].read =>
    super[s].lock \/ \E t \in Tasks : task[t].pc = "lock" /\ task[t].s = s

\* A umount() behind its check: nobody is on the device or on the way to it.
Unmounting ==
  \A t \in Tasks : task[t].ret = "unmounted" =>
    LET s == task[t].s IN
    /\ super[s].imount # NULL /\ super[s].dev = task[t].dev
    /\ task[t].pc \in Putting => super[s].imount = task[t].i
    /\ ~inode[super[s].imount].mount
    /\ ~InUse(task[t].dev)
    /\ \A u \in Tasks : task[u].ret = "unmounted" /\ task[u].dev = task[t].dev => u = t

\* The device is mounted, and no umount() of it has passed its check.
Stays(v) == IsMounted(v) /\ \A u \in Tasks : ~(task[u].ret = "unmounted" /\ task[u].dev = v)

\* iget() looks only for inodes of devices that stay.
OnItsWay == \A t \in Tasks : task[t].x # NULL /\ Dev(task[t].x) \in Devs => Stays(Dev(task[t].x))

\* The directory of a mount() behind its check is its own.
OwnDirectory ==
  /\ \A t \in Tasks, s \in Supers : Mounting(task[t]) => super[s].imount # task[t].i
  /\ \A t, u \in Tasks : Mounting(task[t]) /\ Mounting(task[u]) /\ task[t].i = task[u].i => t = u

\* Entries of super_block[] that a task has to itself
OwnEntry ==
  /\ \A t \in Tasks : task[t].pc \in Owning =>
       LET s == task[t].s IN
       /\ super[s].lock = (task[t].pc # "lock")
       /\ super[s].imount = NULL
       /\ super[s].dev = IF task[t].pc = "release" THEN NULL ELSE task[t].dev
  /\ \A t, u \in Tasks : task[t].pc \in Owning /\ task[u].pc \in Owning /\ task[t].s = task[u].s => t = u

\* The mount point for '..' is there.
MountPointThere ==
  \A t \in Tasks : task[t].pc \in Putting \cup {"up"} /\ task[t].ret = "up" =>
    /\ super[task[t].s].imount # NULL
    /\ task[t].pc \in Putting => super[task[t].s].dev = task[t].dev

UsedIsMounted == \A v \in Devs : InUse(v) => IsMounted(v)

-----------------------------------------------------------------------------
(* References, and how many there are.                                     *)

\* One inode more, or none
One(b) == IF b THEN 1 ELSE 0

\* Facts about the inodes that the constants give
LEMMA InodeFacts ==
  /\ \A x \in Inodes : Dev(x) \in Devs \cup {ROOT_DEV}
  /\ \A x \in Inodes : Dev(x) = ROOT_DEV <=> x \in RootDirs
  /\ \A x \in Inodes : Num(x) = ROOT_INO => Dev(x) \in Devs
  /\ \A x \in Inodes : Num(x) # ROOT_INO => x \notin MountRoots
  /\ \A x \in MountRoots : Num(x) = ROOT_INO
  /\ RootDirs \subseteq Inodes /\ MountRoots \subseteq Inodes
  /\ \A v \in Devs : /\ <<v, ROOT_INO>> \in MountRoots /\ Dev(<<v, ROOT_INO>>) = v
                     /\ <<v, Sub>> \in Inodes /\ Dev(<<v, Sub>>) = v
  /\ \A d \in Dirs : <<ROOT_DEV, d>> \in RootDirs /\ Dev(<<ROOT_DEV, d>>) = ROOT_DEV
  /\ ROOT_DEV \notin Devs /\ NULL \notin Inodes
  <1>1. ROOT_DEV \notin Devs /\ ROOT_INO \notin Dirs /\ NULL \notin Inodes
    BY MountAssumption
  <1>2. \A x \in Inodes : \/ x = <<x[1], x[2]>> /\ x[1] = ROOT_DEV /\ x[2] \in Dirs
                          \/ x = <<x[1], x[2]>> /\ x[1] \in Devs /\ x[2] \in {ROOT_INO, Sub}
    BY DEF Inodes
  <1>3. \A x \in Inodes : Dev(x) = ROOT_DEV <=> x \in RootDirs
    BY <1>1, <1>2 DEF RootDirs, Dev
  <1>4. \A x \in Inodes : Num(x) = ROOT_INO => Dev(x) \in Devs
    BY <1>1, <1>2 DEF Dev, Num
  <1>5. RootDirs \subseteq Inodes /\ MountRoots \subseteq Inodes
    BY DEF RootDirs, MountRoots, Inodes
  <1>6. \A x \in MountRoots : Num(x) = ROOT_INO
    BY DEF MountRoots, Num
  <1>7. \A v \in Devs : /\ <<v, ROOT_INO>> \in MountRoots /\ Dev(<<v, ROOT_INO>>) = v
                        /\ <<v, Sub>> \in Inodes /\ Dev(<<v, Sub>>) = v
    BY DEF MountRoots, Inodes, Dev
  <1>8. \A d \in Dirs : <<ROOT_DEV, d>> \in RootDirs /\ Dev(<<ROOT_DEV, d>>) = ROOT_DEV
    BY DEF RootDirs, Dev
  <1>9. \A x \in Inodes : Dev(x) \in Devs \cup {ROOT_DEV}
    BY <1>2 DEF Dev
  <1> QED
    BY <1>1, <1>3, <1>4, <1>5, <1>6, <1>7, <1>8, <1>9

\* Is the element in the set?
Has(S, a) == IF a \in S THEN 1 ELSE 0

\* The sets differ only in elements of D.
SameBut(S, U, D) == S \ D = U \ D

\* Two finite sets that differ in one element
LEMMA CardinalityChange ==
  ASSUME NEW S, NEW U, IsFiniteSet(S), NEW x, S \ {x} = U \ {x}
  PROVE  /\ IsFiniteSet(U) /\ Cardinality(S) \in Nat /\ Cardinality(U) \in Nat
         /\ Cardinality(U) + Has(S, x) = Cardinality(S) + Has(U, x)
  <1> DEFINE R == S \ {x}
  <1>1. IsFiniteSet(R) /\ IsFiniteSet(R \cup {x})
    BY FS_RemoveElement, FS_AddElement
  <1>2. Cardinality(S) \in Nat /\ Cardinality(R) \in Nat
    BY <1>1, FS_CardinalityType
  <1>3. Cardinality(S) = Cardinality(R) + Has(S, x)
    <2>1. CASE x \in S
      <3>1. Cardinality(R) = Cardinality(S) - 1
        BY <2>1, FS_RemoveElement
      <3> HIDE DEF R
      <3> QED
        BY <1>2, <2>1, <3>1 DEF Has
    <2>2. CASE x \notin S
      <3>1. R = S
        BY <2>2
      <3> HIDE DEF R
      <3> QED
        BY <1>2, <2>2, <3>1 DEF Has
    <2> QED
      BY <2>1, <2>2
  <1>4. Cardinality(R \cup {x}) = Cardinality(R) + 1
    BY <1>1, FS_AddElement
  <1>5. CASE x \in U
    <2>1. U = R \cup {x}
      BY <1>5
    <2> HIDE DEF R
    <2> QED
      BY <1>1, <1>2, <1>3, <1>4, <1>5, <2>1 DEF Has
  <1>6. CASE x \notin U
    <2>1. U = R
      BY <1>6
    <2> HIDE DEF R
    <2> QED
      BY <1>1, <1>2, <1>3, <1>6, <2>1 DEF Has
  <1> QED
    BY <1>5, <1>6

\* ... in two elements
LEMMA TwoChange ==
  ASSUME NEW S, NEW U, IsFiniteSet(S), NEW a, NEW b, a # b, SameBut(S, U, {a, b})
  PROVE  /\ IsFiniteSet(U) /\ Cardinality(S) \in Nat /\ Cardinality(U) \in Nat
         /\ Cardinality(U) + (Has(S, a) + Has(S, b)) = Cardinality(S) + (Has(U, a) + Has(U, b))
  <1> DEFINE W == IF a \in U THEN S \cup {a} ELSE S \ {a}
  <1>1. S \ {a} = W \ {a} /\ (a \in W <=> a \in U) /\ (b \in W <=> b \in S) /\ W \ {b} = U \ {b}
    BY DEF SameBut
  <1> HIDE DEF W
  <1>2. /\ IsFiniteSet(W) /\ Cardinality(S) \in Nat /\ Cardinality(W) \in Nat
        /\ Cardinality(W) + Has(S, a) = Cardinality(S) + Has(W, a)
    BY <1>1, CardinalityChange
  <1>3. /\ IsFiniteSet(U) /\ Cardinality(U) \in Nat
        /\ Cardinality(U) + Has(W, b) = Cardinality(W) + Has(U, b)
    BY <1>1, <1>2, CardinalityChange
  <1>4. Has(W, a) = Has(U, a) /\ Has(W, b) = Has(S, b)
    BY <1>1 DEF Has
  <1> QED
    BY <1>2, <1>3, <1>4 DEF Has

\* ... in four elements
LEMMA FourChange ==
  ASSUME NEW S, NEW U, IsFiniteSet(S), NEW a, NEW b, NEW c, NEW d,
         a # b, c # d, a # c, a # d, b # c, b # d, SameBut(S, U, {a, b, c, d})
  PROVE  /\ IsFiniteSet(U) /\ Cardinality(S) \in Nat /\ Cardinality(U) \in Nat
         /\ Cardinality(U) + (Has(S, a) + Has(S, b) + Has(S, c) + Has(S, d))
            = Cardinality(S) + (Has(U, a) + Has(U, b) + Has(U, c) + Has(U, d))
  <1> DEFINE V == IF a \in U THEN S \cup {a} ELSE S \ {a}
             W == IF b \in U THEN V \cup {b} ELSE V \ {b}
  <1>1. /\ S \ {a} = V \ {a} /\ (a \in V <=> a \in U) 
        /\ (b \in V <=> b \in S) /\ (c \in V <=> c \in S) /\ (d \in V <=> d \in S)
        /\ V \ {b, c, d} = U \ {b, c, d}
    BY DEF SameBut
  <1> HIDE DEF V
  <1>2. /\ V \ {b} = W \ {b} /\ (a \in W <=> a \in U) /\ (b \in W <=> b \in U)
        /\ (c \in W <=> c \in S) /\ (d \in W <=> d \in S)
        /\ W \ {c, d} = U \ {c, d}
    BY <1>1
  <1> HIDE DEF W
  <1>3. SameBut(W, U, {c, d})
    BY <1>2 DEF SameBut
  <1>4. /\ IsFiniteSet(W) /\ Cardinality(S) \in Nat /\ Cardinality(W) \in Nat
        /\ Cardinality(W) + (Has(S, a) + Has(S, b)) = Cardinality(S) + (Has(W, a) + Has(W, b))
    <2>1. /\ IsFiniteSet(V) /\ Cardinality(S) \in Nat /\ Cardinality(V) \in Nat
          /\ Cardinality(V) + Has(S, a) = Cardinality(S) + Has(V, a)
      BY <1>1, CardinalityChange
    <2>2. /\ IsFiniteSet(W) /\ Cardinality(W) \in Nat
          /\ Cardinality(W) + Has(V, b) = Cardinality(V) + Has(W, b)
      BY <1>2, <2>1, CardinalityChange
    <2>3. Has(V, a) = Has(W, a) /\ Has(V, b) = Has(S, b)
      BY <1>1, <1>2 DEF Has
    <2> QED
      BY <2>1, <2>2, <2>3 DEF Has
  <1>5. /\ IsFiniteSet(U) /\ Cardinality(U) \in Nat
        /\ Cardinality(U) + (Has(W, c) + Has(W, d)) = Cardinality(W) + (Has(U, c) + Has(U, d))
    BY <1>3, <1>4, TwoChange
  <1>6. /\ Has(W, a) = Has(U, a) /\ Has(W, b) = Has(U, b)
        /\ Has(W, c) = Has(S, c) /\ Has(W, d) = Has(S, d)
    BY <1>2 DEF Has
  <1> QED
    BY <1>4, <1>5, <1>6 DEF Has

\* References of a task whose record is r
Puts(r) == r.ret = "unmounted" /\ r.pc \in Putting

RefersTo(r, x, f) ==
  CASE f = "pwd" -> r.pwd = x /\ r.ret # "chdir"
    [] f = "i" -> r.i = x /\ ~Puts(r)
    [] f = "new" -> r.new = x
    [] f = "x" -> r.x = x /\ r.pc = "read"

\* ... how many
Held(r, x) == One(r.pwd = x /\ r.ret # "chdir") + One(r.i = x /\ ~Puts(r)) + One(r.new = x)
              + One(r.x = x /\ r.pc = "read")

\* ... and those of all the tasks, which are finitely many
Holders(T, x) == {h \in Tasks \X {"pwd", "i", "new", "x"} : RefersTo(T[h[1]], x, h[2])}

\* The tasks have finitely many references to an inode (the counts of
\* iget() and iput() are numbers).
LEMMA HoldersFinite ==
  ASSUME NEW T, NEW x
  PROVE  IsFiniteSet(Holders(T, x))
  <1>1. IsFiniteSet({"pwd"})
    BY FS_Singleton
  <1>2. IsFiniteSet({"pwd"} \cup {"i"})
    BY <1>1, FS_AddElement
  <1>3. IsFiniteSet(({"pwd"} \cup {"i"}) \cup {"new"})
    BY <1>2, FS_AddElement
  <1>4. IsFiniteSet((({"pwd"} \cup {"i"}) \cup {"new"}) \cup {"x"})
    BY <1>3, FS_AddElement
  <1>5. {"pwd", "i", "new", "x"} = (({"pwd"} \cup {"i"}) \cup {"new"}) \cup {"x"}
    OBVIOUS
  <1>6. IsFiniteSet({"pwd", "i", "new", "x"})
    BY <1>4, <1>5
  <1>7. IsFiniteSet(Tasks \X {"pwd", "i", "new", "x"})
    BY <1>6, FS_Product, MountAssumption
  <1> QED
    BY <1>7, FS_Subset DEF Holders

\* The table of the tasks, in which the record of t becomes q
Replaced(T, U, t, q) == T \in [Tasks -> Recs] /\ U = [T EXCEPT ![t] = q]

\* The step of one task changes the number of references by its own.
LEMMA HoldersStep ==
  ASSUME NEW T, NEW U, NEW t \in Tasks, NEW q, NEW x, Replaced(T, U, t, q)
  PROVE  /\ Cardinality(Holders(T, x)) \in Nat /\ Cardinality(Holders(U, x)) \in Nat
         /\ Cardinality(Holders(U, x)) + Held(T[t], x) = Cardinality(Holders(T, x)) + Held(q, x)
  <1> DEFINE F == {"pwd", "i", "new", "x"}
             S == Holders(T, x)
             W == Holders(U, x)
  <1>1. IsFiniteSet(S)
    BY HoldersFinite
  <1>2. \A h \in Tasks \X F : h[1] # t => (h \in S <=> h \in W)
    BY DEF Holders, Replaced
  <1>3. \A h \in Tasks \X F : h = <<h[1], h[2]>>
    OBVIOUS
  <1>4. S \ {<<t, "pwd">>, <<t, "i">>, <<t, "new">>, <<t, "x">>} = W \ {<<t, "pwd">>, <<t, "i">>, <<t, "new">>, <<t, "x">>}
    BY <1>2, <1>3 DEF Holders
  <1>5. /\ <<t, "pwd">> \in S <=> (T[t].pwd = x /\ T[t].ret # "chdir")
        /\ <<t, "i">> \in S <=> (T[t].i = x /\ ~Puts(T[t]))
        /\ <<t, "new">> \in S <=> T[t].new = x
        /\ <<t, "x">> \in S <=> (T[t].x = x /\ T[t].pc = "read")
    BY DEF Holders, RefersTo
  <1>6. U[t] = q
    BY DEF Replaced
  <1>7. /\ <<t, "pwd">> \in W <=> (q.pwd = x /\ q.ret # "chdir")
        /\ <<t, "i">> \in W <=> (q.i = x /\ ~Puts(q))
        /\ <<t, "new">> \in W <=> q.new = x
        /\ <<t, "x">> \in W <=> (q.x = x /\ q.pc = "read")
    BY <1>6 DEF Holders, RefersTo
  <1> HIDE DEF S, W
  <1>8. /\ Cardinality(S) \in Nat /\ Cardinality(W) \in Nat
        /\ Cardinality(W) + (Has(S, <<t, "pwd">>) + Has(S, <<t, "i">>) + Has(S, <<t, "new">>) + Has(S, <<t, "x">>))
           = Cardinality(S) + (Has(W, <<t, "pwd">>) + Has(W, <<t, "i">>) + Has(W, <<t, "new">>) + Has(W, <<t, "x">>))
    <2>1. PICK a, b, c, d : a = <<t, "pwd">> /\ b = <<t, "i">> /\ c = <<t, "new">> /\ d = <<t, "x">>
      OBVIOUS
    <2>2. a # b /\ c # d /\ a # c /\ a # d /\ b # c /\ b # d
      BY <2>1
    <2>3. SameBut(S, W, {a, b, c, d})
      BY <1>4, <2>1 DEF SameBut
    <2>4. /\ Cardinality(S) \in Nat /\ Cardinality(W) \in Nat
          /\ Cardinality(W) + (Has(S, a) + Has(S, b) + Has(S, c) + Has(S, d))
             = Cardinality(S) + (Has(W, a) + Has(W, b) + Has(W, c) + Has(W, d))
      BY <1>1, <2>2, <2>3, FourChange
    <2> QED
      BY <2>1, <2>4
  <1>9. Has(S, <<t, "pwd">>) + Has(S, <<t, "i">>) + Has(S, <<t, "new">>) + Has(S, <<t, "x">>) = Held(T[t], x)
    BY <1>5 DEF Held, One, Has
  <1>10. Has(W, <<t, "pwd">>) + Has(W, <<t, "i">>) + Has(W, <<t, "new">>) + Has(W, <<t, "x">>) = Held(q, x)
    BY <1>7 DEF Held, One, Has
  <1> QED
    BY <1>8, <1>9, <1>10 DEF S, W

\* Who has a reference is counted.
LEMMA HoldersPositive ==
  ASSUME NEW T \in [Tasks -> Recs], NEW t \in Tasks, NEW x, Held(T[t], x) > 0
  PROVE  Cardinality(Holders(T, x)) > 0 /\ Cardinality(Holders(T, x)) \in Nat
  <1> DEFINE F == {"pwd", "i", "new", "x"}
  <1>1. IsFiniteSet(Holders(T, x))
    BY HoldersFinite
  <1>2. \E f \in F : RefersTo(T[t], x, f)
    BY DEF Held, One, RefersTo
  <1>3. Holders(T, x) # {}
    <2>1. PICK f \in F : RefersTo(T[t], x, f)
      BY <1>2
    <2>2. <<t, f>> \in Holders(T, x)
      BY <2>1 DEF Holders
    <2> QED
      BY <2>2
  <1> QED
    BY <1>1, <1>3, FS_EmptySet, FS_CardinalityType

\* The equation of CountsExact
Exact ==
  \A x \in Inodes : inode[x].count = Cardinality(Holders(task, x)) + Cardinality(Mounts(x))

Good == /\ Types /\ ~panic /\ TasksOK /\ KeepsProcessor /\ OneEach /\ MountedOK /\ BeingRead /\ Unmounting
        /\ OnItsWay /\ OwnDirectory /\ OwnEntry /\ MountPointThere /\ UsedIsMounted /\ Exact

-----------------------------------------------------------------------------
(* What a step of task t, whose record becomes q, has to do to keep the    *)
(* parts of the invariant.                                                 *)

TaskStep(t, q) ==
  /\ task' = [task EXCEPT ![t] = q]
  /\ q \in Recs /\ Places(q) /\ Locals(q) /\ Calls(q)
  /\ current \in {NULL, t} /\ current' \in {NULL, t} /\ (q.pc \in Atomic => current' = t)
  /\ panic' = panic

\* No directory is marked or unmarked, and only inodes of devices that stay
\* come into use.
InodesStep ==
  /\ inode' \in [Inodes -> InodeRecs]
  /\ \A x \in Inodes : inode'[x].mount = inode[x].mount
  /\ \A x \in Inodes : inode'[x].count > 0 /\ Dev(x) \in Devs => inode[x].count > 0 \/ Stays(Dev(x))

\* Only super blocks change that are not mounted, and none becomes so.
SupersStep ==
  /\ super' \in [Supers -> SuperRecs]
  /\ \A s \in Supers : super'[s].imount = super[s].imount
  /\ \A s \in Supers : super[s].imount # NULL =>
       super'[s].dev = super[s].dev /\ super'[s].read = super[s].read
  /\ \A s, p \in Supers : super'[s].dev = super'[p].dev /\ super'[s].dev # NULL => s = p

UnmountStep(r, q) ==
  /\ r.ret = "unmounted" <=> q.ret = "unmounted"
  /\ q.ret = "unmounted" => /\ q.s = r.s /\ q.dev = r.dev
                            /\ q.pc \in Putting => r.pc \in Putting /\ q.i = r.i

WayStep(q) == q.x # NULL /\ Dev(q.x) \in Devs => Stays(Dev(q.x))

DirectoryStep(t, q) ==
  Mounting(q) => /\ \A s \in Supers : super[s].imount # q.i
                 /\ \A u \in Tasks : u # t /\ Mounting(task[u]) => task[u].i # q.i

UpStep(q) ==
  q.pc \in Putting \cup {"up"} /\ q.ret = "up" =>
    /\ super[q.s].imount # NULL
    /\ q.pc \in Putting => super[q.s].dev = q.dev

CountStep(r, q) ==
  \A x \in Inodes :
    inode'[x].count + (Held(r, x) + Cardinality(Mounts(x)))
      = inode[x].count + (Held(q, x) + Cardinality(Mounts(x)'))

\* The numbers in the equation are numbers.
LEMMA HeldIsNat ==
  ASSUME NEW r, NEW x
  PROVE  Held(r, x) \in Nat
  BY DEF Held, One

\* Finitely many super blocks are mounted on a directory (super_block[]).
LEMMA MountsFinite ==
  ASSUME NEW x
  PROVE  IsFiniteSet(Mounts(x)) /\ Cardinality(Mounts(x)) \in Nat
  BY MountAssumption, FS_Subset, FS_CardinalityType DEF Mounts

\* ... in the next state, too
LEMMA MountsFiniteNext ==
  ASSUME NEW x
  PROVE  IsFiniteSet(Mounts(x)') /\ Cardinality(Mounts(x)') \in Nat
  BY MountAssumption, FS_Subset, FS_CardinalityType DEF Mounts

\* The references stay exact if the step keeps the balance.
LEMMA ExactStep ==
  ASSUME Types, Exact, NEW t \in Tasks, NEW q,
         task' = [task EXCEPT ![t] = q], CountStep(task[t], q), inode' \in [Inodes -> InodeRecs]
  PROVE  Exact'
  <1> SUFFICES ASSUME NEW x \in Inodes
               PROVE  inode'[x].count = Cardinality(Holders(task', x)) + Cardinality(Mounts(x)')
    BY DEF Exact
  <1>1. task \in [Tasks -> Recs] /\ inode[x].count \in Nat /\ inode'[x].count \in Nat
    BY DEF Types, InodeRecs
  <1>2. PICK T, U, r : T = task /\ U = task' /\ r = task[t]
    OBVIOUS
  <1>3. /\ Cardinality(Holders(T, x)) \in Nat /\ Cardinality(Holders(U, x)) \in Nat
        /\ Cardinality(Holders(U, x)) + Held(r, x) = Cardinality(Holders(T, x)) + Held(q, x)
    <2>1. Replaced(T, U, t, q) /\ r = T[t]
      BY <1>1, <1>2 DEF Replaced
    <2>2. /\ Cardinality(Holders(T, x)) \in Nat /\ Cardinality(Holders(U, x)) \in Nat
          /\ Cardinality(Holders(U, x)) + Held(T[t], x) = Cardinality(Holders(T, x)) + Held(q, x)
      BY <2>1, HoldersStep
    <2> QED
      BY <2>1, <2>2
  <1>4. Held(r, x) \in Nat /\ Held(q, x) \in Nat
    BY HeldIsNat
  <1>5. Cardinality(Mounts(x)) \in Nat /\ Cardinality(Mounts(x)') \in Nat
    BY MountsFinite, MountsFiniteNext
  <1>6. inode[x].count = Cardinality(Holders(T, x)) + Cardinality(Mounts(x))
    BY <1>2 DEF Exact
  <1>7. inode'[x].count + (Held(r, x) + Cardinality(Mounts(x)))
          = inode[x].count + (Held(q, x) + Cardinality(Mounts(x)'))
    BY <1>2 DEF CountStep
  <1>8. inode'[x].count = Cardinality(Holders(U, x)) + Cardinality(Mounts(x)')
    BY <1>1, <1>3, <1>4, <1>5, <1>6, <1>7
  <1> QED
    BY <1>2, <1>8

\* A step that does these things keeps the invariant.
LEMMA StepKeeps ==
  ASSUME Good, NEW t \in Tasks, NEW q, TaskStep(t, q), InodesStep, SupersStep,
         UnmountStep(task[t], q), WayStep(q), DirectoryStep(t, q), UpStep(q), CountStep(task[t], q),
         BeingRead', OwnEntry'
  PROVE  Good'
  <1>1. Types /\ TasksOK /\ KeepsProcessor /\ NULL \notin Tasks /\ ~panic
    BY MountAssumption DEF Good
  <1>2. task \in [Tasks -> Recs] /\ task' = [task EXCEPT ![t] = q]
    BY <1>1 DEF Types, TaskStep
  <1>3. task'[t] = q /\ \A u \in Tasks : u # t => task'[u] = task[u]
    BY <1>2
  <1>4. Types'
    BY <1>1, <1>2 DEF Types, TaskStep, InodesStep, SupersStep
  <1>5. TasksOK'
    BY <1>1, <1>3 DEF TasksOK, TaskStep
  <1>6. \A u \in Tasks : u # t => task[u].pc \notin Atomic
    BY <1>1 DEF KeepsProcessor, TaskStep
  <1>7. KeepsProcessor'
    BY <1>3, <1>6 DEF KeepsProcessor, TaskStep
  <1>8. OneEach'
    BY DEF Good, OneEach, InodesStep, SupersStep
  <1>9. \A u \in Tasks : task'[u].ret = "unmounted" <=> task[u].ret = "unmounted"
    BY <1>3 DEF UnmountStep
  <1>10. \A u \in Tasks : task'[u].ret = "unmounted" => /\ task'[u].s = task[u].s /\ task'[u].dev = task[u].dev
                                                        /\ task'[u].pc \in Putting => /\ task[u].pc \in Putting
                                                                                      /\ task'[u].i = task[u].i
    BY <1>3 DEF UnmountStep
  <1>11. MountedOK'
    <2> SUFFICES ASSUME NEW s \in Supers, super'[s].imount # NULL
                 PROVE  /\ super'[s].dev # NULL /\ super'[s].read /\ super'[s].imount \in RootDirs
                        /\ inode'[super'[s].imount].mount \/ \E u \in Tasks : Unmounts(u, s)'
      BY DEF MountedOK
    <2>1. super[s].imount # NULL /\ super'[s].imount = super[s].imount /\ super'[s].dev = super[s].dev
          /\ super'[s].read = super[s].read
      BY DEF SupersStep
    <2>2. /\ super[s].dev # NULL /\ super[s].read /\ super[s].imount \in RootDirs
          /\ inode[super[s].imount].mount \/ \E u \in Tasks : Unmounts(u, s)
      BY <2>1 DEF Good, MountedOK
    <2>3. super[s].imount \in Inodes
      BY <2>2, InodeFacts
    <2>4. \A u \in Tasks : Unmounts(u, s) => Unmounts(u, s)'
      BY <1>9, <1>10 DEF Unmounts
    <2> QED
      BY <2>1, <2>2, <2>3, <2>4 DEF InodesStep
  <1>12. \A v \in Devs : Stays(v) => IsMounted(v)' /\ Stays(v)'
    <2> SUFFICES ASSUME NEW v \in Devs, Stays(v) PROVE IsMounted(v)' /\ Stays(v)'
      OBVIOUS
    <2>1. PICK s \in Supers : super[s].dev = v /\ super[s].read /\ super[s].imount # NULL
      BY DEF Stays, IsMounted, OfDev
    <2>2. super'[s].dev = v /\ super'[s].read /\ super'[s].imount # NULL
      BY <2>1 DEF SupersStep
    <2>3. IsMounted(v)'
      BY <2>2 DEF IsMounted, OfDev
    <2>4. \A u \in Tasks : ~(task'[u].ret = "unmounted" /\ task'[u].dev = v)
      BY <1>9, <1>10 DEF Stays
    <2> QED
      BY <2>3, <2>4 DEF Stays
  <1>13. \A v \in Devs : InUse(v)' => InUse(v) \/ Stays(v)
    BY DEF InUse, InodesStep
  <1>14. Unmounting'
    <2> SUFFICES ASSUME NEW u \in Tasks, task'[u].ret = "unmounted"
                 PROVE  /\ super'[task'[u].s].imount # NULL /\ super'[task'[u].s].dev = task'[u].dev
                        /\ task'[u].pc \in Putting => super'[task'[u].s].imount = task'[u].i
                        /\ ~inode'[super'[task'[u].s].imount].mount
                        /\ \A x \in Inodes : Dev(x) = task'[u].dev => ~(inode'[x].count > 0)
                        /\ \A w \in Tasks : task'[w].ret = "unmounted" /\ task'[w].dev = task'[u].dev => w = u
      BY DEF Unmounting, InUse
    <2>1. task[u].ret = "unmounted" /\ task'[u].s = task[u].s /\ task'[u].dev = task[u].dev
      BY <1>9, <1>10
    <2>2. /\ super[task[u].s].imount # NULL /\ super[task[u].s].dev = task[u].dev
          /\ task[u].pc \in Putting => super[task[u].s].imount = task[u].i
          /\ ~inode[super[task[u].s].imount].mount
          /\ ~InUse(task[u].dev)
          /\ \A w \in Tasks : task[w].ret = "unmounted" /\ task[w].dev = task[u].dev => w = u
      BY <2>1 DEF Good, Unmounting
    <2>3. task[u].s \in Supers /\ task[u].dev \in Devs
      BY <1>1, <2>1 DEF TasksOK, Locals, Calls, HasSuperInHand
    <2>4. super'[task[u].s].imount = super[task[u].s].imount /\ super'[task[u].s].dev = super[task[u].s].dev
      BY <2>2, <2>3 DEF SupersStep
    <2>5. super[task[u].s].imount \in Inodes
      BY <2>2, <2>3, InodeFacts DEF Good, MountedOK
    <2>6. \A x \in Inodes : Dev(x) = task'[u].dev => ~(inode'[x].count > 0)
      <3>1. PICK v \in Devs : v = task[u].dev
        BY <2>3
      <3>2. ~Stays(v) /\ ~InUse(v)
        BY <2>1, <2>2, <3>1 DEF Stays, InUse
      <3>3. ~InUse(v)'
        BY <1>13, <3>2
      <3> QED
        BY <2>1, <3>1, <3>3 DEF InUse
    <2>7. ~inode'[super[task[u].s].imount].mount
      BY <2>2, <2>5 DEF InodesStep
    <2>8. task'[u].pc \in Putting => super'[task'[u].s].imount = task'[u].i
      BY <1>10, <2>1, <2>2, <2>4
    <2>9. \A w \in Tasks : task'[w].ret = "unmounted" /\ task'[w].dev = task'[u].dev => w = u
      BY <1>9, <1>10, <2>1, <2>2
    <2> QED
      BY <2>1, <2>2, <2>4, <2>6, <2>7, <2>8, <2>9
  <1>15. OnItsWay'
    <2> SUFFICES ASSUME NEW u \in Tasks, NEW v \in Devs, task'[u].x # NULL, Dev(task'[u].x) = v
                 PROVE  Stays(v)'
      BY DEF OnItsWay, Stays, IsMounted, OfDev
    <2>1. Stays(v)
      <3>1. CASE u = t
        BY <1>3, <3>1 DEF WayStep
      <3>2. CASE u # t
        <4>1. Stays(Dev(task[u].x)) /\ Dev(task[u].x) = v
          BY <1>3, <3>2 DEF Good, OnItsWay
        <4> QED
          BY <4>1
      <3> QED
        BY <3>1, <3>2
    <2> QED
      BY <1>12, <2>1
  <1>16. OwnDirectory'
    <2>1. \A u \in Tasks, s \in Supers : Mounting(task'[u]) => super'[s].imount # task'[u].i
      <3> SUFFICES ASSUME NEW u \in Tasks, NEW s \in Supers, Mounting(task'[u])
                   PROVE  super[s].imount # task'[u].i
        BY DEF SupersStep
      <3>1. CASE u = t
        BY <1>3, <3>1 DEF DirectoryStep
      <3>2. CASE u # t
        BY <1>3, <3>2 DEF Good, OwnDirectory
      <3> QED
        BY <3>1, <3>2
    <2>2. \A u, w \in Tasks : Mounting(task'[u]) /\ Mounting(task'[w]) /\ task'[u].i = task'[w].i => u = w
      BY <1>3 DEF Good, OwnDirectory, DirectoryStep
    <2> QED
      BY <2>1, <2>2 DEF OwnDirectory, Mounting
  <1>17. MountPointThere'
    <2> SUFFICES ASSUME NEW u \in Tasks, task'[u].pc \in Putting \cup {"up"}, task'[u].ret = "up"
                 PROVE  /\ super'[task'[u].s].imount # NULL
                        /\ task'[u].pc \in Putting => super'[task'[u].s].dev = task'[u].dev
      BY DEF MountPointThere
    <2>1. /\ super[task'[u].s].imount # NULL
          /\ task'[u].pc \in Putting => super[task'[u].s].dev = task'[u].dev
      <3>1. CASE u = t
        BY <1>3, <3>1 DEF UpStep
      <3>2. CASE u # t
        BY <1>3, <3>2 DEF Good, MountPointThere
      <3> QED
        BY <3>1, <3>2
    <2>2. task'[u].s \in Supers
      BY <1>5 DEF TasksOK, Locals, HasSuperInHand
    <2> QED
      BY <2>1, <2>2 DEF SupersStep
  <1>18. UsedIsMounted'
    <2> SUFFICES ASSUME NEW v \in Devs, InUse(v)' PROVE IsMounted(v)'
      BY DEF UsedIsMounted
    <2>1. CASE Stays(v)
      BY <1>12, <2>1
    <2>2. CASE ~Stays(v)
      <3>1. InUse(v)
        BY <1>13, <2>2
      <3>2. IsMounted(v)
        BY <3>1 DEF Good, UsedIsMounted
      <3>3. PICK s \in Supers : super[s].dev = v /\ super[s].read /\ super[s].imount # NULL
        BY <3>2 DEF IsMounted, OfDev
      <3>4. super'[s].dev = v /\ super'[s].read /\ super'[s].imount # NULL
        BY <3>3 DEF SupersStep
      <3> QED
        BY <3>4 DEF IsMounted, OfDev
    <2> QED
      BY <2>1, <2>2
  <1>19. Exact'
    BY <1>1, <1>2, ExactStep DEF Good, InodesStep
  <1> QED
    BY <1>1, <1>4, <1>5, <1>7, <1>8, <1>11, <1>14, <1>15, <1>16, <1>17, <1>18, <1>19 DEF Good, TaskStep

-----------------------------------------------------------------------------
(* The operators on a task's record.                                       *)

\* Jump() changes the place only.
LEMMA JumpFields ==
  ASSUME NEW r \in Recs, NEW l \in Labels, NEW q, q = Jump(r, l)
  PROVE  /\ q \in Recs /\ q.pc = l /\ q.op = r.op /\ q.dev = r.dev /\ q.x = r.x /\ q.rest = r.rest
         /\ q.i = r.i /\ q.new = r.new /\ q.s = r.s /\ q.ret = r.ret /\ q.pwd = r.pwd
  BY DEF Jump, Recs

\* A system call that returns leaves the directory of the task only.
LEMMA ReturnFields ==
  ASSUME NEW r \in Recs, NEW q, q = Return(r)
  PROVE  /\ q \in Recs /\ q.pc = "out" /\ q.op = "chdir" /\ q.dev = NULL /\ q.x = NULL /\ q.rest = 0
         /\ q.i = NULL /\ q.new = NULL /\ q.s = NULL /\ q.ret = "out" /\ q.pwd = r.pwd
         /\ Places(q) /\ Locals(q) /\ Calls(q)
  <1>1. q = [pc |-> "out", op |-> "chdir", dev |-> NULL, x |-> NULL, rest |-> 0, i |-> NULL,
             new |-> NULL, s |-> NULL, ret |-> "out", pwd |-> r.pwd]
    BY DEF Return, Idle
  <1>2. r.pwd \in Inodes \cup {NULL}
    BY DEF Recs
  <1>3. q \in Recs
    BY <1>1, <1>2 DEF Recs, Labels
  <1>4. Return(q) = q
    BY <1>1 DEF Return, Idle
  <1>5. Places(q)
    BY <1>1, <1>4 DEF Places, Putting
  <1>6. Locals(q)
    BY <1>1 DEF Locals, Putting, Mounting, HasSuperInHand, Owning
  <1>7. Calls(q)
    BY <1>1 DEF Calls, Mounting
  <1> QED
    BY <1>1, <1>3, <1>5, <1>6, <1>7

\* iput() is called.
LEMMA PutFields ==
  ASSUME NEW r \in Recs, NEW i \in Inodes, NEW ret \in Labels, NEW q, q = Put(r, i, ret)
  PROVE  /\ q \in Recs /\ q.pc = "iput" /\ q.op = r.op /\ q.dev = r.dev /\ q.x = r.x /\ q.rest = r.rest
         /\ q.i = i /\ q.new = r.new /\ q.s = r.s /\ q.ret = ret /\ q.pwd = r.pwd
  BY DEF Put, Recs, Labels

\* ... and returns.
LEMMA AfterPutFields ==
  ASSUME NEW r \in Recs, r.ret # "out", NEW q, q = AfterPut(r)
  PROVE  /\ q \in Recs /\ q.pc = r.ret /\ q.op = r.op /\ q.dev = r.dev /\ q.x = r.x /\ q.rest = r.rest
         /\ q.i = NULL /\ q.new = r.new /\ q.s = r.s /\ q.ret = r.ret /\ q.pwd = r.pwd
  BY DEF AfterPut, Recs

\* iget() has got the inode.
LEMMA GotFields ==
  ASSUME NEW r \in Recs, NEW x \in Inodes, NEW q, q = Got(r, x)
  PROVE  /\ q \in Recs /\ q.op = r.op /\ q.x = NULL /\ q.rest = r.rest
         /\ q.i = x /\ q.new = r.new /\ q.s = r.s /\ q.ret = r.ret /\ q.pwd = r.pwd
         /\ q.pc \in {"namei", "dotdot", "find"}
         /\ q.pc = "namei" <=> r.rest = 0
         /\ q.pc = "dotdot" => Num(x) = ROOT_INO /\ r.rest = DotDot /\ q.dev = Dev(x)
         /\ q.pc # "dotdot" => q.dev = r.dev
         /\ q.dev \in Devs \cup {NULL}
  <1> DEFINE over == r.rest = DotDot /\ Num(x) = ROOT_INO
             dev == IF over THEN Dev(x) ELSE r.dev
             pc == CASE r.rest = 0 -> "namei" [] over -> "dotdot" [] OTHER -> "find"
  <1>1. dev \in Devs \cup {NULL} /\ r.rest \in {0, Sub, DotDot}
    BY InodeFacts DEF Recs
  <1>2. /\ pc \in {"namei", "dotdot", "find"} /\ (pc = "namei" <=> r.rest = 0)
        /\ pc = "dotdot" <=> over
    BY DEF DotDot
  <1>3. PICK h : h = [r EXCEPT !.x = NULL, !.i = x]
    OBVIOUS
  <1>4. q = [h EXCEPT !.dev = dev, !.pc = pc]
    BY <1>3 DEF Got, Recs
  <1> HIDE DEF dev, pc
  <1>5. /\ h \in Recs /\ h.op = r.op /\ h.x = NULL /\ h.rest = r.rest /\ h.i = x /\ h.new = r.new
        /\ h.s = r.s /\ h.ret = r.ret /\ h.pwd = r.pwd
    BY <1>3 DEF Recs
  <1>6. /\ q \in Recs /\ q.dev = dev /\ q.pc = pc /\ q.op = h.op /\ q.x = h.x /\ q.rest = h.rest
        /\ q.i = h.i /\ q.new = h.new /\ q.s = h.s /\ q.ret = h.ret /\ q.pwd = h.pwd
    <2>1. pc \in Labels /\ dev \in Devs \cup {NULL}
      BY <1>1, <1>2 DEF Labels
    <2> QED
      BY <1>4, <1>5, <2>1 DEF Recs
  <1> QED
    BY <1>1, <1>2, <1>5, <1>6 DEF dev

-----------------------------------------------------------------------------
(* Steps that leave the super blocks alone.                                *)

\* Each inode has the references it had, and those that the task has taken.
BalanceStep(r, q) ==
  \A x \in Inodes : inode'[x].count + Held(r, x) = inode[x].count + Held(q, x)

\* The super blocks are left alone, by a task that has none to itself.
LEMMA SameSupers ==
  ASSUME Good, NEW t \in Tasks, NEW q, task' = [task EXCEPT ![t] = q], super' = super,
         task[t].pc \notin Owning, q.pc \notin Owning
  PROVE  SupersStep /\ BeingRead' /\ OwnEntry'
  <1>1. task \in [Tasks -> Recs]
    BY DEF Good, Types
  <1>2. task'[t] = q /\ \A u \in Tasks : u # t => task'[u] = task[u]
    BY <1>1
  <1>3. SupersStep
    BY DEF SupersStep, Good, Types, OneEach
  <1>4. BeingRead'
    <2> SUFFICES ASSUME NEW s \in Supers, super[s].dev # NULL, ~super[s].read, ~super[s].lock
                 PROVE  \E u \in Tasks : task'[u].pc = "lock" /\ task'[u].s = s
      BY DEF BeingRead
    <2>1. PICK u \in Tasks : task[u].pc = "lock" /\ task[u].s = s
      BY DEF Good, BeingRead
    <2>2. u # t
      BY <2>1 DEF Owning
    <2> QED
      BY <1>2, <2>1, <2>2
  <1>5. OwnEntry'
    <2>1. \A u \in Tasks : task'[u].pc \in Owning => u # t /\ task'[u] = task[u]
      BY <1>2
    <2>2. \A u \in Tasks : task'[u].pc \in Owning =>
            LET s == task'[u].s IN
            /\ super[s].lock = (task'[u].pc # "lock")
            /\ super[s].imount = NULL
            /\ super[s].dev = IF task'[u].pc = "release" THEN NULL ELSE task'[u].dev
      BY <2>1 DEF Good, OwnEntry
    <2>3. \A u, w \in Tasks : task'[u].pc \in Owning /\ task'[w].pc \in Owning /\ task'[u].s = task'[w].s => u = w
      BY <2>1 DEF Good, OwnEntry
    <2> QED
      BY <2>2, <2>3 DEF OwnEntry
  <1> QED
    BY <1>3, <1>4, <1>5

\* Places that are no concern of a walk
Special == Owning \cup {"unmounted"}

\* The super blocks have the references they had, if no mount point changes.
LEMMA BalanceIsCount ==
  ASSUME Good, NEW t \in Tasks, NEW q, task' = [task EXCEPT ![t] = q],
         inode' \in [Inodes -> InodeRecs], \A s \in Supers : super'[s].imount = super[s].imount,
         task[t].pc # "unmounted", q.pc # "unmounted", BalanceStep(task[t], q)
  PROVE  CountStep(task[t], q)
  <1>1. task \in [Tasks -> Recs]
    BY DEF Good, Types
  <1>2. task'[t] = q /\ \A u \in Tasks : u # t => task'[u] = task[u]
    BY <1>1
  <1> SUFFICES ASSUME NEW x \in Inodes
               PROVE  inode'[x].count + (Held(task[t], x) + Cardinality(Mounts(x)))
                        = inode[x].count + (Held(q, x) + Cardinality(Mounts(x)'))
    BY DEF CountStep
  <1>3. \A s \in Supers : s \in Mounts(x) <=> s \in Mounts(x)'
    BY <1>2 DEF Mounts
  <1>4. Mounts(x)' = Mounts(x)
    BY <1>3 DEF Mounts
  <1>5. Cardinality(Mounts(x)) \in Nat /\ Held(task[t], x) \in Nat /\ Held(q, x) \in Nat
    BY MountsFinite, HeldIsNat
  <1>6. inode[x].count \in Nat /\ inode'[x].count \in Nat
    BY DEF Good, Types, InodeRecs
  <1>7. inode'[x].count + Held(task[t], x) = inode[x].count + Held(q, x)
    BY DEF BalanceStep
  <1> QED
    BY <1>4, <1>5, <1>6, <1>7

\* A walk keeps the invariant.
LEMMA WalkKeeps ==
  ASSUME Good, NEW t \in Tasks, NEW q, TaskStep(t, q), InodesStep, super' = super,
         UnmountStep(task[t], q), WayStep(q), DirectoryStep(t, q), UpStep(q), BalanceStep(task[t], q),
         task[t].pc \notin Special, q.pc \notin Special
  PROVE  Good'
  <1>1. task \in [Tasks -> Recs] /\ task' = [task EXCEPT ![t] = q]
    BY DEF Good, Types, TaskStep
  <1>3. SupersStep /\ BeingRead' /\ OwnEntry'
    BY <1>1, SameSupers DEF Special
  <1>4. CountStep(task[t], q)
    BY <1>1, <1>3, BalanceIsCount DEF InodesStep, SupersStep, Special
  <1> QED
    BY <1>3, <1>4, StepKeeps

\* The inodes are left alone.
LEMMA SameInodes ==
  ASSUME Types, inode' = inode
  PROVE  InodesStep
  BY DEF Types, InodesStep

\* One inode changes.
LEMMA OneInode ==
  ASSUME Types, NEW y \in Inodes, NEW n \in InodeRecs, inode' = [inode EXCEPT ![y] = n],
         n.mount = inode[y].mount,
         n.count > 0 /\ Dev(y) \in Devs => inode[y].count > 0 \/ Stays(Dev(y))
  PROVE  InodesStep /\ inode'[y] = n /\ \A x \in Inodes : x # y => inode'[x] = inode[x]
  <1>1. inode \in [Inodes -> InodeRecs]
    BY DEF Types
  <1>2. inode'[y] = n /\ \A x \in Inodes : x # y => inode'[x] = inode[x]
    BY <1>1
  <1>3. inode' \in [Inodes -> InodeRecs]
    BY <1>1
  <1>4. \A x \in Inodes : inode'[x].mount = inode[x].mount
    BY <1>2
  <1>5. \A x \in Inodes : inode'[x].count > 0 /\ Dev(x) \in Devs => inode[x].count > 0 \/ Stays(Dev(x))
    BY <1>2
  <1> QED
    BY <1>2, <1>3, <1>4, <1>5 DEF InodesStep

\* The processor is kept at an atomic place.
LEMMA GoIsStep ==
  ASSUME NEW t \in Tasks, NEW q \in Recs, NEW I, NEW S, NEW l, At(t, l), Go(t, I, S, q),
         Places(q), Locals(q), Calls(q), panic' = panic, q.pc = "lock" => ~S[q.s].lock
  PROVE  TaskStep(t, q)
  <1>1. q.pc \in Atomic => q.pc \notin MaySleep
    BY DEF Atomic, MaySleep
  <1>2. q.pc \in Atomic => ~Waits(I, S, q)
    BY DEF Atomic, Waits
  <1>3. task' = [task EXCEPT ![t] = q] /\ current' \in {NULL, t} /\ (q.pc \in Atomic => current' = t)
    BY <1>1, <1>2 DEF Go
  <1>4. current \in {NULL, t}
    BY DEF At
  <1> QED
    BY <1>3, <1>4 DEF TaskStep

-----------------------------------------------------------------------------
(* The system calls up to their first call that may sleep.                 *)

\* What the invariant says of a task
LEMMA TaskHere ==
  ASSUME Good, NEW t \in Tasks
  PROVE  /\ task[t] \in Recs /\ Places(task[t]) /\ Locals(task[t]) /\ Calls(task[t])
         /\ Types /\ ~panic /\ inode \in [Inodes -> InodeRecs] /\ super \in [Supers -> SuperRecs]
  BY DEF Good, TasksOK, Types

\* A task that has begun a system call, and no more
LEMMA CallKeeps ==
  ASSUME Good, NEW t \in Tasks, NEW q \in Recs, UNCHANGED <<inode, super, panic>>, At(t, "out"),
         task' = [task EXCEPT ![t] = q], current' = NULL,
         q.pc \in {"iget", "umount"}, q.op \in {"chdir", "mount", "umount"},
         q.pc = "umount" <=> q.op = "umount",
         q.op # "chdir" => q.dev \in Devs,
         q.pc = "iget" <=> q.x \in RootDirs,
         q.x \in RootDirs \cup {NULL}, q.op = "mount" => q.rest = 0,
         q.i = NULL, q.new = NULL, q.ret = "out", q.pwd = task[t].pwd
  PROVE  Good'
  <1>1. /\ task[t] \in Recs /\ Places(task[t]) /\ Types
        /\ inode \in [Inodes -> InodeRecs]
    BY TaskHere
  <1>2. /\ task[t].pc = "out" /\ task[t].i = NULL /\ task[t].new = NULL /\ task[t].x = NULL
        /\ task[t].ret = "out" /\ current \in {NULL, t}
    BY <1>1, ReturnFields DEF At, Places
  <1>3. TaskStep(t, q)
    <2>1. Places(q)
      BY DEF Places, Putting
    <2>2. Locals(q)
      <3>1. q.x # NULL <=> q.pc = "iget"
        BY InodeFacts DEF RootDirs
      <3> QED
        BY <3>1 DEF Locals, Putting, Mounting, HasSuperInHand, Owning
    <2>3. Calls(q)
      BY DEF Calls, Mounting
    <2> QED
      BY <1>2, <2>1, <2>2, <2>3 DEF TaskStep, Atomic
  <1>4. InodesStep
    BY <1>1, SameInodes
  <1>5. UnmountStep(task[t], q) /\ DirectoryStep(t, q) /\ UpStep(q)
    BY <1>2 DEF UnmountStep, DirectoryStep, UpStep, Mounting, Putting
  <1>6. WayStep(q)
    <2>1. q.x # NULL => Dev(q.x) \notin Devs
      BY InodeFacts
    <2> QED
      BY <2>1 DEF WayStep
  <1>7. BalanceStep(task[t], q)
    <2>1. \A x \in Inodes : Held(q, x) = Held(task[t], x)
      BY <1>2, InodeFacts DEF Held, One, Puts, Putting
    <2> QED
      BY <2>1 DEF BalanceStep
  <1>8. task[t].pc \notin Special /\ q.pc \notin Special
    BY <1>2 DEF Special, Owning
  <1> QED
    BY <1>3, <1>4, <1>5, <1>6, <1>7, <1>8, WalkKeeps

\* chdir() is called.
LEMMA ChdirKeeps ==
  ASSUME Good, NEW t \in Tasks, NEW d \in Dirs, NEW rest \in {0, Sub, DotDot}, Chdir(t, d, rest)
  PROVE  Good'
  <1>1. task[t] \in Recs /\ At(t, "out") /\ Places(task[t])
    BY TaskHere DEF Chdir
  <1>2. PICK q : q = [task[t] EXCEPT !.pc = "iget", !.x = <<ROOT_DEV, d>>, !.rest = rest]
    OBVIOUS
  <1>3. <<ROOT_DEV, d>> \in RootDirs /\ <<ROOT_DEV, d>> \in Inodes
    BY InodeFacts
  <1>4. task[t] = Return(task[t])
    BY <1>1 DEF At, Places
  <1>5. task[t].op = "chdir" /\ task[t].i = NULL /\ task[t].new = NULL /\ task[t].ret = "out"
    BY <1>1, <1>4, ReturnFields
  <1>6. /\ q \in Recs /\ q.pc = "iget" /\ q.x = <<ROOT_DEV, d>> /\ q.op = "chdir"
        /\ q.i = NULL /\ q.new = NULL /\ q.ret = "out" /\ q.pwd = task[t].pwd
    BY <1>1, <1>2, <1>3, <1>5 DEF Recs, Labels
  <1>7. UNCHANGED <<inode, super, panic>> /\ task' = [task EXCEPT ![t] = q] /\ current' = NULL
    BY <1>2, <1>6 DEF Chdir, Go, quiet, MaySleep
  <1> QED
    BY <1>1, <1>3, <1>6, <1>7, CallKeeps

\* mount() is called.
LEMMA MountKeeps ==
  ASSUME Good, NEW t \in Tasks, NEW d \in Dirs, NEW v \in Devs, Mount(t, v, d)
  PROVE  Good'
  <1>1. task[t] \in Recs /\ At(t, "out") /\ Places(task[t])
    BY TaskHere DEF Mount
  <1>2. PICK q : q = [task[t] EXCEPT !.pc = "iget", !.op = "mount", !.dev = v, !.x = <<ROOT_DEV, d>>]
    OBVIOUS
  <1>3. <<ROOT_DEV, d>> \in RootDirs /\ <<ROOT_DEV, d>> \in Inodes
    BY InodeFacts
  <1>4. task[t] = Return(task[t])
    BY <1>1 DEF At, Places
  <1>5. task[t].rest = 0 /\ task[t].i = NULL /\ task[t].new = NULL /\ task[t].ret = "out"
    BY <1>1, <1>4, ReturnFields
  <1>6. /\ q \in Recs /\ q.pc = "iget" /\ q.x = <<ROOT_DEV, d>> /\ q.op = "mount" /\ q.dev = v /\ q.rest = 0
        /\ q.i = NULL /\ q.new = NULL /\ q.ret = "out" /\ q.pwd = task[t].pwd
    <2>1. PICK h : h = [task[t] EXCEPT !.pc = "iget", !.op = "mount"]
      OBVIOUS
    <2>2. q = [h EXCEPT !.dev = v, !.x = <<ROOT_DEV, d>>]
      BY <1>1, <1>2, <2>1 DEF Recs
    <2>3. /\ h \in Recs /\ h.pc = "iget" /\ h.op = "mount" /\ h.rest = 0
          /\ h.i = NULL /\ h.new = NULL /\ h.ret = "out" /\ h.pwd = task[t].pwd
      BY <1>1, <1>5, <2>1 DEF Recs, Labels
    <2> QED
      BY <1>3, <2>2, <2>3 DEF Recs
  <1>7. UNCHANGED <<inode, super, panic>> /\ task' = [task EXCEPT ![t] = q] /\ current' = NULL
    BY <1>2, <1>6 DEF Mount, Go, quiet, MaySleep
  <1> QED
    BY <1>1, <1>3, <1>6, <1>7, CallKeeps

\* umount() is called, and has put the inode of the device.
LEMMA UmountKeeps ==
  ASSUME Good, NEW t \in Tasks, NEW v \in Devs, Umount(t, v)
  PROVE  Good'
  <1>1. task[t] \in Recs /\ At(t, "out") /\ Places(task[t])
    BY TaskHere DEF Umount
  <1>2. PICK q : q = [task[t] EXCEPT !.pc = "umount", !.op = "umount", !.dev = v]
    OBVIOUS
  <1>4. task[t] = Return(task[t])
    BY <1>1 DEF At, Places
  <1>5. task[t].x = NULL /\ task[t].i = NULL /\ task[t].new = NULL /\ task[t].ret = "out"
    BY <1>1, <1>4, ReturnFields
  <1>6. /\ q \in Recs /\ q.pc = "umount" /\ q.x = NULL /\ q.op = "umount" /\ q.dev = v
        /\ q.i = NULL /\ q.new = NULL /\ q.ret = "out" /\ q.pwd = task[t].pwd
    BY <1>1, <1>2, <1>5 DEF Recs, Labels
  <1>7. UNCHANGED <<inode, super, panic>> /\ task' = [task EXCEPT ![t] = q] /\ current' = NULL
    BY <1>2, <1>6 DEF Umount, Go, quiet, MaySleep
  <1>8. NULL \notin RootDirs
    BY InodeFacts
  <1> QED
    BY <1>1, <1>6, <1>7, <1>8, CallKeeps

-----------------------------------------------------------------------------
(* The walk.                                                               *)

\* A step of a walk from one place to another, with the inodes I
LEMMA PlainWalk ==
  ASSUME Good, NEW t \in Tasks, NEW q \in Recs, NEW I, NEW S, NEW l,
         S = super, At(t, l), Go(t, I, S, q), panic' = panic, InodesStep,
         Places(q), Locals(q), Calls(q), UnmountStep(task[t], q), UpStep(q), BalanceStep(task[t], q),
         q.x \in {NULL, task[t].x} \/ WayStep(q),
         (Mounting(q) => Mounting(task[t]) /\ q.i = task[t].i) \/ DirectoryStep(t, q),
         l \notin Special, q.pc \notin Special
  PROVE  Good'
  <1>1. current \in {NULL, t} /\ task[t].pc = l
    BY DEF At
  <1>2. TaskStep(t, q)
    BY <1>1, GoIsStep DEF Special, Owning
  <1>3. super' = super
    BY DEF Go
  <1>4. WayStep(q)
    BY DEF WayStep, Good, OnItsWay
  <1>5. DirectoryStep(t, q)
    BY DEF DirectoryStep, Good, OwnDirectory
  <1> QED
    BY <1>1, <1>2, <1>3, <1>4, <1>5, WalkKeeps

\* The references do not change.
LEMMA SameBalance ==
  ASSUME NEW r, NEW q, \A x \in Inodes : inode'[x].count = inode[x].count,
         \A x \in Inodes : Held(q, x) = Held(r, x)
  PROVE  BalanceStep(r, q)
  BY DEF BalanceStep

\* An inode is made dirty, or locked, or unlocked.
LEMMA FlagsOnly ==
  ASSUME Types, NEW y \in Inodes, NEW n \in InodeRecs, inode' = [inode EXCEPT ![y] = n],
         n.mount = inode[y].mount, n.count = inode[y].count
  PROVE  InodesStep /\ \A x \in Inodes : inode'[x].count = inode[x].count
  <1>1. InodesStep /\ inode'[y] = n /\ \A x \in Inodes : x # y => inode'[x] = inode[x]
    BY OneInode
  <1> QED
    BY <1>1

\* Who has a reference to an inode uses it, and the device stays.
LEMMA HeldIsUsed ==
  ASSUME Good, NEW t \in Tasks, NEW x \in Inodes, Held(task[t], x) > 0
  PROVE  /\ inode[x].count > 0
         /\ Dev(x) \in Devs => InUse(Dev(x)) /\ Stays(Dev(x))
  <1>1. inode[x].count > 0
    <2>1. PICK T : T = task
      OBVIOUS
    <2>2. Cardinality(Holders(T, x)) > 0 /\ Cardinality(Holders(T, x)) \in Nat
      BY <2>1, HoldersPositive DEF Good, Types
    <2>3. Cardinality(Mounts(x)) \in Nat
      BY MountsFinite
    <2>4. inode[x].count = Cardinality(Holders(T, x)) + Cardinality(Mounts(x))
      BY <2>1 DEF Good, Exact
    <2> QED
      BY <2>2, <2>3, <2>4
  <1>2. InUse(Dev(x))
    BY <1>1 DEF InUse
  <1>3. Dev(x) \in Devs => IsMounted(Dev(x))
    BY <1>2 DEF Good, UsedIsMounted
  <1>4. \A u \in Tasks : ~(task[u].ret = "unmounted" /\ task[u].dev = Dev(x))
    BY <1>2 DEF Good, Unmounting
  <1> QED
    BY <1>1, <1>2, <1>3, <1>4 DEF Stays

\* The inode in hand is put, where nothing else is at stake.
LEMMA PutKeeps ==
  ASSUME Good, NEW t \in Tasks, NEW q \in Recs, NEW I, NEW S, NEW l,
         S = super, At(t, l), Go(t, I, S, q), panic' = panic, InodesStep,
         \A x \in Inodes : inode'[x].count = inode[x].count,
         l \notin Special \cup Putting \cup {"chdir"}, task[t].i \in Inodes, task[t].x = NULL,
         q.pc = "iput", q.i = task[t].i, q.ret \in {"out", "root"}, q.op = task[t].op, q.dev = task[t].dev,
         q.x = NULL, q.new = task[t].new, q.pwd = task[t].pwd, q.op = "mount" => q.rest = 0,
         q.op # "umount", q.ret = "root" => q.op = "chdir"
  PROVE  Good'
  <1>1. task[t] \in Recs /\ Places(task[t]) /\ Locals(task[t]) /\ Calls(task[t]) /\ task[t].pc = l
    BY TaskHere DEF At
  <1>2. task[t].ret \notin {"chdir", "unmounted"} /\ task[t].new = NULL /\ NULL \notin Inodes
    BY <1>1, InodeFacts DEF Places, Locals, Special
  <1>3. Places(q)
    BY DEF Places, Putting
  <1>4. Locals(q)
    BY <1>2 DEF Locals, Putting, HasSuperInHand, Owning
  <1>5. Calls(q)
    BY <1>1 DEF Calls, Mounting
  <1>6. \A x \in Inodes : Held(q, x) = Held(task[t], x)
    BY <1>1, <1>2 DEF Held, Puts
  <1>7. BalanceStep(task[t], q)
    BY <1>6, SameBalance
  <1>8. UnmountStep(task[t], q) /\ UpStep(q) /\ ~Mounting(q) /\ q.pc \notin Special
    BY <1>2 DEF UnmountStep, UpStep, Mounting, Special, Owning
  <1> QED
    BY <1>3, <1>4, <1>5, <1>7, <1>8, PlainWalk

\* namei() is done: the directory is the task's, or the old one is put first.
LEMMA NameiKeeps ==
  ASSUME Good, NEW t \in Tasks, Namei(t)
  PROVE  Good'
  <1>1. task[t] \in Recs /\ Places(task[t]) /\ Locals(task[t]) /\ Calls(task[t]) /\ Types
        /\ inode \in [Inodes -> InodeRecs]
    BY TaskHere
  <1>2. PICK r, I, S, n : /\ r = task[t] /\ S = super /\ I = inode'
                          /\ n = [inode[r.i] EXCEPT !.dirt = TRUE]
    OBVIOUS
  <1>3. /\ At(t, "namei") /\ r.op = "chdir" /\ r.pc = "namei"
        /\ r.i \in Inodes /\ r.new = NULL /\ r.x = NULL /\ r.ret \notin {"chdir", "unmounted"}
        /\ r.pwd \in Inodes \cup {NULL} /\ r \in Recs /\ NULL \notin Inodes
    BY <1>1, <1>2, InodeFacts DEF Namei, At, Locals, Places, Recs, Putting
  <1>4. inode' = [inode EXCEPT ![r.i] = n] /\ panic' = panic
    BY <1>1, <1>2, <1>3 DEF Namei, Go, quiet
  <1>5. n \in InodeRecs /\ n.mount = inode[r.i].mount /\ n.count = inode[r.i].count
    BY <1>1, <1>2, <1>3 DEF InodeRecs
  <1>6. InodesStep /\ \A x \in Inodes : inode'[x].count = inode[x].count
    BY <1>1, <1>3, <1>4, <1>5, FlagsOnly
  <1>7. CASE r.pwd = NULL
    <2>1. PICK h, q : h = Return(r) /\ q = [h EXCEPT !.pwd = r.i]
      OBVIOUS
    <2>2. Go(t, I, S, q)
      BY <1>2, <1>7, <2>1 DEF Namei, Go
    <2>3. /\ h \in Recs /\ h.pc = "out" /\ h.op = "chdir" /\ h.dev = NULL /\ h.x = NULL /\ h.rest = 0
          /\ h.i = NULL /\ h.new = NULL /\ h.s = NULL /\ h.ret = "out"
      BY <1>3, <2>1, ReturnFields
    <2>4. /\ q \in Recs /\ q.pc = "out" /\ q.x = NULL /\ q.i = NULL /\ q.new = NULL
          /\ q.ret = "out" /\ q.pwd = r.i /\ Return(q) = q
      BY <1>3, <2>1, <2>3, ZenonT(30) DEF Recs, Return, Idle
    <2>5. /\ Places(q) /\ Locals(q) /\ Calls(q)
      BY <2>4, ReturnFields
    <2>6. \A x \in Inodes : Held(q, x) = Held(r, x)
      BY <1>3, <1>7, <2>4 DEF Held, Puts, One, Putting
    <2>7. UnmountStep(r, q) /\ UpStep(q) /\ ~Mounting(q) /\ BalanceStep(r, q)
      BY <1>3, <1>6, <2>4, <2>6, SameBalance DEF UnmountStep, UpStep, Mounting, Putting
    <2> QED
      BY <1>2, <1>3, <1>4, <1>6, <2>2, <2>4, <2>5, <2>7, PlainWalk DEF Special, Owning
  <1>8. CASE r.pwd # NULL
    <2>1. PICK h, q : h = [r EXCEPT !.new = r.i] /\ q = Put(h, r.pwd, "chdir")
      OBVIOUS
    <2>2. Go(t, I, S, q)
      BY <1>2, <1>8, <2>1 DEF Namei, Go
    <2>3. /\ h \in Recs /\ h.pc = "namei" /\ h.op = "chdir" /\ h.x = NULL /\ h.new = r.i /\ h.pwd = r.pwd
      BY <1>3, <2>1 DEF Recs
    <2>4. /\ q \in Recs /\ q.pc = "iput" /\ q.op = "chdir" /\ q.x = NULL /\ q.i = r.pwd /\ q.new = r.i
          /\ q.ret = "chdir" /\ q.pwd = r.pwd
      <3>1. r.pwd \in Inodes
        BY <1>3, <1>8
      <3>2. /\ q \in Recs /\ q.pc = "iput" /\ q.op = h.op /\ q.x = h.x /\ q.i = r.pwd /\ q.new = h.new
            /\ q.ret = "chdir" /\ q.pwd = h.pwd
        <4>1. PICK j : j = r.pwd
          OBVIOUS
        <4>2. j \in Inodes /\ q = Put(h, j, "chdir") /\ h \in Recs
          BY <2>1, <2>3, <3>1, <4>1
        <4>3. /\ q \in Recs /\ q.pc = "iput" /\ q.op = h.op /\ q.x = h.x /\ q.i = j /\ q.new = h.new
              /\ q.ret = "chdir" /\ q.pwd = h.pwd
          <5>1. "chdir" \in Labels
            BY DEF Labels
          <5> QED
            BY <4>2, <5>1, PutFields
        <4> QED
          BY <4>1, <4>3
      <3> QED
        BY <2>3, <3>2
    <2>5. Places(q) /\ Locals(q) /\ Calls(q)
      BY <1>3, <1>8, <2>4 DEF Places, Locals, Calls, Putting, Mounting, HasSuperInHand, Owning
    <2>6. \A x \in Inodes : Held(q, x) = Held(r, x)
      BY <1>3, <1>8, <2>4 DEF Held, Puts, One, Putting
    <2>7. UnmountStep(r, q) /\ UpStep(q) /\ ~Mounting(q) /\ BalanceStep(r, q)
      BY <1>3, <1>6, <2>4, <2>6, SameBalance DEF UnmountStep, UpStep, Mounting, Putting
    <2> QED
      BY <1>2, <1>3, <1>4, <1>6, <2>2, <2>4, <2>5, <2>7, PlainWalk DEF Special, Owning
  <1> QED
    BY <1>7, <1>8

\* ... the same for the root directory
LEMMA NameiRootKeeps ==
  ASSUME Good, NEW t \in Tasks, NameiRoot(t)
  PROVE  Good'
  <1>1. task[t] \in Recs /\ Places(task[t]) /\ Locals(task[t]) /\ Calls(task[t]) /\ Types
    BY TaskHere
  <1>2. PICK r, I, S : r = task[t] /\ S = super /\ I = inode'
    OBVIOUS
  <1>3. /\ At(t, "root") /\ r.pc = "root"
        /\ r.i = NULL /\ r.new = NULL /\ r.x = NULL /\ r.ret \notin {"chdir", "unmounted"}
        /\ r.pwd \in Inodes \cup {NULL} /\ r \in Recs /\ NULL \notin Inodes
    BY <1>1, <1>2, InodeFacts DEF NameiRoot, At, Locals, Places, Recs, Putting, Mounting
  <1>4. inode' = inode /\ panic' = panic
    BY DEF NameiRoot, Go, quiet
  <1>6. InodesStep /\ \A x \in Inodes : inode'[x].count = inode[x].count
    BY <1>1, <1>4, SameInodes
  <1>7. CASE r.pwd = NULL
    <2>1. PICK q : q = Return(r)
      OBVIOUS
    <2>2. Go(t, I, S, q)
      BY <1>2, <1>7, <2>1 DEF NameiRoot, Go
    <2>3. /\ q \in Recs /\ q.pc = "out" /\ q.x = NULL /\ q.i = NULL /\ q.new = NULL /\ q.ret = "out"
          /\ q.pwd = r.pwd /\ Places(q) /\ Locals(q) /\ Calls(q)
      BY <1>3, <2>1, ReturnFields
    <2>6. \A x \in Inodes : Held(q, x) = Held(r, x)
      BY <1>3, <1>7, <2>3 DEF Held, Puts, One, Putting
    <2>7. UnmountStep(r, q) /\ UpStep(q) /\ ~Mounting(q) /\ BalanceStep(r, q)
      BY <1>3, <1>6, <2>3, <2>6, SameBalance DEF UnmountStep, UpStep, Mounting, Putting
    <2> QED
      BY <1>2, <1>3, <1>4, <1>6, <2>2, <2>3, <2>7, PlainWalk DEF Special, Owning
  <1>8. CASE r.pwd # NULL /\ r.op = "chdir"
    <2>1. PICK q : q = Put(r, r.pwd, "chdir")
      OBVIOUS
    <2>2. Go(t, I, S, q)
      BY <1>2, <1>8, <2>1 DEF NameiRoot, Go
    <2>4. /\ q \in Recs /\ q.pc = "iput" /\ q.op = "chdir" /\ q.x = NULL /\ q.i = r.pwd /\ q.new = NULL
          /\ q.ret = "chdir" /\ q.pwd = r.pwd
      <3>1. r.pwd \in Inodes
        BY <1>3, <1>8
      <3>9. "chdir" \in Labels
        BY DEF Labels
      <3> QED
        BY <1>3, <1>8, <2>1, <3>1, <3>9, PutFields
    <2>5. Places(q) /\ Locals(q) /\ Calls(q)
      BY <1>3, <1>8, <2>4 DEF Places, Locals, Calls, Putting, Mounting, HasSuperInHand, Owning
    <2>6. \A x \in Inodes : Held(q, x) = Held(r, x)
      BY <1>3, <1>8, <2>4 DEF Held, Puts, One, Putting
    <2>7. UnmountStep(r, q) /\ UpStep(q) /\ ~Mounting(q) /\ BalanceStep(r, q)
      BY <1>3, <1>6, <2>4, <2>6, SameBalance DEF UnmountStep, UpStep, Mounting, Putting
    <2> QED
      BY <1>2, <1>3, <1>4, <1>6, <2>2, <2>4, <2>5, <2>7, PlainWalk DEF Special, Owning
  <1>9. r.op = "chdir"
    BY <1>1, <1>2, <1>3 DEF Calls
  <1> QED
    BY <1>7, <1>8, <1>9

\* chdir() is done.
LEMMA ChdirDoneKeeps ==
  ASSUME Good, NEW t \in Tasks, ChdirDone(t)
  PROVE  Good'
  <1>1. task[t] \in Recs /\ Places(task[t]) /\ Locals(task[t]) /\ Calls(task[t]) /\ Types
    BY TaskHere
  <1>2. PICK r, I, S : r = task[t] /\ S = super /\ I = inode'
    OBVIOUS
  <1>3. PICK h, q : h = Return(r) /\ q = [h EXCEPT !.pwd = r.new]
    OBVIOUS
  <1>4. /\ At(t, "chdir") /\ r.pc = "chdir" /\ r.ret = "chdir"
        /\ r.i = NULL /\ r.x = NULL /\ r.new \in Inodes \cup {NULL} /\ r \in Recs /\ NULL \notin Inodes
    BY <1>1, <1>2, InodeFacts DEF ChdirDone, At, Locals, Places, Recs, Putting, Mounting
  <1>5. inode' = inode /\ panic' = panic /\ Go(t, I, S, q)
    BY <1>2, <1>3 DEF ChdirDone, Go, quiet
  <1>6. InodesStep /\ \A x \in Inodes : inode'[x].count = inode[x].count
    BY <1>1, <1>5, SameInodes
  <1>7. /\ h \in Recs /\ h.pc = "out" /\ h.op = "chdir" /\ h.dev = NULL /\ h.x = NULL /\ h.rest = 0
        /\ h.i = NULL /\ h.new = NULL /\ h.s = NULL /\ h.ret = "out"
    BY <1>3, <1>4, ReturnFields
  <1>8. /\ q \in Recs /\ q.pc = "out" /\ q.x = NULL /\ q.i = NULL /\ q.new = NULL
        /\ q.ret = "out" /\ q.pwd = r.new /\ Return(q) = q
    BY <1>3, <1>4, <1>7, ZenonT(30) DEF Recs, Return, Idle
  <1>9. Places(q) /\ Locals(q) /\ Calls(q)
    BY <1>8, ReturnFields
  <1>10. \A x \in Inodes : Held(q, x) = Held(r, x)
    BY <1>4, <1>8 DEF Held, Puts, One, Putting
  <1>11. UnmountStep(r, q) /\ UpStep(q) /\ ~Mounting(q) /\ BalanceStep(r, q)
    BY <1>4, <1>6, <1>8, <1>10, SameBalance DEF UnmountStep, UpStep, Mounting, Putting
  <1> QED
    BY <1>2, <1>4, <1>5, <1>6, <1>8, <1>9, <1>11, PlainWalk DEF Special, Owning

\* A name is looked up in the directory in hand.
LEMMA FindEntryKeeps ==
  ASSUME Good, NEW t \in Tasks, FindEntry(t)
  PROVE  Good'
  <1>1. task[t] \in Recs /\ Places(task[t]) /\ Locals(task[t]) /\ Calls(task[t]) /\ Types
    BY TaskHere
  <1>2. PICK r, I, S : r = task[t] /\ S = super /\ I = inode'
    OBVIOUS
  <1>3. PICK y : y = r.i
    OBVIOUS
  <1>4. /\ At(t, "find") /\ r.pc = "find" /\ r.ret \notin {"chdir", "unmounted"} /\ y \in Inodes
        /\ r.x = NULL /\ r.new = NULL /\ r \in Recs /\ NULL \notin Inodes
        /\ r.op # "umount" /\ (r.op = "mount" => r.rest = 0) /\ r.op \in {"chdir", "mount", "umount"}
    BY <1>1, <1>2, <1>3, InodeFacts DEF FindEntry, At, Locals, Places, Calls, Recs, Putting
  <1>5. inode' = inode /\ panic' = panic
    BY DEF FindEntry, Go, quiet
  <1>6. InodesStep /\ \A x \in Inodes : inode'[x].count = inode[x].count
    BY <1>1, <1>5, SameInodes
  <1>7. CASE r.rest = DotDot
    <2>1. PICK h, q : h = Put(r, y, "root") /\ q = [h EXCEPT !.rest = 0]
      OBVIOUS
    <2>2. Go(t, I, S, q)
      <3>1. r.rest # Sub
        BY <1>7 DEF Sub, DotDot
      <3> QED
        BY <1>2, <1>3, <1>7, <2>1, <3>1 DEF FindEntry, Go
    <2>3. /\ h \in Recs /\ h.pc = "iput" /\ h.op = r.op /\ h.dev = r.dev /\ h.x = r.x
          /\ h.i = y /\ h.new = r.new /\ h.ret = "root" /\ h.pwd = r.pwd
      <3>1. "root" \in Labels
        BY DEF Labels
      <3> QED
        BY <1>4, <2>1, <3>1, PutFields
    <2>4. /\ q \in Recs /\ q.pc = "iput" /\ q.op = r.op /\ q.dev = r.dev /\ q.x = r.x
          /\ q.i = y /\ q.new = r.new /\ q.ret = "root" /\ q.pwd = r.pwd /\ q.rest = 0
      BY <2>1, <2>3 DEF Recs
    <2>5. q.op = "chdir"
      BY <1>4, <1>7, <2>4 DEF DotDot
    <2> QED
      BY <1>2, <1>3, <1>4, <1>5, <1>6, <2>2, <2>4, <2>5, PutKeeps DEF Special, Owning, Putting
  <1>8. CASE r.rest = Sub /\ Dev(y) # ROOT_DEV
    <2>1. PICK h, q, n : /\ h = Put(r, y, "iget") /\ n = <<Dev(y), r.rest>>
                         /\ q = [h EXCEPT !.x = n, !.rest = 0]
      OBVIOUS
    <2>2. Go(t, I, S, q)
      <3>1. r.rest # DotDot
        BY <1>8 DEF Sub, DotDot
      <3> QED
        BY <1>2, <1>3, <1>8, <2>1, <3>1 DEF FindEntry, Go
    <2>3. /\ h \in Recs /\ h.pc = "iput" /\ h.op = r.op /\ h.dev = r.dev
          /\ h.i = y /\ h.new = r.new /\ h.ret = "iget" /\ h.pwd = r.pwd
      <3>1. "iget" \in Labels
        BY DEF Labels
      <3> QED
        BY <1>4, <2>1, <3>1, PutFields
    <2>4. Dev(y) \in Devs /\ n \in Inodes /\ Dev(n) = Dev(y)
      BY <1>4, <1>8, <2>1, InodeFacts
    <2>5. /\ q \in Recs /\ q.pc = "iput" /\ q.op = r.op /\ q.dev = r.dev /\ q.x = n
          /\ q.i = y /\ q.new = r.new /\ q.ret = "iget" /\ q.pwd = r.pwd /\ q.rest = 0
      BY <2>1, <2>3, <2>4 DEF Recs
    <2>6. q.op = "chdir"
      BY <1>4, <1>8, <2>5 DEF Sub
    <2>7. Places(q) /\ Locals(q) /\ Calls(q)
      BY <1>4, <2>4, <2>5, <2>6 DEF Places, Locals, Calls, Putting, Mounting, HasSuperInHand, Owning
    <2>8. \A x \in Inodes : Held(q, x) = Held(r, x)
      BY <1>3, <1>4, <2>5 DEF Held, Puts, One, Putting
    <2>9. Held(r, y) > 0
      BY <1>3, <1>4 DEF Held, Puts, One, Putting
    <2>10. WayStep(q)
      <3>1. Stays(Dev(y))
        BY <1>2, <1>4, <2>4, <2>9, HeldIsUsed
      <3>2. Dev(q.x) = Dev(y)
        BY <2>4, <2>5
      <3> QED
        BY <3>1, <3>2 DEF WayStep
    <2>11. UnmountStep(r, q) /\ UpStep(q) /\ ~Mounting(q) /\ BalanceStep(r, q)
      BY <1>4, <1>6, <2>5, <2>8, SameBalance DEF UnmountStep, UpStep, Mounting, Putting
    <2> QED
      BY <1>2, <1>4, <1>5, <1>6, <2>2, <2>5, <2>7, <2>10, <2>11, PlainWalk DEF Special, Owning
  <1>9. CASE ~(r.rest = DotDot) /\ ~(r.rest = Sub /\ Dev(y) # ROOT_DEV)
    <2>1. PICK q : q = Put(r, y, "out")
      OBVIOUS
    <2>2. Go(t, I, S, q)
      BY <1>2, <1>3, <1>9, <2>1 DEF FindEntry, Go, PutAndReturn
    <2>3. /\ q \in Recs /\ q.pc = "iput" /\ q.op = r.op /\ q.dev = r.dev /\ q.x = r.x /\ q.rest = r.rest
          /\ q.i = y /\ q.new = r.new /\ q.ret = "out" /\ q.pwd = r.pwd
      <3>1. "out" \in Labels
        BY DEF Labels
      <3> QED
        BY <1>4, <2>1, <3>1, PutFields
    <2> QED
      BY <1>2, <1>3, <1>4, <1>5, <1>6, <2>2, <2>3, PutKeeps DEF Special, Owning, Putting
  <1> QED
    BY <1>7, <1>8, <1>9

\* A step of mount() that changes its place only, before it has an entry
LEMMA MountGoes ==
  ASSUME Good, NEW t \in Tasks, NEW q \in Recs, NEW I, NEW S, NEW l, NEW m \in Labels,
         S = super, At(t, l), Go(t, I, S, q), panic' = panic, InodesStep,
         \A x \in Inodes : inode'[x].count = inode[x].count, q = Jump(task[t], m),
         l \in {"change", "invalidate"}, m \in {"put", "get", "buffers"}
  PROVE  Good'
  <1>1. /\ task[t] \in Recs /\ Places(task[t]) /\ Locals(task[t]) /\ Calls(task[t]) /\ Types
        /\ task[t].pc = l
    BY TaskHere DEF At
  <1>2. PICK r : r = task[t]
    OBVIOUS
  <1>3. /\ q.pc = m /\ q.op = r.op /\ q.dev = r.dev /\ q.x = r.x /\ q.rest = r.rest
        /\ q.i = r.i /\ q.new = r.new /\ q.s = r.s /\ q.ret = r.ret /\ q.pwd = r.pwd
    BY <1>1, <1>2, JumpFields
  <1>4. r.op = "mount" /\ r.ret \notin {"chdir", "unmounted", "up"} /\ r.x = NULL /\ r.new = NULL
    BY <1>1, <1>2 DEF Calls, Places, Locals, Putting
  <1>5. Mounting(r) /\ Mounting(q)
    BY <1>1, <1>2, <1>3, <1>4 DEF Mounting
  <1>6. Places(q)
    BY <1>3, <1>4 DEF Places, Putting
  <1>7. Locals(q)
    BY <1>1, <1>2, <1>3, <1>4, <1>5 DEF Locals, Putting, HasSuperInHand, Owning
  <1>8. Calls(q)
    BY <1>1, <1>2, <1>3, <1>4, <1>5 DEF Calls
  <1>9. \A x \in Inodes : Held(q, x) = Held(r, x)
    BY <1>1, <1>2, <1>3, <1>4 DEF Held, Puts
  <1>10. UnmountStep(r, q) /\ UpStep(q) /\ BalanceStep(r, q)
    BY <1>3, <1>4, <1>9, SameBalance DEF UnmountStep, UpStep, Putting
  <1> QED
    BY <1>2, <1>3, <1>5, <1>6, <1>7, <1>8, <1>10, PlainWalk DEF Special, Owning

\* check_disk_change()
LEMMA CheckDiskChangeKeeps ==
  ASSUME Good, NEW t \in Tasks, CheckDiskChange(t)
  PROVE  Good'
  <1>1. task[t] \in Recs /\ Types
    BY TaskHere
  <1>2. PICK changed \in BOOLEAN : Go(t, inode, super, Jump(task[t], IF changed THEN "put" ELSE "get"))
    BY DEF CheckDiskChange
  <1>3. PICK I, S, m, q : I = inode /\ S = super /\ m = (IF changed THEN "put" ELSE "get") /\ q = Jump(task[t], m)
    OBVIOUS
  <1>4. m \in {"put", "get"} /\ m \in Labels
    BY <1>3 DEF Labels
  <1>5. At(t, "change") /\ panic' = panic /\ inode' = inode /\ Go(t, I, S, q)
    BY <1>2, <1>3 DEF CheckDiskChange, quiet, Go
  <1>6. InodesStep
    BY <1>1, <1>5, SameInodes
  <1>7. q \in Recs
    BY <1>1, <1>3, <1>4, JumpFields
  <1> QED
    BY <1>3, <1>4, <1>5, <1>6, <1>7, MountGoes

\* invalidate_inodes() of a device that is not used
LEMMA InvalidateKeeps ==
  ASSUME Good, NEW t \in Tasks, Invalidate(t)
  PROVE  Good'
  <1>1. task[t] \in Recs /\ Types /\ inode \in [Inodes -> InodeRecs]
    BY TaskHere
  <1>2. PICK S, I, q : S = super /\ I = inode' /\ q = Jump(task[t], "buffers")
    OBVIOUS
  <1>3. At(t, "invalidate") /\ panic' = panic /\ Go(t, I, S, q)
    BY <1>2 DEF Invalidate, Go
  <1>4. inode' = [x \in Inodes |-> [inode[x] EXCEPT !.dirt = @ /\ Dev(x) # task[t].dev]]
    BY DEF Invalidate, Go
  <1>5. \A x \in Inodes : /\ inode'[x] \in InodeRecs /\ inode'[x].count = inode[x].count
                          /\ inode'[x].mount = inode[x].mount
    BY <1>1, <1>4 DEF InodeRecs
  <1>6. inode' \in [Inodes -> InodeRecs]
    BY <1>4, <1>5
  <1>7. InodesStep
    BY <1>5, <1>6 DEF InodesStep
  <1>8. q \in Recs /\ "buffers" \in Labels
    BY <1>1, <1>2, JumpFields DEF Labels
  <1> QED
    BY <1>2, <1>3, <1>5, <1>7, <1>8, MountGoes

\* An inode that is counted once is held by nobody else, and is no mount point.
LEMMA CountedOnce ==
  ASSUME Good, NEW t \in Tasks, task[t].pc = "namei", NEW y \in Inodes, task[t].i = y, inode[y].count = 1
  PROVE  /\ \A s \in Supers : super[s].imount # y
         /\ \A u \in Tasks : u # t => ~(Mounting(task[u]) /\ task[u].i = y)
  <1>1. /\ task \in [Tasks -> Recs] /\ Places(task[t]) /\ \A u \in Tasks : Places(task[u]) /\ Calls(task[u])
    BY DEF Good, Types, TasksOK
  <1>2. PICK T : T = task
    OBVIOUS
  <1>3. T \in [Tasks -> Recs] /\ \A u \in Tasks : Places(T[u]) /\ Calls(T[u])
    BY <1>1, <1>2
  <1>4. RefersTo(T[t], y, "i")
    BY <1>1, <1>2 DEF RefersTo, Puts, Putting
  <1>5. <<t, "i">> \in Holders(T, y)
    BY <1>4 DEF Holders
  <1>6. IsFiniteSet(Holders(T, y)) /\ Cardinality(Holders(T, y)) \in Nat
    BY HoldersFinite, FS_CardinalityType
  <1>7. Cardinality(Holders(T, y)) > 0
    BY <1>5, <1>6, FS_EmptySet
  <1>8. IsFiniteSet(Mounts(y)) /\ Cardinality(Mounts(y)) \in Nat
    BY MountsFinite
  <1>9. inode[y].count = Cardinality(Holders(T, y)) + Cardinality(Mounts(y))
    BY <1>2 DEF Good, Exact
  <1>10. Cardinality(Holders(T, y)) = 1 /\ Cardinality(Mounts(y)) = 0
    BY <1>6, <1>7, <1>8, <1>9
  <1>11. Mounts(y) = {}
    BY <1>8, <1>10, FS_EmptySet
  <1>12. \A s \in Supers : super[s].imount # y
    <2> SUFFICES ASSUME NEW s \in Supers, super[s].imount = y PROVE FALSE
      OBVIOUS
    <2>1. PICK u \in Tasks : task[u].pc = "unmounted" /\ task[u].s = s
      BY <1>11 DEF Mounts
    <2>2. current = u /\ current = t
      BY <2>1 DEF Good, KeepsProcessor, Atomic
    <2> QED
      BY <2>1, <2>2
  <1>13. \A u \in Tasks : u # t => ~(Mounting(task[u]) /\ task[u].i = y)
    <2> SUFFICES ASSUME NEW u \in Tasks, u # t, Mounting(task[u]), task[u].i = y PROVE FALSE
      OBVIOUS
    <2>1. ~Puts(T[u]) /\ T[u].i = y
      BY <1>2, <1>3 DEF Mounting, Calls, Puts
    <2>2. <<u, "i">> \in Holders(T, y)
      BY <2>1 DEF Holders, RefersTo
    <2>3. \E e : Holders(T, y) = {e}
      BY <1>6, <1>10, FS_Singleton
    <2> QED
      BY <1>5, <2>2, <2>3
  <1> QED
    BY <1>12, <1>13

\* mount() of a directory that nobody else uses goes on.
LEMMA MountCheckKeeps ==
  ASSUME Good, NEW t \in Tasks, MountCheck(t)
  PROVE  Good'
  <1>1. task[t] \in Recs /\ Places(task[t]) /\ Locals(task[t]) /\ Calls(task[t]) /\ Types
        /\ inode \in [Inodes -> InodeRecs]
    BY TaskHere
  <1>2. PICK r, I, S, y, n : /\ r = task[t] /\ S = super /\ I = inode' /\ y = r.i
                             /\ n = [inode[y] EXCEPT !.dirt = TRUE]
    OBVIOUS
  <1>3. /\ At(t, "namei") /\ r.op = "mount" /\ r.pc = "namei" /\ r.rest = 0 /\ r.dev \in Devs
        /\ y \in Inodes /\ r.new = NULL /\ r.x = NULL /\ r.ret \notin {"chdir", "unmounted", "up"}
        /\ y \in RootDirs \cup MountRoots /\ r \in Recs /\ NULL \notin Inodes
    BY <1>1, <1>2, InodeFacts DEF MountCheck, At, Locals, Places, Calls, Recs, Putting
  <1>4. inode' = [inode EXCEPT ![y] = n] /\ panic' = panic
    BY <1>1, <1>2, <1>3 DEF MountCheck, Go, quiet
  <1>5. n \in InodeRecs /\ n.mount = inode[y].mount /\ n.count = inode[y].count
    BY <1>1, <1>2, <1>3 DEF InodeRecs
  <1>6. InodesStep /\ \A x \in Inodes : inode'[x].count = inode[x].count
    BY <1>1, <1>3, <1>4, <1>5, FlagsOnly
  <1>7. CASE inode[y].count # 1 \/ Num(y) = ROOT_INO
    <2>1. PICK q : q = Put(r, y, "out")
      OBVIOUS
    <2>2. Go(t, I, S, q)
      BY <1>2, <1>7, <2>1 DEF MountCheck, Go, PutAndReturn
    <2>3. /\ q \in Recs /\ q.pc = "iput" /\ q.op = r.op /\ q.dev = r.dev /\ q.x = r.x /\ q.rest = r.rest
          /\ q.i = y /\ q.new = r.new /\ q.ret = "out" /\ q.pwd = r.pwd
      <3>1. "out" \in Labels
        BY DEF Labels
      <3> QED
        BY <1>3, <2>1, <3>1, PutFields
    <2> QED
      BY <1>2, <1>3, <1>4, <1>6, <2>2, <2>3, PutKeeps DEF Special, Owning, Putting
  <1>8. CASE inode[y].count = 1 /\ Num(y) # ROOT_INO
    <2>1. PICK m, q : m = (IF r.dev \in Floppies THEN "change" ELSE "get") /\ q = Jump(r, m)
      OBVIOUS
    <2>2. m \in {"change", "get"} /\ m \in Labels
      BY <2>1 DEF Labels
    <2>3. Go(t, I, S, q)
      BY <1>2, <1>8, <2>1 DEF MountCheck, Go
    <2>4. /\ q \in Recs /\ q.pc = m /\ q.op = r.op /\ q.dev = r.dev /\ q.x = r.x /\ q.rest = r.rest
          /\ q.i = y /\ q.new = r.new /\ q.s = r.s /\ q.ret = r.ret /\ q.pwd = r.pwd
      BY <1>2, <1>3, <2>1, <2>2, JumpFields
    <2>5. y \in RootDirs
      <3>1. y \notin MountRoots
        BY <1>3, <1>8, InodeFacts
      <3> QED
        BY <1>3, <3>1
    <2>6. Places(q) /\ Mounting(q)
      BY <1>3, <2>2, <2>4 DEF Places, Putting, Mounting
    <2>7. Locals(q)
      BY <1>3, <2>2, <2>4, <2>6 DEF Locals, Putting, HasSuperInHand, Owning
    <2>8. Calls(q)
      BY <1>1, <1>2, <1>3, <2>2, <2>4, <2>5 DEF Calls
    <2>9. \A x \in Inodes : Held(q, x) = Held(r, x)
      BY <1>2, <1>3, <2>2, <2>4 DEF Held, Puts
    <2>10. UnmountStep(r, q) /\ UpStep(q) /\ BalanceStep(r, q)
      BY <1>3, <1>6, <2>2, <2>4, <2>9, SameBalance DEF UnmountStep, UpStep, Putting
    <2>11. DirectoryStep(t, q)
      <3>1. /\ \A s \in Supers : super[s].imount # y
            /\ \A u \in Tasks : u # t => ~(Mounting(task[u]) /\ task[u].i = y)
        BY <1>2, <1>3, <1>8, CountedOnce
      <3> QED
        BY <2>4, <3>1 DEF DirectoryStep
    <2> QED
      BY <1>2, <1>3, <1>4, <1>6, <2>2, <2>3, <2>4, <2>6, <2>7, <2>8, <2>10, <2>11, PlainWalk
         DEF Special, Owning
  <1> QED
    BY <1>7, <1>8

\* '..' in the root of a device: the super block is there, and is mounted.
LEMMA OverMountKeeps ==
  ASSUME Good, NEW t \in Tasks, OverMount(t)
  PROVE  Good'
  <1>1. task[t] \in Recs /\ Places(task[t]) /\ Locals(task[t]) /\ Calls(task[t]) /\ Types
    BY TaskHere
  <1>2. PICK r, I, S, y : r = task[t] /\ S = super /\ I = inode' /\ y = r.i
    OBVIOUS
  <1>3. /\ At(t, "dotdot") /\ r.pc = "dotdot" /\ r.ret \notin {"chdir", "unmounted"}
        /\ y \in Inodes /\ r.new = NULL /\ r.x = NULL /\ r.op = "chdir"
        /\ r.dev \in Devs /\ r.dev = Dev(y) /\ r \in Recs /\ NULL \notin Inodes
    BY <1>1, <1>2, InodeFacts DEF OverMount, At, Locals, Places, Calls, Recs, Putting
  <1>4. Held(r, y) > 0
    BY <1>2, <1>3 DEF Held, One, Puts, Putting
  <1>5. Stays(r.dev)
    BY <1>2, <1>3, <1>4, HeldIsUsed
  <1>6. PICK p \in Supers : super[p].dev = r.dev /\ super[p].imount # NULL
    BY <1>5 DEF Stays, IsMounted, OfDev
  <1>7. p \in OfDev(r.dev) /\ NULL \notin Devs
    BY <1>6, MountAssumption DEF OfDev
  <1>8. PICK s : s = CHOOSE z \in OfDev(r.dev) : TRUE
    OBVIOUS
  <1>9. s \in OfDev(r.dev)
    BY <1>7, <1>8
  <1>10. s \in Supers /\ super[s].dev = r.dev /\ super[s].imount # NULL
    <2>1. s \in Supers /\ super[s].dev = r.dev
      BY <1>9 DEF OfDev
    <2>2. s = p
      BY <1>3, <1>6, <1>7, <2>1 DEF Good, OneEach
    <2> QED
      BY <1>6, <2>1, <2>2
  <1>11. PICK h, q : h = Put(r, y, "up") /\ q = [h EXCEPT !.s = s]
    OBVIOUS
  <1>12. Go(t, inode, super, IF super[s].imount = NULL THEN PutAndReturn(r) ELSE [Put(r, r.i, "up") EXCEPT !.s = s])
         /\ UNCHANGED quiet
    <2>1. OfDev(task[t].dev) # {}
      BY <1>2, <1>7
    <2> QED
      BY <1>2, <1>8, <2>1 DEF OverMount
  <1>13. Go(t, I, S, q) /\ inode' = inode /\ panic' = panic
    BY <1>2, <1>10, <1>11, <1>12 DEF Go, quiet
  <1>14. InodesStep /\ \A x \in Inodes : inode'[x].count = inode[x].count
    BY <1>1, <1>13, SameInodes
  <1>15. /\ h \in Recs /\ h.pc = "iput" /\ h.op = r.op /\ h.dev = r.dev /\ h.x = r.x
         /\ h.i = y /\ h.new = r.new /\ h.ret = "up" /\ h.pwd = r.pwd
    <2>1. "up" \in Labels
      BY DEF Labels
    <2> QED
      BY <1>3, <1>11, <2>1, PutFields
  <1>16. /\ q \in Recs /\ q.pc = "iput" /\ q.op = r.op /\ q.dev = r.dev /\ q.x = r.x
         /\ q.i = y /\ q.new = r.new /\ q.ret = "up" /\ q.pwd = r.pwd /\ q.s = s
    BY <1>10, <1>11, <1>15 DEF Recs
  <1>17. Places(q) /\ Calls(q) /\ ~Mounting(q)
    BY <1>3, <1>16 DEF Places, Calls, Putting, Mounting
  <1>18. Locals(q)
    BY <1>3, <1>10, <1>16, <1>17 DEF Locals, Putting, HasSuperInHand, Owning
  <1>19. \A x \in Inodes : Held(q, x) = Held(r, x)
    BY <1>2, <1>3, <1>16 DEF Held, Puts
  <1>20. UnmountStep(r, q) /\ BalanceStep(r, q)
    BY <1>3, <1>14, <1>16, <1>19, SameBalance DEF UnmountStep
  <1>21. UpStep(q)
    BY <1>10, <1>16 DEF UpStep
  <1> QED
    BY <1>2, <1>3, <1>13, <1>14, <1>16, <1>17, <1>18, <1>20, <1>21, PlainWalk DEF Special, Owning

\* ... and the walk goes up to its mount point.
LEMMA UpKeeps ==
  ASSUME Good, NEW t \in Tasks, Up(t)
  PROVE  Good'
  <1>1. task[t] \in Recs /\ Places(task[t]) /\ Locals(task[t]) /\ Calls(task[t]) /\ Types
        /\ inode \in [Inodes -> InodeRecs]
    BY TaskHere
  <1>2. PICK r, I, S, d : r = task[t] /\ S = super /\ I = inode' /\ d = super[r.s].imount
    OBVIOUS
  <1>3. /\ At(t, "up") /\ r.pc = "up" /\ r.ret = "up" /\ r.i = NULL /\ r.new = NULL /\ r.x = NULL
        /\ r.op = "chdir" /\ r.s \in Supers /\ r \in Recs /\ NULL \notin Inodes
    BY <1>1, <1>2, InodeFacts DEF Up, At, Locals, Places, Calls, Recs, Putting, Mounting, HasSuperInHand
  <1>4. d # NULL
    BY <1>2, <1>3 DEF Good, MountPointThere
  <1>5. d \in RootDirs /\ d \in Inodes /\ Dev(d) \notin Devs
    <2>1. d \in RootDirs
      BY <1>2, <1>3, <1>4 DEF Good, MountedOK
    <2> QED
      BY <2>1, InodeFacts
  <1>6. PICK n, h, q : /\ n = [inode[d] EXCEPT !.count = @ + 1]
                       /\ h = [r EXCEPT !.pc = "find", !.i = d]
                       /\ q = [h EXCEPT !.s = NULL, !.dev = NULL]
    OBVIOUS
  <1>7. /\ h \in Recs /\ h.pc = "find" /\ h.i = d /\ h.ret = "up" /\ h.new = NULL /\ h.x = NULL
        /\ h.op = "chdir" /\ h.pwd = r.pwd
    BY <1>3, <1>5, <1>6 DEF Recs, Labels
  <1>8. /\ q \in Recs /\ q.pc = "find" /\ q.i = d /\ q.ret = "up" /\ q.new = NULL /\ q.x = NULL
        /\ q.op = "chdir" /\ q.pwd = r.pwd
    BY <1>6, <1>7, ZenonT(30) DEF Recs
  <1>9. Go(t, I, S, q) /\ panic' = panic /\ inode' = [inode EXCEPT ![d] = n]
    <2>1. q = [r EXCEPT !.pc = "find", !.i = d, !.s = NULL, !.dev = NULL]
      BY <1>3, <1>6 DEF Recs
    <2>2. n = [inode[d] EXCEPT !.count = inode[d].count + 1]
      BY <1>6
    <2> QED
      BY <1>1, <1>2, <1>4, <1>5, <2>1, <2>2 DEF Up, Go, quiet
  <1>10. n \in InodeRecs /\ n.mount = inode[d].mount /\ n.count = inode[d].count + 1
    BY <1>1, <1>5, <1>6 DEF InodeRecs
  <1>11. InodesStep /\ inode'[d] = n /\ \A x \in Inodes : x # d => inode'[x] = inode[x]
    BY <1>1, <1>5, <1>9, <1>10, OneInode
  <1>12. Places(q) /\ Calls(q) /\ ~Mounting(q)
    BY <1>8 DEF Places, Calls, Putting, Mounting
  <1>13. Locals(q)
    BY <1>3, <1>5, <1>8, <1>12 DEF Locals, Putting, HasSuperInHand, Owning
  <1>14. BalanceStep(r, q)
    <2> SUFFICES ASSUME NEW x \in Inodes
                 PROVE  inode'[x].count + Held(r, x) = inode[x].count + Held(q, x)
      BY DEF BalanceStep
    <2>1. inode[x].count \in Nat /\ inode[d].count \in Nat
      BY <1>1, <1>5 DEF InodeRecs
    <2>2. Held(q, x) = Held(r, x) + (IF x = d THEN 1 ELSE 0)
      BY <1>3, <1>8 DEF Held, Puts, One
    <2>3. inode'[x].count = inode[x].count + (IF x = d THEN 1 ELSE 0)
      BY <1>10, <1>11, <2>1
    <2>4. Held(r, x) \in Nat /\ Held(q, x) \in Nat
      BY HeldIsNat
    <2> QED
      BY <2>1, <2>2, <2>3, <2>4
  <1>15. UnmountStep(r, q) /\ UpStep(q)
    BY <1>3, <1>8 DEF UnmountStep, UpStep, Putting
  <1> QED
    BY <1>2, <1>3, <1>8, <1>9, <1>11, <1>12, <1>13, <1>14, <1>15, PlainWalk DEF Special, Owning

\* write_inode() has returned: iput() looks again.
LEMMA WrittenKeeps ==
  ASSUME Good, NEW t \in Tasks, Written(t)
  PROVE  Good'
  <1>1. task[t] \in Recs /\ Places(task[t]) /\ Locals(task[t]) /\ Calls(task[t]) /\ Types
        /\ inode \in [Inodes -> InodeRecs]
    BY TaskHere
  <1>2. PICK r, I, S, y, q, n : /\ r = task[t] /\ S = super /\ I = inode' /\ y = r.i
                                /\ q = Jump(r, "repeat")
                                /\ n = [inode[y] EXCEPT !.lock = FALSE, !.dirt = FALSE]
    OBVIOUS
  <1>3. /\ At(t, "written") /\ r.pc = "written" /\ y \in Inodes /\ r \in Recs /\ NULL \notin Inodes
    BY <1>1, <1>2, InodeFacts DEF Written, At, Locals, Recs, Putting
  <1>4. "repeat" \in Labels
    BY DEF Labels
  <1>5. /\ q \in Recs /\ q.pc = "repeat" /\ q.op = r.op /\ q.dev = r.dev /\ q.x = r.x /\ q.rest = r.rest
        /\ q.i = r.i /\ q.new = r.new /\ q.s = r.s /\ q.ret = r.ret /\ q.pwd = r.pwd
    BY <1>2, <1>3, <1>4, JumpFields
  <1>6. Go(t, I, S, q) /\ panic' = panic /\ inode' = [inode EXCEPT ![y] = n]
    BY <1>1, <1>2, <1>3 DEF Written, Go, quiet, InodeRecs
  <1>7. n \in InodeRecs /\ n.mount = inode[y].mount /\ n.count = inode[y].count
    BY <1>1, <1>2, <1>3 DEF InodeRecs
  <1>8. InodesStep /\ \A x \in Inodes : inode'[x].count = inode[x].count
    BY <1>1, <1>3, <1>6, <1>7, FlagsOnly
  <1>9. Places(q)
    BY <1>1, <1>2, <1>3, <1>5 DEF Places, Putting
  <1>10. Locals(q)
    BY <1>1, <1>2, <1>3, <1>5 DEF Locals, Putting, Mounting, HasSuperInHand, Owning
  <1>11. Calls(q) /\ ~Mounting(q)
    BY <1>1, <1>2, <1>3, <1>5 DEF Calls, Mounting
  <1>12. \A x \in Inodes : Held(q, x) = Held(r, x)
    BY <1>3, <1>5 DEF Held, Puts, Putting
  <1>13. UnmountStep(r, q) /\ BalanceStep(r, q)
    BY <1>3, <1>5, <1>8, <1>12, SameBalance DEF UnmountStep, Putting
  <1>14. UpStep(q)
    BY <1>2, <1>3, <1>5 DEF UpStep, Good, MountPointThere, Putting
  <1> QED
    BY <1>2, <1>3, <1>5, <1>6, <1>8, <1>9, <1>10, <1>11, <1>13, <1>14, PlainWalk DEF Special, Owning

-----------------------------------------------------------------------------
(* iget() and iput().                                                      *)

\* The record of a task whose iget() returns
LEMMA GotPlaces ==
  ASSUME NEW r \in Recs, Places(r), Locals(r), Calls(r), r.pc \in {"iget", "again", "read"},
         NEW x, x = r.x, NEW q, q = Got(r, x)
  PROVE  /\ x \in Inodes /\ q \in Recs /\ Places(q) /\ Locals(q) /\ Calls(q) /\ q.x = NULL
         /\ q.pc \notin Special /\ ~Mounting(q) /\ UnmountStep(r, q) /\ UpStep(q)
         /\ \A y \in Inodes : Held(q, y) = One(r.pwd = y) + One(x = y) + One(r.new = y)
         /\ \A y \in Inodes : Held(r, y) = One(r.pwd = y) + One(r.pc = "read" /\ x = y) + One(r.new = y)
  <1>1. /\ x \in Inodes /\ NULL \notin Inodes /\ r.i = NULL /\ r.new = NULL
        /\ r.ret \notin {"chdir", "unmounted"} /\ r.op # "umount"
    BY InodeFacts DEF Locals, Places, Calls, Recs, Putting, Mounting
  <1>2. /\ q \in Recs /\ q.op = r.op /\ q.x = NULL /\ q.rest = r.rest
        /\ q.i = x /\ q.new = r.new /\ q.s = r.s /\ q.ret = r.ret /\ q.pwd = r.pwd
        /\ q.pc \in {"namei", "dotdot", "find"}
        /\ q.pc = "dotdot" => Num(x) = ROOT_INO /\ r.rest = DotDot /\ q.dev = Dev(x)
        /\ q.pc # "dotdot" => q.dev = r.dev
    BY <1>1, GotFields
  <1>3. q.pc = "dotdot" => Dev(x) \in Devs /\ r.op = "chdir"
    <2>1. q.pc = "dotdot" => Dev(x) \in Devs
      BY <1>1, <1>2, InodeFacts
    <2>2. q.pc = "dotdot" => r.rest # 0
      BY <1>2 DEF DotDot
    <2>3. r.op \in {"chdir", "mount", "umount"}
      BY DEF Recs
    <2> QED
      BY <1>1, <2>1, <2>2, <2>3 DEF Calls
  <1>4. Places(q)
    BY <1>1, <1>2 DEF Places, Putting
  <1>5. ~Mounting(q)
    BY <1>2 DEF Mounting
  <1>6. Locals(q)
    BY <1>1, <1>2, <1>3, <1>5 DEF Locals, Putting, HasSuperInHand, Owning
  <1>7. Calls(q)
    BY <1>1, <1>2, <1>3, <1>5 DEF Calls
  <1>8. q.pc \notin Special /\ UnmountStep(r, q) /\ UpStep(q)
    BY <1>1, <1>2 DEF Special, Owning, UnmountStep, UpStep, Putting
  <1>9. \A y \in Inodes : Held(q, y) = One(r.pwd = y) + One(x = y) + One(r.new = y)
    BY <1>1, <1>2 DEF Held, One, Puts
  <1>10. \A y \in Inodes : Held(r, y) = One(r.pwd = y) + One(r.pc = "read" /\ x = y) + One(r.new = y)
    BY <1>1 DEF Held, One, Puts
  <1> QED
    BY <1>1, <1>2, <1>4, <1>5, <1>6, <1>7, <1>8, <1>9, <1>10

\* read_inode() has returned.
LEMMA ReadInodeKeeps ==
  ASSUME Good, NEW t \in Tasks, ReadInode(t)
  PROVE  Good'
  <1>1. task[t] \in Recs /\ Places(task[t]) /\ Locals(task[t]) /\ Calls(task[t]) /\ Types
        /\ inode \in [Inodes -> InodeRecs]
    BY TaskHere
  <1>2. PICK r, I, S, x, q, n : /\ r = task[t] /\ S = super /\ I = inode' /\ x = r.x
                                /\ q = Got(r, x) /\ n = [inode[x] EXCEPT !.lock = FALSE]
    OBVIOUS
  <1>3. At(t, "read") /\ r.pc = "read" /\ r \in Recs
    BY <1>1, <1>2 DEF ReadInode, At
  <1>4. /\ x \in Inodes /\ q \in Recs /\ Places(q) /\ Locals(q) /\ Calls(q) /\ q.x = NULL
        /\ q.pc \notin Special /\ ~Mounting(q) /\ UnmountStep(r, q) /\ UpStep(q)
        /\ \A y \in Inodes : Held(q, y) = One(r.pwd = y) + One(x = y) + One(r.new = y)
        /\ \A y \in Inodes : Held(r, y) = One(r.pwd = y) + One(r.pc = "read" /\ x = y) + One(r.new = y)
    BY <1>1, <1>2, <1>3, GotPlaces
  <1>5. Go(t, I, S, q) /\ panic' = panic /\ inode' = [inode EXCEPT ![x] = n]
    <2>1. Go(t, [inode EXCEPT ![x].lock = FALSE], super, q) /\ UNCHANGED quiet
      BY <1>2 DEF ReadInode
    <2>2. inode' = [inode EXCEPT ![x].lock = FALSE] /\ panic' = panic
      BY <2>1 DEF Go, quiet
    <2>3. inode' = [inode EXCEPT ![x] = n]
      BY <1>1, <1>2, <1>4, <2>2 DEF InodeRecs
    <2>4. I = [inode EXCEPT ![x].lock = FALSE] /\ S = super
      BY <1>2, <2>2
    <2>5. Go(t, I, S, q)
      BY <2>1, <2>4
    <2> QED
      BY <2>2, <2>3, <2>5
  <1>6. n \in InodeRecs /\ n.mount = inode[x].mount /\ n.count = inode[x].count
    <2>1. inode[x] \in InodeRecs
      BY <1>1, <1>4
    <2> QED
      BY <1>2, <2>1 DEF InodeRecs
  <1>7. InodesStep /\ \A y \in Inodes : inode'[y].count = inode[y].count
    BY <1>1, <1>4, <1>5, <1>6, FlagsOnly
  <1>8. \A y \in Inodes : Held(q, y) = Held(r, y)
    BY <1>3, <1>4 DEF One
  <1>9. BalanceStep(r, q)
    BY <1>7, <1>8, SameBalance
  <1> QED
    BY <1>2, <1>3, <1>4, <1>5, <1>7, <1>9, PlainWalk DEF Special, Owning

\* iget() at a mount point: the search begins again on the device that is
\* mounted there, which stays.
LEMMA AgainKeeps ==
  ASSUME Good, NEW t \in Tasks, Iget(t), Mounted(task[t].x) # {}
  PROVE  Good'
  <1>1. task[t] \in Recs /\ Places(task[t]) /\ Locals(task[t]) /\ Calls(task[t]) /\ Types
        /\ inode \in [Inodes -> InodeRecs] /\ super \in [Supers -> SuperRecs]
    BY TaskHere
  <1>2. PICK r, I, S, x : r = task[t] /\ S = super /\ I = inode' /\ x = r.x
    OBVIOUS
  <1>3. PICK s, v : s = (CHOOSE p \in Mounted(x) : TRUE) /\ v = super[s].dev
    OBVIOUS
  <1>4. PICK l : (At(t, "iget") \/ At(t, "again")) /\ l = r.pc
    BY DEF Iget
  <1>5. /\ At(t, l) /\ l \in {"iget", "again"} /\ r.pc = l /\ r \in Recs /\ x \in Inodes
        /\ r.i = NULL /\ r.new = NULL /\ r.ret \notin {"chdir", "unmounted"} /\ NULL \notin Inodes
    BY <1>1, <1>2, <1>4, InodeFacts DEF At, Locals, Places, Recs, Putting, Mounting
  <1>6. s \in Supers /\ inode[x].mount /\ super[s].imount = x
    <2>1. s \in Mounted(x)
      BY <1>2, <1>3
    <2> QED
      BY <2>1 DEF Mounted
  <1>7. super[s].read /\ v \in Devs /\ v # NULL
    <2>1. super[s].imount # NULL
      BY <1>5, <1>6
    <2>2. super[s].dev # NULL /\ super[s].read
      BY <1>6, <2>1 DEF Good, MountedOK
    <2> QED
      BY <1>1, <1>3, <1>6, <2>2 DEF SuperRecs
  <1>8. Stays(v)
    <2>1. IsMounted(v)
      BY <1>3, <1>5, <1>6, <1>7 DEF IsMounted, OfDev
    <2>2. \A u \in Tasks : ~(task[u].ret = "unmounted" /\ task[u].dev = v)
      <3> SUFFICES ASSUME NEW u \in Tasks, task[u].ret = "unmounted", task[u].dev = v PROVE FALSE
        OBVIOUS
      <3>1. super[task[u].s].dev = v /\ ~inode[super[task[u].s].imount].mount
        BY DEF Good, Unmounting
      <3>2. task[u].s \in Supers
        BY DEF Good, TasksOK, Locals, HasSuperInHand
      <3>3. task[u].s = s
        BY <1>3, <1>6, <1>7, <3>1, <3>2 DEF Good, OneEach
      <3> QED
        BY <1>6, <3>1, <3>3
    <2> QED
      BY <2>1, <2>2 DEF Stays
  <1>9. PICK y, q : y = <<v, ROOT_INO>> /\ q = [r EXCEPT !.pc = "again", !.x = y]
    OBVIOUS
  <1>10. y \in MountRoots /\ y \in Inodes /\ Dev(y) = v
    BY <1>7, <1>9, InodeFacts
  <1>11. /\ q \in Recs /\ q.pc = "again" /\ q.op = r.op /\ q.dev = r.dev /\ q.x = y /\ q.rest = r.rest
         /\ q.i = r.i /\ q.new = r.new /\ q.s = r.s /\ q.ret = r.ret /\ q.pwd = r.pwd
    <2>1. "again" \in Labels
      BY DEF Labels
    <2> QED
      BY <1>5, <1>9, <1>10, <2>1 DEF Recs
  <1>12. Go(t, I, S, q) /\ panic' = panic /\ inode' = inode
    <2>1. Go(t, inode, super, [r EXCEPT !.pc = "again", !.x = <<v, ROOT_INO>>]) /\ UNCHANGED quiet
      BY <1>2, <1>3, <1>7 DEF Iget
    <2> QED
      BY <1>2, <1>9, <2>1 DEF Go, quiet
  <1>13. InodesStep /\ \A z \in Inodes : inode'[z].count = inode[z].count
    BY <1>1, <1>12, SameInodes
  <1>14. ~Mounting(q) /\ Places(q)
    BY <1>5, <1>11 DEF Mounting, Places, Putting
  <1>15. Locals(q)
    BY <1>5, <1>10, <1>11, <1>14 DEF Locals, Putting, HasSuperInHand, Owning
  <1>16. Calls(q)
    BY <1>1, <1>2, <1>5, <1>10, <1>11, <1>14 DEF Calls
  <1>17. \A z \in Inodes : Held(q, z) = Held(r, z)
    BY <1>5, <1>11 DEF Held, Puts
  <1>18. UnmountStep(r, q) /\ UpStep(q) /\ BalanceStep(r, q) /\ q.pc \notin Special /\ l \notin Special
    BY <1>5, <1>11, <1>13, <1>17, SameBalance DEF UnmountStep, UpStep, Putting, Special, Owning
  <1>19. WayStep(q)
    BY <1>8, <1>10, <1>11 DEF WayStep
  <1> QED
    BY <1>2, <1>5, <1>11, <1>12, <1>13, <1>14, <1>15, <1>16, <1>18, <1>19, PlainWalk

\* ... the inode is got, or is read: its device has its super block.
LEMMA IgetKeeps ==
  ASSUME Good, NEW t \in Tasks, Iget(t)
  PROVE  Good'
  <1>0. CASE Mounted(task[t].x) # {}
    BY <1>0, AgainKeeps
  <1>1. task[t] \in Recs /\ Places(task[t]) /\ Locals(task[t]) /\ Calls(task[t]) /\ Types
        /\ inode \in [Inodes -> InodeRecs]
    BY TaskHere
  <1>2. PICK r, I, S, x : r = task[t] /\ S = super /\ I = inode' /\ x = r.x
    OBVIOUS
  <1>3. PICK l : (At(t, "iget") \/ At(t, "again")) /\ l = r.pc
    BY DEF Iget
  <1>4. /\ At(t, l) /\ l \in {"iget", "again"} /\ r.pc = l /\ r \in Recs /\ x # NULL
        /\ l \notin Special
    BY <1>1, <1>2, <1>3, InodeFacts DEF At, Locals, Recs, Special, Owning
  <1>5. PICK g : g = Got(r, x)
    OBVIOUS
  <1>6. /\ x \in Inodes /\ g \in Recs /\ Places(g) /\ Locals(g) /\ Calls(g) /\ g.x = NULL
        /\ g.pc \notin Special /\ ~Mounting(g) /\ UnmountStep(r, g) /\ UpStep(g)
        /\ \A y \in Inodes : Held(g, y) = One(r.pwd = y) + One(x = y) + One(r.new = y)
        /\ \A y \in Inodes : Held(r, y) = One(r.pwd = y) + One(r.pc = "read" /\ x = y) + One(r.new = y)
    BY <1>1, <1>2, <1>4, <1>5, GotPlaces
  <1>7. Dev(x) \in Devs => Stays(Dev(x))
    BY <1>2, <1>4 DEF Good, OnItsWay
  <1>8. inode[x] \in InodeRecs /\ inode[x].count \in Nat
    BY <1>1, <1>6 DEF InodeRecs
  <1>9. ASSUME Go(t, [inode EXCEPT ![x].count = @ + 1], super, g), UNCHANGED quiet PROVE Good'
    <2>1. PICK n : n = [inode[x] EXCEPT !.count = @ + 1]
      OBVIOUS
    <2>2. Go(t, I, S, g) /\ panic' = panic /\ inode' = [inode EXCEPT ![x] = n]
      BY <1>1, <1>2, <1>6, <1>9, <2>1 DEF Go, quiet
    <2>3. n \in InodeRecs /\ n.mount = inode[x].mount /\ n.count = inode[x].count + 1
      BY <1>8, <2>1 DEF InodeRecs
    <2>4. InodesStep /\ inode'[x] = n /\ \A y \in Inodes : y # x => inode'[y] = inode[y]
      BY <1>1, <1>6, <1>7, <2>2, <2>3, OneInode
    <2>5. BalanceStep(r, g)
      <3> SUFFICES ASSUME NEW y \in Inodes
                   PROVE  inode'[y].count + Held(r, y) = inode[y].count + Held(g, y)
        BY DEF BalanceStep
      <3>1. inode[y].count \in Nat
        BY <1>1 DEF InodeRecs
      <3>2. Held(g, y) = Held(r, y) + (IF y = x THEN 1 ELSE 0)
        BY <1>4, <1>6 DEF One
      <3>3. inode'[y].count = inode[y].count + (IF y = x THEN 1 ELSE 0)
        BY <1>8, <2>3, <2>4, <3>1
      <3>4. Held(r, y) \in Nat /\ Held(g, y) \in Nat
        BY HeldIsNat
      <3> QED
        BY <3>1, <3>2, <3>3, <3>4
    <2> QED
      BY <1>2, <1>4, <1>6, <2>2, <2>4, <2>5, PlainWalk
  <1>10. HasSuper(Dev(x))
    <2>1. CASE Dev(x) \in Devs
      BY <1>7, <2>1 DEF Stays, IsMounted, HasSuper
    <2>2. CASE Dev(x) \notin Devs
      BY <1>6, <2>2, InodeFacts DEF HasSuper
    <2> QED
      BY <2>1, <2>2
  <1>11. ASSUME inode[x].count = 0, UNCHANGED quiet,
                Go(t, [inode EXCEPT ![x].count = 1, ![x].lock = TRUE], super, [r EXCEPT !.pc = "read"])
         PROVE  Good'
    <2>1. PICK n, q : n = [inode[x] EXCEPT !.count = 1, !.lock = TRUE] /\ q = Jump(r, "read")
      OBVIOUS
    <2>2. Go(t, I, S, q) /\ panic' = panic /\ inode' = [inode EXCEPT ![x] = n]
      BY <1>1, <1>2, <1>6, <1>8, <1>11, <2>1 DEF Go, quiet, Jump, InodeRecs
    <2>3. n \in InodeRecs /\ n.mount = inode[x].mount /\ n.count = 1
      BY <1>8, <2>1 DEF InodeRecs
    <2>4. InodesStep /\ inode'[x] = n /\ \A y \in Inodes : y # x => inode'[y] = inode[y]
      BY <1>1, <1>6, <1>7, <2>2, <2>3, OneInode
    <2>5. "read" \in Labels
      BY DEF Labels
    <2>6. /\ q \in Recs /\ q.pc = "read" /\ q.op = r.op /\ q.dev = r.dev /\ q.x = r.x /\ q.rest = r.rest
          /\ q.i = r.i /\ q.new = r.new /\ q.s = r.s /\ q.ret = r.ret /\ q.pwd = r.pwd
      BY <1>4, <2>1, <2>5, JumpFields
    <2>7. r.ret \notin {"chdir", "unmounted"} /\ r.new = NULL /\ r.i = NULL /\ NULL \notin Inodes
      BY <1>1, <1>2, <1>4, InodeFacts DEF Places, Locals, Putting, Mounting
    <2>8. Places(q) /\ ~Mounting(q)
      BY <1>4, <2>6, <2>7 DEF Places, Putting, Mounting
    <2>9. Locals(q)
      BY <1>1, <1>2, <1>4, <2>6, <2>7, <2>8 DEF Locals, Putting, Mounting, HasSuperInHand, Owning
    <2>10. Calls(q)
      BY <1>1, <1>2, <1>4, <2>6, <2>7, <2>8 DEF Calls
    <2>11. BalanceStep(r, q)
      <3> SUFFICES ASSUME NEW y \in Inodes
                   PROVE  inode'[y].count + Held(r, y) = inode[y].count + Held(q, y)
        BY DEF BalanceStep
      <3>1. inode[y].count \in Nat
        BY <1>1 DEF InodeRecs
      <3>2. Held(q, y) = Held(r, y) + (IF y = x THEN 1 ELSE 0)
        <4>1. Held(q, y) = One(r.pwd = y) + One(x = y) + One(r.new = y)
          BY <1>2, <2>6, <2>7 DEF Held, One, Puts
        <4> QED
          BY <1>4, <1>6, <4>1 DEF One
      <3>3. inode'[y].count = inode[y].count + (IF y = x THEN 1 ELSE 0)
        BY <1>8, <1>11, <2>3, <2>4, <3>1
      <3>4. Held(r, y) \in Nat /\ Held(q, y) \in Nat
        BY HeldIsNat
      <3> QED
        BY <3>1, <3>2, <3>3, <3>4
    <2>12. UnmountStep(r, q) /\ UpStep(q) /\ q.pc \notin Special
      BY <2>6, <2>7 DEF UnmountStep, UpStep, Putting, Special, Owning
    <2> QED
      BY <1>2, <1>4, <2>2, <2>4, <2>6, <2>8, <2>9, <2>10, <2>11, <2>12, PlainWalk
  <1>12. CASE Mounted(task[t].x) = {}
    BY <1>2, <1>5, <1>9, <1>10, <1>11, <1>12 DEF Iget
  <1> QED
    BY <1>0, <1>12

\* The inode that iput() is called with is counted.
LEMMA PutIsCounted ==
  ASSUME Good, NEW t \in Tasks, task[t].pc \in Putting
  PROVE  /\ task[t].i \in Inodes
         /\ inode[task[t].i].count \in Nat /\ inode[task[t].i].count > 0
         /\ Puts(task[t]) => task[t].s \in Mounts(task[t].i)
  <1>1. task[t] \in Recs /\ Places(task[t]) /\ Locals(task[t]) /\ Types /\ inode \in [Inodes -> InodeRecs]
    BY TaskHere
  <1>2. task[t].i \in Inodes /\ task[t].i # NULL
    BY <1>1, InodeFacts DEF Locals, Recs
  <1>3. inode[task[t].i].count \in Nat
    BY <1>1, <1>2 DEF InodeRecs
  <1>4. Puts(task[t]) => task[t].s \in Mounts(task[t].i)
    <2> SUFFICES ASSUME Puts(task[t]) PROVE task[t].s \in Mounts(task[t].i)
      OBVIOUS
    <2>1. task[t].ret = "unmounted" /\ task[t].s \in Supers
      BY <1>1 DEF Puts, Locals, HasSuperInHand
    <2>2. super[task[t].s].imount = task[t].i /\ super[task[t].s].dev = task[t].dev
      BY <2>1 DEF Good, Unmounting
    <2>3. \A u \in Tasks : ~(task[u].pc = "unmounted" /\ task[u].s = task[t].s)
      <3> SUFFICES ASSUME NEW u \in Tasks, task[u].pc = "unmounted", task[u].s = task[t].s PROVE FALSE
        OBVIOUS
      <3>1. task[u].ret = "unmounted"
        BY DEF Good, TasksOK, Places
      <3>2. super[task[u].s].dev = task[u].dev
        BY <3>1 DEF Good, Unmounting
      <3>3. u = t
        BY <2>1, <2>2, <3>1, <3>2 DEF Good, Unmounting
      <3> QED
        BY <3>3 DEF Putting
    <2> QED
      BY <2>1, <2>2, <2>3 DEF Mounts
  <1>5. inode[task[t].i].count > 0
    <2>1. CASE ~Puts(task[t])
      <3>1. Held(task[t], task[t].i) > 0
        BY <2>1 DEF Held, One
      <3>2. PICK y : y = task[t].i
        OBVIOUS
      <3>3. y \in Inodes /\ Held(task[t], y) > 0
        BY <1>2, <3>1, <3>2
      <3> QED
        BY <3>2, <3>3, HeldIsUsed
    <2>2. CASE Puts(task[t])
      <3>1. PICK T, y : T = task /\ y = task[t].i
        OBVIOUS
      <3>2. IsFiniteSet(Mounts(y)) /\ Cardinality(Mounts(y)) \in Nat /\ Mounts(y) # {}
        BY <1>4, <2>2, <3>1, MountsFinite
      <3>3. Cardinality(Mounts(y)) > 0
        BY <3>2, FS_EmptySet
      <3>4. Cardinality(Holders(T, y)) \in Nat
        BY HoldersFinite, FS_CardinalityType
      <3>5. inode[y].count = Cardinality(Holders(T, y)) + Cardinality(Mounts(y))
        BY <1>2, <3>1 DEF Good, Exact
      <3> QED
        BY <3>1, <3>2, <3>3, <3>4, <3>5
    <2> QED
      BY <2>1, <2>2
  <1> QED
    BY <1>2, <1>3, <1>4, <1>5

\* The count of one inode goes down.
LEMMA DropBalance ==
  ASSUME NEW r, NEW q, NEW y \in Inodes, inode \in [Inodes -> InodeRecs],
         inode'[y].count = inode[y].count - 1, \A x \in Inodes : x # y => inode'[x] = inode[x],
         \A x \in Inodes : Held(r, x) = Held(q, x) + One(x = y)
  PROVE  BalanceStep(r, q)
  <1> SUFFICES ASSUME NEW x \in Inodes
               PROVE  inode'[x].count + Held(r, x) = inode[x].count + Held(q, x)
    BY DEF BalanceStep
  <1>1. inode[x].count \in Nat /\ Held(r, x) \in Nat /\ Held(q, x) \in Nat
    BY HeldIsNat DEF InodeRecs
  <1>2. CASE x = y
    BY <1>1, <1>2 DEF One
  <1>3. CASE x # y
    BY <1>1, <1>3 DEF One
  <1> QED
    BY <1>2, <1>3

\* The reference is dropped, and the system call ends or goes on.
LEMMA DropGoesOn ==
  ASSUME Good, NEW t \in Tasks, NEW q, NEW I, NEW S, NEW l, NEW y, NEW n,
         S = super, At(t, l), l \in {"iput", "repeat"}, task[t].ret # "unmounted",
         y = task[t].i, q = AfterPut(task[t]), Go(t, I, S, q), panic' = panic, InodesStep,
         inode' = [inode EXCEPT ![y] = n], n.count = inode[y].count - 1
  PROVE  Good'
  <1>1. task[t] \in Recs /\ Places(task[t]) /\ Locals(task[t]) /\ Calls(task[t]) /\ Types
        /\ inode \in [Inodes -> InodeRecs]
    BY TaskHere
  <1>2. PICK r : r = task[t]
    OBVIOUS
  <1>3. /\ r.pc = l /\ r.pc \in Putting /\ y \in Inodes /\ NULL \notin Inodes /\ r \in Recs
        /\ l \notin Special
    BY <1>1, <1>2, InodeFacts DEF At, Locals, Recs, Putting, Special, Owning
  <1>4. inode'[y].count = inode[y].count - 1 /\ \A x \in Inodes : x # y => inode'[x] = inode[x]
    BY <1>1, <1>3
  <1>5. CASE r.ret = "out"
    <2>1. q = Return(r)
      BY <1>2, <1>5 DEF AfterPut
    <2>2. /\ q \in Recs /\ q.pc = "out" /\ q.x = NULL /\ q.i = NULL /\ q.new = NULL /\ q.ret = "out"
          /\ q.pwd = r.pwd /\ Places(q) /\ Locals(q) /\ Calls(q)
      BY <1>3, <2>1, ReturnFields
    <2>3. r.new = NULL
      BY <1>1, <1>2, <1>5 DEF Locals
    <2>4. \A x \in Inodes : Held(r, x) = Held(q, x) + One(x = y)
      BY <1>2, <1>3, <1>5, <2>2, <2>3 DEF Held, Puts, One, Putting
    <2>5. BalanceStep(r, q)
      BY <1>1, <1>3, <1>4, <2>4, DropBalance
    <2>6. UnmountStep(r, q) /\ UpStep(q) /\ ~Mounting(q)
      BY <1>5, <2>2 DEF UnmountStep, UpStep, Mounting, Putting
    <2> QED
      BY <1>2, <1>3, <2>2, <2>5, <2>6, PlainWalk DEF Special, Owning
  <1>6. CASE r.ret # "out"
    <2>1. r.ret \in {"iget", "root", "chdir", "up"}
      BY <1>1, <1>2, <1>3, <1>6 DEF Places
    <2>2. /\ q \in Recs /\ q.pc = r.ret /\ q.op = r.op /\ q.dev = r.dev /\ q.x = r.x /\ q.rest = r.rest
          /\ q.i = NULL /\ q.new = r.new /\ q.s = r.s /\ q.ret = r.ret /\ q.pwd = r.pwd
      BY <1>2, <1>3, <1>6, AfterPutFields
    <2>3. ~Mounting(q)
      BY <2>1, <2>2 DEF Mounting
    <2>4. Places(q)
      BY <1>1, <1>2, <2>1, <2>2 DEF Places, Putting
    <2>5. Locals(q)
      BY <1>1, <1>2, <1>3, <2>1, <2>2, <2>3 DEF Locals, Putting, HasSuperInHand, Owning
    <2>6. Calls(q)
      BY <1>1, <1>2, <1>3, <2>1, <2>2, <2>3 DEF Calls, Putting
    <2>7. \A x \in Inodes : Held(r, x) = Held(q, x) + One(x = y)
      BY <1>2, <1>3, <2>1, <2>2 DEF Held, Puts, One, Putting
    <2>8. BalanceStep(r, q)
      BY <1>1, <1>3, <1>4, <2>7, DropBalance
    <2>9. UnmountStep(r, q) /\ q.pc \notin Special
      BY <2>1, <2>2 DEF UnmountStep, Special, Owning
    <2>10. UpStep(q)
      BY <1>2, <1>3, <2>1, <2>2 DEF UpStep, Good, MountPointThere, Putting
    <2> QED
      BY <1>2, <1>3, <2>2, <2>3, <2>4, <2>5, <2>6, <2>8, <2>9, <2>10, PlainWalk
  <1> QED
    BY <1>5, <1>6

\* umount() has put the mount point, whose reference was that of the super block.
LEMMA DropsMountPoint ==
  ASSUME Good, NEW t \in Tasks, NEW q, NEW I, NEW S, NEW l, NEW y, NEW n,
         S = super, At(t, l), l \in {"iput", "repeat"}, task[t].ret = "unmounted",
         y = task[t].i, q = AfterPut(task[t]), Go(t, I, S, q), panic' = panic, InodesStep,
         inode' = [inode EXCEPT ![y] = n], n.count = inode[y].count - 1
  PROVE  Good'
  <1>1. task[t] \in Recs /\ Places(task[t]) /\ Locals(task[t]) /\ Calls(task[t]) /\ Types
        /\ inode \in [Inodes -> InodeRecs]
    BY TaskHere
  <1>2. PICK r, s : r = task[t] /\ s = r.s
    OBVIOUS
  <1>3. /\ r.pc = l /\ r.pc \in Putting /\ y \in Inodes /\ NULL \notin Inodes /\ r \in Recs
        /\ r.ret = "unmounted" /\ r.ret # "out" /\ s \in Supers
        /\ current \in {NULL, t}
    BY <1>1, <1>2, InodeFacts DEF At, Locals, Recs, Putting, HasSuperInHand
  <1>4. inode'[y].count = inode[y].count - 1 /\ \A x \in Inodes : x # y => inode'[x] = inode[x]
    BY <1>1, <1>3
  <1>5. /\ q \in Recs /\ q.pc = "unmounted" /\ q.op = r.op /\ q.dev = r.dev /\ q.x = r.x /\ q.rest = r.rest
        /\ q.i = NULL /\ q.new = r.new /\ q.s = r.s /\ q.ret = "unmounted" /\ q.pwd = r.pwd
    BY <1>2, <1>3, AfterPutFields
  <1>6. /\ task' = [task EXCEPT ![t] = q] /\ super' = super
        /\ current' = IF q.pc \in MaySleep \/ Waits(I, S, q) THEN NULL ELSE t
    BY DEF Go
  <1>7. ~Mounting(q) /\ q.pc \notin Owning /\ task[t].pc \notin Owning /\ q.pc # "lock"
    BY <1>2, <1>3, <1>5 DEF Mounting, Owning, Putting
  <1>8. r.x = NULL /\ r.new = NULL
    BY <1>1, <1>2, <1>3 DEF Locals
  <1>9. Places(q)
    BY <1>1, <1>2, <1>3, <1>5 DEF Places, Putting
  <1>10. Locals(q)
    BY <1>1, <1>2, <1>3, <1>5, <1>7, <1>8 DEF Locals, Putting, HasSuperInHand, Owning
  <1>11. Calls(q)
    BY <1>1, <1>2, <1>3, <1>5, <1>7 DEF Calls, Putting
  <1>12. TaskStep(t, q)
    BY <1>5, <1>7, <1>9, <1>10, <1>11, GoIsStep
  <1>13. SupersStep /\ BeingRead' /\ OwnEntry'
    BY <1>6, <1>7, SameSupers
  <1>14. UnmountStep(r, q) /\ WayStep(q) /\ DirectoryStep(t, q) /\ UpStep(q)
    BY <1>3, <1>5, <1>7, <1>8 DEF UnmountStep, WayStep, DirectoryStep, UpStep, Putting
  <1>15. task'[t] = q /\ \A u \in Tasks : u # t => task'[u] = task[u]
    BY <1>1, <1>6 DEF Types
  <1>16. \A x \in Inodes : Held(r, x) = Held(q, x)
    BY <1>3, <1>5 DEF Held, Puts, One
  <1>17. s \in Mounts(y) /\ super[s].imount = y
    BY <1>2, <1>3, PutIsCounted DEF Puts, Mounts
  <1>18. \A x \in Inodes : Mounts(x)' = IF x = y THEN Mounts(y) \ {s} ELSE Mounts(x)
    <2> SUFFICES ASSUME NEW x \in Inodes, NEW p \in Supers
                 PROVE  p \in Mounts(x)' <=> p \in Mounts(x) /\ p # s
      BY <1>17 DEF Mounts
    <2>1. (\E u \in Tasks : task'[u].pc = "unmounted" /\ task'[u].s = p)
            <=> (p = s \/ \E u \in Tasks : task[u].pc = "unmounted" /\ task[u].s = p)
      BY <1>2, <1>3, <1>5, <1>15 DEF Putting
    <2> QED
      BY <1>6, <2>1 DEF Mounts
  <1>19. CountStep(r, q)
    <2> SUFFICES ASSUME NEW x \in Inodes
                 PROVE  inode'[x].count + (Held(r, x) + Cardinality(Mounts(x)))
                          = inode[x].count + (Held(q, x) + Cardinality(Mounts(x)'))
      BY DEF CountStep
    <2>1. IsFiniteSet(Mounts(x)) /\ Cardinality(Mounts(x)) \in Nat /\ Held(q, x) \in Nat /\ inode[x].count \in Nat
      BY <1>1, MountsFinite, HeldIsNat DEF InodeRecs
    <2>2. CASE x = y
      <3>1. Cardinality(Mounts(x)') = Cardinality(Mounts(x)) - 1
        BY <1>17, <1>18, <2>1, <2>2, FS_RemoveElement
      <3>2. Held(r, x) = Held(q, x) /\ inode'[x].count = inode[x].count - 1
        BY <1>4, <1>16, <2>2
      <3> QED
        BY <2>1, <3>1, <3>2
    <2>3. CASE x # y
      BY <1>4, <1>16, <1>18, <2>3
    <2> QED
      BY <2>2, <2>3
  <1> QED
    BY <1>2, <1>12, <1>13, <1>14, <1>19, StepKeeps

\* The last reference to a dirty inode: it is written first.
LEMMA DropWrites ==
  ASSUME Good, NEW t \in Tasks, NEW q, NEW I, NEW S, NEW l,
         S = super, At(t, l), l \in {"iput", "repeat"}, q = Jump(task[t], "written"),
         Go(t, I, S, q), panic' = panic, InodesStep,
         \A x \in Inodes : inode'[x].count = inode[x].count
  PROVE  Good'
  <1>1. task[t] \in Recs /\ Places(task[t]) /\ Locals(task[t]) /\ Calls(task[t]) /\ Types
        /\ inode \in [Inodes -> InodeRecs]
    BY TaskHere
  <1>2. PICK r : r = task[t]
    OBVIOUS
  <1>3. r.pc = l /\ r.pc \in Putting /\ r \in Recs /\ l \notin Special
    BY <1>1, <1>2 DEF At, Putting, Special, Owning
  <1>4. "written" \in Labels
    BY DEF Labels
  <1>5. /\ q \in Recs /\ q.pc = "written" /\ q.op = r.op /\ q.dev = r.dev /\ q.x = r.x /\ q.rest = r.rest
        /\ q.i = r.i /\ q.new = r.new /\ q.s = r.s /\ q.ret = r.ret /\ q.pwd = r.pwd
    BY <1>2, <1>3, <1>4, JumpFields
  <1>6. Places(q)
    BY <1>1, <1>2, <1>3, <1>5 DEF Places, Putting
  <1>7. Locals(q)
    BY <1>1, <1>2, <1>3, <1>5 DEF Locals, Putting, Mounting, HasSuperInHand, Owning
  <1>8. Calls(q) /\ ~Mounting(q)
    BY <1>1, <1>2, <1>3, <1>5 DEF Calls, Mounting
  <1>9. \A x \in Inodes : Held(q, x) = Held(r, x)
    BY <1>3, <1>5 DEF Held, Puts, Putting
  <1>10. UnmountStep(r, q) /\ BalanceStep(r, q) /\ q.pc \notin Special
    BY <1>3, <1>5, <1>9, SameBalance DEF UnmountStep, Putting, Special, Owning
  <1>11. UpStep(q)
    BY <1>2, <1>3, <1>5 DEF UpStep, Good, MountPointThere, Putting
  <1> QED
    BY <1>2, <1>3, <1>5, <1>6, <1>7, <1>8, <1>10, <1>11, PlainWalk

\* iput() does one of these, and does not panic.
LEMMA DropKeeps ==
  ASSUME Good, NEW t \in Tasks, NEW l, At(t, l), l \in {"iput", "repeat"}, DropRef(t)
  PROVE  Good'
  <1>1. task[t] \in Recs /\ Types /\ inode \in [Inodes -> InodeRecs]
    BY TaskHere
  <1>2. PICK r, y, I, S : r = task[t] /\ y = r.i /\ I = inode' /\ S = super
    OBVIOUS
  <1>3. task[t].pc \in Putting /\ task[t].pc = l
    BY DEF At, Putting
  <1>4. y \in Inodes /\ inode[y].count \in Nat /\ inode[y].count > 0 /\ inode[y] \in InodeRecs
    BY <1>1, <1>2, <1>3, PutIsCounted
  <1>5. ASSUME Go(t, [inode EXCEPT ![y].count = @ - 1], super, AfterPut(r)), UNCHANGED quiet PROVE Good'
    <2>1. PICK n, q : n = [inode[y] EXCEPT !.count = @ - 1] /\ q = AfterPut(r)
      OBVIOUS
    <2>2. n \in InodeRecs /\ n.mount = inode[y].mount /\ n.count = inode[y].count - 1
      <3>1. inode[y].count - 1 \in Nat
        BY <1>4
      <3> QED
        BY <1>4, <2>1, <3>1 DEF InodeRecs
    <2>3. inode' = [inode EXCEPT ![y] = n]
      BY <1>1, <1>4, <1>5, <2>1 DEF Go
    <2>4. Go(t, I, S, q) /\ panic' = panic
      BY <1>2, <1>5, <2>1 DEF Go, quiet
    <2>5. InodesStep
      BY <1>1, <1>4, <2>2, <2>3, OneInode
    <2>6. CASE task[t].ret = "unmounted"
      BY <1>2, <2>1, <2>2, <2>3, <2>4, <2>5, <2>6, DropsMountPoint
    <2>7. CASE task[t].ret # "unmounted"
      BY <1>2, <2>1, <2>2, <2>3, <2>4, <2>5, <2>7, DropGoesOn
    <2> QED
      BY <2>6, <2>7
  <1>6. ASSUME Go(t, [inode EXCEPT ![y].lock = TRUE], super, Jump(r, "written")), UNCHANGED quiet PROVE Good'
    <2>1. PICK n, q : n = [inode[y] EXCEPT !.lock = TRUE] /\ q = Jump(r, "written")
      OBVIOUS
    <2>2. n \in InodeRecs /\ n.mount = inode[y].mount /\ n.count = inode[y].count
      BY <1>4, <2>1 DEF InodeRecs
    <2>3. inode' = [inode EXCEPT ![y] = n]
      BY <1>1, <1>4, <1>6, <2>1 DEF Go
    <2>4. Go(t, I, S, q) /\ panic' = panic
      BY <1>2, <1>6, <2>1 DEF Go, quiet
    <2>5. InodesStep /\ \A x \in Inodes : inode'[x].count = inode[x].count
      BY <1>1, <1>4, <2>2, <2>3, FlagsOnly
    <2> QED
      BY <1>2, <2>1, <2>4, <2>5, DropWrites
  <1>7. HasSuper(Dev(y))
    <2>1. CASE Dev(y) \in Devs
      <3>1. InUse(Dev(y))
        BY <1>4 DEF InUse
      <3>2. IsMounted(Dev(y))
        BY <2>1, <3>1 DEF Good, UsedIsMounted
      <3> QED
        BY <3>2 DEF IsMounted, HasSuper
    <2>2. CASE Dev(y) \notin Devs
      BY <1>4, <2>2, InodeFacts DEF HasSuper
    <2> QED
      BY <2>1, <2>2
  <1>8. CASE inode[y].count > 1 \/ ~inode[y].dirt
    BY <1>2, <1>5, <1>8 DEF DropRef
  <1>9. CASE inode[y].count = 1 /\ inode[y].dirt
    BY <1>2, <1>6, <1>7, <1>9 DEF DropRef
  <1> QED
    BY <1>4, <1>8, <1>9

\* ... at its beginning
LEMMA IputKeeps ==
  ASSUME Good, NEW t \in Tasks, Iput(t)
  PROVE  Good'
  <1>1. At(t, "iput") /\ task[t].pc \in Putting
    BY DEF Iput, At, Putting
  <1>2. inode[task[t].i].count # 0
    BY <1>1, PutIsCounted
  <1>3. DropRef(t)
    BY <1>2 DEF Iput
  <1> QED
    BY <1>1, <1>3, DropKeeps

\* ... and when it looks again
LEMMA IputRepeatKeeps ==
  ASSUME Good, NEW t \in Tasks, IputRepeat(t)
  PROVE  Good'
  BY DropKeeps DEF IputRepeat

-----------------------------------------------------------------------------
(* The entries of super_block[].                                           *)

\* The entry is no other task's; no other entry is that of the device.
OnlyOwner(t, s) == \A u \in Tasks : u # t /\ task[u].pc \in Owning => task[u].s # s
NoOther(s, v) == v # NULL => \A z \in Supers : z # s => super[z].dev # v

\* What is said of the entry p of a task whose record is q
Handed(q, s, p) ==
  /\ q.pc \in Owning => /\ q.s = s /\ p.lock = (q.pc # "lock")
                         /\ p.dev = IF q.pc = "release" THEN NULL ELSE q.dev
  /\ p.dev # NULL /\ ~p.read => p.lock \/ q.pc = "lock"

\* An entry that is not locked, while task t runs, belongs to no other task.
LEMMA NotOwned ==
  ASSUME Good, NEW t \in Tasks, current \in {NULL, t}, NEW s \in Supers, ~super[s].lock
  PROVE  /\ OnlyOwner(t, s)
         /\ task[t].pc # "lock" /\ super[s].dev # NULL => super[s].read
  <1>1. \A u \in Tasks : u # t => task[u].pc \notin Atomic
    BY MountAssumption DEF Good, KeepsProcessor
  <1>2. ASSUME NEW u \in Tasks, u # t, task[u].pc \in Owning, task[u].s = s PROVE FALSE
    <2>1. super[s].lock = (task[u].pc # "lock")
      BY <1>2 DEF Good, OwnEntry
    <2> QED
      BY <1>1, <1>2, <2>1 DEF Atomic
  <1>3. ASSUME task[t].pc # "lock", super[s].dev # NULL, ~super[s].read PROVE FALSE
    <2>1. PICK u \in Tasks : task[u].pc = "lock" /\ task[u].s = s
      BY <1>3 DEF Good, BeingRead
    <2>2. u # t
      BY <1>3, <2>1
    <2> QED
      BY <1>2, <2>1, <2>2 DEF Owning
  <1> QED
    BY <1>2, <1>3 DEF OnlyOwner

\* A step with one entry, that belongs to the task, or that it takes
LEMMA EntryStep ==
  ASSUME Good, NEW t \in Tasks, NEW q, task' = [task EXCEPT ![t] = q],
         NEW s \in Supers, NEW p \in SuperRecs, super' = [super EXCEPT ![s] = p],
         super[s].imount = NULL, p.imount = NULL,
         NoOther(s, p.dev), OnlyOwner(t, s), Handed(q, s, p),
         task[t].pc \in Owning => task[t].s = s
  PROVE  SupersStep /\ BeingRead' /\ OwnEntry'
  <1>1. task \in [Tasks -> Recs] /\ super \in [Supers -> SuperRecs]
    BY DEF Good, Types
  <1>2. task'[t] = q /\ \A u \in Tasks : u # t => task'[u] = task[u]
    BY <1>1
  <1>3. super'[s] = p /\ super' \in [Supers -> SuperRecs] /\ \A z \in Supers : z # s => super'[z] = super[z]
    BY <1>1
  <1>4. SupersStep
    <2>1. \A z \in Supers : super'[z].imount = super[z].imount
      BY <1>3
    <2>2. \A z \in Supers : super[z].imount # NULL =>
            super'[z].dev = super[z].dev /\ super'[z].read = super[z].read
      BY <1>3
    <2>3. \A z, w \in Supers : super'[z].dev = super'[w].dev /\ super'[z].dev # NULL => z = w
      BY <1>3 DEF Good, OneEach, NoOther
    <2> QED
      BY <1>3, <2>1, <2>2, <2>3 DEF SupersStep
  <1>5. BeingRead'
    <2> SUFFICES ASSUME NEW z \in Supers, super'[z].dev # NULL, ~super'[z].read, ~super'[z].lock
                 PROVE  \E u \in Tasks : task'[u].pc = "lock" /\ task'[u].s = z
      BY DEF BeingRead
    <2>1. CASE z = s
      BY <1>2, <1>3, <2>1 DEF Handed, Owning
    <2>2. CASE z # s
      <3>1. PICK u \in Tasks : task[u].pc = "lock" /\ task[u].s = z
        BY <1>3, <2>2 DEF Good, BeingRead
      <3>2. u # t
        BY <2>2, <3>1 DEF Owning
      <3> QED
        BY <1>2, <3>1, <3>2
    <2> QED
      BY <2>1, <2>2
  <1>6. OwnEntry'
    <2>1. ASSUME NEW u \in Tasks, task'[u].pc \in Owning
          PROVE  /\ super'[task'[u].s].lock = (task'[u].pc # "lock")
                 /\ super'[task'[u].s].imount = NULL
                 /\ super'[task'[u].s].dev = IF task'[u].pc = "release" THEN NULL ELSE task'[u].dev
      <3>1. CASE u = t
        BY <1>2, <1>3, <2>1, <3>1 DEF Handed
      <3>2. CASE u # t
        <4>1. task'[u] = task[u] /\ task[u].s # s /\ task[u].pc \in Owning
          BY <1>2, <2>1, <3>2 DEF OnlyOwner
        <4>2. task[u].s \in Supers
          BY <4>1 DEF Good, TasksOK, Locals, HasSuperInHand
        <4>3. super'[task[u].s] = super[task[u].s]
          BY <1>3, <4>1, <4>2
        <4> QED
          BY <4>1, <4>3 DEF Good, OwnEntry
      <3> QED
        BY <3>1, <3>2
    <2>2. ASSUME NEW u \in Tasks, NEW w \in Tasks, task'[u].pc \in Owning, task'[w].pc \in Owning,
                 task'[u].s = task'[w].s
          PROVE  u = w
      BY <1>2, <2>2 DEF Good, OwnEntry, OnlyOwner, Handed
    <2> QED
      BY <2>1, <2>2 DEF OwnEntry
  <1> QED
    BY <1>4, <1>5, <1>6

\* Such a step keeps the invariant.
LEMMA EntryKeeps ==
  ASSUME Good, NEW t \in Tasks, NEW q \in Recs, NEW I, NEW S, NEW l,
         At(t, l), Go(t, I, S, q), inode' = inode, panic' = panic, Places(q), Locals(q), Calls(q),
         NEW s \in Supers, NEW p \in SuperRecs, super' = [super EXCEPT ![s] = p],
         super[s].imount = NULL, p.imount = NULL,
         NoOther(s, p.dev), OnlyOwner(t, s), Handed(q, s, p),
         l \in Owning => task[t].s = s,
         l # "unmounted", q.pc # "unmounted", UnmountStep(task[t], q), UpStep(q), q.x = NULL,
         Mounting(q) => Mounting(task[t]) /\ q.i = task[t].i,
         \A x \in Inodes : Held(q, x) = Held(task[t], x)
  PROVE  Good'
  <1>1. Types /\ inode \in [Inodes -> InodeRecs] /\ super \in [Supers -> SuperRecs] /\ task[t].pc = l
    BY TaskHere DEF At
  <1>2. task' = [task EXCEPT ![t] = q] /\ S = super'
    BY DEF Go
  <1>3. SupersStep /\ BeingRead' /\ OwnEntry'
    BY <1>1, <1>2, EntryStep
  <1>4. q.pc = "lock" => ~S[q.s].lock
    BY <1>1, <1>2 DEF Owning, Handed
  <1>5. TaskStep(t, q)
    BY <1>4, GoIsStep
  <1>6. InodesStep
    BY <1>1, SameInodes
  <1>7. BalanceStep(task[t], q)
    BY SameBalance
  <1>8. CountStep(task[t], q)
    BY <1>1, <1>2, <1>3, <1>7, BalanceIsCount DEF SupersStep
  <1>9. WayStep(q)
    BY DEF WayStep
  <1>10. DirectoryStep(t, q)
    BY DEF DirectoryStep, Good, OwnDirectory
  <1> QED
    BY <1>3, <1>5, <1>6, <1>8, <1>9, <1>10, StepKeeps

\* put_super() returns.
LEMMA AfterPutSuperFields ==
  ASSUME NEW r \in Recs, Places(r), Locals(r), Calls(r), r.pc \in {"put", "release"},
         NEW q, q = AfterPutSuper(r)
  PROVE  /\ q \in Recs /\ Places(q) /\ Locals(q) /\ Calls(q) /\ q.pc \notin Special
         /\ UnmountStep(r, q) /\ UpStep(q) /\ q.x = NULL
         /\ Mounting(q) => Mounting(r) /\ q.i = r.i
         /\ \A x \in Inodes : Held(q, x) = Held(r, x)
  <1>1. /\ r.ret \notin {"chdir", "unmounted"} /\ r.x = NULL /\ r.new = NULL /\ NULL \notin Inodes
        /\ r.op \in {"mount", "umount"}
    BY InodeFacts DEF Places, Locals, Calls, Putting
  <1>2. CASE r.op = "mount"
    <2>1. /\ q \in Recs /\ q.pc = "invalidate" /\ q.op = r.op /\ q.dev = r.dev /\ q.x = r.x /\ q.rest = r.rest
          /\ q.i = r.i /\ q.new = r.new /\ q.s = NULL /\ q.ret = r.ret /\ q.pwd = r.pwd
      <3>1. "invalidate" \in Labels
        BY DEF Labels
      <3> QED
        BY <1>2, <3>1 DEF AfterPutSuper, Recs
    <2>2. Mounting(q) /\ Mounting(r)
      BY <1>2, <2>1 DEF Mounting
    <2>3. Places(q)
      BY <1>1, <2>1 DEF Places, Putting
    <2>4. Locals(q)
      BY <1>1, <2>1, <2>2 DEF Locals, Putting, HasSuperInHand, Owning
    <2>5. Calls(q)
      BY <1>2, <2>1, <2>2 DEF Calls
    <2>6. \A x \in Inodes : Held(q, x) = Held(r, x)
      BY <2>1 DEF Held, Puts, Putting
    <2> QED
      BY <1>1, <2>1, <2>2, <2>3, <2>4, <2>5, <2>6 DEF Special, Owning, UnmountStep, UpStep, Putting
  <1>3. CASE r.op = "umount"
    <2>1. q = Return(r)
      BY <1>3 DEF AfterPutSuper
    <2>2. /\ q \in Recs /\ q.pc = "out" /\ q.x = NULL /\ q.i = NULL /\ q.new = NULL /\ q.ret = "out"
          /\ q.pwd = r.pwd /\ Places(q) /\ Locals(q) /\ Calls(q)
      BY <2>1, ReturnFields
    <2>3. r.i = NULL
      BY <1>3 DEF Locals, Mounting, Putting
    <2>4. \A x \in Inodes : Held(q, x) = Held(r, x)
      BY <1>1, <2>2, <2>3 DEF Held, Puts, One, Putting
    <2> QED
      BY <1>1, <2>2, <2>4 DEF Special, Owning, UnmountStep, UpStep, Putting, Mounting
  <1> QED
    BY <1>1, <1>2, <1>3

\* put_super(): an entry that is not mounted becomes free.
LEMMA PutSuperKeeps ==
  ASSUME Good, NEW t \in Tasks, PutSuper(t)
  PROVE  Good'
  <1>1. task[t] \in Recs /\ Places(task[t]) /\ Locals(task[t]) /\ Calls(task[t]) /\ Types
        /\ super \in [Supers -> SuperRecs]
    BY TaskHere
  <1>2. PICK r, I, S : r = task[t] /\ I = inode' /\ S = super'
    OBVIOUS
  <1>3. At(t, "put") /\ r.pc = "put" /\ r \in Recs /\ current \in {NULL, t} /\ ~Waits(inode, super, r)
    BY <1>1, <1>2 DEF PutSuper, At
  <1>4. "put" \notin Special /\ "put" # "unmounted" /\ "put" \notin Owning
    BY DEF Special, Owning
  <1>5. ASSUME Go(t, inode, super, AfterPutSuper(r)), UNCHANGED quiet PROVE Good'
    <2>1. PICK q : q = AfterPutSuper(r)
      OBVIOUS
    <2>2. /\ q \in Recs /\ Places(q) /\ Locals(q) /\ Calls(q) /\ q.pc \notin Special
          /\ UnmountStep(r, q) /\ UpStep(q) /\ q.x = NULL
          /\ Mounting(q) => Mounting(r) /\ q.i = r.i
          /\ \A x \in Inodes : Held(q, x) = Held(r, x)
      BY <1>1, <1>2, <1>3, <2>1, AfterPutSuperFields
    <2>3. Go(t, I, S, q) /\ panic' = panic /\ inode' = inode /\ S = super
      BY <1>2, <1>5, <2>1 DEF Go, quiet
    <2>4. InodesStep /\ BalanceStep(r, q)
      BY <1>1, <2>2, <2>3, SameInodes, SameBalance
    <2> QED
      BY <1>2, <1>3, <1>4, <2>2, <2>3, <2>4, PlainWalk
  <1>6. ASSUME NEW s \in OfDev(r.dev), super[s].imount = NULL, UNCHANGED quiet,
               Go(t, inode, [super EXCEPT ![s].lock = TRUE, ![s].dev = NULL, ![s].read = FALSE],
                  [r EXCEPT !.pc = "release", !.s = s])
        PROVE  Good'
    <2>1. PICK p, q : /\ p = [super[s] EXCEPT !.lock = TRUE, !.dev = NULL, !.read = FALSE]
                      /\ q = [r EXCEPT !.pc = "release", !.s = s]
      OBVIOUS
    <2>2. s \in Supers /\ super[s] \in SuperRecs /\ super[s].dev = r.dev
      BY <1>1 DEF OfDev
    <2>3. p \in SuperRecs /\ p.imount = NULL /\ p.lock = TRUE /\ p.dev = NULL
      BY <1>6, <2>1, <2>2 DEF SuperRecs
    <2>4. super' = [super EXCEPT ![s] = p]
      <3>1. super' = [super EXCEPT ![s].lock = TRUE, ![s].dev = NULL, ![s].read = FALSE]
        BY <1>6 DEF Go
      <3> QED
        BY <1>1, <2>1, <2>2, <3>1 DEF SuperRecs
    <2>5. Go(t, I, S, q) /\ panic' = panic /\ inode' = inode
      BY <1>2, <1>6, <2>1 DEF Go, quiet
    <2>6. "release" \in Labels
      BY DEF Labels
    <2>7. /\ q \in Recs /\ q.pc = "release" /\ q.op = r.op /\ q.dev = r.dev /\ q.x = r.x /\ q.rest = r.rest
          /\ q.i = r.i /\ q.new = r.new /\ q.s = s /\ q.ret = r.ret /\ q.pwd = r.pwd
      BY <1>3, <2>1, <2>2, <2>6 DEF Recs
    <2>8. ~super[s].lock
      BY <1>3, <2>2 DEF Waits
    <2>9. OnlyOwner(t, s)
      BY <1>3, <2>2, <2>8, NotOwned
    <2>10. r.ret \notin {"chdir", "unmounted"} /\ r.x = NULL /\ r.new = NULL
      BY <1>1, <1>2, <1>3 DEF Places, Locals, Putting
    <2>11. Places(q) /\ (Mounting(q) <=> Mounting(r))
      BY <1>3, <2>7, <2>10 DEF Places, Mounting, Putting
    <2>12. Locals(q)
      BY <1>1, <1>2, <1>3, <2>2, <2>7, <2>10, <2>11 DEF Locals, Putting, HasSuperInHand, Owning
    <2>13. Calls(q)
      BY <1>1, <1>2, <1>3, <2>7, <2>10, <2>11 DEF Calls
    <2>14. \A x \in Inodes : Held(q, x) = Held(r, x)
      BY <1>3, <2>7, <2>10 DEF Held, Puts
    <2>15. UnmountStep(r, q) /\ UpStep(q)
      BY <2>7, <2>10 DEF UnmountStep, UpStep, Putting
    <2>16. NoOther(s, p.dev) /\ Handed(q, s, p)
      BY <2>3, <2>7 DEF NoOther, Handed, Owning
    <2> QED
      BY ZenonT(60), <1>2, <1>3, <1>4, <1>6, <2>2, <2>3, <2>4, <2>5, <2>7, <2>9, <2>10, <2>11, <2>12, <2>13,
         <2>14, <2>15, <2>16, EntryKeeps
  <1>7. CASE OfDev(r.dev) = {}
    BY <1>2, <1>5, <1>7 DEF PutSuper
  <1>8. CASE OfDev(r.dev) # {}
    <2>1. PICK s \in OfDev(r.dev) :
            IF super[s].imount # NULL THEN Go(t, inode, super, AfterPutSuper(r))
            ELSE Go(t, inode, [super EXCEPT ![s].lock = TRUE, ![s].dev = NULL, ![s].read = FALSE],
                    [r EXCEPT !.pc = "release", !.s = s])
      BY <1>2, <1>8 DEF PutSuper
    <2>2. UNCHANGED quiet
      BY DEF PutSuper
    <2> QED
      BY <1>5, <1>6, <2>1, <2>2
  <1> QED
    BY <1>7, <1>8

\* ... and is unlocked when its bitmaps are released.
LEMMA ReleaseKeeps ==
  ASSUME Good, NEW t \in Tasks, Release(t)
  PROVE  Good'
  <1>1. task[t] \in Recs /\ Places(task[t]) /\ Locals(task[t]) /\ Calls(task[t]) /\ Types
        /\ super \in [Supers -> SuperRecs]
    BY TaskHere
  <1>2. PICK r, I, S, s, q : r = task[t] /\ I = inode' /\ S = super' /\ s = r.s /\ q = AfterPutSuper(r)
    OBVIOUS
  <1>3. At(t, "release") /\ r.pc = "release" /\ r \in Recs /\ r.pc \in Owning
    BY <1>1, <1>2 DEF Release, At, Owning
  <1>4. s \in Supers /\ super[s] \in SuperRecs
    BY <1>1, <1>2, <1>3 DEF Locals, HasSuperInHand
  <1>5. super[s].imount = NULL /\ super[s].dev = NULL /\ OnlyOwner(t, s)
    BY <1>2, <1>3 DEF Good, OwnEntry, OnlyOwner
  <1>6. /\ q \in Recs /\ Places(q) /\ Locals(q) /\ Calls(q) /\ q.pc \notin Special
        /\ UnmountStep(r, q) /\ UpStep(q) /\ q.x = NULL
        /\ Mounting(q) => Mounting(r) /\ q.i = r.i
        /\ \A x \in Inodes : Held(q, x) = Held(r, x)
    BY <1>1, <1>2, <1>3, AfterPutSuperFields
  <1>7. PICK p : p = [super[s] EXCEPT !.lock = FALSE]
    OBVIOUS
  <1>8. p \in SuperRecs /\ p.imount = NULL /\ p.dev = NULL
    BY <1>4, <1>5, <1>7 DEF SuperRecs
  <1>9. Go(t, I, S, q) /\ panic' = panic /\ inode' = inode /\ super' = [super EXCEPT ![s] = p]
    <2>1. Go(t, inode, [super EXCEPT ![s].lock = FALSE], q) /\ UNCHANGED quiet
      BY <1>2 DEF Release
    <2>2. super' = [super EXCEPT ![s] = p]
      BY <1>1, <1>4, <1>7, <2>1 DEF Go
    <2> QED
      BY <1>2, <2>1, <2>2 DEF Go, quiet
  <1>10. NoOther(s, p.dev) /\ Handed(q, s, p) /\ q.pc # "unmounted" /\ "release" # "unmounted"
    BY <1>6, <1>8 DEF NoOther, Handed, Special
  <1> QED
    BY <1>2, <1>3, <1>4, <1>5, <1>6, <1>8, <1>9, <1>10, EntryKeeps

\* read_super() locks the entry that it has taken.
LEMMA LockSuperKeeps ==
  ASSUME Good, NEW t \in Tasks, LockSuper(t)
  PROVE  Good'
  <1>1. task[t] \in Recs /\ Places(task[t]) /\ Locals(task[t]) /\ Calls(task[t]) /\ Types
        /\ super \in [Supers -> SuperRecs]
    BY TaskHere
  <1>2. PICK r, I, S, s, q : /\ r = task[t] /\ I = inode' /\ S = super' /\ s = r.s
                             /\ q = Jump(r, "read_super")
    OBVIOUS
  <1>3. At(t, "lock") /\ r.pc = "lock" /\ r \in Recs /\ r.pc \in Owning
    BY <1>1, <1>2 DEF LockSuper, At, Owning
  <1>4. s \in Supers /\ super[s] \in SuperRecs
    BY <1>1, <1>2, <1>3 DEF Locals, HasSuperInHand
  <1>5. super[s].imount = NULL /\ super[s].dev = r.dev /\ OnlyOwner(t, s)
    BY <1>2, <1>3 DEF Good, OwnEntry, OnlyOwner
  <1>6. PICK p : p = [super[s] EXCEPT !.lock = TRUE]
    OBVIOUS
  <1>7. p \in SuperRecs /\ p.imount = NULL /\ p.dev = r.dev /\ p.lock = TRUE
    BY <1>4, <1>5, <1>6 DEF SuperRecs
  <1>8. Go(t, I, S, q) /\ panic' = panic /\ inode' = inode /\ super' = [super EXCEPT ![s] = p]
    <2>1. Go(t, inode, [super EXCEPT ![s].lock = TRUE], q) /\ UNCHANGED quiet
      BY <1>2 DEF LockSuper
    <2>2. super' = [super EXCEPT ![s] = p]
      BY <1>1, <1>4, <1>6, <2>1 DEF Go
    <2> QED
      BY <1>2, <2>1, <2>2 DEF Go, quiet
  <1>9. "read_super" \in Labels
    BY DEF Labels
  <1>10. /\ q \in Recs /\ q.pc = "read_super" /\ q.op = r.op /\ q.dev = r.dev /\ q.x = r.x /\ q.rest = r.rest
         /\ q.i = r.i /\ q.new = r.new /\ q.s = s /\ q.ret = r.ret /\ q.pwd = r.pwd
    BY <1>2, <1>3, <1>9, JumpFields
  <1>11. r.ret \notin {"chdir", "unmounted"} /\ r.x = NULL /\ r.new = NULL /\ r.op = "mount"
    BY <1>1, <1>2, <1>3 DEF Places, Locals, Calls, Putting
  <1>12. Places(q) /\ Mounting(q) /\ Mounting(r)
    BY <1>3, <1>10, <1>11 DEF Places, Mounting, Putting
  <1>13. Locals(q)
    BY <1>1, <1>2, <1>3, <1>4, <1>10, <1>11, <1>12 DEF Locals, Putting, HasSuperInHand, Owning
  <1>14. Calls(q)
    BY <1>1, <1>2, <1>3, <1>10, <1>11, <1>12 DEF Calls
  <1>15. \A x \in Inodes : Held(q, x) = Held(r, x)
    BY <1>3, <1>10, <1>11 DEF Held, Puts
  <1>16. UnmountStep(r, q) /\ UpStep(q)
    BY <1>10, <1>11 DEF UnmountStep, UpStep, Putting
  <1>17. NoOther(s, p.dev)
    BY <1>4, <1>5, <1>7 DEF NoOther, Good, OneEach
  <1>18. Handed(q, s, p) /\ "lock" # "unmounted" /\ q.pc # "unmounted"
    BY <1>7, <1>10 DEF Handed
  <1>19. /\ q.x = NULL /\ q.i = task[t].i /\ Mounting(task[t]) /\ task[t].s = s
         /\ UnmountStep(task[t], q) /\ \A x \in Inodes : Held(q, x) = Held(task[t], x)
    BY <1>2, <1>10, <1>11, <1>12, <1>15, <1>16
  <1> QED
    BY <1>3, <1>4, <1>5, <1>7, <1>8, <1>10, <1>13, <1>12, <1>14, <1>16, <1>17, <1>18, <1>19, EntryKeeps

\* mount() fails, or ends with the directory in hand put.
LEMMA PutEndsMount ==
  ASSUME NEW r \in Recs, Places(r), Locals(r), Calls(r), Mounting(r), r.pc # "release", NEW q, q = PutAndReturn(r)
  PROVE  /\ q \in Recs /\ Places(q) /\ Locals(q) /\ Calls(q) /\ q.pc = "iput" /\ q.i = r.i /\ q.x = NULL
         /\ q.ret = "out" /\ q.op = r.op /\ q.dev = r.dev /\ q.new = r.new /\ q.pwd = r.pwd /\ q.rest = r.rest
         /\ UnmountStep(r, q) /\ UpStep(q) /\ ~Mounting(q) /\ \A x \in Inodes : Held(q, x) = Held(r, x)
         /\ r.i \in RootDirs /\ r.i \in Inodes /\ r.x = NULL /\ r.op = "mount" /\ r.rest = 0
         /\ r.pc \notin Putting /\ r.ret \notin {"chdir", "unmounted"} /\ r.new = NULL
  <1>1. PICK y : y = r.i
    OBVIOUS
  <1>2. /\ r.op = "mount" /\ y \in RootDirs /\ y \in Inodes /\ NULL \notin Inodes /\ r.x = NULL
        /\ r.pc \notin Putting /\ r.ret \notin {"chdir", "unmounted"} /\ r.new = NULL /\ r.rest = 0
    BY <1>1, InodeFacts DEF Mounting, Places, Locals, Calls, Putting
  <1>3. "out" \in Labels /\ q = Put(r, y, "out")
    BY <1>1 DEF Labels, PutAndReturn
  <1>4. /\ q \in Recs /\ q.pc = "iput" /\ q.op = r.op /\ q.dev = r.dev /\ q.x = r.x /\ q.rest = r.rest
        /\ q.i = y /\ q.new = r.new /\ q.s = r.s /\ q.ret = "out" /\ q.pwd = r.pwd
    BY <1>2, <1>3, PutFields
  <1>5. Places(q) /\ ~Mounting(q)
    BY <1>4 DEF Places, Putting, Mounting
  <1>6. Locals(q)
    BY <1>2, <1>4, <1>5 DEF Locals, Putting, HasSuperInHand, Owning
  <1>7. Calls(q)
    BY <1>1, <1>2, <1>4, <1>5 DEF Calls
  <1>8. \A x \in Inodes : Held(q, x) = Held(r, x)
    BY <1>1, <1>2, <1>4 DEF Held, Puts
  <1>9. UnmountStep(r, q) /\ UpStep(q)
    BY <1>2, <1>4 DEF UnmountStep, UpStep
  <1> QED
    BY <1>1, <1>2, <1>4, <1>5, <1>6, <1>7, <1>8, <1>9

\* The parts of the invariant that a task's record has to keep
LEMMA TaskPart ==
  ASSUME Good, NEW t \in Tasks, NEW q, TaskStep(t, q),
         inode' \in [Inodes -> InodeRecs], super' \in [Supers -> SuperRecs]
  PROVE  /\ Types' /\ TasksOK' /\ KeepsProcessor' /\ panic' = FALSE
         /\ task'[t] = q /\ \A u \in Tasks : u # t => task'[u] = task[u]
         /\ \A u \in Tasks : u # t => task[u].pc \notin Atomic
  <1>1. Types /\ TasksOK /\ KeepsProcessor /\ NULL \notin Tasks /\ ~panic
    BY MountAssumption DEF Good
  <1>2. task \in [Tasks -> Recs] /\ task' = [task EXCEPT ![t] = q]
    BY <1>1 DEF Types, TaskStep
  <1>3. task'[t] = q /\ \A u \in Tasks : u # t => task'[u] = task[u]
    BY <1>2
  <1>4. Types'
    BY <1>1, <1>2 DEF Types, TaskStep
  <1>5. TasksOK'
    BY <1>1, <1>3 DEF TasksOK, TaskStep
  <1>6. \A u \in Tasks : u # t => task[u].pc \notin Atomic
    BY <1>1 DEF KeepsProcessor, TaskStep
  <1>7. KeepsProcessor'
    BY <1>3, <1>6 DEF KeepsProcessor, TaskStep
  <1>8. panic' = FALSE
    <2>1. panic' = panic
      BY DEF TaskStep
    <2>2. panic = FALSE
      BY DEF Good, Types
    <2> QED
      BY <2>1, <2>2
  <1> QED
    BY <1>3, <1>4, <1>5, <1>6, <1>7, <1>8

\* The directory y becomes the mount point of the entry s.
Pairs(y, n, s, p) ==
  /\ inode' = [inode EXCEPT ![y] = n] /\ n \in InodeRecs /\ n.mount = TRUE /\ n.count = inode[y].count
  /\ super' = [super EXCEPT ![s] = p] /\ p \in SuperRecs /\ super[s].imount = NULL /\ p.imount = y
  /\ p.dev = super[s].dev /\ p.dev # NULL /\ p.read = TRUE

\* read_super() has returned the entry s: the device is mounted.
LEMMA MountsOn ==
  ASSUME Good, NEW t \in Tasks, NEW q, NEW I, NEW S, NEW l, At(t, l), Go(t, I, S, q), panic' = panic,
         NEW y, y = task[t].i, Mounting(task[t]), l # "release", q = Return(task[t]),
         NEW n, NEW s \in Supers, NEW p, Pairs(y, n, s, p),
         OnlyOwner(t, s), l \in Owning => task[t].s = s
  PROVE  Good'
  <1> USE DEF Pairs
  <1>1. /\ task[t] \in Recs /\ Places(task[t]) /\ Locals(task[t]) /\ Calls(task[t]) /\ Types /\ ~panic
        /\ inode \in [Inodes -> InodeRecs] /\ super \in [Supers -> SuperRecs] /\ task[t].pc = l
    BY TaskHere DEF At
  <1>2. /\ y \in RootDirs /\ y \in Inodes /\ task[t].x = NULL /\ task[t].pc \notin Putting
        /\ task[t].ret \notin {"chdir", "unmounted"} /\ task[t].new = NULL /\ NULL \notin Inodes
    BY <1>1, InodeFacts DEF Mounting, Places, Locals, Calls, Putting
  <1>3. /\ q \in Recs /\ q.pc = "out" /\ q.x = NULL /\ q.i = NULL /\ q.new = NULL /\ q.ret = "out"
        /\ q.pwd = task[t].pwd /\ Places(q) /\ Locals(q) /\ Calls(q)
    BY <1>1, ReturnFields
  <1>4. TaskStep(t, q)
    BY <1>3, GoIsStep
  <1>5. /\ inode'[y] = n /\ inode' \in [Inodes -> InodeRecs] /\ \A x \in Inodes : x # y => inode'[x] = inode[x]
        /\ \A x \in Inodes : inode'[x].count = inode[x].count
    BY <1>1, <1>2
  <1>6. super'[s] = p /\ super' \in [Supers -> SuperRecs] /\ \A z \in Supers : z # s => super'[z] = super[z]
    BY <1>1
  <1>7. /\ Types' /\ TasksOK' /\ KeepsProcessor' /\ panic' = FALSE
        /\ task'[t] = q /\ \A u \in Tasks : u # t => task'[u] = task[u]
        /\ \A u \in Tasks : u # t => task[u].pc \notin Atomic
    BY <1>4, <1>5, <1>6, TaskPart
  <1>8. \A z \in Supers : super[z].imount # y
    BY <1>2 DEF Good, OwnDirectory
  <1>9. \A u \in Tasks : u # t => ~(Mounting(task[u]) /\ task[u].i = y)
    BY DEF Good, OwnDirectory
  <1>10. \A z \in Supers : super[z].imount # NULL => z # s /\ super'[z] = super[z]
    BY <1>6
  <1>11. OneEach'
    <2>1. \A z, w \in Supers : super'[z].dev = super'[w].dev /\ super'[z].dev # NULL => z = w
      <3>1. \A z \in Supers : super'[z].dev = super[z].dev
        BY <1>6
      <3> QED
        BY <3>1 DEF Good, OneEach
    <2>2. \A z, w \in Supers : super'[z].imount = super'[w].imount /\ super'[z].imount # NULL => z = w
      BY <1>6, <1>8 DEF Good, OneEach
    <2>3. \A x \in Inodes : inode'[x].mount => \E z \in Supers : super'[z].imount = x
      <3> SUFFICES ASSUME NEW x \in Inodes, inode'[x].mount PROVE \E z \in Supers : super'[z].imount = x
        OBVIOUS
      <3>1. CASE x = y
        BY <1>6, <3>1
      <3>2. CASE x # y
        <4>1. PICK z \in Supers : super[z].imount = x
          BY <1>5, <3>2 DEF Good, OneEach
        <4>2. super'[z] = super[z]
          BY <1>2, <1>10, <4>1
        <4> QED
          BY <4>1, <4>2
      <3> QED
        BY <3>1, <3>2
    <2> QED
      BY <2>1, <2>2, <2>3 DEF OneEach
  <1>12. \A u \in Tasks : task'[u].ret = "unmounted" => u # t /\ task'[u] = task[u]
    BY <1>3, <1>7
  <1>13. MountedOK'
    <2> SUFFICES ASSUME NEW z \in Supers, super'[z].imount # NULL
                 PROVE  /\ super'[z].dev # NULL /\ super'[z].read /\ super'[z].imount \in RootDirs
                        /\ inode'[super'[z].imount].mount \/ \E u \in Tasks : task'[u].ret = "unmounted" /\ task'[u].s = z
      BY DEF MountedOK, Unmounts
    <2>1. CASE z = s
      BY <1>2, <1>5, <1>6, <2>1
    <2>2. CASE z # s
      <3>1. super'[z] = super[z] /\ super[z].imount # NULL
        BY <1>6, <2>2
      <3>2. super[z].dev # NULL /\ super[z].read /\ super[z].imount \in RootDirs
            /\ (inode[super[z].imount].mount \/ \E u \in Tasks : task[u].ret = "unmounted" /\ task[u].s = z)
        BY <3>1 DEF Good, MountedOK, Unmounts
      <3>3. super[z].imount \in Inodes /\ super[z].imount # y
        BY <1>8, <3>2, InodeFacts
      <3>4. CASE inode[super[z].imount].mount
        BY <1>5, <3>1, <3>2, <3>3, <3>4
      <3>5. ASSUME NEW u \in Tasks, task[u].ret = "unmounted", task[u].s = z
            PROVE  task'[u].ret = "unmounted" /\ task'[u].s = z
        BY <1>2, <1>7, <3>5
      <3> QED
        BY <3>1, <3>2, <3>4, <3>5
    <2> QED
      BY <2>1, <2>2
  <1>14. BeingRead'
    <2> SUFFICES ASSUME NEW z \in Supers, super'[z].dev # NULL, ~super'[z].read, ~super'[z].lock
                 PROVE  \E u \in Tasks : task'[u].pc = "lock" /\ task'[u].s = z
      BY DEF BeingRead
    <2>1. z # s /\ super'[z] = super[z]
      BY <1>6
    <2>2. PICK u \in Tasks : task[u].pc = "lock" /\ task[u].s = z
      BY <2>1 DEF Good, BeingRead
    <2>3. u # t
      BY <1>1, <2>1, <2>2 DEF Owning
    <2> QED
      BY <1>7, <2>2, <2>3
  <1>15. Unmounting'
    <2> SUFFICES ASSUME NEW u \in Tasks, task'[u].ret = "unmounted"
                 PROVE  /\ super'[task'[u].s].imount # NULL /\ super'[task'[u].s].dev = task'[u].dev
                        /\ task'[u].pc \in Putting => super'[task'[u].s].imount = task'[u].i
                        /\ ~inode'[super'[task'[u].s].imount].mount
                        /\ \A x \in Inodes : Dev(x) = task'[u].dev => ~(inode'[x].count > 0)
                        /\ \A w \in Tasks : task'[w].ret = "unmounted" /\ task'[w].dev = task'[u].dev => w = u
      BY DEF Unmounting, InUse
    <2>1. task'[u] = task[u] /\ task[u].ret = "unmounted"
      BY <1>12
    <2>2. /\ super[task[u].s].imount # NULL /\ super[task[u].s].dev = task[u].dev
          /\ task[u].pc \in Putting => super[task[u].s].imount = task[u].i
          /\ ~inode[super[task[u].s].imount].mount
          /\ ~InUse(task[u].dev)
          /\ \A w \in Tasks : task[w].ret = "unmounted" /\ task[w].dev = task[u].dev => w = u
      BY <2>1 DEF Good, Unmounting
    <2>3. task[u].s \in Supers
      BY <2>1 DEF Good, TasksOK, Locals, HasSuperInHand
    <2>4. super'[task[u].s] = super[task[u].s] /\ super[task[u].s].imount # y
      BY <1>8, <1>10, <2>2, <2>3
    <2>5. super[task[u].s].imount \in Inodes
      BY <2>2, <2>3, InodeFacts DEF Good, MountedOK
    <2>6. ~inode'[super[task[u].s].imount].mount
      BY <1>5, <2>2, <2>4, <2>5
    <2>7. \A x \in Inodes : Dev(x) = task'[u].dev => ~(inode'[x].count > 0)
      BY <1>5, <2>1, <2>2 DEF InUse
    <2>8. \A w \in Tasks : task'[w].ret = "unmounted" /\ task'[w].dev = task'[u].dev => w = u
      BY <1>12, <2>1, <2>2
    <2> QED
      BY <2>1, <2>2, <2>4, <2>6, <2>7, <2>8
  <1>16. \A v : IsMounted(v) => IsMounted(v)'
    <2> SUFFICES ASSUME NEW v, IsMounted(v) PROVE IsMounted(v)'
      OBVIOUS
    <2>1. PICK z \in Supers : super[z].dev = v /\ super[z].read /\ super[z].imount # NULL
      BY DEF IsMounted, OfDev
    <2>2. super'[z] = super[z]
      BY <1>10, <2>1
    <2> QED
      BY <2>1, <2>2 DEF IsMounted, OfDev
  <1>17. OnItsWay'
    <2> SUFFICES ASSUME NEW u \in Tasks, NEW v \in Devs, task'[u].x # NULL, Dev(task'[u].x) = v
                 PROVE  Stays(v)'
      BY DEF OnItsWay, Stays, IsMounted, OfDev
    <2>1. u # t /\ task'[u] = task[u]
      BY <1>3, <1>7
    <2>2. Stays(v)
      BY <2>1 DEF Good, OnItsWay
    <2>3. IsMounted(v)'
      BY <1>16, <2>2 DEF Stays
    <2>4. \A w \in Tasks : ~(task'[w].ret = "unmounted" /\ task'[w].dev = v)
      BY <1>12, <2>2 DEF Stays
    <2> QED
      BY <2>3, <2>4 DEF Stays
  <1>18. \A u \in Tasks : Mounting(task'[u]) => u # t /\ task'[u] = task[u]
    BY <1>3, <1>7 DEF Mounting
  <1>19. OwnDirectory'
    <2>1. \A u \in Tasks, z \in Supers : Mounting(task'[u]) => super'[z].imount # task'[u].i
      <3> SUFFICES ASSUME NEW u \in Tasks, NEW z \in Supers, Mounting(task'[u])
                   PROVE  super'[z].imount # task'[u].i
        OBVIOUS
      <3>1. u # t /\ task'[u] = task[u]
        BY <1>18
      <3>2. CASE z = s
        BY <1>6, <1>9, <3>1, <3>2
      <3>3. CASE z # s
        BY <1>6, <3>1, <3>3 DEF Good, OwnDirectory
      <3> QED
        BY <3>2, <3>3
    <2>2. \A u, w \in Tasks : Mounting(task'[u]) /\ Mounting(task'[w]) /\ task'[u].i = task'[w].i => u = w
      BY <1>18 DEF Good, OwnDirectory
    <2> QED
      BY <2>1, <2>2 DEF OwnDirectory, Mounting
  <1>20. OwnEntry'
    <2>1. \A u \in Tasks : task'[u].pc \in Owning => u # t /\ task'[u] = task[u] /\ task[u].s # s
      BY <1>3, <1>7 DEF Owning, OnlyOwner
    <2>2. ASSUME NEW u \in Tasks, task'[u].pc \in Owning
          PROVE  /\ super'[task'[u].s].lock = (task'[u].pc # "lock")
                 /\ super'[task'[u].s].imount = NULL
                 /\ super'[task'[u].s].dev = IF task'[u].pc = "release" THEN NULL ELSE task'[u].dev
      <3>1. task'[u] = task[u] /\ task[u].s # s /\ task[u].pc \in Owning
        BY <2>1, <2>2
      <3>2. task[u].s \in Supers
        BY <3>1 DEF Good, TasksOK, Locals, HasSuperInHand
      <3>3. super'[task[u].s] = super[task[u].s]
        BY <1>6, <3>1, <3>2
      <3> QED
        BY <3>1, <3>3 DEF Good, OwnEntry
    <2>3. \A u, w \in Tasks : task'[u].pc \in Owning /\ task'[w].pc \in Owning /\ task'[u].s = task'[w].s => u = w
      BY <2>1 DEF Good, OwnEntry
    <2> QED
      BY <2>2, <2>3 DEF OwnEntry
  <1>21. MountPointThere'
    <2> SUFFICES ASSUME NEW u \in Tasks, task'[u].pc \in Putting \cup {"up"}, task'[u].ret = "up"
                 PROVE  /\ super'[task'[u].s].imount # NULL
                        /\ task'[u].pc \in Putting => super'[task'[u].s].dev = task'[u].dev
      BY DEF MountPointThere
    <2>1. task'[u] = task[u]
      BY <1>3, <1>7
    <2>2. /\ super[task[u].s].imount # NULL
          /\ task[u].pc \in Putting => super[task[u].s].dev = task[u].dev
      BY <2>1 DEF Good, MountPointThere
    <2>3. task[u].s \in Supers
      BY <2>1 DEF Good, TasksOK, Locals, HasSuperInHand
    <2> QED
      BY <1>10, <2>1, <2>2, <2>3
  <1>22. UsedIsMounted'
    <2>1. \A v : InUse(v)' => InUse(v)
      BY <1>5 DEF InUse
    <2> QED
      BY <1>16, <2>1 DEF Good, UsedIsMounted
  <1>23. CountStep(task[t], q)
    <2> SUFFICES ASSUME NEW x \in Inodes
                 PROVE  inode'[x].count + (Held(task[t], x) + Cardinality(Mounts(x)))
                          = inode[x].count + (Held(q, x) + Cardinality(Mounts(x)'))
      BY DEF CountStep
    <2>1. IsFiniteSet(Mounts(x)) /\ Cardinality(Mounts(x)) \in Nat /\ Held(q, x) \in Nat /\ inode[x].count \in Nat
      BY <1>1, MountsFinite, HeldIsNat DEF InodeRecs
    <2>2. \A z \in Supers : (\E u \in Tasks : task'[u].pc = "unmounted" /\ task'[u].s = z)
                               <=> (\E u \in Tasks : task[u].pc = "unmounted" /\ task[u].s = z)
      BY <1>2, <1>3, <1>7 DEF Atomic, Mounting
    <2>3. \A u \in Tasks : task[u].pc # "unmounted"
      BY <1>7 DEF Atomic, Mounting
    <2>4. Held(task[t], x) = Held(q, x) + (IF x = y THEN 1 ELSE 0)
      BY <1>2, <1>3 DEF Held, Puts, One, Putting
    <2>5. CASE x = y
      <3>1. s \notin Mounts(x)
        BY <1>8, <2>5 DEF Mounts
      <3>2. Mounts(x)' = Mounts(x) \cup {s}
        <4> SUFFICES ASSUME NEW z \in Supers PROVE z \in Mounts(x)' <=> (z \in Mounts(x) \/ z = s)
          BY DEF Mounts
        <4>1. \A u \in Tasks : task'[u].pc # "unmounted"
          BY <1>3, <1>7, <2>3
        <4>2. z \in Mounts(x)' <=> super'[z].imount = x
          BY <4>1 DEF Mounts
        <4>3. z \in Mounts(x) <=> super[z].imount = x
          BY <2>3 DEF Mounts
        <4> QED
          BY <1>6, <2>5, <4>2, <4>3
      <3>3. Cardinality(Mounts(x)') = Cardinality(Mounts(x)) + 1
        <4>1. PICK M : M = Mounts(x)
          OBVIOUS
        <4>2. Cardinality(M \cup {s}) = Cardinality(M) + 1
          BY <2>1, <3>1, <4>1, FS_AddElement, ZenonT(30)
        <4> QED
          BY <3>2, <4>1, <4>2
      <3> QED
        BY <1>5, <2>1, <2>4, <2>5, <3>3
    <2>6. CASE x # y
      <3>1. Mounts(x)' = Mounts(x)
        BY <1>2, <1>6, <2>2, <2>6 DEF Mounts
      <3> QED
        BY <1>5, <2>1, <2>4, <2>6, <3>1
    <2> QED
      BY <2>5, <2>6
  <1>24. Exact'
    <2>1. task' = [task EXCEPT ![t] = q]
      BY <1>4 DEF TaskStep
    <2> QED
      BY <1>1, <1>5, <1>23, <2>1, ExactStep DEF Good
  <1> QED
    BY <1>7, <1>11, <1>13, <1>14, <1>15, <1>17, <1>19, <1>20, <1>21, <1>22, <1>24 DEF Good

\* MountOn() of an entry that has been read and is not locked any more
LEMMA MountOnKeeps ==
  ASSUME Good, NEW t \in Tasks, NEW l, At(t, l), Mounting(task[t]), l # "release",
         NEW s \in Supers, NEW p \in SuperRecs, NEW S, S = [super EXCEPT ![s] = p],
         super[s].imount = NULL, p.imount = NULL, p.dev = super[s].dev, p.dev # NULL, p.read = TRUE,
         OnlyOwner(t, s), l \in Owning => task[t].s = s,
         MountOn(t, S, s), ~inode[task[t].i].mount, panic' = panic
  PROVE  Good'
  <1>1. task[t] \in Recs /\ Locals(task[t]) /\ Types /\ inode \in [Inodes -> InodeRecs]
        /\ super \in [Supers -> SuperRecs]
    BY TaskHere
  <1>2. PICK y, q : y = task[t].i /\ q = Return(task[t])
    OBVIOUS
  <1>3. y \in Inodes
    BY <1>1, <1>2, InodeFacts DEF Locals, Recs
  <1>4. S[s] = p
    BY <1>1
  <1>5. Go(t, [inode EXCEPT ![y].mount = TRUE, ![y].dirt = TRUE], [S EXCEPT ![s].imount = y], q)
    BY <1>2, <1>4 DEF MountOn
  <1>6. PICK n, w : n = [inode[y] EXCEPT !.mount = TRUE, !.dirt = TRUE] /\ w = [p EXCEPT !.imount = y]
    OBVIOUS
  <1>7. inode[y] \in InodeRecs
    BY <1>1, <1>3
  <1>8. n \in InodeRecs /\ n.mount = TRUE /\ n.count = inode[y].count
    BY <1>6, <1>7 DEF InodeRecs
  <1>9. w \in SuperRecs /\ w.imount = y /\ w.dev = super[s].dev /\ w.dev # NULL /\ w.read = TRUE
    BY <1>3, <1>6 DEF SuperRecs
  <1>10. inode' = [inode EXCEPT ![y] = n]
    BY <1>1, <1>3, <1>5, <1>6, <1>7 DEF Go, InodeRecs
  <1>11. super' = [super EXCEPT ![s] = w]
    <2>1. super' = [S EXCEPT ![s].imount = y]
      BY <1>5 DEF Go
    <2>2. super' = [S EXCEPT ![s] = w]
      BY <1>1, <1>4, <1>6, <2>1
    <2> QED
      BY <1>1, <2>2
  <1>12. PICK I, U : I = inode' /\ U = super'
    OBVIOUS
  <1>13. Go(t, I, U, q)
    BY <1>5, <1>12 DEF Go
  <1> QED
    <2>1. Pairs(y, n, s, w)
      BY <1>8, <1>9, <1>10, <1>11 DEF Pairs
    <2> QED
      BY <1>2, <1>13, <2>1, MountsOn

\* ... or of one that is mounted already
LEMMA MountFails ==
  ASSUME Good, NEW t \in Tasks, NEW l, At(t, l), Mounting(task[t]), l \notin Special,
         NEW q, q = PutAndReturn(task[t]), NEW I, I = inode, NEW S, S = super,
         Go(t, I, S, q), panic' = panic
  PROVE  Good'
  <1>1. task[t] \in Recs /\ Places(task[t]) /\ Locals(task[t]) /\ Calls(task[t]) /\ Types
        /\ task[t].pc = l
    BY TaskHere DEF At
  <1>2. PICK r : r = task[t]
    OBVIOUS
  <1>3. /\ q \in Recs /\ Places(q) /\ Locals(q) /\ Calls(q) /\ q.pc = "iput" /\ q.i = r.i /\ q.x = NULL
        /\ q.ret = "out" /\ q.op = r.op /\ q.dev = r.dev /\ q.new = r.new /\ q.pwd = r.pwd /\ q.rest = r.rest
        /\ UnmountStep(r, q) /\ UpStep(q) /\ ~Mounting(q) /\ \A x \in Inodes : Held(q, x) = Held(r, x)
    <2>1. r.pc # "release"
      BY <1>1, <1>2 DEF Special, Owning
    <2> QED
      BY <1>1, <1>2, <2>1, PutEndsMount
  <1>4. inode' = inode
    BY DEF Go
  <1>5. InodesStep /\ BalanceStep(r, q)
    BY <1>1, <1>3, <1>4, SameInodes, SameBalance
  <1>6. q.pc \notin Special
    BY <1>3 DEF Special, Owning
  <1> QED
    BY <1>2, <1>3, <1>4, <1>5, <1>6, PlainWalk

\* read_super() finds the super block, or takes an entry for it.
LEMMA GetSuperKeeps ==
  ASSUME Good, NEW t \in Tasks, GetSuper(t), ~raced'
  PROVE  Good'
  <1>1. task[t] \in Recs /\ Places(task[t]) /\ Locals(task[t]) /\ Calls(task[t]) /\ Types
        /\ inode \in [Inodes -> InodeRecs] /\ super \in [Supers -> SuperRecs]
    BY TaskHere
  <1>2. PICK r, I, S, U : r = task[t] /\ I = inode' /\ S = super' /\ U = super
    OBVIOUS
  <1>3. PICK l : (At(t, "get") \/ At(t, "buffers")) /\ l = r.pc
    BY DEF GetSuper
  <1>4. /\ At(t, l) /\ l \in {"get", "buffers"} /\ r.pc = l /\ r \in Recs /\ current \in {NULL, t}
        /\ l \notin Special /\ l \notin Owning /\ l # "release" /\ l # "unmounted" /\ ~Waits(inode, super, r)
    BY <1>1, <1>2, <1>3 DEF At, Special, Owning, GetSuper
  <1>5. /\ r.op = "mount" /\ r.dev \in Devs /\ Mounting(r) /\ r.ret \notin {"chdir", "unmounted"}
        /\ r.x = NULL /\ r.new = NULL /\ NULL \notin Devs
    BY <1>1, <1>2, <1>4, MountAssumption DEF Calls, Mounting, Places, Locals, Putting
  <1>6. ASSUME Go(t, inode, super, PutAndReturn(r)), UNCHANGED quiet PROVE Good'
    <2>1. PICK q, J : q = PutAndReturn(r) /\ J = inode
      OBVIOUS
    <2>2. Go(t, J, U, q) /\ panic' = panic
      BY <1>2, <1>6, <2>1 DEF quiet
    <2> QED
      BY <1>2, <1>4, <1>5, <2>1, <2>2, MountFails
  <1>7. ASSUME OfDev(r.dev) # {}, UNCHANGED quiet, MountOn(t, super, CHOOSE s \in OfDev(r.dev) : TRUE)
        PROVE  Good'
    <2>1. PICK s : s = CHOOSE z \in OfDev(r.dev) : TRUE
      OBVIOUS
    <2>2. s \in Supers /\ super[s].dev = r.dev
      <3>1. s \in OfDev(r.dev)
        BY <1>7, <2>1
      <3> QED
        BY <3>1 DEF OfDev
    <2>3. MountOn(t, super, s)
      BY <1>7, <2>1
    <2>4. CASE super[s].imount # NULL \/ inode[r.i].mount
      BY <1>2, <1>6, <1>7, <2>3, <2>4 DEF MountOn
    <2>5. CASE super[s].imount = NULL /\ ~inode[r.i].mount
      <3>1. PICK p : p = super[s]
        OBVIOUS
      <3>2. ~p.lock
        BY <1>4, <2>2, <3>1 DEF Waits
      <3>3. OnlyOwner(t, s) /\ p.read
        <4>1. task[t].pc # "lock" /\ super[s].dev # NULL
          BY <1>2, <1>4, <1>5, <2>2
        <4> QED
          BY <1>4, <2>2, <3>1, <3>2, <4>1, NotOwned
      <3>4. p \in SuperRecs /\ p.imount = NULL /\ p.dev = super[s].dev /\ p.dev # NULL /\ p.read = TRUE
        BY <1>1, <1>5, <2>2, <2>5, <3>1, <3>3 DEF SuperRecs
      <3>5. U = [super EXCEPT ![s] = p]
        BY <1>1, <1>2, <2>2, <3>1
      <3>6. MountOn(t, U, s) /\ panic' = panic /\ ~inode[task[t].i].mount /\ Mounting(task[t])
        BY <1>2, <1>5, <1>7, <2>3, <2>5 DEF quiet
      <3> QED
        BY <1>4, <2>2, <2>5, <3>3, <3>4, <3>5, <3>6, MountOnKeeps
    <2> QED
      BY <2>4, <2>5
  <1>8. ASSUME OfDev(r.dev) = {}, NEW s \in Supers, super[s].dev = NULL, ~super[s].lock, panic' = panic,
               Go(t, inode, [super EXCEPT ![s].dev = r.dev, ![s].imount = NULL], [r EXCEPT !.pc = "lock", !.s = s])
        PROVE  Good'
    <2>1. PICK p, q : /\ p = [super[s] EXCEPT !.dev = r.dev, !.imount = NULL]
                      /\ q = [r EXCEPT !.pc = "lock", !.s = s]
      OBVIOUS
    <2>2. super[s] \in SuperRecs
      BY <1>1
    <2>3. super[s].imount = NULL
      BY <1>8 DEF Good, MountedOK
    <2>4. p \in SuperRecs /\ p.imount = NULL /\ p.dev = r.dev /\ p.lock = FALSE
      <3>1. super[s].lock = FALSE
        BY <1>8, <2>2 DEF SuperRecs
      <3> QED
        BY <1>5, <2>1, <2>2, <3>1 DEF SuperRecs
    <2>5. super' = [super EXCEPT ![s] = p]
      <3>1. super' = [super EXCEPT ![s].dev = r.dev, ![s].imount = NULL]
        BY <1>8 DEF Go
      <3> QED
        BY <1>1, <2>1, <2>2, <3>1 DEF SuperRecs
    <2>6. Go(t, I, S, q) /\ inode' = inode
      BY <1>2, <1>8, <2>1 DEF Go
    <2>7. "lock" \in Labels
      BY DEF Labels
    <2>8. /\ q \in Recs /\ q.pc = "lock" /\ q.op = r.op /\ q.dev = r.dev /\ q.x = r.x /\ q.rest = r.rest
          /\ q.i = r.i /\ q.new = r.new /\ q.s = s /\ q.ret = r.ret /\ q.pwd = r.pwd
      BY <1>4, <2>1, <2>7 DEF Recs
    <2>9. OnlyOwner(t, s)
      BY <1>4, <1>8, NotOwned
    <2>10. Places(q) /\ Mounting(q)
      BY <1>5, <2>8 DEF Places, Mounting, Putting
    <2>11. Locals(q)
      BY <1>1, <1>2, <1>4, <1>5, <2>8, <2>10 DEF Locals, Putting, HasSuperInHand, Owning
    <2>12. Calls(q)
      BY <1>1, <1>2, <1>5, <2>8, <2>10 DEF Calls
    <2>13. \A x \in Inodes : Held(q, x) = Held(r, x)
      BY <1>4, <1>5, <2>8 DEF Held, Puts
    <2>14. UnmountStep(r, q) /\ UpStep(q)
      BY <1>5, <2>8 DEF UnmountStep, UpStep, Putting
    <2>15. NoOther(s, p.dev)
      BY <1>8, <2>4 DEF NoOther, OfDev
    <2>16. Handed(q, s, p)
      BY <2>4, <2>8 DEF Handed, Owning
    <2>17. /\ q.x = NULL /\ q.i = task[t].i /\ Mounting(task[t]) /\ q.pc # "unmounted"
           /\ UnmountStep(task[t], q) /\ \A x \in Inodes : Held(q, x) = Held(task[t], x)
      BY <1>2, <1>5, <2>8, <2>13, <2>14
    <2> QED
      BY <1>4, <1>8, <2>3, <2>4, <2>5, <2>6, <2>8, <2>9, <2>10, <2>11, <2>12, <2>14, <2>15, <2>16, <2>17,
         EntryKeeps
  <1>9. CASE OfDev(r.dev) # {}
    BY <1>2, <1>7, <1>9 DEF GetSuper
  <1>10. CASE OfDev(r.dev) = {} /\ {s \in Supers : super[s].dev = NULL} = {}
    BY <1>2, <1>6, <1>10 DEF GetSuper
  <1>11. CASE OfDev(r.dev) = {} /\ {s \in Supers : super[s].dev = NULL} # {}
    <2>1. PICK s \in {z \in Supers : super[z].dev = NULL} :
             /\ Go(t, inode, [super EXCEPT ![s].dev = r.dev, ![s].imount = NULL],
                    [r EXCEPT !.pc = "lock", !.s = s])
             /\ raced' = (raced \/ super[s].lock)
             /\ UNCHANGED panic
      BY <1>2, <1>11 DEF GetSuper
    <2> QED
      BY <1>8, <1>11, <2>1
  <1> QED
    BY <1>9, <1>10, <1>11

\* The super block was read, and the device is mounted; or it was not.
LEMMA ReadSuperKeeps ==
  ASSUME Good, NEW t \in Tasks, ReadSuper(t)
  PROVE  Good'
  <1>1. task[t] \in Recs /\ Places(task[t]) /\ Locals(task[t]) /\ Calls(task[t]) /\ Types
        /\ inode \in [Inodes -> InodeRecs] /\ super \in [Supers -> SuperRecs]
    BY TaskHere
  <1>2. PICK r, s : r = task[t] /\ s = r.s
    OBVIOUS
  <1>3. At(t, "read_super") /\ r.pc = "read_super" /\ r \in Recs /\ panic' = panic
        /\ r.pc \in Owning /\ "read_super" # "release" /\ "read_super" # "unmounted"
    BY <1>1, <1>2 DEF ReadSuper, At, Owning, quiet
  <1>4. s \in Supers /\ super[s] \in SuperRecs
    BY <1>1, <1>2, <1>3 DEF Locals, HasSuperInHand
  <1>5. super[s].imount = NULL /\ super[s].dev = r.dev /\ OnlyOwner(t, s)
    BY <1>2, <1>3 DEF Good, OwnEntry, OnlyOwner
  <1>6. r.op = "mount" /\ r.dev \in Devs /\ r.dev # NULL /\ Mounting(r)
    BY <1>1, <1>2, <1>3, MountAssumption DEF Calls, Mounting
  <1>7. ~inode[task[t].i].mount
    <2>1. task[t].i \in Inodes
      BY <1>1, <1>2, <1>6, InodeFacts DEF Calls
    <2>2. \A z \in Supers : super[z].imount # task[t].i
      BY <1>2, <1>6 DEF Good, OwnDirectory
    <2> QED
      BY <2>1, <2>2 DEF Good, OneEach
  <1>8. ASSUME MountOn(t, [super EXCEPT ![s].lock = FALSE, ![s].read = TRUE], s) PROVE Good'
    <2>1. PICK p, S : p = [super[s] EXCEPT !.lock = FALSE, !.read = TRUE] /\ S = [super EXCEPT ![s] = p]
      OBVIOUS
    <2>2. p \in SuperRecs /\ p.imount = NULL /\ p.dev = super[s].dev /\ p.dev # NULL /\ p.read = TRUE
      BY <1>4, <1>5, <1>6, <2>1 DEF SuperRecs
    <2>3. S = [super EXCEPT ![s].lock = FALSE, ![s].read = TRUE]
      BY <1>1, <1>4, <2>1 DEF SuperRecs
    <2>4. MountOn(t, S, s) /\ Mounting(task[t]) /\ task[t].s = s
      BY <1>2, <1>6, <1>8, <2>3
    <2> QED
      BY <1>3, <1>4, <1>5, <1>7, <2>1, <2>2, <2>4, MountOnKeeps
  <1>9. ASSUME Go(t, inode, [super EXCEPT ![s].lock = FALSE, ![s].dev = NULL], PutAndReturn(r)) PROVE Good'
    <2>1. PICK p, q, I, S : /\ p = [super[s] EXCEPT !.lock = FALSE, !.dev = NULL]
                            /\ q = PutAndReturn(r) /\ I = inode' /\ S = super'
      OBVIOUS
    <2>2. p \in SuperRecs /\ p.imount = NULL /\ p.dev = NULL
      BY <1>4, <1>5, <2>1 DEF SuperRecs
    <2>3. super' = [super EXCEPT ![s] = p] /\ inode' = inode /\ Go(t, I, S, q)
      <3>1. super' = [super EXCEPT ![s].lock = FALSE, ![s].dev = NULL]
        BY <1>9 DEF Go
      <3>2. super' = [super EXCEPT ![s] = p]
        BY <1>1, <1>4, <2>1, <3>1 DEF SuperRecs
      <3>3. inode' = inode /\ Go(t, I, S, q)
        BY <1>9, <2>1 DEF Go
      <3> QED
        BY <3>2, <3>3
    <2>4. /\ q \in Recs /\ Places(q) /\ Locals(q) /\ Calls(q) /\ q.pc = "iput" /\ q.x = NULL
          /\ UnmountStep(r, q) /\ UpStep(q) /\ ~Mounting(q) /\ \A x \in Inodes : Held(q, x) = Held(r, x)
      BY <1>1, <1>2, <1>3, <1>6, <2>1, PutEndsMount
    <2>5. NoOther(s, p.dev) /\ Handed(q, s, p) /\ q.pc # "unmounted" /\ q.pc \notin Owning
      BY <2>2, <2>4 DEF NoOther, Handed, Owning
    <2>6. UnmountStep(task[t], q) /\ (\A x \in Inodes : Held(q, x) = Held(task[t], x)) /\ task[t].s = s
      BY <1>2, <2>4
    <2> QED
      BY <1>3, <1>4, <1>5, <2>2, <2>3, <2>4, <2>5, <2>6, EntryKeeps
  <1> QED
    BY <1>2, <1>8, <1>9 DEF ReadSuper

-----------------------------------------------------------------------------
(* umount().                                                               *)

\* umount() passes its check: nobody is on the device, or on the way to it, and
\* its mount point is not marked any more.
Begins(t, s, y, n, q) ==
  /\ super[s].dev = task[t].dev /\ super[s].imount = y /\ y # NULL
  /\ ~InUse(task[t].dev) /\ OnTheWay(task[t].dev, t) = {}
  /\ inode' = [inode EXCEPT ![y] = n] /\ n.mount = FALSE /\ n.count = inode[y].count
  /\ q = [Put(task[t], y, "unmounted") EXCEPT !.s = s]

\* The step of umount() that passes its check
LEMMA UmountBegins ==
  ASSUME Good, NEW t \in Tasks, NEW q, NEW I, NEW S, At(t, "umount"), S = super, Go(t, I, S, q), panic' = panic,
         NEW s \in Supers, NEW y, NEW n \in InodeRecs, Begins(t, s, y, n, q)
  PROVE  Good'
  <1> USE DEF Begins
  <1>1. /\ task[t] \in Recs /\ Places(task[t]) /\ Locals(task[t]) /\ Calls(task[t]) /\ Types
        /\ inode \in [Inodes -> InodeRecs] /\ super \in [Supers -> SuperRecs] /\ task[t].pc = "umount"
    BY TaskHere DEF At
  <1>2. PICK r : r = task[t]
    OBVIOUS
  <1>3. /\ r.ret \notin {"chdir", "unmounted"} /\ r.x = NULL /\ r.new = NULL /\ r.i = NULL /\ NULL \notin Inodes
        /\ r.op = "umount" /\ r.dev \in Devs /\ r \in Recs /\ r.pc = "umount"
    BY <1>1, <1>2, InodeFacts DEF Places, Locals, Calls, Putting, Mounting
  <1>4. y \in RootDirs /\ y \in Inodes
    BY InodeFacts DEF Good, MountedOK
  <1>5. PICK h : h = Put(r, y, "unmounted")
    OBVIOUS
  <1>6. /\ h \in Recs /\ h.pc = "iput" /\ h.op = r.op /\ h.dev = r.dev /\ h.x = r.x /\ h.rest = r.rest
        /\ h.i = y /\ h.new = r.new /\ h.ret = "unmounted" /\ h.pwd = r.pwd
    <2>1. "unmounted" \in Labels
      BY DEF Labels
    <2> QED
      BY <1>3, <1>4, <1>5, <2>1, PutFields
  <1>7. /\ q \in Recs /\ q.pc = "iput" /\ q.op = "umount" /\ q.dev = r.dev /\ q.x = NULL
        /\ q.i = y /\ q.new = NULL /\ q.ret = "unmounted" /\ q.pwd = r.pwd /\ q.s = s
    <2>1. q = [h EXCEPT !.s = s]
      BY <1>2, <1>5
    <2> QED
      BY <1>3, <1>6, <2>1 DEF Recs
  <1>8. Places(q) /\ ~Mounting(q)
    BY <1>7 DEF Places, Putting, Mounting
  <1>9. Locals(q)
    BY <1>3, <1>4, <1>7, <1>8 DEF Locals, Putting, HasSuperInHand, Owning
  <1>10. Calls(q)
    BY <1>3, <1>7, <1>8 DEF Calls
  <1>11. TaskStep(t, q)
    BY <1>7, <1>8, <1>9, <1>10, GoIsStep
  <1>12. /\ inode'[y] = n /\ inode' \in [Inodes -> InodeRecs] /\ \A x \in Inodes : x # y => inode'[x] = inode[x]
         /\ \A x \in Inodes : inode'[x].count = inode[x].count
    BY <1>1, <1>4
  <1>13. super' = super /\ super' \in [Supers -> SuperRecs]
    BY <1>1 DEF Go
  <1>14. /\ Types' /\ TasksOK' /\ KeepsProcessor' /\ panic' = FALSE
         /\ task'[t] = q /\ \A u \in Tasks : u # t => task'[u] = task[u]
         /\ \A u \in Tasks : u # t => task[u].pc \notin Atomic
    BY <1>11, <1>12, <1>13, TaskPart
  <1>15. SupersStep /\ BeingRead' /\ OwnEntry'
    <2>1. task' = [task EXCEPT ![t] = q]
      BY DEF Go
    <2>2. task[t].pc \notin Owning /\ q.pc \notin Owning
      BY <1>1, <1>7 DEF Owning
    <2> QED
      BY <1>13, <2>1, <2>2, SameSupers
  <1>16. \A u \in Tasks : u # t => ~(task[u].ret = "unmounted" /\ task[u].dev = r.dev)
    BY <1>2 DEF OnTheWay
  <1>17. \A u \in Tasks : u # t => ~(task[u].x # NULL /\ Dev(task[u].x) = r.dev)
    BY <1>2 DEF OnTheWay
  <1>18. OneEach'
    <2>1. \A x \in Inodes : inode'[x].mount => inode[x].mount
      BY <1>12
    <2> QED
      BY <1>13, <2>1 DEF Good, OneEach
  <1>19. MountedOK'
    <2> SUFFICES ASSUME NEW z \in Supers, super[z].imount # NULL
                 PROVE  /\ super[z].dev # NULL /\ super[z].read /\ super[z].imount \in RootDirs
                        /\ inode'[super[z].imount].mount \/ \E u \in Tasks : task'[u].ret = "unmounted" /\ task'[u].s = z
      BY <1>13 DEF MountedOK, Unmounts
    <2>1. super[z].dev # NULL /\ super[z].read /\ super[z].imount \in RootDirs
          /\ (inode[super[z].imount].mount \/ \E u \in Tasks : task[u].ret = "unmounted" /\ task[u].s = z)
      BY DEF Good, MountedOK, Unmounts
    <2>2. CASE z = s
      BY <1>7, <1>14, <2>1, <2>2, ZenonT(30)
    <2>3. CASE z # s
      <3>1. super[z].imount # y /\ super[z].imount \in Inodes
        BY <2>1, <2>3, InodeFacts DEF Good, OneEach
      <3>2. CASE inode[super[z].imount].mount
        BY <1>12, <2>1, <3>1, <3>2
      <3>3. ASSUME NEW u \in Tasks, task[u].ret = "unmounted", task[u].s = z
            PROVE  task'[u].ret = "unmounted" /\ task'[u].s = z
        BY <1>2, <1>3, <1>14, <3>3
      <3> QED
        BY <2>1, <3>2, <3>3
    <2> QED
      BY <2>2, <2>3
  <1>20. \A v : InUse(v)' <=> InUse(v)
    BY <1>12 DEF InUse
  <1>21. Unmounting'
    <2> SUFFICES ASSUME NEW u \in Tasks, task'[u].ret = "unmounted"
                 PROVE  /\ super[task'[u].s].imount # NULL /\ super[task'[u].s].dev = task'[u].dev
                        /\ task'[u].pc \in Putting => super[task'[u].s].imount = task'[u].i
                        /\ ~inode'[super[task'[u].s].imount].mount
                        /\ \A x \in Inodes : Dev(x) = task'[u].dev => ~(inode'[x].count > 0)
                        /\ \A w \in Tasks : task'[w].ret = "unmounted" /\ task'[w].dev = task'[u].dev => w = u
      BY <1>13 DEF Unmounting, InUse
    <2>1. CASE u = t
      <3>1. task'[u] = q /\ q.s = s /\ q.i = y /\ q.dev = r.dev
        BY <1>7, <1>14, <2>1
      <3>2. \A x \in Inodes : Dev(x) = r.dev => ~(inode'[x].count > 0)
        BY <1>2, <1>12 DEF InUse
      <3>3. \A w \in Tasks : task'[w].ret = "unmounted" /\ task'[w].dev = r.dev => w = t
        BY <1>14, <1>16
      <3> QED
        BY <1>2, <1>12, <2>1, <3>1, <3>2, <3>3
    <2>2. CASE u # t
      <3>1. task'[u] = task[u] /\ task[u].ret = "unmounted" /\ task[u].dev # r.dev
        BY <1>14, <1>16, <2>2
      <3>2. /\ super[task[u].s].imount # NULL /\ super[task[u].s].dev = task[u].dev
            /\ task[u].pc \in Putting => super[task[u].s].imount = task[u].i
            /\ ~inode[super[task[u].s].imount].mount
            /\ ~InUse(task[u].dev)
            /\ \A w \in Tasks : task[w].ret = "unmounted" /\ task[w].dev = task[u].dev => w = u
        BY <3>1 DEF Good, Unmounting
      <3>3. task[u].s \in Supers
        BY <3>1 DEF Good, TasksOK, Locals, HasSuperInHand
      <3>4. super[task[u].s].imount \in Inodes
        BY <3>2, <3>3, InodeFacts DEF Good, MountedOK
      <3>5. ~inode'[super[task[u].s].imount].mount
        BY <1>12, <3>2, <3>4
      <3>6. \A x \in Inodes : Dev(x) = task[u].dev => ~(inode'[x].count > 0)
        BY <1>12, <3>2 DEF InUse
      <3>7. \A w \in Tasks : task'[w].ret = "unmounted" /\ task'[w].dev = task[u].dev => w = u
        <4> SUFFICES ASSUME NEW w \in Tasks, task'[w].ret = "unmounted", task'[w].dev = task[u].dev PROVE w = u
          OBVIOUS
        <4>1. task'[t].dev = r.dev
          BY <1>7, <1>14
        <4>2. w # t
          BY <3>1, <4>1
        <4> QED
          BY <1>14, <3>2, <4>2
      <3> QED
        BY <3>1, <3>2, <3>5, <3>6, <3>7
    <2> QED
      BY <2>1, <2>2
  <1>22. OnItsWay'
    <2> SUFFICES ASSUME NEW u \in Tasks, NEW v \in Devs, task'[u].x # NULL, Dev(task'[u].x) = v
                 PROVE  Stays(v)'
      BY DEF OnItsWay, Stays, IsMounted, OfDev
    <2>1. u # t /\ task'[u] = task[u]
      BY <1>7, <1>14
    <2>2. Stays(v) /\ v # r.dev
      BY <1>17, <2>1 DEF Good, OnItsWay
    <2>3. IsMounted(v)'
      BY <1>13, <2>2 DEF Stays, IsMounted, OfDev
    <2>4. \A w \in Tasks : ~(task'[w].ret = "unmounted" /\ task'[w].dev = v)
      <3> SUFFICES ASSUME NEW w \in Tasks, task'[w].ret = "unmounted", task'[w].dev = v PROVE FALSE
        OBVIOUS
      <3>1. task'[t].dev = r.dev
        BY <1>7, <1>14
      <3>2. w # t
        BY <2>2, <3>1
      <3> QED
        BY <1>14, <2>2, <3>2 DEF Stays
    <2> QED
      BY <2>3, <2>4 DEF Stays
  <1>23. OwnDirectory'
    <2>1. \A u \in Tasks : Mounting(task'[u]) => u # t /\ task'[u] = task[u]
      BY <1>8, <1>14
    <2>2. \A u \in Tasks, z \in Supers : Mounting(task'[u]) => super'[z].imount # task'[u].i
      BY <1>13, <2>1 DEF Good, OwnDirectory
    <2>3. \A u, w \in Tasks : Mounting(task'[u]) /\ Mounting(task'[w]) /\ task'[u].i = task'[w].i => u = w
      BY <2>1 DEF Good, OwnDirectory
    <2> QED
      BY <2>2, <2>3 DEF OwnDirectory, Mounting
  <1>24. MountPointThere'
    <2> SUFFICES ASSUME NEW u \in Tasks, task'[u].pc \in Putting \cup {"up"}, task'[u].ret = "up"
                 PROVE  /\ super[task'[u].s].imount # NULL
                        /\ task'[u].pc \in Putting => super[task'[u].s].dev = task'[u].dev
      BY <1>13 DEF MountPointThere
    <2>1. task'[u] = task[u]
      BY <1>7, <1>14
    <2> QED
      BY <2>1 DEF Good, MountPointThere
  <1>25. UsedIsMounted'
    <2>1. \A v : IsMounted(v) => IsMounted(v)'
      BY <1>13 DEF IsMounted, OfDev
    <2> QED
      BY <1>20, <2>1 DEF Good, UsedIsMounted
  <1>26. \A x \in Inodes : Held(q, x) = Held(r, x)
    BY <1>3, <1>7 DEF Held, Puts, One, Putting
  <1>27. Exact'
    <2>1. task' = [task EXCEPT ![t] = q]
      BY DEF Go
    <2>2. BalanceStep(r, q)
      BY <1>12, <1>26, SameBalance
    <2>3. CountStep(task[t], q)
      BY <1>1, <1>2, <1>7, <1>12, <1>13, <2>1, <2>2, BalanceIsCount
    <2> QED
      BY <1>1, <1>12, <2>1, <2>3, ExactStep DEF Good
  <1> QED
    BY <1>14, <1>15, <1>18, <1>19, <1>21, <1>22, <1>23, <1>24, <1>25, <1>27 DEF Good

\* umount() returns, or goes on.
LEMMA UmountCheckKeeps ==
  ASSUME Good, NEW t \in Tasks, UmountCheck(t), ~raced'
  PROVE  Good'
  <1>1. /\ task[t] \in Recs /\ Places(task[t]) /\ Locals(task[t]) /\ Calls(task[t]) /\ Types
        /\ inode \in [Inodes -> InodeRecs] /\ super \in [Supers -> SuperRecs]
    BY TaskHere
  <1>2. PICK r, I, S : r = task[t] /\ I = inode' /\ S = super
    OBVIOUS
  <1>3. /\ At(t, "umount") /\ r.pc = "umount" /\ r \in Recs /\ panic' = panic
        /\ r.ret \notin {"chdir", "unmounted"} /\ r.x = NULL /\ r.new = NULL /\ r.i = NULL
    BY <1>1, <1>2 DEF UmountCheck, At, Places, Locals, Putting, Mounting, quiet
  <1>4. ASSUME Go(t, inode, super, Return(r)) PROVE Good'
    <2>1. PICK q : q = Return(r)
      OBVIOUS
    <2>2. /\ q \in Recs /\ q.pc = "out" /\ q.x = NULL /\ q.i = NULL /\ q.new = NULL /\ q.ret = "out"
          /\ q.pwd = r.pwd /\ Places(q) /\ Locals(q) /\ Calls(q)
      BY <1>3, <2>1, ReturnFields
    <2>3. Go(t, I, S, q) /\ inode' = inode
      BY <1>2, <1>4, <2>1 DEF Go
    <2>4. \A x \in Inodes : Held(q, x) = Held(r, x)
      BY <1>3, <2>2, InodeFacts DEF Held, Puts, One, Putting
    <2>5. InodesStep /\ BalanceStep(r, q)
      BY <1>1, <2>3, <2>4, SameInodes, SameBalance
    <2>6. UnmountStep(r, q) /\ UpStep(q) /\ ~Mounting(q)
      BY <1>3, <2>2 DEF UnmountStep, UpStep, Mounting, Putting
    <2> QED
      BY <1>2, <1>3, <2>2, <2>3, <2>5, <2>6, PlainWalk DEF Special, Owning
  <1>5. CASE (\A s \in OfDev(r.dev) : super[s].imount = NULL) \/ InUse(r.dev)
    BY <1>2, <1>4, <1>5 DEF UmountCheck
  <1>6. CASE ~((\A s \in OfDev(r.dev) : super[s].imount = NULL) \/ InUse(r.dev))
    <2>1. PICK s \in OfDev(r.dev) :
            /\ Go(t, [inode EXCEPT ![super[s].imount].mount = FALSE], super,
                  [Put(r, super[s].imount, "unmounted") EXCEPT !.s = s])
            /\ raced' = (raced \/ OnTheWay(r.dev, t) # {})
      BY <1>2, <1>6 DEF UmountCheck
    <2>2. PICK y, n, q : /\ y = super[s].imount /\ n = [inode[y] EXCEPT !.mount = FALSE]
                         /\ q = [Put(r, y, "unmounted") EXCEPT !.s = s]
      OBVIOUS
    <2>3. s \in Supers /\ super[s].dev = r.dev
      BY DEF OfDev
    <2>4. y # NULL /\ y \in Inodes
      <3>1. PICK z \in Supers : super[z].dev = r.dev /\ super[z].imount # NULL
        BY <1>6 DEF OfDev
      <3>2. super[z].dev # NULL
        BY <3>1 DEF Good, MountedOK
      <3>3. z = s
        BY <2>3, <3>1, <3>2 DEF Good, OneEach
      <3>4. super[s].imount \in RootDirs
        BY <3>1, <3>3 DEF Good, MountedOK
      <3> QED
        BY <2>2, <3>1, <3>3, <3>4, InodeFacts
    <2>5. n \in InodeRecs /\ n.mount = FALSE /\ n.count = inode[y].count
      <3>1. inode[y] \in InodeRecs
        BY <1>1, <2>4
      <3> QED
        BY <2>2, <3>1 DEF InodeRecs
    <2>6. Go(t, I, S, q) /\ inode' = [inode EXCEPT ![y] = n]
      <3>1. inode' = [inode EXCEPT ![y].mount = FALSE]
        BY <2>1, <2>2 DEF Go
      <3>2. inode' = [inode EXCEPT ![y] = n]
        BY <1>1, <2>2, <2>4, <3>1
      <3>3. Go(t, I, S, q)
        BY <1>2, <2>1, <2>2 DEF Go
      <3> QED
        BY <3>2, <3>3
    <2>7. OnTheWay(r.dev, t) = {} /\ ~InUse(r.dev)
      BY <1>6, <2>1
    <2>8. super[s].dev = task[t].dev /\ OnTheWay(task[t].dev, t) = {} /\ ~InUse(task[t].dev)
          /\ q = [Put(task[t], y, "unmounted") EXCEPT !.s = s]
      BY <1>2, <2>2, <2>3, <2>7
    <2>9. Begins(t, s, y, n, q)
      BY <2>2, <2>4, <2>5, <2>6, <2>8 DEF Begins
    <2> QED
      BY <1>2, <1>3, <2>3, <2>5, <2>6, <2>9, UmountBegins
  <1> QED
    BY <1>5, <1>6

\* The mount point was put: the device is not mounted any more.
LEMMA UnmountedKeeps ==
  ASSUME Good, NEW t \in Tasks, Unmounted(t)
  PROVE  Good'
  <1>1. /\ task[t] \in Recs /\ Places(task[t]) /\ Locals(task[t]) /\ Calls(task[t]) /\ Types
        /\ inode \in [Inodes -> InodeRecs] /\ super \in [Supers -> SuperRecs]
    BY TaskHere
  <1>2. PICK r, s : r = task[t] /\ s = r.s
    OBVIOUS
  <1>3. /\ At(t, "unmounted") /\ r.pc = "unmounted" /\ r \in Recs /\ panic' = panic /\ r.ret = "unmounted"
        /\ r.x = NULL /\ r.new = NULL /\ r.i = NULL /\ s \in Supers /\ r.op = "umount" /\ r.dev \in Devs
    BY <1>1, <1>2 DEF Unmounted, At, Places, Locals, Calls, Putting, Mounting, HasSuperInHand, quiet
  <1>4. PICK p, q, I, S : /\ p = [super[s] EXCEPT !.imount = NULL]
                          /\ q = [r EXCEPT !.pc = "put", !.s = NULL, !.ret = "out"]
                          /\ I = inode' /\ S = super'
    OBVIOUS
  <1>5. Go(t, I, S, q) /\ inode' = inode /\ super' = [super EXCEPT ![s] = p]
    <2>1. super' = [super EXCEPT ![s].imount = NULL] /\ inode' = inode /\ Go(t, I, S, q)
      BY <1>2, <1>4 DEF Unmounted, Go
    <2> QED
      BY <1>1, <1>3, <1>4, <2>1
  <1>6. p \in SuperRecs /\ p.imount = NULL /\ p.dev = super[s].dev /\ p.lock = super[s].lock /\ p.read = super[s].read
    BY <1>1, <1>3, <1>4 DEF SuperRecs
  <1>7. /\ q \in Recs /\ q.pc = "put" /\ q.op = "umount" /\ q.dev = r.dev /\ q.x = NULL
        /\ q.i = NULL /\ q.new = NULL /\ q.ret = "out" /\ q.pwd = r.pwd /\ q.s = NULL
    <2>1. "put" \in Labels /\ "out" \in Labels
      BY DEF Labels
    <2> QED
      BY <1>3, <1>4, <2>1 DEF Recs
  <1>8. Places(q) /\ ~Mounting(q)
    BY <1>7 DEF Places, Putting, Mounting
  <1>9. Locals(q)
    BY <1>7, <1>8 DEF Locals, Putting, HasSuperInHand, Owning
  <1>10. Calls(q)
    BY <1>3, <1>7, <1>8 DEF Calls
  <1>11. TaskStep(t, q)
    BY <1>3, <1>5, <1>7, <1>8, <1>9, <1>10, GoIsStep
  <1>12. super'[s] = p /\ super' \in [Supers -> SuperRecs] /\ \A z \in Supers : z # s => super'[z] = super[z]
    BY <1>1, <1>3, <1>5, <1>6
  <1>13. /\ Types' /\ TasksOK' /\ KeepsProcessor' /\ panic' = FALSE
         /\ task'[t] = q /\ \A u \in Tasks : u # t => task'[u] = task[u]
         /\ \A u \in Tasks : u # t => task[u].pc \notin Atomic
    BY <1>1, <1>5, <1>11, <1>12, TaskPart
  <1>14. /\ super[s].imount # NULL /\ super[s].dev = r.dev
         /\ ~inode[super[s].imount].mount /\ ~InUse(r.dev)
         /\ \A u \in Tasks : task[u].ret = "unmounted" /\ task[u].dev = r.dev => u = t
    BY <1>2, <1>3 DEF Good, Unmounting
  <1>15. OneEach'
    <2>1. \A z, w \in Supers : super'[z].dev = super'[w].dev /\ super'[z].dev # NULL => z = w
      <3>1. \A z \in Supers : super'[z].dev = super[z].dev
        BY <1>6, <1>12
      <3> QED
        BY <3>1 DEF Good, OneEach
    <2>2. \A z, w \in Supers : super'[z].imount = super'[w].imount /\ super'[z].imount # NULL => z = w
      BY <1>6, <1>12 DEF Good, OneEach
    <2>3. \A x \in Inodes : inode[x].mount => \E z \in Supers : super'[z].imount = x
      BY <1>12, <1>14 DEF Good, OneEach
    <2> QED
      BY <1>5, <2>1, <2>2, <2>3 DEF OneEach
  <1>16. MountedOK'
    <2> SUFFICES ASSUME NEW z \in Supers, super'[z].imount # NULL
                 PROVE  /\ super'[z].dev # NULL /\ super'[z].read /\ super'[z].imount \in RootDirs
                        /\ inode[super'[z].imount].mount \/ \E u \in Tasks : task'[u].ret = "unmounted" /\ task'[u].s = z
      BY <1>5 DEF MountedOK, Unmounts
    <2>1. z # s /\ super'[z] = super[z]
      BY <1>6, <1>12
    <2>2. super[z].dev # NULL /\ super[z].read /\ super[z].imount \in RootDirs
          /\ (inode[super[z].imount].mount \/ \E u \in Tasks : task[u].ret = "unmounted" /\ task[u].s = z)
      BY <2>1 DEF Good, MountedOK, Unmounts
    <2>3. ASSUME NEW u \in Tasks, task[u].ret = "unmounted", task[u].s = z
          PROVE  task'[u].ret = "unmounted" /\ task'[u].s = z
      BY <1>2, <1>13, <2>1, <2>3
    <2> QED
      BY <2>1, <2>2, <2>3
  <1>17. BeingRead'
    <2> SUFFICES ASSUME NEW z \in Supers, super'[z].dev # NULL, ~super'[z].read, ~super'[z].lock
                 PROVE  \E u \in Tasks : task'[u].pc = "lock" /\ task'[u].s = z
      BY DEF BeingRead
    <2>1. super[z].dev # NULL /\ ~super[z].read /\ ~super[z].lock
      BY <1>6, <1>12
    <2>2. PICK u \in Tasks : task[u].pc = "lock" /\ task[u].s = z
      BY <2>1 DEF Good, BeingRead
    <2>3. u # t
      BY <1>2, <1>3, <2>2
    <2> QED
      BY <1>13, <2>2, <2>3
  <1>18. \A u \in Tasks : task'[u].ret = "unmounted" => u # t /\ task'[u] = task[u] /\ task[u].dev # r.dev
    BY <1>7, <1>13, <1>14
  <1>19. Unmounting'
    <2> SUFFICES ASSUME NEW u \in Tasks, task'[u].ret = "unmounted"
                 PROVE  /\ super'[task'[u].s].imount # NULL /\ super'[task'[u].s].dev = task'[u].dev
                        /\ task'[u].pc \in Putting => super'[task'[u].s].imount = task'[u].i
                        /\ ~inode[super'[task'[u].s].imount].mount
                        /\ \A x \in Inodes : Dev(x) = task'[u].dev => ~(inode[x].count > 0)
                        /\ \A w \in Tasks : task'[w].ret = "unmounted" /\ task'[w].dev = task'[u].dev => w = u
      BY <1>5 DEF Unmounting, InUse
    <2>1. task'[u] = task[u] /\ task[u].ret = "unmounted" /\ task[u].dev # r.dev
      BY <1>18
    <2>2. /\ super[task[u].s].imount # NULL /\ super[task[u].s].dev = task[u].dev
          /\ task[u].pc \in Putting => super[task[u].s].imount = task[u].i
          /\ ~inode[super[task[u].s].imount].mount
          /\ \A x \in Inodes : Dev(x) = task[u].dev => ~(inode[x].count > 0)
          /\ \A w \in Tasks : task[w].ret = "unmounted" /\ task[w].dev = task[u].dev => w = u
      BY <2>1 DEF Good, Unmounting, InUse
    <2>3. task[u].s \in Supers /\ task[u].s # s
      BY <1>14, <2>1, <2>2 DEF Good, TasksOK, Locals, HasSuperInHand
    <2>4. super'[task[u].s] = super[task[u].s]
      BY <1>12, <2>3
    <2>5. \A w \in Tasks : task'[w].ret = "unmounted" /\ task'[w].dev = task[u].dev => w = u
      BY <1>18, <2>2
    <2> QED
      BY <2>1, <2>2, <2>4, <2>5
  <1>20. \A v : v # r.dev /\ IsMounted(v) => IsMounted(v)'
    <2> SUFFICES ASSUME NEW v, v # r.dev, IsMounted(v) PROVE IsMounted(v)'
      OBVIOUS
    <2>1. PICK z \in Supers : super[z].dev = v /\ super[z].read /\ super[z].imount # NULL
      BY DEF IsMounted, OfDev
    <2>2. super'[z] = super[z]
      BY <1>12, <1>14, <2>1
    <2> QED
      BY <2>1, <2>2 DEF IsMounted, OfDev
  <1>21. OnItsWay'
    <2> SUFFICES ASSUME NEW u \in Tasks, NEW v \in Devs, task'[u].x # NULL, Dev(task'[u].x) = v
                 PROVE  Stays(v)'
      BY DEF OnItsWay, Stays, IsMounted, OfDev
    <2>1. u # t /\ task'[u] = task[u]
      BY <1>7, <1>13
    <2>2. Stays(v)
      BY <2>1 DEF Good, OnItsWay
    <2>3. v # r.dev
      BY <1>2, <1>3, <2>2 DEF Stays
    <2>4. IsMounted(v)'
      BY <1>20, <2>2, <2>3 DEF Stays
    <2>5. \A w \in Tasks : ~(task'[w].ret = "unmounted" /\ task'[w].dev = v)
      BY <1>18, <2>2 DEF Stays
    <2> QED
      BY <2>4, <2>5 DEF Stays
  <1>22. OwnDirectory'
    <2>1. \A u \in Tasks : Mounting(task'[u]) => u # t /\ task'[u] = task[u]
      BY <1>8, <1>13
    <2>2. \A u \in Tasks, z \in Supers : Mounting(task'[u]) => super'[z].imount # task'[u].i
      <3> SUFFICES ASSUME NEW u \in Tasks, NEW z \in Supers, Mounting(task'[u])
                   PROVE  super'[z].imount # task'[u].i
        OBVIOUS
      <3>1. task'[u] = task[u] /\ Mounting(task[u])
        BY <2>1
      <3>2. task[u].i # NULL
        BY <3>1 DEF Good, TasksOK, Locals
      <3>3. super[z].imount # task[u].i
        BY <3>1 DEF Good, OwnDirectory
      <3> QED
        BY <1>6, <1>12, <3>1, <3>2, <3>3
    <2>3. \A u, w \in Tasks : Mounting(task'[u]) /\ Mounting(task'[w]) /\ task'[u].i = task'[w].i => u = w
      BY <2>1 DEF Good, OwnDirectory
    <2> QED
      BY <2>2, <2>3 DEF OwnDirectory, Mounting
  <1>23. OwnEntry'
    <2>1. \A u \in Tasks : task'[u].pc \in Owning => u # t /\ task'[u] = task[u]
      BY <1>7, <1>13 DEF Owning
    <2>2. ASSUME NEW u \in Tasks, task'[u].pc \in Owning
          PROVE  /\ super'[task'[u].s].lock = (task'[u].pc # "lock")
                 /\ super'[task'[u].s].imount = NULL
                 /\ super'[task'[u].s].dev = IF task'[u].pc = "release" THEN NULL ELSE task'[u].dev
      <3>1. task'[u] = task[u] /\ task[u].pc \in Owning
        BY <2>1, <2>2
      <3>2. task[u].s \in Supers
        BY <3>1 DEF Good, TasksOK, Locals, HasSuperInHand
      <3>3. super[task[u].s].imount = NULL
        BY <3>1 DEF Good, OwnEntry
      <3>4. super'[task[u].s] = super[task[u].s]
        BY <1>12, <1>14, <3>2, <3>3
      <3> QED
        BY <3>1, <3>4 DEF Good, OwnEntry
    <2>3. \A u, w \in Tasks : task'[u].pc \in Owning /\ task'[w].pc \in Owning /\ task'[u].s = task'[w].s => u = w
      BY <2>1 DEF Good, OwnEntry
    <2> QED
      BY <2>2, <2>3 DEF OwnEntry
  <1>24. MountPointThere'
    <2> SUFFICES ASSUME NEW u \in Tasks, task'[u].pc \in Putting \cup {"up"}, task'[u].ret = "up"
                 PROVE  /\ super'[task'[u].s].imount # NULL
                        /\ task'[u].pc \in Putting => super'[task'[u].s].dev = task'[u].dev
      BY DEF MountPointThere
    <2>1. u # t /\ task'[u] = task[u]
      BY <1>7, <1>13
    <2>2. task[u].pc \in Putting
      BY <1>13, <2>1 DEF Atomic
    <2>3. super[task[u].s].imount # NULL /\ super[task[u].s].dev = task[u].dev
      BY <2>1, <2>2 DEF Good, MountPointThere
    <2>4. task[u].s \in Supers /\ task[u].i \in Inodes /\ task[u].dev = Dev(task[u].i)
      BY <2>1, <2>2, PutIsCounted DEF Good, TasksOK, Locals, HasSuperInHand
    <2>5. InUse(task[u].dev)
      BY <2>2, <2>4, PutIsCounted DEF InUse
    <2>6. task[u].s # s
      BY <1>14, <2>3, <2>5
    <2> QED
      BY <1>12, <2>1, <2>3, <2>4, <2>6
  <1>25. UsedIsMounted'
    <2>1. \A v : InUse(v)' => InUse(v) /\ v # r.dev
      BY <1>5, <1>14 DEF InUse
    <2> QED
      BY <1>20, <2>1 DEF Good, UsedIsMounted
  <1>26. CountStep(task[t], q)
    <2> SUFFICES ASSUME NEW x \in Inodes
                 PROVE  inode'[x].count + (Held(task[t], x) + Cardinality(Mounts(x)))
                          = inode[x].count + (Held(q, x) + Cardinality(Mounts(x)'))
      BY DEF CountStep
    <2>1. Held(q, x) = Held(task[t], x)
      BY <1>2, <1>3, <1>7, InodeFacts DEF Held, Puts, One, Putting
    <2>2. Mounts(x)' = Mounts(x)
      <3> SUFFICES ASSUME NEW z \in Supers PROVE z \in Mounts(x)' <=> z \in Mounts(x)
        BY DEF Mounts
      <3>1. CASE z = s
        <4>1. z \notin Mounts(x)
          BY <1>2, <1>3, <3>1 DEF Mounts
        <4>2. super'[z].imount # x
          BY <1>6, <1>12, <3>1, InodeFacts
        <4> QED
          BY <4>1, <4>2 DEF Mounts
      <3>2. CASE z # s
        <4>1. super'[z] = super[z]
          BY <1>12, <3>2
        <4>2. (\E u \in Tasks : task'[u].pc = "unmounted" /\ task'[u].s = z)
                 <=> (\E u \in Tasks : task[u].pc = "unmounted" /\ task[u].s = z)
          BY <1>2, <1>7, <1>13, <3>2
        <4> QED
          BY <4>1, <4>2 DEF Mounts
      <3> QED
        BY <3>1, <3>2
    <2> QED
      BY <1>5, <2>1, <2>2
  <1>27. Exact'
    <2>1. task' = [task EXCEPT ![t] = q]
      BY <1>5 DEF Go
    <2> QED
      BY <1>1, <1>5, <1>26, <2>1, ExactStep DEF Good
  <1> QED
    BY <1>13, <1>15, <1>16, <1>17, <1>19, <1>21, <1>22, <1>23, <1>24, <1>25, <1>27 DEF Good

-----------------------------------------------------------------------------
(* The invariant, and what it says of the counts and the super blocks.     *)

MountInv == ~raced => Good

\* At first no device is mounted, and nobody is in a directory.
LEMMA InitGood == Init => Good
  <1> SUFFICES ASSUME Init PROVE Good
    OBVIOUS
  <1>1. /\ \A t \in Tasks : task[t] = Idle
        /\ \A s \in Supers : super[s] = [dev |-> NULL, lock |-> FALSE, read |-> FALSE, imount |-> NULL]
        /\ \A x \in Inodes : inode[x] = [count |-> 0, lock |-> FALSE, dirt |-> FALSE, mount |-> FALSE]
    BY DEF Init
  <1>2. /\ Idle \in Recs /\ Idle.pc = "out" /\ Idle.op = "chdir" /\ Idle.x = NULL /\ Idle.i = NULL
        /\ Idle.new = NULL /\ Idle.ret = "out" /\ Idle.pwd = NULL
    <2>1. "out" \in Labels
      BY DEF Labels
    <2> QED
      BY <2>1 DEF Idle, Recs
  <1>3. Types /\ ~panic
    <2>1. current \in Tasks \cup {NULL} /\ ~panic
      BY DEF Init
    <2>2. inode \in [Inodes -> InodeRecs]
      BY DEF Init, InodeRecs
    <2>3. super \in [Supers -> SuperRecs]
      BY DEF Init, SuperRecs
    <2>4. task \in [Tasks -> Recs]
      BY <1>2 DEF Init
    <2> QED
      BY <2>1, <2>2, <2>3, <2>4 DEF Types
  <1>4. Places(Idle) /\ Locals(Idle) /\ Calls(Idle)
    <2>1. Places(Idle)
      BY <1>2 DEF Places, Return, Idle, Putting
    <2>2. Locals(Idle)
      BY <1>2 DEF Locals, Putting, Mounting, HasSuperInHand, Owning
    <2>3. Calls(Idle)
      BY <1>2 DEF Calls, Mounting
    <2> QED
      BY <2>1, <2>2, <2>3
  <1>5. TasksOK /\ KeepsProcessor
    BY <1>1, <1>2, <1>4 DEF TasksOK, KeepsProcessor, Atomic
  <1>6. /\ \A s \in Supers : super[s].dev = NULL /\ super[s].imount = NULL
        /\ \A x \in Inodes : inode[x].count = 0 /\ ~inode[x].mount
    BY <1>1
  <1>7. OneEach /\ MountedOK /\ BeingRead
    BY <1>6 DEF OneEach, MountedOK, BeingRead
  <1>8. Unmounting /\ OnItsWay /\ OwnDirectory
    BY <1>1, <1>2 DEF Unmounting, OnItsWay, OwnDirectory, Mounting
  <1>9. OwnEntry /\ MountPointThere
    BY <1>1, <1>2 DEF OwnEntry, Owning, MountPointThere
  <1>10. UsedIsMounted
    BY <1>6 DEF UsedIsMounted, InUse
  <1>11. Exact
    <2> SUFFICES ASSUME NEW x \in Inodes
                 PROVE  inode[x].count = Cardinality(Holders(task, x)) + Cardinality(Mounts(x))
      BY DEF Exact
    <2>1. x # NULL
      BY InodeFacts
    <2>2. Holders(task, x) = {}
      BY <1>1, <1>2, <2>1 DEF Holders, RefersTo
    <2>3. Mounts(x) = {}
      BY <1>6, <2>1 DEF Mounts
    <2> QED
      BY <1>6, <2>2, <2>3, FS_EmptySet
  <1> QED
    BY <1>3, <1>5, <1>7, <1>8, <1>9, <1>10, <1>11 DEF Good

\* Nothing that the properties do not cover is ever taken back.
LEMMA RacedStays ==
  ASSUME NEW t \in Tasks, Step(t) \/ (\E d \in Dirs, rest \in {0, Sub, DotDot} : Chdir(t, d, rest))
                          \/ (\E d \in Dirs, v \in Devs : Mount(t, v, d)) \/ (\E v \in Devs : Umount(t, v)),
         ~raced'
  PROVE  ~raced
  <1> USE DEF quiet
  <1>1. CASE Iput(t) \/ Written(t) \/ IputRepeat(t)
    BY <1>1 DEF Iput, Written, IputRepeat, DropRef, Panic
  <1>2. CASE Iget(t) \/ ReadInode(t)
    BY <1>2 DEF Iget, ReadInode, Panic
  <1>3. CASE FindEntry(t) \/ Namei(t) \/ NameiRoot(t) \/ ChdirDone(t) \/ OverMount(t) \/ Up(t)
    BY <1>3 DEF FindEntry, Namei, NameiRoot, ChdirDone, OverMount, Up, Panic
  <1>4. CASE MountCheck(t) \/ CheckDiskChange(t) \/ PutSuper(t) \/ Release(t) \/ Invalidate(t)
    BY <1>4 DEF MountCheck, CheckDiskChange, PutSuper, Release, Invalidate
  <1>5. CASE GetSuper(t) \/ LockSuper(t) \/ ReadSuper(t)
    BY <1>5 DEF GetSuper, LockSuper, ReadSuper
  <1>6. CASE UmountCheck(t) \/ Unmounted(t)
    BY <1>6 DEF UmountCheck, Unmounted
  <1>7. CASE (\E d \in Dirs, rest \in {0, Sub, DotDot} : Chdir(t, d, rest))
             \/ (\E d \in Dirs, v \in Devs : Mount(t, v, d)) \/ (\E v \in Devs : Umount(t, v))
    BY <1>7 DEF Chdir, Mount, Umount
  <1> QED
    BY <1>1, <1>2, <1>3, <1>4, <1>5, <1>6, <1>7 DEF Step

\* Each step that is covered keeps the invariant.
LEMMA EachStepKeeps ==
  ASSUME Good, NEW t \in Tasks, Step(t), ~raced'
  PROVE  Good'
  <1>1. CASE Iput(t)
    BY <1>1, IputKeeps
  <1>2. CASE Written(t)
    BY <1>2, WrittenKeeps
  <1>3. CASE IputRepeat(t)
    BY <1>3, IputRepeatKeeps
  <1>4. CASE Iget(t)
    BY <1>4, IgetKeeps
  <1>5. CASE ReadInode(t)
    BY <1>5, ReadInodeKeeps
  <1>6. CASE FindEntry(t)
    BY <1>6, FindEntryKeeps
  <1>7. CASE Namei(t)
    BY <1>7, NameiKeeps
  <1>8. CASE NameiRoot(t)
    BY <1>8, NameiRootKeeps
  <1>9. CASE ChdirDone(t)
    BY <1>9, ChdirDoneKeeps
  <1>10. CASE OverMount(t)
    BY <1>10, OverMountKeeps
  <1>11. CASE Up(t)
    BY <1>11, UpKeeps
  <1>12. CASE MountCheck(t)
    BY <1>12, MountCheckKeeps
  <1>13. CASE CheckDiskChange(t)
    BY <1>13, CheckDiskChangeKeeps
  <1>14. CASE PutSuper(t)
    BY <1>14, PutSuperKeeps
  <1>15. CASE Release(t)
    BY <1>15, ReleaseKeeps
  <1>16. CASE Invalidate(t)
    BY <1>16, InvalidateKeeps
  <1>17. CASE GetSuper(t)
    BY <1>17, GetSuperKeeps
  <1>18. CASE LockSuper(t)
    BY <1>18, LockSuperKeeps
  <1>19. CASE ReadSuper(t)
    BY <1>19, ReadSuperKeeps
  <1>20. CASE UmountCheck(t)
    BY <1>20, UmountCheckKeeps
  <1>21. CASE Unmounted(t)
    BY <1>21, UnmountedKeeps
  <1> QED
    BY <1>1, <1>2, <1>3, <1>4, <1>5, <1>6, <1>7, <1>8, <1>9, <1>10, <1>11, <1>12, <1>13, <1>14,
       <1>15, <1>16, <1>17, <1>18, <1>19, <1>20, <1>21 DEF Step

\* In every state the tables, the places of the tasks, their references, the
\* mounts and the umounts on their way fit together, as long as nothing has
\* happened that the properties do not cover.
THEOREM MountInvariant == Spec => []MountInv
  <1>1. Init => MountInv
    BY InitGood DEF MountInv
  <1>2. MountInv /\ [Next]_vars => MountInv'
    <2> SUFFICES ASSUME MountInv, [Next]_vars, ~raced' PROVE Good'
      BY DEF MountInv
    <2>1. CASE Next
      <3>1. PICK t \in Tasks : Step(t) \/ (\E d \in Dirs, rest \in {0, Sub, DotDot} : Chdir(t, d, rest))
                               \/ (\E d \in Dirs, v \in Devs : Mount(t, v, d)) \/ (\E v \in Devs : Umount(t, v))
        BY <2>1 DEF Next
      <3>2. Good
        BY <3>1, RacedStays DEF MountInv
      <3>3. CASE Step(t)
        BY <3>2, <3>3, EachStepKeeps
      <3>4. ASSUME NEW d \in Dirs, NEW rest \in {0, Sub, DotDot}, Chdir(t, d, rest) PROVE Good'
        BY <3>2, <3>4, ChdirKeeps
      <3>5. ASSUME NEW d \in Dirs, NEW v \in Devs, Mount(t, v, d) PROVE Good'
        BY <3>2, <3>5, MountKeeps
      <3>6. ASSUME NEW v \in Devs, Umount(t, v) PROVE Good'
        BY <3>2, <3>6, UmountKeeps
      <3> QED
        BY <3>1, <3>3, <3>4, <3>5, <3>6
    <2>2. CASE UNCHANGED vars
      <3>1. Good /\ UNCHANGED <<current, inode, super, task, panic>>
        BY <2>2 DEF vars, MountInv
      <3>2. Types' /\ ~panic' /\ TasksOK' /\ KeepsProcessor' /\ OneEach' /\ MountedOK' /\ BeingRead'
        BY <3>1 DEF Good, Types, TasksOK, KeepsProcessor, OneEach, MountedOK, BeingRead, Unmounts
      <3>3. Unmounting' /\ UsedIsMounted' /\ OnItsWay'
        BY <3>1 DEF Good, Unmounting, UsedIsMounted, OnItsWay, Stays, InUse, IsMounted, OfDev
      <3>4. OwnDirectory' /\ OwnEntry' /\ MountPointThere'
        BY <3>1 DEF Good, OwnDirectory, OwnEntry, MountPointThere, Mounting
      <3>5. Exact'
        BY <3>1 DEF Good, Exact, Mounts
      <3> QED
        BY <3>2, <3>3, <3>4, <3>5 DEF Good
    <2> QED
      BY <2>1, <2>2
  <1> QED
    BY <1>1, <1>2, PTL DEF Spec

\* The references of the tasks are those that CountsExact counts.
LEMMA SameHolders ==
  ASSUME NEW x
  PROVE  {h \in Tasks \X {"pwd", "i", "new", "x"} : h[2] \in References(h[1], x)} = Holders(task, x)
  <1> DEFINE F == {"pwd", "i", "new", "x"}
  <1>1. \A t \in Tasks, f \in F : f \in References(t, x) <=> RefersTo(task[t], x, f)
    <2> TAKE t \in Tasks, f \in F
    <2>1. PutsMountPoint(t) <=> Puts(task[t])
      BY DEF PutsMountPoint, Puts, Putting
    <2>2. CASE f = "pwd"
      BY <2>2 DEF References, RefersTo
    <2>3. CASE f = "i"
      BY <2>1, <2>3 DEF References, RefersTo
    <2>4. CASE f = "new"
      BY <2>4 DEF References, RefersTo
    <2>5. CASE f = "x"
      BY <2>5 DEF References, RefersTo
    <2> QED
      BY <2>2, <2>3, <2>4, <2>5
  <1>2. \A h \in Tasks \X F : h[1] \in Tasks /\ h[2] \in F
    OBVIOUS
  <1>3. \A h \in Tasks \X F : h[2] \in References(h[1], x) <=> RefersTo(task[h[1]], x, h[2])
    BY <1>1, <1>2
  <1> QED
    BY <1>3 DEF Holders

\* i_count is exact on both sides of a mount point, for any number of tasks,
\* devices and directories (super.c:193, 208-244; namei.c:130-135, 258-286).
THEOREM CountsStayExact == Spec => []CountsExact
  <1>1. MountInv => CountsExact
    <2> SUFFICES ASSUME Good, NEW x \in Inodes
                 PROVE  inode[x].count = Cardinality({h \in Tasks \X {"pwd", "i", "new", "x"} :
                                                        h[2] \in References(h[1], x)})
                                         + Cardinality(Mounts(x))
      BY DEF MountInv, CountsExact
    <2>1. inode[x].count = Cardinality(Holders(task, x)) + Cardinality(Mounts(x))
      BY DEF Good, Exact
    <2> QED
      BY <2>1, SameHolders
  <1> QED
    BY <1>1, MountInvariant, PTL

\* At most one super block belongs to a device, and exactly one to a directory
\* that is marked.
LEMMA GoodIsPaired ==
  ASSUME Good
  PROVE  MountsPaired
  <1>1. \A v \in Devs : Cardinality(OfDev(v)) <= 1
    <2> TAKE v \in Devs
    <2>1. v # NULL
      BY MountAssumption
    <2>2. CASE OfDev(v) = {}
      <3>1. Cardinality(OfDev(v)) = 0
        BY <2>2, FS_EmptySet
      <3> QED
        BY <3>1
    <2>3. CASE OfDev(v) # {}
      <3>1. PICK s : s \in OfDev(v)
        BY <2>3
      <3>2. OfDev(v) = {s}
        BY <2>1, <3>1 DEF OfDev, Good, OneEach
      <3>3. Cardinality(OfDev(v)) = 1
        BY <3>2, FS_Singleton
      <3> QED
        BY <3>3
    <2> QED
      BY <2>2, <2>3
  <1>2. \A x \in Inodes : inode[x].mount => Cardinality({s \in Supers : super[s].imount = x}) = 1
    <2> SUFFICES ASSUME NEW x \in Inodes, inode[x].mount
                 PROVE  Cardinality({s \in Supers : super[s].imount = x}) = 1
      OBVIOUS
    <2>1. PICK s \in Supers : super[s].imount = x
      BY DEF Good, OneEach
    <2>2. x # NULL
      BY InodeFacts
    <2>3. {z \in Supers : super[z].imount = x} = {s}
      BY <2>1, <2>2 DEF Good, OneEach
    <2> QED
      BY <2>3, FS_Singleton
  <1>3. \A s \in Supers : super[s].imount # NULL =>
          /\ super[s].dev # NULL /\ super[s].read
          /\ \/ inode[super[s].imount].mount
             \/ \E t \in Tasks : task[t].ret = "unmounted" /\ task[t].s = s
    BY DEF Good, MountedOK, Unmounts
  <1> QED
    BY <1>1, <1>2, <1>3 DEF MountsPaired

\* A device in use stays mounted, super blocks and mount points are paired, and
\* the kernel neither panics nor uses a super block or a mount point that is
\* NULL (super.c:84-97, 185-197, 220-243; inode.c:169, 275, 298-308, 340, 365;
\* namei.c:130-135).
THEOREM MountsAreSafe == Spec => []MountSafe
  <1>1. MountInv => MountSafe
    <2> SUFFICES ASSUME Good PROVE ~panic /\ MountsPaired /\ \A v \in Devs : InUse(v) => IsMounted(v)
      BY DEF MountInv, MountSafe
    <2> QED
      BY GoodIsPaired DEF Good, UsedIsMounted
  <1> QED
    BY <1>1, MountInvariant, PTL

=============================================================================
