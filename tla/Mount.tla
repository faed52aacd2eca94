------------------------------- MODULE Mount -------------------------------
(***************************************************************************)
(* Mounted devices: the table of super blocks with mount() and umount()    *)
(* (fs/super.c), and the walks that go over the mount points: iget()       *)
(* (fs/inode.c), get_dir(), namei() and the ".." of find_entry()           *)
(* (fs/namei.c), for chdir() (fs/open.c).                                  *)
(*                                                                         *)
(* A task keeps the processor until it calls something that may sleep or   *)
(* waits for a lock; each of these points is a label.  An inode is known   *)
(* by its device and number; that it is in the table once, and what is in  *)
(* it, is the matter of FileSystem.tla.  The inodes of the root device     *)
(* that count here are its directories Dirs; another device has its root   *)
(* directory and one directory in it.                                      *)
(***************************************************************************)
EXTENDS Naturals, FiniteSets

CONSTANTS Tasks,
          Devs,        \* the devices that can be mounted
          Floppies,    \* those of them that are floppies
          Dirs,        \* numbers of directories in the root directory
          Supers,      \* super_block[], but for that of the root device
          NULL

ROOT_DEV == 0
ROOT_INO == 1
Sub == 2               \* the number of the directory on a device
DotDot == 3            \* stands for the name ".."

Inodes == ({ROOT_DEV} \X Dirs) \cup (Devs \X {ROOT_INO, Sub})

ASSUME MountAssumption ==
  /\ IsFiniteSet(Tasks) /\ IsFiniteSet(Supers)
  /\ ROOT_DEV \notin Devs /\ ROOT_INO \notin Dirs
  /\ NULL \notin Tasks \cup Devs \cup Supers \cup Inodes

Dev(x) == x[1]
Num(x) == x[2]

VARIABLES current,     \* the task in the kernel that has the processor, or NULL
          inode,       \* inode_table
          super,       \* super_block[]
          task,        \* task[t]: where the task is, and its local variables
          panic,       \* did the kernel panic, or use a pointer that is NULL?
          raced        \* history: what the properties do not cover has happened

vars == <<current, inode, super, task, panic, raced>>

\* x: the inode that iget() looks for; rest: the name behind it, or 0; i: the
\* inode in hand; new: the one that chdir() goes to; ret: where iput() returns to
Idle == [pc |-> "out", op |-> "chdir", dev |-> NULL, x |-> NULL, rest |-> 0, i |-> NULL,
         new |-> NULL, s |-> NULL, ret |-> "out", pwd |-> NULL]

Labels == {"out", "iget", "again", "root", "read", "find", "namei", "chdir", "dotdot", "up", "iput", "repeat",
           "written", "change", "put", "release", "invalidate", "buffers", "get", "lock",
           "read_super", "umount", "unmounted"}

TypeOK ==
  /\ current \in Tasks \cup {NULL}
  /\ inode \in [Inodes -> [count : Nat, lock : BOOLEAN, dirt : BOOLEAN, mount : BOOLEAN]]
  /\ super \in [Supers -> [dev : Devs \cup {NULL}, lock : BOOLEAN, read : BOOLEAN,
                           imount : Inodes \cup {NULL}]]
  /\ \A t \in Tasks :
       /\ {task[t].pc, task[t].ret} \subseteq Labels
       /\ {task[t].x, task[t].i, task[t].new, task[t].pwd} \subseteq Inodes \cup {NULL}
       /\ task[t].s \in Supers \cup {NULL} /\ task[t].dev \in Devs \cup {NULL}
  /\ panic \in BOOLEAN /\ raced \in BOOLEAN

-----------------------------------------------------------------------------
\* The search of get_super()
OfDev(v) == {s \in Supers : super[s].dev = v}

\* The device has a super block: the root device always has one.
HasSuper(v) == v = ROOT_DEV \/ OfDev(v) # {}

InUse(v) == \E x \in Inodes : Dev(x) = v /\ inode[x].count > 0

At(t, l) == current \in {NULL, t} /\ task[t].pc = l /\ ~panic

\* The labels at which the task is in a call that may sleep
MaySleep == {"out", "iget", "root", "read", "find", "written", "change", "release",
             "invalidate", "buffers", "read_super", "umount"}

\* ... or waits for a lock
Waits(I, S, r) ==
  \/ r.pc \in {"iput", "repeat"} /\ I[r.i].lock
  \/ r.pc \in {"put", "buffers", "get", "dotdot"} /\ \E s \in Supers : S[s].dev = r.dev /\ S[s].lock
  \/ r.pc = "lock" /\ S[r.s].lock
  \/ r.pc = "again" /\ I[r.x].lock

\* The task goes on as r says, with the tables I and S.
Go(t, I, S, r) ==
  /\ inode' = I /\ super' = S
  /\ task' = [task EXCEPT ![t] = r]
  /\ current' = IF r.pc \in MaySleep \/ Waits(I, S, r) THEN NULL ELSE t

Panic ==
  /\ panic' = TRUE
  /\ UNCHANGED <<current, inode, super, task, raced>>

quiet == <<panic, raced>>

Jump(r, l) == [r EXCEPT !.pc = l]

\* The system call returns.
Return(r) == [Idle EXCEPT !.pwd = r.pwd]

\* iput(i), then go on at ret
Put(r, i, ret) == [r EXCEPT !.pc = "iput", !.i = i, !.ret = ret]

\* The system call ends with iput() of the inode in hand.
PutAndReturn(r) == Put(r, r.i, "out")

AfterPut(r) == IF r.ret = "out" THEN Return(r) ELSE [r EXCEPT !.pc = r.ret, !.i = NULL]

-----------------------------------------------------------------------------
(* iput() and iget().                                                      *)

\* The reference is dropped; the last one of a dirty inode writes it first.
DropRef(t) ==
  LET r == task[t]
      n == inode[r.i]
  IN
  CASE n.count > 1 \/ ~n.dirt ->
         Go(t, [inode EXCEPT ![r.i].count = @ - 1], super, AfterPut(r)) /\ UNCHANGED quiet
    [] n.count = 1 /\ n.dirt /\ HasSuper(Dev(r.i)) ->
         /\ Go(t, [inode EXCEPT ![r.i].lock = TRUE], super, Jump(r, "written"))
         /\ UNCHANGED quiet
    [] OTHER -> Panic     \* "trying to write inode without device"

Iput(t) ==
  /\ At(t, "iput") /\ ~inode[task[t].i].lock
  /\ IF inode[task[t].i].count = 0 THEN Panic    \* "trying to free free inode"
     ELSE DropRef(t)

\* write_inode() has returned
Written(t) ==
  /\ At(t, "written")
  /\ Go(t, [inode EXCEPT ![task[t].i].lock = FALSE, ![task[t].i].dirt = FALSE], super,
        Jump(task[t], "repeat"))
  /\ UNCHANGED quiet

IputRepeat(t) == At(t, "repeat") /\ ~inode[task[t].i].lock /\ DropRef(t)

\* What iget() goes over to if the inode is a mount point
Mounted(x) == {s \in Supers : inode[x].mount /\ super[s].imount = x}

\* The inode is got: the walk goes on in it, or is at its end.
Got(r, x) ==
  [r EXCEPT !.x = NULL, !.i = x,
            !.dev = IF r.rest = DotDot /\ Num(x) = ROOT_INO THEN Dev(x) ELSE @,
            !.pc = CASE r.rest = 0 -> "namei"
                     [] r.rest = DotDot /\ Num(x) = ROOT_INO -> "dotdot"
                     [] OTHER -> "find"]

(***************************************************************************)
(* iget(), after get_empty_inode(): the inode is in the table, or is read  *)
(* into it.  At a mount point the search begins again for the root of the  *)
(* device, without a pause unless that inode is locked.                    *)
(***************************************************************************)
Iget(t) ==
  LET r == task[t]
      x == r.x
  IN
  /\ At(t, "iget") \/ At(t, "again")
  /\ ~inode[x].lock
  /\ CASE Mounted(x) # {} ->
            LET v == super[CHOOSE s \in Mounted(x) : TRUE].dev IN
            IF v = NULL THEN Panic
            ELSE Go(t, inode, super, [r EXCEPT !.pc = "again", !.x = <<v, ROOT_INO>>]) /\ UNCHANGED quiet
       [] Mounted(x) = {} ->
            \/ /\ Go(t, [inode EXCEPT ![x].count = @ + 1], super, Got(r, x))
               /\ UNCHANGED quiet
            \/ /\ inode[x].count = 0
               /\ IF ~HasSuper(Dev(x)) THEN Panic    \* "trying to read inode without dev"
                  ELSE /\ Go(t, [inode EXCEPT ![x].count = 1, ![x].lock = TRUE], super,
                             [r EXCEPT !.pc = "read"])
                       /\ UNCHANGED quiet

\* read_inode() has returned
ReadInode(t) ==
  LET r == task[t] IN
  /\ At(t, "read")
  /\ Go(t, [inode EXCEPT ![r.x].lock = FALSE], super, Got(r, r.x))
  /\ UNCHANGED quiet

-----------------------------------------------------------------------------
(* chdir(): namei() of a directory in the root directory, or of the        *)
(* directory in that, or of ".." behind it.                                *)

Chdir(t, d, rest) ==
  /\ At(t, "out") /\ current = NULL
  /\ Go(t, inode, super, [task[t] EXCEPT !.pc = "iget", !.x = <<ROOT_DEV, d>>, !.rest = rest])
  /\ UNCHANGED quiet

\* get_dir(): find_entry() in the inode in hand, which is put before the next
\* one is got.  The directories of the root device have only ".." in them.
FindEntry(t) ==
  LET r == task[t] IN
  /\ At(t, "find")
  /\ Go(t, inode, super,
        CASE r.rest = DotDot -> [Put(r, r.i, "root") EXCEPT !.rest = 0]
          [] r.rest = Sub /\ Dev(r.i) # ROOT_DEV ->
               [Put(r, r.i, "iget") EXCEPT !.x = <<Dev(r.i), r.rest>>, !.rest = 0]
          [] OTHER -> PutAndReturn(r))
  /\ UNCHANGED quiet

\* namei() returns the inode, marked dirty; sys_chdir() puts its old directory
Namei(t) ==
  LET r == task[t]
      I == [inode EXCEPT ![r.i].dirt = TRUE]
  IN
  /\ At(t, "namei") /\ r.op = "chdir"
  /\ Go(t, I, super, IF r.pwd = NULL THEN [Return(r) EXCEPT !.pwd = r.i]
                     ELSE Put([r EXCEPT !.new = r.i], r.pwd, "chdir"))
  /\ UNCHANGED quiet

\* ... the same, for the root directory
NameiRoot(t) ==
  /\ At(t, "root")
  /\ Go(t, inode, super, IF task[t].pwd = NULL THEN Return(task[t])
                         ELSE Put(task[t], task[t].pwd, "chdir"))
  /\ UNCHANGED quiet

ChdirDone(t) ==
  /\ At(t, "chdir")
  /\ Go(t, inode, super, [Return(task[t]) EXCEPT !.pwd = task[t].new])
  /\ UNCHANGED quiet

\* find_entry(): '..' over a mount point.  The inode is put, and only then the
\* mount point is taken from the super block.
OverMount(t) ==
  LET r == task[t] IN
  /\ At(t, "dotdot") /\ ~Waits(inode, super, r)
  /\ IF OfDev(r.dev) = {} THEN Panic     \* sb is NULL
     ELSE LET s == CHOOSE s \in OfDev(r.dev) : TRUE IN
          /\ Go(t, inode, super, IF super[s].imount = NULL THEN PutAndReturn(r)
                                 ELSE [Put(r, r.i, "up") EXCEPT !.s = s])
          /\ UNCHANGED quiet

\* ... and the walk leads to the root directory.
Up(t) ==
  LET r == task[t]
      d == super[r.s].imount
  IN
  /\ At(t, "up")
  /\ IF d = NULL THEN Panic
     ELSE /\ Go(t, [inode EXCEPT ![d].count = @ + 1], super,
                [r EXCEPT !.pc = "find", !.i = d, !.s = NULL, !.dev = NULL])
          /\ UNCHANGED quiet

-----------------------------------------------------------------------------
(* The super blocks.                                                       *)

\* sys_mount(): the inode of the directory is got first
Mount(t, v, d) ==
  /\ At(t, "out") /\ current = NULL
  /\ Go(t, inode, super, [task[t] EXCEPT !.pc = "iget", !.op = "mount", !.dev = v,
                                         !.x = <<ROOT_DEV, d>>])
  /\ UNCHANGED quiet

\* ... it must be used by nobody else and be no root, for now
MountCheck(t) ==
  LET r == task[t] IN
  /\ At(t, "namei") /\ r.op = "mount"
  /\ Go(t, [inode EXCEPT ![r.i].dirt = TRUE], super,
        IF inode[r.i].count # 1 \/ Num(r.i) = ROOT_INO THEN PutAndReturn(r)
        ELSE Jump(r, IF r.dev \in Floppies THEN "change" ELSE "get"))
  /\ UNCHANGED quiet

\* check_disk_change() for read_super(): floppy_change() has returned
CheckDiskChange(t) ==
  /\ At(t, "change")
  /\ \E changed \in BOOLEAN : Go(t, inode, super, Jump(task[t], IF changed THEN "put" ELSE "get"))
  /\ UNCHANGED quiet

\* put_super() has returned: check_disk_change() goes on, or umount() is done.
AfterPutSuper(r) ==
  IF r.op = "mount" THEN [r EXCEPT !.pc = "invalidate", !.s = NULL] ELSE Return(r)

\* put_super(): the entry is free, and locked while the bitmaps are released.
PutSuper(t) ==
  LET r == task[t] IN
  /\ At(t, "put") /\ ~Waits(inode, super, r)
  /\ IF OfDev(r.dev) = {} THEN Go(t, inode, super, AfterPutSuper(r))
     ELSE \E s \in OfDev(r.dev) :
       IF super[s].imount # NULL THEN Go(t, inode, super, AfterPutSuper(r))
       ELSE Go(t, inode, [super EXCEPT ![s].lock = TRUE, ![s].dev = NULL, ![s].read = FALSE],
               [r EXCEPT !.pc = "release", !.s = s])
  /\ UNCHANGED quiet

\* ... free_super()
Release(t) ==
  /\ At(t, "release")
  /\ Go(t, inode, [super EXCEPT ![task[t].s].lock = FALSE], AfterPutSuper(task[t]))
  /\ UNCHANGED quiet

\* check_disk_change() ends with invalidate_inodes(), which takes the device
\* away from inodes in use too, and invalidate_buffers().
Invalidate(t) ==
  LET r == task[t]
      I == [x \in Inodes |-> [inode[x] EXCEPT !.dirt = @ /\ Dev(x) # r.dev]]
  IN
  /\ At(t, "invalidate")
  /\ Go(t, I, super, Jump(r, "buffers"))
  /\ raced' = (raced \/ InUse(r.dev))
  /\ UNCHANGED panic

\* read_super() has returned s: the directory becomes its mount point, unless
\* it has one.
MountOn(t, S, s) ==
  LET r == task[t] IN
  IF S[s].imount # NULL \/ inode[r.i].mount
  THEN Go(t, inode, S, PutAndReturn(r))
  ELSE Go(t, [inode EXCEPT ![r.i].mount = TRUE, ![r.i].dirt = TRUE],
          [S EXCEPT ![s].imount = r.i], Return(r))

\* Slip: the directory is not put when there is no entry left.
SlipGetSuper(t) ==
  LET r == task[t]
      free == {s \in Supers : super[s].dev = NULL}
  IN
  /\ At(t, "get") \/ At(t, "buffers")
  /\ ~Waits(inode, super, r)
  /\ CASE OfDev(r.dev) # {} -> MountOn(t, super, CHOOSE s \in OfDev(r.dev) : TRUE)
       [] OfDev(r.dev) = {} /\ free = {} -> Go(t, inode, super, Return(r))
       [] OTHER -> \E s \in free :
            Go(t, inode, [super EXCEPT ![s].dev = r.dev, ![s].imount = NULL],
               [r EXCEPT !.pc = "lock", !.s = s])
  /\ UNCHANGED quiet

\* read_super(): get_super(), or an entry is taken that has no device
GetSuper(t) ==
  LET r == task[t]
      free == {s \in Supers : super[s].dev = NULL}
  IN
  /\ At(t, "get") \/ At(t, "buffers")
  /\ ~Waits(inode, super, r)
  /\ CASE OfDev(r.dev) # {} -> MountOn(t, super, CHOOSE s \in OfDev(r.dev) : TRUE) /\ UNCHANGED quiet
       [] OfDev(r.dev) = {} /\ free = {} -> Go(t, inode, super, PutAndReturn(r)) /\ UNCHANGED quiet
       [] OTHER ->
            \E s \in free :
              /\ Go(t, inode, [super EXCEPT ![s].dev = r.dev, ![s].imount = NULL],
                    [r EXCEPT !.pc = "lock", !.s = s])
              /\ raced' = (raced \/ super[s].lock)
              /\ UNCHANGED panic

LockSuper(t) ==
  LET s == task[t].s IN
  /\ At(t, "lock") /\ ~super[s].lock
  /\ Go(t, inode, [super EXCEPT ![s].lock = TRUE], Jump(task[t], "read_super"))
  /\ UNCHANGED quiet

\* ... the super block and the bitmaps were read, or could not be, or have no
\* SUPER_MAGIC
ReadSuper(t) ==
  LET r == task[t] IN
  /\ At(t, "read_super")
  /\ \/ MountOn(t, [super EXCEPT ![r.s].lock = FALSE, ![r.s].read = TRUE], r.s)
     \/ Go(t, inode, [super EXCEPT ![r.s].lock = FALSE, ![r.s].dev = NULL], PutAndReturn(r))
  /\ UNCHANGED quiet

\* sys_umount(): the inode of the device is put, which syncs it
Umount(t, v) ==
  /\ At(t, "out") /\ current = NULL
  /\ Go(t, inode, super, [task[t] EXCEPT !.pc = "umount", !.op = "umount", !.dev = v])
  /\ UNCHANGED quiet

\* Tasks that will use the device or its mount point without a reference to
\* it: between two inodes of the device, or in a umount() of it.
OnTheWay(v, t) ==
  {u \in Tasks \ {t} : \/ task[u].x # NULL /\ Dev(task[u].x) = v
                       \/ task[u].dev = v /\ task[u].ret = "unmounted"}

\* Slip: the inodes of the device are not looked at.
SlipUmountCheck(t) ==
  LET r == task[t] IN
  /\ At(t, "umount") /\ \A s \in OfDev(r.dev) : ~super[s].lock
  /\ IF \A s \in OfDev(r.dev) : super[s].imount = NULL
     THEN Go(t, inode, super, Return(r)) /\ UNCHANGED quiet
     ELSE \E s \in OfDev(r.dev) :
       /\ Go(t, [inode EXCEPT ![super[s].imount].mount = FALSE], super,
             [Put(r, super[s].imount, "unmounted") EXCEPT !.s = s])
       /\ raced' = (raced \/ OnTheWay(r.dev, t) # {})
       /\ UNCHANGED panic

\* ... the device is not mounted, or is in use; or its mount point is put
UmountCheck(t) ==
  LET r == task[t] IN
  /\ At(t, "umount") /\ \A s \in OfDev(r.dev) : ~super[s].lock
  /\ IF (\A s \in OfDev(r.dev) : super[s].imount = NULL) \/ InUse(r.dev)
     THEN Go(t, inode, super, Return(r)) /\ UNCHANGED quiet
     ELSE \E s \in OfDev(r.dev) :
       /\ Go(t, [inode EXCEPT ![super[s].imount].mount = FALSE], super,
             [Put(r, super[s].imount, "unmounted") EXCEPT !.s = s])
       /\ raced' = (raced \/ OnTheWay(r.dev, t) # {})
       /\ UNCHANGED panic

\* ... and forgotten, and put_super() is called.
Unmounted(t) ==
  LET r == task[t] IN
  /\ At(t, "unmounted")
  /\ Go(t, inode, [super EXCEPT ![r.s].imount = NULL], [r EXCEPT !.pc = "put", !.s = NULL, !.ret = "out"])
  /\ UNCHANGED quiet

-----------------------------------------------------------------------------
\* mount_root() has mounted the root device only.
Init ==
  /\ current = NULL
  /\ inode = [x \in Inodes |-> [count |-> 0, lock |-> FALSE, dirt |-> FALSE, mount |-> FALSE]]
  /\ super = [s \in Supers |-> [dev |-> NULL, lock |-> FALSE, read |-> FALSE, imount |-> NULL]]
  /\ task = [t \in Tasks |-> Idle]
  /\ panic = FALSE /\ raced = FALSE

Step(t) ==
  \/ Iput(t) \/ Written(t) \/ IputRepeat(t) \/ Iget(t) \/ ReadInode(t)
  \/ FindEntry(t) \/ Namei(t) \/ NameiRoot(t) \/ ChdirDone(t) \/ OverMount(t) \/ Up(t)
  \/ MountCheck(t) \/ CheckDiskChange(t) \/ PutSuper(t) \/ Release(t) \/ Invalidate(t)
  \/ GetSuper(t) \/ LockSuper(t) \/ ReadSuper(t) \/ UmountCheck(t) \/ Unmounted(t)

Next ==
  \E t \in Tasks :
    \/ Step(t)
    \/ \E d \in Dirs : \/ \E rest \in {0, Sub, DotDot} : Chdir(t, d, rest)
                       \/ \E v \in Devs : Mount(t, v, d)
    \/ \E v \in Devs : Umount(t, v)

Spec == Init /\ [][Next]_vars

-----------------------------------------------------------------------------
\* The task is putting the mount point of the device that it unmounts: the
\* reference is that of the super block.
PutsMountPoint(t) == task[t].ret = "unmounted" /\ task[t].pc \in {"iput", "written", "repeat"}

\* The references that a task has: its directory, and the inodes in hand
References(t, x) ==
  {f \in {"pwd", "i", "new", "x"} :
     /\ task[t][f] = x
     /\ f = "pwd" => task[t].ret # "chdir"
     /\ f = "i" => ~PutsMountPoint(t)
     /\ f = "x" => task[t].pc = "read"}

\* ... and a super block, until its mount point was put
Mounts(x) ==
  {s \in Supers : super[s].imount = x
                  /\ \A t \in Tasks : ~(task[t].pc = "unmounted" /\ task[t].s = s)}

(***************************************************************************)
(* i_count is exact for the inodes on both sides of a mount point, through *)
(* every error path of mount(), umount() and a walk: one for each task     *)
(* that is there or holds the inode, one for the super block that is       *)
(* mounted on it (super.c:193, 208-244; namei.c:130-135, 258-286).         *)
(***************************************************************************)
CountsExact ==
  ~raced =>
    \A x \in Inodes :
      inode[x].count = Cardinality({h \in Tasks \X {"pwd", "i", "new", "x"} : h[2] \in References(h[1], x)})
                       + Cardinality(Mounts(x))

\* The device has its super block, with the bitmaps in memory, and is mounted.
IsMounted(v) == \E s \in OfDev(v) : super[s].read /\ super[s].imount # NULL

\* Super blocks and mount points belong together: no device has two super
\* blocks, and a directory is a mount point exactly if one of them says so, or
\* umount() has begun to put it ("Mounted inode has i_mount=0", super.c:188).
MountsPaired ==
  /\ \A v \in Devs : Cardinality(OfDev(v)) <= 1
  /\ \A x \in Inodes : inode[x].mount => Cardinality({s \in Supers : super[s].imount = x}) = 1
  /\ \A s \in Supers : super[s].imount # NULL =>
       /\ super[s].dev # NULL /\ super[s].read
       /\ \/ inode[super[s].imount].mount
          \/ \E t \in Tasks : task[t].ret = "unmounted" /\ task[t].s = s

(***************************************************************************)
(* As long as a task is in a device or holds an inode of it, the device is *)
(* mounted: umount() and mount() of a changed floppy do not take it away   *)
(* (super.c:84-97, 185-197).  Super blocks and mount points stay paired    *)
(* (super.c:220-243, inode.c:298-308), and the kernel neither panics over  *)
(* an inode whose device has gone or that is free, nor uses a super block  *)
(* or a mount point that is NULL (inode.c:169, 275, 340, 365; namei.c:     *)
(* 130-135).  Excluded is what follows when umount() passes its check      *)
(* while another task is between two inodes of the device, or in umount()  *)
(* itself, when mount() takes an entry that is still locked, or when the   *)
(* disk is changed in a drive that is in use.                              *)
(***************************************************************************)
MountSafe ==
  ~raced => /\ ~panic
            /\ MountsPaired
            /\ \A v \in Devs : InUse(v) => IsMounted(v)

=============================================================================
