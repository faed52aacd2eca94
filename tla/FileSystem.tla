---------------------------- MODULE FileSystem ----------------------------
(***************************************************************************)
(* The in-memory inode table (fs/inode.c), the bitmaps (fs/bitmap.c), and  *)
(* the system calls of fs/namei.c that work on them, for one directory of  *)
(* one device: open(), link(), unlink(), mknod(), mkdir(), rmdir(),        *)
(* close(), read(), write() and sync().                                    *)
(*                                                                         *)
(* A task keeps the processor until it waits for a locked inode or calls   *)
(* bread(), getblk(), get_hash_table() or brelse(), which may sleep; each  *)
(* of these points is a label, and an action goes from one to the next.    *)
(* The blocks of the disk are seen through the buffer cache                *)
(* (BufferCache.tla): a write to a buffer is at once what others read.     *)
(* Of a file the model has its link count and one zone; the directories    *)
(* that mkdir() makes stay empty.                                          *)
(***************************************************************************)
EXTENDS Naturals, Sequences, FiniteSets, FiniteSetsExt

CONSTANTS Tasks,
          Slots,       \* inode_table
          NrInodes,    \* s_ninodes
          NrZones,     \* s_nzones: the data zones
          NrEntries,   \* entries that the directory has room for
          Names,
          Ops,         \* the system calls that are made, a subset of AllOps
          Races,       \* what may meet: {} or some of AllRaces
          NULL

\* "open" is open() of a file that exists; the two flags are open() with the
\* flag (creat() does as one or the other, as the file exists or not).
AllOps == {"open", "O_TRUNC", "O_CREAT", "mknod", "mkdir", "link", "unlink", "rmdir",
           "close", "read", "write", "sync"}

\* "name": two tasks may make system calls about the same name at a time;
\* "sync": sync_inodes() may come upon a file that is being deleted.
AllRaces == {"name", "sync"}

ASSUME SizesAssumption == /\ NrInodes \in Nat \ {0}
                          /\ NrZones \in Nat \ {0}
                          /\ NrEntries \in Nat \ {0}
ASSUME OpsAssumption == Ops \subseteq AllOps /\ Races \subseteq AllRaces

Inos == 1..NrInodes
Zones == 1..NrZones
Entries == 1..NrEntries

VARIABLES current,     \* the task in the kernel that has the processor, or NULL
          imap, zmap,  \* the bits that are set in the two bitmaps
          dir,         \* the directory: dir[e].ino is 0 if e is not used
          dinode,      \* the inodes on the disk
          inode,       \* inode_table
          task,        \* task[t]: where the task is, and its local variables
          panic        \* the message of panic(), or "none"

vars == <<current, imap, zmap, dir, dinode, inode, task, panic>>

\* num: i_num and i_dev, 0 if the entry has none; zone: i_zone[0]; isdir: S_ISDIR
NoInode == [num |-> 0, count |-> 0, lock |-> FALSE, dirt |-> FALSE,
            nlinks |-> 0, zone |-> 0, isdir |-> FALSE]

(***************************************************************************)
(* pc is the label; stack, the labels to return to.  w: the inode that     *)
(* get_empty_inode() and write_inode() work on; empty: the one that the    *)
(* former returned; ino: the number that iget() looks for; i: the inode    *)
(* that iget() or new_inode() returned; de: the directory entry; z: a      *)
(* zone; fd: the inode of the open file.                                   *)
(***************************************************************************)
Idle == [pc |-> "out", stack |-> <<>>, op |-> "open", name |-> NULL, to |-> NULL,
         de |-> 0, ino |-> 0, i |-> NULL, empty |-> NULL, w |-> NULL, z |-> 0,
         fd |-> NULL]

Labels == {"out", "find", "found", "empty", "take", "write", "written", "iget", "igetwait",
           "read", "bread", "copy", "opened", "new_inode", "add", "namei", "find2", "linked", "unlink",
           "unlinked", "iput", "repeat", "free_block", "free_inode", "bmap", "getblk",
           "dir_block", "undo", "rmdir", "empty_dir"}

TypeOK ==
  /\ current \in Tasks \cup {NULL}
  /\ imap \subseteq Inos /\ zmap \subseteq Zones
  /\ dir \in [Entries -> [name : Names \cup {NULL}, ino : Inos \cup {0}]]
  /\ dinode \in [Inos -> [nlinks : Nat, zone : Zones \cup {0}, isdir : BOOLEAN]]
  /\ inode \in [Slots -> [num : Inos \cup {0}, count : Nat, lock : BOOLEAN,
                          dirt : BOOLEAN, nlinks : Nat, zone : Zones \cup {0}, isdir : BOOLEAN]]
  /\ \A t \in Tasks :
       /\ task[t].pc \in Labels
       /\ task[t].op \in AllOps
       /\ {task[t].i, task[t].empty, task[t].w, task[t].fd} \subseteq Slots \cup {NULL}
  /\ panic \in {"none", "No free inodes in mem", "iput: trying to free free inode",
                "free_inode", "trying to free inode with links",
                "free_block: bit already cleared", "new block: count is != 1"}

-----------------------------------------------------------------------------
\* The task is at label l, and has the processor or may be given it.
At(t, l) == current \in {NULL, t} /\ task[t].pc = l /\ panic = "none"

\* The labels at which the task is in a call that may sleep
MaySleep == {"out", "find", "found", "find2", "written", "read", "add", "linked",
             "unlinked", "free_block", "getblk", "bread", "copy", "dir_block", "undo",
             "empty_dir"}

\* The file of the inode s is being deleted; unless "sync" is among the
\* Races, sync_inodes() does not come upon it.
Kept(s) == /\ "sync" \notin Races
           /\ \E u \in Tasks : task[u].pc = "free_block" /\ task[u].i = s

\* ... or waits for a lock
Waits(I, r) ==
  \/ r.pc \in {"take", "write", "igetwait"} /\ I[r.w].lock
  \/ r.pc = "write" /\ Kept(r.w)
  \/ r.pc \in {"iput", "repeat"} /\ I[r.i].lock

\* The task goes on as r says, with the inode table I.
Go(t, I, r) ==
  /\ inode' = I
  /\ task' = [task EXCEPT ![t] = r]
  /\ current' = IF r.pc \in MaySleep \/ Waits(I, r) THEN NULL ELSE t

Jump(r, l) == [r EXCEPT !.pc = l]

Call(r, l, ret) == [r EXCEPT !.pc = l, !.stack = <<ret>> \o @]

\* The system call ends with iput().
Put(r) == [r EXCEPT !.pc = "iput", !.op = "close"]

\* The system call returns, with the file f open.
Return(f) == [Idle EXCEPT !.fd = f]

Back(r) == IF r.stack = <<>> THEN Return(r.fd)
           ELSE [r EXCEPT !.pc = Head(r.stack), !.stack = Tail(r.stack)]

Panic(msg) ==
  /\ panic' = msg
  /\ UNCHANGED <<current, imap, zmap, dir, dinode, inode, task>>

disk == <<imap, zmap, dir, dinode, panic>>

-----------------------------------------------------------------------------
\* write_inode() of task[t].w
WriteInode(t) ==
  LET r == task[t]
      w == r.w
  IN
  /\ At(t, "write") /\ ~inode[w].lock /\ ~Kept(w)
  /\ IF inode[w].dirt /\ inode[w].num # 0
     THEN Go(t, [inode EXCEPT ![w].lock = TRUE], Jump(r, "written"))
     ELSE Go(t, inode, Back(r))
  /\ UNCHANGED disk

\* ... bread() has returned: the inode is copied and unlocked
WriteInodeDone(t) ==
  LET r == task[t]
      w == r.w
  IN
  /\ At(t, "written")
  /\ dinode' = [dinode EXCEPT ![inode[w].num] =
                  [nlinks |-> inode[w].nlinks, zone |-> inode[w].zone, isdir |-> inode[w].isdir]]
  /\ Go(t, [inode EXCEPT ![w].dirt = FALSE, ![w].lock = FALSE], Back(r))
  /\ UNCHANGED <<imap, zmap, dir, panic>>

\* read_inode() into task[t].empty: bread() has returned
ReadInodeDone(t) ==
  LET r == task[t]
      e == r.empty
  IN
  /\ At(t, "read")
  /\ Go(t, [inode EXCEPT ![e].lock = FALSE, ![e].nlinks = dinode[r.ino].nlinks,
                         ![e].zone = dinode[r.ino].zone, ![e].isdir = dinode[r.ino].isdir],
        [Back(r) EXCEPT !.i = e, !.empty = NULL, !.ino = 0])
  /\ UNCHANGED disk

Unused == {s \in Slots : inode[s].count = 0}

\* get_empty_inode(): a clean, unlocked inode that nobody uses, or else any
\* that nobody uses
GetEmptyInode(t) ==
  LET clean == {s \in Unused : ~inode[s].dirt /\ ~inode[s].lock} IN
  /\ At(t, "empty")
  /\ IF Unused = {}
     THEN Panic("No free inodes in mem")
     ELSE /\ \E s \in IF clean # {} THEN clean ELSE Unused :
               Go(t, inode, [task[t] EXCEPT !.pc = "take", !.w = s])
          /\ UNCHANGED disk

\* ... wait_on_inode() has returned: write it, take it, or begin again
TakeEmpty(t) ==
  LET r == task[t]
      w == r.w
  IN
  /\ At(t, "take") /\ ~inode[w].lock
  /\ CASE inode[w].dirt -> Go(t, inode, Call(r, "write", "take"))
       [] ~inode[w].dirt /\ inode[w].count > 0 -> Go(t, inode, Jump(r, "empty"))
       [] OTHER -> Go(t, [inode EXCEPT ![w] = [NoInode EXCEPT !.count = 1]],
                      [Back(r) EXCEPT !.empty = w, !.w = NULL])
  /\ UNCHANGED disk

\* Slip: only the inodes that are in use are looked at.
SlipLookup(n) == {s \in Slots : inode[s].num = n /\ inode[s].count > 0}

\* The search of iget() through the table
Lookup(n) == {s \in Slots : inode[s].num = n}

\* iget() has found the inode s in the table: i_count++, iput(empty)
IgetFound(t, s) ==
  Go(t, [inode EXCEPT ![s].count = @ + 1, ![task[t].empty].count = @ - 1],
     [Back(task[t]) EXCEPT !.i = s, !.empty = NULL, !.w = NULL, !.ino = 0])

\* iget(): the table is searched, without sleeping since empty was taken or
\* since the search was begun again
Iget(t) ==
  LET r == task[t] IN
  /\ At(t, "iget")
  /\ \/ /\ Lookup(r.ino) = {}
        /\ Go(t, [inode EXCEPT ![r.empty].num = r.ino, ![r.empty].lock = TRUE],
              Jump(r, "read"))
     \/ \E s \in Lookup(r.ino) :
          IF inode[s].lock
          THEN Go(t, inode, [r EXCEPT !.pc = "igetwait", !.w = s])
          ELSE IgetFound(t, s)
  /\ UNCHANGED disk

\* ... wait_on_inode() has returned
IgetWait(t) ==
  LET r == task[t] IN
  /\ At(t, "igetwait") /\ ~inode[r.w].lock
  /\ IF inode[r.w].num = r.ino
     THEN IgetFound(t, r.w)
     ELSE Go(t, inode, [r EXCEPT !.pc = "iget", !.w = NULL])
  /\ UNCHANGED disk

\* new_inode(), after get_empty_inode(): the first zero of the bitmap
NewInode(t) ==
  LET r == task[t]
      e == r.empty
      free == Inos \ imap
  IN
  /\ At(t, "new_inode")
  /\ IF free = {}
     THEN /\ Go(t, [inode EXCEPT ![e].count = @ - 1], Return(r.fd))
          /\ UNCHANGED imap
     ELSE /\ imap' = imap \cup {Min(free)}
          /\ Go(t, [inode EXCEPT ![e] = [NoInode EXCEPT !.num = Min(free), !.count = 1,
                                           !.dirt = TRUE, !.nlinks = 1]],
                [r EXCEPT !.pc = IF r.op = "mkdir" THEN "bmap" ELSE "add",
                          !.i = e, !.empty = NULL])
  /\ UNCHANGED <<zmap, dir, dinode, panic>>

\* Slip: the links are looked at before the count.
SlipPutInode(t) ==
  LET r == task[t]
      i == r.i
      n == inode[i]
      last == n.count = 1 /\ n.num # 0
  IN
  /\ CASE n.num # 0 /\ n.nlinks = 0 /\ n.zone = 0 ->
            Go(t, inode, Jump(r, "free_inode"))
       [] n.num # 0 /\ n.nlinks = 0 /\ n.zone # 0 ->
            Go(t, inode, [Call(r, "free_block", "free_inode") EXCEPT !.z = n.zone])
       [] last /\ n.nlinks # 0 /\ n.dirt ->
            Go(t, inode, [Call(r, "write", "repeat") EXCEPT !.w = i])
       [] OTHER -> Go(t, [inode EXCEPT ![i].count = @ - 1], Back(r))
  /\ UNCHANGED disk

\* The reference is dropped: the last one of a file without links deletes it,
\* the last one of a dirty inode writes it first.
PutInode(t) ==
  LET r == task[t]
      i == r.i
      n == inode[i]
      last == n.count = 1 /\ n.num # 0
  IN
  /\ CASE last /\ n.nlinks = 0 /\ n.zone = 0 ->
            Go(t, inode, Jump(r, "free_inode"))
       [] last /\ n.nlinks = 0 /\ n.zone # 0 ->
            Go(t, inode, [Call(r, "free_block", "free_inode") EXCEPT !.z = n.zone])
       [] last /\ n.nlinks # 0 /\ n.dirt ->
            Go(t, inode, [Call(r, "write", "repeat") EXCEPT !.w = i])
       [] OTHER -> Go(t, [inode EXCEPT ![i].count = @ - 1], Back(r))
  /\ UNCHANGED disk

\* iput(), after wait_on_inode()
Iput(t) ==
  /\ At(t, "iput") /\ ~inode[task[t].i].lock
  /\ IF inode[task[t].i].count = 0
     THEN Panic("iput: trying to free free inode")
     ELSE PutInode(t)

\* repeat:
IputRepeat(t) ==
  /\ At(t, "repeat") /\ ~inode[task[t].i].lock
  /\ PutInode(t)

\* Does another task have the buffer of the block z?
InUse(t, z) == \E u \in Tasks \ {t} : task[u].pc = "copy" /\ task[u].z = z

\* After get_hash_table() in free_block(), is b_count not 1?  So it is if the
\* buffer is in use, and if another task frees the block too, or did and left
\* the buffer with its count.
Held(t) ==
  LET r == task[t] IN
  \/ InUse(t, r.z) \/ inode[r.i].zone # r.z
  \/ \E u \in Tasks \ {t} : task[u].pc = "free_block" /\ task[u].z = r.z

\* free_block() in truncate(): the bit is cleared unless the buffer is held;
\* i_zone[] is in either case
FreeBlock(t) ==
  LET r == task[t] IN
  /\ At(t, "free_block")
  /\ IF ~Held(t) /\ r.z \notin zmap
     THEN Panic("free_block: bit already cleared")
     ELSE /\ zmap' = IF Held(t) THEN zmap ELSE zmap \ {r.z}
          /\ Go(t, [inode EXCEPT ![r.i].zone = 0, ![r.i].dirt = TRUE],
                [Back(r) EXCEPT !.z = 0])
          /\ UNCHANGED <<imap, dir, dinode, panic>>

FreeInode(t) ==
  LET r == task[t]
      n == inode[r.i]
  IN
  /\ At(t, "free_inode")
  /\ CASE n.count > 1 -> Panic("free_inode")
       [] n.count <= 1 /\ n.nlinks > 0 -> Panic("trying to free inode with links")
       [] OTHER -> /\ imap' = imap \ {n.num}
                   /\ Go(t, [inode EXCEPT ![r.i] = NoInode], Back(r))
                   /\ UNCHANGED <<zmap, dir, dinode, panic>>

-----------------------------------------------------------------------------
\* find_entry(), after its bread()
Find(n) == {e \in Entries : dir[e].ino # 0 /\ dir[e].name = n}

\* Where a system call goes once it has the inode of its name
AfterIget(op) == CASE op \in {"open", "O_TRUNC", "O_CREAT"} -> "opened"
                   [] op = "link" -> "namei"
                   [] op = "unlink" -> "unlink"
                   [] op = "rmdir" -> "rmdir"

\* open_namei(), sys_mknod() and the others, and namei() for sys_link(): the
\* directory is searched, then the inode is got, or made
FindEntry(t) ==
  LET r == task[t]
      e == Min(Find(r.name))
  IN
  /\ At(t, "find")
  /\ CASE Find(r.name) = {} /\ r.op \in {"O_CREAT", "mknod", "mkdir"} ->
            Go(t, inode, Call(r, "empty", "new_inode"))
       [] Find(r.name) # {} /\ r.op \notin {"mknod", "mkdir"} ->
            Go(t, inode, [r EXCEPT !.pc = IF r.op \in {"unlink", "rmdir"} THEN "empty" ELSE "found",
                                   !.de = IF r.op \in {"unlink", "rmdir"} THEN e ELSE 0,
                                   !.ino = dir[e].ino,
                                   !.stack = <<"iget", AfterIget(r.op)>>])
       [] OTHER -> Go(t, inode, Return(r.fd))
  /\ UNCHANGED disk

\* ... brelse() and iput(dir), between the search and iget(), or O_EXCL is set
Found(t) ==
  LET r == task[t] IN
  /\ At(t, "found")
  /\ \E excl \in IF r.op = "O_CREAT" THEN BOOLEAN ELSE {FALSE} :
       Go(t, inode, IF excl THEN Return(r.fd) ELSE Jump(r, "empty"))
  /\ UNCHANGED disk

\* open_namei() has the inode: the file is opened, and truncated first if
\* O_TRUNC is set (truncate() marks it in any case), or permission() refuses
\* it; a directory is only read
Opened(t) ==
  LET r == task[t]
      z == inode[r.i].zone
  IN
  /\ At(t, "opened")
  /\ \/ Go(t, inode, Put(r))
     \/ /\ ~(r.op = "O_TRUNC" /\ inode[r.i].isdir)
        /\ IF r.op = "O_TRUNC" /\ z # 0
           THEN Go(t, inode, [r EXCEPT !.pc = "free_block", !.z = z, !.fd = r.i])
           ELSE Go(t, [inode EXCEPT ![r.i].dirt = @ \/ r.op = "O_TRUNC"], Return(r.i))
  /\ UNCHANGED disk

\* namei() for sys_link() has the inode, and marks it; not of a directory
Namei(t) ==
  LET r == task[t] IN
  /\ At(t, "namei")
  /\ Go(t, [inode EXCEPT ![r.i].dirt = TRUE],
        IF inode[r.i].isdir THEN Put(r) ELSE Jump(r, "find2"))
  /\ UNCHANGED disk

\* sys_link(): find_entry() of the new name
LinkFind(t) ==
  LET r == task[t] IN
  /\ At(t, "find2")
  /\ Go(t, inode, IF Find(r.to) = {} THEN Jump(r, "add") ELSE Put(r))
  /\ UNCHANGED disk

\* add_entry(), and de->inode = inode->i_num; a full directory undoes it all
AddEntry(t) ==
  LET r == task[t]
      free == {e \in Entries : dir[e].ino = 0}
      name == IF r.op = "link" THEN r.to ELSE r.name
  IN
  /\ At(t, "add")
  /\ IF free = {}
     THEN /\ CASE r.op = "link" -> Go(t, inode, Put(r))
               [] r.op = "mkdir" -> Go(t, inode, Jump(r, "undo"))
               [] OTHER -> Go(t, [inode EXCEPT ![r.i].nlinks = @ - 1], Put(r))
          /\ UNCHANGED dir
     ELSE /\ dir' = [dir EXCEPT ![Min(free)] = [name |-> name, ino |-> inode[r.i].num]]
          /\ Go(t, inode, CASE r.op = "O_CREAT" -> Return(r.i)
                            [] r.op \in {"mknod", "mkdir"} -> Put(r)
                            [] r.op = "link"  -> Jump(r, "linked"))
  /\ UNCHANGED <<imap, zmap, dinode, panic>>

\* sys_link(): i_nlinks++, an unsigned char, after brelse() and iput(dir)
Linked(t) ==
  LET r == task[t] IN
  /\ At(t, "linked")
  /\ Go(t, [inode EXCEPT ![r.i].nlinks = (@ + 1) % 256, ![r.i].dirt = TRUE], Put(r))
  /\ UNCHANGED disk

\* sys_unlink(): the entry is cleared, or the caller may not do it
Unlink(t) ==
  LET r == task[t] IN
  /\ At(t, "unlink")
  /\ \/ /\ Go(t, inode, [Put(r) EXCEPT !.de = 0])
        /\ UNCHANGED dir
     \/ /\ ~inode[r.i].isdir
        /\ dir' = [dir EXCEPT ![r.de] = [name |-> NULL, ino |-> 0]]
        /\ Go(t, [inode EXCEPT ![r.i].nlinks = IF @ = 0 THEN 1 ELSE @],
              [r EXCEPT !.pc = "unlinked", !.de = 0])
  /\ UNCHANGED <<imap, zmap, dinode, panic>>

\* Slip: i_dirt is not set.
SlipUnlinked(t) ==
  LET r == task[t] IN
  /\ At(t, "unlinked")
  /\ Go(t, [inode EXCEPT ![r.i].nlinks = @ - 1], Put(r))
  /\ UNCHANGED disk

\* ... and i_nlinks--, after brelse(); rmdir() sets it to 0
Unlinked(t) ==
  LET r == task[t] IN
  /\ At(t, "unlinked")
  /\ Go(t, [inode EXCEPT ![r.i].nlinks = IF r.op = "rmdir" THEN 0 ELSE @ - 1,
                         ![r.i].dirt = TRUE], Put(r))
  /\ UNCHANGED disk

\* sys_rmdir(): the inode must be a directory that nobody else uses
Rmdir(t) ==
  LET r == task[t] IN
  /\ At(t, "rmdir")
  /\ Go(t, inode, IF inode[r.i].isdir /\ inode[r.i].count = 1 THEN Jump(r, "empty_dir")
                  ELSE [Put(r) EXCEPT !.de = 0])
  /\ UNCHANGED disk

\* ... empty_dir() has read its block, and the entry is cleared; or the block
\* cannot be read
EmptyDir(t) ==
  LET r == task[t] IN
  /\ At(t, "empty_dir")
  /\ \/ Go(t, inode, [Put(r) EXCEPT !.de = 0]) /\ UNCHANGED dir
     \/ /\ dir' = [dir EXCEPT ![r.de] = [name |-> NULL, ino |-> 0]]
        /\ Go(t, inode, [r EXCEPT !.pc = "unlinked", !.de = 0])
  /\ UNCHANGED <<imap, zmap, dinode, panic>>

\* _bmap(create) has no block for the file: sys_mkdir() and file_write() give up.
NoBlock(t) ==
  LET r == task[t] IN
  IF r.op = "mkdir" THEN Go(t, [inode EXCEPT ![r.i].nlinks = 0], Put(r))
  ELSE Go(t, inode, Return(r.fd))

\* Slip: the bit that is found is not set.
SlipNewBlock(t) ==
  LET r == task[t]
      free == Zones \ zmap
  IN
  /\ At(t, "bmap")
  /\ CASE inode[r.i].zone # 0 -> Go(t, inode, [r EXCEPT !.pc = "bread", !.z = inode[r.i].zone])
       [] inode[r.i].zone = 0 /\ free = {} -> NoBlock(t)
       [] OTHER -> Go(t, inode, [r EXCEPT !.pc = "getblk", !.z = Min(free)])
  /\ UNCHANGED disk

\* _bmap(create): the file has its block, or new_block() sets the first zero bit.
NewBlock(t) ==
  LET r == task[t]
      free == Zones \ zmap
  IN
  /\ At(t, "bmap")
  /\ CASE inode[r.i].zone # 0 ->
            Go(t, inode, [r EXCEPT !.pc = "bread", !.z = inode[r.i].zone]) /\ UNCHANGED zmap
       [] inode[r.i].zone = 0 /\ free = {} -> NoBlock(t) /\ UNCHANGED zmap
       [] OTHER -> /\ zmap' = zmap \cup {Min(free)}
                   /\ Go(t, inode, [r EXCEPT !.pc = "getblk", !.z = Min(free)])
  /\ UNCHANGED <<imap, dir, dinode, panic>>

\* ... getblk() has returned: i_zone[] is set.  A task that looked the block
\* up before it was freed may have its buffer by now: panic().  file_write()
\* finds the buffer, which is up to date.
NewBlockDone(t) ==
  LET r == task[t] IN
  /\ At(t, "getblk")
  /\ IF InUse(t, r.z)
     THEN Panic("new block: count is != 1")
     ELSE /\ Go(t, [inode EXCEPT ![r.i].zone = r.z, ![r.i].dirt = TRUE],
                IF r.op = "mkdir" THEN [r EXCEPT !.pc = "dir_block", !.z = 0] ELSE Jump(r, "copy"))
          /\ UNCHANGED disk

\* bread() of file_read() or file_write(): getblk() has found a buffer
GotBuffer(t) ==
  /\ At(t, "bread")
  /\ Go(t, inode, Jump(task[t], "copy"))
  /\ UNCHANGED disk

\* The bytes are copied, or the block could not be read; and brelse().  A file
\* that is written may grow.
Copied(t) ==
  LET r == task[t] IN
  /\ At(t, "copy")
  /\ \E grows \in IF r.op = "write" THEN BOOLEAN ELSE {FALSE} :
       Go(t, [inode EXCEPT ![r.i].dirt = @ \/ grows], Return(r.fd))
  /\ UNCHANGED disk

\* sys_mkdir(): the block of the new directory is filled, if it can be read
MkdirBlock(t) ==
  LET r == task[t] IN
  /\ At(t, "dir_block")
  /\ \/ Go(t, inode, Jump(r, "undo"))
     \/ Go(t, [inode EXCEPT ![r.i].nlinks = 2, ![r.i].isdir = TRUE, ![r.i].dirt = TRUE],
           Jump(r, "add"))
  /\ UNCHANGED disk

\* ... or free_block() and iput() of the inode, which still has the block
MkdirUndo(t) ==
  LET r == task[t] IN
  /\ At(t, "undo")
  /\ zmap' = IF InUse(t, inode[r.i].zone) THEN zmap ELSE zmap \ {inode[r.i].zone}
  /\ Go(t, [inode EXCEPT ![r.i].nlinks = 0], [Put(r) EXCEPT !.op = "mkdir"])
  /\ UNCHANGED <<imap, dir, dinode, panic>>

-----------------------------------------------------------------------------
\* The names that some task is making a system call about
Busy == {task[u].name : u \in Tasks} \cup {task[u].to : u \in Tasks}

\* A system call begins; n is its name, and link() adds the name m.
Start(t, op, n, m) ==
  /\ At(t, "out") /\ current = NULL
  /\ op \in {"open", "O_TRUNC", "O_CREAT"} => task[t].fd = NULL
  /\ IF op = "link" THEN m \in Names \ {n} ELSE m = NULL
  /\ "name" \in Races \/ {n, m} \cap (Busy \ {NULL}) = {}
  /\ Go(t, inode, [task[t] EXCEPT !.pc = "find", !.op = op, !.name = n, !.to = m])
  /\ UNCHANGED disk

\* sys_close() of the last descriptor
Close(t) ==
  /\ At(t, "out") /\ current = NULL
  /\ task[t].fd # NULL
  /\ Go(t, inode, [Idle EXCEPT !.pc = "iput", !.op = "close", !.i = task[t].fd])
  /\ UNCHANGED disk

SysWrite(t) ==
  /\ At(t, "out") /\ current = NULL
  /\ task[t].fd # NULL /\ ~inode[task[t].fd].isdir
  /\ Go(t, inode, [task[t] EXCEPT !.pc = "bmap", !.op = "write", !.i = task[t].fd])
  /\ UNCHANGED disk

\* file_read(); bmap() does not sleep, and a file without its block is zeros.
SysRead(t) ==
  /\ At(t, "out") /\ current = NULL
  /\ task[t].fd # NULL /\ inode[task[t].fd].zone # 0
  /\ Go(t, inode, [task[t] EXCEPT !.pc = "bread", !.op = "read", !.i = task[t].fd,
                                  !.z = inode[task[t].fd].zone])
  /\ UNCHANGED disk

\* One inode of sync_inodes()
Sync(t, s) ==
  /\ At(t, "out") /\ current = NULL
  /\ inode[s].dirt
  /\ Go(t, inode, [task[t] EXCEPT !.pc = "write", !.op = "sync", !.w = s])
  /\ UNCHANGED disk

Init ==
  /\ current = NULL
  /\ imap = {} /\ zmap = {}
  /\ dir = [e \in Entries |-> [name |-> NULL, ino |-> 0]]
  /\ dinode = [n \in Inos |-> [nlinks |-> 0, zone |-> 0, isdir |-> FALSE]]
  /\ inode = [s \in Slots |-> NoInode]
  /\ task = [t \in Tasks |-> Idle]
  /\ panic = "none"

Step(t) ==
  \/ WriteInode(t) \/ WriteInodeDone(t) \/ ReadInodeDone(t)
  \/ GetEmptyInode(t) \/ TakeEmpty(t)
  \/ Iget(t) \/ IgetWait(t) \/ NewInode(t)
  \/ Iput(t) \/ IputRepeat(t)
  \/ FreeBlock(t) \/ FreeInode(t)
  \/ FindEntry(t) \/ Found(t) \/ Opened(t) \/ Namei(t) \/ LinkFind(t) \/ AddEntry(t)
  \/ Linked(t) \/ Unlink(t) \/ Unlinked(t)
  \/ Rmdir(t) \/ EmptyDir(t)
  \/ NewBlock(t) \/ NewBlockDone(t) \/ GotBuffer(t) \/ Copied(t)
  \/ MkdirBlock(t) \/ MkdirUndo(t)

Next ==
  \E t \in Tasks :
    \/ Step(t)
    \/ \E op \in Ops \ {"close", "read", "write", "sync"}, n \in Names, m \in Names \cup {NULL} :
         Start(t, op, n, m)
    \/ Close(t)
    \/ "read" \in Ops /\ SysRead(t)
    \/ "write" \in Ops /\ SysWrite(t)
    \/ "sync" \in Ops /\ \E s \in Slots : Sync(t, s)

Spec == Init /\ [][Next]_vars

-----------------------------------------------------------------------------
Cached(n) == {s \in Slots : inode[s].num = n}

(***************************************************************************)
(* An inode of the disk is in the table at most once, however the tasks    *)
(* that look for it and sleep are interleaved (inode.c:270-330).           *)
(***************************************************************************)
OneInodePerNumber ==
  \A n \in Inos : Cardinality(Cached(n)) <= 1

\* The link count and the zone of the inode n: in the table, or on the disk.
\* While it is being read the table does not have them yet.
Content(n) ==
  LET S == {s \in Cached(n) : \A t \in Tasks : ~(task[t].pc = "read" /\ task[t].empty = s)}
  IN  IF S = {} THEN dinode[n]
      ELSE LET s == CHOOSE s \in S : TRUE
           IN  [nlinks |-> inode[s].nlinks, zone |-> inode[s].zone, isdir |-> inode[s].isdir]

\* Tasks at the label l, for the system calls ops, with the inode n
Working(n, l, ops) ==
  Cardinality({t \in Tasks : /\ task[t].pc = l /\ task[t].op \in ops
                             /\ task[t].i # NULL /\ inode[task[t].i].num = n})

(***************************************************************************)
(* The link count of an inode is the number of directory entries for it,   *)
(* through eviction from the table and writes to the disk, up to the links *)
(* that are just being made or removed (namei.c:732-737, 791-797,          *)
(* inode.c:240-247, 353-377); a directory has one more, its own ".".       *)
(***************************************************************************)
LinksExact ==
  \A n \in imap :
    Content(n).nlinks + Working(n, "linked", AllOps)
      = Cardinality({e \in Entries : dir[e].ino = n})
        + Working(n, "unlinked", AllOps) + Working(n, "add", {"O_CREAT", "mknod", "mkdir"})
        + Working(n, "getblk", {"mkdir"}) + Working(n, "dir_block", {"mkdir"})
        + Working(n, "undo", {"mkdir"}) + Working(n, "bmap", {"mkdir"})
        + IF Content(n).isdir /\ Content(n).nlinks > 0 THEN 1 ELSE 0

\* A mkdir() that failed has just freed the block of its inode for the first
\* time.
HalfFreed == \E t \in Tasks : task[t].op = "mkdir" /\ task[t].pc = "iput"

(***************************************************************************)
(* The bitmaps are right: no directory entry and no open file refers to an *)
(* inode that is marked free, an inode nobody refers to is not kept, no    *)
(* zone of a file is marked free, and none belongs to two files            *)
(* (bitmap.c:47-171, truncate.c:47-64, inode.c:192-204), until a mkdir()   *)
(* fails with a block.                                                     *)
(***************************************************************************)
BitmapsExact ==
  /\ imap = {dir[e].ino : e \in {f \in Entries : dir[f].ino # 0}}
            \cup {inode[s].num : s \in {r \in Slots : inode[r].count > 0 /\ inode[r].num # 0}}
  /\ HalfFreed \/ \A n \in imap : Content(n).zone \in zmap \cup {0}
  /\ \A n, m \in imap :
       Content(n).zone = Content(m).zone /\ Content(n).zone # 0 => n = m

(***************************************************************************)
(* None of the assertions of iput(), free_inode() and free_block() fails   *)
(* (inode.c:169, bitmap.c:70, 120, 123).  Two panics may come: of a full   *)
(* inode table (inode.c:238), and of new_block() (bitmap.c:98), for which  *)
(* see NewBlockIsFree.                                                     *)
(***************************************************************************)
NoPanic == panic \in {"none", "No free inodes in mem", "new block: count is != 1"}

(***************************************************************************)
(* Nobody has the buffer of a block that new_block() has found:            *)
(* 'panic("new block: count is != 1")' (bitmap.c:98-99).  This is not so   *)
(* if a reader has looked the block up and waits in getblk() for an unused *)
(* buffer, while open() with O_TRUNC frees the block.                      *)
(***************************************************************************)
NewBlockIsFree == panic # "new block: count is != 1"

(***************************************************************************)
(* free_block() frees a block once: 'panic("free_block: bit already        *)
(* cleared")' (bitmap.c:70) is for broken disks, not for a mkdir() in a    *)
(* directory that is full (namei.c:526-551).                               *)
(***************************************************************************)
FreedOnce == panic # "free_block: bit already cleared"

=============================================================================
