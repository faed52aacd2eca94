# A TLA+ model of the Linux 0.11 kernel

This directory models the kernel whose commented source is in `src/`: how tasks
sleep and are woken, how the processor is shared, how the disk, the buffer cache,
the inode table, mounted devices, pipes, terminals and memory stay consistent while tasks sleep in the
middle of everything, and how processes are born and buried. TLC checks the models on
small instances; TLAPS proves all of the safety properties among what TLC checks but those of
FileSystem and Tty, for every number of tasks and every size of the tables.

One fact shapes all the modules. The kernel runs on one processor and a task in
the kernel is never preempted (`do_timer()` returns when `cpl` is 0,
`kernel/sched.c:340`). What a task does between two points where it may sleep is
atomic with respect to other tasks, and only interrupt handlers come in between,
unless interrupts are off. So an action of the models goes from one sleeping point
to the next, and is split where an interrupt could change something it uses.

## 1. Inventory

| component | state | operations | hard behaviour | what makes it correct |
|---|---|---|---|---|
| wait queues (`kernel/sched.c:148-199`) | the word `*p` of each queue, `tmp` in every sleeper's frame, `state` | `sleep_on`, `interruptible_sleep_on`, `wake_up`, `pause` | the queue is spread over stack frames; `wake_up()` from interrupts; signals wake sleepers out of order; stale pointers to tasks that have exited | every sleeper is woken once `wake_up()` is called |
| scheduler (`kernel/sched.c:104-146, 337-406`, `kernel/system_call.s`) | `counter`, `priority`, `state`, `alarm`, `current` | `schedule`, `do_timer`, `nice`, `alarm`, fork, exit | recharging while others sleep, alarms seen only in `schedule()` | no runnable task starves; counters are bounded; alarms wake |
| block requests (`kernel/blk_drv/ll_rw_blk.c`, `blk.h`) | `request[]`, the sorted lists, buffer locks, `wait_for_request` | `ll_rw_block`, `make_request`, `add_request`, `end_request` | interrupts end requests while tasks insert them; a full pool; read-ahead | a lock has one owner; lists hold live requests, in elevator order; every request ends |
| buffer cache (`fs/buffer.c`) | buffer heads: block, count, lock, dirt, uptodate | `getblk`, `bread`, `breada`, `brelse`, `sync_dev` | `getblk()` sleeps at four places and must look again after each | one buffer per block; exact counts; no write is lost |
| memory (`mm/memory.c`) | `mem_map`, page directories and tables, page contents | fork, exec, exit, page faults, sharing, copy on write, `verify_area` | pages shared between tasks; out of memory half way; sleeping in a fault | counts are the references; a writable page has one owner; tasks do not see each other's data |
| processes (`kernel/fork.c`, `exit.c`, `signal.c`, `init/main.c`) | `task[]`: pid, father, signals, state; `last_pid` | fork, exit, waitpid, kill, sigmask, init's loop | pids reused; fathers dying first; signals racing sleep | one father each; no zombie missed; SIGKILL kills |
| pipes and descriptors (`fs/pipe.c`, `fcntl.c`, `open.c`) | `filp[]`, `file_table`, `i_count`, head, tail, page | pipe, fork, dup, dup2, close, exit, read, write | "`i_count != 2`" stands for "closed"; both ends share a wait queue; page faults while copying | bytes in order; nobody forgotten; end of file noticed |
| inodes, bitmaps, names (`fs/inode.c`, `bitmap.c`, `truncate.c`, `namei.c`) | `inode_table`, bitmaps, directory, inodes on disk | iget, iput, open, link, unlink, mknod, mkdir, rmdir, write, close, sync | every one of them sleeps between looking and changing | one table entry per inode; exact link counts and bitmaps; no panic |
| timers and motors (`kernel/sched.c:200-335`) | `timer_list`, `next_timer`, `current_DOR`, motor ticks | `add_timer`, `do_timer`, `floppy_on`, `floppy_off` | delta list and motors changed by interrupts and tasks | a timer that is set goes off; motors run when they are needed |
| hard disk (`blk_drv/hd.c`) | `do_hd`, `reset`, `recalibrate`, `CURRENT` | request function, read/write/recal interrupts | retries, resets, stale `CURRENT` | every request ends once |
| floppy (`blk_drv/floppy.c`) | `selected`, `reset`, `recalibrate`, `seek`, `do_floppy`, `CURRENT` | request function, timer functions, transfer, seek, recal and reset interrupts, `floppy_change` | timers, interrupts and a task that selects drives; retries, resets | a transfer is made on its drive, for its request; no request is left alone |
| superblocks and mounts (`fs/super.c`), path walks (`fs/namei.c:238-352`) | `super_block[]`, `i_mount`, `s_imount` | mount, umount, chdir, a changed floppy | sleeping between a check and what depends on it | a device in use stays mounted; counts on both sides are exact |
| terminals (`chr_drv/tty_io.c`, `rs_io.s`, `serial.c`) | three queues per tty, `proc_list` | `tty_read`, `tty_write`, `copy_to_cooked`, interrupts | queues filled and emptied by interrupts; canonical reads | no character lost silently; readers wake |
| exec (`fs/exec.c`) | the pages of the arguments, `executable` | `do_execve` | page faults while copying; sleeping with the new executable and the old memory | no page lost, no page of another program |
| malloc (`lib/malloc.c`), mktime, sys.c, traps, printing, console, boot, library | | | mostly sequential | |

The components call each other downwards: names -> inodes -> buffers -> requests ->
driver interrupts -> `wake_up()`; everything that waits does so in the wait queues
and gets the processor from the scheduler; processes sit on memory and on the
file descriptors. `PROJECT.json` lists every part with what is not modelled and
why, and under `hazards` the lines where something could go wrong that a test
would hardly reach.

## 2. Modules

A wait for a lock that is guarded by `cli()` (`wait_on_buffer`, `wait_on_inode`,
`lock_page`...) is a guard in every module but WaitQueue, which is where it is
shown (and proved) that such a sleeper is not forgotten. Where a sleep is not
protected in that way (`wait_for_request`) the queue is spelled out again.

**WaitQueue** - `queue[q]` is `*p`; `tmp[t]`, `wq[t]` and `pc[t]` are the frame of
a sleeping task. `SleepOn` ends right after `*p = current`; `SleepOnBlock` sets the
state and calls `schedule()`: between the two comes any interrupt that is not
masked (`InterruptsOn`, from the `cli()` of the callers). `SleepOnReturn` is
the part after `schedule()`. `IntSleepOn*` are the same for
`interruptible_sleep_on()`, with its `goto repeat`. `Exit` and `Release` free a
task structure that stale `tmp` pointers may refer to.

**Scheduler** - `schedule()` as a whole (alarms, signals, the scan, the recharge
loop), the timer interrupt in user and kernel mode, `ret_from_sys_call` with its
own reschedule, `nice()`, `alarm()`, fork, exit and `release()`. `alarm` is
relative to `jiffies`.

**BlkRequest** - `LlRwBlock`, `LockBuffer`, `MakeRequest`, `NoneFree`, `DropAhead`
are the parts of `ll_rw_block()`; `Interrupt` is the driver's handler that calls
`end_request()` and starts the next request; a RAM disk ends requests at once.
Blocks are numbered in the order of (device, sector).

**BufferCache** - the parts of `getblk()` between its sleeps, `bread()`, `breada()`
with its read-ahead, `sync_dev()`, the user of a buffer (`Modify`, `Write`, `Brelse`)
and the end of a transfer with or without an error. Of the contents the model knows
whether they are the newest.

**Memory** - `mem_map`, `dir` (page tables as pages of their own) and `pte`. Fork
copies tables and may run out of pages half way, exit frees them, faults
share, load or copy. `execve()` is cut where it sleeps: `CopyStrings` has the page of the
arguments, `CopyFault` is a page fault while they are copied, `NoReturn` sets the new executable,
`ChangeMemory` frees the old memory, `ClearRest` clears the end of the last page. `view[t]` is
a history variable: what the task itself has written, to compare with what it reads.
`misled` and `lost` remember that a task may have got the text of another, and which
pages nobody will free.

**Process** - slots of `task[]`; `Fork`, `SysExit` then `FinishExit` (closing files
may sleep), `WaitPid` and its wake-up, `Kill`, signals on the way out of a system
call, and init's program as two actions. `Handle` enters a handler with whatever `sa_mask` it was
given, from the signals of `sigaction()`, which does not look for SIGKILL in it; `Signalled` is the
test of `schedule()`, which does not let SIGKILL be blocked (`_BLOCKABLE`), and `DoSignal` the way
out of a system call, which does.

**PipeAbs**, **Pipe** - PipeAbs is what a pipe promises: bytes sent and bytes
received in the same order, never more than a page less one between them, an
early return only when the other end has no descriptor. Pipe has the descriptors
of the tasks, `file_table`, `i_count`, head, tail and the bytes of the page, and is
shown to implement PipeAbs.

**FileSystem** - one directory, the inode table, the two bitmaps and the inodes on
the disk. A system call is a record with a label and a stack of labels to return
to, so that `get_empty_inode()`, `write_inode()` and `iput()` are one action each
wherever they are called from. A `read()` sleeps in `bread()` at two places: in `getblk()`, when it knows the block
and has no buffer of it yet (`bread`), and for the disk, when it has the buffer (`copy`);
`InUse` says which zones somebody has the buffer of, which is what `free_block()` and `new_block()`
test with `b_count`. `mkdir()` and `rmdir()` make and remove directories that stay
empty; `MkdirUndo` is the way back of a `mkdir()` that fails when it has its block. `Races` says
which meetings the environment allows: with `{}` no two system calls are about one name at a
time, and `sync_inodes()` does not come upon a file that is being deleted.

**Mount** - `super` is `super_block[]`, `inode` the inodes on both sides of the mount points, and
`task[t]` has a label for every place where a system call may sleep. `Mount`, `MountCheck`,
`CheckDiskChange`, `PutSuper`, `Invalidate`, `GetSuper`, `LockSuper`, `ReadSuper` and `MountOn` are
`mount()` from one sleep to the next, `Umount`, `UmountCheck`, `Unmounted` are `umount()`;
`Chdir`, `FindEntry`, `Iget`, `OverMount`, `Up` and `ChdirDone` walk into a device and out of it.
`raced` remembers that one of the meetings has happened against which the code does nothing.

**HardDisk** - `do_hd_request()` and the interrupt functions over a controller that may
succeed, fail or be slow. `pc["task"]` and `pc["irq"]` are the two contexts in which
`do_hd_request()` runs: from `add_request()` with interrupts on, and from the
interrupt with interrupts off. `Repeat` is the function from its label `repeat`,
`Poll` the wait for `DRQ_STAT`; `reset` and `recalibrate` are the flags of the source. A NULL
`CURRENT` that is written through is the page directory, at address 0; one that is only
read has an entry of it as `errors`. `late` remembers that a write command failed or
was given up before the controller had asked for data.

**Floppy** - the functions of `floppy.c` call one another from interrupts, timers and tasks; each is
an operator from a state (a record of all variables, `Now`) to a state, and an action applies one
of them. `timers` is the delta list of `add_timer()`; `DoTimer` counts down, `FireTimer` is one round of
its loop; `DoFloppyTimer` turns motors off and wakes. `ctl` is the controller, which seeks,
executes, may fail to take or give bytes and answers within `Answer` ticks. The task in
`floppy_change()` is cut at its tests and sleeps. A handler is one step: the gate of
the floppy interrupt is a trap gate (`floppy.c:460`) and `do_fd_request()` in a task runs with
interrupts on, and what comes in the middle of a handler is left out.

**Tty** - a serial terminal. `Type` is the receive interrupt with all of
`copy_to_cooked()`: the conversions, erase and kill, signals and the echo. `WriteChar` is
the transmit interrupt. `tty_read()` is cut at every look at the queue, since
the interrupt may come between a look and the `GETCH()`; `tty_write()` likewise.
`cpu` is the task in the kernel: a task that loops without sleeping keeps it. `SetTermios`
and `Flush` are the ioctls; the former changes the characters of `c_cc` too, with which characters are compared
that were queued and counted under the old ones (`recoded` remembers that VEOF was changed so that
it made a difference). `blocked` is the signal mask of the tasks: `schedule()` wakes a sleeper for a
signal that is not in it (`Dispatch`), while `tty_read()` and `tty_write()` look at all signals. A writer to another terminal is there as `OtherTerminal`,
because it shares `cr_flag`.

The theorems of a module `M` are in `MProofs`, which extends it (section 4); those of HardDisk are in
`BlkRequestProofs`, those of WaitQueue and Scheduler, the two halves of `kernel/sched.c`, in `SchedProofs`.

MC modules add the symmetry sets, the views, the bounds of what is explored and the constants that
a configuration cannot write; MCBlockDevices puts BlkRequest and HardDisk, which share no state, in one
specification, of which a behaviour is about one or the other; MCScheduler is Scheduler with other names for
its variables, so that `SchedProofs` can extend it together with WaitQueue. Operators whose names begin with `Slip` are
variants of a definition with a plausible mistake: put in its place, the property
they are listed with in `PROJECT.json` fails.

## 3. Runs

| run | instance | shows |
|---|---|---|
| `wq` | 2 tasks, one queue of each kind, interrupts on both | `TypeOK`, `NoStrandedSleepers`, and under fairness `AllSleepersReturn` |
| `wq_int_lost` | 2 tasks, 1 interruptible queue | violated: `interruptible_sleep_on()` can lose a sleeper |
| `sched` | 2 tasks, priorities 1..2, alarms | `CounterBound`, `NoStarvation`, `AlarmWakes` |
| `blk` | request lists: 1 task and 3 blocks of a disk with read-ahead, or 2 tasks, 2 blocks and one of a RAM disk, 3 requests; or the hard disk driver: 2 requests of 2 sectors, reads and writes, in, at the end of and outside the partition, `MAX_ERRORS` 7 | `OneOwnerPerLock`, `OneSweepAhead`, `EveryRequestEnds`; `SameRequest`, `WholeBlocks`, `DiskGoesOn` |
| `cache` | 2 tasks, 2 buffers, 3 blocks, 1 failing block | `OneBufferPerBlock`, `CountsAreExact`, `Coherent` |
| `mem` | 3 tasks and 8 pages, or 2 tasks and 10; 2 page tables of 1 entry, 2 executables | `CountsAreReferences`, `WritableIsPrivate`, `DataIsPrivate` |
| `proc` | init and 2 tasks, 4 pids, SIGKILL and SIGCHLD | `OneFather`, `NoZombieMissed`, `WaitEnds`, `KillKills` |
| `pipe` | 2 tasks, 2 descriptors, 2 files, a page of 4 bytes, transfers of 1 and 3, 5 bytes sent, one task may fault | `InOrder`, `NoForgottenSleeper`, `ClosedPipeReturns`, `IsPipe` |
| `fs` | 2 tasks, all of the system calls, 3 table entries, 2 inodes, 1 zone, 2 directory entries, 2 names, files and directories | `OneInodePerNumber`, `LinksExact`, `BitmapsExact`, `NoPanic` |
| `mount` | 2 tasks, 3 floppies, 2 super blocks, 2 directories to mount on | `CountsExact`, `MountSafe` |
| `floppy` | 2 drives of 2 tracks, 2 requests, `MAX_ERRORS` 2, one failure of the controller to take or give bytes, or one or two calls of `floppy_change()` | `TransferReady`, `MovedForCURRENT`, `NeverIdle`, `ChangeIsWoken` |
| `tty` | a reader or a writer, queues of 1, 2 and 3 characters, transfers of up to 2: a reader with 3 modes; or with 2 values of VEOF; or that may block SIGALRM; a writer with 2 modes that may block SIGINT | `LinesExact`, `LineIsRead`, `ReadTimesOut`, `WriteReturns` |

### Why the bounds are enough

The races are between a task that sleeps and one that does something meanwhile, so
two tasks meet in each of them; a third adds nothing to a pair but is there in
`mem` (a page shared by three, of which two exit) and `proc` (grandfather, father,
child). The resources are as few as make each shortage happen: fewer buffers than
blocks, so that a buffer changes its block while somebody waits for it; three
requests, two of which writes may take, so that the pool fills; eight pages, so that every
allocation of a fork, an exec or a fault can be the one that fails, and ten for two tasks, the first of
which does not exit, so that both have all their memory while one of them executes a program; four pids for
three tasks, so that pids come round while old ones are in use; a page of four
bytes and transfers of three, so that the ring wraps in the middle of a transfer;
three table entries for two inodes and an `empty`, so that inodes are evicted and
read again, and the table fills (`panic("No free inodes in mem")`, which `NoPanic`
allows, as it does that of `new_block()`, see section 5). Counters that would grow for ever are bounded: `MaxPriority`, `MaxAlarm`,
`MaxFailures`, `MaxSent`, `MaxPid`, `MaxQueue`, `MaxCount`, and in Floppy what is left in `setup`.

`blk` has the error limit of `hd.c`, so that a request meets every count of errors,
the reset after half of them and the end; the second request is what `CURRENT` becomes. In
`tty` the marks 128, 256 and 20 of the queues of 1024 characters are scaled to
2, 1 and 0 of queues of 4 and 3, which keeps their order; the secondary queue fills, so that
characters stay behind in `read_q`. A reader and a writer together have too many states;
they meet only in the processor, which is why `Spins` is an exception in `WriteReturns`. VEOF
is changed once in such a way that the number of line ends in the queue changes, so that `data` stays bounded;
what is typed and which signals are blocked is bounded in each of the four cases.
In `floppy` the ticks until a motor is up to speed, a drive is selected and a motor is
turned off (50, 2 and 300) are 3, 2 and 7, which keeps their order, and the controller
answers before a motor goes off. Two calls of `floppy_change()` can select another drive and then that of
the request again, after which the drive is not ready for `Select` ticks. `TypeOK` is defined in every module and listed in `wq`,
where it is proved as well; it holds in the other runs too.

Four of the runs stop where their properties do: `mem` at the first text that may be that of
another task (`misled`), `floppy` at the first request that is begun twice (`twice`), `mount` at the first of
the meetings it excludes (`raced`), `fs` at the first `mkdir()` that frees its block itself. What
follows is in section 5.

`cache`, `mem`, `fs` and `mount` use symmetry, which is sound for the invariants
they check; the liveness properties of `blk` are checked without. `mem` uses a VIEW that forgets
page numbers: every formula of Memory depends on pages only through who refers to them, their
counts and their contents, all of which the view keeps. (`TypeOK` is part of the view only to have TLC
evaluate the functions of a state before it stores them.) The VIEW of `fs` leaves out what the disk has
for inodes that are free, or dirty in the table: it is overwritten before anybody reads it.

### Fairness

* WaitQueue: a task that may go on in the kernel does (WF of `Progress`: nothing
  preempts it), and a task that is runnable again and again is dispatched in the
  end (SF of `Dispatch`). The latter is `NoStarvation` of Scheduler.
* Scheduler: no task blocks SIGALRM (of one that does, `AlarmWakes` says nothing). The timer ticks, task 0 calls `pause()`, and tasks leave the kernel.
  No fairness of `schedule()` itself is assumed: it is what is being checked.
* BlkRequest: a disk with a request interrupts in the end; a task with work to do
  in the kernel does it.
* Process: init goes on, tasks that are woken go on, a task other than init with a
  signal gets to its return path (SF, from `NoStarvation`: others may wake and run before it).
  Nobody sends a signal to init but the kernel its SIGCHLD, for which nothing is assumed: `KillKills` is about the others.
* Pipe: SF of a task's steps in the kernel, for the same reason.
* HardDisk (the case `Driver` of `blk`): the controller answers a command and asks for data in the end, a pending
  interrupt is taken, and code in the kernel goes on. That it asks in time is
  not assumed.
* Tty: the line takes characters while its interrupt is enabled (WF), code in the kernel
  goes on (WF), a runnable task is dispatched and an alarm is noticed by one of the
  calls of `schedule()` (SF: both wait for the processor to be free).

### Where deadlock is not checked

`blk`: a task that missed the wake-up of `wait_for_request`
sleeps until the next request ends, and none may come; and a controller that is not ready ends in
`panic()`. `cache`: two `breada()` calls each hold a
buffer and wait for another. `mem`: all tasks may have exited. `proc`, `pipe`:
all tasks may sleep, for example a reader that holds the only write end itself. `fs`:
a full inode table ends in `panic()`, and so does a new block that somebody else has the buffer of.
`tty`: nothing is modelled after a queue was read past its end.

## 4. What is proved

Each module that is proved about has a module of proofs that extends it. The theorems are for every
value of the constants that the ASSUMEs allow; they rest on inductive invariants, since what the runs
check is seldom inductive by itself.

### WaitQueue

`SchedProofs` proves, for any sets of tasks and queues, whichever queues are
interruptible, protected by `cli()` or woken by interrupts:

* `TypeCorrect`: `Spec => []TypeOK`;
* `NoSleeperIsStranded`: `Spec => []NoStrandedSleepers`: every non-empty set of tasks
  asleep in `sleep_on()` on a queue has a member that something outside the set will
  wake, the head of the queue or the `tmp` of another task in its frame. It is
  about the queues whose sleepers disable the interrupts that wake them
  (`SafeQueues`); of the others it is false.

`NoStrandedSleepers` speaks of all sets of sleepers, since the pointers that keep a
task reachable form a chain through frames, and a cycle of sleepers would
satisfy a property about single tasks. The inductive invariant, `WaitInv`,
is `TypeOK`, `NoStrandedSleepers` and `EnteringInv`: a frame is about a queue; a task
between `*p = current` and its `schedule()` has the processor and, on a safe queue, is
still the head (so that a `wake_up()` cannot have overlooked it); the task that has
the processor is running; a task that has exited is in no frame. The last two are
needed where a stale `tmp` writes `state = 0` on a task. The proof has a step per
action; the interesting ones are `SleepOn` (the new head refers to the old one),
`WakeUp` (the head is cleared, but the task it referred to runs again and leaves the
set of sleepers, so that its `tmp` counts) and `SleepOnReturn` (the task wakes the one
it refers to before its frame goes). It rests on the two assumptions on the constants
in `WaitQueue.tla` and on nothing else.

### Scheduler

The second part of `SchedProofs`, for any number of tasks, priorities and alarms: `CountersBounded`
(`CounterBound`: no counter reaches twice the largest priority, although a sleeper's counter
grows at every recalculation) and `OnlyRunnableRuns` (the task that has the processor is
running). The invariant is `SchedInv`: `TypeOK`, `CounterBound` and `CurrentRuns`. That the
halved counter plus a priority stays below the bound is arithmetic; that the scan of `schedule()` finds
a task with the largest counter uses that a set of numbers has a least element (from
`WFMin` of the library), as do the arguments about a free pid in Process, the place of a request in
BlkRequest and the lowest free descriptor in Pipe.

### BufferCache

`BufferCacheProofs`, for any finite set of tasks and any numbers of buffers and blocks:

* `NoTwoBuffers` (`OneBufferPerBlock`) and `CountsExact` (`CountsAreExact`). `CacheInv` adds
  to the two what a task's local variables are at each place where it may sleep (`LocalsInv`)
  and that only a buffer with a block is transferred (`TransferInv`). The step that matters is
  the end of `getblk()`: it looks in the hash table once more after its last sleep, and from
  there to the insertion nothing sleeps.
* `NoLostWrite` (`Coherent`), for the operations of `OrderedOps`. These are all but two:
  `file_write()` sets `b_dirt` before it copies, and `block_write()` leaves `b_uptodate` alone, and
  with these the property is false. The run `cache` has operations of `OrderedOps`
  only. `ContentsInv` adds that a block without a buffer is right on the disk, and that what
  `bread()` returned stays up to date while it is held, which is where `CountsAreExact` is used: a
  buffer that somebody holds is not given to another block.

### Process

`ProcessProofs`, for a task table of any size, any set of signals, and more pids than
tasks (32767 and 64 in the source; otherwise `find_empty_process()` would not return):
`EveryoneHasOneFather` (`OneFather`) and `FathersAreTold` (`NoZombieMissed`). `ProcInv` is `TypeOK`,
`InitLives` (nobody can kill the task that orphans are given to), `PidsDiffer` (no two tasks, zombies
included, have the same pid, although pids come round), `FatherLives` and `ZombieTold`. The last is about
every place of a task in `waitpid()`, and implies the property about those asleep.

### BlkRequest

`BlkRequestProofs`, for any tasks, devices, at least one block and at least one request:
`EveryLockHasOneOwner` (`OneOwnerPerLock`), `ElevatorSweeps` (`OneSweepAhead`), `ListsAreGood` (each request in
use is on one list once, that of its device) and `ReadsHaveRoom` (writes do not take the last third of the
table). `BlkInv` has a conjunct for each of these. `OneSweepAhead` is inductive only as
`OneTurnEach`, which counts the places of a list where the order of `IN_ORDER` is broken: `add_request()`
inserts either in order or at such a place, so that there is never a second one.

### HardDisk

The second part of `BlkRequestProofs`, which extends MCBlockDevices for its instance `Hd` of HardDisk, for lists
of requests of any length: `DriverMeansCURRENT` (`SameRequest`) and, from the same invariant, the action property
`BlocksAreWhole` (`WholeBlocks`). `HdInv` is the types and, as long as no write was given up (`~late`),

* `OneContext`: a context in `do_hd_request()` is the only one, and finds the controller done, idle or waiting
  for the first sector of a write, so that the interrupt cannot come in between;
* `Answers`: if `do_hd` names a function the controller is at work or its interrupt is pending, and if it
  names none neither is so;
* `MeansCURRENT`: the command and the number of sectors that the controller has left are those of `CURRENT`.

The step that matters is the end of a request in `bad_rw_intr()` or after the last sector: `CURRENT` becomes another
request while `do_hd` still names a function, but the same handler then begins the next request or finds none.

### Pipe

`PipeProofs`, for any finite set of tasks, any tables, a page of at least 2 bytes and any counts:

* `CountsAlwaysMatch`: `f_count` is the number of descriptors and `i_count` the number of files. With
  this the test `i_count != 2` of `read_pipe()` and `write_pipe()` is the question
  whether the other end is closed;
* `BytesInOrder` (`InOrder`) and `NobodyForgotten` (`NoForgottenSleeper`);
* `PipeImplementsAbs` (`IsPipe`): the specification implies that of `PipeAbs`, which has
  no fairness. Each action is a step of the abstract pipe or leaves it alone.

`PipeInv` is `Types`, `DeadHasNothing`, `CallsGoOn`, `Tables` (the counts), `Ring` (the head is as far
ahead of the tail as bytes were sent and not received) and `InStep` (every byte between tail and head is at its place, and a
task in the middle of a transfer knows where it is, until a fault tears the two apart). `Types` leaves
out the bound `MaxSent` of `TypeOK`. It is about a fold over the calls under way,
of which the prover knows nothing, and nothing else needs it.

### Memory

`MemoryProofs`, for any finite sets of tasks and addresses, any number of page tables, any memory, at
least one text page and one executable: `PagesAreCounted` (`CountsAreReferences`),
`WritersAreAlone` (`WritableIsPrivate`) and `DataStaysPrivate` (`DataIsPrivate`). `MemInv` is

* `Types`;
* `Shape(t)`: which pages a task holds, by what it does, since a page in the hands of a page
  fault or of an exec is counted in `mem_map[]` and in no table;
* `Tabled(t)`: a present entry has a page table;
* `Counted`: `mem_map[]` is the number of references, and a lost page has none;
* `Sharing`: two places refer to one page only if both are write-protected entries.

A reference is a pair of a task and one of its places (`Pointers`), and `Refs` the size of a set of such pairs.
An action changes the places of one task, or of two for `try_to_share()` and `fork()`. `RowStep`
says that if `mem_map[]` changes by as much as the number of one task's places (`Balanced`),
`Counted` goes on; `LocalStep`, `QuietStep` and `PlacesStep` are its forms for one place, for none and for whole
tables; each action has a lemma that shows it to be such a step. `Sharing` is needed with
`Counted`: `un_wp_page()` decides from `mem_map[] == 1` that it is alone, and what is alone stays so
only because every copy of an entry is made after it was protected.

`DataIsPrivate` needs, beside `MemInv`, `DataInv`: all entries with one page are for one address
(`OneAddress`, so that a write that misleads can only be to text); what a task has not
written is clear or as in its executable (`Unwritten`, which is what a page fault puts there, and what
`try_to_share()` takes from a task with the same executable, but for one that has changed
it and not yet its memory); what `write_verify()` found stays so outside the text (`Verified`); and the pages
in the hands of a page fault and of an exec have what will be mapped (`InHands`). A store is
to a page with one reference by `Sharing`, and else it is the write to shared text of which `misled` tells.
The theorem says no more of text than the property: nothing once `misled` is true.

### Mount

`MountProofs`, for any finite set of tasks, any devices and directories and any finite `super_block[]`:
`CountsStayExact` (`CountsExact`) and `MountsAreSafe` (`MountSafe`). Both follow from `MountInv`: as long as
none of the meetings has happened that `raced` stands for, `Good`, of which TLC checked each part before it was
proved. Its parts are

* `Types` and `TasksOK`, which says of a task's record what its place implies: which of the inodes are in
  hand (`Locals`), where an `iput()` returns to (`Places`), which system call it is in (`Calls`);
* `KeepsProcessor`: at the places between which and the next step nothing sleeps, no other task runs. The mount
  point that `..` leads to, and the way from one `iget()` to the next at a mount point, are safe for this reason;
* `OneEach`, `MountedOK`: devices, super blocks and marked directories belong to each other one to one;
* `BeingRead`, `OwnEntry`: an entry whose bitmaps are not read yet is locked, or about to be, by the one task
  that reads them;
* `OwnDirectory`: the directory of a `mount()` behind its check (`i_count == 1`) is that of no other `mount()` and of
  no super block, so that it may be marked after all the sleeps of `read_super()`;
* `Unmounting`: behind the checks of `umount()` nobody is on the device, its directory is not marked, and the
  reference that is put is that of the super block;
* `OnItsWay`, `MountPointThere`, `UsedIsMounted`: a device that a task uses or is about to use stays mounted;
* `Exact`, the equation of `CountsExact`.

`OwnDirectory` needs the counts (a second `mount()` of the directory would be a second reference), the counts need
`Unmounting` (whose reference is put?) and that needs `UsedIsMounted`, so that no part is inductive without
the others. For the counts a reference is a pair of a task and one of its variables (`Holders`), and `HoldersStep` reduces the
change of its cardinality to four terms of the one record that changes (`Held`). A step that changes only its task's record, or flags
of inodes, is an instance of `PlainWalk`; `umount()`, `mount()` and the entries of `super_block[]` have lemmas
of their own, and each action has one (`...Keeps`).

### Floppy

`FloppyProofs`, for any drives, tracks, requests, errors and delays, any failures of the controller and any number
of calls of `floppy_change()`: `RequestsAreMoved` (`MovedForCURRENT`), `SomebodyGoesOn` (`NeverIdle`),
`SleepersAreWoken` (`ChangeIsWoken`) and `TransfersAreReady` (the action property `TransferReady`). They follow from
`FloppyInv`, of which TLC checked each part before it was proved: the types, `NeverIdle`, and

* `Woken`: `ChangeIsWoken`, and the same of a task that has decided to sleep and does not sleep yet;
* `Positive`: outside of a tick the first timer is not due;

and, as long as no request was begun twice (`~twice`),

* `Sound`: at most one timer, which is for `CURRENT`, and none during a seek or a transfer; what the controller
  transfers is `CURRENT`. This is not true after a request was begun twice, see section 5;
* `Prepared`: when the timer fires, or the seek is done, the drive will be ready. The motor has at most as
  many ticks left as the timer (`mon <= jiffies`), or no more than a drive needs to be selected; and whoever calls
  `floppy_off()` for the drive meanwhile, `moff` is large enough for it to stay on until then:
  `Off - Spin` and the delay of the timer before the drive is selected, `Off - Spin - Select` and the delay after it,
  and less the age of the controller's answer during a seek (`SeekPrepared`). In the middle of a tick the list of timers
  has been counted down and the motors have not, so that the bound is one more (`n`).

The functions of `floppy.c` are functions from states to states in the model, and most lemmas are about one of
them: `StartCURRENTKeeps`, `DoFdRequestKeeps`, `BadFlpIntrKeeps` and others say what it leaves of the parts of the
invariant, so that the lemma of a handler follows the calls in it. The place that `add_timer()` finds is a
minimum and the delay there is the value of a recursive function (`left`), whose values are shown to be natural numbers by
the least counterexample (`LeftProperties`). The `moff` bounds need `Select < Spin` and `Spin + Select + Answer < Off`: 2, 50 and 300 in
the source, which leaves the controller more than two seconds to answer a seek.

### Assumptions

The proofs use the ASSUMEs of the modules, which TLC evaluates in the runs, and nothing
else. Those that are there for a proof: the sets of tasks (and in Memory of addresses) are
finite, as `NR_TASKS` is, since otherwise their number is not defined; `NrBlocks` is
not 0, and Memory has a text page and an executable, without which the types of the task
records are empty; `NULL` is not a task, a file or a block. In Mount (`MountAssumption`) tasks and super blocks are
finitely many, `NULL` is none of the values, the root device is none of those that are mounted (its super
block is read at boot and never put), and directories to mount on are not the root directory. In Floppy
(`FloppyAssumption`) the delays are in the order of those of the source. The ASSUMEs of Scheduler are in MCScheduler,
which the run `sched` is about.

### Only model-checked

Liveness (`AllSleepersReturn`, `NoStarvation`, `AlarmWakes`, `EveryRequestEnds`, `DiskGoesOn`, `WaitEnds`,
`KillKills`, `ClosedPipeReturns`, `LineIsRead`, `ReadTimesOut`, `WriteReturns`) is out of the
prover's reach. `LinesExact` and what `copy_to_cooked()` does in one interrupt are folds over queues: what a
fold computes is shown by induction over data, which the provers cannot do. The properties of FileSystem
(`OneInodePerNumber`, `LinksExact`, `BitmapsExact`, `NoPanic`) are only model-checked: see the end of section 7.

## 5. What TLC refutes

The run `wq_int_lost` ends in a violation, with a finding in `PROJECT.json`:
`interruptible_sleep_on()` loses a sleeper (`kernel/sched.c:183`): a woken task that finds a
newer sleeper at the head wakes that one and goes back to sleep, and nothing
refers to it any more.

The following are stated in the modules, or obtained by changing a constant or
dropping a condition, and have no run of their own:

* BufferCache with `Ops = {"bread", "block_write"}`: `Coherent` fails. `block_write()` of a whole
  block takes the buffer with `getblk()` and sets `b_dirt` but never `b_uptodate`
  (`fs/block_dev.c:27-40`); the next `bread()` reads the old contents over it.
* Memory: without `misled` `DataIsPrivate` fails, in three ways. `un_wp_page()` makes the new entry
  `new_page | 7` (`mm/memory.c:246`), without the dirty bit on which `try_to_share()` relies; a task that
  faults on the address before the store sets it shares the changed page. A system call that has
  verified an address writes there later, when the page is shared again, and the 386 does not
  stop it (`memory.c:277-282`). And a task in `execve()` sets its executable before it frees its old memory
  (`fs/exec.c:373-381`): others that run the new program share pages of the old one.
* Memory: without `lost` `CountsAreReferences` fails: a page fault in `copy_strings()` that finds no memory
  ends the task, and its argument pages are never freed (`exec.c:172-180`).
* Floppy with `Setups <- TwoDrives` and without the constraint `Once`: `CURRENTIsUsed` fails. A recalibration
  that was begun for a request that is given up is still under way when the next request
  sets its timer; its `recal_interrupt()` calls `do_fd_request()` (`floppy.c:350`) and the request is begun
  twice. The second timer finds the list empty, and `transfer()` uses a NULL `CURRENT`.
* Floppy: without `missed` `ChangeIsWoken` fails: `ticks_to_floppy_on()` ends with `sti()`
  (`kernel/sched.c:233`), so that the `cli()` of `floppy_on()` does not protect its `sleep_on()`, and
  `floppy_change()` has no `cli()` at all. The task sleeps until something else wakes it.
* Floppy with `mon[d] <= 1` in place of `mon[d] <= Select`: `TransferReady` fails. The task in `floppy_change()` calls
  `floppy_on()` for another drive and then for that of the request, while the motor of that one spins up and `selected` is
  not set yet (`sched.c:221-230`). The drive has been selected again for less than the 2 ticks that `ticks_to_floppy_on()`
  asks for when `floppy_on_interrupt()` finds it selected (`floppy.c:408`) and begins the transfer at once.
* FileSystem with `Ops = {"mknod", "mkdir"}` and without the constraint: `FreedOnce` fails. `mkdir()` in a
  full directory frees the block of the new inode, and `iput()` of the inode truncates it
  and frees it again (`fs/namei.c:545-549`).
* Mount: without `raced` `MountSafe` fails, in several ways: a second `umount()` passes the checks while the first
  sleeps in `iput()` of the mount point (`fs/super.c:193`); `umount()` passes them while a walk is
  between two inodes of the device (`namei.c:286`), and `iget()` then finds no super block; `mount()` takes an
  entry of the table that `put_super()` has given up but not unlocked yet (`super.c:114`); the
  disk is changed in a drive that is in use, and `invalidate_inodes()` takes the device of inodes that
  tasks hold (`inode.c:55`).
* Process: `KillIsNeverBlocked` fails. `sys_sigaction()` takes `sa_mask` from the user as it is (`kernel/signal.c:73-80`) and
  `do_signal()` adds it to `blocked` (`:128`), SIGKILL too; the way out of a system call then passes
  over SIGKILL (`system_call.s:112-117`), although `schedule()` wakes the task for it. The task ends only when it
  unblocks the signal, which its `sa_restorer` does, or any `ssetmask()`. `KillKills` therefore says "ends, or is in user mode
  with SIGKILL blocked".
* FileSystem: `NewBlockIsFree` fails. A reader knows the zone of a file from `bmap()` and waits in `getblk()` for an unused
  buffer; an `open()` with O_TRUNC frees the zone, whose buffer nobody has yet (`fs/bitmap.c:58-63`); the reader gets its
  buffer and waits for the disk; a writer is given the zone by `new_block()`, finds `b_count` 2 and panics (`bitmap.c:98`).
  `NoPanic` allows it.
* HardDisk: without `~late` `SameRequest` fails. A write that is given up after the poll for
  `DRQ_STAT` leaves `do_hd` and the command as they are (`hd.c:377-380`); its interrupt
  comes when `CURRENT` is another request, or NULL.
* HardDisk: an error in the second sector of the last block of a partition ends the
  request at once, because the check for room asks for two sectors (`hd.c:338`).
* Tty: without `Spins` `ReadTimesOut` fails: a canonical read with part of a line in the
  queue loops without sleeping, and no alarm is noticed (`tty_io.c:257`).
* Tty: without `underrun` `LinesExact` fails: an erase or kill takes away the character that
  the reader has seen, and `tail` passes `head` (`tty_io.c:263`).
* Tty: without `recoded` `LinesExact` fails: a character that was queued as a plain one is taken as the end of a file when
  VEOF has become that character, and `data` is counted down for a line that was never counted, or the other way round
  (`tty_ioctl.c:66-74, 109-110`, `tty_io.c:211, 264`).
* Tty: without the condition on `blocked` `ReadTimesOut` fails: `tty_read()` sets its timeout as an alarm (`tty_io.c:243-246`), and
  `schedule()` does not wake a task for a SIGALRM that it blocks (`sched.c:121`). The read with VTIME sleeps until a character comes.
* Tty: without its first condition `ReadTimesOut` fails after a change of VEOF: with `data` off, a character that always
  comes when the reader has seen an empty queue and is erased before it looks again keeps it from sleeping.
* Tty: without its second condition `WriteReturns` fails: a writer to another terminal clears
  `cr_flag` and the carriage return is written again, any number of times (`tty_io.c:294`).
* FileSystem with `Races = {"name"}`: `NoPanic` fails. `unlink()` drops the last reference
  and sleeps in `truncate()`; an `open()` that read the directory entry before
  gets the inode from `iget()`; `free_inode()` finds `i_count` 2 and panics
  (`fs/bitmap.c:118-121`).
* FileSystem with `Races = {"sync"}`: `LinksExact` fails. `sync_inodes()` has the inode
  locked and sleeps in `write_inode()` while the file is deleted; `free_inode()`
  clears the entry, lock included, another inode moves in, and the write ends
  on that one.
* FileSystem: two writers of one empty file may both call `new_block()`, and the
  first zone is lost; `free_block()` of a buffer in use loses the zone as well.
  `BitmapsExact` therefore does not say that every allocated zone has an owner.
* BlkRequest: `ReadsBeforeWrites`, the comment of `blk.h:36-38` taken literally, fails:
  a read with a higher sector than the write at the head of the list is sorted in behind
  later writes of the same sweep.
* BlkRequest: `WaiterIsFound` fails. A task found no free request, the last one
  ends in an interrupt, and only then does the task sleep on `wait_for_request`
  (`kernel/blk_drv/ll_rw_blk.c:149`). It is woken when the next request ends.
* BufferCache with `file_write`: `Coherent` fails, since `b_dirt` is set before
  the bytes are copied (`fs/file_dev.c:71`) and the copy may sleep in a page fault:
  a sync in between writes the old contents and clears `b_dirt`.
* Process: `InitReaps` fails: with a full process table init's loop calls `fork()` for
  ever and never `wait()` (`init/main.c:197`).
* Pipe: `InOrder` is conditional on no page fault having come between moving the head
  or tail and copying; without the condition it fails (`fs/pipe.c:62`).
* Scheduler: `NoStarvation` holds among tasks that exist; a fork gives its child
  a full `counter`, so a chain of forks starves the others.

`BufferWaitEnds` of BufferCache (a task in `buffer_wait` gets its buffer) passes with one
buffer, two tasks and `bread`, `new_block` and `sync` under `FairSpec`, and is not a
run of its own.

## 6. What is not modelled

See `components` in `PROJECT.json`. Boot code, console, keyboard tables,
printing, the user library and the headers are sequential code or data without
state that tasks share. In Floppy interrupts inside a handler, in Memory scripts and more
than one page of arguments, in Mount and FileSystem permission bits and directories of
several blocks are left out.

## 7. Plan

1. **Malloc** (`lib/malloc.c`: buckets with their `cli()` windows) and **Mktime** (against a reference
   calendar).
2. The console's side of Tty: `keyboard_interrupt` comes through a trap gate, with interrupts
   on, while the comment at `console.c:19-22` counts on their being off.
3. Process groups and sessions in Process.

An abstract specification of a cache (a memory of blocks in which a read returns the
last write) for BufferCache to implement; HardDisk and Floppy as
implementations of the `Interrupt` of BlkRequest.

Theorems worth proving next: `OneInodePerNumber` of FileSystem without `Races`. It needs `LinksExact`, since a number
may be given out by `new_inode()` only if no entry of the directory has it, and so the whole of that module's
state in one invariant.
