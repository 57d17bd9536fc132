# A verification project for linux-development

The repository is a collection of study programs about Linux: processes,
threads, I/O and scheduling, with a copy of systemd as reading material. Five
parts have state that several tasks, processes or hosts share, and they are
what this project models:

* **globalfifo** (`schedule/day6/globalfifo.c`), a character driver with a
  bounded buffer, blocking reads and writes, `poll`, `fasync` and an ioctl,
  together with the programs that use it;
* **simplefs** (`io/simplefs/`), a file system with an inode store, a free map
  and three mutexes, together with its `mkfs`;
* **the barrier** of systemd (`shared/barrier.c`), with which a parent and a
  child process wait for each other;
* **the event queue of udevd** (`udev/udevd.c`), which hands device events to
  worker processes;
* **IPv4 link-local addressing** (`libsystemd-network/sd-ipv4acd.c`,
  `sd-ipv4ll.c`, `network/networkd-ipv4ll.c`), a protocol between hosts.

The clients drive globalfifo inside its module; otherwise the parts do not
interact, and each has a module of its own.

Paths below are relative to `src/`, those of systemd to
`src/app/multi_process/day1/systemd/src/`.

## Modules

| Module | Models | Role |
|---|---|---|
| `GlobalFifo` | `globalfifo.c`; its clients `sigint.c`, `epoll.c`, `sigio.c` | component and its properties |
| `BoundedFifo` | what the device promises | abstract specification |
| `GlobalFifoProofs` | | theorems about `GlobalFifo`; it implements `BoundedFifo` |
| `SimpleFs` | `simple.c`, `simple.h`, `mkfs-simplefs.c` | component and its properties |
| `NameTree` | what simplefs promises of its names | abstract specification |
| `SimpleFsProofs` | | theorems about `SimpleFs` that hold whatever fails |
| `SimpleFsFiles` | | without signals: inodes, blocks, what calls rely on |
| `SimpleFsNames` | | without signals: directories, records and inodes |
| `SimpleFsTree` | | without signals: `SimpleFs` implements `NameTree` |
| `Barrier` | `barrier.c`, `barrier.h` | component and its properties |
| `BarrierProofs` | | theorems about `Barrier` |
| `Udevd` | `udevd.c` | component and its properties |
| `UdevdProofs` | | theorems about `Udevd` |
| `Ipv4LL` | `sd-ipv4acd.c`, `sd-ipv4ll.c`, `arp-util.c`, `networkd-ipv4ll.c` | hosts on a link, and their properties |
| `Ipv4LLProofs` | | theorems about `Ipv4LL` |
| `MCGlobalFifo`, `MCSimpleFs`, `MCUdevd` | | instances for TLC |

A definition whose comment begins with "Slip" is a wrong version of the
definition after it. It is used by nothing; putting it in the place of the
right one makes a property fail, which shows that the property depends on
that piece of code.

## globalfifo

**State.** `current_len`, `mem` and `mutex` are the fields of
`struct globalfifo_dev`. `wait["read"]` and `wait["write"]` are the entries of
tasks on `r_wait` and `w_wait`, `polled` the entries of epoll items there;
`async_queue` is the field of that name, `rdllist` epoll's ready list. `state`
and `pending` are a task's sleep state and signals; `pc`, `op`, `count`, `buf`,
`ret` its place in a call with the arguments and the result. There is one task
per open file.

**Actions.** A step ends where the code takes or drops `dev->mutex`, calls
`schedule()` or returns. `globalfifo_read` and `globalfifo_write` have the same
frame and share `Lock`, `Check`, `Schedule`, `Out` and `Out2`; `ReadCopy` and
`WriteCopy` are their bodies, including the wake-ups and `kill_fasync`. `Clear`
is the ioctl, `Poll` the poll handler with what epoll does with its answer,
`Fasync`, `Open` and `Release` the handlers of these names. `HandleSignal` is
the return to user mode.

**Builds.** The source selects the reader's sleep state with `#if`, and the two
patches beside it change it. `ReadSleep` has the three values; as shipped it is
`KILLABLE`.

**External code**, modelled from how the driver uses it: wait queues
(`wake_up_interruptible` passes over tasks in other sleep states and runs the
callback of epoll items), signals, `schedule`, epoll. `memcpy` on overlapping
memory is undefined in C; the model has the upward copy that kernel builds
make, and the slip `ShiftDownBackward` is the other direction.

### Runs

| Run | Shows | Distinct states |
|---|---|---|
| `fifo_data` | with INTERRUPTIBLE readers: types; the mutex is held where the code relies on it; no reader is stranded; the driver implements `BoundedFifo`, with faulting buffers, `O_NONBLOCK`, signals, FIFO_CLEAR and an epoll client whose data another reader takes | 1,855,170 |
| `fifo_killable` | as shipped: writers are not stranded, only SIGKILL ends a read, no exit leaves a wait entry, closed files leave `async_queue`, a killed task dies | 96,776 |
| `fifo_epoll` | an edge-triggered client that reads a part hears of the rest and is served | 47,934 |
| `fifo_reader_stranded` | **violated**: a KILLABLE reader sleeps on after a write | |

**Bounds.** Size 3 with counts up to 2 has reads that take less than half (the
overlapping copy), writes that are cut, and the empty and the full buffer. Two
byte values tell reordered bytes apart. `fifo_killable` uses Size 1, where every
read and write changes the wait condition. The side whose sleepers a run is
about has two tasks, so that one wake-up has to reach more than one; in
`fifo_data` these are the reader and the epoll client, which sleeps in a read
when the data that epoll reported is gone. Only the writer's buffers fault
there; a faulting read changes only the caller's buffer, and the refinement
proof covers it.

**Deadlock** is not checked: all programs may have closed the file, and a reader
without a writer may sleep for ever.

**Fairness.** Weak for steps inside the kernel (the scheduler runs runnable
tasks) and for the loop of `epoll.c`, which never stops; strong for taking
`dev->mutex`, which the kernel hands to its waiters. Nobody is obliged to start
a read or write.

### Proofs

For any sets of tasks and any Size:

* `TypeCorrect`. `TypeOK` is not inductive: `globalfifo_write` copies `count`
  bytes of its buffer, so `BufHoldsCount` (the buffer is that long) is added.
* `MutexHeld`, `EntriesRemoved`. `QueueInv` adds `EntryQueued` to the two
  properties: a call between `add_wait_queue` and `remove_wait_queue` has its
  entry on the queue.
* `NoWriterStranded` (no FIFO_CLEAR callers), `NoReaderStranded`
  (`ReadSleep = "INTERRUPTIBLE"`). With `SleepInv` (a sleeper is in the state
  its loop has set) and `EntryQueued` a wake-up reaches every sleeper
  (`WakeUpReachesAll`). The two hypotheses exclude
  the two disagreements below.
* `NoEdgeLost` (epoll clients with good buffers). `EdgeInv`: while there is
  data, an item off the ready list has its client on the way to a poll or read.
* `ReadOutlivesSignals` (`ReadSleep = "KILLABLE"`, as shipped). `RestartInv`:
  only the signal exit of the wait loop makes -ERESTARTSYS the result of a
  call, and the signal that a read took it for stays pending until the call has
  returned.
* `ImplementsFifo`. Each step maps to `Put`, `Get`, `Clear`, `Fill` or a
  stutter; `contents` is the first `current_len` bytes of `mem`.

## simplefs

**State.** `sb` and `store` are the super block and the inode store in the
buffer cache, `sbDisk` and `storeDisk` on the image. Directory blocks are synced
by the call that changes them, so `dirblk` stands for both copies. `mem[p]` is
the `simplefs_inode` behind the VFS inode of path `p`. `mutex` counts the three
mutexes; a count of 2 is a mutex unlocked once too often. `size` is the union
of `file_size` and `dir_children_count`.

**Actions.** A step ends where the code takes or drops a mutex or makes a block
durable. `CreateCall` to `AddRecord`, then `LockSave` to `Leave`, are
`simplefs_create_fs_object` with the functions it calls; every
`mutex_lock_interruptible` has an action `Lock...` with the acquired and, where
it can happen, the interrupted outcome. `WriteCall` enters the same tail through
`simplefs_write`. `Lookup`, `DestroyInode`, `FillSuper` and `KillSuperblock` are
the handlers of these names; `Writeback`, `Signal` and `Crash` are the
environment. `Init` is the image that `mkfs-simplefs` writes.

**Left out.** File contents and `simplefs_read`; the cursor of
`simplefs_iterate`; failing allocations and block reads (the code BUGs or
ignores them). A lookup whose inode is missing dereferences NULL in the code
and finds nothing in the model; it needs the lost inode
described under "Disagreements". A block is written whole or not at all.

**Integers.** `free_blocks` is the set of its 1 bits. `Mask(i)` is what
`1 << i` becomes: an `int` of `IntBits` bits, sign-extended to the width of the
map; for larger shift counts `ShiftMasks` chooses between a wrapped count (x86)
and 0 (ARM).

### Runs

| Run | Shows | Distinct states |
|---|---|---|
| `simplefs_crash` | with three crashes: listed records have inodes and lie inside their block, blocks and numbers have one owner, the names implement `NameTree` | 57,853 |
| `simplefs_signals` | with interrupted waits: updates of the super block and of the store never overlap, mutexes are given back | 469,680 |
| `simplefs_live` | without faults every call returns and there is no deadlock; with a map as wide as an int, ENOSPC only when full, no write outside the store | 17,494 |
| `simplefs_sb_lock` | **violated**: two tasks in sections of `simplefs_sb_lock` | |

**Bounds.** Three crashes allow one in a create, one in the retry and one
afterwards. The root's block has places for exactly its two children, so that a
second record for one path would fall outside. Two tasks in two directories meet at every mutex; `simplefs_live`
has three, so that two wait for one. IntBits 5 under MaxObjects 10 puts the sign
bit and the wrapped shifts in reach of a few creates. Tasks are interchangeable,
so the safety runs use symmetry; the liveness run does not.

**Fairness.** Weak for steps inside a call, strong for taking a mutex: kernel
mutexes serve their waiters. `simplefs_live` has no signals or crashes; these
end calls early.

**What the runs say together.** The error path of
`simplefs_sb_get_a_freeblock` breaks `simplefs_sb_lock`, yet free map and store
stay safe, because each of their users also holds one of the other two mutexes.
The exit of `simplefs_inode_add` that keeps the mgmt lock is never taken, and
neither is the limit on the number of objects: blocks run out first.

### Proofs

For any number of tasks, paths, signals and crashes, any widths with
`4 < IntBits <= MaxObjects`, and both ways to compile the shift:
`TypeCorrect`, `OneUpdateAtATime`, `NoLockLeaks`, `BlocksNotShared`.

The inductive invariant is `TypeOK /\ CallInv /\ LockInv /\ BlockInv`:

* `LockInv`: who holds which mutex. For `simplefs_sb_lock` only this is left:
  when it cannot be taken, somebody is inside.
* `CallInv`: cached and stored super block agree between steps, and the count
  that a create took its inode number from stays current until it is counted.
* `BlockInv`: a slot holds only the number that belongs to its place
  (`SlotInv`), inodes that calls work on have number and block (`InodeInv`),
  and among all copies of inodes, cached, stored, in memory and in calls, equal
  blocks mean equal numbers, and none is free (`OwnerInv`).

The other four theorems assume `MaxSignals = 0`, and each is false without it.
An interrupted `simplefs_inode_add` (a disagreement below) leaves a directory
with a record of an inode that is not stored, its block taken and its number
free for the next create. Two directories that share a number in this way fill
one block together: with three places, two directories of two paths each and
one signal, TLC finds a record outside the block. Crashes stay unlimited,
except in `NoBlockLeaks`.

* `NoBlockLeaks`: `NoSpaceMeansFull`, with `MaxCrashes = 0` (a crash loses the
  block of a create on its way) and `MaxObjects <= IntBits` (in a wider map
  `1 << i` takes several blocks at once, the ENOSPC row below; the shipped 64
  objects on a 32-bit int are such a map, so this theorem is about the
  algorithm, not about that build). `FileInv`: what is in memory, and the inode
  of a create that has counted it, are in the store. `SpaceInv` ties the calls
  that have a block to it. `OwnedInv`: a block that is not free is owned.
* `RecordsNeverDangle`: `RecordsNameInodes`. `ImageInv`: where
  store and image differ the size is 0 in both, because
  `simplefs_inode_save` writes the whole store. `CallerInv`: what a call works
  on is in memory and of the right kind, and nobody else creates in that
  directory. `NameInv`: an inode number belongs to one
  path, wherever it is found. `SizeInv`: memory and store agree on the size of
  a directory, up to the one child of a create that is about to save it.
  `RecordInv`: that child's record lies where the directory is going to count.
  Then `BackInv`, the property itself for the cached store, is inductive.
* `RecordsStayInBlock`: `RecordsInBlock`, and `NamesSurvive`: `IsNameTree`, if
  `DirectoriesFit`: no directory has more paths than its block has places,
  stated as a pigeonhole (whoever fills one place more repeats a path). Nothing
  in the code enforces it; the row below on the 16th record shows what
  happens without it. `TreeInv`: every path has at most one record and one
  parent, what is in memory is in the tree, and a create has no record yet.
  With it the records of a directory name different paths, so there is a place
  left (`RoomLeft`), and `FitInv` bounds the counts. The refinement maps the
  step that saves the parent to `NameTree`'s create, the successful return to
  its report, and every other step, crashes and mounts included, to a stutter:
  what a mount would show is what the cached store names (`TreeSeen`).

## The systemd barrier

**State.** `efd[s]` is the eventfd that side `s` writes, `ends[s]` the ends of
the pipe it has open, `barriers[s]` the field of that name, `call` and `hup`
the wait in progress and what its `poll` saw. `last` is the call that returned
last. `placed` and `aborts` are history, for the properties.

**Actions.** One per function of `barrier.c`. What lies between two system calls
is one step; `poll` looks at the pipe (`PollPipe`) and then at the eventfd
(`PollEventfd`), and the other side may act in between. The four waits differ
in the value they wait for (`Comp`). `WriteFails` and `ReadFails` are the
`error:` exits. `Exit` is a process that dies at any moment.

**Integers.** `BARRIER_ABORTION` is `INT64_MAX`. The run has 7, a counter of
four bits; the proof takes any value the barriers fit below.

| Run | Shows | Distinct states |
|---|---|---|
| `barrier` | a `barrier_sync` that returned true means that the other side has placed as many barriers; a barrier placed before an exit is not lost to the hangup; no wait outlives the other side | 328,140 |

**Bounds.** With two barriers per side one read can collect several counts, and
a side can be one ahead or behind. One system call fails for good.

**Fairness.** Weak for `barrier_set_role` and the steps of a wait: the kernel
runs a process whose `poll` has something to report. **Deadlock** is not checked:
both sides may wait for a barrier that nobody places.

**Proofs** (`TypeCorrect`, `SyncSound`, `HangupLast`), for any number of
barriers. None of the properties is inductive. `Counted` is the missing link:
`b->barriers` is what the side placed, less what the other side placed, plus
what of that is still unread. `Written` bounds the eventfd and ties an abortion
in it to its author.

## The udevd event queue

**State.** `estate`, `eworker`, `delaying` and `dev` are the fields of
`struct event`, indexed by sequence number; `wstate`, `wevent` those of
`struct worker`. `queue` is the file `/run/udev/queue`. `proc` and `cur` are
what the worker processes do, `msgs` the senders of unread messages, `term` the
pending SIGTERMs, `announced` the events that the libudev listeners were sent.

**Actions.** The handlers of the daemon's event loop, one step each:
`on_uevent`, `on_worker`, `on_sigchld`, `on_event_timeout`, `on_post`,
`on_kill_workers_event`, `SetExecQueue` (the control messages), `manager_reload`
and `manager_exit`. Those that end in `event_queue_start` leave it to a
second step, which no other handler can precede but workers can. It runs the
whole queue: `Blockers` is the loop of `is_device_busy` with its memory
`delaying_seqnum`, `event_run` the choice between an idle worker, a new one and
none. Workers fork, work, send the device on, report, receive the next
device, and end on SIGTERM.

**External code.** What the rules do is a step that may never come. The worker's
loop dispatches sources of equal priority in the order in which they became
ready, so a device that was sent before SIGTERM is handled before it. A pid is
not reused before `on_sigchld` has reaped it.

| Run | Shows | Distinct states |
|---|---|---|
| `udev` | no event runs beside or before an earlier one for the same device, its parent or child; no two live workers have such events in hand; no event leaves the queue unannounced before exit; the queue file tells the truth | 2,116,748 |
| `udev_live` | every event leaves the queue, though workers hang, crash and lose messages; a daemon told to exit does | 34,174 |

**Bounds.** Three events are what the memory in `delaying_seqnum` needs: one
that blocks, one that blocks next, one that waits. Disk, partition and interface
are the same device, one above the other, or unrelated; a renamed device
(`devpath_old`) is covered by the proofs only. Two workers are the least that can
overlap; they are interchangeable (symmetry in `udev` only). `udev` has one
fault and one reload, `udev_live` two faults.

**Fairness.** Strong for the sources of the daemon: the loop takes older pending
sources first, so none starves. Weak for `event_queue_start`, which is called
straight away, and for what a worker does without the rules. `EventsHandled`
excludes a stopped queue and one corner the code leaves open: when `fork` fails
and no worker is left, nothing runs the queue again until the next event.
**Deadlock** is not checked: the daemon may exit.

**Proofs** (`TypeCorrect`, `EventsInOrder`, `RelatedNeverMeet`, `NothingLost`,
`QueueFileRight`), for any devices, workers and events. The invariant adds
`Paired` (event and worker point at each other), `Hands` (what a process has in
hand is what the daemon has it down for, and it has not reported it), `Told` (a
worker that is through has told the listeners), `Remembered` (no event before
`delaying_seqnum` stands in the way, which makes the shortcut of
`is_device_busy` right) and `Numbered`. `RelatedApart` follows from `Hands`,
`Paired` and `EarlierFirst`.

## IPv4 link-local addresses

**State.** Per host: `state`, `n_iteration` and `address` of `sd_ipv4acd`,
`claimed` (the address that `sd_ipv4ll` claims and networkd gives to the
interface), `defended` (the window lies ahead), `socket` (unread packets that
passed the filter). `link` is whole, or parted at first and rejoined later.

**Actions.** `ipv4acd_on_timeout` has a disjunct per case of the switch, as has
`ipv4acd_on_packet`. A conflict calls through to `ipv4ll_on_acd` and the handler
of networkd, so `ipv4acd_on_conflict` includes the restart with another address.
`Reads` is the packet filter. A sent packet reaches every host or misses some
(`miss`), which counts as one loss. `Talk`, `Rejoin` and `WindowEnds` are the
environment.

**Time.** There is no clock. A timer expires at any moment at which its host has
read what has arrived: packets cross the link in far less than the second of the
shortest timer. This is an assumption; a host that is held up for longer than
its timers can claim an address it was warned about.

| Run | Shows | Distinct states |
|---|---|---|
| `ipv4` | on a whole link no address is claimed twice although two transmissions are lost; an address shared after a rejoin is given up by one; attempts end; no deadlock | 14,377 |

**Bounds.** PROBE_NUM and ANNOUNCE_NUM are the code's. Two losses are one less
than the probes, and the bound is sharp: with MaxLost = 3 TLC finds two hosts
with one address. `MaxSocket` bounds unread packets when a timer expires.

**Fairness.** Weak for reading packets and for timers, which the event loop
guarantees; strong for `Talk`: hosts with an address use it now and then, for
nothing else makes a shared address known.

**Proofs.** `TypeCorrect`, and `AddressesUnique`: with `MaxLost < PROBE_NUM`
no two of any number of hosts claim one address. The invariant is `Heard`: of
two hosts after one address, neither with a warning left to read, one has sent
no more probes than were lost. A host claims only after PROBE_NUM probes.

## Only model-checked

Liveness (`KilledTaskDies`, `EpollClientServed`, `CallsReturn`, `WaitersReturn`,
`EventsHandled`, `ExitEnds`, `SharedResolved`, `AttemptEnds`), which is outside
the prover's reach. Every invariant and every refinement that a run checks has
a theorem as well, some under a hypothesis that is given and explained with it.

## Disagreements between code and documents

Two have a run (`fifo_reader_stranded`, `simplefs_sb_lock`), and `PROJECT.json`
quotes what they contradict. The others are states that the modules reach; the
change to a configuration that shows each is given.

| What happens | Against | To see it |
|---|---|---|
| a KILLABLE reader sleeps on after a write (`globalfifo.c:205`) | `schedule/all_schedule.md:452` | run `fifo_reader_stranded` |
| a writer sleeps on after FIFO_CLEAR (`globalfifo.c:64`) | `schedule/all_schedule.md:1075` | `GlobalFifoKillable.cfg` with `Clearers = {r1}`: `WriterNotStranded` |
| two tasks in sections of `simplefs_sb_lock` (`simple.c:146`) | `simple.c:21` | run `simplefs_sb_lock` |
| one signal, and a directory lists an inode that is not stored (`simple.c:77`) | `simple.c:515` | `SimpleFsCrash.cfg` with `MaxSignals = 1`: `RecordsNameInodes` |
| the 16th record of a directory is written past its block (`simple.c:538`) | `io/simplefs/README:21` | `SimpleFsSignals.cfg` with `RecordsPerBlock = 2`: `RecordsInBlock` |
| ENOSPC although blocks are free (`simple.c:127`) | `simple.h:57` | `SimpleFsSignals.cfg` with `Parent <- ParentOfFlat`, paths `h` and `k` added, `RecordsPerBlock = 6`, `MaxSignals = 0`: `NoSpaceMeansFull` |
| a packet is read in the state STARTED (`sd-ipv4acd.c:362`) | the `assert_not_reached` there | `Ipv4LL.cfg` with the invariant `StateValid` |

## Not modelled

| Part | Why |
|---|---|
| globalfifo: remove and unload with open files | the outcome is decided by the kernel's handling of freed memory |
| simplefs: file contents, read, directory cursor | not yet |
| udevd: start-up, options, SET_CHILDREN_MAX, inotify, synthesised uevents, rules that do not load | not part of the queue's protocol |
| link-local: the count of conflicts, the seed, failed links, the time to a netlink reply | the count only lengthens a delay; the others are left to the environment |
| the rest of systemd | half a million lines that nothing in the repository builds or changes; the three parts were taken because their concurrency can be modelled whole |
| `app/multi_thread/day5` thread pool | `AddTask` changes the task list without the mutex that the workers hold: a data race from the first task on |
| `day1/detect-nojoin` join tracker | not yet |
| `day2/cond_var.c`, `semaphore.c` | textbook monitor and semaphore pair, one producer and one consumer |
| `day2/mutex.c`, `deadlock.c`, `pi.c`, races | demonstrations that are wrong on purpose |
| `multi_process/day4` and `day5` sockets, `day3/sysvshm`, `io/day1/io-models` servers | small programs that show the calls, without shared state beyond the kernel's |
| `arm/bubble_sort.c`, `io/fuse-hello/hello.c` | sequential, within reach of unit tests |
| straight-line demonstrations, benchmarks, leak and debugger exercises | no shared state to check |

## Plan

1. `NoJoin`: the wrappers of `pthread_create` and `pthread_join`, with a
   `pthread_t` that is used again between the real join and the erase.
2. simplefs file data: `simplefs_read`, `simplefs_write` at a position, the
   directory cursor.
3. Job merging and ordering in systemd's `core/transaction.c` and `core/job.c`.
