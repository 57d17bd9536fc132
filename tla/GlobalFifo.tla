----------------------------- MODULE GlobalFifo -----------------------------
(***************************************************************************)
(* The globalfifo character driver (schedule/day6/globalfifo.c) and the    *)
(* programs that use it: cat and echo, sigint.c, sigio.c, epoll.c.         *)
(*                                                                         *)
(* One task per open file.  A system call is a walk of the task's pc       *)
(* through the handler of op[t]; a step ends where the code takes or drops *)
(* dev->mutex, calls schedule() or returns.  globalfifo_read and           *)
(* globalfifo_write have the same frame (lock, wait loop, unlock, leave    *)
(* the wait queue) and share its actions.  Wait queues, signals, schedule, *)
(* fasync_helper and epoll are modelled from how the driver uses them.     *)
(***************************************************************************)
EXTENDS Integers, Sequences

CONSTANTS
    Readers, Writers, Clearers, EpollClients,  \* who issues which calls
    NonBlock,       \* files opened with O_NONBLOCK
    Asyncs,         \* programs that set FASYNC, as sigio.c does
    Faulty,         \* programs that may pass an unmapped buffer
    Catchers,       \* programs that may get a signal they handle
    Mortals,        \* programs that may get SIGKILL
    Size,           \* GLOBALFIFO_SIZE
    MaxCount,       \* bound on the count of one call
    Byte, Zero,     \* the values a byte takes; the one memset writes
    ReadSleep,      \* the state a reader sleeps in: KILLABLE as built,
                    \* INTERRUPTIBLE in the "#if 0" branch,
                    \* UNINTERRUPTIBLE with uninterruptible.patch
    EdgeTriggered,  \* EPOLLET, as in epoll.c
    NoTask

Task == Readers \cup Writers \cup Clearers \cup EpollClients \cup Asyncs

TaskState == {"RUNNING", "INTERRUPTIBLE", "KILLABLE", "UNINTERRUPTIBLE"}

ASSUME SizeAssumption == Size \in Nat \ {0} /\ MaxCount \in Nat
ASSUME ByteAssumption == Zero \in Byte
ASSUME SleepAssumption == ReadSleep \in TaskState \ {"RUNNING"}
ASSUME TaskAssumption == NoTask \notin Task
ASSUME EdgeAssumption == EdgeTriggered \in BOOLEAN

VARIABLES
    current_len, mem, mutex,    \* struct globalfifo_dev
    wait,           \* wait["read"], wait["write"]: tasks on r_wait, w_wait
    polled,         \* the same for the entries of epoll items
    async_queue,    \* files with FASYNC set
    rdllist,        \* epoll items on their ready list
    state, pending, \* task_struct: sleep state, pending signals
    pc, op,         \* where a task is, in which call
    count, buf, ret \* arguments and result of the call

dev    == <<current_len, mem>>
queues == <<wait, polled, async_queue, rdllist>>
sched  == <<state, pending>>
locals == <<count, buf, ret>>
vars   == <<dev, mutex, queues, sched, pc, op, locals>>

EAGAIN == -11
EFAULT == -14
ERESTARTSYS == -512
Errors == {EAGAIN, EFAULT, ERESTARTSYS}

RW == {"read", "write"}
Op == RW \cup {"clear", "poll", "none"}
LockedPC == {"check", "copy", "out"}    \* the code holds dev->mutex
PC == LockedPC \cup {"closed", "user", "event", "lock", "sched", "relock",
                     "out2", "dead"}

Payload == UNION {[1 .. n -> Byte] : n \in 0 .. MaxCount}

Lesser(a, b) == IF a < b THEN a ELSE b

\* globalfifo_probe: kzalloc, mutex_init, init_waitqueue_head.
Init ==
    /\ current_len = 0
    /\ mem = [i \in 0 .. Size - 1 |-> Zero]
    /\ mutex = NoTask
    /\ wait = [o \in RW |-> {}]
    /\ polled = [o \in RW |-> {}]
    /\ async_queue = {}
    /\ rdllist = {}
    /\ state = [t \in Task |-> "RUNNING"]
    /\ pending = [t \in Task |-> {}]
    /\ pc = [t \in Task |-> "closed"]
    /\ op = [t \in Task |-> "none"]
    /\ count = [t \in Task |-> 0]
    /\ buf = [t \in Task |-> << >>]
    /\ ret = [t \in Task |-> 0]

-----------------------------------------------------------------------------
(* The kernel services the driver calls.                                   *)

Goto(t, p) == pc' = [pc EXCEPT ![t] = p]
Return(t, v) == ret' = [ret EXCEPT ![t] = v]

\* wake_up_interruptible: a task's wait entry makes the task runnable only if
\* it sleeps in TASK_INTERRUPTIBLE; the entry of an epoll item puts the item
\* on its ready list whatever the mode.
WakeUpInterruptible(o) ==
    /\ state' = [t \in Task |->
                    IF t \in wait[o] /\ state[t] = "INTERRUPTIBLE"
                    THEN "RUNNING" ELSE state[t]]
    /\ rdllist' = rdllist \cup polled[o]

SignalPending(t) == pending[t] # {}
FatalSignalPending(t) == "kill" \in pending[t]

\* signal_pending_state: which pending signals end a sleep.
SignalWakes(t) ==
    \/ state[t] = "INTERRUPTIBLE" /\ SignalPending(t)
    \/ state[t] = "KILLABLE" /\ FatalSignalPending(t)

\* In user mode a task first handles its signals.
InUser(t) == pc[t] = "user" /\ pending[t] = {}

-----------------------------------------------------------------------------
(* System calls on the file                                                *)

\* A program enters the kernel: a handler that takes the mutex first.
Enter(t, o) ==
    /\ op' = [op EXCEPT ![t] = o]
    /\ Goto(t, "lock")
    /\ UNCHANGED <<dev, mutex, wait, polled, async_queue, sched, ret>>

ReadCall(t) ==
    /\ t \in Readers /\ InUser(t)
    /\ \E n \in 0 .. MaxCount : count' = [count EXCEPT ![t] = n]
    /\ Enter(t, "read")
    /\ UNCHANGED <<rdllist, buf>>

WriteCall(t) ==
    /\ t \in Writers /\ InUser(t)
    /\ \E s \in Payload : /\ buf' = [buf EXCEPT ![t] = s]
                          /\ count' = [count EXCEPT ![t] = Len(s)]
    /\ Enter(t, "write")
    /\ UNCHANGED rdllist

\* FIFO_CLEAR; any other command returns -EINVAL and changes nothing.
IoctlCall(t) ==
    /\ t \in Clearers /\ InUser(t)
    /\ Enter(t, "clear")
    /\ UNCHANGED <<rdllist, count, buf>>

\* Slip: the writer, too, enters the queue of the readers.
AddWaitQueueRead(t) ==
    wait' = [wait EXCEPT !["read"] = @ \cup (IF op[t] \in RW THEN {t} ELSE {})]
AddWaitQueue(t) ==
    wait' = [o \in RW |-> wait[o] \cup (IF op[t] = o THEN {t} ELSE {})]

\* mutex_lock, and add_wait_queue the first time.
Lock(t) ==
    /\ pc[t] \in {"lock", "relock"}
    /\ mutex = NoTask /\ mutex' = t
    /\ AddWaitQueue(t)
    /\ Goto(t, IF op[t] \in RW THEN "check" ELSE "copy")
    /\ UNCHANGED <<dev, polled, async_queue, rdllist, sched, op, locals>>

\* The condition of the wait loop.
MustWait(o) == IF o = "read" THEN current_len = 0 ELSE current_len = Size

\* Slips: the reader sleeps in another state than the build means it to.
SleepStateKillable(o) == IF o = "read" THEN "KILLABLE" ELSE "INTERRUPTIBLE"
SleepStateDeep(o) == IF o = "read" THEN "UNINTERRUPTIBLE" ELSE "INTERRUPTIBLE"
SleepStateLight(o) == "INTERRUPTIBLE"

\* The state the loop sleeps in, and which signals make it give up (the
\* KILLABLE build tests fatal_signal_pending).
SleepState(o) == IF o = "read" THEN ReadSleep ELSE "INTERRUPTIBLE"
Interrupted(t) == IF SleepState(op[t]) = "KILLABLE" THEN FatalSignalPending(t)
                                                    ELSE SignalPending(t)

\* One test of the wait loop: go on, give up, or sleep.
Check(t) ==
    /\ pc[t] = "check"
    /\ \/ /\ ~MustWait(op[t])
          /\ Goto(t, "copy")
          /\ UNCHANGED <<mutex, state, ret>>
       \/ /\ MustWait(op[t]) /\ t \in NonBlock
          /\ Return(t, EAGAIN) /\ Goto(t, "out")
          /\ UNCHANGED <<mutex, state>>
       \/ /\ MustWait(op[t]) /\ t \notin NonBlock
          /\ state' = [state EXCEPT ![t] = SleepState(op[t])]
          /\ mutex' = NoTask /\ Goto(t, "sched")
          /\ UNCHANGED ret
    /\ UNCHANGED <<dev, queues, pending, op, count, buf>>

\* Slips: the signal exit leaves the wait entry behind; the loop goes on
\* without the mutex.
ScheduleLeavesEntry(t) ==
    /\ pc[t] = "sched" /\ (state[t] = "RUNNING" \/ SignalWakes(t))
    /\ state' = [state EXCEPT ![t] = "RUNNING"]
    /\ Goto(t, IF Interrupted(t) THEN "user" ELSE "relock")
    /\ UNCHANGED <<dev, mutex, queues, pending, op, locals>>
ScheduleNoRelock(t) ==
    /\ pc[t] = "sched" /\ (state[t] = "RUNNING" \/ SignalWakes(t))
    /\ state' = [state EXCEPT ![t] = "RUNNING"]
    /\ Goto(t, IF Interrupted(t) THEN "out2" ELSE "check")
    /\ UNCHANGED <<dev, mutex, queues, pending, op, locals>>

\* schedule() returns once somebody made the task runnable, or a signal that
\* its sleep state admits is pending.
Schedule(t) ==
    /\ pc[t] = "sched"
    /\ state[t] = "RUNNING" \/ SignalWakes(t)
    /\ state' = [state EXCEPT ![t] = "RUNNING"]
    /\ \/ Interrupted(t) /\ Return(t, ERESTARTSYS) /\ Goto(t, "out2")
       \/ ~Interrupted(t) /\ Goto(t, "relock") /\ UNCHANGED ret
    /\ UNCHANGED <<dev, mutex, queues, pending, op, count, buf>>

\* The first n bytes of mem, and what the shift by n leaves in mem: memcpy
\* copies upwards, and the bytes above the new current_len stay.
FirstBytes(n) == [i \in 1 .. n |-> mem[i - 1]]
\* Slip: the overlapping memcpy copies downwards.
ShiftDownBackward(n) ==
    [i \in 0 .. Size - 1 |->
        IF n = 0 \/ i >= current_len - n THEN mem[i]
        ELSE mem[CHOOSE j \in current_len - n .. current_len - 1 :
                    (j - i) % n = 0]]
ShiftDown(n) == [i \in 0 .. Size - 1 |->
                    IF i < current_len - n THEN mem[i + n] ELSE mem[i]]

ReadCopy(t) ==
    /\ pc[t] = "copy" /\ op[t] = "read"
    /\ LET n == Lesser(count[t], current_len) IN
       \/ /\ buf' = [buf EXCEPT ![t] = FirstBytes(n)]
          /\ mem' = ShiftDown(n)
          /\ current_len' = current_len - n
          /\ WakeUpInterruptible("write")
          /\ Return(t, n)
       \/ /\ t \in Faulty
          /\ \E k \in 0 .. n - 1 : buf' = [buf EXCEPT ![t] = FirstBytes(k)]
          /\ Return(t, EFAULT)
          /\ UNCHANGED <<dev, state, rdllist>>
    /\ Goto(t, "out")
    /\ UNCHANGED <<mutex, wait, polled, async_queue, pending, op, count>>

\* mem once k of n bytes of t's buffer are copied in at current_len:
\* copy_from_user zeroes those it could not read.
CopyIn(t, k, n) ==
    [i \in 0 .. Size - 1 |->
        IF i < current_len \/ i >= current_len + n THEN mem[i]
        ELSE IF i < current_len + k THEN buf[t][i - current_len + 1]
        ELSE Zero]

\* How much fits.  Slip: forgets what is there already.
RoomOfAll == Size
Room == Size - current_len

WriteCopy(t) ==
    /\ pc[t] = "copy" /\ op[t] = "write"
    /\ LET n == Lesser(count[t], Room) IN
       \/ /\ mem' = CopyIn(t, n, n)
          /\ current_len' = current_len + n
          /\ WakeUpInterruptible("read")
          /\ pending' = [u \in Task |-> pending[u] \cup
                            (IF u \in async_queue THEN {"sig"} ELSE {})]
          /\ Return(t, n)
       \/ /\ t \in Faulty
          /\ \E k \in 0 .. n - 1 : mem' = CopyIn(t, k, n)
          /\ Return(t, EFAULT)
          /\ UNCHANGED <<current_len, sched, rdllist>>
    /\ Goto(t, "out")
    /\ UNCHANGED <<mutex, wait, polled, async_queue, op, count, buf>>

\* Slip: returns without mutex_unlock.
OutNoUnlock(t) ==
    /\ pc[t] = "out" /\ Goto(t, "out2")
    /\ UNCHANGED <<dev, mutex, queues, sched, op, locals>>

\* out: mutex_unlock.
Out(t) ==
    /\ pc[t] = "out"
    /\ mutex' = NoTask
    /\ Goto(t, "out2")
    /\ UNCHANGED <<dev, queues, sched, op, locals>>

\* out2: remove_wait_queue, TASK_RUNNING, back to user mode.
Out2(t) ==
    /\ pc[t] = "out2"
    /\ wait' = [wait EXCEPT ![op[t]] = @ \ {t}]
    /\ state' = [state EXCEPT ![t] = "RUNNING"]
    /\ Goto(t, "user")
    /\ op' = [op EXCEPT ![t] = "none"]
    /\ count' = [count EXCEPT ![t] = 0]
    /\ buf' = [buf EXCEPT ![t] = << >>]
    /\ Return(t, 0)
    /\ UNCHANGED <<dev, mutex, polled, async_queue, rdllist, pending>>

\* globalfifo_ioctl under the mutex.  Nobody is woken.
Clear(t) ==
    /\ pc[t] = "copy" /\ op[t] = "clear"
    /\ current_len' = 0
    /\ mem' = [i \in 0 .. Size - 1 |-> Zero]
    /\ mutex' = NoTask
    /\ op' = [op EXCEPT ![t] = "none"]
    /\ Goto(t, "user")
    /\ UNCHANGED <<queues, sched, locals>>

\* fcntl(F_SETFL, FASYNC): fasync_helper, under a lock of its own.
Fasync(t) ==
    /\ t \in Asyncs /\ InUser(t)
    /\ async_queue' = async_queue \cup {t}
    /\ UNCHANGED <<dev, mutex, wait, polled, rdllist, sched, pc, op, locals>>

Open(t) ==
    /\ pc[t] = "closed"
    /\ Goto(t, "user")
    /\ UNCHANGED <<dev, mutex, queues, sched, op, locals>>

\* What the last close of the file does: globalfifo_release takes it off
\* async_queue, and epoll drops the item with its wait entries.
Release(t) ==
    /\ async_queue' = async_queue \ {t}
    /\ polled' = [o \in RW |-> polled[o] \ {t}]
    /\ rdllist' = rdllist \ {t}
    /\ UNCHANGED <<dev, mutex, wait, state, op, locals>>

Close(t) ==
    /\ InUser(t)
    /\ Release(t)
    /\ Goto(t, "closed")
    /\ UNCHANGED pending

-----------------------------------------------------------------------------
(* poll, and epoll.c: add the file once, then wait, and read on each event *)

Registered(t) == \E o \in RW : t \in polled[o]

\* epoll_ctl(EPOLL_CTL_ADD) polls the file; epoll_wait takes an item off the
\* ready list and then polls its file.
EpollPoll(t) ==
    /\ t \in EpollClients /\ InUser(t)
    /\ Registered(t) => t \in rdllist
    /\ rdllist' = rdllist \ {t}
    /\ Enter(t, "poll")
    /\ UNCHANGED <<count, buf>>

\* The two poll_wait calls.  Slip: only on the queue of the readers.
PollWaitRead(t) == polled' = [polled EXCEPT !["read"] = @ \cup {t}]
PollWait(t) == polled' = [o \in RW |-> polled[o] \cup {t}]

\* globalfifo_poll, and what epoll does with POLLIN in the mask: epoll_ctl
\* makes the item ready; epoll_wait reports the event and, unless the item is
\* edge triggered, makes the item ready again.
Poll(t) ==
    /\ pc[t] = "copy" /\ op[t] = "poll"
    /\ PollWait(t)
    /\ LET pollin == current_len # 0 IN
       /\ rdllist' = rdllist \cup
              (IF pollin /\ ~(EdgeTriggered /\ Registered(t)) THEN {t} ELSE {})
       /\ Goto(t, IF pollin /\ Registered(t) THEN "event" ELSE "user")
    /\ mutex' = NoTask
    /\ op' = [op EXCEPT ![t] = "none"]
    /\ UNCHANGED <<dev, wait, async_queue, sched, locals>>

EpollRead(t) ==
    /\ pc[t] = "event" /\ pending[t] = {}
    /\ \E n \in 1 .. MaxCount : count' = [count EXCEPT ![t] = n]
    /\ Enter(t, "read")
    /\ UNCHANGED <<rdllist, buf>>

-----------------------------------------------------------------------------
(* Signals                                                                 *)

Signal(t, s) ==
    /\ pc[t] \notin {"closed", "dead"}
    /\ t \in (IF s = "kill" THEN Mortals ELSE Catchers)
    /\ pending' = [pending EXCEPT ![t] = @ \cup {s}]
    /\ UNCHANGED <<dev, mutex, queues, state, pc, op, locals>>

\* On the way back to user mode a task runs its handler or dies; exit closes
\* the file.
HandleSignal(t) ==
    /\ pc[t] \in {"user", "event"} /\ SignalPending(t)
    /\ pending' = [pending EXCEPT ![t] = {}]
    /\ \/ FatalSignalPending(t) /\ Goto(t, "dead") /\ Release(t)
       \/ /\ ~FatalSignalPending(t)
          /\ UNCHANGED <<dev, mutex, queues, state, pc, op, locals>>

-----------------------------------------------------------------------------
\* What a task does in the kernel without waiting for the mutex.
Proceed(t) == Check(t) \/ Schedule(t) \/ ReadCopy(t) \/ WriteCopy(t) \/ Out(t)
              \/ Out2(t) \/ Clear(t) \/ Poll(t) \/ HandleSignal(t)

EpollLoop(t) == EpollPoll(t) \/ EpollRead(t)

Call(t) == ReadCall(t) \/ WriteCall(t) \/ IoctlCall(t) \/ Fasync(t)
           \/ Open(t) \/ Close(t)

Next == \E t \in Task : \/ Lock(t) \/ Proceed(t) \/ EpollLoop(t) \/ Call(t)
                        \/ \E s \in {"sig", "kill"} : Signal(t, s)

Spec == Init /\ [][Next]_vars

\* The scheduler runs every runnable task; a mutex is handed over to its
\* waiters, so a task that wants it again and again gets it; epoll.c loops
\* for ever.  Nobody has to start a call.
Fairness == \A t \in Task : /\ WF_vars(Proceed(t))
                            /\ SF_vars(Lock(t))
                            /\ WF_vars(EpollLoop(t))

FairSpec == Spec /\ Fairness

-----------------------------------------------------------------------------
(* Properties                                                              *)

\* Type invariant of the driver, the scheduler's view of the tasks, and the
\* calls in progress.
TypeOK ==
    /\ current_len \in 0 .. Size
    /\ mem \in [0 .. Size - 1 -> Byte]
    /\ mutex \in Task \cup {NoTask}
    /\ wait \in [RW -> SUBSET Task]
    /\ polled \in [RW -> SUBSET Task]
    /\ async_queue \in SUBSET Task
    /\ rdllist \in SUBSET Task
    /\ state \in [Task -> TaskState]
    /\ pending \in [Task -> SUBSET {"sig", "kill"}]
    /\ pc \in [Task -> PC]
    /\ op \in [Task -> Op]
    /\ count \in [Task -> Nat]
    /\ buf \in [Task -> Seq(Byte)]
    /\ ret \in [Task -> Nat \cup Errors]

\* dev->mutex protects the device: whoever executes code between mutex_lock
\* and mutex_unlock owns it, also after the sleeps, signals and error exits
\* of the wait loops; so no two tasks are there together.
MutualExclusion == \A t \in Task : pc[t] \in LockedPC => mutex = t

\* The wait entry of a read or write lives on the kernel stack: no exit of
\* the two handlers, the signal exit included, leaves it on the queue.  And
\* no closed file stays on async_queue or has an epoll item on a queue.
NoDanglingEntries ==
    /\ \A o \in RW : \A t \in wait[o] :
          op[t] = o /\ pc[t] \in LockedPC \cup {"sched", "relock", "out2"}
    /\ \A t \in async_queue \cup rdllist \cup UNION {polled[o] : o \in RW} :
          pc[t] \notin {"closed", "dead"}

Asleep(t, o) == pc[t] = "sched" /\ op[t] = o /\ state[t] # "RUNNING"

\* No lost wake-up for writers: a writer that sleeps in the wait loop of
\* globalfifo_write sleeps on a full fifo.
WriterNotStranded == \A t \in Task : Asleep(t, "write") => current_len = Size

\* No lost wake-up for readers: a reader that sleeps in the wait loop of
\* globalfifo_read sleeps on an empty fifo.
ReaderNotStranded == \A t \in Task : Asleep(t, "read") => current_len = 0

\* TASK_KILLABLE responds to fatal signals only: a read gives up with
\* -ERESTARTSYS only when SIGKILL is pending.
OnlyFatalInterruptsRead ==
    \A t \in Task : pc[t] = "out2" /\ op[t] = "read" /\ ret[t] = ERESTARTSYS
                        => FatalSignalPending(t)

\* An edge-triggered client that reads less than there is still hears of the
\* rest: while it waits in epoll_wait with nothing on its ready list, the
\* fifo is empty.  (The read wakes w_wait, where poll registered it too.)
EdgeNotLost ==
    \A t \in Task : pc[t] = "user" /\ Registered(t) /\ t \notin rdllist
                        => current_len = 0

\* The bytes in the fifo, oldest first.
contents == FirstBytes(current_len)

Fifo == INSTANCE BoundedFifo WITH q <- contents

\* The driver is a bounded fifo: in every interleaving of reads, writes and
\* FIFO_CLEARs, also with faulting buffers, each byte accepted by a write is
\* delivered once, in order, to one read, or dropped by FIFO_CLEAR.
IsFifo == Fifo!Spec

\* A task with SIGKILL pending does not stay in the driver: it dies.
KilledTaskDies ==
    \A t \in Task : FatalSignalPending(t) ~> pc[t] = "dead"

\* An epoll client that has the file registered gets to read whenever there is
\* data, unless it closes the file or is killed.
EpollClientServed ==
    \A t \in EpollClients :
        Registered(t) /\ current_len # 0
            ~> (pc[t] = "copy" /\ op[t] = "read") \/ ~Registered(t)

=============================================================================
