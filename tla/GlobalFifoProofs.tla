-------------------------- MODULE GlobalFifoProofs --------------------------
(***************************************************************************)
(* Proofs about GlobalFifo, for any sets of tasks, any Size, any build.    *)
(***************************************************************************)
EXTENDS GlobalFifo, SequenceTheorems, TLAPS

\* The buffer of a write holds count bytes; globalfifo_write never copies in
\* more than that.
BufHoldsCount == \A t \in Task : op[t] = "write" => count[t] = Len(buf[t])

TypeInv == TypeOK /\ BufHoldsCount

-----------------------------------------------------------------------------
(* Lemmas about the operators                                              *)

\* The clamp of read and write.
LEMMA LesserBound ==
    ASSUME NEW a \in Nat, NEW b \in Nat
    PROVE  /\ Lesser(a, b) \in Nat
           /\ Lesser(a, b) <= a
           /\ Lesser(a, b) <= b
BY DEF Lesser

\* What a program passes to write is a sequence of bytes.
LEMMA PayloadSeq ==
    ASSUME NEW s \in Payload
    PROVE  s \in Seq(Byte) /\ Len(s) \in Nat
BY SizeAssumption DEF Payload

\* copy_from_user of at most count bytes leaves bytes in mem.
LEMMA CopyInType ==
    ASSUME TypeOK, NEW t \in Task, NEW k \in Nat, NEW n \in Nat,
           k <= Len(buf[t])
    PROVE  CopyIn(t, k, n) \in [0 .. Size - 1 -> Byte]
BY SizeAssumption, ByteAssumption DEF CopyIn, TypeOK

\* The memcpy of a read leaves bytes in mem.
LEMMA ShiftDownType ==
    ASSUME TypeOK, NEW n \in 0 .. current_len
    PROVE  ShiftDown(n) \in [0 .. Size - 1 -> Byte]
BY SizeAssumption DEF ShiftDown, TypeOK

\* What copy_to_user takes from mem is a sequence of bytes.
LEMMA FirstBytesType ==
    ASSUME TypeOK, NEW n \in 0 .. current_len
    PROVE  FirstBytes(n) \in Seq(Byte) /\ Len(FirstBytes(n)) = n
BY SizeAssumption DEF FirstBytes, TypeOK

-----------------------------------------------------------------------------
(* Types                                                                   *)

\* The types hold after globalfifo_probe.
LEMMA InitTypeInv == Init => TypeInv
BY SizeAssumption, ByteAssumption
   DEF Init, TypeInv, TypeOK, BufHoldsCount, TaskState, PC, LockedPC, Op, RW

\* Every step keeps the types.
LEMMA NextTypeInv == TypeInv /\ [Next]_vars => TypeInv'
<1> SUFFICES ASSUME TypeOK, BufHoldsCount, [Next]_vars
             PROVE  TypeOK' /\ BufHoldsCount'
  BY DEF TypeInv
<1> USE DEF Goto, Return, Enter, dev, queues, sched, locals
<1>a. /\ "check" \in PC /\ "copy" \in PC /\ "out" \in PC /\ "closed" \in PC
      /\ "user" \in PC /\ "event" \in PC /\ "lock" \in PC /\ "sched" \in PC
      /\ "relock" \in PC /\ "out2" \in PC /\ "dead" \in PC
  BY DEF PC, LockedPC
<1>b. /\ "read" \in Op /\ "write" \in Op /\ "clear" \in Op /\ "poll" \in Op
      /\ "none" \in Op
  BY DEF Op, RW
<1>c. /\ EAGAIN \in Nat \cup Errors /\ EFAULT \in Nat \cup Errors
      /\ ERESTARTSYS \in Nat \cup Errors
  BY DEF Errors
<1>d. /\ "RUNNING" \in TaskState
      /\ \A o : SleepState(o) \in TaskState
  BY SleepAssumption DEF TaskState, SleepState
<1>1. ASSUME NEW t \in Task, Lock(t) PROVE TypeOK' /\ BufHoldsCount'
  BY <1>1, <1>a DEF Lock, AddWaitQueue, TypeOK, BufHoldsCount
<1>2. ASSUME NEW t \in Task, Check(t) PROVE TypeOK' /\ BufHoldsCount'
  <2>1. CASE Goto(t, "copy") /\ UNCHANGED <<mutex, state, ret>>
    BY <1>2, <2>1, <1>a DEF Check, TypeOK, BufHoldsCount
  <2>2. CASE Return(t, EAGAIN) /\ Goto(t, "out") /\ UNCHANGED <<mutex, state>>
    BY <1>2, <2>2, <1>a, <1>c DEF Check, TypeOK, BufHoldsCount
  <2>3. CASE /\ state' = [state EXCEPT ![t] = SleepState(op[t])]
             /\ mutex' = NoTask /\ Goto(t, "sched") /\ UNCHANGED ret
    BY <1>2, <2>3, <1>a, <1>d DEF Check, TypeOK, BufHoldsCount
  <2> QED
    BY <1>2, <2>1, <2>2, <2>3 DEF Check
<1>3. ASSUME NEW t \in Task, Schedule(t) PROVE TypeOK' /\ BufHoldsCount'
  BY ZenonT(30), <1>3, <1>a, <1>c, <1>d DEF Schedule, TypeOK, BufHoldsCount
<1>4. ASSUME NEW t \in Task, ReadCopy(t) PROVE TypeOK' /\ BufHoldsCount'
  <2> DEFINE n == Lesser(count[t], current_len)
  <2>1. n \in Nat /\ n <= current_len /\ n \in 0 .. current_len
    <3>1. count[t] \in Nat /\ current_len \in Nat
      BY SizeAssumption DEF TypeOK
    <3>2. n \in Nat /\ n <= current_len
      BY <3>1, LesserBound
    <3> HIDE DEF n
    <3> QED
      BY <3>1, <3>2
  <2> HIDE DEF n
  <2>2. /\ FirstBytes(n) \in Seq(Byte)
        /\ ShiftDown(n) \in [0 .. Size - 1 -> Byte]
    BY <2>1, FirstBytesType, ShiftDownType
  <2>3. \A k \in 0 .. n - 1 : FirstBytes(k) \in Seq(Byte)
    <3> SUFFICES ASSUME NEW k \in 0 .. n - 1 PROVE FirstBytes(k) \in Seq(Byte)
      OBVIOUS
    <3>1. k \in 0 .. current_len
      BY <2>1, SizeAssumption DEF TypeOK
    <3> QED
      BY <3>1, FirstBytesType
  <2>4. CASE /\ buf' = [buf EXCEPT ![t] = FirstBytes(n)]
             /\ mem' = ShiftDown(n)
             /\ current_len' = current_len - n
             /\ WakeUpInterruptible("write")
             /\ Return(t, n)
    BY <1>4, <2>1, <2>2, <2>4, <1>a, <1>d, SizeAssumption
       DEF ReadCopy, WakeUpInterruptible, TypeOK, BufHoldsCount, RW
  <2>5. CASE /\ \E k \in 0 .. n - 1 : buf' = [buf EXCEPT ![t] = FirstBytes(k)]
             /\ Return(t, EFAULT)
             /\ UNCHANGED <<dev, state, rdllist>>
    BY <1>4, <2>3, <2>5, <1>a, <1>c DEF ReadCopy, TypeOK, BufHoldsCount
  <2> QED
    BY <1>4, <2>4, <2>5 DEF ReadCopy, n
<1>5. ASSUME NEW t \in Task, WriteCopy(t) PROVE TypeOK' /\ BufHoldsCount'
  <2> DEFINE n == Lesser(count[t], Room)
  <2>1. n \in Nat /\ n <= Len(buf[t]) /\ current_len + n \in 0 .. Size
    <3>1. Room \in Nat /\ current_len + Room = Size
      BY SizeAssumption DEF Room, TypeOK
    <3>2. n \in Nat /\ n <= count[t] /\ n <= Room
      BY Zenon, <3>1, LesserBound DEF TypeOK
    <3>3. count[t] = Len(buf[t])
      BY <1>5 DEF WriteCopy, BufHoldsCount
    <3> HIDE DEF n
    <3> QED
      BY <3>1, <3>2, <3>3, SizeAssumption DEF TypeOK
  <2> HIDE DEF n
  <2>2. \A k \in 0 .. n : CopyIn(t, k, n) \in [0 .. Size - 1 -> Byte]
    <3> SUFFICES ASSUME NEW k \in 0 .. n
                 PROVE  CopyIn(t, k, n) \in [0 .. Size - 1 -> Byte]
      OBVIOUS
    <3>1. k \in Nat /\ k <= Len(buf[t])
      BY <2>1 DEF TypeOK
    <3> QED
      BY <2>1, <3>1, CopyInType
  <2>3. CASE /\ mem' = CopyIn(t, n, n)
             /\ current_len' = current_len + n
             /\ WakeUpInterruptible("read")
             /\ pending' = [u \in Task |-> pending[u] \cup
                                (IF u \in async_queue THEN {"sig"} ELSE {})]
             /\ Return(t, n)
    <3>1. mem' \in [0 .. Size - 1 -> Byte]
      BY <2>1, <2>2, <2>3
    <3>2. pending' \in [Task -> SUBSET {"sig", "kill"}]
      BY <2>3 DEF TypeOK
    <3>3. state' \in [Task -> TaskState] /\ rdllist' \in SUBSET Task
      BY <2>3, <1>d DEF WakeUpInterruptible, TypeOK, RW
    <3> QED
      BY Zenon, <1>5, <2>1, <2>3, <3>1, <3>2, <3>3, <1>a
         DEF WriteCopy, TypeOK, BufHoldsCount
  <2>4. CASE /\ \E k \in 0 .. n - 1 : mem' = CopyIn(t, k, n)
             /\ Return(t, EFAULT)
             /\ UNCHANGED <<current_len, sched, rdllist>>
    <3>1. mem' \in [0 .. Size - 1 -> Byte]
      BY <2>1, <2>2, <2>4
    <3> QED
      BY <1>5, <2>4, <3>1, <1>a, <1>c DEF WriteCopy, TypeOK, BufHoldsCount
  <2> QED
    BY <1>5, <2>3, <2>4 DEF WriteCopy, n
<1>6. ASSUME NEW t \in Task, Out(t) PROVE TypeOK' /\ BufHoldsCount'
  BY <1>6, <1>a DEF Out, TypeOK, BufHoldsCount
<1>7. ASSUME NEW t \in Task, Out2(t) PROVE TypeOK' /\ BufHoldsCount'
  <2>1. wait' \in [RW -> SUBSET Task]
    BY Zenon, <1>7 DEF Out2, TypeOK
  <2>2. /\ state' \in [Task -> TaskState] /\ pc' \in [Task -> PC]
        /\ op' \in [Task -> Op] /\ count' \in [Task -> Nat]
        /\ buf' \in [Task -> Seq(Byte)] /\ ret' \in [Task -> Nat \cup Errors]
    BY <1>7, <1>a, <1>b, <1>d DEF Out2, TypeOK
  <2>3. BufHoldsCount'
    BY <1>7 DEF Out2, TypeOK, BufHoldsCount
  <2> QED
    BY <1>7, <2>1, <2>2, <2>3 DEF Out2, TypeOK
<1>8. ASSUME NEW t \in Task, Clear(t) PROVE TypeOK' /\ BufHoldsCount'
  BY <1>8, <1>a, <1>b, SizeAssumption, ByteAssumption
     DEF Clear, TypeOK, BufHoldsCount
<1>9. ASSUME NEW t \in Task, Poll(t) PROVE TypeOK' /\ BufHoldsCount'
  BY <1>9, <1>a, <1>b DEF Poll, PollWait, TypeOK, BufHoldsCount
<1>10. ASSUME NEW t \in Task, HandleSignal(t) PROVE TypeOK' /\ BufHoldsCount'
  <2>1. pending' \in [Task -> SUBSET {"sig", "kill"}]
    BY <1>10 DEF HandleSignal, TypeOK
  <2>2. CASE Goto(t, "dead") /\ Release(t)
    BY <2>1, <2>2, <1>a DEF Release, TypeOK, BufHoldsCount
  <2>3. CASE UNCHANGED <<dev, mutex, queues, state, pc, op, locals>>
    BY <2>1, <2>3 DEF TypeOK, BufHoldsCount
  <2> QED
    BY <1>10, <2>2, <2>3 DEF HandleSignal
<1>11. ASSUME NEW t \in Task, EpollLoop(t) PROVE TypeOK' /\ BufHoldsCount'
  <2>1. CASE EpollPoll(t)
    BY <2>1, <1>a, <1>b DEF EpollPoll, TypeOK, BufHoldsCount
  <2>2. CASE EpollRead(t)
    BY <2>2, <1>a, <1>b, SizeAssumption DEF EpollRead, TypeOK, BufHoldsCount
  <2> QED
    BY <1>11, <2>1, <2>2 DEF EpollLoop
<1>12. ASSUME NEW t \in Task, ReadCall(t) PROVE TypeOK' /\ BufHoldsCount'
  BY <1>12, <1>a, <1>b, SizeAssumption DEF ReadCall, TypeOK, BufHoldsCount
<1>13. ASSUME NEW t \in Task, WriteCall(t) PROVE TypeOK' /\ BufHoldsCount'
  <2>1. PICK s \in Payload : /\ buf' = [buf EXCEPT ![t] = s]
                             /\ count' = [count EXCEPT ![t] = Len(s)]
    BY Zenon, <1>13 DEF WriteCall
  <2>2. s \in Seq(Byte) /\ Len(s) \in Nat
    BY PayloadSeq
  <2> QED
    BY <1>13, <2>1, <2>2, <1>a, <1>b DEF WriteCall, TypeOK, BufHoldsCount
<1>14. ASSUME NEW t \in Task, IoctlCall(t) PROVE TypeOK' /\ BufHoldsCount'
  BY <1>14, <1>a, <1>b DEF IoctlCall, TypeOK, BufHoldsCount
<1>15. ASSUME NEW t \in Task, Fasync(t) PROVE TypeOK' /\ BufHoldsCount'
  BY <1>15 DEF Fasync, TypeOK, BufHoldsCount
<1>16. ASSUME NEW t \in Task, Open(t) \/ Close(t)
       PROVE  TypeOK' /\ BufHoldsCount'
  <2>1. CASE Open(t)
    BY <2>1, <1>a DEF Open, TypeOK, BufHoldsCount
  <2>2. CASE Close(t)
    BY <2>2, <1>a DEF Close, Release, TypeOK, BufHoldsCount
  <2> QED
    BY <1>16, <2>1, <2>2
<1>17. ASSUME NEW t \in Task, NEW s \in {"sig", "kill"}, Signal(t, s)
       PROVE  TypeOK' /\ BufHoldsCount'
  BY <1>17 DEF Signal, TypeOK, BufHoldsCount
<1>18. CASE UNCHANGED vars
  BY <1>18 DEF vars, TypeOK, BufHoldsCount
<1> QED
  BY <1>1, <1>2, <1>3, <1>4, <1>5, <1>6, <1>7, <1>8, <1>9, <1>10, <1>11,
     <1>12, <1>13, <1>14, <1>15, <1>16, <1>17, <1>18
     DEF Next, Proceed, Call

\* Every variable of GlobalFifo keeps its type: in particular current_len
\* stays within the buffer, whatever counts the callers pass.
THEOREM TypeCorrect == Spec => []TypeOK
<1>1. Spec => []TypeInv
  BY InitTypeInv, NextTypeInv, PTL DEF Spec
<1> QED
  BY <1>1, PTL DEF TypeInv

-----------------------------------------------------------------------------
(* The mutex and the wait queues                                           *)

\* Where a task has its wait entry on a queue.
QueuedPC == LockedPC \cup {"sched", "relock", "out2"}

\* A task in the frame of read or write has its entry on that handler's
\* queue, and only there.
EntryQueued ==
    \A t \in Task :
        /\ pc[t] \in {"check", "sched", "relock", "out", "out2"} => op[t] \in RW
        /\ pc[t] \in QueuedPC /\ op[t] \in RW => t \in wait[op[t]]

QueueInv == MutualExclusion /\ NoDanglingEntries /\ EntryQueued

\* After probe the mutex is free and the queues are empty.
LEMMA InitQueueInv == Init => QueueInv
BY DEF Init, QueueInv, MutualExclusion, NoDanglingEntries, EntryQueued,
       QueuedPC, LockedPC, RW

\* Every step keeps the mutex owned where the code relies on it, and a wait
\* entry queued exactly while its call needs it.
LEMMA NextQueueInv == TypeOK /\ QueueInv /\ [Next]_vars => QueueInv'
<1> SUFFICES ASSUME TypeOK, QueueInv, [Next]_vars PROVE QueueInv'
  OBVIOUS
<1> USE TaskAssumption
    DEF Goto, Return, Enter, dev, queues, sched, locals, QueueInv, TypeOK,
        MutualExclusion, NoDanglingEntries, EntryQueued, QueuedPC, LockedPC,
        RW, InUser
<1>1. ASSUME NEW t \in Task, Lock(t) PROVE QueueInv'
  BY <1>1 DEF Lock, AddWaitQueue
<1>2. ASSUME NEW t \in Task, Check(t) PROVE QueueInv'
  <2>1. CASE Goto(t, "copy") /\ UNCHANGED mutex
    BY <1>2, <2>1 DEF Check
  <2>2. CASE Goto(t, "out") /\ UNCHANGED mutex
    BY <1>2, <2>2 DEF Check
  <2>3. CASE mutex' = NoTask /\ Goto(t, "sched")
    BY <1>2, <2>3 DEF Check
  <2> QED
    BY <1>2, <2>1, <2>2, <2>3 DEF Check
<1>3. ASSUME NEW t \in Task, Schedule(t) PROVE QueueInv'
  <2>1. CASE Goto(t, "out2")
    BY <1>3, <2>1 DEF Schedule
  <2>2. CASE Goto(t, "relock")
    BY <1>3, <2>2 DEF Schedule
  <2> QED
    BY <1>3, <2>1, <2>2 DEF Schedule
<1>4. ASSUME NEW t \in Task, ReadCopy(t) PROVE QueueInv'
  BY <1>4 DEF ReadCopy, WakeUpInterruptible
<1>5. ASSUME NEW t \in Task, WriteCopy(t) PROVE QueueInv'
  BY <1>5 DEF WriteCopy, WakeUpInterruptible
<1>6. ASSUME NEW t \in Task, Out(t) PROVE QueueInv'
  BY <1>6 DEF Out
<1>7. ASSUME NEW t \in Task, Out2(t) PROVE QueueInv'
  BY <1>7 DEF Out2
<1>8. ASSUME NEW t \in Task, Clear(t) PROVE QueueInv'
  BY <1>8 DEF Clear
<1>9. ASSUME NEW t \in Task, Poll(t) PROVE QueueInv'
  BY <1>9 DEF Poll, PollWait
<1>10. ASSUME NEW t \in Task, HandleSignal(t) PROVE QueueInv'
  <2>1. CASE Goto(t, "dead") /\ Release(t)
    BY <1>10, <2>1 DEF HandleSignal, Release
  <2>2. CASE UNCHANGED <<dev, mutex, queues, state, pc, op, locals>>
    BY <2>2
  <2> QED
    BY <1>10, <2>1, <2>2 DEF HandleSignal
<1>11. ASSUME NEW t \in Task, EpollLoop(t) PROVE QueueInv'
  <2>1. CASE EpollPoll(t)
    BY <2>1 DEF EpollPoll
  <2>2. CASE EpollRead(t)
    BY <2>2 DEF EpollRead
  <2> QED
    BY <1>11, <2>1, <2>2 DEF EpollLoop
<1>12. ASSUME NEW t \in Task, ReadCall(t) \/ WriteCall(t) \/ IoctlCall(t)
       PROVE  QueueInv'
  <2>1. CASE ReadCall(t)
    BY <2>1 DEF ReadCall
  <2>2. CASE WriteCall(t)
    BY <2>2 DEF WriteCall
  <2>3. CASE IoctlCall(t)
    BY <2>3 DEF IoctlCall
  <2> QED
    BY <1>12, <2>1, <2>2, <2>3
<1>13. ASSUME NEW t \in Task, Fasync(t) PROVE QueueInv'
  BY <1>13 DEF Fasync
<1>14. ASSUME NEW t \in Task, Open(t) PROVE QueueInv'
  BY <1>14 DEF Open
<1>15. ASSUME NEW t \in Task, Close(t) PROVE QueueInv'
  BY <1>15 DEF Close, Release
<1>16. ASSUME NEW t \in Task, NEW s \in {"sig", "kill"}, Signal(t, s)
       PROVE  QueueInv'
  BY <1>16 DEF Signal
<1>17. CASE UNCHANGED vars
  BY <1>17 DEF vars
<1> HIDE DEF QueueInv, TypeOK
<1> QED
  BY <1>1, <1>2, <1>3, <1>4, <1>5, <1>6, <1>7, <1>8, <1>9, <1>10, <1>11,
     <1>12, <1>13, <1>14, <1>15, <1>16, <1>17
     DEF Next, Proceed, Call

\* dev->mutex is held by whoever is between mutex_lock and mutex_unlock.
THEOREM MutexHeld == Spec => []MutualExclusion
<1>1. Spec => []TypeOK
  BY TypeCorrect
<1>2. Spec => []QueueInv
  BY <1>1, InitQueueInv, NextQueueInv, PTL DEF Spec
<1> QED
  BY <1>2, PTL DEF QueueInv

\* No exit of read or write leaves its wait entry on a queue; no closed file
\* stays on async_queue or on a queue of epoll items.
THEOREM EntriesRemoved == Spec => []NoDanglingEntries
<1>1. Spec => []TypeOK
  BY TypeCorrect
<1>2. Spec => []QueueInv
  BY <1>1, InitQueueInv, NextQueueInv, PTL DEF Spec
<1> QED
  BY <1>2, PTL DEF QueueInv

-----------------------------------------------------------------------------
(* No lost wake-ups                                                        *)

\* Between __set_current_state and the end of schedule() a task is in the
\* state its wait loop chose, or was woken.
SleepInv == \A t \in Task :
                pc[t] = "sched" => state[t] \in {"RUNNING", SleepState(op[t])}

\* Nobody sleeps at first.
LEMMA InitSleepInv == Init => SleepInv
BY DEF Init, SleepInv

\* A task sleeps only in the state its own wait loop has set.
LEMMA NextSleepInv == TypeOK /\ QueueInv /\ SleepInv /\ [Next]_vars => SleepInv'
<1> SUFFICES ASSUME TypeOK, QueueInv, SleepInv, [Next]_vars,
                    NEW u \in Task, pc'[u] = "sched"
             PROVE  state'[u] \in {"RUNNING", SleepState(op'[u])}
  BY DEF SleepInv
<1> USE DEF Goto, Return, Enter, dev, queues, sched, locals, TypeOK, SleepInv,
            InUser
<1>1. ASSUME NEW t \in Task,
             \/ Lock(t) \/ Schedule(t) \/ Out(t) \/ Out2(t) \/ Clear(t)
             \/ EpollLoop(t) \/ ReadCall(t) \/ WriteCall(t) \/ IoctlCall(t)
             \/ Fasync(t) \/ Open(t) \/ Close(t)
             \/ \E s \in {"sig", "kill"} : Signal(t, s)
      PROVE  state'[u] \in {"RUNNING", SleepState(op'[u])}
  <2>1. u # t => pc[u] = pc'[u] /\ op[u] = op'[u] /\ state[u] = state'[u]
    BY <1>1 DEF Lock, Schedule, Out, Out2, Clear, EpollLoop, EpollPoll,
                EpollRead, ReadCall, WriteCall, IoctlCall, Fasync, Open, Close,
                Release, Signal
  <2>2. u = t => pc[u] = pc'[u] /\ op[u] = op'[u] /\ state[u] = state'[u]
    BY <1>1 DEF Lock, Schedule, Out, Out2, Clear, EpollLoop, EpollPoll,
                EpollRead, ReadCall, WriteCall, IoctlCall, Fasync, Open, Close,
                Release, Signal, RW
  <2> QED
    BY <2>1, <2>2
<1>2. ASSUME NEW t \in Task, Check(t)
      PROVE  state'[u] \in {"RUNNING", SleepState(op'[u])}
  BY Zenon, <1>2 DEF Check
<1>3. ASSUME NEW t \in Task, ReadCopy(t) \/ WriteCopy(t)
      PROVE  state'[u] \in {"RUNNING", SleepState(op'[u])}
  BY <1>3 DEF ReadCopy, WriteCopy, WakeUpInterruptible
<1>4. ASSUME NEW t \in Task, Poll(t) \/ HandleSignal(t)
      PROVE  state'[u] \in {"RUNNING", SleepState(op'[u])}
  BY Zenon, <1>4 DEF Poll, PollWait, HandleSignal, Release
<1>5. CASE UNCHANGED vars
  BY <1>5 DEF vars
<1> QED
  BY Zenon, <1>1, <1>2, <1>3, <1>4, <1>5 DEF Next, Proceed, Call

\* A wake-up of queue o leaves nobody asleep there, provided those tasks
\* sleep in TASK_INTERRUPTIBLE.
LEMMA WakeUpReachesAll ==
    ASSUME TypeOK, QueueInv, SleepInv, NEW o \in RW,
           SleepState(o) = "INTERRUPTIBLE", WakeUpInterruptible(o),
           NEW t \in Task, pc[t] = "sched", op[t] = o
    PROVE  state'[t] = "RUNNING"
BY DEF TypeOK, QueueInv, EntryQueued, QueuedPC, SleepInv, WakeUpInterruptible

\* Only a task that goes to sleep itself (Check) becomes a sleeper, and only
\* the copies and FIFO_CLEAR change current_len.
LEMMA OtherSteps ==
    ASSUME TypeOK, NEW t \in Task, NEW u \in Task, NEW o \in RW,
           \/ Lock(t) \/ Schedule(t) \/ Out(t) \/ Out2(t) \/ Poll(t)
           \/ HandleSignal(t) \/ EpollLoop(t) \/ Call(t)
           \/ \E s \in {"sig", "kill"} : Signal(t, s),
           Asleep(u, o)'
    PROVE  Asleep(u, o) /\ current_len' = current_len
<1> USE DEF Goto, Return, Enter, dev, queues, sched, locals, TypeOK, InUser,
            Asleep, RW
<1>1. CASE Lock(t) \/ Schedule(t) \/ Out(t) \/ Out2(t)
  BY <1>1 DEF Lock, Schedule, Out, Out2
<1>2. CASE Poll(t) \/ HandleSignal(t) \/ EpollLoop(t)
  BY <1>2 DEF Poll, HandleSignal, Release, EpollLoop, EpollPoll, EpollRead
<1>3. CASE Call(t)
  BY <1>3 DEF Call, ReadCall, WriteCall, IoctlCall, Fasync, Open, Close, Release
<1>4. CASE \E s \in {"sig", "kill"} : Signal(t, s)
  BY <1>4 DEF Signal
<1> QED
  BY Zenon, <1>1, <1>2, <1>3, <1>4

\* Without FIFO_CLEAR callers nobody is ever in the ioctl handler.
NoClear == \A t \in Task : op[t] # "clear"

\* A program that never calls ioctl is never in its handler.
LEMMA NextNoClear ==
    ASSUME Clearers = {} PROVE TypeOK /\ NoClear /\ [Next]_vars => NoClear'
<1> SUFFICES ASSUME TypeOK, NoClear, [Next]_vars, NEW u \in Task
             PROVE  op'[u] # "clear"
  BY DEF NoClear
<1> USE DEF Enter, NoClear, TypeOK
<1>1. ASSUME NEW t \in Task, Lock(t) \/ Proceed(t) PROVE op'[u] # "clear"
  BY <1>1 DEF Lock, Proceed, Check, Schedule, ReadCopy, WriteCopy, Out, Out2,
              Clear, Poll, HandleSignal, Release
<1>2. ASSUME NEW t \in Task, EpollLoop(t) \/ Call(t) PROVE op'[u] # "clear"
  BY <1>2 DEF EpollLoop, EpollPoll, EpollRead, Call, ReadCall, WriteCall,
              IoctlCall, Fasync, Open, Close, Release
<1>3. ASSUME NEW t \in Task, NEW s \in {"sig", "kill"}, Signal(t, s)
      PROVE op'[u] # "clear"
  BY <1>3 DEF Signal
<1>4. CASE UNCHANGED vars
  BY <1>4 DEF vars
<1> QED
  BY <1>1, <1>2, <1>3, <1>4 DEF Next

\* Each step keeps sleeping writers on a full fifo: a read that makes room
\* wakes all of them.
LEMMA NextWriterNotStranded ==
    TypeOK /\ QueueInv /\ SleepInv /\ NoClear /\ WriterNotStranded /\ [Next]_vars
        => WriterNotStranded'
<1> SUFFICES ASSUME TypeOK, QueueInv, SleepInv, NoClear, WriterNotStranded,
                    [Next]_vars, NEW u \in Task, Asleep(u, "write")'
             PROVE  current_len' = Size
  BY DEF WriterNotStranded
<1>1. ASSUME NEW t \in Task, Check(t) PROVE current_len' = Size
  BY Zenon, <1>1 DEF Check, MustWait, Goto, Asleep, WriterNotStranded, TypeOK, dev
<1>2. ASSUME NEW t \in Task, ReadCopy(t) PROVE current_len' = Size
  <2>1. pc[u] = "sched" /\ op[u] = "write"
    BY <1>2 DEF ReadCopy, Goto, Asleep, TypeOK
  <2>2. CASE WakeUpInterruptible("write")
    BY <2>1, <2>2, WakeUpReachesAll DEF RW, SleepState, Asleep
  <2>3. CASE UNCHANGED <<dev, state>>
    BY <2>1, <2>3 DEF Asleep, dev, WriterNotStranded
  <2> QED
    BY <1>2, <2>2, <2>3 DEF ReadCopy
<1>3. ASSUME NEW t \in Task, WriteCopy(t) PROVE current_len' = Size
  <2>1. Asleep(u, "write")
    BY <1>3 DEF WriteCopy, WakeUpInterruptible, Goto, Asleep, TypeOK, sched
  <2>2. current_len = Size
    BY <2>1 DEF WriterNotStranded
  <2>3. Lesser(count[t], Room) = 0
    BY <2>2, SizeAssumption DEF Lesser, Room, TypeOK
  <2> QED
    BY <1>3, <2>2, <2>3, SizeAssumption DEF WriteCopy
<1>4. ASSUME NEW t \in Task, Clear(t) PROVE FALSE
  BY <1>4 DEF Clear, NoClear
<1>5. CASE UNCHANGED vars
  BY <1>5 DEF vars, dev, sched, Asleep, WriterNotStranded
<1>6. ASSUME NEW t \in Task,
             \/ Lock(t) \/ Schedule(t) \/ Out(t) \/ Out2(t) \/ Poll(t)
             \/ HandleSignal(t) \/ EpollLoop(t) \/ Call(t)
             \/ \E s \in {"sig", "kill"} : Signal(t, s)
      PROVE  current_len' = Size
  BY <1>6, OtherSteps DEF RW, WriterNotStranded
<1> QED
  BY <1>1, <1>2, <1>3, <1>4, <1>5, <1>6 DEF Next, Proceed

\* Each step keeps sleeping readers on an empty fifo: a write wakes all of
\* them when they sleep in TASK_INTERRUPTIBLE.
LEMMA NextReaderNotStranded ==
    ASSUME ReadSleep = "INTERRUPTIBLE"
    PROVE  TypeOK /\ QueueInv /\ SleepInv /\ ReaderNotStranded /\ [Next]_vars
               => ReaderNotStranded'
<1> SUFFICES ASSUME TypeOK, QueueInv, SleepInv, ReaderNotStranded,
                    [Next]_vars, NEW u \in Task, Asleep(u, "read")'
             PROVE  current_len' = 0
  BY DEF ReaderNotStranded
<1>1. ASSUME NEW t \in Task, Check(t) PROVE current_len' = 0
  BY Zenon, <1>1 DEF Check, MustWait, Goto, Asleep, ReaderNotStranded, TypeOK, dev
<1>2. ASSUME NEW t \in Task, WriteCopy(t) PROVE current_len' = 0
  <2>1. pc[u] = "sched" /\ op[u] = "read"
    BY <1>2 DEF WriteCopy, Goto, Asleep, TypeOK
  <2>2. CASE WakeUpInterruptible("read")
    BY <2>1, <2>2, WakeUpReachesAll DEF RW, SleepState, Asleep
  <2>3. CASE UNCHANGED <<current_len, sched>>
    BY <2>1, <2>3 DEF Asleep, sched, ReaderNotStranded
  <2> QED
    BY <1>2, <2>2, <2>3 DEF WriteCopy
<1>3. ASSUME NEW t \in Task, ReadCopy(t) PROVE current_len' = 0
  <2>1. Asleep(u, "read")
    BY <1>3 DEF ReadCopy, WakeUpInterruptible, Goto, Asleep, TypeOK
  <2>2. current_len = 0
    BY <2>1 DEF ReaderNotStranded
  <2>3. Lesser(count[t], current_len) = 0
    BY <2>2 DEF Lesser, TypeOK
  <2> QED
    BY <1>3, <2>2, <2>3 DEF ReadCopy, dev
<1>4. ASSUME NEW t \in Task, Clear(t) PROVE current_len' = 0
  BY <1>4 DEF Clear
<1>5. CASE UNCHANGED vars
  BY <1>5 DEF vars, dev, sched, Asleep, ReaderNotStranded
<1>6. ASSUME NEW t \in Task,
             \/ Lock(t) \/ Schedule(t) \/ Out(t) \/ Out2(t) \/ Poll(t)
             \/ HandleSignal(t) \/ EpollLoop(t) \/ Call(t)
             \/ \E s \in {"sig", "kill"} : Signal(t, s)
      PROVE  current_len' = 0
  BY <1>6, OtherSteps DEF RW, ReaderNotStranded
<1> QED
  BY <1>1, <1>2, <1>3, <1>4, <1>5, <1>6 DEF Next, Proceed

\* Without FIFO_CLEAR no writer sleeps while there is room, in any build and
\* for any number of readers and writers.
THEOREM NoWriterStranded ==
    ASSUME Clearers = {} PROVE Spec => []WriterNotStranded
<1>1. Init => NoClear /\ WriterNotStranded
  BY DEF Init, NoClear, WriterNotStranded, Asleep
<1>2. Spec => []TypeOK
  BY TypeCorrect
<1>3. Spec => []QueueInv
  BY <1>2, InitQueueInv, NextQueueInv, PTL DEF Spec
<1>4. Spec => []SleepInv
  BY <1>2, <1>3, InitSleepInv, NextSleepInv, PTL DEF Spec
<1>5. Spec => []NoClear
  BY <1>1, <1>2, NextNoClear, PTL DEF Spec
<1> QED
  BY <1>1, <1>2, <1>3, <1>4, <1>5, NextWriterNotStranded, PTL DEF Spec

\* In the build that sleeps TASK_INTERRUPTIBLE no reader sleeps while there is
\* data; FIFO_CLEAR does not spoil this.
THEOREM NoReaderStranded ==
    ASSUME ReadSleep = "INTERRUPTIBLE" PROVE Spec => []ReaderNotStranded
<1>1. Init => ReaderNotStranded
  BY DEF Init, ReaderNotStranded, Asleep
<1>2. Spec => []TypeOK
  BY TypeCorrect
<1>3. Spec => []QueueInv
  BY <1>2, InitQueueInv, NextQueueInv, PTL DEF Spec
<1>4. Spec => []SleepInv
  BY <1>2, <1>3, InitSleepInv, NextSleepInv, PTL DEF Spec
<1> QED
  BY <1>1, <1>2, <1>3, <1>4, NextReaderNotStranded, PTL DEF Spec

-----------------------------------------------------------------------------
(* Edge-triggered clients                                                  *)

\* poll registers an item on both queues or on none, and only for clients of
\* epoll.  A registered item that is not ready while there is data belongs to
\* a client that is about to look: it polls, or reads after an event.
EdgeInv ==
    /\ polled["read"] = polled["write"]
    /\ polled["read"] \subseteq EpollClients
    /\ \A t \in Task : op[t] = "poll" => t \in EpollClients
    /\ \A t \in polled["read"] : t \notin rdllist /\ current_len # 0 =>
          \/ pc[t] = "event"
          \/ op[t] = "read" /\ pc[t] \in {"lock", "check", "copy"}
          \/ op[t] = "poll" /\ pc[t] \in {"lock", "copy"}

\* Each step keeps an epoll item ready, or its client on the way to poll or
\* read, while there is data.
LEMMA NextEdgeInv ==
    ASSUME EpollClients \cap Faulty = {}
    PROVE  TypeOK /\ EdgeInv /\ [Next]_vars => EdgeInv'
<1> SUFFICES ASSUME TypeOK, EdgeInv, [Next]_vars PROVE EdgeInv'
  OBVIOUS
<1> USE DEF Goto, Return, Enter, dev, queues, sched, locals, TypeOK, InUser,
            EdgeInv, RW, Registered
<1>1. ASSUME NEW t \in Task, Lock(t) PROVE EdgeInv'
  BY <1>1 DEF Lock, AddWaitQueue
<1>2. ASSUME NEW t \in Task, Check(t) PROVE EdgeInv'
  BY Zenon, <1>2 DEF Check, MustWait
<1>3. ASSUME NEW t \in Task, Schedule(t) PROVE EdgeInv'
  BY <1>3 DEF Schedule
<1>4. ASSUME NEW t \in Task, ReadCopy(t) PROVE EdgeInv'
  <2>1. CASE WakeUpInterruptible("write")
    BY <1>4, <2>1 DEF ReadCopy, WakeUpInterruptible
  <2>2. CASE t \in Faulty /\ UNCHANGED <<dev, rdllist>>
    BY <1>4, <2>2 DEF ReadCopy
  <2> QED
    BY <1>4, <2>1, <2>2 DEF ReadCopy
<1>5. ASSUME NEW t \in Task, WriteCopy(t) PROVE EdgeInv'
  <2>1. CASE WakeUpInterruptible("read")
    BY <1>5, <2>1 DEF WriteCopy, WakeUpInterruptible
  <2>2. CASE UNCHANGED <<current_len, rdllist>>
    BY <1>5, <2>2 DEF WriteCopy
  <2> QED
    BY <1>5, <2>1, <2>2 DEF WriteCopy
<1>6. ASSUME NEW t \in Task, Out(t) PROVE EdgeInv'
  BY <1>6 DEF Out
<1>7. ASSUME NEW t \in Task, Out2(t) PROVE EdgeInv'
  BY <1>7 DEF Out2
<1>8. ASSUME NEW t \in Task, Clear(t) PROVE EdgeInv'
  BY <1>8 DEF Clear
<1>9. ASSUME NEW t \in Task, Poll(t) PROVE EdgeInv'
  BY <1>9 DEF Poll, PollWait
<1>10. ASSUME NEW t \in Task, HandleSignal(t) PROVE EdgeInv'
  <2>1. CASE Goto(t, "dead") /\ Release(t)
    BY <2>1 DEF Release
  <2>2. CASE UNCHANGED <<dev, mutex, queues, state, pc, op, locals>>
    BY <2>2
  <2> QED
    BY <1>10, <2>1, <2>2 DEF HandleSignal
<1>11. ASSUME NEW t \in Task, EpollPoll(t) PROVE EdgeInv'
  BY <1>11 DEF EpollPoll
<1>12. ASSUME NEW t \in Task, EpollRead(t) PROVE EdgeInv'
  BY <1>12 DEF EpollRead
<1>13. ASSUME NEW t \in Task, ReadCall(t) PROVE EdgeInv'
  BY <1>13 DEF ReadCall
<1>14. ASSUME NEW t \in Task, WriteCall(t) \/ IoctlCall(t) PROVE EdgeInv'
  <2>1. CASE WriteCall(t)
    BY <2>1 DEF WriteCall
  <2>2. CASE IoctlCall(t)
    BY <2>2 DEF IoctlCall
  <2> QED
    BY <1>14, <2>1, <2>2
<1>15. ASSUME NEW t \in Task, Fasync(t) \/ Open(t) \/ Close(t) PROVE EdgeInv'
  <2>1. CASE Fasync(t) \/ Open(t)
    BY Zenon, <2>1 DEF Fasync, Open
  <2>2. CASE Close(t)
    BY <2>2 DEF Close, Release
  <2> QED
    BY Zenon, <1>15, <2>1, <2>2
<1>16. ASSUME NEW t \in Task, NEW s \in {"sig", "kill"}, Signal(t, s)
       PROVE  EdgeInv'
  BY <1>16 DEF Signal
<1>17. CASE UNCHANGED vars
  BY <1>17 DEF vars
<1> HIDE DEF EdgeInv, TypeOK
<1> QED
  BY <1>1, <1>2, <1>3, <1>4, <1>5, <1>6, <1>7, <1>8, <1>9, <1>10, <1>11,
     <1>12, <1>13, <1>14, <1>15, <1>16, <1>17
     DEF Next, Proceed, EpollLoop, Call

\* A client of epoll whose buffers do not fault never misses data, edge
\* triggered or not, whatever the other tasks do.
THEOREM NoEdgeLost ==
    ASSUME EpollClients \cap Faulty = {} PROVE Spec => []EdgeNotLost
<1>1. Init => EdgeInv
  BY DEF Init, EdgeInv, RW
<1>2. Spec => []TypeOK
  BY TypeCorrect
<1>3. Spec => []EdgeInv
  BY <1>1, <1>2, NextEdgeInv, PTL DEF Spec
<1>4. TypeOK /\ EdgeInv => EdgeNotLost
  BY Zenon DEF TypeOK, EdgeInv, EdgeNotLost, Registered, RW
<1> QED
  BY <1>2, <1>3, <1>4, PTL

-----------------------------------------------------------------------------
(* Signals and the KILLABLE build                                          *)

\* Only the signal exit of the wait loop makes -ERESTARTSYS the result of a
\* call, and the signal that a read took it for stays pending until the call
\* has returned: only user mode handles signals.
RestartInv ==
    \A t \in Task : ret[t] = ERESTARTSYS =>
        pc[t] = "out2" /\ (op[t] = "read" => FatalSignalPending(t))

\* A step that sets no result but a number or another error, and neither
\* moves a task that is at out2 nor takes a signal from it, keeps RestartInv.
LEMMA RestartStep ==
    ASSUME TypeOK, RestartInv, NEW t \in Task, pc[t] # "out2",
           UNCHANGED ret \/ \E v \in Nat \cup {EAGAIN, EFAULT} : Return(t, v),
           \A u \in Task : u # t => /\ pc'[u] = pc[u] /\ op'[u] = op[u]
                                    /\ pending[u] \subseteq pending'[u]
    PROVE  RestartInv'
<1> SUFFICES ASSUME NEW u \in Task, ret'[u] = ERESTARTSYS
             PROVE  /\ pc'[u] = "out2"
                    /\ op'[u] = "read" => "kill" \in pending'[u]
  BY DEF RestartInv, FatalSignalPending
<1>1. \A v \in Nat \cup {EAGAIN, EFAULT} : v # ERESTARTSYS
  BY DEF EAGAIN, EFAULT, ERESTARTSYS
<1>2. ret[u] = ERESTARTSYS /\ u # t
  BY <1>1 DEF Return, TypeOK, RestartInv
<1> QED
  BY <1>2 DEF RestartInv, FatalSignalPending

\* Where readers sleep KILLABLE, every step keeps RestartInv.
LEMMA NextRestartInv ==
    ASSUME ReadSleep = "KILLABLE"
    PROVE  TypeInv /\ RestartInv /\ [Next]_vars => RestartInv'
<1> SUFFICES ASSUME TypeOK, BufHoldsCount, RestartInv, [Next]_vars
             PROVE  RestartInv'
  BY DEF TypeInv
<1> USE DEF Goto, Enter, dev, queues, sched, locals
<1>1. ASSUME NEW t \in Task, Lock(t) PROVE RestartInv'
  BY <1>1, RestartStep DEF Lock, TypeOK
<1>2. ASSUME NEW t \in Task, Check(t) PROVE RestartInv'
  <2>1. UNCHANGED ret \/ Return(t, EAGAIN)
    BY <1>2 DEF Check
  <2> QED
    BY <1>2, <2>1, RestartStep DEF Check, TypeOK
<1>3. ASSUME NEW t \in Task, Schedule(t) PROVE RestartInv'
  <2>1. CASE ~Interrupted(t)
    BY <1>3, <2>1, RestartStep DEF Schedule, TypeOK
  <2>2. CASE Interrupted(t)
    <3>1. op[t] = "read" => FatalSignalPending(t)
      BY <2>2 DEF Interrupted, SleepState
    <3>2. /\ ret' = [ret EXCEPT ![t] = ERESTARTSYS]
          /\ pc' = [pc EXCEPT ![t] = "out2"]
          /\ op' = op /\ pending' = pending
      BY <1>3, <2>2 DEF Schedule, Return
    <3> QED
      BY <3>1, <3>2 DEF RestartInv, FatalSignalPending, TypeOK
  <2> QED
    BY <2>1, <2>2
<1>4. ASSUME NEW t \in Task, ReadCopy(t) PROVE RestartInv'
  <2>1. Lesser(count[t], current_len) \in Nat
    BY SizeAssumption DEF TypeOK, Lesser
  <2>2. Return(t, Lesser(count[t], current_len)) \/ Return(t, EFAULT)
    BY <1>4 DEF ReadCopy
  <2> QED
    BY <1>4, <2>1, <2>2, RestartStep DEF ReadCopy, TypeOK
<1>5. ASSUME NEW t \in Task, WriteCopy(t) PROVE RestartInv'
  <2>1. Lesser(count[t], Room) \in Nat
    BY SizeAssumption DEF TypeOK, Room, Lesser
  <2>2. Return(t, Lesser(count[t], Room)) \/ Return(t, EFAULT)
    BY <1>5 DEF WriteCopy
  <2>3. \A u \in Task : pending[u] \subseteq pending'[u]
    BY <1>5 DEF WriteCopy
  <2> QED
    BY <1>5, <2>1, <2>2, <2>3, RestartStep DEF WriteCopy, TypeOK
<1>6. ASSUME NEW t \in Task, Out(t) PROVE RestartInv'
  BY <1>6, RestartStep DEF Out, TypeOK
<1>7. ASSUME NEW t \in Task, Out2(t) PROVE RestartInv'
  <2>1. /\ ret' = [ret EXCEPT ![t] = 0] /\ pending' = pending
        /\ \A u \in Task : u # t => pc'[u] = pc[u] /\ op'[u] = op[u]
    BY <1>7 DEF Out2, Return, TypeOK
  <2>2. \A u \in Task : ret'[u] = ERESTARTSYS => u # t /\ ret[u] = ERESTARTSYS
    BY <2>1 DEF TypeOK, ERESTARTSYS
  <2> QED
    BY <2>1, <2>2 DEF RestartInv, FatalSignalPending
<1>8. ASSUME NEW t \in Task, Clear(t) \/ Poll(t) PROVE RestartInv'
  BY <1>8, RestartStep DEF Clear, Poll, TypeOK
<1>9. ASSUME NEW t \in Task, HandleSignal(t) PROVE RestartInv'
  BY <1>9, RestartStep DEF HandleSignal, Release, TypeOK
<1>10. ASSUME NEW t \in Task, EpollLoop(t) \/ Call(t) PROVE RestartInv'
  <2>1. /\ pc[t] # "out2" /\ ret' = ret
        /\ \A u \in Task : u # t => pc'[u] = pc[u] /\ op'[u] = op[u]
        /\ pending' = pending
    BY <1>10 DEF EpollLoop, EpollPoll, EpollRead, Call, ReadCall, WriteCall,
       IoctlCall, Fasync, Open, Close, Release, InUser, TypeOK
  <2> QED
    BY <2>1, RestartStep
<1>11. ASSUME NEW t \in Task, NEW s \in {"sig", "kill"}, Signal(t, s)
       PROVE  RestartInv'
  <2>1. \A u \in Task : pending[u] \subseteq pending'[u]
    BY <1>11 DEF Signal, TypeOK
  <2> QED
    BY <1>11, <2>1 DEF Signal, RestartInv, FatalSignalPending
<1>12. CASE UNCHANGED vars
  BY <1>12 DEF vars, RestartInv, FatalSignalPending
<1> QED
  BY <1>1, <1>2, <1>3, <1>4, <1>5, <1>6, <1>7, <1>8, <1>9, <1>10, <1>11, <1>12
     DEF Next, Proceed

\* In the KILLABLE build, which is the one in the source, a read is never
\* given up for a signal that is not fatal, whoever sends what when, and
\* also when the signal and a wake-up arrive together.
THEOREM ReadOutlivesSignals ==
    ASSUME ReadSleep = "KILLABLE" PROVE Spec => []OnlyFatalInterruptsRead
<1>1. Init => RestartInv
  BY DEF Init, RestartInv, ERESTARTSYS
<1>2. Spec => []TypeInv
  BY InitTypeInv, NextTypeInv, PTL DEF Spec
<1>3. Spec => []RestartInv
  BY <1>1, <1>2, NextRestartInv, PTL DEF Spec
<1>4. RestartInv => OnlyFatalInterruptsRead
  BY DEF RestartInv, OnlyFatalInterruptsRead
<1> QED
  BY <1>3, <1>4, PTL

-----------------------------------------------------------------------------
(***************************************************************************)
(* The refinement.  Every step of the driver is a step of BoundedFifo or   *)
(* leaves the bytes in flight and the callers' buffers alone.              *)
(***************************************************************************)
\* The bytes in the fifo form a sequence of current_len bytes.
ContentsOK ==
    /\ contents \in Seq(Byte)
    /\ Len(contents) = current_len
    /\ \A i \in 1 .. current_len : contents[i] = mem[i - 1]

\* The first current_len bytes of mem form a sequence.
LEMMA ContentsSeq == TypeOK => ContentsOK
<1> SUFFICES ASSUME TypeOK PROVE ContentsOK
  OBVIOUS
<1>1. current_len \in 0 .. current_len
  BY SizeAssumption DEF TypeOK
<1> QED
  BY <1>1, FirstBytesType DEF ContentsOK, contents, FirstBytes

\* memcpy of the rest to the front: a suffix of the fifo stays.
LEMMA ReadTakesPrefix ==
    ASSUME TypeOK, TypeOK', NEW n \in 0 .. current_len,
           mem' = ShiftDown(n), current_len' = current_len - n
    PROVE  /\ FirstBytes(n) = SubSeq(contents, 1, n)
           /\ contents' = SubSeq(contents, n + 1, Len(contents))
<1>1. contents \in Seq(Byte) /\ Len(contents) = current_len
      /\ \A i \in 1 .. current_len : contents[i] = mem[i - 1]
  BY ContentsSeq DEF ContentsOK
<1>2. contents' \in Seq(Byte) /\ Len(contents') = current_len - n
      /\ \A i \in 1 .. current_len - n : contents'[i] = mem'[i - 1]
  <2>1. ContentsOK'
    BY ContentsSeq, PTL
  <2> QED
    BY <2>1 DEF ContentsOK
<1>3. current_len \in Nat /\ n \in Nat /\ n <= current_len
      /\ current_len <= Size /\ Size \in Nat
  BY SizeAssumption DEF TypeOK
<1>4. FirstBytes(n) = SubSeq(contents, 1, n)
  <2>1. /\ FirstBytes(n) \in Seq(Byte) /\ Len(FirstBytes(n)) = n
        /\ \A i \in 1 .. n : FirstBytes(n)[i] = mem[i - 1]
    BY FirstBytesType DEF FirstBytes
  <2>2. /\ SubSeq(contents, 1, n) \in Seq(Byte)
        /\ Len(SubSeq(contents, 1, n)) = n
        /\ \A i \in 1 .. n : SubSeq(contents, 1, n)[i] = mem[i - 1]
    BY <1>1, <1>3
  <2> QED
    BY <2>1, <2>2, <1>3, SeqEqual
<1>5. contents' = SubSeq(contents, n + 1, Len(contents))
  <2> DEFINE rest == SubSeq(contents, n + 1, Len(contents))
  <2>1. /\ rest \in Seq(Byte) /\ Len(rest) = current_len - n
        /\ \A i \in 1 .. current_len - n : rest[i] = mem[i + n - 1]
    BY <1>1, <1>3
  <2>2. \A i \in 1 .. current_len - n : mem'[i - 1] = mem[i + n - 1]
    BY <1>3 DEF ShiftDown
  <2> HIDE DEF rest
  <2>3. \A i \in 1 .. Len(contents') : contents'[i] = rest[i]
    BY <1>2, <2>1, <2>2
  <2>4. contents' = rest
    BY <1>2, <2>1, <2>3, SeqEqual
  <2> QED
    BY <2>4 DEF rest
<1> QED
  BY <1>4, <1>5

\* copy_from_user of n whole bytes at the end of the fifo appends them.
LEMMA WriteAppends ==
    ASSUME TypeOK, TypeOK', NEW t \in Task, NEW n \in 0 .. Len(buf[t]),
           mem' = CopyIn(t, n, n), current_len' = current_len + n
    PROVE  contents' = contents \o SubSeq(buf[t], 1, n)
<1>1. contents \in Seq(Byte) /\ Len(contents) = current_len
      /\ \A i \in 1 .. current_len : contents[i] = mem[i - 1]
  BY ContentsSeq DEF ContentsOK
<1>2. contents' \in Seq(Byte) /\ Len(contents') = current_len + n
      /\ \A i \in 1 .. current_len + n : contents'[i] = mem'[i - 1]
  <2>1. ContentsOK'
    BY ContentsSeq, PTL
  <2> QED
    BY <2>1 DEF ContentsOK
<1>3. /\ current_len \in Nat /\ Size \in Nat /\ n \in Nat
      /\ current_len + n <= Size
  BY SizeAssumption DEF TypeOK
<1>4. buf[t] \in Seq(Byte)
  BY DEF TypeOK
<1> DEFINE new == SubSeq(buf[t], 1, n)
<1>5. /\ new \in Seq(Byte) /\ Len(new) = n
      /\ \A i \in 1 .. n : new[i] = buf[t][i]
  BY <1>4, <1>3
<1>6. \A i \in 1 .. current_len + n :
          mem'[i - 1] = IF i <= current_len THEN mem[i - 1]
                        ELSE buf[t][i - current_len]
  BY <1>3 DEF CopyIn
<1> HIDE DEF new
<1>7. /\ contents \o new \in Seq(Byte)
      /\ Len(contents \o new) = current_len + n
      /\ \A i \in 1 .. current_len + n :
            (contents \o new)[i] = IF i <= current_len THEN contents[i]
                                   ELSE new[i - current_len]
  BY Zenon, <1>1, <1>3, <1>5, ConcatProperties
<1>8. \A i \in 1 .. Len(contents') : contents'[i] = (contents \o new)[i]
  <2> SUFFICES ASSUME NEW i \in 1 .. current_len + n
               PROVE  contents'[i] = (contents \o new)[i]
    BY Zenon, <1>2
  <2>1. CASE i <= current_len
    <3>1. i \in 1 .. current_len
      BY <1>3, <2>1
    <3>2. contents'[i] = mem[i - 1]
      BY <1>2, <1>6, <2>1
    <3>3. (contents \o new)[i] = contents[i]
      BY <1>7, <2>1
    <3> QED
      BY <1>1, <3>1, <3>2, <3>3
  <2>2. CASE ~(i <= current_len)
    <3>1. i - current_len \in 1 .. n
      BY <1>3, <2>2
    <3> QED
      BY Zenon, <1>2, <1>3, <1>5, <1>6, <1>7, <2>2, <3>1
  <2> QED
    BY Zenon, <2>1, <2>2
<1>9. contents' = contents \o new
  BY <1>2, <1>7, <1>8, SeqEqual
<1> QED
  BY <1>9 DEF new

\* copy_from_user that faults half-way touches no byte of the fifo.
LEMMA FaultKeepsContents ==
    ASSUME TypeOK, TypeOK', NEW t \in Task, NEW k \in Nat, NEW n \in Nat,
           mem' = CopyIn(t, k, n), current_len' = current_len
    PROVE  contents' = contents
<1>1. current_len \in Nat /\ current_len <= Size /\ Size \in Nat
  BY SizeAssumption DEF TypeOK
<1>2. \A i \in 1 .. current_len : mem'[i - 1] = mem[i - 1]
  BY <1>1 DEF CopyIn
<1> QED
  BY <1>2 DEF contents, FirstBytes

\* After probe the fifo is empty.
LEMMA InitRefines == Init => Fifo!Init
BY DEF Init, Fifo!Init, contents, FirstBytes

\* Every step of the driver is a step of BoundedFifo or changes neither the
\* contents nor the buffers.
LEMMA StepRefines ==
    TypeInv /\ TypeInv' /\ [Next]_vars => [Fifo!Next]_(Fifo!fifoVars)
<1> SUFFICES ASSUME TypeInv, TypeInv', [Next]_vars
             PROVE  Fifo!Next \/ UNCHANGED <<contents, buf>>
  BY DEF Fifo!fifoVars
<1>0. TypeOK /\ TypeOK' /\ BufHoldsCount
  BY DEF TypeInv
<1>1. ASSUME UNCHANGED <<current_len, mem, buf>>
      PROVE  UNCHANGED <<contents, buf>>
  BY <1>1 DEF contents, FirstBytes
<1>2. ASSUME NEW t \in Task, UNCHANGED <<current_len, mem>>,
             buf' = [buf EXCEPT ![t] = buf'[t]]
      PROVE  Fifo!Fill(t)
  <2>1. buf'[t] \in Seq(Byte)
    BY <1>0 DEF TypeOK
  <2>2. contents' = contents
    BY <1>2 DEF contents, FirstBytes
  <2> QED
    BY <1>2, <2>1, <2>2 DEF Fifo!Fill
<1>3. ASSUME NEW t \in Task, ReadCopy(t) PROVE Fifo!Fill(t) \/ Fifo!Get(t)
  <2> DEFINE n == Lesser(count[t], current_len)
  <2>1. n \in 0 .. current_len
    <3>1. count[t] \in Nat /\ current_len \in Nat
      BY <1>0, SizeAssumption DEF TypeOK
    <3>2. n \in Nat /\ n <= current_len
      BY <3>1, LesserBound
    <3> HIDE DEF n
    <3> QED
      BY <3>1, <3>2
  <2>2. CASE /\ buf' = [buf EXCEPT ![t] = FirstBytes(n)]
             /\ mem' = ShiftDown(n)
             /\ current_len' = current_len - n
    <3> HIDE DEF n
    <3>1. /\ FirstBytes(n) = SubSeq(contents, 1, n)
          /\ contents' = SubSeq(contents, n + 1, Len(contents))
      BY <1>0, <2>1, <2>2, ReadTakesPrefix
    <3>2. n \in 0 .. Len(contents)
      BY <1>0, <2>1, ContentsSeq DEF ContentsOK
    <3> QED
      BY Zenon, <2>2, <3>1, <3>2 DEF Fifo!Get
  <2>3. CASE /\ \E k \in 0 .. n - 1 : buf' = [buf EXCEPT ![t] = FirstBytes(k)]
             /\ UNCHANGED dev
    <3>1. buf' = [buf EXCEPT ![t] = buf'[t]]
      BY <1>0, <2>3 DEF TypeOK
    <3> QED
      BY Zenon, <1>2, <2>3, <3>1 DEF dev
  <2> QED
    BY <1>3, <2>2, <2>3 DEF ReadCopy
<1>4. ASSUME NEW t \in Task, WriteCopy(t)
      PROVE  Fifo!Put(t) \/ UNCHANGED <<contents, buf>>
  <2> DEFINE n == Lesser(count[t], Room)
  <2>1. n \in Nat /\ n \in 0 .. Len(buf[t]) /\ current_len + n <= Size
    <3>1. Room \in Nat /\ current_len + Room = Size
      BY <1>0, SizeAssumption DEF Room, TypeOK
    <3>2. count[t] \in Nat /\ count[t] = Len(buf[t])
      BY <1>0, <1>4 DEF WriteCopy, BufHoldsCount, TypeOK
    <3>3. n \in Nat /\ n <= count[t] /\ n <= Room
      BY Zenon, <3>1, <3>2, LesserBound
    <3> HIDE DEF n
    <3> QED
      BY <1>0, <3>1, <3>2, <3>3, SizeAssumption DEF TypeOK
  <2>2. CASE mem' = CopyIn(t, n, n) /\ current_len' = current_len + n
    <3> HIDE DEF n
    <3>1. contents' = contents \o SubSeq(buf[t], 1, n)
      BY <1>0, <2>1, <2>2, WriteAppends
    <3>2. Len(contents) + n <= Size
      BY Zenon, <1>0, <2>1, ContentsSeq DEF ContentsOK
    <3>3. buf' = buf
      BY <1>4 DEF WriteCopy
    <3> QED
      BY <2>1, <3>1, <3>2, <3>3 DEF Fifo!Put
  <2>3. CASE /\ \E k \in 0 .. n - 1 : mem' = CopyIn(t, k, n)
             /\ UNCHANGED current_len
    <3> HIDE DEF n
    <3>1. PICK k \in 0 .. n - 1 : mem' = CopyIn(t, k, n)
      BY <2>3
    <3>2. contents' = contents
      BY <1>0, <2>1, <2>3, <3>1, FaultKeepsContents
    <3> QED
      BY <1>4, <3>2 DEF WriteCopy
  <2> QED
    BY <1>4, <2>2, <2>3 DEF WriteCopy
<1>5. ASSUME NEW t \in Task, Clear(t) PROVE Fifo!Clear
  BY <1>5 DEF Clear, Fifo!Clear, contents, FirstBytes, locals
<1>6. ASSUME NEW t \in Task, Out2(t) \/ WriteCall(t) PROVE Fifo!Fill(t)
  <2>1. UNCHANGED <<current_len, mem>> /\ buf' = [buf EXCEPT ![t] = buf'[t]]
    BY <1>0, <1>6 DEF Out2, WriteCall, Enter, dev, TypeOK
  <2> QED
    BY <1>2, <2>1
<1>7. ASSUME NEW t \in Task,
             \/ Lock(t) \/ Check(t) \/ Schedule(t) \/ Out(t) \/ Poll(t)
             \/ HandleSignal(t) \/ EpollLoop(t) \/ ReadCall(t) \/ IoctlCall(t)
             \/ Fasync(t) \/ Open(t) \/ Close(t)
             \/ \E s \in {"sig", "kill"} : Signal(t, s)
      PROVE  UNCHANGED <<current_len, mem, buf>>
  BY <1>7 DEF Lock, Check, Schedule, Out, Poll, HandleSignal, Release,
              EpollLoop, EpollPoll, EpollRead, ReadCall, IoctlCall, Fasync,
              Open, Close, Signal, Enter, dev, locals
<1>8. CASE UNCHANGED vars
  BY <1>1, <1>8 DEF vars, dev, locals
<1> QED
  BY <1>1, <1>3, <1>4, <1>5, <1>6, <1>7, <1>8
     DEF Next, Proceed, Call, Fifo!Next

\* The driver implements the bounded fifo for every set of tasks and every
\* Size: bytes come out once, in order, and at most Size are in flight.
THEOREM ImplementsFifo == Spec => IsFifo
<1>1. Spec => []TypeInv
  BY InitTypeInv, NextTypeInv, PTL DEF Spec
<1> QED
  BY <1>1, InitRefines, StepRefines, PTL DEF Spec, IsFifo, Fifo!Spec

=============================================================================
