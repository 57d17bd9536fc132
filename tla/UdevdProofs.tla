---------------------------- MODULE UdevdProofs ----------------------------
(***************************************************************************)
(* Proofs about Udevd, for any devices, any number of workers and any      *)
(* number of events.                                                       *)
(***************************************************************************)
EXTENDS Udevd, WellFoundedInduction, TLAPS

\* Sequence numbers are given in order, and a new event remembers nothing.
Numbered ==
    \A n \in Seqnum : /\ estate[n] = "none" <=> n > seqnum
                      /\ n > seqnum => delaying[n] = 0

\* event->worker and worker->event point at each other while the event runs.
Paired ==
    /\ \A n \in Seqnum : estate[n] = "running" => eworker[n] \in Pid /\ wevent[eworker[n]] = n
    /\ \A w \in Pid : wevent[w] # 0 => estate[wevent[w]] = "running" /\ eworker[wevent[w]] = w

\* What a process has in hand is the event the daemon has it down for, and it
\* has not reported it.
Hands ==
    \A w \in Pid :
        /\ cur[w] # 0 /\ Alive(w) => wevent[w] = cur[w] /\ w \notin msgs
        /\ wstate[w] = "none" <=> proc[w] = "none"
        /\ wstate[w] = "none" => wevent[w] = 0 /\ w \notin msgs
        /\ wstate[w] = "idle" => wevent[w] = 0 /\ w \notin msgs
        /\ proc[w] = "exited" => cur[w] = 0

\* A worker that is through with its event has told the listeners.
Told ==
    \A w \in Pid :
        /\ wevent[w] # 0 /\ proc[w] # "failed" /\ cur[w] = 0 => wevent[w] \in announced
        /\ wevent[w] # 0 /\ w \in msgs => wevent[w] \in announced
        /\ proc[w] = "sent" => cur[w] \in announced
        /\ proc[w] \in {"forked", "work", "sent"} => cur[w] # 0

\* No event before delaying_seqnum stands in the way.
Remembered ==
    \A n \in Seqnum : estate[n] = "queued" =>
        \A m \in List : m < delaying[n] => ~Delays(dev[n], dev[m])

IInv ==
    /\ TypeOK /\ Numbered /\ Paired /\ Hands /\ Told /\ Remembered
    /\ EarlierFirst /\ FreedAnnounced /\ QueueFileTold

----------------------------------------------------------------------------
LEMMA InitIInv == Init => IInv
  <1> SUFFICES ASSUME Init PROVE IInv
    OBVIOUS
  <1> USE UdevAssumption DEF Init, Seqnum, List
  <1>1. TypeOK
    <2>1. \A n \in Seqnum : delaying[n] < n
      OBVIOUS
    <2>2. 0 \in 0 .. MaxEvents /\ 0 \in 0 .. MaxReloads /\ 0 \in 0 .. MaxFaults
      OBVIOUS
    <2> QED
      BY <2>1, <2>2 DEF TypeOK
  <1>2. Numbered /\ Paired
    BY DEF Numbered, Paired
  <1>3. Hands /\ Told
    BY DEF Hands, Told, Alive
  <1>4. Remembered /\ EarlierFirst
    BY DEF Remembered, EarlierFirst
  <1>5. FreedAnnounced /\ QueueFileTold
    BY DEF FreedAnnounced, QueueFileTold
  <1> QED
    BY <1>1, <1>2, <1>3, <1>4, <1>5 DEF IInv

\* Steps that leave the queue alone keep what is said of it.
LEMMA QueueKept ==
    ASSUME IInv, UNCHANGED <<seqnum, dev, estate, delaying>>,
           announced \subseteq announced', exit => exit'
    PROVE  Numbered' /\ Remembered' /\ EarlierFirst' /\ FreedAnnounced'
  <1>1. ListNext = List /\ List' = List
    BY DEF List, ListNext
  <1> QED
    BY <1>1, Zenon DEF IInv, Numbered, Remembered, EarlierFirst, FreedAnnounced

LEMMA WorkerStep ==
    ASSUME IInv, NEW w \in Pid, Worker(w)
    PROVE  IInv'
  <1> USE UdevAssumption
  <1>t. TypeOK
    BY DEF IInv
  <1>u. /\ UNCHANGED <<manager, events, workers>> /\ announced \subseteq announced'
        /\ w \in Pid /\ proc[w] # "none"
    BY DEF Worker, worker_main, Receive, SendDevice, worker_send_message, Terminate, Crash, Alive, file
  <1>1. Numbered' /\ Remembered' /\ EarlierFirst' /\ FreedAnnounced'
    BY <1>u, QueueKept, Zenon DEF manager, events
  <1>2. Paired'
    BY <1>u, Zenon DEF IInv, Paired, events, workers
  <1>3. QueueFileTold'
    <2>1. queue' = queue
      BY <1>t DEF TypeOK, Worker, worker_main, Receive, SendDevice, worker_send_message, Terminate,
                  Crash, OwnsQueue, file
    <2>2. List' = List
      BY <1>u DEF List, events
    <2> QED
      BY <2>1, <2>2, Zenon DEF IInv, QueueFileTold
  <1>4. TypeOK'
    <2>1. cur[w] # 0 => cur[w] \in Seqnum
      BY <1>t DEF TypeOK, Seqnum
    <2>2. proc[w] = "work" => cur[w] # 0
      BY DEF IInv, Told
    <2> QED
      BY <1>t, <2>1, <2>2 DEF TypeOK, Worker, worker_main, Receive, SendDevice, worker_send_message,
           Terminate, Crash, OwnsQueue, file, manager, events, workers
  <1>5. Hands'
    <2> SUFFICES ASSUME NEW v \in Pid
                 PROVE  /\ cur'[v] # 0 /\ Alive(v)' => wevent'[v] = cur'[v] /\ v \notin msgs'
                        /\ wstate'[v] = "none" <=> proc'[v] = "none"
                        /\ wstate'[v] = "none" => wevent'[v] = 0 /\ v \notin msgs'
                        /\ wstate'[v] = "idle" => wevent'[v] = 0 /\ v \notin msgs'
                        /\ proc'[v] = "exited" => cur'[v] = 0
      BY DEF Hands
    <2>1. Hands /\ Told
      BY DEF IInv
    <2> QED
      BY <1>t, <1>u, <2>1 DEF TypeOK, Hands, Told, Alive, Worker, worker_main, Receive, SendDevice,
           worker_send_message, Terminate, Crash, workers
  <1>6. Told'
    <2>1. Hands /\ Told
      BY DEF IInv
    <2> QED
      BY <1>t, <1>u, <2>1 DEF TypeOK, Hands, Told, Alive, Worker, worker_main, Receive, SendDevice,
           worker_send_message, Terminate, Crash, workers
  <1> QED
    BY <1>1, <1>2, <1>3, <1>4, <1>5, <1>6 DEF IInv

\* Steps of the daemon that touch neither queue nor processes.
LEMMA QuietStep ==
    ASSUME IInv, TypeOK', UNCHANGED <<events, wevent, cur, msgs, announced, queue>>,
           exit => exit',
           \A w \in Pid : /\ wstate[w] = "none" <=> wstate'[w] = "none"
                          /\ wstate'[w] = "idle" => wstate[w] = "idle"
                          /\ proc'[w] = proc[w] \/ (Alive(w) /\ proc'[w] = "failed")
    PROVE  IInv'
  <1>1. Numbered' /\ Remembered' /\ EarlierFirst' /\ FreedAnnounced'
    BY QueueKept, Zenon DEF events
  <1>2. Paired' /\ QueueFileTold'
    <2>1. List' = List
      BY DEF List, events
    <2> QED
      BY <2>1, Zenon DEF IInv, Paired, QueueFileTold, events
  <1>3. Hands'
    BY DEF IInv, Hands, Alive
  <1>4. Told'
    BY DEF IInv, Told, Alive
  <1> QED
    BY <1>1, <1>2, <1>3, <1>4 DEF IInv

LEMMA KillWorkers ==
    ASSUME TypeOK, manager_kill_workers
    PROVE  /\ wstate' \in [Pid -> {"none", "running", "idle", "killed"}]
           /\ term' \subseteq Pid
           /\ \A w \in Pid : /\ wstate[w] = "none" <=> wstate'[w] = "none"
                             /\ wstate'[w] = "idle" => wstate[w] = "idle"
  BY DEF TypeOK, manager_kill_workers

LEMMA QuietSteps ==
    ASSUME IInv, \/ manager_reload \/ on_kill_workers_event \/ on_post
                 \/ \E stop \in BOOLEAN : SetExecQueue(stop)
    PROVE  IInv'
  <1> USE UdevAssumption
  <1>t. TypeOK
    BY DEF IInv
  <1>1. CASE manager_reload
    <2>1. TypeOK'
      BY <1>1, <1>t, KillWorkers DEF manager_reload, Dispatch, TypeOK, events, file
    <2>2. /\ UNCHANGED <<events, wevent, cur, msgs, announced, queue>> /\ (exit => exit')
          /\ \A w \in Pid : /\ wstate[w] = "none" <=> wstate'[w] = "none"
                            /\ wstate'[w] = "idle" => wstate[w] = "idle"
                            /\ proc'[w] = proc[w] \/ (Alive(w) /\ proc'[w] = "failed")
      BY <1>1, <1>t, KillWorkers DEF manager_reload, file
    <2> QED
      BY <2>1, <2>2, QuietStep, Zenon
  <1>2. CASE on_kill_workers_event
    <2>1. TypeOK'
      BY <1>2, <1>t, KillWorkers DEF on_kill_workers_event, Dispatch, TypeOK, events, file
    <2>2. /\ UNCHANGED <<events, wevent, cur, msgs, announced, queue>> /\ (exit => exit')
          /\ \A w \in Pid : /\ wstate[w] = "none" <=> wstate'[w] = "none"
                            /\ wstate'[w] = "idle" => wstate[w] = "idle"
                            /\ proc'[w] = proc[w] \/ (Alive(w) /\ proc'[w] = "failed")
      BY <1>2, <1>t, KillWorkers DEF on_kill_workers_event, file
    <2> QED
      BY <2>1, <2>2, QuietStep, Zenon
  <1>3. CASE on_post
    <2>1. TypeOK'
      BY <1>3, <1>t DEF on_post, TypeOK, events, workers, world, file
    <2>2. /\ UNCHANGED <<events, wevent, cur, msgs, announced, queue>> /\ (exit => exit')
          /\ \A w \in Pid : /\ wstate[w] = "none" <=> wstate'[w] = "none"
                            /\ wstate'[w] = "idle" => wstate[w] = "idle"
                            /\ proc'[w] = proc[w] \/ (Alive(w) /\ proc'[w] = "failed")
      BY <1>3 DEF on_post, workers, world, file
    <2> QED
      BY <2>1, <2>2, QuietStep, Zenon
  <1>4. ASSUME NEW stop \in BOOLEAN, SetExecQueue(stop)
        PROVE  IInv'
    <2>1. TypeOK'
      BY <1>4, <1>t DEF SetExecQueue, Dispatch, TypeOK, events, workers, world, file
    <2>2. /\ UNCHANGED <<events, wevent, cur, msgs, announced, queue>> /\ (exit => exit')
          /\ \A w \in Pid : /\ wstate[w] = "none" <=> wstate'[w] = "none"
                            /\ wstate'[w] = "idle" => wstate[w] = "idle"
                            /\ proc'[w] = proc[w] \/ (Alive(w) /\ proc'[w] = "failed")
      BY <1>4 DEF SetExecQueue, workers, world, file
    <2> QED
      BY <2>1, <2>2, QuietStep, Zenon
  <1> QED
    BY <1>1, <1>2, <1>3, <1>4

LEMMA TimeoutStep ==
    ASSUME IInv, NEW n \in Seqnum, on_event_timeout(n)
    PROVE  IInv'
  <1> USE UdevAssumption
  <1>t. TypeOK
    BY DEF IInv
  <1> DEFINE w == eworker[n]
  <1>1. w \in Pid /\ wevent[w] = n
    BY DEF IInv, Paired, on_event_timeout
  <1>2. wstate[w] # "none" /\ n # 0
    BY <1>1 DEF IInv, Hands, Seqnum
  <1>3. wstate' = [wstate EXCEPT ![w] = "killed"] /\ proc' = [proc EXCEPT ![w] = IF Alive(w) THEN "failed" ELSE @]
    BY DEF on_event_timeout
  <1> HIDE DEF w
  <1>4. TypeOK'
    BY <1>1, <1>3, <1>t DEF on_event_timeout, Dispatch, TypeOK, events, file
  <1>5. \A v \in Pid : /\ wstate[v] = "none" <=> wstate'[v] = "none"
                       /\ wstate'[v] = "idle" => wstate[v] = "idle"
                       /\ proc'[v] = proc[v] \/ (Alive(v) /\ proc'[v] = "failed")
    BY <1>1, <1>2, <1>3, <1>t DEF TypeOK
  <1>6. UNCHANGED <<events, wevent, cur, msgs, announced, queue>> /\ (exit => exit')
    BY DEF on_event_timeout, file
  <1> QED
    BY <1>4, <1>5, <1>6, QuietStep, Zenon

LEMMA UeventStep ==
    ASSUME IInv, NEW d \in Device, on_uevent(d)
    PROVE  IInv'
  <1> USE UdevAssumption
  <1>t. TypeOK
    BY DEF IInv
  <1> DEFINE k == seqnum + 1
  <1>1. k \in Seqnum /\ estate[k] = "none" /\ delaying[k] = 0
    BY <1>t DEF IInv, Numbered, on_uevent, TypeOK, Seqnum
  <1>2. /\ dev' = [dev EXCEPT ![k] = d] /\ estate' = [estate EXCEPT ![k] = "queued"]
        /\ seqnum' = k
        /\ UNCHANGED <<eworker, delaying, workers, world, exit>>
    BY DEF on_uevent
  <1>3. TypeOK'
    BY <1>t, <1>1, <1>2 DEF TypeOK, on_uevent, Dispatch, workers, world, Seqnum
  <1>4. List' = List \cup {k}
    BY <1>t, <1>1, <1>2 DEF List, TypeOK
  <1>5. Numbered'
    BY <1>t, <1>1, <1>2 DEF IInv, Numbered, TypeOK, Seqnum
  <1> HIDE DEF k
  <1>6. Paired'
    BY <1>t, <1>1, <1>2 DEF IInv, Paired, TypeOK, workers, Seqnum
  <1>7. Hands' /\ Told'
    BY <1>2, Zenon DEF IInv, Hands, Told, Alive, workers, world
  <1>8. \A m \in List : m # k /\ m < k /\ dev'[m] = dev[m]
    <2>1. \A m \in List : m \in Seqnum /\ m <= seqnum
      BY <1>t DEF IInv, Numbered, List, Seqnum, TypeOK
    <2> QED
      BY <2>1, <1>t, <1>1, <1>2 DEF k, TypeOK, Seqnum
  <1>9. Remembered'
    <2> SUFFICES ASSUME NEW n \in Seqnum, estate'[n] = "queued",
                        NEW m \in List', m < delaying'[n]
                 PROVE  ~Delays(dev'[n], dev'[m])
      BY DEF Remembered
    <2>1. delaying[n] < n /\ delaying'[n] = delaying[n]
      BY <1>t, <1>2 DEF TypeOK
    <2>2. CASE n = k
      BY <2>1, <2>2, <1>1, <1>3 DEF List, Seqnum
    <2>3. CASE n # k
      <3>1. estate[n] = "queued" /\ dev'[n] = dev[n] /\ n < k
        BY <2>3, <1>t, <1>1, <1>2, <1>8 DEF TypeOK, List
      <3>2. m \in List
        BY <3>1, <2>1, <1>4, <1>1, <1>t DEF Seqnum, TypeOK
      <3> QED
        BY <3>1, <3>2, <2>1, <1>8 DEF IInv, Remembered
    <2> QED
      BY <2>2, <2>3
  <1>10. EarlierFirst'
    <2> SUFFICES ASSUME NEW m \in List', NEW n \in List', m < n, estate'[n] = "running"
                 PROVE  ~Delays(dev'[n], dev'[m])
      BY DEF EarlierFirst
    <2>1. n \in List /\ estate[n] = "running"
      BY <1>t, <1>1, <1>2, <1>4 DEF TypeOK
    <2>2. m \in List
      BY <2>1, <1>8, <1>4, <1>1 DEF List, Seqnum
    <2> QED
      BY <2>1, <2>2, <1>8, Zenon DEF IInv, EarlierFirst
  <1>11. FreedAnnounced'
    BY <1>t, <1>1, <1>2 DEF IInv, FreedAnnounced, TypeOK, world
  <1>12. QueueFileTold'
    BY <1>4 DEF IInv, QueueFileTold, on_uevent
  <1> QED
    BY <1>3, <1>5, <1>6, <1>7, <1>9, <1>10, <1>11, <1>12 DEF IInv

\* Taking events out of the queue, once the listeners know of them.
LEMMA FreeStep ==
    ASSUME IInv, NEW S \in SUBSET List, event_free(S), UNCHANGED <<seqnum, dev, delaying>>,
           announced \subseteq announced', exit => exit',
           \A n \in S : n \in announced' \/ exit'
    PROVE  /\ Numbered' /\ Remembered' /\ EarlierFirst' /\ FreedAnnounced' /\ QueueFileTold'
           /\ estate' \in [Seqnum -> {"none", "queued", "running", "freed"}]
           /\ eworker' \in [Seqnum -> Pid \cup {NoPid}]
           /\ queue' \in BOOLEAN
  <1>t. TypeOK
    BY DEF IInv
  <1>1. S \subseteq Seqnum /\ \A n \in S : estate[n] \in {"queued", "running"}
    BY DEF List
  <1>2. \A n \in Seqnum : estate'[n] = IF n \in S THEN "freed" ELSE estate[n]
    BY DEF event_free
  <1>3. List' = List \ S /\ ListNext = List'
    BY <1>1, <1>2 DEF List, ListNext
  <1>4. /\ estate' \in [Seqnum -> {"none", "queued", "running", "freed"}]
        /\ eworker' \in [Seqnum -> Pid \cup {NoPid}]
        /\ queue' \in BOOLEAN
    BY <1>t DEF event_free, TypeOK
  <1>5. Numbered'
    BY <1>1, <1>2 DEF IInv, Numbered
  <1>6. Remembered'
    <2> SUFFICES ASSUME NEW n \in Seqnum, estate'[n] = "queued", NEW m \in List', m < delaying'[n]
                 PROVE  ~Delays(dev'[n], dev'[m])
      BY DEF Remembered
    <2>1. estate[n] = "queued" /\ m \in List /\ m < delaying[n]
      BY <1>2, <1>3
    <2> QED
      BY <2>1, Zenon DEF IInv, Remembered
  <1>7. EarlierFirst'
    <2> SUFFICES ASSUME NEW m \in List', NEW n \in List', m < n, estate'[n] = "running"
                 PROVE  ~Delays(dev'[n], dev'[m])
      BY DEF EarlierFirst
    <2>1. m \in List /\ n \in List /\ estate[n] = "running"
      BY <1>2, <1>3 DEF List
    <2> QED
      BY <2>1, Zenon DEF IInv, EarlierFirst
  <1>8. FreedAnnounced'
    BY <1>2 DEF IInv, FreedAnnounced
  <1>9. QueueFileTold'
    <2>1. queue' = (queue /\ (S = {} \/ List' # {}))
      BY <1>3, Zenon DEF event_free
    <2> QED
      BY <2>1, <1>3, <1>t DEF IInv, QueueFileTold, TypeOK
  <1> QED
    BY <1>4, <1>5, <1>6, <1>7, <1>8, <1>9

LEMMA ExitStep ==
    ASSUME IInv, manager_exit
    PROVE  IInv'
  <1> USE UdevAssumption
  <1>t. TypeOK
    BY DEF IInv
  <1> DEFINE S == {n \in Seqnum : estate[n] = "queued"}
  <1>1. S \in SUBSET List /\ event_free(S) /\ exit'
    BY DEF manager_exit, List
  <1>2. UNCHANGED <<seqnum, dev, delaying, wevent, proc, cur, msgs, announced, faults>> /\ manager_kill_workers
    BY DEF manager_exit
  <1>3. /\ Numbered' /\ Remembered' /\ EarlierFirst' /\ FreedAnnounced' /\ QueueFileTold'
        /\ estate' \in [Seqnum -> {"none", "queued", "running", "freed"}]
        /\ eworker' \in [Seqnum -> Pid \cup {NoPid}]
        /\ queue' \in BOOLEAN
    BY <1>1, <1>2, FreeStep
  <1>4. TypeOK'
    BY <1>t, <1>3, <1>2, KillWorkers DEF manager_exit, Dispatch, TypeOK
  <1>5. Paired'
    <2>1. \A n \in Seqnum : /\ estate'[n] = IF n \in S THEN "freed" ELSE estate[n]
                            /\ eworker'[n] = IF n \in S THEN NoPid ELSE eworker[n]
      BY <1>1 DEF event_free
    <2>2. \A w \in Pid : wevent[w] # 0 => wevent[w] \in Seqnum
      BY <1>t DEF TypeOK, Seqnum
    <2> QED
      BY <1>2, <2>1, <2>2 DEF IInv, Paired
  <1>6. Hands' /\ Told'
    BY <1>t, <1>2, KillWorkers DEF IInv, Hands, Told, Alive
  <1> QED
    BY <1>3, <1>4, <1>5, <1>6 DEF IInv

LEMMA OnWorkerStep ==
    ASSUME IInv, on_worker
    PROVE  IInv'
  <1> USE UdevAssumption
  <1>t. TypeOK
    BY DEF IInv
  <1> DEFINE W == msgs \cap Tracked
             E == {wevent[w] : w \in W} \ {0}
  <1>1. W \subseteq Pid /\ W \subseteq msgs
    BY DEF Tracked
  <1>2. E \in SUBSET List /\ \A n \in E : n \in announced
    <2> SUFFICES ASSUME NEW w \in W, wevent[w] # 0
                 PROVE  wevent[w] \in List /\ wevent[w] \in announced
      OBVIOUS
    <2>1. w \in Pid /\ w \in msgs /\ wevent[w] \in Seqnum
      BY <1>1, <1>t DEF TypeOK, Seqnum
    <2> QED
      BY <2>1 DEF IInv, Paired, Told, List
  <1>3. /\ event_free(E) /\ UNCHANGED <<seqnum, dev, delaying, proc, cur, term, announced, faults, exit>>
        /\ msgs' = {}
        /\ wstate' = [w \in Pid |-> IF w \in W /\ wstate[w] # "killed" THEN "idle" ELSE wstate[w]]
        /\ wevent' = [w \in Pid |-> IF w \in W THEN 0 ELSE wevent[w]]
    BY DEF on_worker
  <1>4. /\ Numbered' /\ Remembered' /\ EarlierFirst' /\ FreedAnnounced' /\ QueueFileTold'
        /\ estate' \in [Seqnum -> {"none", "queued", "running", "freed"}]
        /\ eworker' \in [Seqnum -> Pid \cup {NoPid}]
        /\ queue' \in BOOLEAN
    BY <1>2, <1>3, FreeStep
  <1>5. TypeOK'
    BY <1>t, <1>3, <1>4 DEF on_worker, Dispatch, TypeOK
  <1>6. \A w \in W : wstate[w] # "none"
    BY DEF Tracked
  <1> HIDE DEF W
  <1>7. Paired'
    <2>1. \A n \in Seqnum : /\ estate'[n] = IF n \in E THEN "freed" ELSE estate[n]
                            /\ eworker'[n] = IF n \in E THEN NoPid ELSE eworker[n]
      BY <1>3 DEF event_free
    <2>2. \A w \in Pid : wevent[w] # 0 => wevent[w] \in Seqnum
      BY <1>t DEF TypeOK, Seqnum
    <2>3. \A w \in Pid : w \notin W /\ wevent[w] # 0 => wevent[w] \notin E
      BY <1>1 DEF IInv, Paired
    <2>4. \A n \in Seqnum : n # 0
      BY DEF Seqnum
    <2> QED
      BY <1>3, <2>1, <2>2, <2>3, <2>4 DEF IInv, Paired
  <1>8. Hands'
    BY <1>1, <1>3, <1>6 DEF IInv, Hands, Alive
  <1>9. Told'
    BY <1>1, <1>3 DEF IInv, Told
  <1> QED
    BY <1>4, <1>5, <1>7, <1>8, <1>9 DEF IInv

LEMMA OnSigchldStep ==
    ASSUME IInv, on_sigchld
    PROVE  IInv'
  <1> USE UdevAssumption
  <1>t. TypeOK
    BY DEF IInv
  <1> DEFINE W == {w \in Pid : proc[w] \in {"exited", "failed"}}
             E == {wevent[w] : w \in W} \ {0}
             F == {wevent[w] : w \in {v \in W : proc[v] = "failed"}} \ {0}
  <1>1. /\ event_free(E) /\ UNCHANGED <<seqnum, dev, delaying, faults, exit>>
        /\ proc' = [w \in Pid |-> IF w \in W THEN "none" ELSE proc[w]]
        /\ cur' = [w \in Pid |-> IF w \in W THEN 0 ELSE cur[w]]
        /\ term' = term \ W
        /\ msgs' = (msgs \ W) \cup (IF msgs \cap W # {} THEN {NoPid} ELSE {})
        /\ announced' = IF exit THEN announced ELSE announced \cup F
        /\ wstate' = [w \in Pid |-> IF w \in W THEN "none" ELSE wstate[w]]
        /\ wevent' = [w \in Pid |-> IF w \in W THEN 0 ELSE wevent[w]]
    BY DEF on_sigchld
  <1>2. E \in SUBSET List
    BY <1>t DEF IInv, Paired, List, TypeOK, Seqnum
  <1>3. F \subseteq E /\ E \subseteq Seqnum
    BY <1>2 DEF List
  <1>4. \A n \in E : n \in announced' \/ exit'
    <2> SUFFICES ASSUME NEW w \in W, wevent[w] # 0
                 PROVE  wevent[w] \in announced' \/ exit'
      OBVIOUS
    <2>1. CASE proc[w] = "failed"
      BY <2>1, <1>1
    <2>2. CASE proc[w] = "exited"
      BY <2>2, <1>1 DEF IInv, Hands, Told
    <2> QED
      BY <2>1, <2>2
  <1>5. announced \subseteq announced'
    BY <1>1
  <1>6. /\ Numbered' /\ Remembered' /\ EarlierFirst' /\ FreedAnnounced' /\ QueueFileTold'
        /\ estate' \in [Seqnum -> {"none", "queued", "running", "freed"}]
        /\ eworker' \in [Seqnum -> Pid \cup {NoPid}]
        /\ queue' \in BOOLEAN
    BY <1>1, <1>2, <1>4, <1>5, FreeStep
  <1>7. announced' \subseteq Seqnum
    BY <1>1, <1>3, <1>t DEF TypeOK
  <1>8. \A w \in W : w \in Pid /\ proc[w] # "none" /\ ~Alive(w)
    BY DEF Alive
  <1>9. \A w \in Pid : w \in W <=> proc[w] \in {"exited", "failed"}
    OBVIOUS
  <1> HIDE DEF W, F
  <1>10. TypeOK'
    BY <1>t, <1>1, <1>6, <1>7 DEF on_sigchld, Dispatch, TypeOK
  <1>11. Paired'
    <2>1. \A n \in Seqnum : /\ estate'[n] = IF n \in E THEN "freed" ELSE estate[n]
                            /\ eworker'[n] = IF n \in E THEN NoPid ELSE eworker[n]
      BY <1>1 DEF event_free
    <2>2. \A w \in Pid : wevent[w] # 0 => wevent[w] \in Seqnum
      BY <1>t DEF TypeOK, Seqnum
    <2>3. \A w \in Pid : w \notin W /\ wevent[w] # 0 => wevent[w] \notin E
      BY <1>8 DEF IInv, Paired
    <2>4. \A n \in Seqnum : n # 0
      BY DEF Seqnum
    <2>5. \A w \in Pid : wevent'[w] = IF w \in W THEN 0 ELSE wevent[w]
      BY <1>1
    <2>6. ASSUME NEW w \in Pid, wevent'[w] # 0
          PROVE  estate'[wevent'[w]] = "running" /\ eworker'[wevent'[w]] = w
      <3>1. w \notin W /\ wevent'[w] = wevent[w] /\ wevent[w] # 0
        BY <2>5, <2>6
      <3>2. wevent[w] \in Seqnum /\ wevent[w] \notin E
        BY <2>2, <2>3, <3>1
      <3>3. estate[wevent[w]] = "running" /\ eworker[wevent[w]] = w
        BY <3>1 DEF IInv, Paired
      <3> HIDE DEF E
      <3> QED
        BY <2>1, <3>1, <3>2, <3>3
    <2>7. ASSUME NEW n \in Seqnum, estate'[n] = "running"
          PROVE  eworker'[n] \in Pid /\ wevent'[eworker'[n]] = n
      <3>1. n \notin E
        BY <2>1, <2>7
      <3>2. estate[n] = "running" /\ eworker'[n] = eworker[n]
        BY <2>1, <2>7, <3>1
      <3>3. eworker[n] \in Pid /\ wevent[eworker[n]] = n
        BY <3>2 DEF IInv, Paired
      <3>4. eworker[n] \notin W
        BY <2>4, <3>1, <3>3
      <3> QED
        BY <2>5, <3>2, <3>3, <3>4
    <2> QED
      BY <2>6, <2>7 DEF Paired
  <1>12. Hands'
    <2>1. \A w \in Pid : w \in msgs' <=> w \in msgs /\ w \notin W
      BY <1>1
    <2> QED
      BY <1>1, <1>8, <1>9, <2>1 DEF IInv, Hands, Alive
  <1>13. Told'
    <2>1. \A w \in Pid : w \in msgs' => w \in msgs
      BY <1>1
    <2> QED
      BY <1>1, <1>5, <1>8, <2>1 DEF IInv, Told, Alive
  <1> QED
    BY <1>6, <1>10, <1>11, <1>12, <1>13 DEF IInv

LEMMA FirstExists ==
    ASSUME NEW S \in SUBSET Seqnum, S # {}
    PROVE  FirstOf(S) \in S /\ \A k \in S : FirstOf(S) <= k
  <1>1. S \subseteq Nat
    BY UdevAssumption DEF Seqnum
  <1> DEFINE Less == {p \in Nat \X Nat : p[1] < p[2]}
  <1>2. IsWellFoundedOn(Less, Nat)
    BY NatLessThanWellFounded, Zenon DEF OpToRel
  <1>3. PICK x \in S : \A y \in S : ~(<<y, x>> \in Less)
    <2> HIDE DEF Less
    <2> QED
      BY <1>1, <1>2, WFMin, Zenon
  <1>4. \A y \in S : x <= y
    <2> SUFFICES ASSUME NEW y \in S PROVE x <= y
      OBVIOUS
    <2>1. <<y, x>> \in Nat \X Nat /\ <<y, x>>[1] = y /\ <<y, x>>[2] = x
      BY <1>1
    <2>2. ~(y < x)
      BY <2>1, <1>3, Zenon
    <2> QED
      BY <2>2, <1>1
  <1> QED
    BY <1>4 DEF FirstOf

\* An event that is_device_busy lets go has no related event before it.
LEMMA ReadyClear ==
    ASSUME IInv, NEW n \in Ready
    PROVE  \A m \in List : m < n => ~Delays(dev[n], dev[m])
  <1> SUFFICES ASSUME NEW m \in List, m < n PROVE ~Delays(dev[n], dev[m])
    OBVIOUS
  <1>1. n \in Seqnum /\ estate[n] = "queued" /\ m \in Seqnum /\ delaying[n] \in Int
    BY UdevAssumption DEF Ready, List, IInv, TypeOK
  <1>2. m \notin Blockers(n)
    BY DEF Ready, is_device_busy
  <1>3. CASE m < delaying[n]
    BY <1>1, <1>3, Zenon DEF IInv, Remembered
  <1>4. CASE ~(m < delaying[n])
    <2>1. m = delaying[n] \/ m > delaying[n]
      BY <1>1, <1>4 DEF Seqnum
    <2> QED
      BY <1>2, <2>1, Zenon DEF Blockers
  <1> QED
    BY <1>3, <1>4

\* What is_device_busy remembers keeps its meaning.
LEMMA DelayKept ==
    ASSUME IInv, NEW n \in List, is_device_busy(n), NEW m \in List, m < FirstOf(Blockers(n)),
           estate[n] = "queued"
    PROVE  ~Delays(dev[n], dev[m])
  <1>1. Blockers(n) \in SUBSET Seqnum /\ Blockers(n) # {}
    BY DEF Blockers, List, is_device_busy
  <1>2. /\ FirstOf(Blockers(n)) \in Blockers(n)
        /\ \A k \in Blockers(n) : FirstOf(Blockers(n)) <= k
    BY <1>1, FirstExists
  <1>3. /\ n \in Seqnum /\ m \in Seqnum /\ delaying[n] \in Int
        /\ FirstOf(Blockers(n)) \in Seqnum /\ FirstOf(Blockers(n)) < n
    BY <1>2, UdevAssumption DEF List, IInv, TypeOK, Blockers
  <1>4. m \notin Blockers(n) /\ m < n
    BY <1>2, <1>3 DEF Seqnum
  <1>5. CASE m < delaying[n]
    BY <1>3, <1>5, Zenon DEF IInv, Remembered
  <1>6. CASE ~(m < delaying[n])
    <2>1. m = delaying[n] \/ m > delaying[n]
      BY <1>3, <1>6 DEF Seqnum
    <2> QED
      BY <1>4, <2>1, Zenon DEF Blockers
  <1> QED
    BY <1>5, <1>6

LEMMA RunStep ==
    ASSUME IInv, NEW wst \in [Pid -> {"none", "running", "idle", "killed"}],
           \A w \in Pid : /\ wst[w] = "none" <=> wstate[w] = "none"
                          /\ wst[w] = "idle" => wstate[w] = "idle",
           RunQueue(wst), term' \subseteq Pid,
           UNCHANGED <<seqnum, dev, msgs, announced, exit, queue, stop_exec_queue, post, done>>,
           pc' = "loop", timer' = FALSE, reloads' \in 0 .. MaxReloads
    PROVE  IInv'
  <1> USE UdevAssumption
  <1>t. TypeOK
    BY DEF IInv
  <1> DEFINE idle == {w \in Pid : wst[w] = "idle"}
             free == {w \in Pid : wst[w] = "none"}
  <1>0. PICK f \in [Ready -> Pid \cup {NoPid}], refused \in SUBSET idle, failed \in SUBSET Ready :
        LET count == (IF \E w \in refused : Alive(w) THEN 1 ELSE 0) + (IF failed = {} THEN 0 ELSE 1)
            run == {n \in Ready : f[n] # NoPid}
            given == {f[n] : n \in run}
            EventOf(w) == CHOOSE n \in run : f[n] = w IN
        /\ event_run(f, idle, free, refused, failed)
        /\ faults + count <= MaxFaults
        /\ faults' = faults + count
        /\ starved' = (failed # {})
        /\ estate' = [n \in Seqnum |-> IF n \in run THEN "running" ELSE estate[n]]
        /\ eworker' = [n \in Seqnum |-> IF n \in run THEN f[n] ELSE eworker[n]]
        /\ wstate' = [w \in Pid |-> IF w \in given THEN "running"
                                    ELSE IF w \in refused THEN "killed" ELSE wst[w]]
        /\ wevent' = [w \in Pid |-> IF w \in given THEN EventOf(w) ELSE wevent[w]]
        /\ cur' = [w \in Pid |-> IF w \in given THEN EventOf(w) ELSE cur[w]]
        /\ proc' = [w \in Pid |-> IF w \in given \cap free THEN "forked"
                                  ELSE IF w \in refused /\ Alive(w) THEN "failed" ELSE proc[w]]
        /\ delaying' = [n \in Seqnum |-> IF n \in List /\ estate[n] = "queued" /\ is_device_busy(n)
                                         THEN FirstOf(Blockers(n)) ELSE delaying[n]]
    BY Zenon DEF RunQueue
  <1> DEFINE run == {n \in Ready : f[n] # NoPid}
             given == {f[n] : n \in run}
             EventOf(w) == CHOOSE n \in run : f[n] = w
  <1>1. faults' \in 0 .. MaxFaults /\ starved' \in BOOLEAN
    BY <1>0, <1>t DEF TypeOK
  <1>2. /\ estate' = [n \in Seqnum |-> IF n \in run THEN "running" ELSE estate[n]]
        /\ eworker' = [n \in Seqnum |-> IF n \in run THEN f[n] ELSE eworker[n]]
        /\ wstate' = [w \in Pid |-> IF w \in given THEN "running"
                                    ELSE IF w \in refused THEN "killed" ELSE wst[w]]
        /\ wevent' = [w \in Pid |-> IF w \in given THEN EventOf(w) ELSE wevent[w]]
        /\ cur' = [w \in Pid |-> IF w \in given THEN EventOf(w) ELSE cur[w]]
        /\ proc' = [w \in Pid |-> IF w \in given \cap free THEN "forked"
                                  ELSE IF w \in refused /\ Alive(w) THEN "failed" ELSE proc[w]]
    BY <1>0, Zenon
  <1>3. delaying' = [n \in Seqnum |-> IF n \in List /\ estate[n] = "queued" /\ is_device_busy(n)
                                      THEN FirstOf(Blockers(n)) ELSE delaying[n]]
    BY <1>0, Zenon
  <1>4. /\ run \subseteq Ready /\ Ready \subseteq List /\ List \subseteq Seqnum
        /\ \A n \in Ready : estate[n] = "queued"
    BY DEF Ready, List
  <1>5. /\ \A n \in run : f[n] \in {w \in idle \ refused : Alive(w)} \cup free
        /\ \A m, n \in run : f[m] = f[n] => m = n
    BY <1>0 DEF event_run
  <1>6. \A n \in run : f[n] \in given /\ EventOf(f[n]) = n
    BY <1>5
  <1>7. \A w \in given : EventOf(w) \in run /\ f[EventOf(w)] = w
    OBVIOUS
  <1>8. \A w \in given : /\ w \in Pid /\ w \notin refused
                         /\ \/ w \notin free /\ Alive(w) /\ wstate[w] = "idle"
                            \/ w \in free /\ wstate[w] = "none"
    BY <1>5
  <1>9. \A w \in given : wevent[w] = 0 /\ w \notin msgs
    BY <1>8 DEF IInv, Hands
  <1>10. \A w \in refused : w \in Pid /\ wstate[w] = "idle"
    OBVIOUS
  <1>11. \A w \in Pid : w \in free <=> wstate[w] = "none"
    OBVIOUS
  <1> HIDE DEF run, given, EventOf, idle, free
  <1>12. TypeOK'
    <2>1. \A n \in Seqnum : delaying'[n] \in 0 .. MaxEvents /\ delaying'[n] < n
      <3> SUFFICES ASSUME NEW n \in Seqnum
                   PROVE  delaying'[n] \in 0 .. MaxEvents /\ delaying'[n] < n
        OBVIOUS
      <3>1. CASE n \in List /\ estate[n] = "queued" /\ is_device_busy(n)
        <4>1. Blockers(n) \in SUBSET Seqnum /\ Blockers(n) # {}
          BY <3>1 DEF Blockers, List, is_device_busy
        <4>2. FirstOf(Blockers(n)) \in Blockers(n)
          BY <4>1, FirstExists
        <4> QED
          BY <3>1, <4>1, <4>2, <1>3 DEF Blockers, Seqnum
      <3>2. CASE ~(n \in List /\ estate[n] = "queued" /\ is_device_busy(n))
        BY <3>2, <1>3, <1>t DEF TypeOK
      <3> QED
        BY <3>1, <3>2
    <2>2. delaying' \in [Seqnum -> 0 .. MaxEvents]
      BY <2>1, <1>3
    <2>3. \A w \in given : EventOf(w) \in 0 .. MaxEvents
      <3>1. \A w \in given : EventOf(w) \in Seqnum
        BY <1>4, <1>7, Zenon
      <3> QED
        BY <3>1 DEF Seqnum
    <2>4. estate' \in [Seqnum -> {"none", "queued", "running", "freed"}] /\ eworker' \in [Seqnum -> Pid \cup {NoPid}]
      BY <1>2, <1>4, <1>t DEF TypeOK
    <2>5. /\ wstate' \in [Pid -> {"none", "running", "idle", "killed"}]
          /\ wevent' \in [Pid -> 0 .. MaxEvents] /\ cur' \in [Pid -> 0 .. MaxEvents]
          /\ proc' \in [Pid -> {"none", "forked", "work", "sent", "wait", "exited", "failed"}]
      BY <1>2, <2>3, <1>t DEF TypeOK
    <2> QED
      BY <1>t, <1>1, <2>1, <2>2, <2>4, <2>5 DEF TypeOK
  <1>13. \A n \in Seqnum : /\ n \in run => estate'[n] = "running"
                           /\ n \notin run => estate'[n] = estate[n]
    BY <1>2
  <1>14. List' = List
    BY <1>4, <1>13 DEF List
  <1>15. Numbered' /\ QueueFileTold' /\ FreedAnnounced'
    <2>1. \A n \in Seqnum : n > seqnum => n \notin List
      BY DEF IInv, Numbered, List
    <2>2. Numbered'
      BY <1>3, <1>4, <1>13, <2>1 DEF IInv, Numbered, List
    <2>3. QueueFileTold'
      BY <1>14 DEF IInv, QueueFileTold
    <2>4. FreedAnnounced'
      BY <1>4, <1>13 DEF IInv, FreedAnnounced
    <2> QED
      BY <2>2, <2>3, <2>4
  <1>16. Remembered'
    <2> SUFFICES ASSUME NEW n \in Seqnum, estate'[n] = "queued", NEW m \in List', m < delaying'[n]
                 PROVE  ~Delays(dev'[n], dev'[m])
      BY DEF Remembered
    <2>1. estate[n] = "queued" /\ n \in List /\ m \in List
      BY <1>13, <1>14 DEF List
    <2>2. CASE is_device_busy(n)
      BY <2>1, <2>2, <1>3, DelayKept
    <2>3. CASE ~is_device_busy(n)
      <3>1. m < delaying[n]
        BY <2>3, <1>3
      <3> QED
        BY <3>1, <2>1, Zenon DEF IInv, Remembered
    <2> QED
      BY <2>2, <2>3
  <1>17. EarlierFirst'
    <2> SUFFICES ASSUME NEW m \in List', NEW n \in List', m < n, estate'[n] = "running"
                 PROVE  ~Delays(dev'[n], dev'[m])
      BY DEF EarlierFirst
    <2>1. CASE n \in run
      BY <2>1, <1>4, <1>14, ReadyClear
    <2>2. CASE n \notin run
      <3>1. estate[n] = "running"
        BY <2>2, <1>13, <1>14, <1>4
      <3> QED
        BY <3>1, <1>14, Zenon DEF IInv, EarlierFirst
    <2> QED
      BY <2>1, <2>2
  <1>18. Paired'
    <2>1. ASSUME NEW n \in Seqnum, estate'[n] = "running"
          PROVE  eworker'[n] \in Pid /\ wevent'[eworker'[n]] = n
      <3>1. CASE n \in run
        BY <3>1, <1>2, <1>6, <1>8
      <3>2. CASE n \notin run
        <4>1. eworker'[n] = eworker[n] /\ eworker[n] \in Pid /\ wevent[eworker[n]] = n /\ n # 0
          BY <2>1, <3>2, <1>2, <1>13 DEF IInv, Paired, Seqnum
        <4> QED
          BY <4>1, <1>2, <1>9
      <3> QED
        BY <3>1, <3>2
    <2>2. ASSUME NEW w \in Pid, wevent'[w] # 0
          PROVE  estate'[wevent'[w]] = "running" /\ eworker'[wevent'[w]] = w
      <3>1. CASE w \in given
        BY <3>1, <1>2, <1>4, <1>7
      <3>2. CASE w \notin given
        <4>1. wevent'[w] = wevent[w] /\ wevent[w] \in Seqnum
          BY <2>2, <3>2, <1>2, <1>t DEF TypeOK, Seqnum
        <4>2. estate[wevent[w]] = "running" /\ eworker[wevent[w]] = w
          BY <2>2, <4>1 DEF IInv, Paired
        <4>3. wevent[w] \notin run
          BY <4>2, <1>4
        <4> QED
          BY <4>1, <4>2, <4>3, <1>2
      <3> QED
        BY <3>1, <3>2
    <2> QED
      BY <2>1, <2>2 DEF Paired
  <1>19. \A w \in given : EventOf(w) # 0
    BY <1>4, <1>7 DEF Seqnum
  <1>20. Hands'
    <2> SUFFICES ASSUME NEW w \in Pid
                 PROVE  /\ cur'[w] # 0 /\ Alive(w)' => wevent'[w] = cur'[w] /\ w \notin msgs'
                        /\ wstate'[w] = "none" <=> proc'[w] = "none"
                        /\ wstate'[w] = "none" => wevent'[w] = 0 /\ w \notin msgs'
                        /\ wstate'[w] = "idle" => wevent'[w] = 0 /\ w \notin msgs'
                        /\ proc'[w] = "exited" => cur'[w] = 0
      BY DEF Hands
    <2>1. CASE w \in given
      BY <2>1, <1>2, <1>8, <1>9, <1>11 DEF IInv, Hands, Alive
    <2>2. CASE w \notin given
      BY <2>2, <1>2, <1>10 DEF IInv, Hands, Alive
    <2> QED
      BY <2>1, <2>2
  <1>21. Told'
    <2> SUFFICES ASSUME NEW w \in Pid
                 PROVE  /\ wevent'[w] # 0 /\ proc'[w] # "failed" /\ cur'[w] = 0 => wevent'[w] \in announced'
                        /\ wevent'[w] # 0 /\ w \in msgs' => wevent'[w] \in announced'
                        /\ proc'[w] = "sent" => cur'[w] \in announced'
                        /\ proc'[w] \in {"forked", "work", "sent"} => cur'[w] # 0
      BY DEF Told
    <2>1. CASE w \in given
      <3>1. w \notin free => proc[w] = "wait"
        BY <2>1, <1>8, <1>9 DEF IInv, Hands, Told, Alive
      <3> QED
        BY <2>1, <3>1, <1>2, <1>8, <1>9, <1>19
    <2>2. CASE w \notin given
      BY <2>2, <1>2, <1>10 DEF IInv, Told, Alive
    <2> QED
      BY <2>1, <2>2
  <1> QED
    BY <1>12, <1>15, <1>16, <1>17, <1>18, <1>20, <1>21 DEF IInv

LEMMA QueueStartStep ==
    ASSUME IInv, event_queue_start
    PROVE  IInv'
  <1> USE UdevAssumption
  <1>t. TypeOK
    BY DEF IInv
  <1>1. CASE List = {} \/ exit \/ stop_exec_queue
    <2>1. /\ UNCHANGED <<estate, eworker, delaying, workers, world, reloads, starved>>
          /\ timer' = (timer /\ ~(pc = "reaped" /\ Tracked = {}))
      BY <1>1 DEF event_queue_start
    <2>2. TypeOK'
      BY <2>1, <1>t DEF event_queue_start, TypeOK, workers, world
    <2>3. /\ UNCHANGED <<events, wevent, cur, msgs, announced, queue>> /\ (exit => exit')
          /\ \A w \in Pid : /\ wstate[w] = "none" <=> wstate'[w] = "none"
                            /\ wstate'[w] = "idle" => wstate[w] = "idle"
                            /\ proc'[w] = proc[w] \/ (Alive(w) /\ proc'[w] = "failed")
      BY <2>1 DEF event_queue_start, events, workers, world
    <2> QED
      BY <2>2, <2>3, QuietStep, Zenon
  <1>2. CASE ~(List = {} \/ exit \/ stop_exec_queue)
    <2>1. /\ UNCHANGED <<seqnum, dev, msgs, announced, exit, queue, stop_exec_queue, post, done>>
          /\ pc' = "loop" /\ timer' = FALSE
      BY <1>2 DEF event_queue_start
    <2>2. CASE reloads' = reloads /\ RunQueue(wstate) /\ UNCHANGED term
      BY <2>1, <2>2, <1>t, RunStep DEF TypeOK
    <2> DEFINE W == {w \in Pid : wstate[w] \in {"running", "idle"}}
               wst == [w \in Pid |-> IF w \in W THEN "killed" ELSE wstate[w]]
    <2>3. CASE /\ reloads < MaxReloads /\ reloads' = reloads + 1
               /\ term' = term \cup {w \in W : Alive(w)} /\ RunQueue(wst)
      <3>1. wst \in [Pid -> {"none", "running", "idle", "killed"}]
        BY <1>t DEF TypeOK
      <3>2. \A w \in Pid : /\ wst[w] = "none" <=> wstate[w] = "none"
                           /\ wst[w] = "idle" => wstate[w] = "idle"
        OBVIOUS
      <3>3. term' \subseteq Pid /\ reloads' \in 0 .. MaxReloads
        BY <2>3, <1>t DEF TypeOK
      <3>4. RunQueue(wst)
        BY <2>3
      <3> HIDE DEF wst
      <3> QED
        BY <3>1, <3>2, <3>3, <3>4, <2>1, RunStep
    <2> QED
      BY <1>2, <2>2, <2>3 DEF event_queue_start
  <1> QED
    BY <1>1, <1>2

LEMMA StepIInv == IInv /\ [Next]_vars => IInv'
  <1> SUFFICES ASSUME IInv, [Next]_vars PROVE IInv'
    OBVIOUS
  <1>1. CASE UNCHANGED vars
    <2>1. TypeOK'
      BY <1>1 DEF IInv, TypeOK, vars, manager, events, workers, world, file
    <2>2. /\ UNCHANGED <<events, wevent, cur, msgs, announced, queue>> /\ (exit => exit')
          /\ \A w \in Pid : /\ wstate[w] = "none" <=> wstate'[w] = "none"
                            /\ wstate'[w] = "idle" => wstate[w] = "idle"
                            /\ proc'[w] = proc[w] \/ (Alive(w) /\ proc'[w] = "failed")
      BY <1>1 DEF vars, manager, workers, world, file
    <2> QED
      BY <2>1, <2>2, QuietStep, Zenon
  <1>2. CASE \E w \in Pid : Worker(w)
    BY <1>2, WorkerStep, Zenon
  <1>3. CASE Daemon
    <2>1. CASE on_worker
      BY <2>1, OnWorkerStep
    <2>2. CASE on_sigchld
      BY <2>2, OnSigchldStep
    <2>3. CASE event_queue_start
      BY <2>3, QueueStartStep
    <2>4. CASE manager_exit
      BY <2>4, ExitStep
    <2>5. CASE \E d \in Device : on_uevent(d)
      BY <2>5, UeventStep, Zenon
    <2>6. CASE \E n \in Seqnum : on_event_timeout(n)
      BY <2>6, TimeoutStep, Zenon
    <2>7. CASE manager_reload \/ on_kill_workers_event \/ on_post
               \/ \E stop \in BOOLEAN : SetExecQueue(stop)
      BY <2>7, QuietSteps
    <2> QED
      BY <1>3, <2>1, <2>2, <2>3, <2>4, <2>5, <2>6, <2>7, Zenon DEF Daemon
  <1> QED
    BY <1>1, <1>2, <1>3 DEF Next

LEMMA Invariance == Spec => []IInv
  BY InitIInv, StepIInv, PTL DEF Spec

\* Every field of the daemon's structures keeps its type, and delaying_seqnum
\* names an earlier event.
THEOREM TypeCorrect == Spec => []TypeOK
  <1>1. IInv => TypeOK
    BY DEF IInv
  <1> QED
    BY <1>1, Invariance, PTL

\* No event runs while an earlier one of the same device, a parent or a child
\* is in the queue: is_device_busy and its delaying_seqnum are right, for every
\* set of devices and every number of events and workers.
THEOREM EventsInOrder == Spec => []EarlierFirst
  <1>1. IInv => EarlierFirst
    BY DEF IInv
  <1> QED
    BY <1>1, Invariance, PTL

\* Worker processes never handle related events at the same time.
THEOREM RelatedNeverMeet == Spec => []RelatedApart
  <1>1. IInv => RelatedApart
    <2> SUFFICES ASSUME IInv, NEW v \in Pid, NEW w \in Pid, Alive(v), Alive(w),
                        cur[v] # 0, cur[v] < cur[w]
                 PROVE  ~Delays(dev[cur[w]], dev[cur[v]])
      BY DEF RelatedApart
    <2>1. cur[v] \in Seqnum /\ cur[w] \in Seqnum
      BY UdevAssumption DEF IInv, TypeOK, Seqnum
    <2>2. cur[v] # 0 /\ cur[w] # 0
      BY <2>1 DEF Seqnum
    <2>3. wevent[v] = cur[v] /\ wevent[w] = cur[w]
      BY <2>2 DEF IInv, Hands
    <2>4. estate[cur[v]] = "running" /\ estate[cur[w]] = "running"
      BY <2>2, <2>3 DEF IInv, Paired
    <2> QED
      BY <2>1, <2>4 DEF IInv, EarlierFirst, List
  <1> QED
    BY <1>1, Invariance, PTL

\* Every event that leaves the queue was sent on to the listeners, whichever
\* way its worker ended, unless the daemon is exiting.
THEOREM NothingLost == Spec => []FreedAnnounced
  <1>1. IInv => FreedAnnounced
    BY DEF IInv
  <1> QED
    BY <1>1, Invariance, PTL

\* /run/udev/queue is there exactly while the daemon has events.
THEOREM QueueFileRight == Spec => []QueueFileTold
  <1>1. IInv => QueueFileTold
    BY DEF IInv
  <1> QED
    BY <1>1, Invariance, PTL
=============================================================================
