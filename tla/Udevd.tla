------------------------------- MODULE Udevd -------------------------------
(***************************************************************************)
(* The event queue of systemd's src/udev/udevd.c: the daemon takes uevents *)
(* from the kernel, hands each to a worker process, and keeps back an      *)
(* event while an earlier one for the same device, a parent or a child is  *)
(* in the queue.                                                           *)
(*                                                                         *)
(* The daemon is one thread; its handlers run one at a time (pc = "loop"), *)
(* while the workers run beside it.  A handler that schedules events ends  *)
(* in event_queue_start (pc # "loop"), which is a step of its own because  *)
(* a worker may move between the two.                                      *)
(***************************************************************************)
EXTENDS Integers, Sequences

CONSTANTS
    Device,      \* devices as records [block, devnum, ifindex, path, old]
    Pid,         \* process ids of workers; arg_children_max is their number
    NoPid,
    NoDevice,
    MaxEvents,   \* bound: uevents the kernel sends
    MaxReloads,  \* bound: times that workers are to be replaced
    MaxFaults    \* bound: crashes, refused devices and failed forks

ASSUME UdevAssumption ==
    /\ NoPid \notin Pid
    /\ MaxEvents \in Nat /\ MaxReloads \in Nat /\ MaxFaults \in Nat

VARIABLES
    seqnum,      \* the last SEQNUM the kernel gave
    dev,         \* dev[n]: the device of event n
    estate,      \* estate[n]: "none", "queued", "running" or "freed"
    eworker,     \* eworker[n]: event->worker
    delaying,    \* delaying[n]: event->delaying_seqnum, 0 at first
    wstate,      \* wstate[w]: state of the worker, "none" if w is not in the hashmap
    wevent,      \* wevent[w]: worker->event, 0 if NULL
    stop_exec_queue, exit, timer, post, done, pc, reloads,
    queue,       \* whether /run/udev/queue exists
    proc,        \* proc[w]: what process w does
    cur,         \* cur[w]: the event that process w has in hand or in its socket
    term,        \* processes with a pending SIGTERM
    msgs,        \* senders of the unread messages; NoPid: no longer tracked
    announced,   \* events sent on to the libudev listeners
    starved,     \* whether a fork failed when the queue was last run
    faults

manager == <<stop_exec_queue, exit, timer, post, done, pc, reloads>>
events == <<seqnum, dev, estate, eworker, delaying>>
workers == <<wstate, wevent>>
world == <<proc, cur, term, msgs, announced, faults>>
file == <<queue, starved>>
vars == <<manager, events, workers, world, file>>

Seqnum == 1 .. MaxEvents
List == {n \in Seqnum : estate[n] \in {"queued", "running"}}
ListNext == {n \in Seqnum : estate'[n] \in {"queued", "running"}}
Tracked == {w \in Pid : wstate[w] # "none"}
Alive(w) == proc[w] \in {"forked", "work", "sent", "wait"}

\* One devpath names the same device as the other, or one above it.
Above(p, q) == Len(p) <= Len(q) /\ SubSeq(q, 1, Len(p)) = p

\* The tests of is_device_busy: event e has to wait for the earlier event f.
Delays(e, f) ==
    \/ e.devnum # 0 /\ f.devnum = e.devnum /\ f.block = e.block
    \/ e.ifindex # 0 /\ f.ifindex = e.ifindex
    \/ e.old # <<>> /\ e.old = f.path
    \/ Above(e.path, f.path) \/ Above(f.path, e.path)

\* Slip: the event itself is not passed over.
SlipSelf(n) ==
    {m \in List : /\ m <= n
                  /\ \/ m = delaying[n]
                     \/ m > delaying[n] /\ Delays(dev[n], dev[m])}

\* Slip: once the remembered event is gone, the rest is not looked at.
SlipForgets(n) ==
    {m \in List : /\ m < n
                  /\ \/ m = delaying[n]
                     \/ delaying[n] = 0 /\ Delays(dev[n], dev[m])}

\* Where the loop of is_device_busy stops: the first event of the queue that is
\* not before delaying_seqnum and is that very event, or one e waits for.
Blockers(n) ==
    {m \in List : /\ m < n
                  /\ \/ m = delaying[n]
                     \/ m > delaying[n] /\ Delays(dev[n], dev[m])}
is_device_busy(n) == Blockers(n) # {}
FirstOf(S) == CHOOSE m \in S : \A k \in S : m <= k

Ready == {n \in List : estate[n] = "queued" /\ ~is_device_busy(n)}

----------------------------------------------------------------------------
Init ==
    /\ seqnum = 0
    /\ dev = [n \in Seqnum |-> NoDevice]
    /\ estate = [n \in Seqnum |-> "none"]
    /\ eworker = [n \in Seqnum |-> NoPid]
    /\ delaying = [n \in Seqnum |-> 0]
    /\ wstate = [w \in Pid |-> "none"]
    /\ wevent = [w \in Pid |-> 0]
    /\ stop_exec_queue = FALSE /\ exit = FALSE /\ timer = FALSE
    /\ post = FALSE /\ done = FALSE /\ pc = "loop" /\ reloads = 0
    /\ queue = FALSE
    /\ proc = [w \in Pid |-> "none"]
    /\ cur = [w \in Pid |-> 0]
    /\ term = {} /\ msgs = {} /\ announced = {} /\ faults = 0 /\ starved = FALSE

\* The daemon dispatches an event source; post sources follow.
Dispatch == pc = "loop" /\ ~done /\ post' = TRUE

\* event_free: the queue loses the events of S, and the last one takes the
\* file with it.
event_free(S) ==
    /\ estate' = [n \in Seqnum |-> IF n \in S THEN "freed" ELSE estate[n]]
    /\ eworker' = [n \in Seqnum |-> IF n \in S THEN NoPid ELSE eworker[n]]
    /\ queue' = (queue /\ (S = {} \/ ListNext # {}))

\* manager_kill_workers: SIGTERM to every worker that is not killed yet.
manager_kill_workers ==
    LET W == {w \in Pid : wstate[w] \in {"running", "idle"}} IN
    /\ wstate' = [w \in Pid |-> IF w \in W THEN "killed" ELSE wstate[w]]
    /\ term' = term \cup {w \in W : Alive(w)}

\* on_uevent, event_queue_insert
on_uevent(d) ==
    /\ Dispatch
    /\ ~exit
    /\ seqnum < MaxEvents
    /\ seqnum' = seqnum + 1
    /\ dev' = [dev EXCEPT ![seqnum + 1] = d]
    /\ estate' = [estate EXCEPT ![seqnum + 1] = "queued"]
    /\ queue' = (queue \/ List = {})
    /\ pc' = "start"
    /\ UNCHANGED <<eworker, delaying, workers, world,
                   stop_exec_queue, exit, timer, done, reloads, starved>>

\* on_worker reads every message of its socket.
on_worker ==
    LET W == msgs \cap Tracked
        E == {wevent[w] : w \in W} \ {0} IN
    /\ Dispatch
    /\ msgs # {}
    /\ msgs' = {}
    /\ wstate' = [w \in Pid |-> IF w \in W /\ wstate[w] # "killed" THEN "idle" ELSE wstate[w]]
    /\ wevent' = [w \in Pid |-> IF w \in W THEN 0 ELSE wevent[w]]
    /\ event_free(E)
    /\ pc' = "start"
    /\ UNCHANGED <<seqnum, dev, delaying, proc, cur, term, announced, faults,
                   stop_exec_queue, exit, timer, done, reloads, starved>>

\* on_sigchld reaps every dead worker.  The event of a worker that failed is
\* forwarded as the kernel sent it.
on_sigchld ==
    LET W == {w \in Pid : proc[w] \in {"exited", "failed"}}
        E == {wevent[w] : w \in W} \ {0}
        F == {wevent[w] : w \in {v \in W : proc[v] = "failed"}} \ {0} IN
    /\ Dispatch
    /\ W # {}
    /\ proc' = [w \in Pid |-> IF w \in W THEN "none" ELSE proc[w]]
    /\ cur' = [w \in Pid |-> IF w \in W THEN 0 ELSE cur[w]]
    /\ term' = term \ W
    /\ msgs' = (msgs \ W) \cup (IF msgs \cap W # {} THEN {NoPid} ELSE {})
    /\ announced' = IF exit THEN announced ELSE announced \cup F
    /\ wstate' = [w \in Pid |-> IF w \in W THEN "none" ELSE wstate[w]]
    /\ wevent' = [w \in Pid |-> IF w \in W THEN 0 ELSE wevent[w]]
    /\ event_free(E)
    /\ pc' = "reaped"
    /\ UNCHANGED <<seqnum, dev, delaying, faults, starved,
                   stop_exec_queue, exit, timer, done, reloads>>

\* event_run gives an event to an idle worker, or else to a new one, or leaves
\* it in the queue.  f says which worker each ready event gets (NoPid: none),
\* refused which idle workers did not take it (a dead one never does), failed
\* which forks failed.
event_run(f, idle, free, refused, failed) ==
    /\ \A n \in Ready : f[n] \in {w \in idle \ refused : Alive(w)} \cup free \cup {NoPid}
    /\ \A m, n \in Ready : f[m] = f[n] /\ f[m] # NoPid => m = n
    /\ \A n \in Ready : f[n] \notin idle =>
           \A w \in idle : w \in refused \/ \E m \in Ready : m < n /\ f[m] = w
    /\ \A n \in Ready : f[n] = NoPid /\ n \notin failed =>
           \A w \in free : \E m \in Ready : m < n /\ f[m] = w
    /\ failed \subseteq {n \in Ready : f[n] = NoPid}
    /\ Ready = {} => refused = {}

\* The loop of event_queue_start over the queue, with the workers left after a
\* reload.  worker_attach_event ties worker and event.
RunQueue(wst) ==
    LET idle == {w \in Pid : wst[w] = "idle"}
        free == {w \in Pid : wst[w] = "none"} IN
    \E f \in [Ready -> Pid \cup {NoPid}], refused \in SUBSET idle, failed \in SUBSET Ready :
        LET count == (IF \E w \in refused : Alive(w) THEN 1 ELSE 0) + (IF failed = {} THEN 0 ELSE 1)
            run == {n \in Ready : f[n] # NoPid}
            given == {f[n] : n \in run}
            EventOf(w) == CHOOSE n \in run : f[n] = w IN
        /\ event_run(f, idle, free, refused, failed)
        /\ faults + count <= MaxFaults
        /\ faults' = faults + count
        /\ starved' = (failed # {})
        /\ estate' = [n \in Seqnum |-> IF n \in run THEN "running" ELSE estate[n]]
        /\ eworker' = [n \in Seqnum |-> IF n \in run THEN f[n] ELSE eworker[n]]
        /\ wstate' = [w \in Pid |-> IF w \in given THEN "running"
                                    ELSE IF w \in refused THEN "killed" ELSE wst[w]]
        /\ wevent' = [w \in Pid |-> IF w \in given THEN EventOf(w) ELSE wevent[w]]
        /\ cur' = [w \in Pid |-> IF w \in given THEN EventOf(w) ELSE cur[w]]
        /\ proc' = [w \in Pid |-> IF w \in given \cap free THEN "forked"
                                  ELSE IF w \in refused /\ Alive(w) THEN "failed" ELSE proc[w]]
        /\ delaying' = [n \in Seqnum |-> IF n \in List /\ estate[n] = "queued" /\ is_device_busy(n)
                                         THEN FirstOf(Blockers(n)) ELSE delaying[n]]

event_queue_start ==
    /\ pc # "loop"
    /\ pc' = "loop"
    /\ IF List = {} \/ exit \/ stop_exec_queue
       THEN /\ UNCHANGED <<estate, eworker, delaying, workers, world, reloads, starved>>
            /\ timer' = (timer /\ ~(pc = "reaped" /\ Tracked = {}))
       ELSE /\ \/ /\ reloads' = reloads
                  /\ RunQueue(wstate)
                  /\ UNCHANGED term
               \/ /\ reloads < MaxReloads      \* the rules or a builtin changed
                  /\ reloads' = reloads + 1
                  /\ LET W == {w \in Pid : wstate[w] \in {"running", "idle"}} IN
                     /\ term' = term \cup {w \in W : Alive(w)}
                     /\ RunQueue([w \in Pid |-> IF w \in W THEN "killed" ELSE wstate[w]])
            /\ timer' = FALSE
            /\ UNCHANGED <<msgs, announced>>
    /\ UNCHANGED <<seqnum, dev, stop_exec_queue, exit, post, done, queue>>

\* manager_reload on SIGHUP and on request; a changed log level or environment
\* replaces the workers in the same way.
manager_reload ==
    /\ Dispatch
    /\ reloads < MaxReloads
    /\ reloads' = reloads + 1
    /\ manager_kill_workers
    /\ UNCHANGED <<events, wevent, proc, cur, msgs, announced, faults, file,
                   stop_exec_queue, exit, timer, done, pc>>

on_kill_workers_event ==
    /\ Dispatch
    /\ timer
    /\ timer' = FALSE
    /\ manager_kill_workers
    /\ UNCHANGED <<events, wevent, proc, cur, msgs, announced, faults, file,
                   stop_exec_queue, exit, done, pc, reloads>>

\* on_ctrl_msg: UDEV_CTRL_STOP_EXEC_QUEUE and UDEV_CTRL_START_EXEC_QUEUE
SetExecQueue(stop) ==
    /\ Dispatch
    /\ ~exit
    /\ stop_exec_queue' = stop
    /\ pc' = IF stop THEN "loop" ELSE "start"
    /\ UNCHANGED <<events, workers, world, file, exit, timer, done, reloads>>

\* Slip: the queued events are kept.
SlipKeepsQueue ==
    /\ Dispatch
    /\ exit' = TRUE
    /\ manager_kill_workers
    /\ UNCHANGED <<events, wevent, proc, cur, msgs, announced, faults, file,
                   stop_exec_queue, timer, done, pc, reloads>>

\* manager_exit, on SIGTERM or UDEV_CTRL_EXIT: queued events are dropped.
manager_exit ==
    /\ Dispatch
    /\ exit' = TRUE
    /\ event_free({n \in Seqnum : estate[n] = "queued"})
    /\ manager_kill_workers
    /\ UNCHANGED <<seqnum, dev, delaying, wevent, proc, cur, msgs, announced, faults, starved,
                   stop_exec_queue, timer, done, pc, reloads>>

\* Slip: the worker is only asked to terminate.
SlipSigterm(n) ==
    /\ Dispatch
    /\ estate[n] = "running"
    /\ wstate' = [wstate EXCEPT ![eworker[n]] = "killed"]
    /\ term' = term \cup {eworker[n]}
    /\ UNCHANGED <<events, wevent, proc, cur, msgs, announced, faults, file,
                   stop_exec_queue, exit, timer, done, pc, reloads>>

\* on_event_timeout kills the worker of an event that takes too long.
on_event_timeout(n) ==
    /\ Dispatch
    /\ estate[n] = "running"
    /\ LET w == eworker[n] IN
       /\ wstate' = [wstate EXCEPT ![w] = "killed"]
       /\ proc' = [proc EXCEPT ![w] = IF Alive(w) THEN "failed" ELSE @]
    /\ UNCHANGED <<events, wevent, cur, term, msgs, announced, faults, file,
                   stop_exec_queue, exit, timer, done, pc, reloads>>

on_post ==
    /\ pc = "loop" /\ ~done
    /\ post
    /\ post' = FALSE
    /\ timer' = (timer \/ (List = {} /\ Tracked # {}))
    /\ done' = (exit /\ List = {} /\ Tracked = {})
    /\ UNCHANGED <<events, workers, world, file, stop_exec_queue, exit, pc, reloads>>

----------------------------------------------------------------------------
\* Slip: every process removes the file.
SlipOwnsQueue(process) == TRUE

\* worker_main drops the queue it inherited.  Only the daemon may remove the
\* file of the queue, whose process id event_free compares with its own.
OwnsQueue(process) == process = "daemon"

worker_main(w) ==
    /\ proc[w] = "forked"
    /\ proc' = [proc EXCEPT ![w] = "work"]
    /\ queue' = (queue /\ ~OwnsQueue("worker"))
    /\ UNCHANGED <<manager, events, workers, cur, term, msgs, announced, faults, starved>>

\* A worker that waits takes the device from its socket.
Receive(w) ==
    /\ proc[w] = "wait"
    /\ cur[w] # 0
    /\ proc' = [proc EXCEPT ![w] = "work"]
    /\ UNCHANGED <<manager, events, workers, cur, term, msgs, announced, faults, file>>

\* Slip: the daemon is told before the listeners are.
SlipTellsFirst(w) ==
    /\ proc[w] = "work"
    /\ proc' = [proc EXCEPT ![w] = "sent"]
    /\ announced' = announced \cup {cur[w]}
    /\ msgs' = msgs \cup {w}
    /\ UNCHANGED <<manager, events, workers, cur, term, faults, file>>

\* worker_device_monitor_handler: rules, then the listeners, then the daemon.
SendDevice(w) ==
    /\ proc[w] = "work"
    /\ proc' = [proc EXCEPT ![w] = "sent"]
    /\ announced' = announced \cup {cur[w]}
    /\ UNCHANGED <<manager, events, workers, cur, term, msgs, faults, file>>

\* The result of the send is ignored: the message may be lost.
worker_send_message(w) ==
    /\ proc[w] = "sent"
    /\ proc' = [proc EXCEPT ![w] = "wait"]
    /\ cur' = [cur EXCEPT ![w] = 0]
    /\ \/ msgs' = msgs \cup {w} /\ faults' = faults
       \/ faults < MaxFaults /\ faults' = faults + 1 /\ msgs' = msgs
    /\ UNCHANGED <<manager, events, workers, term, announced, file>>

\* Slip: SIGTERM overtakes the device.
SlipOvertakes(w) ==
    /\ proc[w] = "wait"
    /\ w \in term
    /\ proc' = [proc EXCEPT ![w] = "exited"]
    /\ UNCHANGED <<manager, events, workers, cur, term, msgs, announced, faults, file>>

\* The event loop of the worker exits on SIGTERM.  A device that was sent to
\* the worker before the signal is dispatched before it.
Terminate(w) ==
    /\ proc[w] = "wait"
    /\ cur[w] = 0
    /\ w \in term
    /\ proc' = [proc EXCEPT ![w] = "exited"]
    /\ UNCHANGED <<manager, events, workers, cur, term, msgs, announced, faults, file>>

Crash(w) ==
    /\ Alive(w)
    /\ faults < MaxFaults
    /\ faults' = faults + 1
    /\ proc' = [proc EXCEPT ![w] = "failed"]
    /\ UNCHANGED <<manager, events, workers, cur, term, msgs, announced, file>>

Daemon ==
    \/ on_worker \/ on_sigchld \/ event_queue_start
    \/ manager_reload \/ on_kill_workers_event \/ manager_exit \/ on_post
    \/ \E d \in Device : on_uevent(d)
    \/ \E stop \in BOOLEAN : SetExecQueue(stop)
    \/ \E n \in Seqnum : on_event_timeout(n)

Worker(w) ==
    \/ worker_main(w) \/ Receive(w) \/ SendDevice(w) \/ worker_send_message(w)
    \/ Terminate(w) \/ Crash(w)

Next == Daemon \/ \E w \in Pid : Worker(w)

Spec == Init /\ [][Next]_vars

\* What a worker does without being asked, the rules apart: they may hang.
Runs(w) == worker_main(w) \/ Receive(w) \/ worker_send_message(w) \/ Terminate(w)

\* The event loop dispatches a source that stays pending before younger ones of
\* its priority, so none starves while the others come and go.
Fairness ==
    /\ SF_vars(on_worker)
    /\ SF_vars(on_sigchld)
    /\ SF_vars(on_kill_workers_event)
    /\ SF_vars(on_post)
    /\ WF_vars(event_queue_start)
    /\ \A n \in Seqnum : SF_vars(on_event_timeout(n))
    /\ \A w \in Pid : WF_vars(Runs(w))

FairSpec == Spec /\ Fairness

----------------------------------------------------------------------------
\* Type invariant: what the fields of Manager, event and worker may hold.
TypeOK ==
    /\ seqnum \in 0 .. MaxEvents
    /\ dev \in [Seqnum -> Device \cup {NoDevice}]
    /\ estate \in [Seqnum -> {"none", "queued", "running", "freed"}]
    /\ eworker \in [Seqnum -> Pid \cup {NoPid}]
    /\ delaying \in [Seqnum -> 0 .. MaxEvents] /\ \A n \in Seqnum : delaying[n] < n
    /\ wstate \in [Pid -> {"none", "running", "idle", "killed"}]
    /\ wevent \in [Pid -> 0 .. MaxEvents]
    /\ stop_exec_queue \in BOOLEAN /\ exit \in BOOLEAN /\ timer \in BOOLEAN
    /\ post \in BOOLEAN /\ done \in BOOLEAN /\ queue \in BOOLEAN /\ starved \in BOOLEAN
    /\ pc \in {"loop", "start", "reaped"}
    /\ reloads \in 0 .. MaxReloads /\ faults \in 0 .. MaxFaults
    /\ proc \in [Pid -> {"none", "forked", "work", "sent", "wait", "exited", "failed"}]
    /\ cur \in [Pid -> 0 .. MaxEvents]
    /\ term \subseteq Pid /\ msgs \subseteq Pid \cup {NoPid} /\ announced \subseteq Seqnum

\* An event runs only when no earlier event for the same device, a parent or a
\* child is in the queue, whatever is_device_busy remembers in delaying_seqnum
\* from one scheduling to the next.
EarlierFirst ==
    \A m, n \in List : m < n /\ estate[n] = "running" => ~Delays(dev[n], dev[m])

\* Two live worker processes never have related events in hand at once: the
\* daemon frees an event, and so lets the next one go, only after the worker
\* has finished with it, be the worker killed, slow or forgotten.
RelatedApart ==
    \A v, w \in Pid :
        Alive(v) /\ Alive(w) /\ cur[v] # 0 /\ cur[v] < cur[w]
            => ~Delays(dev[cur[w]], dev[cur[v]])

\* Until the daemon is told to exit, an event leaves the queue only after the
\* libudev listeners were sent it: by its worker, or by on_sigchld for a worker
\* that failed, on every way a worker can be killed or replaced.
FreedAnnounced ==
    \A n \in Seqnum : estate[n] = "freed" => n \in announced \/ exit

\* /run/udev/queue, which "udevadm settle" waits on, exists exactly while the
\* daemon has events, though every new worker frees its copy of the queue.
QueueFileTold == queue <=> List # {}

\* Every event leaves the queue in the end, with its worker killed, crashed or
\* hanging, unless the queue is stopped by UDEV_CTRL_STOP_EXEC_QUEUE.  A failed
\* fork does not strand it while a worker is left whose end runs the queue again.
EventsHandled ==
    \A n \in Seqnum :
        n \in List ~> \/ n \notin List
                      \/ stop_exec_queue
                      \/ starved /\ Tracked = {}

\* A daemon that was told to exit waits for its workers and then does.
ExitEnds == exit ~> done
=============================================================================
