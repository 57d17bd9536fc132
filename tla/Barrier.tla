------------------------------ MODULE Barrier ------------------------------
(***************************************************************************)
(* The barrier of systemd's src/shared/barrier.c: two processes, parent    *)
(* and child, synchronise through two eventfd counters and a pipe.  Each   *)
(* side writes to one counter and reads the other; the pipe tells a side   *)
(* that the other one is gone.                                             *)
(*                                                                         *)
(* A side is one thread, so everything between two system calls is one     *)
(* step.  poll(2) looks at its descriptors one after the other, in the     *)
(* order of the array; it takes two steps.                                 *)
(***************************************************************************)
EXTENDS Integers

CONSTANTS
    BARRIER_ABORTION,   \* the largest value of the signed counter (INT64_MAX)
    MaxPlaces,          \* bound: barriers a side places
    MaxErrors           \* bound: system calls that fail for good

\* A side cannot place anywhere near 2^63 barriers.
ASSUME CounterAssumption ==
    /\ BARRIER_ABORTION \in Nat
    /\ MaxPlaces \in Nat
    /\ MaxErrors \in Nat
    /\ MaxPlaces + 4 < BARRIER_ABORTION

VARIABLES
    efd,        \* efd[s]: the counter of the eventfd that s calls "me"
    ends,       \* ends[s]: the ends of the pipe that s has open
    barriers,   \* barriers[s]: the field b->barriers of s
    pc,         \* pc[s]: where s is
    call,       \* call[s]: the wait in progress, and the value it waits for
    hup,        \* hup[s]: what the running poll saw on the pipe
    last,       \* last[s]: the call of s that returned last, and its value
    errors,     \* system calls that have failed
    placed,     \* history: barriers s has placed
    aborts      \* history: sides that have called barrier_abort

vars == <<efd, ends, barriers, pc, call, hup, last, errors, placed, aborts>>

Side == {"parent", "child"}
Other(s) == IF s = "parent" THEN "child" ELSE "parent"

BARRIER_SINGLE == 1
BARRIER_BIAS == -BARRIER_ABORTION - 1
BARRIER_WE_ABORTED == BARRIER_BIAS + 1
BARRIER_THEY_ABORTED == BARRIER_BIAS + 2
BARRIER_I_ABORTED == BARRIER_BIAS + 3

barrier_i_aborted(b) == b \in {BARRIER_I_ABORTED, BARRIER_WE_ABORTED}
barrier_they_aborted(b) == b \in {BARRIER_THEY_ABORTED, BARRIER_WE_ABORTED}
barrier_is_aborted(b) == barrier_i_aborted(b) \/ barrier_they_aborted(b)

Wait == {"wait_next", "wait_abortion", "sync_next", "sync"}
NoCall == [op |-> "none", comp |-> 0]
Returned(op, ok) == [op |-> op, ok |-> ok]

\* write(2) on an eventfd adds to the counter; the largest value is 2^64 - 2.
EventfdTakes(s, buf) == efd[s] + buf <= 2 * BARRIER_ABORTION

\* The end of the pipe that a side keeps, and the one it watches go.
Keeps(s) == IF s = "parent" THEN "read" ELSE "write"
Hangup(s) == \A t \in Side : Keeps(Other(s)) \notin ends[t]

----------------------------------------------------------------------------
\* barrier_create, and the fork that gives both sides every descriptor.
Init ==
    /\ efd = [s \in Side |-> 0]
    /\ ends = [s \in Side |-> {"read", "write"}]
    /\ barriers = [s \in Side |-> 0]
    /\ pc = [s \in Side |-> "forked"]
    /\ call = [s \in Side |-> NoCall]
    /\ hup = [s \in Side |-> FALSE]
    /\ last = [s \in Side |-> Returned("none", FALSE)]
    /\ errors = 0
    /\ placed = [s \in Side |-> 0]
    /\ aborts = {}

\* Slip: a side keeps the end of the pipe that belongs to the other one.
SlipKeepsBothEnds(s) ==
    /\ pc[s] = "forked"
    /\ pc' = [pc EXCEPT ![s] = "idle"]
    /\ UNCHANGED <<efd, ends, barriers, call, hup, last, errors, placed, aborts>>

barrier_set_role(s) ==
    /\ pc[s] = "forked"
    /\ ends' = [ends EXCEPT ![s] = {Keeps(s)}]
    /\ pc' = [pc EXCEPT ![s] = "idle"]
    /\ UNCHANGED <<efd, barriers, call, hup, last, errors, placed, aborts>>

\* Slip: an abortion is added up like a barrier.
SlipAddsAbortion(b, buf) == IF barrier_is_aborted(b) THEN b ELSE b + buf

\* What s has in b->barriers after it wrote buf.
AfterWrite(b, buf) ==
    IF buf >= BARRIER_ABORTION
    THEN IF barrier_they_aborted(b) THEN BARRIER_WE_ABORTED ELSE BARRIER_I_ABORTED
    ELSE IF barrier_is_aborted(b) THEN b ELSE b + buf

\* The write that succeeds.
barrier_write(s, buf) ==
    /\ EventfdTakes(s, buf)
    /\ efd' = [efd EXCEPT ![s] = @ + buf]
    /\ barriers' = [barriers EXCEPT ![s] = AfterWrite(@, buf)]

barrier_place(s) ==
    /\ pc[s] = "idle"
    /\ \/ /\ barrier_is_aborted(barriers[s])
          /\ last' = [last EXCEPT ![s] = Returned("place", FALSE)]
          /\ UNCHANGED <<efd, barriers, placed>>
       \/ /\ ~barrier_is_aborted(barriers[s])
          /\ placed[s] < MaxPlaces
          /\ barrier_write(s, BARRIER_SINGLE)
          /\ placed' = [placed EXCEPT ![s] = @ + 1]
          /\ last' = [last EXCEPT ![s] = Returned("place", TRUE)]
    /\ UNCHANGED <<ends, pc, call, hup, errors, aborts>>

barrier_abort(s) ==
    /\ pc[s] = "idle"
    /\ \/ /\ barrier_i_aborted(barriers[s])
          /\ UNCHANGED <<efd, barriers, aborts>>
       \/ /\ ~barrier_i_aborted(barriers[s])
          /\ barrier_write(s, BARRIER_ABORTION)
          /\ aborts' = aborts \cup {s}
    /\ last' = [last EXCEPT ![s] = Returned("abort", ~barrier_they_aborted(barriers'[s]))]
    /\ UNCHANGED <<ends, pc, call, hup, errors, placed>>

\* Slip: barrier_sync waits for one barrier only.
SlipSyncsNext(op, b) ==
    CASE op = "wait_next" -> b - 1
      [] op = "wait_abortion" -> BARRIER_THEY_ABORTED
      [] op \in {"sync_next", "sync"} -> IF b - 1 > 0 THEN b - 1 ELSE 0

\* barrier_wait_next, barrier_wait_abortion, barrier_sync_next and
\* barrier_sync differ in the value they hand to barrier_read.
Comp(op, b) ==
    CASE op = "wait_next" -> b - 1
      [] op = "wait_abortion" -> BARRIER_THEY_ABORTED
      [] op = "sync_next" -> IF b - 1 > 0 THEN b - 1 ELSE 0
      [] op = "sync" -> 0

barrier_wait(s, op) ==
    /\ pc[s] = "idle"
    /\ \/ /\ op # "wait_abortion" /\ barrier_is_aborted(barriers[s])
          /\ last' = [last EXCEPT ![s] = Returned(op, FALSE)]
          /\ UNCHANGED <<pc, call>>
       \/ /\ op = "wait_abortion" \/ ~barrier_is_aborted(barriers[s])
          /\ pc' = [pc EXCEPT ![s] = "read"]
          /\ call' = [call EXCEPT ![s] = [op |-> op, comp |-> Comp(op, barriers[s])]]
          /\ UNCHANGED last
    /\ UNCHANGED <<efd, ends, barriers, hup, errors, placed, aborts>>

\* The loop of barrier_read goes on.
Waits(s) ==
    /\ pc[s] = "read"
    /\ ~barrier_they_aborted(barriers[s])
    /\ barriers[s] > call[s].comp

\* poll looks at the pipe, the first descriptor of the array.  A poll that
\* would find nothing on either descriptor sleeps.
PollPipe(s) ==
    /\ Waits(s)
    /\ Hangup(s) \/ efd[Other(s)] > 0
    /\ hup' = [hup EXCEPT ![s] = Hangup(s)]
    /\ pc' = [pc EXCEPT ![s] = "poll"]
    /\ UNCHANGED <<efd, ends, barriers, call, last, errors, placed, aborts>>

AfterRead(b, buf) ==
    IF buf >= BARRIER_ABORTION
    THEN IF barrier_i_aborted(b) THEN BARRIER_WE_ABORTED ELSE BARRIER_THEY_ABORTED
    ELSE IF barrier_is_aborted(b) THEN b ELSE b - buf

\* Slip: the hangup is looked at before the eventfd.
SlipHangupFirst(s) ==
    /\ pc[s] = "poll"
    /\ \/ /\ ~hup[s]
          /\ barriers' = [barriers EXCEPT ![s] = AfterRead(@, efd[Other(s)])]
          /\ efd' = [efd EXCEPT ![Other(s)] = 0]
       \/ /\ hup[s]
          /\ barriers' = [barriers EXCEPT ![s] = AfterRead(@, BARRIER_ABORTION)]
          /\ UNCHANGED efd
    /\ pc' = [pc EXCEPT ![s] = "read"]
    /\ hup' = [hup EXCEPT ![s] = FALSE]
    /\ UNCHANGED <<ends, call, last, errors, placed, aborts>>

\* poll looks at the eventfd, and barrier_read uses what poll saw: a count on
\* the eventfd first, the hangup only if there is none.
PollEventfd(s) ==
    /\ pc[s] = "poll"
    /\ \/ /\ efd[Other(s)] > 0
          /\ barriers' = [barriers EXCEPT ![s] = AfterRead(@, efd[Other(s)])]
          /\ efd' = [efd EXCEPT ![Other(s)] = 0]
       \/ /\ efd[Other(s)] = 0 /\ hup[s]
          /\ barriers' = [barriers EXCEPT ![s] = AfterRead(@, BARRIER_ABORTION)]
          /\ UNCHANGED efd
    /\ pc' = [pc EXCEPT ![s] = "read"]
    /\ hup' = [hup EXCEPT ![s] = FALSE]
    /\ UNCHANGED <<ends, call, last, errors, placed, aborts>>

\* The value a wait returns.
Result(op, b) ==
    IF op = "wait_abortion" THEN ~barrier_i_aborted(b) ELSE ~barrier_is_aborted(b)

barrier_read_returns(s) ==
    /\ pc[s] = "read"
    /\ ~Waits(s)
    /\ last' = [last EXCEPT ![s] = Returned(call[s].op, Result(call[s].op, barriers[s]))]
    /\ pc' = [pc EXCEPT ![s] = "idle"]
    /\ call' = [call EXCEPT ![s] = NoCall]
    /\ UNCHANGED <<efd, ends, barriers, hup, errors, placed, aborts>>

\* A write, poll or read that fails for good: the code closes the pipe and
\* treats the failure as an abortion of both sides.
SyncError(s) ==
    /\ errors < MaxErrors
    /\ errors' = errors + 1
    /\ barriers' = [barriers EXCEPT ![s] = BARRIER_WE_ABORTED]
    /\ ends' = [ends EXCEPT ![s] = {}]
    /\ hup' = [hup EXCEPT ![s] = FALSE]

WriteFails(s, op) ==
    /\ pc[s] = "idle"
    /\ \/ op = "place" /\ ~barrier_is_aborted(barriers[s])
       \/ op = "abort" /\ ~barrier_i_aborted(barriers[s])
    /\ SyncError(s)
    /\ last' = [last EXCEPT ![s] = Returned(op, op = "place")]
    /\ UNCHANGED <<efd, pc, call, placed, aborts>>

ReadFails(s) ==
    /\ Waits(s) \/ pc[s] = "poll"
    /\ SyncError(s)
    /\ last' = [last EXCEPT ![s] = Returned(call[s].op, FALSE)]
    /\ pc' = [pc EXCEPT ![s] = "idle"]
    /\ call' = [call EXCEPT ![s] = NoCall]
    /\ UNCHANGED <<efd, placed, aborts>>

barrier_destroy(s) ==
    /\ pc[s] = "idle"
    /\ ends' = [ends EXCEPT ![s] = {}]
    /\ barriers' = [barriers EXCEPT ![s] = 0]
    /\ pc' = [pc EXCEPT ![s] = "gone"]
    /\ UNCHANGED <<efd, call, hup, last, errors, placed, aborts>>

\* The process exits or is killed; the kernel closes its descriptors.
Exit(s) ==
    /\ pc[s] # "gone"
    /\ ends' = [ends EXCEPT ![s] = {}]
    /\ barriers' = [barriers EXCEPT ![s] = 0]
    /\ pc' = [pc EXCEPT ![s] = "gone"]
    /\ call' = [call EXCEPT ![s] = NoCall]
    /\ hup' = [hup EXCEPT ![s] = FALSE]
    /\ UNCHANGED <<efd, last, errors, placed, aborts>>

Step(s) == PollPipe(s) \/ PollEventfd(s) \/ barrier_read_returns(s)

Next ==
    \E s \in Side :
        \/ barrier_set_role(s)
        \/ barrier_place(s)
        \/ barrier_abort(s)
        \/ \E op \in Wait : barrier_wait(s, op)
        \/ Step(s)
        \/ \E op \in {"place", "abort"} : WriteFails(s, op)
        \/ ReadFails(s)
        \/ barrier_destroy(s)
        \/ Exit(s)

Spec == Init /\ [][Next]_vars

\* The kernel runs a side whose poll has something to report.
FairSpec == Spec /\ \A s \in Side : WF_vars(Step(s)) /\ WF_vars(barrier_set_role(s))

----------------------------------------------------------------------------
Waiting(s) == pc[s] \in {"read", "poll"}

\* What s has not read yet of the barriers the other side placed.
Unread(s) ==
    IF efd[Other(s)] >= BARRIER_ABORTION
    THEN efd[Other(s)] - BARRIER_ABORTION
    ELSE efd[Other(s)]

\* The fields of both sides, the counters and the pipe have values of their
\* type: b->barriers is a difference of counts or one of the three marks.
TypeOK ==
    /\ efd \in [Side -> 0 .. BARRIER_ABORTION + MaxPlaces]
    /\ ends \in [Side -> SUBSET {"read", "write"}]
    /\ barriers \in [Side -> -MaxPlaces .. MaxPlaces \cup
           {BARRIER_WE_ABORTED, BARRIER_THEY_ABORTED, BARRIER_I_ABORTED}]
    /\ pc \in [Side -> {"forked", "idle", "read", "poll", "gone"}]
    /\ call \in [Side -> [op : Wait \cup {"none"},
           comp : -MaxPlaces - 1 .. MaxPlaces \cup {BARRIER_THEY_ABORTED}]]
    /\ hup \in [Side -> BOOLEAN]
    /\ last \in [Side -> [op : Wait \cup {"none", "place", "abort"}, ok : BOOLEAN]]
    /\ errors \in 0 .. MaxErrors
    /\ placed \in [Side -> 0 .. MaxPlaces]
    /\ aborts \subseteq Side

\* barrier_sync: "waits until the other end placed as many barriers via
\* barrier_place() as we did".  A sync that returned true is a proof of that,
\* whatever the two sides did before, and however many counts one read of the
\* eventfd collected.
SyncMeansPlaced ==
    \A s \in Side : last[s] = Returned("sync", TRUE) => placed[Other(s)] >= placed[s]

\* "it is safe to place a barrier and exit": the hangup of the pipe becomes an
\* abortion only after the waiting side has counted every barrier that the
\* other side placed before it went.
HangupComesLast ==
    [][\A s \in Side :
         /\ Waiting(s)
         /\ ~barrier_is_aborted(barriers[s])
         /\ barriers'[s] = BARRIER_THEY_ABORTED
         /\ Other(s) \notin aborts
         => barriers[s] = placed[s] - placed[Other(s)]]_vars

\* "a sync/wait call will be woken up if the remote side crashed or exited
\* unexpectedly": a wait ends once the other side has gone, has aborted or has
\* given up on an error, and a sync also once enough barriers are placed.
WaitersReturn ==
    \A s \in Side :
        ( /\ Waiting(s)
          /\ \/ ends[Other(s)] = {}
             \/ Other(s) \in aborts
             \/ call[s].op = "sync" /\ placed[Other(s)] >= placed[s] )
        ~> ~Waiting(s)
=============================================================================
