---------------------------- MODULE BoundedFifo ----------------------------
(***************************************************************************)
(* What /dev/globalfifo promises its users, without tasks, locks or wait   *)
(* queues: one queue of at most Size bytes.  A write appends a prefix of   *)
(* the caller's buffer, a read moves the oldest bytes into the caller's    *)
(* buffer, FIFO_CLEAR empties the queue.                                   *)
(***************************************************************************)
EXTENDS Integers, Sequences

CONSTANTS Task, Byte, Size

VARIABLES
    q,      \* the bytes written and not yet read, oldest first
    buf     \* buf[t]: the buffer task t passed to its current call

fifoVars == <<q, buf>>

Init ==
    /\ q = << >>
    /\ buf = [t \in Task |-> << >>]

\* The caller owns its buffer and may put anything into it.
Fill(t) ==
    /\ buf'[t] \in Seq(Byte)
    /\ buf' = [buf EXCEPT ![t] = buf'[t]]
    /\ UNCHANGED q

Put(t) ==
    /\ \E n \in 0 .. Len(buf[t]) :
          /\ Len(q) + n <= Size
          /\ q' = q \o SubSeq(buf[t], 1, n)
    /\ UNCHANGED buf

Get(t) ==
    \E n \in 0 .. Len(q) :
        /\ buf' = [buf EXCEPT ![t] = SubSeq(q, 1, n)]
        /\ q' = SubSeq(q, n + 1, Len(q))

Clear ==
    /\ q' = << >>
    /\ UNCHANGED buf

Next ==
    \/ \E t \in Task : Fill(t) \/ Put(t) \/ Get(t)
    \/ Clear

Spec == Init /\ [][Next]_fifoVars

=============================================================================
