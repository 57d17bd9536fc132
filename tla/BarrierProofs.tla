--------------------------- MODULE BarrierProofs ---------------------------
(***************************************************************************)
(* Proofs about Barrier, for counters of any width and any number of       *)
(* barriers that fits into them.                                           *)
(*                                                                         *)
(* TypeOK, SyncMeansPlaced and HangupComesLast rest on one relation        *)
(* between four pieces of state, Counted: what a side holds in b->barriers *)
(* is what it placed, less what the other side placed, plus what of that   *)
(* is still unread in the eventfd.                                         *)
(***************************************************************************)
EXTENDS Barrier, TLAPS

Mark == {BARRIER_WE_ABORTED, BARRIER_THEY_ABORTED, BARRIER_I_ABORTED}

\* An eventfd holds no more than was written to it, and an abortion only if
\* its owner aborted; whoever aborted knows it.
Written ==
    \A s \in Side :
        /\ Unread(s) <= placed[Other(s)]
        /\ efd[s] >= BARRIER_ABORTION => s \in aborts
        /\ s \in aborts /\ pc[s] # "gone" => barrier_i_aborted(barriers[s])

Counted ==
    \A s \in Side :
        pc[s] # "gone" /\ ~barrier_is_aborted(barriers[s])
        => barriers[s] = placed[s] - placed[Other(s)] + Unread(s)

SyncsToZero == \A s \in Side : call[s].op = "sync" => call[s].comp = 0

IInv == TypeOK /\ Written /\ Counted /\ SyncsToZero /\ SyncMeansPlaced

LEMMA Others ==
    \A s \in Side : /\ Other(s) \in Side
                    /\ Other(s) # s
                    /\ \A t \in Side : t = s \/ t = Other(s)
  BY DEF Side, Other

LEMMA Marks ==
    /\ \A b \in -MaxPlaces .. MaxPlaces : ~barrier_is_aborted(b) /\ b \in Int
    /\ \A b \in Mark : barrier_is_aborted(b) /\ b \in Int /\ b < -MaxPlaces - 1
    /\ barrier_i_aborted(BARRIER_WE_ABORTED)
    /\ barrier_i_aborted(BARRIER_I_ABORTED)
    /\ ~barrier_i_aborted(BARRIER_THEY_ABORTED)
    /\ \A b : barrier_i_aborted(b) => barrier_is_aborted(b)
  BY CounterAssumption
     DEF Mark, barrier_is_aborted, barrier_i_aborted, barrier_they_aborted,
         BARRIER_BIAS, BARRIER_WE_ABORTED, BARRIER_THEY_ABORTED, BARRIER_I_ABORTED

LEMMA InitIInv == Init => IInv
  BY CounterAssumption, Others, Marks
     DEF Init, IInv, TypeOK, Written, Counted, SyncsToZero, SyncMeansPlaced,
         Unread, NoCall, Returned, Wait, Side, Other

\* The eventfds, the fields and the histories stay as they are.
Core == <<efd, barriers, placed, aborts>>

LEMMA CoreKept ==
    ASSUME IInv, UNCHANGED Core, \A s \in Side : pc'[s] = "gone" <=> pc[s] = "gone"
    PROVE  Written' /\ Counted'
  BY Others DEF Core, IInv, Written, Counted, Unread

\* What s may read from the other side, and what it may add to it.
LEMMA Reading ==
    ASSUME IInv, NEW s \in Side
    PROVE  /\ Unread(s) \in 0 .. placed[Other(s)]
           /\ pc[s] # "gone" /\ ~barrier_i_aborted(barriers[s]) =>
                  s \notin aborts /\ efd[s] < BARRIER_ABORTION /\ efd[s] <= placed[s]
           /\ ~barrier_is_aborted(barriers[s]) => barriers[s] \in -MaxPlaces .. MaxPlaces
           /\ pc[s] # "gone" /\ ~barrier_is_aborted(barriers[s]) =>
                  barriers[s] = placed[s] - placed[Other(s)] + Unread(s)
  <1>1. Unread(s) \in 0 .. placed[Other(s)]
    BY CounterAssumption, Others DEF IInv, TypeOK, Written, Unread
  <1>2. pc[s] # "gone" /\ ~barrier_i_aborted(barriers[s]) =>
            s \notin aborts /\ efd[s] < BARRIER_ABORTION
    BY CounterAssumption DEF IInv, TypeOK, Written
  <1>3. efd[s] < BARRIER_ABORTION => efd[s] <= placed[s]
    <2>1. Other(s) \in Side /\ Other(Other(s)) = s
      BY DEF Other, Side
    <2> QED
      BY <2>1, CounterAssumption DEF IInv, TypeOK, Written, Unread
  <1>4. ~barrier_is_aborted(barriers[s]) => barriers[s] \in -MaxPlaces .. MaxPlaces
    BY Marks DEF IInv, TypeOK, Mark
  <1>5. pc[s] # "gone" /\ ~barrier_is_aborted(barriers[s]) =>
            barriers[s] = placed[s] - placed[Other(s)] + Unread(s)
    BY DEF IInv, Counted
  <1> QED
    BY <1>1, <1>2, <1>3, <1>4, <1>5

LEMMA SetRoleStep ==
    ASSUME IInv, NEW s \in Side, barrier_set_role(s)
    PROVE  IInv'
  <1>1. Written' /\ Counted'
    BY CoreKept DEF barrier_set_role, Core, IInv, TypeOK
  <1>2. TypeOK'
    BY DEF barrier_set_role, IInv, TypeOK, Keeps
  <1>3. SyncsToZero' /\ SyncMeansPlaced'
    BY DEF barrier_set_role, IInv, SyncsToZero, SyncMeansPlaced
  <1> QED
    BY <1>1, <1>2, <1>3 DEF IInv

LEMMA PlaceStep ==
    ASSUME IInv, NEW s \in Side, barrier_place(s)
    PROVE  IInv'
  <1>1. CASE barrier_is_aborted(barriers[s])
    <2>1. /\ last' = [last EXCEPT ![s] = Returned("place", FALSE)]
          /\ UNCHANGED <<efd, barriers, placed, ends, pc, call, hup, errors, aborts>>
      BY <1>1 DEF barrier_place
    <2>2. Written' /\ Counted'
      BY <2>1, CoreKept DEF Core
    <2>3. TypeOK'
      BY <2>1 DEF IInv, TypeOK, Returned
    <2>4. SyncsToZero' /\ SyncMeansPlaced'
      BY <2>1 DEF IInv, TypeOK, SyncsToZero, SyncMeansPlaced, Returned
    <2> QED
      BY <2>2, <2>3, <2>4 DEF IInv
  <1>2. CASE ~barrier_is_aborted(barriers[s])
    <2>1. AfterWrite(barriers[s], 1) = barriers[s] + 1
      BY <1>2, CounterAssumption DEF AfterWrite
    <2>2. /\ efd' = [efd EXCEPT ![s] = efd[s] + 1]
          /\ barriers' = [barriers EXCEPT ![s] = barriers[s] + 1]
          /\ placed' = [placed EXCEPT ![s] = placed[s] + 1]
          /\ last' = [last EXCEPT ![s] = Returned("place", TRUE)]
          /\ placed[s] < MaxPlaces
          /\ pc[s] = "idle"
          /\ UNCHANGED <<ends, pc, call, hup, errors, aborts>>
      BY <1>2, <2>1 DEF barrier_place, barrier_write, BARRIER_SINGLE
    <2>3. /\ s \notin aborts /\ efd[s] < BARRIER_ABORTION /\ efd[s] <= placed[s]
          /\ barriers[s] \in -MaxPlaces .. MaxPlaces
          /\ barriers[s] = placed[s] - placed[Other(s)] + Unread(s)
          /\ Unread(s) \in 0 .. placed[Other(s)]
      BY <1>2, <2>2, Reading, Marks
    <2>4. /\ efd[s] \in Nat /\ placed[s] \in Nat /\ Other(s) \in Side
          /\ placed[Other(s)] \in 0 .. MaxPlaces
      BY Others DEF IInv, TypeOK
    <2>5. /\ efd[s] + 1 < BARRIER_ABORTION
          /\ placed[s] + 1 \in 0 .. MaxPlaces
          /\ barriers[s] + 1 \in -MaxPlaces .. MaxPlaces
      BY <2>2, <2>3, <2>4, CounterAssumption
    <2>6. TypeOK'
      BY <2>2, <2>4, <2>5, CounterAssumption DEF IInv, TypeOK, Returned
    <2>7. Unread(s)' = Unread(s) /\ Unread(Other(s)) = efd[s] /\ Unread(Other(s))' = efd[s] + 1
      BY <2>2, <2>3, <2>4, <2>5, CounterAssumption DEF Unread, Other, Side, IInv, TypeOK
    <2>8. Written'
      BY <1>2, <2>2, <2>3, <2>4, <2>5, <2>7, Others, Marks, CounterAssumption DEF IInv, TypeOK, Written, Other, Side
    <2>9. Counted'
      BY <2>2, <2>3, <2>4, <2>7, Others DEF IInv, TypeOK, Counted, Other, Side
    <2>10. SyncsToZero' /\ SyncMeansPlaced'
      BY <2>2, Others DEF IInv, TypeOK, SyncsToZero, SyncMeansPlaced, Returned
    <2> QED
      BY <2>6, <2>8, <2>9, <2>10 DEF IInv
  <1> QED
    BY <1>1, <1>2

LEMMA AbortStep ==
    ASSUME IInv, NEW s \in Side, barrier_abort(s)
    PROVE  IInv'
  <1>1. CASE barrier_i_aborted(barriers[s])
    <2>1. /\ last' = [last EXCEPT ![s] = Returned("abort", ~barrier_they_aborted(barriers'[s]))]
          /\ UNCHANGED <<efd, barriers, placed, ends, pc, call, hup, errors, aborts>>
      BY <1>1 DEF barrier_abort
    <2>2. Written' /\ Counted'
      BY <2>1, CoreKept DEF Core
    <2>3. TypeOK'
      BY <2>1 DEF IInv, TypeOK, Returned
    <2>4. SyncsToZero' /\ SyncMeansPlaced'
      BY <2>1 DEF IInv, TypeOK, SyncsToZero, SyncMeansPlaced, Returned
    <2> QED
      BY <2>2, <2>3, <2>4 DEF IInv
  <1>2. CASE ~barrier_i_aborted(barriers[s])
    <2> DEFINE b == AfterWrite(barriers[s], BARRIER_ABORTION)
    <2>1. b \in {BARRIER_WE_ABORTED, BARRIER_I_ABORTED}
      BY CounterAssumption DEF AfterWrite
    <2>2. /\ efd' = [efd EXCEPT ![s] = efd[s] + BARRIER_ABORTION]
          /\ barriers' = [barriers EXCEPT ![s] = b]
          /\ last' = [last EXCEPT ![s] = Returned("abort", ~barrier_they_aborted(barriers'[s]))]
          /\ aborts' = aborts \cup {s}
          /\ pc[s] = "idle"
          /\ UNCHANGED <<ends, pc, call, hup, errors, placed>>
      BY <1>2 DEF barrier_abort, barrier_write
    <2> HIDE DEF b
    <2>3. efd[s] < BARRIER_ABORTION /\ efd[s] <= placed[s]
      BY <1>2, <2>2, Reading
    <2>4. efd[s] \in Nat /\ placed[s] \in 0 .. MaxPlaces /\ Other(s) \in Side
      BY Others DEF IInv, TypeOK
    <2>5. efd[s] + BARRIER_ABORTION \in 0 .. BARRIER_ABORTION + MaxPlaces
      BY <2>3, <2>4, CounterAssumption
    <2>6. TypeOK'
      BY <2>1, <2>2, <2>5, CounterAssumption DEF IInv, TypeOK, Returned
    <2>7. Unread(s)' = Unread(s) /\ Unread(Other(s)) = efd[s] /\ Unread(Other(s))' = efd[s]
      BY <2>2, <2>3, <2>4, <2>5, CounterAssumption DEF Unread, Other, Side, IInv, TypeOK
    <2>8. Written'
      BY <2>1, <2>2, <2>3, <2>4, <2>7, Others, Marks, CounterAssumption
         DEF IInv, TypeOK, Written, Other, Side
    <2>9. Counted'
      BY <2>1, <2>2, <2>4, <2>7, Others, Marks DEF IInv, TypeOK, Counted, Mark, Other, Side
    <2>10. SyncsToZero' /\ SyncMeansPlaced'
      BY <2>2, Others DEF IInv, TypeOK, SyncsToZero, SyncMeansPlaced, Returned
    <2> QED
      BY <2>6, <2>8, <2>9, <2>10 DEF IInv
  <1> QED
    BY <1>1, <1>2

LEMMA WaitStep ==
    ASSUME IInv, NEW s \in Side, NEW op \in Wait, barrier_wait(s, op)
    PROVE  IInv'
  <1>1. Written' /\ Counted'
    BY CoreKept DEF barrier_wait, Core, IInv, TypeOK
  <1>2. CASE op # "wait_abortion" /\ barrier_is_aborted(barriers[s])
    <2>1. /\ last' = [last EXCEPT ![s] = Returned(op, FALSE)]
          /\ UNCHANGED <<efd, barriers, placed, ends, pc, call, hup, errors, aborts>>
      BY <1>2 DEF barrier_wait
    <2>2. TypeOK'
      BY <2>1 DEF IInv, TypeOK, Returned
    <2>3. SyncsToZero' /\ SyncMeansPlaced'
      BY <2>1 DEF IInv, TypeOK, SyncsToZero, SyncMeansPlaced, Returned
    <2> QED
      BY <1>1, <2>2, <2>3 DEF IInv
  <1>3. CASE ~(op # "wait_abortion" /\ barrier_is_aborted(barriers[s]))
    <2> DEFINE comp == Comp(op, barriers[s])
    <2>1. /\ pc' = [pc EXCEPT ![s] = "read"]
          /\ call' = [call EXCEPT ![s] = [op |-> op, comp |-> comp]]
          /\ UNCHANGED <<efd, ends, barriers, hup, last, errors, placed, aborts>>
      BY <1>3 DEF barrier_wait
    <2>2. op # "wait_abortion" => barriers[s] \in -MaxPlaces .. MaxPlaces
      BY <1>3, Reading
    <2>3. /\ comp \in -MaxPlaces - 1 .. MaxPlaces \cup {BARRIER_THEY_ABORTED}
          /\ op = "sync" => comp = 0
      BY <2>2, CounterAssumption DEF Comp, Wait
    <2> HIDE DEF comp
    <2>4. TypeOK'
      BY <2>1, <2>3 DEF IInv, TypeOK
    <2>5. SyncsToZero' /\ SyncMeansPlaced'
      BY <2>1, <2>3 DEF IInv, TypeOK, SyncsToZero, SyncMeansPlaced
    <2> QED
      BY <1>1, <2>4, <2>5 DEF IInv
  <1> QED
    BY <1>2, <1>3

LEMMA PollPipeStep ==
    ASSUME IInv, NEW s \in Side, PollPipe(s)
    PROVE  IInv'
  <1>1. Written' /\ Counted'
    BY CoreKept DEF PollPipe, Waits, Core, IInv, TypeOK
  <1>2. TypeOK'
    BY DEF PollPipe, Hangup, IInv, TypeOK
  <1>3. SyncsToZero' /\ SyncMeansPlaced'
    BY DEF PollPipe, IInv, SyncsToZero, SyncMeansPlaced
  <1> QED
    BY <1>1, <1>2, <1>3 DEF IInv

\* What a read of the eventfd, or a hangup, makes of a field.
LEMMA ReadValue ==
    ASSUME IInv, NEW s \in Side, pc[s] # "gone",
           NEW buf \in {efd[Other(s)], BARRIER_ABORTION}
    PROVE  /\ AfterRead(barriers[s], buf) \in -MaxPlaces .. MaxPlaces \cup Mark
           /\ barrier_i_aborted(barriers[s]) => barrier_i_aborted(AfterRead(barriers[s], buf))
           /\ ~barrier_is_aborted(AfterRead(barriers[s], buf)) =>
                  /\ buf = efd[Other(s)] /\ buf < BARRIER_ABORTION
                  /\ ~barrier_is_aborted(barriers[s])
                  /\ AfterRead(barriers[s], buf) = placed[s] - placed[Other(s)]
  <1>1. efd[Other(s)] \in Nat /\ placed[s] \in 0 .. MaxPlaces /\ placed[Other(s)] \in 0 .. MaxPlaces
    BY Others DEF IInv, TypeOK
  <1>2. CASE buf >= BARRIER_ABORTION
    BY <1>2, Marks DEF AfterRead, Mark
  <1>3. CASE ~(buf >= BARRIER_ABORTION)
    <2>1. buf = efd[Other(s)] /\ buf < BARRIER_ABORTION /\ buf = Unread(s)
      BY <1>1, <1>3, CounterAssumption DEF Unread
    <2>2. CASE barrier_is_aborted(barriers[s])
      BY <1>3, <2>2, Marks DEF AfterRead, IInv, TypeOK, Mark
    <2>3. CASE ~barrier_is_aborted(barriers[s])
      <3>1. barriers[s] = placed[s] - placed[Other(s)] + Unread(s)
        BY <2>3, Reading
      <3>2. AfterRead(barriers[s], buf) = barriers[s] - buf
        BY <1>3, <2>3 DEF AfterRead
      <3>3. AfterRead(barriers[s], buf) = placed[s] - placed[Other(s)]
        BY <1>1, <2>1, <3>1, <3>2
      <3> QED
        BY <1>1, <2>1, <2>3, <3>3, CounterAssumption, Marks
    <2> QED
      BY <2>2, <2>3
  <1> QED
    BY <1>2, <1>3

LEMMA PollEventfdStep ==
    ASSUME IInv, NEW s \in Side, PollEventfd(s)
    PROVE  IInv'
  <1> DEFINE buf == IF efd[Other(s)] > 0 THEN efd[Other(s)] ELSE BARRIER_ABORTION
             b == AfterRead(barriers[s], buf)
  <1>1. /\ barriers' = [barriers EXCEPT ![s] = b]
        /\ efd' = [efd EXCEPT ![Other(s)] = 0]
        /\ pc' = [pc EXCEPT ![s] = "read"]
        /\ hup' = [hup EXCEPT ![s] = FALSE]
        /\ pc[s] = "poll"
        /\ UNCHANGED <<ends, call, last, errors, placed, aborts>>
    BY Others DEF PollEventfd, IInv, TypeOK
  <1>2. /\ b \in -MaxPlaces .. MaxPlaces \cup Mark
        /\ barrier_i_aborted(barriers[s]) => barrier_i_aborted(b)
        /\ ~barrier_is_aborted(b) => b = placed[s] - placed[Other(s)]
    BY <1>1, ReadValue
  <1> HIDE DEF b
  <1>3. /\ placed[s] \in 0 .. MaxPlaces /\ placed[Other(s)] \in 0 .. MaxPlaces
        /\ Other(s) \in Side /\ Other(s) # s
    BY Others DEF IInv, TypeOK
  <1>4. TypeOK'
    BY <1>1, <1>2, <1>3, CounterAssumption DEF IInv, TypeOK, Mark
  <1>5. Unread(s)' = 0 /\ Unread(Other(s))' = Unread(Other(s))
    BY <1>1, <1>3, CounterAssumption DEF Unread, Other, Side, IInv, TypeOK
  <1>6. Written'
    BY <1>1, <1>2, <1>3, <1>5, Others, CounterAssumption DEF IInv, TypeOK, Written, Other, Side
  <1>7. Counted'
    BY <1>1, <1>2, <1>3, <1>5, Others DEF IInv, TypeOK, Counted, Other, Side
  <1>8. SyncsToZero' /\ SyncMeansPlaced'
    BY <1>1 DEF IInv, SyncsToZero, SyncMeansPlaced
  <1> QED
    BY <1>4, <1>6, <1>7, <1>8 DEF IInv

\* A sync that returns true leaves its loop with a field of at most 0, which by
\* Counted says that the other side has placed enough.
LEMMA ReturnStep ==
    ASSUME IInv, NEW s \in Side, barrier_read_returns(s)
    PROVE  IInv'
  <1>1. /\ last' = [last EXCEPT ![s] = Returned(call[s].op, Result(call[s].op, barriers[s]))]
        /\ pc' = [pc EXCEPT ![s] = "idle"]
        /\ call' = [call EXCEPT ![s] = NoCall]
        /\ pc[s] = "read" /\ ~Waits(s)
        /\ UNCHANGED <<efd, ends, barriers, hup, errors, placed, aborts>>
    BY DEF barrier_read_returns
  <1>2. Written' /\ Counted'
    BY <1>1, CoreKept DEF Core, IInv, TypeOK
  <1>3. TypeOK'
    <2>1. call[s].op \in Wait \cup {"none"} /\ Result(call[s].op, barriers[s]) \in BOOLEAN
      BY DEF IInv, TypeOK, Result, barrier_is_aborted, barrier_i_aborted, barrier_they_aborted
    <2>2. NoCall \in [op : Wait \cup {"none"},
             comp : -MaxPlaces - 1 .. MaxPlaces \cup {BARRIER_THEY_ABORTED}]
      BY CounterAssumption DEF NoCall
    <2> QED
      BY <1>1, <2>1, <2>2 DEF IInv, TypeOK, Returned
  <1>4. SyncsToZero'
    BY <1>1 DEF IInv, TypeOK, SyncsToZero, NoCall
  <1>5. ASSUME call[s].op = "sync", Result("sync", barriers[s])
        PROVE  placed[Other(s)] >= placed[s]
    <2>1. ~barrier_is_aborted(barriers[s])
      BY <1>5 DEF Result
    <2>2. barriers[s] <= 0
      <3>1. ~(barriers[s] > 0)
        BY <1>1, <1>5, <2>1 DEF Waits, IInv, SyncsToZero, barrier_is_aborted
      <3> QED
        BY <2>1, <3>1, Reading
    <2>3. /\ placed[s] - placed[Other(s)] + Unread(s) <= 0
          /\ Unread(s) \in 0 .. placed[Other(s)]
      BY <1>1, <2>1, <2>2, Reading
    <2>4. placed[s] \in Nat /\ placed[Other(s)] \in Nat
      BY Others DEF IInv, TypeOK
    <2> QED
      BY <2>3, <2>4
  <1>6. SyncMeansPlaced'
    BY <1>1, <1>5, Others DEF IInv, TypeOK, SyncMeansPlaced, Returned
  <1> QED
    BY <1>2, <1>3, <1>4, <1>6 DEF IInv

\* A side that fails, or goes, leaves the counts of the other side alone.
LEMMA LeaveStep ==
    ASSUME IInv, NEW s \in Side,
           NEW b \in {0, BARRIER_WE_ABORTED},
           barriers' = [barriers EXCEPT ![s] = b],
           b = 0 => pc'[s] = "gone",
           ends' = [ends EXCEPT ![s] = {}],
           NEW p \in {"idle", "gone"}, pc' = [pc EXCEPT ![s] = p],
           pc[s] # "gone",
           call' = [call EXCEPT ![s] = NoCall] \/ UNCHANGED call,
           hup' = [hup EXCEPT ![s] = FALSE] \/ UNCHANGED hup,
           NEW l \in [op : Wait \cup {"none", "place", "abort"}, ok : BOOLEAN],
           l # Returned("sync", TRUE) \/ l = last[s],
           last' = [last EXCEPT ![s] = l],
           errors' \in 0 .. MaxErrors,
           UNCHANGED <<efd, placed, aborts>>
    PROVE  IInv'
  <1>1. TypeOK'
    <2>1. NoCall \in [op : Wait \cup {"none"},
             comp : -MaxPlaces - 1 .. MaxPlaces \cup {BARRIER_THEY_ABORTED}]
      BY CounterAssumption DEF NoCall
    <2>2. call' \in [Side -> [op : Wait \cup {"none"},
             comp : -MaxPlaces - 1 .. MaxPlaces \cup {BARRIER_THEY_ABORTED}]]
      BY <2>1 DEF IInv, TypeOK
    <2>3. b \in -MaxPlaces .. MaxPlaces \cup
              {BARRIER_WE_ABORTED, BARRIER_THEY_ABORTED, BARRIER_I_ABORTED}
      BY CounterAssumption
    <2> QED
      BY <2>2, <2>3 DEF IInv, TypeOK
  <1>2. \A t \in Side : Unread(t)' = Unread(t)
    BY DEF Unread
  <1>3. Written'
    BY <1>2, Marks DEF IInv, TypeOK, Written
  <1>4. Counted'
    BY <1>2, Marks DEF IInv, TypeOK, Counted
  <1>5. SyncsToZero'
    BY DEF IInv, TypeOK, SyncsToZero, NoCall
  <1>6. SyncMeansPlaced'
    BY DEF IInv, TypeOK, SyncMeansPlaced
  <1> QED
    BY <1>1, <1>3, <1>4, <1>5, <1>6 DEF IInv

LEMMA FailureSteps ==
    ASSUME IInv, NEW s \in Side,
           \/ \E op \in {"place", "abort"} : WriteFails(s, op)
           \/ ReadFails(s)
           \/ barrier_destroy(s)
           \/ Exit(s)
    PROVE  IInv'
  <1>0. /\ last[s] \in [op : Wait \cup {"none", "place", "abort"}, ok : BOOLEAN]
        /\ last = [last EXCEPT ![s] = last[s]]
        /\ pc = [pc EXCEPT ![s] = pc[s]]
        /\ call[s].op \in Wait \cup {"none"}
        /\ errors \in 0 .. MaxErrors
        /\ errors < MaxErrors => errors + 1 \in 0 .. MaxErrors
        /\ s \in DOMAIN pc
    BY CounterAssumption DEF IInv, TypeOK
  <1>1. ASSUME NEW op \in {"place", "abort"}, WriteFails(s, op)
        PROVE  IInv'
    <2> DEFINE l == Returned(op, op = "place")
    <2>1. /\ l \in [op : Wait \cup {"none", "place", "abort"}, ok : BOOLEAN]
          /\ l # Returned("sync", TRUE)
      BY DEF Returned
    <2>2. /\ barriers' = [barriers EXCEPT ![s] = BARRIER_WE_ABORTED]
          /\ ends' = [ends EXCEPT ![s] = {}]
          /\ pc' = [pc EXCEPT ![s] = "idle"]
          /\ pc[s] = "idle"
          /\ hup' = [hup EXCEPT ![s] = FALSE]
          /\ last' = [last EXCEPT ![s] = l]
          /\ errors' \in 0 .. MaxErrors
          /\ UNCHANGED <<efd, call, placed, aborts>>
      BY <1>0, <1>1 DEF WriteFails, SyncError
    <2>3. BARRIER_WE_ABORTED # 0
      BY CounterAssumption DEF BARRIER_WE_ABORTED, BARRIER_BIAS
    <2> HIDE DEF l
    <2> QED
      BY <2>1, <2>2, <2>3, LeaveStep
  <1>2. CASE ReadFails(s)
    <2> DEFINE l == Returned(call[s].op, FALSE)
    <2>1. /\ l \in [op : Wait \cup {"none", "place", "abort"}, ok : BOOLEAN]
          /\ l # Returned("sync", TRUE)
      BY <1>0 DEF Returned
    <2>2. /\ barriers' = [barriers EXCEPT ![s] = BARRIER_WE_ABORTED]
          /\ ends' = [ends EXCEPT ![s] = {}]
          /\ pc' = [pc EXCEPT ![s] = "idle"]
          /\ pc[s] # "gone"
          /\ call' = [call EXCEPT ![s] = NoCall]
          /\ hup' = [hup EXCEPT ![s] = FALSE]
          /\ last' = [last EXCEPT ![s] = l]
          /\ errors' \in 0 .. MaxErrors
          /\ UNCHANGED <<efd, placed, aborts>>
      BY <1>0, <1>2 DEF ReadFails, SyncError, Waits
    <2>3. BARRIER_WE_ABORTED # 0
      BY CounterAssumption DEF BARRIER_WE_ABORTED, BARRIER_BIAS
    <2> HIDE DEF l
    <2> QED
      BY <2>1, <2>2, <2>3, LeaveStep
  <1>3. CASE barrier_destroy(s) \/ Exit(s)
    <2>1. /\ barriers' = [barriers EXCEPT ![s] = 0]
          /\ ends' = [ends EXCEPT ![s] = {}]
          /\ pc' = [pc EXCEPT ![s] = "gone"]
          /\ pc'[s] = "gone"
          /\ pc[s] # "gone"
          /\ call' = [call EXCEPT ![s] = NoCall] \/ UNCHANGED call
          /\ hup' = [hup EXCEPT ![s] = FALSE] \/ UNCHANGED hup
          /\ last' = [last EXCEPT ![s] = last[s]]
          /\ errors' \in 0 .. MaxErrors
          /\ UNCHANGED <<efd, placed, aborts>>
      BY <1>0, <1>3 DEF barrier_destroy, Exit
    <2> QED
      BY <1>0, <2>1, LeaveStep
  <1> QED
    BY <1>1, <1>2, <1>3

LEMMA StepIInv == IInv /\ [Next]_vars => IInv'
  <1> SUFFICES ASSUME IInv, [Next]_vars
               PROVE  IInv'
    OBVIOUS
  <1>1. CASE UNCHANGED vars
    BY <1>1 DEF vars, IInv, TypeOK, Written, Counted, SyncsToZero, SyncMeansPlaced, Unread
  <1>2. CASE Next
    BY <1>2, SetRoleStep, PlaceStep, AbortStep, WaitStep, PollPipeStep, PollEventfdStep,
       ReturnStep, FailureSteps DEF Next, Step
  <1> QED
    BY <1>1, <1>2

LEMMA Invariance == Spec => []IInv
  BY InitIInv, StepIInv, PTL DEF Spec

\* The field b->barriers of a side is a count or a mark at every moment, and
\* no eventfd of the barrier can overflow: barrier_write never spins.
THEOREM TypeCorrect == Spec => []TypeOK
  BY Invariance, PTL DEF IInv

\* barrier_sync returns true only when the other side has placed as many
\* barriers, for any number of barriers and any interleaving.
THEOREM SyncSound == Spec => []SyncMeansPlaced
  BY Invariance, PTL DEF IInv

\* The hangup of a side that exits never overtakes a barrier it placed.
THEOREM HangupLast == Spec => HangupComesLast
  <1>1. ASSUME IInv, [Next]_vars
        PROVE  [\A s \in Side :
                 /\ Waiting(s)
                 /\ ~barrier_is_aborted(barriers[s])
                 /\ barriers'[s] = BARRIER_THEY_ABORTED
                 /\ Other(s) \notin aborts
                 => barriers[s] = placed[s] - placed[Other(s)]]_vars
    <2> SUFFICES ASSUME Next, NEW s \in Side, Waiting(s),
                        ~barrier_is_aborted(barriers[s]),
                        barriers'[s] = BARRIER_THEY_ABORTED,
                        Other(s) \notin aborts
                 PROVE  barriers[s] = placed[s] - placed[Other(s)]
      BY <1>1
    <2>1. barriers'[s] # barriers[s] /\ barriers'[s] # 0 /\ barriers'[s] # BARRIER_WE_ABORTED
      BY Marks, CounterAssumption
         DEF barrier_is_aborted, barrier_they_aborted, BARRIER_THEY_ABORTED,
             BARRIER_WE_ABORTED, BARRIER_BIAS
    <2>2. ASSUME NEW t \in Side, t # s, barriers' # barriers
          PROVE  ~barrier_place(t) /\ ~barrier_abort(t) /\ ~PollEventfd(t)
                 /\ ~(\E op \in {"place", "abort"} : WriteFails(t, op))
                 /\ ~ReadFails(t) /\ ~barrier_destroy(t) /\ ~Exit(t)
      BY <1>1, <2>1, <2>2 DEF barrier_place, barrier_abort, barrier_write, PollEventfd,
           WriteFails, ReadFails, SyncError, barrier_destroy, Exit, IInv, TypeOK
    <2>3. PollEventfd(s)
      <3>1. barriers' # barriers
        BY <2>1
      <3>2. /\ ~barrier_place(s) /\ ~barrier_abort(s) /\ ~barrier_destroy(s) /\ ~Exit(s)
            /\ ~(\E op \in {"place", "abort"} : WriteFails(s, op)) /\ ~ReadFails(s)
        BY <1>1, <2>1 DEF Waiting, barrier_place, barrier_abort, barrier_destroy, Exit,
             WriteFails, ReadFails, SyncError, IInv, TypeOK
      <3>3. PICK t \in Side : PollEventfd(t) \/ barrier_place(t) \/ barrier_abort(t)
               \/ (\E op \in {"place", "abort"} : WriteFails(t, op)) \/ ReadFails(t)
               \/ barrier_destroy(t) \/ Exit(t)
        BY <3>1 DEF Next, Step, barrier_set_role, barrier_wait, PollPipe, barrier_read_returns
      <3> QED
        BY <2>2, <3>1, <3>2, <3>3
    <2>4. efd[Other(s)] < BARRIER_ABORTION
      BY Others, CounterAssumption, <1>1 DEF IInv, TypeOK, Written
    <2>5. CASE efd[Other(s)] > 0
      <3>1. /\ barriers'[s] = AfterRead(barriers[s], efd[Other(s)]) /\ pc[s] # "gone"
            /\ efd[Other(s)] \in Nat
        BY <1>1, <2>3, <2>5, Others DEF PollEventfd, IInv, TypeOK
      <3>2. AfterRead(barriers[s], efd[Other(s)]) = barriers[s] - efd[Other(s)]
        BY <2>4, <3>1, CounterAssumption DEF AfterRead
      <3>3. barriers[s] - efd[Other(s)] = placed[s] - placed[Other(s)]
        <4>1. /\ barriers[s] = placed[s] - placed[Other(s)] + Unread(s)
              /\ Unread(s) = efd[Other(s)]
          BY <1>1, <2>4, <3>1, Reading, CounterAssumption DEF Unread
        <4> QED
          BY <1>1, <3>1, <4>1, Others DEF IInv, TypeOK
      <3>4. placed[s] - placed[Other(s)] >= -MaxPlaces
        BY <1>1, Others, CounterAssumption DEF IInv, TypeOK
      <3>5. BARRIER_THEY_ABORTED < -MaxPlaces
        BY CounterAssumption DEF BARRIER_THEY_ABORTED, BARRIER_BIAS
      <3> QED
        BY <1>1, <3>1, <3>2, <3>3, <3>4, <3>5, Others, CounterAssumption DEF IInv, TypeOK
    <2>6. CASE ~(efd[Other(s)] > 0)
      <3>1. Unread(s) = 0 /\ pc[s] # "gone"
        BY <1>1, <2>3, <2>4, <2>6, Others, CounterAssumption DEF Unread, PollEventfd, IInv, TypeOK
      <3>2. barriers[s] = placed[s] - placed[Other(s)] + 0
        BY <1>1, <3>1, Reading
      <3> QED
        BY <1>1, <3>2, Others DEF IInv, TypeOK
    <2> QED
      BY <2>5, <2>6
  <1> QED
    BY <1>1, Invariance, PTL DEF Spec, HangupComesLast
=============================================================================
