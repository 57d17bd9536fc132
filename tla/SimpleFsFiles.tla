---------------------------- MODULE SimpleFsFiles ----------------------------
(***************************************************************************)
(* What SimpleFs keeps of inodes and blocks as long as no signal           *)
(* interrupts a call: what is in memory is in the inode store, and, when   *)
(* the machine does not crash either, no block is lost.  Then what a step  *)
(* can change, and what calls can rely on, for SimpleFsNames.              *)
(***************************************************************************)
EXTENDS SimpleFsProofs

(***************************************************************************)
(* Files.  Number, mode and block of an inode never change; what is in     *)
(* memory, and the inode of a create that has counted it, are in the       *)
(* inode store.                                                            *)
(***************************************************************************)
Counted == 0 .. sb.inodes_count - 1

\* The creates whose new inode has been counted.
HasInode(t) ==
    Creating(t) /\ pc[t] \in {"record", "save", "saveSb", "copy", "leave"}

Same(m, n) == m.ino = n.ino /\ m.mode = n.mode /\ m.block = n.block

StoredIn(slots, st, n) == \E i \in slots : Same(st[i], n)

FileInv ==
    /\ pending = {}
    /\ \A p \in Path : mem[p] # NoInode => StoredIn(Counted, store, mem[p])
    /\ \A t \in Task : HasInode(t) => StoredIn(Counted, store, new[t])
    /\ \A t \in Task : pc[t] = "inodes" => store[sb.inodes_count] = new[t]

\* Where a mutex lets a call go on.
Passes == {<<"children", "count">>, <<"count", "objects">>,
           <<"free", "freeblock">>, <<"add", "addSb">>, <<"addSb", "append">>,
           <<"saveSb", "copy">>}

\* Without a pending signal the calls only ever get the mutex.
LEMMA LockingEffect ==
    ASSUME BaseInv, pending = {}, NEW t \in Task, Locking(t)
    PROVE  /\ UNCHANGED <<cache, image, pending, local, acked, faults>>
           /\ \A u \in Task : u # t => pc'[u] = pc[u]
           /\ \/ pc[t] = "save" /\ pc'[t] = "saveSb" /\ UpdateSize(t)
              \/ <<pc[t], pc'[t]>> \in Passes /\ UNCHANGED mem
<1> USE DEF BaseInv
<1>1. pc \in [Task -> PC] /\ \A l : ~Interrupted(t, l)
  BY DEF TypeOK, Interrupted
<1>2. CASE LockChildren(t)
  BY Zenon, <1>1, <1>2 DEF LockChildren, Goto, Passes
<1>3. CASE LockCount(t)
  BY Zenon, <1>1, <1>3 DEF LockCount, Goto, Passes
<1>4. CASE LockFree(t)
  BY Zenon, <1>1, <1>4 DEF LockFree, Goto, Passes
<1>5. CASE LockAdd(t)
  BY Zenon, <1>1, <1>5 DEF LockAdd, Goto, Passes
<1>6. CASE LockAddSb(t)
  BY Zenon, <1>1, <1>6 DEF LockAddSb, Goto, Passes
<1>7. CASE LockSave(t)
  BY Zenon, <1>1, <1>7 DEF LockSave, Goto
<1>8. CASE LockSaveSb(t)
  BY Zenon, <1>1, <1>8 DEF LockSaveSb, Goto, Passes
<1> QED
  BY Zenon, <1>2, <1>3, <1>4, <1>5, <1>6, <1>7, <1>8 DEF Locking

\* A slot of the store is found by the number in it.
LEMMA SlotOfIno ==
    ASSUME BaseInv, NEW i \in 0 .. MaxObjects, NEW j \in 0 .. MaxObjects,
           store[i].ino = store[j].ino, store[i].ino # 0
    PROVE  i = j
<1>1. store[i] # NoInode /\ store[j] # NoInode
  BY DEF NoInode
<1>2. GoodSlot(store[i], i) /\ GoodSlot(store[j], j)
  BY DEF BaseInv, BlockInv, SlotInv
<1>3. store[i].ino = SlotIno(i) /\ store[j].ino = SlotIno(j)
  BY Zenon, <1>1, <1>2 DEF GoodSlot
<1>4. SlotIno(i) = SlotIno(j)
  BY Zenon, <1>3
<1> QED
  BY <1>4, SizeAssumption DEF SlotIno

\* The counted slots are slots of the store.
LEMMA CountedSlots ==
    ASSUME BaseInv
    PROVE  /\ Counted \subseteq 0 .. MaxObjects
           /\ sb.inodes_count \in 0 .. MaxObjects /\ MaxObjects \in Nat
           /\ sb.inodes_count \notin Counted
BY CountType DEF BaseInv, Counted

\* The types of the slots,
LEMMA SlotTypes ==
    ASSUME BaseInv
    PROVE  /\ store \in [0 .. MaxObjects -> Inode]
           /\ \A i \in Counted : /\ store[i] \in Inode /\ store[i].ino \in Ino
                                 /\ store[i].block \in Block /\ store[i].size \in Nat
<1>1. store \in [0 .. MaxObjects -> Inode]
  BY Zenon DEF BaseInv, TypeOK, InodeStore
<1>2. \A i \in Counted : store[i] \in Inode
  BY <1>1, CountedSlots
<1> QED
  BY <1>1, <1>2 DEF Inode

\* of the inodes in memory and in calls,
LEMMA InodeTypes ==
    ASSUME BaseInv
    PROVE  /\ mem \in [Path -> Inode] /\ new \in [Task -> Inode]
           /\ \A p \in Path : mem[p].ino \in Ino /\ mem[p].size \in Nat
           /\ \A t \in Task : new[t].ino \in Ino
<1>1. mem \in [Path -> Inode] /\ new \in [Task -> Inode]
  BY Zenon DEF BaseInv, TypeOK
<1>2. /\ \A p \in Path : mem[p] \in Inode
      /\ \A t \in Task : new[t] \in Inode
  BY <1>1
<1> QED
  BY <1>1, <1>2 DEF Inode

\* of the directory blocks,
LEMMA DirTypes ==
    ASSUME BaseInv PROVE dirblk \in [Block -> [0 .. RecordsPerBlock - 1 -> Record]]
BY Zenon DEF BaseInv, TypeOK

\* and of what a task keeps of its call.
LEMMA TaskTypes ==
    ASSUME BaseInv
    PROVE  /\ pc \in [Task -> PC] /\ op \in [Task -> {"none", "create", "write"}]
           /\ path \in [Task -> Path \cup {NoPath}]
BY Zenon DEF BaseInv, TypeOK

\* simplefs_inode_save finds the slot of the inode that it saves.
LEMMA SaveEffect ==
    ASSUME BaseInv, FileInv, NEW t \in Task, SaveInode(t)
    PROVE  /\ Saved(t) \in Path /\ mem[Saved(t)] # NoInode
           /\ \E k \in Counted :
                 /\ Same(store[k], mem[Saved(t)])
                 /\ store' = [store EXCEPT ![k] = mem[Saved(t)]]
           /\ storeDisk' = store'
           /\ Goto(t, "leave") /\ UNCHANGED <<pending, local>>
<1>1. Saved(t) \in Path
  BY Zenon, PathOfCall DEF BaseInv, SaveInode, Saved, Creating
<1>2. mem[Saved(t)] # NoInode /\ GoodInode(mem[Saved(t)])
  BY Zenon, <1>1 DEF SaveInode, BaseInv, BlockInv, InodeInv
<1>3. PICK i \in Counted : Same(store[i], mem[Saved(t)])
  BY <1>1, <1>2 DEF FileInv, StoredIn
<1>4. i \in InodeSearch(mem[Saved(t)].ino)
  BY <1>3, CountedSlots DEF InodeSearch, Same, Counted
<1>5. PICK k \in First(InodeSearch(mem[Saved(t)].ino)) :
         store' = [store EXCEPT ![k] = mem[Saved(t)]]
  BY Zenon, <1>4 DEF SaveInode
<1>6. k \in 0 .. MaxObjects /\ store[k].ino = mem[Saved(t)].ino
  BY CountedSlots DEF First, InodeSearch
<1>7. k = i
  BY <1>2, <1>3, <1>6, SlotOfIno, CountedSlots DEF Same, GoodInode
<1> QED
  BY Zenon, <1>1, <1>2, <1>3, <1>4, <1>5, <1>7 DEF SaveInode

\* Only a crash takes a counted inode out of the store, or makes another
\* one of it.
LEMMA SlotsKept ==
    ASSUME BaseInv, FileInv, [Next]_vars, ~Crash
    PROVE  /\ Counted \subseteq Counted'
           /\ \A i \in Counted : Same(store'[i], store[i])
<1>1. CASE UNCHANGED <<sb, store>>
  BY <1>1 DEF Same, Counted
<1>2. ASSUME NEW t \in Task, GetAFreeblock(t)
      PROVE  store' = store /\ sb'.inodes_count = sb.inodes_count
  BY <1>2, CountType DEF BaseInv, GetAFreeblock, TakeBlock, Superblock
<1>3. ASSUME NEW t \in Task, AppendInode(t)
      PROVE  sb' = sb /\ \A i \in Counted : store'[i] = store[i]
  BY <1>3, CountedSlots DEF BaseInv, AppendInode, TypeOK, InodeStore
<1>4. ASSUME NEW t \in Task, CountInode(t)
      PROVE  store' = store /\ Counted \subseteq Counted'
  <2>1. sb'.inodes_count = sb.inodes_count + 1 /\ sb.inodes_count \in Nat
    BY <1>4, CountType DEF BaseInv, CountInode, Superblock
  <2> QED
    BY <1>4, <2>1 DEF CountInode, Counted
<1>5. ASSUME NEW t \in Task, SaveInode(t)
      PROVE  sb' = sb /\ \A i \in Counted : Same(store'[i], store[i])
  <2>1. PICK k \in Counted : /\ Same(store[k], mem[Saved(t)])
                             /\ store' = [store EXCEPT ![k] = mem[Saved(t)]]
    BY <1>5, SaveEffect
  <2>2. \A i \in Counted : store'[i] = store[i] \/ (i = k /\ store'[i] = mem[Saved(t)])
    BY <2>1, CountedSlots DEF BaseInv, TypeOK, InodeStore
  <2> QED
    BY <1>5, <2>1, <2>2 DEF Same, SaveInode
<1>6. KillSuperblock \/ Writeback => UNCHANGED <<sb, store>>
  BY DEF KillSuperblock, Writeback, cache
<1> QED
  BY <1>1, <1>2, <1>3, <1>4, <1>5, <1>6, StoreSteps DEF Same, Counted

\* What is stored stays stored.
LEMMA StoredKept ==
    ASSUME BaseInv, FileInv, [Next]_vars, ~Crash, NEW m, NEW n,
           StoredIn(Counted, store, n), Same(n, m)
    PROVE  StoredIn(Counted', store', m)
BY SlotsKept DEF StoredIn, Same

\* A task is moved by its own steps, and by a crash.
LEMMA OthersKeep ==
    ASSUME BaseInv, [Next]_vars, NEW u \in Task,
           ~Call(u), ~Proceed(u), ~Locking(u), ~Crash
    PROVE  /\ pc'[u] = pc[u] /\ op'[u] = op[u] /\ path'[u] = path[u]
           /\ new'[u] = new[u]
<1> DEFINE Kept == /\ pc'[u] = pc[u] /\ op'[u] = op[u] /\ path'[u] = path[u]
                   /\ new'[u] = new[u]
<1>a. /\ pc \in [Task -> PC] /\ op \in [Task -> {"none", "create", "write"}]
      /\ path \in [Task -> Path \cup {NoPath}] /\ new \in [Task -> Inode]
  BY DEF BaseInv, TypeOK
<1>b. ASSUME NEW t \in Task, t # u, Return(t) PROVE Kept
  BY <1>a, <1>b DEF Return, Goto
<1>1. ASSUME NEW t \in Task, t # u, Locking(t) PROVE Kept
  <2>1. Return(t) \/ (UNCHANGED local /\ \E l : Goto(t, l))
    BY Zenon, <1>1 DEF Locking, LockChildren, LockCount, LockFree, LockAdd, LockAddSb,
       LockSave, LockSaveSb
  <2> QED
    BY <1>a, <1>b, <1>1, <2>1 DEF Goto, local
<1>2. ASSUME NEW t \in Task, t # u, Proceed(t) PROVE Kept
  <2>1. CASE ObjectsCount(t)
    BY Zenon, <1>a, <1>b, <1>2, <2>1 DEF ObjectsCount, Goto
  <2>2. CASE GetAFreeblock(t)
    BY Zenon, <1>a, <1>b, <1>2, <2>2 DEF GetAFreeblock, Goto
  <2>3. CASE AppendInode(t) \/ CountInode(t) \/ AddRecord(t)
    BY Zenon, <1>a, <1>2, <2>3 DEF AppendInode, CountInode, AddRecord, Goto, local
  <2>4. CASE SaveInode(t) \/ Leave(t)
    BY Zenon, <1>a, <1>b, <1>2, <2>4 DEF SaveInode, Leave, Goto, local
  <2> QED
    BY Zenon, <1>2, <2>1, <2>2, <2>3, <2>4 DEF Proceed
<1>3. ASSUME NEW t \in Task, t # u, Call(t) PROVE Kept
  BY Zenon, <1>a, <1>3 DEF Call, CreateCall, WriteCall, Goto
<1>4. ASSUME NEW t \in Task, Signal(t) PROVE Kept
  BY Zenon, <1>4 DEF Signal, local
<1>5. ASSUME NEW p \in Path, Lookup(p) \/ DestroyInode(p) PROVE Kept
  BY Zenon, <1>5 DEF Lookup, DestroyInode, local
<1>6. CASE FillSuper \/ KillSuperblock \/ Writeback \/ UNCHANGED vars
  BY Zenon, <1>6 DEF FillSuper, KillSuperblock, Writeback, vars, local
<1>7. ASSUME NEW t \in Task, Call(t) \/ Proceed(t) \/ Locking(t) \/ Signal(t)
      PROVE  Kept
  <2>1. CASE t = u
    BY <1>4, <1>7, <2>1
  <2>2. CASE t # u
    BY <1>1, <1>2, <1>3, <1>4, <1>7, <2>2
  <2> QED
    BY <2>1, <2>2
<1> QED
  BY <1>5, <1>6, <1>7 DEF Next

\* What the own steps of a create do to the call, signals aside.
LEMMA CallEffect ==
    ASSUME BaseInv, pending = {}, NEW t \in Task, Locking(t) \/ Proceed(t)
    PROVE  /\ pc[t] # "idle"
           /\ \/ pc'[t] = "idle" /\ op'[t] = "none"
              \/ op'[t] = op[t] /\ path'[t] = path[t]
<1>a. /\ pc \in [Task -> PC] /\ op \in [Task -> {"none", "create", "write"}]
  BY DEF BaseInv, TypeOK
<1>b. ASSUME Return(t) PROVE pc'[t] = "idle" /\ op'[t] = "none"
  BY <1>a, <1>b DEF Return, Goto
<1>1. CASE Locking(t)
  BY Zenon, <1>1, LockingEffect DEF local, Locking, LockChildren, LockCount, LockFree,
     LockAdd, LockAddSb, LockSave, LockSaveSb
<1>2. CASE Proceed(t)
  BY Zenon, <1>b, <1>2 DEF Proceed, ObjectsCount, GetAFreeblock, AppendInode,
     CountInode, AddRecord, SaveInode, Leave, local
<1> QED
  BY <1>1, <1>2

\* The steps that change what is in memory.
LEMMA MemSteps ==
    [Next]_vars =>
        \/ UNCHANGED mem
        \/ \E t \in Task : (pc[t] = "save" /\ Locking(t) /\ UpdateSize(t)) \/ Leave(t)
        \/ \E p \in Path : Lookup(p) \/ DestroyInode(p)
        \/ FillSuper \/ KillSuperblock \/ Crash
<1> SUFFICES ASSUME [Next]_vars, mem' # mem PROVE
        \/ \E t \in Task : (pc[t] = "save" /\ Locking(t) /\ UpdateSize(t)) \/ Leave(t)
        \/ \E p \in Path : Lookup(p) \/ DestroyInode(p)
        \/ FillSuper \/ KillSuperblock \/ Crash
  OBVIOUS
<1>1. ASSUME NEW t \in Task, Locking(t) PROVE pc[t] = "save" /\ UpdateSize(t)
  BY Zenon, <1>1 DEF Locking, LockChildren, LockCount, LockFree, LockAdd, LockAddSb,
     LockSave, LockSaveSb
<1>2. ASSUME NEW t \in Task, Proceed(t) PROVE Leave(t)
  BY Zenon, <1>2 DEF Proceed, ObjectsCount, GetAFreeblock, AppendInode, CountInode,
     AddRecord, SaveInode
<1>3. ASSUME NEW t \in Task, Call(t) \/ Signal(t) PROVE FALSE
  BY Zenon, <1>3 DEF Call, CreateCall, WriteCall, Signal
<1>4. ~Writeback /\ mem' # mem
  BY Zenon DEF Writeback
<1>5. ~UNCHANGED vars
  BY Zenon DEF vars
<1> QED
  BY Zenon, <1>1, <1>2, <1>3, <1>4, <1>5 DEF Next

\* simplefs_get_inode returns an inode of the store, or none.
LEMMA GetInodeStored ==
    ASSUME BaseInv, NEW ino, NEW n \in GetInode(ino)
    PROVE  n = NoInode \/ (n.ino = ino /\ \E i \in Counted : n = store[i])
BY Zenon DEF GetInode, First, Counted

\* A change of the size is no other change.
LEMMA SizeOnly ==
    ASSUME TypeOK, NEW t \in Task, UpdateSize(t), NEW p \in Path
    PROVE  /\ Same(mem'[p], mem[p])
           /\ p # Saved(t) => mem'[p] = mem[p]
           /\ p = Saved(t) =>
                 mem'[p].size = IF Creating(t) THEN mem[p].size + 1 ELSE ppos[t]
<1>1. mem \in [Path -> Inode]
  BY DEF TypeOK
<1>2. /\ p # Saved(t) => mem'[p] = mem[p]
      /\ p = Saved(t) =>
            mem'[p] = [mem[p] EXCEPT !.size = IF Creating(t) THEN mem[p].size + 1
                                              ELSE ppos[t]]
  BY <1>1 DEF UpdateSize
<1> QED
  BY <1>1, <1>2 DEF Inode, Same

\* What comes into memory, but for the inode of a create that ends, was in
\* the store or in memory before.
LEMMA MemOrigin ==
    ASSUME BaseInv, FileInv, [Next]_vars, NEW p \in Path, mem'[p] # NoInode
    PROVE  \/ Same(mem[p], mem'[p])
           \/ \E i \in Counted : mem'[p] = store[i]
           \/ \E t \in Task : Leave(t) /\ Creating(t) /\ p = path[t] /\ mem'[p] = new[t]
<1>a. mem \in [Path -> Inode]
  BY DEF BaseInv, TypeOK
<1>1. CASE UNCHANGED mem
  BY <1>1 DEF Same
<1>2. ASSUME NEW t \in Task, UpdateSize(t) PROVE Same(mem[p], mem'[p])
  BY <1>2, SizeOnly DEF BaseInv, Same
<1>3. ASSUME NEW t \in Task, Leave(t)
      PROVE  mem'[p] = mem[p] \/ (Creating(t) /\ p = path[t] /\ mem'[p] = new[t])
  BY <1>3, <1>a DEF Leave
<1>4. ASSUME NEW q \in Path, NEW ino, NEW n \in GetInode(ino),
             mem' = [mem EXCEPT ![q] = n]
      PROVE  mem'[p] = mem[p] \/ \E i \in Counted : mem'[p] = store[i]
  BY Zenon, <1>4, <1>a, GetInodeStored
<1>5. ASSUME NEW q \in Path, Lookup(q)
      PROVE  mem'[p] = mem[p] \/ \E i \in Counted : mem'[p] = store[i]
  BY Zenon, <1>4, <1>5 DEF Lookup
<1>6. ASSUME FillSuper
      PROVE  mem'[p] = mem[p] \/ \E i \in Counted : mem'[p] = store[i]
  BY Zenon, <1>4, <1>6, Constants DEF FillSuper
<1>7. ASSUME NEW q \in Path, DestroyInode(q) PROVE mem'[p] = mem[p]
  BY <1>7, <1>a DEF DestroyInode
<1>8. ASSUME KillSuperblock PROVE mem'[p] = mem[p]
  BY <1>8, <1>a, Constants DEF KillSuperblock
<1>9. ~Crash
  BY DEF Crash
<1>10. mem'[p] = mem[p] => Same(mem[p], mem'[p])
  BY DEF Same
<1> QED
  BY Zenon, <1>1, <1>2, <1>3, <1>5, <1>6, <1>7, <1>8, <1>9, <1>10, MemSteps

\* A create has its inode from the step in which it counts it.
LEMMA HasInodeStep ==
    ASSUME BaseInv, pending = {}, [Next]_vars, NEW t \in Task, HasInode(t)'
    PROVE  /\ ~Crash /\ new'[t] = new[t] /\ path'[t] = path[t]
           /\ op[t] = "create" /\ op'[t] = "create"
           /\ HasInode(t) \/ CountInode(t)
<1>a. /\ pc \in [Task -> PC] /\ op \in [Task -> {"none", "create", "write"}]
  BY DEF BaseInv, TypeOK
<1>b. ~Crash
  BY DEF Crash, HasInode, Creating
<1>c. ~Return(t)
  BY <1>a DEF Return, Goto, HasInode
<1>1. CASE Call(t)
  BY <1>1, <1>a DEF Call, CreateCall, WriteCall, Goto, HasInode, Creating
<1>2. CASE Locking(t)
  <2>1. UNCHANGED local /\ (pc[t] = "save" \/ <<pc[t], pc'[t]>> \in Passes)
    BY <1>2, LockingEffect
  <2> QED
    BY <1>b, <2>1 DEF local, Passes, HasInode, Creating
<1>3. CASE Proceed(t)
  <2>1. CASE ObjectsCount(t)
    BY Zenon, <1>a, <1>c, <2>1 DEF ObjectsCount, Goto, HasInode
  <2>2. CASE GetAFreeblock(t)
    BY <1>a, <1>c, <2>2 DEF GetAFreeblock, Goto, HasInode
  <2>3. CASE AppendInode(t)
    BY <1>a, <2>3 DEF AppendInode, Goto, HasInode
  <2>4. CASE CountInode(t)
    <3>1. UNCHANGED local
      BY <2>4 DEF CountInode
    <3> QED
      BY <1>b, <2>4, <3>1 DEF local, HasInode, Creating
  <2>5. CASE AddRecord(t) \/ SaveInode(t)
    BY <1>a, <1>b, <1>c, <2>5 DEF AddRecord, SaveInode, HasInode, Creating, local
  <2>6. CASE Leave(t)
    BY <1>c, <2>6 DEF Leave
  <2> QED
    BY <1>3, <2>1, <2>2, <2>3, <2>4, <2>5, <2>6 DEF Proceed
<1>4. CASE ~Call(t) /\ ~Proceed(t) /\ ~Locking(t)
  BY <1>b, <1>4, OthersKeep DEF HasInode, Creating
<1> QED
  BY <1>1, <1>2, <1>3, <1>4

\* A create that is about to count its inode has just appended it.
LEMMA AtInodes ==
    ASSUME BaseInv, FileInv, [Next]_vars, NEW t \in Task, pc'[t] = "inodes"
    PROVE  store'[sb'.inodes_count] = new'[t]
<1>a. /\ pc \in [Task -> PC] /\ ~Crash
  BY DEF BaseInv, TypeOK, Crash
<1>b. ~Return(t)
  BY <1>a DEF Return, Goto
<1>1. CASE AppendInode(t)
  BY <1>1, CountedSlots DEF AppendInode, BaseInv, TypeOK, InodeStore, local
<1>2. CASE pc[t] = "inodes" /\ new'[t] = new[t]
  <2>1. HoldsMgmt(t) /\ HoldsChildren(t)
    BY <1>2 DEF BaseInv, LockInv, OpInv, HoldsMgmt, HoldsChildren
  <2>2. ASSUME NEW u \in Task, u # t, AppendInode(u) \/ CountInode(u) \/ SaveInode(u)
        PROVE  FALSE
    <3>1. HoldsMgmt(u)
      BY <2>2 DEF AppendInode, CountInode, SaveInode, HoldsMgmt
    <3> QED
      BY <2>1, <2>2, <3>1 DEF BaseInv, LockInv, MgmtInv
  <2>3. ~AppendInode(t) /\ ~SaveInode(t) /\ ~CountInode(t)
    BY <1>2, <1>a DEF AppendInode, SaveInode, CountInode, Goto
  <2>4. ASSUME NEW u \in Task, GetAFreeblock(u)
        PROVE  store' = store /\ sb'.inodes_count = sb.inodes_count
    BY <2>4, CountType DEF BaseInv, GetAFreeblock, TakeBlock, Superblock
  <2>5. KillSuperblock \/ Writeback => UNCHANGED <<sb, store>>
    BY DEF KillSuperblock, Writeback, cache
  <2>6. store' = store /\ sb'.inodes_count = sb.inodes_count
    BY Zenon, <1>a, <2>2, <2>3, <2>4, <2>5, StoreSteps
  <2> QED
    BY <1>2, <2>6 DEF FileInv
<1>3. CASE ~Call(t) /\ ~Proceed(t) /\ ~Locking(t)
  BY <1>a, <1>2, <1>3, OthersKeep
<1>4. CASE Call(t)
  BY <1>4, <1>a DEF Call, CreateCall, WriteCall, Goto
<1>5. CASE Locking(t)
  BY <1>5, LockingEffect DEF FileInv, Passes
<1>6. CASE Proceed(t)
  BY Zenon, <1>6, <1>a, <1>b, <1>1 DEF Proceed, ObjectsCount, GetAFreeblock, CountInode,
     AddRecord, SaveInode, Leave, Goto
<1> QED
  BY <1>3, <1>4, <1>5, <1>6

\* At first nothing is in memory.
LEMMA InitFileInv == Init => FileInv
BY DEF Init, FileInv, HasInode, Creating

\* Without signals, every step keeps what is in memory in the store.
LEMMA NextFileInv ==
    ASSUME MaxSignals = 0 PROVE BaseInv /\ FileInv /\ [Next]_vars => FileInv'
<1> SUFFICES ASSUME BaseInv, FileInv, [Next]_vars PROVE FileInv'
  OBVIOUS
<1>1. CASE Crash
  BY <1>1 DEF Crash, FileInv, HasInode, Creating
<1>2. CASE ~Crash
  <2>1. pending' = {}
    <3>1. ASSUME NEW t \in Task, Signal(t) PROVE FALSE
      BY <3>1 DEF Signal, BaseInv, TypeOK
    <3>2. ASSUME NEW t \in Task, Return(t) PROVE pending' = {}
      BY <3>2 DEF Return, FileInv
    <3>3. ASSUME NEW t \in Task, Locking(t) PROVE pending' = {}
      BY Zenon, <3>3, LockingEffect DEF FileInv
    <3>4. ASSUME NEW t \in Task, Proceed(t) PROVE pending' = {}
      BY Zenon, <3>2, <3>4 DEF Proceed, ObjectsCount, GetAFreeblock, AppendInode,
         CountInode, AddRecord, SaveInode, Leave, FileInv
    <3>5. ASSUME NEW t \in Task, Call(t) PROVE pending' = {}
      BY Zenon, <3>5 DEF Call, CreateCall, WriteCall, FileInv
    <3>6. ASSUME NEW p \in Path, Lookup(p) \/ DestroyInode(p) PROVE pending' = {}
      BY Zenon, <3>6 DEF Lookup, DestroyInode, FileInv
    <3>7. FillSuper \/ KillSuperblock \/ Writeback \/ UNCHANGED vars => pending' = {}
      BY Zenon DEF FillSuper, KillSuperblock, Writeback, vars, FileInv
    <3> QED
      BY Zenon, <1>2, <3>1, <3>3, <3>4, <3>5, <3>6, <3>7 DEF Next
  <2>2. ASSUME NEW p \in Path, mem'[p] # NoInode
        PROVE  StoredIn(Counted', store', mem'[p])
    <3>1. ASSUME NEW n, StoredIn(Counted, store, n), Same(n, mem'[p])
          PROVE  StoredIn(Counted', store', mem'[p])
      BY <1>2, <3>1, StoredKept
    <3>2. CASE Same(mem[p], mem'[p])
      <4>1. mem[p] # NoInode
        <5>1. GoodInode(mem'[p])
          BY <2>2, NextBaseInv DEF BaseInv, BlockInv, InodeInv
        <5> QED
          BY <3>2, <5>1 DEF Same, GoodInode, NoInode
      <4> QED
        BY <3>1, <3>2, <4>1 DEF FileInv
    <3>3. ASSUME NEW i \in Counted, mem'[p] = store[i]
          PROVE  StoredIn(Counted', store', mem'[p])
      BY <3>1, <3>3 DEF StoredIn, Same
    <3>4. ASSUME NEW t \in Task, Leave(t), Creating(t), mem'[p] = new[t]
          PROVE  StoredIn(Counted', store', mem'[p])
      <4>1. StoredIn(Counted, store, new[t])
        BY <3>4 DEF Leave, HasInode, FileInv
      <4> QED
        BY <3>1, <3>4, <4>1 DEF Same
    <3> QED
      BY <2>2, <3>2, <3>3, <3>4, MemOrigin
  <2>3. ASSUME NEW t \in Task, HasInode(t)'
        PROVE  StoredIn(Counted', store', new'[t])
    <3>1. new'[t] = new[t] /\ (HasInode(t) \/ CountInode(t))
      BY <2>3, HasInodeStep DEF FileInv
    <3>2. CASE HasInode(t)
      BY <1>2, <3>1, <3>2, StoredKept DEF FileInv, Same
    <3>3. CASE CountInode(t)
      <4>1. /\ sb'.inodes_count = sb.inodes_count + 1 /\ sb.inodes_count \in Nat
            /\ store' = store
        BY <3>3, CountType DEF BaseInv, CountInode, Superblock
      <4>2. sb.inodes_count \in Counted'
        BY <4>1 DEF Counted
      <4>3. store'[sb.inodes_count] = new'[t]
        BY <3>1, <3>3, <4>1 DEF FileInv, CountInode
      <4> QED
        BY <4>2, <4>3 DEF StoredIn, Same
    <3> QED
      BY <3>1, <3>2, <3>3
  <2> QED
    BY <2>1, <2>2, <2>3, AtInodes DEF FileInv
<1> QED
  BY <1>1, <1>2

\* So it is in every reachable state.
LEMMA FilesStored ==
    ASSUME MaxSignals = 0 PROVE Spec => [](BaseInv /\ FileInv)
BY Accounted, InitFileInv, NextFileInv, PTL DEF Spec

-----------------------------------------------------------------------------
(***************************************************************************)
(* Space.  When nothing fails and the free map has a bit of its own for    *)
(* every block, a block that is not free belongs to an inode of the image, *)
(* or to a create that has not returned.                                   *)
(***************************************************************************)
HasBlock(t) == HasInode(t) \/ pc[t] \in {"add", "addSb", "append", "inodes"}

SpaceInv ==
    /\ \A i \in 0 .. MaxObjects : storeDisk[i].block \in {0, store[i].block}
    /\ \A i \in 0 .. MaxObjects : i \notin Counted =>
          \/ store[i].block = 0
          \/ i = sb.inodes_count /\ \E t \in Task : pc[t] = "inodes"
    /\ \A t \in Task : Creating(t) /\ pc[t] = "leave" =>
          \E i \in Counted : storeDisk[i].block = new[t].block
    /\ \A t \in Task : ~HasBlock(t) => new[t].block = 0

\* Some inode of the image, or of a create in progress, owns block b.
Owned(b) == \/ \E i \in Counted : storeDisk[i].block = b
            \/ \E t \in Task : new[t].block = b

OwnedInv == \A b \in RESERVED_INODES .. MaxObjects - 1 :
                b \in sb.free_blocks \/ Owned(b)

\* In a free map no wider than an int, "1 << i" is bit i and no other.
LEMMA OwnBit ==
    ASSUME MaxObjects <= IntBits, NEW b \in 0 .. MaxObjects - 1
    PROVE  Mask(b) = {b}
<1>1. MaxObjects = IntBits /\ IntBits \in Nat /\ IntBits > 4
  BY SizeAssumption
<1>2. b \in Nat /\ b < IntBits
  BY <1>1
<1>3. b % IntBits = b
  BY <1>1, <1>2
<1>4. b = IntBits - 1 => b .. MaxObjects - 1 = {b}
  BY <1>1, <1>2
<1> QED
  BY <1>1, <1>2, <1>3, <1>4 DEF Mask

\* What is on the image of mkfs-simplefs, nothing is free that is used.
LEMMA InitSpaceInv ==
    ASSUME MaxObjects <= IntBits PROVE Init => SpaceInv /\ OwnedInv
<1> SUFFICES ASSUME Init PROVE SpaceInv /\ OwnedInv
  OBVIOUS
<1>1. /\ sb = mkfsSuperblock /\ store = mkfsStore /\ storeDisk = mkfsStore
      /\ mkfsSuperblock.inodes_count = 2 /\ MaxObjects \in Nat /\ MaxObjects > 4
      /\ mkfsSuperblock.free_blocks = Block \ Mask(3)
  BY Constants DEF Init, mkfsSuperblock, WELCOMEFILE_DATABLOCK_NUMBER
<1>2. /\ \A i \in 0 .. MaxObjects : i \notin 0 .. 1 => mkfsStore[i].block = 0
      /\ mkfsStore[1].block = 3
  BY <1>1 DEF mkfsStore, NoInode, WELCOMEFILE_DATABLOCK_NUMBER
<1>3. Counted = 0 .. 1
  BY <1>1 DEF Counted
<1>4. /\ \A t \in Task : new[t].block = 0 /\ pc[t] = "idle"
      /\ storeDisk = store
  BY DEF Init, NoInode
<1>5. SpaceInv
  BY <1>1, <1>2, <1>3, <1>4 DEF SpaceInv
<1>6. Mask(3) = {3}
  BY <1>1, OwnBit
<1>7. ASSUME NEW b \in RESERVED_INODES .. MaxObjects - 1, b # 3
      PROVE  b \in sb.free_blocks
  BY <1>1, <1>6, <1>7 DEF Block, RESERVED_INODES
<1>8. Owned(3)
  BY <1>1, <1>2, <1>3 DEF Owned
<1> QED
  BY <1>5, <1>7, <1>8 DEF OwnedInv

\* How a step changes the blocks that the slots hold: not at all, unless it
\* appends an inode.
LEMMA SlotBlocks ==
    ASSUME BaseInv, FileInv, [Next]_vars, ~Crash
    PROVE  \/ \A i \in 0 .. MaxObjects : store'[i].block = store[i].block
           \/ \E t \in Task : AppendInode(t)
<1>1. CASE store' = store
  BY <1>1
<1>2. ASSUME NEW t \in Task, SaveInode(t)
      PROVE  \A i \in 0 .. MaxObjects : store'[i].block = store[i].block
  <2>1. PICK k \in Counted : /\ Same(store[k], mem[Saved(t)])
                             /\ store' = [store EXCEPT ![k] = mem[Saved(t)]]
    BY <1>2, SaveEffect
  <2> QED
    BY <2>1, CountedSlots DEF BaseInv, TypeOK, InodeStore, Same
<1>3. ASSUME NEW t \in Task, GetAFreeblock(t) \/ CountInode(t) PROVE store' = store
  BY <1>3 DEF GetAFreeblock, CountInode
<1>4. KillSuperblock \/ Writeback => store' = store
  BY DEF KillSuperblock, Writeback, cache
<1> QED
  BY <1>1, <1>2, <1>3, <1>4, StoreSteps

\* How a step changes the image of the store: not at all, or it writes all
\* of it.
LEMMA ImageSteps ==
    ASSUME [Next]_vars PROVE storeDisk' = storeDisk \/ storeDisk' = store'
<1>1. ASSUME NEW t \in Task,
             GetAFreeblock(t) \/ AppendInode(t) \/ CountInode(t) \/ SaveInode(t)
      PROVE  storeDisk' = storeDisk \/ storeDisk' = store'
  BY Zenon, <1>1 DEF GetAFreeblock, AppendInode, CountInode, SaveInode, image
<1>2. KillSuperblock \/ Writeback \/ Crash => storeDisk' = storeDisk \/ storeDisk' = store'
  BY Zenon DEF KillSuperblock, Writeback, Crash, image, cache
<1> QED
  BY Zenon, <1>1, <1>2, StoreSteps

\* An append fills an empty slot, after the counted ones.
LEMMA AppendEffect ==
    ASSUME BaseInv, SpaceInv, NEW t \in Task, AppendInode(t)
    PROVE  /\ Counted' = Counted /\ pc'[t] = "inodes" /\ storeDisk' = storeDisk
           /\ sb.inodes_count \in 0 .. MaxObjects
           /\ storeDisk[sb.inodes_count].block = 0
           /\ \A i \in 0 .. MaxObjects :
                 i # sb.inodes_count => store'[i] = store[i]
<1>1. HoldsMgmt(t) /\ pc[t] = "append"
  BY DEF AppendInode, HoldsMgmt
<1>2. ASSUME NEW u \in Task PROVE pc[u] # "inodes"
  BY <1>1 DEF HoldsMgmt, BaseInv, LockInv, MgmtInv
<1>3. store[sb.inodes_count].block = 0
  BY <1>2, CountedSlots DEF SpaceInv
<1> QED
  BY <1>3, CountedSlots DEF AppendInode, Goto, SpaceInv, BaseInv, TypeOK, InodeStore,
     image, Counted

\* Every step keeps track of the blocks of slots and calls.
LEMMA NextSpaceInv ==
    ASSUME BaseInv, FileInv, FileInv', SpaceInv, [Next]_vars, ~Crash
    PROVE  SpaceInv'
<1>a. /\ pc \in [Task -> PC] /\ op \in [Task -> {"none", "create", "write"}]
      /\ new \in [Task -> Inode]
  BY DEF BaseInv, TypeOK
<1>b. pending = {} /\ BaseInv'
  BY NextBaseInv DEF FileInv
<1>1. ASSUME NEW i \in 0 .. MaxObjects
      PROVE  storeDisk'[i].block \in {0, store'[i].block}
  <2>1. CASE storeDisk' = store'
    BY <2>1
  <2>2. CASE storeDisk' = storeDisk
    <3>1. ASSUME NEW t \in Task, AppendInode(t)
          PROVE  storeDisk[i].block \in {0, store'[i].block}
      BY <3>1, AppendEffect DEF SpaceInv
    <3> QED
      BY <2>2, <3>1, SlotBlocks DEF SpaceInv
  <2> QED
    BY <2>1, <2>2, ImageSteps
<1>2. ASSUME NEW i \in 0 .. MaxObjects, i \notin Counted', store'[i].block # 0
      PROVE  i = sb'.inodes_count /\ \E t \in Task : pc'[t] = "inodes"
  <2>1. ASSUME NEW t \in Task, AppendInode(t)
        PROVE  i = sb'.inodes_count /\ \E u \in Task : pc'[u] = "inodes"
    <3>1. /\ sb' = sb /\ Counted' = Counted /\ pc'[t] = "inodes"
          /\ i # sb.inodes_count => store'[i] = store[i]
      BY Zenon, <2>1, AppendEffect DEF AppendInode
    <3> QED
      BY <1>2, <3>1 DEF SpaceInv
  <2>2. CASE store'[i].block = store[i].block
    <3>1. i \notin Counted
      BY <1>2, SlotsKept
    <3>2. PICK t \in Task : pc[t] = "inodes" /\ i = sb.inodes_count
      BY <1>2, <2>2, <3>1 DEF SpaceInv
    <3>3. sb.inodes_count \in Nat /\ sb'.inodes_count \in Nat
      BY <1>b, SizeAssumption DEF BaseInv, TypeOK, Superblock
    <3>4. sb'.inodes_count <= sb.inodes_count
      BY <1>2, <3>2, <3>3 DEF Counted
    <3>5. sb'.inodes_count = sb.inodes_count
      <4>1. sb.inodes_count - 1 \in Counted => sb.inodes_count - 1 \in Counted'
        BY SlotsKept
      <4>2. sb.inodes_count >= 2
        BY DEF BaseInv, BlockInv, SlotInv
      <4> QED
        BY <3>3, <3>4, <4>1, <4>2 DEF Counted
    <3>6. ~CountInode(t)
      <4>1. CountInode(t) => sb'.inodes_count = sb.inodes_count + 1
        BY CountType DEF BaseInv, CountInode, Superblock
      <4> QED
        BY <3>3, <3>5, <4>1
    <3>7. pc'[t] = "inodes"
      <4>1. ~Call(t)
        BY Zenon, <3>2 DEF Call, CreateCall, WriteCall
      <4>2. ~Proceed(t)
        BY Zenon, <3>2, <3>6 DEF Proceed, ObjectsCount, GetAFreeblock, AppendInode,
           AddRecord, SaveInode, Leave
      <4>3. ~Locking(t)
        BY Zenon, <3>2 DEF Locking, LockChildren, LockCount, LockFree, LockAdd,
           LockAddSb, LockSave, LockSaveSb
      <4> QED
        BY <3>2, <4>1, <4>2, <4>3, OthersKeep
    <3> QED
      BY <3>2, <3>5, <3>7
  <2> QED
    BY <2>1, <2>2, SlotBlocks
<1>3. ASSUME NEW t \in Task, Creating(t)', pc'[t] = "leave"
      PROVE  \E i \in Counted' : storeDisk'[i].block = new'[t].block
  <2>1. PICK i \in Counted' : Same(store'[i], new'[t])
    BY <1>3 DEF FileInv, HasInode, StoredIn
  <2>2. CASE storeDisk' = store'
    BY <2>1, <2>2 DEF Same
  <2>3. CASE storeDisk' = storeDisk
    <3>1. CASE SaveInode(t)
      BY <2>2, <3>1, SaveEffect
    <3>2. CASE pc[t] = "leave" /\ op[t] = "create" /\ new'[t] = new[t]
      BY <2>3, <3>2, SlotsKept DEF SpaceInv, Creating
    <3>3. ~Return(t)
      BY <1>3, <1>a DEF Return, Goto
    <3>4. ~Call(t) /\ ~Locking(t)
      <4>1. ~Call(t)
        BY <1>3, <1>a DEF Call, CreateCall, WriteCall, Goto
      <4>2. ~Locking(t)
        BY <1>3, <1>b, LockingEffect DEF Passes
      <4> QED
        BY <4>1, <4>2
    <3>5. Proceed(t) => SaveInode(t)
      BY Zenon, <1>3, <1>a, <3>3 DEF Proceed, ObjectsCount, GetAFreeblock, AppendInode,
         CountInode, AddRecord, Leave, Goto
    <3> QED
      BY <1>3, <3>1, <3>2, <3>4, <3>5, OthersKeep DEF Creating
  <2> QED
    BY <2>2, <2>3, ImageSteps
<1>4. ASSUME NEW t \in Task, ~HasBlock(t)' PROVE new'[t].block = 0
  <2>1. CASE new'[t] = new[t] /\ ~HasBlock(t)
    BY <2>1 DEF SpaceInv
  <2>2. CASE Return(t)
    BY <2>2, <1>a DEF Return, NoInode
  <2>3. CASE Call(t)
    BY Zenon, <2>1, <2>3 DEF Call, CreateCall, WriteCall, HasBlock, HasInode, Creating,
       BaseInv, LockInv, OpInv
  <2>4. CASE Locking(t)
    <3>1. /\ op'[t] = op[t] /\ new'[t] = new[t]
          /\ \/ pc[t] = "save" /\ pc'[t] = "saveSb"
             \/ <<pc[t], pc'[t]>> \in Passes
      BY <1>b, <2>4, LockingEffect DEF local
    <3> QED
      BY <1>4, <2>1, <3>1 DEF Passes, HasBlock, HasInode, Creating
  <2>5. CASE Proceed(t)
    <3>1. CASE ObjectsCount(t)
      <4>1. Return(t) \/ new'[t] = NewInode(path[t], sb.inodes_count)
        BY Zenon, <1>a, <3>1 DEF ObjectsCount
      <4> QED
        BY <2>2, <4>1 DEF NewInode
    <3>2. CASE GetAFreeblock(t)
      BY <1>4, <1>a, <2>2, <3>2 DEF GetAFreeblock, Goto, HasBlock
    <3>3. CASE AppendInode(t) \/ CountInode(t)
      <4>1. op[t] = "create" /\ UNCHANGED op
        BY Zenon, <3>3 DEF AppendInode, CountInode, local, BaseInv, LockInv, OpInv
      <4> QED
        BY <1>4, <1>a, <3>3, <4>1 DEF AppendInode, CountInode, Goto, HasBlock,
           HasInode, Creating
    <3>4. CASE AddRecord(t) \/ SaveInode(t)
      <4>1. CASE ~Return(t)
        BY Zenon, <1>4, <1>a, <2>1, <3>4, <4>1 DEF AddRecord, SaveInode, Goto, HasBlock,
           HasInode, Creating, local
      <4> QED
        BY <2>2, <4>1
    <3>5. CASE Leave(t)
      BY <2>2, <3>5 DEF Leave
    <3> QED
      BY <2>5, <3>1, <3>2, <3>3, <3>4, <3>5 DEF Proceed
  <2>6. CASE ~Call(t) /\ ~Proceed(t) /\ ~Locking(t)
    <3>1. pc'[t] = pc[t] /\ op'[t] = op[t] /\ new'[t] = new[t]
      BY <2>6, OthersKeep
    <3> QED
      BY <1>4, <2>1, <3>1 DEF HasBlock, HasInode, Creating
  <2> QED
    BY <2>3, <2>4, <2>5, <2>6
<1> QED
  BY <1>1, <1>2, <1>3, <1>4 DEF SpaceInv

\* An owned slot of the image keeps its block.
LEMMA SlotOwns ==
    ASSUME BaseInv, FileInv, SpaceInv, [Next]_vars, ~Crash,
           NEW i \in Counted, storeDisk[i].block # 0
    PROVE  i \in Counted' /\ storeDisk'[i].block = storeDisk[i].block
<1>1. i \in Counted' /\ store'[i].block = store[i].block
  BY SlotsKept DEF Same
<1>2. store[i].block = storeDisk[i].block
  BY CountedSlots DEF SpaceInv
<1> QED
  BY <1>1, <1>2, ImageSteps

\* When a block stops being free it has an owner, and no owner gives up its
\* block before the image has it.
LEMMA NextOwnedInv ==
    ASSUME MaxObjects <= IntBits, BaseInv, FileInv, SpaceInv, OwnedInv,
           [Next]_vars, ~Crash
    PROVE  OwnedInv'
<1> SUFFICES ASSUME NEW b \in RESERVED_INODES .. MaxObjects - 1,
                    b \notin sb'.free_blocks
             PROVE  Owned(b)'
  BY DEF OwnedInv
<1>a. /\ pc \in [Task -> PC] /\ new \in [Task -> Inode] /\ sb \in Superblock
      /\ b # 0 /\ b \in 0 .. MaxObjects - 1 /\ pending = {}
  BY SizeAssumption DEF BaseInv, TypeOK, RESERVED_INODES, FileInv
<1>1. CASE b \in sb.free_blocks
  <2>1. ASSUME NEW t \in Task, CountInode(t) PROVE sb'.free_blocks = sb.free_blocks
    BY <2>1, <1>a DEF CountInode, Superblock
  <2>2. ASSUME NEW t \in Task, AppendInode(t) \/ SaveInode(t) PROVE sb' = sb
    BY <2>2 DEF AppendInode, SaveInode
  <2>3. KillSuperblock \/ Writeback => sb' = sb
    BY DEF KillSuperblock, Writeback, cache
  <2>4. PICK t \in Task : GetAFreeblock(t)
    BY Zenon, <1>1, <2>1, <2>2, <2>3, StoreSteps
  <2>5. sb' # sb
    BY <1>1
  <2>6. PICK k \in First(FreeBlocks(sb.free_blocks)) :
           TakeBlock(k) /\ new' = [new EXCEPT ![t].block = k]
    BY Zenon, <2>4, <2>5 DEF GetAFreeblock
  <2>7. k \in 0 .. MaxObjects - 1
    BY SizeAssumption DEF First, FreeBlocks, RESERVED_INODES
  <2>8. Mask(k) = {k}
    BY <2>7, OwnBit
  <2>9. b = k
    BY <1>1, <1>a, <2>6, <2>8 DEF TakeBlock, Superblock
  <2>10. new'[t].block = b
    BY <1>a, <2>6, <2>9 DEF Inode
  <2> QED
    BY <2>10 DEF Owned
<1>2. ASSUME NEW i \in Counted, storeDisk[i].block = b PROVE Owned(b)'
  BY <1>2, <1>a, SlotOwns DEF Owned
<1>3. ASSUME NEW t \in Task, new[t].block = b PROVE Owned(b)'
  <2>1. HasBlock(t) /\ pc[t] \notin {"idle", "objects", "freeblock"}
    BY <1>3, <1>a DEF SpaceInv, HasBlock, HasInode
  <2>2. CASE new'[t] = new[t]
    BY <1>3, <2>2 DEF Owned
  <2>3. CASE Leave(t)
    <3>1. Creating(t) /\ pc[t] = "leave"
      BY <2>1, <2>3 DEF Leave, HasBlock, HasInode
    <3>2. PICK i \in Counted : storeDisk[i].block = b
      BY <1>3, <3>1 DEF SpaceInv
    <3> QED
      BY <1>2, <3>2
  <2>4. Call(t) => FALSE
    BY Zenon, <2>1 DEF Call, CreateCall, WriteCall
  <2>5. Locking(t) => new' = new
    BY Zenon, <1>a, LockingEffect DEF local
  <2>6. SaveInode(t) => new' = new
    BY SaveEffect DEF local
  <2>7. Proceed(t) => new' = new \/ Leave(t)
    BY Zenon, <2>1, <2>6 DEF Proceed, ObjectsCount, GetAFreeblock, AppendInode,
       CountInode, AddRecord, local
  <2> QED
    BY <2>2, <2>3, <2>4, <2>5, <2>7, OthersKeep
<1> QED
  BY <1>1, <1>2, <1>3 DEF OwnedInv, Owned

\* When nothing fails and the free map is no wider than an int,
\* simplefs_sb_get_a_freeblock says that the file system is full only when
\* every block belongs to an inode of the image or to a create in progress:
\* no order of concurrent creates, refused ones included, leaks a block.
THEOREM NoBlockLeaks ==
    ASSUME MaxObjects <= IntBits, MaxSignals = 0, MaxCrashes = 0
    PROVE  Spec => []NoSpaceMeansFull
<1>1. Init => SpaceInv /\ OwnedInv
  BY InitSpaceInv
<1>2. BaseInv /\ FileInv /\ FileInv' /\ SpaceInv /\ OwnedInv /\ [Next]_vars
         => SpaceInv' /\ OwnedInv'
  <2>1. BaseInv => ~Crash
    BY DEF BaseInv, TypeOK, Crash
  <2> QED
    BY <2>1, NextSpaceInv, NextOwnedInv
<1>3. Spec => [](BaseInv /\ FileInv)
  BY FilesStored
<1>4. Spec => [](SpaceInv /\ OwnedInv)
  BY <1>1, <1>2, <1>3, PTL DEF Spec
<1>5. BaseInv /\ OwnedInv => NoSpaceMeansFull
  <2> SUFFICES ASSUME BaseInv, OwnedInv, FreeBlocks(sb.free_blocks) = {},
                      NEW b \in RESERVED_INODES .. MaxObjects - 1
               PROVE  b \in {n.block : n \in OnDisk \cup {new[t] : t \in Task}}
    BY DEF NoSpaceMeansFull
  <2>1. b \in 0 .. MaxObjects - 1 /\ b # 0
    BY SizeAssumption DEF RESERVED_INODES
  <2>2. Mask(b) = {b}
    BY <2>1, OwnBit
  <2>3. b \notin sb.free_blocks
    BY <2>2 DEF FreeBlocks
  <2>4. ASSUME NEW i \in Counted, storeDisk[i].block = b
        PROVE  storeDisk[i] \in OnDisk
    BY <2>1, <2>4 DEF OnDisk, Counted, BaseInv, CallInv, NoInode
  <2> QED
    BY Zenon, <2>3, <2>4 DEF OwnedInv, Owned
<1> QED
  BY <1>3, <1>4, <1>5, PTL

-----------------------------------------------------------------------------
(***************************************************************************)
(* What a step may do: to the count of inodes, to the store, to the        *)
(* directory blocks, to a call.                                            *)
(***************************************************************************)
\* simplefs_inode_add alone changes the count, a crash does not lose it.
LEMMA CountStep ==
    ASSUME BaseInv, [Next]_vars
    PROVE  /\ sb.inodes_count \in Nat
           /\ \/ sb'.inodes_count = sb.inodes_count
              \/ \E t \in Task : CountInode(t) /\ sb'.inodes_count = sb.inodes_count + 1
<1>a. sb \in Superblock /\ sb.inodes_count \in Nat /\ sb = sbDisk
  BY CountType DEF BaseInv, CallInv
<1>1. ASSUME NEW t \in Task, CountInode(t)
      PROVE  sb'.inodes_count = sb.inodes_count + 1
  BY <1>1, <1>a DEF CountInode, Superblock
<1>2. ASSUME NEW t \in Task, GetAFreeblock(t)
      PROVE  sb'.inodes_count = sb.inodes_count
  BY <1>2, <1>a DEF GetAFreeblock, TakeBlock, Superblock
<1>3. ASSUME NEW t \in Task, AppendInode(t) \/ SaveInode(t) PROVE sb' = sb
  BY Zenon, <1>3 DEF AppendInode, SaveInode
<1>4. KillSuperblock \/ Writeback \/ Crash => sb' = sb
  BY Zenon, <1>a DEF KillSuperblock, Writeback, Crash, cache
<1> QED
  BY Zenon, <1>a, <1>1, <1>2, <1>3, <1>4, StoreSteps

\* A slot changes when an inode is appended or saved, and in a crash.
LEMMA StoreStep ==
    ASSUME [Next]_vars, ~Crash
    PROVE  store' = store \/ \E t \in Task : AppendInode(t) \/ SaveInode(t)
<1>1. ASSUME NEW t \in Task, GetAFreeblock(t) \/ CountInode(t) PROVE store' = store
  BY Zenon, <1>1 DEF GetAFreeblock, CountInode
<1>2. KillSuperblock \/ Writeback => store' = store
  BY Zenon DEF KillSuperblock, Writeback, cache
<1> QED
  BY Zenon, <1>1, <1>2, StoreSteps

\* Only create writes a directory block.
LEMMA DirStep ==
    ASSUME [Next]_vars
    PROVE  dirblk' = dirblk \/ \E t \in Task : AddRecord(t)
<1>1. ASSUME NEW t \in Task, Locking(t) PROVE dirblk' = dirblk
  BY Zenon, <1>1 DEF Locking, LockChildren, LockCount, LockFree, LockAdd, LockAddSb,
     LockSave, LockSaveSb, image
<1>2. ASSUME NEW t \in Task, Proceed(t) PROVE dirblk' = dirblk \/ AddRecord(t)
  BY Zenon, <1>2 DEF Proceed, ObjectsCount, GetAFreeblock, AppendInode, CountInode,
     SaveInode, Leave, image
<1>3. ASSUME NEW t \in Task, Call(t) \/ Signal(t) PROVE dirblk' = dirblk
  BY Zenon, <1>3 DEF Call, CreateCall, WriteCall, Signal, image
<1>4. ASSUME NEW p \in Path, Lookup(p) \/ DestroyInode(p) PROVE dirblk' = dirblk
  BY Zenon, <1>4 DEF Lookup, DestroyInode, image
<1>5. FillSuper \/ KillSuperblock \/ Writeback \/ Crash \/ UNCHANGED vars
         => dirblk' = dirblk
  BY Zenon DEF FillSuper, KillSuperblock, Writeback, Crash, vars, image
<1> QED
  BY Zenon, <1>1, <1>2, <1>3, <1>4, <1>5 DEF Next

\* A call begins, ends, or stays the call that it is.
LEMMA OpStep ==
    ASSUME BaseInv, FileInv, [Next]_vars, NEW t \in Task
    PROVE  \/ op'[t] = "none" /\ pc'[t] = "idle"
           \/ \E p \in Path : CreateCall(t, p) /\ op'[t] = "create"
                              /\ path'[t] = p /\ pc'[t] = "children"
           \/ \E p \in Path : \E n \in 1 .. MaxSize : WriteCall(t, p, n)
                 /\ op'[t] = "write" /\ path'[t] = p /\ pc'[t] = "save"
           \/ op'[t] = op[t] /\ path'[t] = path[t] /\ ~Call(t) /\ ~Crash
<1>a. /\ pc \in [Task -> PC] /\ op \in [Task -> {"none", "create", "write"}]
      /\ path \in [Task -> Path \cup {NoPath}] /\ pending = {}
  BY DEF BaseInv, TypeOK, FileInv
<1>1. CASE Crash
  BY Zenon, <1>1 DEF Crash
<1>2. CASE Call(t)
  BY Zenon, <1>2, <1>a DEF Call, CreateCall, WriteCall, Goto
<1>3. CASE Locking(t) \/ Proceed(t)
  <2>1. /\ pc[t] # "idle"
        /\ \/ pc'[t] = "idle" /\ op'[t] = "none"
           \/ op'[t] = op[t] /\ path'[t] = path[t]
    BY <1>3, <1>a, CallEffect
  <2>2. ~Call(t)
    BY Zenon, <2>1 DEF Call, CreateCall, WriteCall
  <2> QED
    BY Zenon, <1>1, <2>1, <2>2
<1>4. CASE ~Crash /\ ~Call(t) /\ ~Locking(t) /\ ~Proceed(t)
  BY Zenon, <1>4, OthersKeep
<1> QED
  BY Zenon, <1>1, <1>2, <1>3, <1>4

\* How a create goes on.
LEMMA CreateStep ==
    ASSUME BaseInv, FileInv, [Next]_vars, NEW t \in Task, Creating(t), Creating(t)'
    PROVE  /\ path'[t] = path[t] /\ ~Crash
           /\ \/ new'[t] = new[t] /\ pc'[t] = pc[t]
              \/ /\ new'[t] = new[t]
                 /\ <<pc[t], pc'[t]>> \in Passes /\ UNCHANGED <<mem, cache, image>>
              \/ /\ new'[t] = new[t] /\ UpdateSize(t)
                 /\ pc[t] = "save" /\ pc'[t] = "saveSb" /\ UNCHANGED <<cache, image>>
              \/ ObjectsCount(t) /\ pc'[t] = "free"
                 /\ new'[t] = NewInode(path[t], sb.inodes_count)
              \/ GetAFreeblock(t) /\ pc'[t] = "add"
                 /\ \E i \in Block : new'[t] = [new[t] EXCEPT !.block = i]
              \/ AppendInode(t) /\ pc'[t] = "inodes" /\ new'[t] = new[t]
              \/ CountInode(t) /\ pc'[t] = "record" /\ new'[t] = new[t]
              \/ AddRecord(t) /\ pc'[t] = "save" /\ new'[t] = new[t]
              \/ SaveInode(t) /\ pc'[t] = "leave" /\ new'[t] = new[t]
<1>a. /\ pc \in [Task -> PC] /\ op \in [Task -> {"none", "create", "write"}]
      /\ path \in [Task -> Path \cup {NoPath}] /\ pending = {}
      /\ new \in [Task -> Inode]
  BY DEF BaseInv, TypeOK, FileInv
<1>b. ~Crash /\ pc[t] # "idle"
  BY DEF Crash, Creating, BaseInv, LockInv, OpInv
<1>c. ~Return(t)
  BY <1>a DEF Return, Creating
<1>d. ~Call(t)
  BY Zenon, <1>b DEF Call, CreateCall, WriteCall
<1>e. path'[t] = path[t]
  BY OpStep, <1>d DEF Creating, Call
<1>1. CASE Locking(t)
  BY <1>1, <1>a, <1>b, <1>e, LockingEffect DEF local
<1>2. CASE ObjectsCount(t)
  BY Zenon, <1>2, <1>a, <1>b, <1>c, <1>e DEF ObjectsCount, Goto
<1>3. CASE GetAFreeblock(t)
  <2>1. PICK i \in First(FreeBlocks(sb.free_blocks)) :
           new' = [new EXCEPT ![t].block = i]
    BY Zenon, <1>3, <1>c DEF GetAFreeblock
  <2>2. i \in Block
    BY SizeAssumption DEF First, FreeBlocks, RESERVED_INODES, Block
  <2>3. new'[t] = [new[t] EXCEPT !.block = i] /\ pc'[t] = "add"
    BY <2>1, <1>3, <1>a, <1>c DEF GetAFreeblock, Goto
  <2> QED
    BY Zenon, <1>b, <1>e, <1>3, <2>2, <2>3
<1>4. CASE AppendInode(t) \/ CountInode(t) \/ AddRecord(t)
  BY Zenon, <1>4, <1>a, <1>b, <1>e DEF AppendInode, CountInode, AddRecord, Goto, local
<1>5. CASE SaveInode(t)
  BY Zenon, <1>5, <1>a, <1>b, <1>c, <1>e DEF SaveInode, Goto, local
<1>6. CASE Leave(t)
  BY <1>6, <1>c DEF Leave
<1>7. CASE ~Locking(t) /\ ~Proceed(t)
  BY Zenon, <1>7, <1>b, <1>d, <1>e, OthersKeep
<1> QED
  BY Zenon, <1>1, <1>2, <1>3, <1>4, <1>5, <1>6, <1>7 DEF Proceed

-----------------------------------------------------------------------------
(***************************************************************************)
(* The two copies of the store.  Sizes other than 0 come into the store    *)
(* with simplefs_inode_save, which writes the whole store to the image: a  *)
(* slot whose copies differ has size 0 in both.                            *)
(***************************************************************************)
Differs(m, n) == m # n /\ ~(m.size = 0 /\ n.size = 0)

ImageInv ==
    /\ \A t \in Task : new[t].size = 0
    /\ \A i \in 0 .. MaxObjects : i \notin Counted =>
          store[i].size = 0 /\ storeDisk[i].size = 0
    /\ \A i \in 0 .. MaxObjects : ~Differs(store[i], storeDisk[i])

\* The image of mkfs-simplefs is the store.
LEMMA InitImageInv == Init => ImageInv
<1> SUFFICES ASSUME Init PROVE ImageInv
  OBVIOUS
<1>1. /\ store = mkfsStore /\ storeDisk = mkfsStore /\ Counted = 0 .. 1
  BY DEF Init, mkfsSuperblock, Counted
<1>2. \A i \in 0 .. MaxObjects : i \notin 0 .. 1 => mkfsStore[i].size = 0
  BY Constants DEF mkfsStore, NoInode
<1> QED
  BY <1>1, <1>2 DEF Init, ImageInv, Differs, NoInode

\* Every step keeps it so.
LEMMA NextImageInv ==
    ASSUME BaseInv, FileInv, ImageInv, [Next]_vars PROVE ImageInv'
<1>a. new \in [Task -> Inode] /\ store \in InodeStore
  BY DEF BaseInv, TypeOK
<1>1. CASE Crash
  <2>1. Counted' = Counted /\ store' = storeDisk /\ storeDisk' = storeDisk
    BY <1>1 DEF Crash, Counted, BaseInv, CallInv, image
  <2> QED
    BY <1>1, <2>1 DEF Crash, ImageInv, Differs, NoInode
<1>2. CASE ~Crash
  <2>1. ASSUME NEW t \in Task PROVE new'[t].size = 0
    <3>1. CASE Creating(t) /\ Creating(t)'
      <4>1. \/ new'[t] = new[t] \/ new'[t] = NewInode(path[t], sb.inodes_count)
            \/ \E b \in Block : new'[t] = [new[t] EXCEPT !.block = b]
        BY Zenon, <3>1, CreateStep
      <4>2. new[t].size = 0 /\ new[t] \in Inode
        BY <1>a DEF ImageInv
      <4>3. NewInode(path[t], sb.inodes_count).size = 0
        BY DEF NewInode
      <4>4. ASSUME NEW b \in Block PROVE [new[t] EXCEPT !.block = b].size = 0
        BY <4>2 DEF Inode
      <4> QED
        BY Zenon, <4>1, <4>2, <4>3, <4>4
    <3>2. CASE Return(t)
      BY <1>a, <3>2 DEF Return, NoInode
    <3>3. CASE new'[t] = new[t]
      BY <3>3 DEF ImageInv
    <3>4. CASE Call(t)
      BY Zenon, <3>3, <3>4 DEF Call, CreateCall, WriteCall
    <3>5. CASE Locking(t)
      BY Zenon, <3>3, <3>5, LockingEffect DEF FileInv, local
    <3>6. CASE Proceed(t) /\ ~(Creating(t) /\ Creating(t)')
      <4>1. CASE ObjectsCount(t) \/ GetAFreeblock(t)
        <5>1. op[t] = "create"
          BY <4>1 DEF ObjectsCount, GetAFreeblock, BaseInv, LockInv, OpInv
        <5> QED
          BY Zenon, <3>2, <3>6, <4>1, <5>1 DEF ObjectsCount, GetAFreeblock, Creating
      <4>2. CASE ~ObjectsCount(t) /\ ~GetAFreeblock(t)
        BY Zenon, <3>2, <3>3, <3>6, <4>2 DEF Proceed, AppendInode, CountInode, AddRecord,
           SaveInode, Leave, local
      <4> QED
        BY <4>1, <4>2
    <3> QED
      BY <1>2, <3>1, <3>3, <3>4, <3>5, <3>6, OthersKeep
  <2>2. Counted \subseteq Counted'
    BY <1>2, SlotsKept
  <2>3. ASSUME NEW t \in Task, AppendInode(t)
        PROVE  /\ Counted' = Counted /\ storeDisk' = storeDisk
               /\ sb.inodes_count \in 0 .. MaxObjects /\ sb.inodes_count \notin Counted
               /\ store'[sb.inodes_count] = new[t]
               /\ \A i \in 0 .. MaxObjects :
                     i # sb.inodes_count => store'[i] = store[i]
    BY <1>a, <2>3, CountedSlots DEF AppendInode, Counted, InodeStore, image
  <2>4. ASSUME NEW t \in Task, SaveInode(t)
        PROVE  /\ storeDisk' = store'
               /\ \A i \in 0 .. MaxObjects : i \notin Counted => store'[i] = store[i]
    BY Zenon, <1>a, <2>4, SaveEffect DEF InodeStore
  <2>5. ASSUME NEW i \in 0 .. MaxObjects, i \notin Counted'
        PROVE  store'[i].size = 0 /\ storeDisk'[i].size = 0
    <3>1. store[i].size = 0 /\ storeDisk[i].size = 0
      BY <2>2, <2>5 DEF ImageInv
    <3>2. store'[i].size = 0
      BY <1>2, <2>2, <2>3, <2>4, <2>5, <3>1, StoreStep DEF ImageInv
    <3> QED
      BY <3>1, <3>2, ImageSteps
  <2>6. ASSUME NEW i \in 0 .. MaxObjects PROVE ~Differs(store'[i], storeDisk'[i])
    <3>1. CASE storeDisk' = store'
      BY <3>1 DEF Differs
    <3>2. CASE storeDisk' = storeDisk
      <4>1. ASSUME NEW t \in Task, SaveInode(t) PROVE storeDisk' = store'
        BY <4>1, <2>4
      <4>2. ASSUME NEW t \in Task, AppendInode(t)
            PROVE  ~Differs(store'[i], storeDisk[i])
        BY <2>3, <4>2 DEF ImageInv, Differs
      <4> QED
        BY <1>2, <3>1, <3>2, <4>1, <4>2, StoreStep DEF ImageInv
    <3> QED
      BY <3>1, <3>2, ImageSteps
  <2> QED
    BY <2>1, <2>5, <2>6 DEF ImageInv
<1> QED
  BY <1>1, <1>2

-----------------------------------------------------------------------------
(***************************************************************************)
(* Callers.  The VFS holds the i_mutex of a directory around create, and a *)
(* reference to the inodes that a call works on.                           *)
(***************************************************************************)
Kind(p) == IF p \in Dirs THEN "DIR" ELSE "REG"

CallerInv ==
    /\ \A t, u \in Task :
          Creating(t) /\ Creating(u) /\ Parent[path[t]] = Parent[path[u]] => t = u
    /\ \A t \in Task : Creating(t) =>
          mem[path[t]] = NoInode /\ mem[Parent[path[t]]].mode = "DIR"
    /\ \A t \in Task : op[t] = "write" => mem[path[t]].mode = "REG"
    /\ \A t \in Task : Creating(t) /\ pc[t] \notin {"children", "count", "objects"} =>
          new[t].mode = Kind(path[t])

\* An inode that is in use stays in memory; its size changes when the call
\* that is going to save it says so.
LEMMA UsedKept ==
    ASSUME BaseInv, FileInv, CallerInv, [Next]_vars, ~Crash,
           NEW p \in Path, mem[p] # NoInode, InUse(p)
    PROVE  /\ Same(mem'[p], mem[p])
           /\ \/ mem'[p] = mem[p]
              \/ \E t \in Task : pc[t] = "save" /\ Locking(t) /\ UpdateSize(t)
                                 /\ Saved(t) = p
<1>a. mem \in [Path -> Inode] /\ Root \in Path
  BY Constants DEF BaseInv, TypeOK
<1>b. mem'[p] = mem[p] => Same(mem'[p], mem[p])
  BY DEF Same
<1>1. ASSUME NEW t \in Task, pc[t] = "save", Locking(t), UpdateSize(t)
      PROVE  /\ Same(mem'[p], mem[p])
             /\ mem'[p] = mem[p] \/ Saved(t) = p
  BY Zenon, <1>1, SizeOnly DEF BaseInv
<1>2. ASSUME NEW t \in Task, Leave(t) PROVE mem'[p] = mem[p]
  BY <1>2, <1>a DEF Leave, CallerInv
<1>3. ASSUME NEW q \in Path, Lookup(q) PROVE mem'[p] = mem[p]
  BY Zenon, <1>3, <1>a DEF Lookup
<1>4. ASSUME NEW q \in Path, DestroyInode(q) PROVE mem'[p] = mem[p]
  BY <1>4, <1>a DEF DestroyInode
<1>5. FillSuper => mem'[p] = mem[p]
  BY <1>a DEF FillSuper, Mounted
<1>6. KillSuperblock => mem'[p] = mem[p]
  BY <1>a DEF KillSuperblock
<1> QED
  BY Zenon, <1>b, <1>1, <1>2, <1>3, <1>4, <1>5, <1>6, MemSteps

\* What create makes is not in memory before create enters it.
LEMMA AbsentKept ==
    ASSUME BaseInv, FileInv, CallerInv, [Next]_vars,
           NEW t \in Task, Creating(t), Creating(t)'
    PROVE  mem'[path[t]] = NoInode
<1>a. mem \in [Path -> Inode] /\ Root \in Path /\ op \in [Task -> {"none", "create", "write"}]
  BY Constants DEF BaseInv, TypeOK
<1>b. /\ mem[path[t]] = NoInode /\ path[t] \in Path \ {Root} /\ ~Crash
  BY Zenon DEF CallerInv, BaseInv, LockInv, OpInv, CallInv, Creating, Crash
<1>1. ASSUME NEW u \in Task, pc[u] = "save", UpdateSize(u) PROVE mem'[path[t]] = mem[path[t]]
  <2>1. mem[Saved(u)] # NoInode
    BY <1>1 DEF BaseInv, BlockInv, InodeInv
  <2> QED
    BY Zenon, <1>b, <1>1, <2>1, SizeOnly DEF BaseInv
<1>2. ASSUME NEW u \in Task, Leave(u) PROVE mem'[path[t]] = mem[path[t]]
  <2>1. u # t
    BY <1>2, <1>a DEF Leave, Return, Creating
  <2>2. Creating(u) => path[u] # path[t]
    BY Zenon, <2>1 DEF CallerInv
  <2> QED
    BY Zenon, <1>2, <1>a, <1>b, <2>2 DEF Leave
<1>3. ASSUME NEW q \in Path, Lookup(q) PROVE mem'[path[t]] = mem[path[t]]
  <2>1. q # path[t]
    BY Zenon, <1>3 DEF Lookup, IMutexFree
  <2> QED
    BY Zenon, <1>3, <1>a, <1>b, <2>1 DEF Lookup
<1>4. ASSUME NEW q \in Path, DestroyInode(q) PROVE mem'[path[t]] = NoInode
  BY <1>4, <1>a, <1>b DEF DestroyInode
<1>5. FillSuper \/ KillSuperblock => mem'[path[t]] = mem[path[t]]
  BY <1>a, <1>b DEF FillSuper, KillSuperblock
<1> QED
  BY Zenon, <1>b, <1>1, <1>2, <1>3, <1>4, <1>5, MemSteps

\* At first there are no calls.
LEMMA InitCallerInv == Init => CallerInv
BY DEF Init, CallerInv, Creating

\* A create in progress is a create that has begun now, or that goes on.
LEMMA CreatingBefore ==
    ASSUME BaseInv, FileInv, [Next]_vars, NEW t \in Task, Creating(t)'
    PROVE  /\ ~Crash
           /\ \/ CreateCall(t, path'[t]) /\ path'[t] \in Path /\ pc'[t] = "children"
              \/ Creating(t) /\ path'[t] = path[t] /\ ~Call(t)
<1>1. ~Crash
  BY DEF Crash, Creating
<1> QED
  BY Zenon, <1>1, OpStep DEF Creating

\* Every step keeps the callers apart and what they work on in memory.
LEMMA NextCallerInv ==
    ASSUME BaseInv, FileInv, CallerInv, [Next]_vars PROVE CallerInv'
<1>a. /\ op \in [Task -> {"none", "create", "write"}]
      /\ path \in [Task -> Path \cup {NoPath}] /\ new \in [Task -> Inode]
  BY DEF BaseInv, TypeOK
<1>b. ASSUME NEW t \in Task, Creating(t)
      PROVE  /\ path[t] \in Path /\ Parent[path[t]] \in Path
             /\ mem[Parent[path[t]]] # NoInode /\ InUse(Parent[path[t]])
  <2>1. pc[t] # "idle"
    BY <1>b DEF Creating, BaseInv, LockInv, OpInv
  <2>2. path[t] \in Path /\ Parent[path[t]] \in Path
    BY Zenon, <1>b, <2>1, PathOfCall DEF BaseInv, Creating
  <2>3. mem[Parent[path[t]]].mode = "DIR"
    BY Zenon, <1>b DEF CallerInv
  <2> QED
    BY <1>b, <2>2, <2>3 DEF NoInode, InUse
<1>1. ASSUME NEW t \in Task, NEW u \in Task, Creating(t)', Creating(u)',
             Parent[path'[t]] = Parent[path'[u]]
      PROVE  t = u
  <2>1. ASSUME NEW v \in Task, NEW w \in Task, v # w, Creating(w)', Creating(v)',
               Parent[path'[v]] = Parent[path'[w]], CreateCall(v, path'[v])
        PROVE  FALSE
    <3>1. op'[w] = op[w] /\ path'[w] = path[w]
      BY Zenon, <2>1, <1>a DEF CreateCall
    <3> QED
      BY <2>1, <3>1 DEF CreateCall, IMutexFree, Creating
  <2>2. CASE CreateCall(t, path'[t]) \/ CreateCall(u, path'[u])
    BY <1>1, <2>1, <2>2
  <2>3. CASE /\ Creating(t) /\ path'[t] = path[t]
             /\ Creating(u) /\ path'[u] = path[u]
    BY <1>1, <2>3 DEF CallerInv
  <2> QED
    BY Zenon, <1>1, <2>2, <2>3, CreatingBefore
<1>2. ASSUME NEW t \in Task, Creating(t)'
      PROVE  mem'[path'[t]] = NoInode /\ mem'[Parent[path'[t]]].mode = "DIR"
  <2>1. CASE CreateCall(t, path'[t])
    BY Zenon, <2>1 DEF CreateCall
  <2>2. CASE Creating(t) /\ path'[t] = path[t]
    <3>1. mem'[path[t]] = NoInode
      BY <1>2, <2>2, AbsentKept
    <3>2. Same(mem'[Parent[path[t]]], mem[Parent[path[t]]])
      BY <1>2, <1>b, <2>2, UsedKept, CreatingBefore
    <3> QED
      BY Zenon, <2>2, <3>1, <3>2 DEF Same, CallerInv
  <2> QED
    BY <1>2, <2>1, <2>2, CreatingBefore
<1>3. ASSUME NEW t \in Task, op'[t] = "write" PROVE mem'[path'[t]].mode = "REG"
  <2>1. ASSUME NEW p \in Path, NEW n \in 1 .. MaxSize, WriteCall(t, p, n),
               path'[t] = p
        PROVE  mem'[path'[t]].mode = "REG"
    BY Zenon, <2>1 DEF WriteCall
  <2>2. CASE op[t] = "write" /\ path'[t] = path[t]
    <3>1. ~Crash /\ pc[t] # "idle"
      BY Zenon, <1>3, <2>2 DEF Crash, BaseInv, LockInv, OpInv
    <3>2. /\ path[t] \in Path /\ mem[path[t]].mode = "REG"
          /\ mem[path[t]] # NoInode /\ InUse(path[t])
      BY <2>2, <3>1, PathOfCall DEF BaseInv, CallerInv, NoInode, InUse
    <3>3. Same(mem'[path[t]], mem[path[t]])
      BY <3>1, <3>2, UsedKept
    <3> QED
      BY <2>2, <3>2, <3>3 DEF Same
  <2> QED
    BY Zenon, <1>3, <2>1, <2>2, OpStep
<1>4. ASSUME NEW t \in Task, Creating(t)',
             pc'[t] \notin {"children", "count", "objects"}
      PROVE  new'[t].mode = Kind(path'[t])
  <2>1. Creating(t)
    BY <1>4, CreatingBefore
  <2>2. path'[t] = path[t] /\ new[t] \in Inode
    BY Zenon, <1>4, <2>1, <1>a, CreateStep
  <2>3. CASE ObjectsCount(t) /\ new'[t] = NewInode(path[t], sb.inodes_count)
    BY <2>2, <2>3 DEF NewInode, Kind
  <2>4. pc[t] \in {"children", "count", "objects"} =>
           ObjectsCount(t) /\ new'[t] = NewInode(path[t], sb.inodes_count)
    <3>1. <<pc[t], pc'[t]>> \in Passes => pc[t] \notin {"children", "count", "objects"}
      BY <1>4 DEF Passes
    <3>2. /\ GetAFreeblock(t) => pc[t] = "freeblock"
          /\ AppendInode(t) => pc[t] = "append"
          /\ CountInode(t) => pc[t] = "inodes"
          /\ AddRecord(t) => pc[t] = "record"
          /\ SaveInode(t) => pc[t] = "copy"
      BY Zenon DEF GetAFreeblock, AppendInode, CountInode, AddRecord, SaveInode
    <3> QED
      BY <1>4, <2>1, <3>1, <3>2, CreateStep
  <2>5. CASE pc[t] \notin {"children", "count", "objects"}
    <3>1. new[t].mode = Kind(path[t])
      BY <2>1, <2>5 DEF CallerInv
    <3>2. CASE new'[t] = new[t]
      BY <2>2, <3>1, <3>2
    <3>3. ASSUME NEW b \in Block, new'[t] = [new[t] EXCEPT !.block = b]
          PROVE  new'[t].mode = Kind(path'[t])
      BY <2>2, <3>1, <3>3 DEF Inode
    <3> QED
      BY Zenon, <1>4, <2>1, <2>3, <3>2, <3>3, CreateStep
  <2> QED
    BY <2>3, <2>4, <2>5
<1> QED
  BY <1>1, <1>2, <1>3, <1>4 DEF CallerInv

=============================================================================
