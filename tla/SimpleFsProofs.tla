--------------------------- MODULE SimpleFsProofs ---------------------------
(***************************************************************************)
(* Theorems about SimpleFs, for any number of tasks, paths, signals and    *)
(* crashes, any widths of int and free map, both ways to compile "1 << i". *)
(***************************************************************************)
EXTENDS SimpleFs, TLAPS

(***************************************************************************)
(* Who holds which mutex.  simplefs_sb_lock may be unlocked by a task that *)
(* does not hold it, so for it only this is left: somebody is inside when  *)
(* it cannot be taken.                                                     *)
(***************************************************************************)
HoldsChildren(t) == op[t] = "create" /\ pc[t] # "children"
HoldsMgmt(t) ==
    pc[t] \in {"objects", "addSb", "append", "inodes", "saveSb", "copy", "leave"}
HoldsSb(t) == pc[t] \in {"freeblock", "append", "inodes", "copy"}

Opc == {"none", "create", "write"}

ControlType ==
    /\ pc \in [Task -> PC]
    /\ op \in [Task -> Opc]
    /\ mutex \in [Lock -> Nat]

OpInv ==
    \A t \in Task :
        /\ pc[t] = "idle" <=> op[t] = "none"
        /\ pc[t] \notin {"idle", "save", "saveSb", "copy", "leave"} =>
               op[t] = "create"

ChildrenInv ==
    /\ mutex["children"] <= 1
    /\ \A t, u \in Task : HoldsChildren(t) /\ HoldsChildren(u) => t = u
    /\ mutex["children"] = 0 <=> \E t \in Task : HoldsChildren(t)

MgmtInv ==
    /\ mutex["mgmt"] <= 1
    /\ \A t, u \in Task : HoldsMgmt(t) /\ HoldsMgmt(u) => t = u
    /\ mutex["mgmt"] = 0 <=> \E t \in Task : HoldsMgmt(t)

SbInv == mutex["sb"] = 0 => \E t \in Task : HoldsSb(t)

LockInv == ControlType /\ OpInv /\ ChildrenInv /\ MgmtInv /\ SbInv

\* The labels and names of mutexes that the actions use.
LEMMA Labels ==
    /\ "idle" \in PC /\ "children" \in PC /\ "count" \in PC /\ "objects" \in PC
    /\ "free" \in PC /\ "freeblock" \in PC /\ "add" \in PC /\ "addSb" \in PC
    /\ "append" \in PC /\ "inodes" \in PC /\ "record" \in PC /\ "save" \in PC
    /\ "saveSb" \in PC /\ "copy" \in PC /\ "leave" \in PC
    /\ "none" \in Opc /\ "create" \in Opc /\ "write" \in Opc
    /\ "children" \in Lock /\ "mgmt" \in Lock /\ "sb" \in Lock
BY DEF PC, Opc, Lock

\* simplefs_inode_add never fails to get simplefs_sb_lock: whoever holds
\* that lock also holds one of the two mutexes that the task itself holds.
LEMMA AddNotInterrupted ==
    ASSUME LockInv, NEW t \in Task, pc[t] = "addSb"
    PROVE  mutex["sb"] # 0
<1>1. SUFFICES ASSUME NEW u \in Task, HoldsSb(u) PROVE FALSE
  BY DEF LockInv, SbInv
<1>2. HoldsChildren(t) /\ HoldsMgmt(t)
  BY DEF LockInv, OpInv, HoldsChildren, HoldsMgmt
<1>3. HoldsChildren(u) \/ HoldsMgmt(u)
  BY <1>1 DEF LockInv, OpInv, HoldsChildren, HoldsMgmt, HoldsSb
<1>4. u = t
  BY <1>2, <1>3 DEF LockInv, ChildrenInv, MgmtInv
<1> QED
  BY <1>1, <1>4 DEF HoldsSb

\* At first no mutex is held.
LEMMA InitLockInv == Init => LockInv
BY Labels DEF Init, LockInv, ControlType, OpInv, ChildrenInv, MgmtInv, SbInv,
   HoldsChildren, HoldsMgmt, HoldsSb

\* A task waits for a mutex with its pc at one label and goes on at another.
LEMMA LockingLockInv ==
    ASSUME LockInv, NEW t \in Task, Locking(t) PROVE LockInv'
<1> USE Labels DEF ControlType, OpInv, ChildrenInv, MgmtInv, SbInv,
      HoldsChildren, HoldsMgmt, HoldsSb, Acquire, Interrupted, Unlock, Goto,
      Return, local
<1>1. CASE LockChildren(t)
  <2>1. CASE Acquire("children") /\ Goto(t, "count") /\ UNCHANGED op
    BY <1>1, <2>1 DEF LockInv, LockChildren
  <2>2. CASE Return(t) /\ UNCHANGED mutex
    BY <1>1, <2>2 DEF LockInv, LockChildren
  <2> QED BY <1>1, <2>1, <2>2 DEF LockChildren
<1>2. CASE LockCount(t)
  <2>1. CASE Acquire("mgmt") /\ Goto(t, "objects") /\ UNCHANGED op
    BY <1>2, <2>1 DEF LockInv, LockCount
  <2>2. CASE Return(t) /\ Unlock({"children"})
    BY <1>2, <2>2 DEF LockInv, LockCount
  <2> QED BY <1>2, <2>1, <2>2 DEF LockCount
<1>3. CASE LockFree(t)
  <2>1. CASE Acquire("sb") /\ Goto(t, "freeblock") /\ UNCHANGED op
    BY <1>3, <2>1 DEF LockInv, LockFree
  <2>2. CASE Return(t) /\ Unlock({"sb", "children"})
    BY <1>3, <2>2 DEF LockInv, LockFree
  <2> QED BY <1>3, <2>1, <2>2 DEF LockFree
<1>4. CASE LockAdd(t)
  <2>1. CASE Acquire("mgmt") /\ Goto(t, "addSb")
    BY <1>4, <2>1 DEF LockInv, LockAdd
  <2>2. CASE Goto(t, "record") /\ UNCHANGED mutex
    BY <1>4, <2>2 DEF LockInv, LockAdd
  <2> QED BY <1>4, <2>1, <2>2 DEF LockAdd
<1>5. CASE LockAddSb(t)
  <2>1. Acquire("sb") /\ Goto(t, "append") /\ UNCHANGED op
    BY <1>5, AddNotInterrupted DEF LockAddSb
  <2> QED BY <1>5, <2>1 DEF LockInv, LockAddSb
<1>6. CASE LockSave(t)
  <2>1. CASE Acquire("mgmt") /\ Goto(t, "saveSb") /\ UNCHANGED op
    BY <1>6, <2>1 DEF LockInv, LockSave
  <2>2. CASE Return(t) /\ Unlock(Held(t))
    BY <1>6, <2>2 DEF LockInv, LockSave, Held, Creating
  <2> QED BY <1>6, <2>1, <2>2 DEF LockSave
<1>7. CASE LockSaveSb(t)
  <2>1. CASE Acquire("sb") /\ Goto(t, "copy") /\ UNCHANGED op
    BY <1>7, <2>1 DEF LockInv, LockSaveSb
  <2>2. CASE Return(t) /\ Unlock(Held(t) \cup {"mgmt"})
    BY <1>7, <2>2 DEF LockInv, LockSaveSb, Held, Creating
  <2> QED BY <1>7, <2>1, <2>2 DEF LockSaveSb
<1> QED
  BY <1>1, <1>2, <1>3, <1>4, <1>5, <1>6, <1>7 DEF Locking

\* The steps inside the critical sections release only what the call holds.
LEMMA ProceedLockInv ==
    ASSUME LockInv, NEW t \in Task, Proceed(t) PROVE LockInv'
<1> USE Labels DEF ControlType, OpInv, ChildrenInv, MgmtInv, SbInv,
      HoldsChildren, HoldsMgmt, HoldsSb, Unlock, Goto, Return, local
<1>1. CASE ObjectsCount(t)
  <2>1. CASE Return(t) /\ Unlock({"children", "mgmt"})
    BY <1>1, <2>1 DEF LockInv, ObjectsCount
  <2>2. CASE Goto(t, "free") /\ Unlock({"mgmt"}) /\ UNCHANGED op
    BY <1>1, <2>2 DEF LockInv, ObjectsCount
  <2> QED BY <1>1, <2>1, <2>2 DEF ObjectsCount
<1>2. CASE GetAFreeblock(t)
  <2>1. CASE Return(t) /\ Unlock({"sb", "children"})
    BY <1>2, <2>1 DEF LockInv, GetAFreeblock
  <2>2. CASE Goto(t, "add") /\ Unlock({"sb"}) /\ UNCHANGED op
    BY <1>2, <2>2 DEF LockInv, GetAFreeblock
  <2> QED BY <1>2, <2>1, <2>2 DEF GetAFreeblock
<1>3. CASE AppendInode(t)
  BY <1>3 DEF LockInv, AppendInode
<1>4. CASE CountInode(t)
  BY <1>4 DEF LockInv, CountInode
<1>5. CASE AddRecord(t)
  BY <1>5 DEF LockInv, AddRecord
<1>6. CASE SaveInode(t)
  <2>1. CASE Goto(t, "leave") /\ Unlock({"sb"}) /\ UNCHANGED op
    BY <1>6, <2>1 DEF LockInv, SaveInode
  <2>2. CASE Return(t) /\ Unlock(Held(t) \cup {"mgmt", "sb"})
    BY <1>6, <2>2 DEF LockInv, SaveInode, Held, Creating
  <2> QED BY <1>6, <2>1, <2>2 DEF SaveInode
<1>7. CASE Leave(t)
  BY <1>7 DEF LockInv, Leave, Held, Creating
<1> QED
  BY <1>1, <1>2, <1>3, <1>4, <1>5, <1>6, <1>7 DEF Proceed

\* Every step, a crash included, keeps the account of the mutexes.
LEMMA NextLockInv == LockInv /\ [Next]_vars => LockInv'
<1> SUFFICES ASSUME LockInv, [Next]_vars PROVE LockInv'
  OBVIOUS
<1>1. ASSUME NEW t \in Task, Call(t) PROVE LockInv'
  BY <1>1, Labels DEF Call, CreateCall, WriteCall, LockInv, ControlType, OpInv,
     ChildrenInv, MgmtInv, SbInv, HoldsChildren, HoldsMgmt, HoldsSb, Goto
<1>2. CASE Crash
  BY <1>2, Labels DEF Crash, LockInv, ControlType, OpInv, ChildrenInv, MgmtInv,
     SbInv, HoldsChildren, HoldsMgmt, HoldsSb
<1>3. CASE UNCHANGED <<pc, op, mutex>>
  BY <1>3 DEF LockInv, ControlType, OpInv, ChildrenInv, MgmtInv,
     SbInv, HoldsChildren, HoldsMgmt, HoldsSb
<1>4. ASSUME NEW t \in Task, Signal(t) PROVE UNCHANGED <<pc, op, mutex>>
  BY <1>4 DEF Signal, local
<1>5. ASSUME NEW p \in Path, Lookup(p) \/ DestroyInode(p)
      PROVE  UNCHANGED <<pc, op, mutex>>
  BY Zenon, <1>5 DEF Lookup, DestroyInode, local
<1>6. ASSUME FillSuper \/ KillSuperblock \/ Writeback \/ UNCHANGED vars
      PROVE  UNCHANGED <<pc, op, mutex>>
  BY <1>6 DEF FillSuper, KillSuperblock, Writeback, vars, local
<1> QED
  BY <1>1, <1>2, <1>3, <1>4, <1>5, <1>6, LockingLockInv, ProceedLockInv DEF Next

\* The mutexes are accounted for in every reachable state.
LEMMA LocksAccounted == Spec => []LockInv
BY InitLockInv, NextLockInv, PTL DEF Spec

\* free_blocks, inodes_count and the inode store are updated by one task at a
\* time whatever signals arrive, although simplefs_sb_lock alone would not
\* ensure it: the children lock and the mgmt lock do.
THEOREM OneUpdateAtATime == Spec => []UpdatesExclusive
<1>1. LockInv => UpdatesExclusive
  BY DEF LockInv, OpInv, ChildrenInv, MgmtInv, HoldsChildren, HoldsMgmt,
     UpdatesExclusive
<1> QED
  BY <1>1, LocksAccounted, PTL

\* No call returns with a mutex held: the early return of
\* simplefs_inode_add that would keep the mgmt lock is never taken.
THEOREM NoLockLeaks == Spec => []LocksReturned
<1>1. LockInv => LocksReturned
  BY DEF LockInv, ControlType, OpInv, ChildrenInv, MgmtInv, SbInv,
     HoldsChildren, HoldsMgmt, HoldsSb, Lock, LocksReturned
<1> QED
  BY <1>1, LocksAccounted, PTL

-----------------------------------------------------------------------------
(***************************************************************************)
(* Types.  That inodes_count stays in range needs the children lock: the   *)
(* count that create compared with the limit, and made its inode number    *)
(* from, is still the count when simplefs_inode_add appends.               *)
(***************************************************************************)
Numbered == {"free", "freeblock", "add", "addSb", "append", "inodes"}

CallInv ==
    /\ sb = sbDisk
    /\ \A t \in Task : pc[t] # "idle" =>
          path[t] \in Path /\ (op[t] = "create" => path[t] # Root)
    /\ \A t \in Task : pc[t] \in Numbered =>
          /\ sb.inodes_count < MaxObjects
          /\ new[t].ino = sb.inodes_count + 8

\* What the assumptions say of the sizes, as numbers.
LEMMA Constants ==
    /\ MaxObjects \in Nat /\ MaxObjects > 4 /\ RecordsPerBlock \in Nat
    /\ NoInode \in Inode /\ NoRecord \in Record
    /\ Welcome \in Path /\ Root \in Path
    /\ \A p \in Path, n \in 0 .. MaxObjects - 1 :
          NewInode(p, n) \in Inode /\ NewInode(p, n).ino = n + 8
<1>1. /\ MaxObjects \in Nat /\ MaxObjects > 4 /\ RecordsPerBlock \in Nat
  BY SizeAssumption
<1>2. NoInode \in Inode /\ NoRecord \in Record
  BY <1>1 DEF NoInode, NoRecord, Inode, Record, Ino, Block, START_INO,
     RESERVED_INODES
<1>3. ASSUME NEW p \in Path, NEW n \in 0 .. MaxObjects - 1
      PROVE  NewInode(p, n) \in Inode /\ NewInode(p, n).ino = n + 8
  BY <1>1, <1>3 DEF NewInode, Inode, Ino, Block, START_INO, RESERVED_INODES
<1> QED
  BY <1>1, <1>2, <1>3, TreeAssumption

\* inodes_count counts slots of the inode store.
LEMMA CountType ==
    ASSUME TypeOK
    PROVE  /\ MaxObjects \in Nat
           /\ sb \in Superblock /\ sb.inodes_count \in 0 .. MaxObjects
           /\ sbDisk \in Superblock /\ sbDisk.inodes_count \in 0 .. MaxObjects
<1>1. sb \in Superblock /\ sbDisk \in Superblock
  BY Zenon DEF TypeOK
<1> QED
  BY <1>1, SizeAssumption DEF Superblock

\* The image of mkfs-simplefs has the right types.
LEMMA InitTypeInv == Init => TypeOK /\ CallInv
<1> SUFFICES ASSUME Init PROVE TypeOK /\ CallInv
  OBVIOUS
<1>1. mkfsSuperblock \in Superblock
  BY Constants DEF mkfsSuperblock, Superblock
<1>2. mkfsStore \in InodeStore
  <2> SUFFICES ASSUME NEW i \in 0 .. MaxObjects PROVE mkfsStore[i] \in Inode
    BY DEF mkfsStore, InodeStore
  <2> QED
    BY Constants DEF mkfsStore, Inode, Ino, Block, START_INO, RESERVED_INODES,
       ROOTDIR_INODE_NUMBER, ROOTDIR_DATABLOCK_NUMBER,
       WELCOMEFILE_INODE_NUMBER, WELCOMEFILE_DATABLOCK_NUMBER
<1>3. mkfsDirent \in [Block -> [0 .. RecordsPerBlock - 1 -> Record]]
  BY Constants DEF mkfsDirent, Record, Ino, START_INO, RESERVED_INODES,
     WELCOMEFILE_INODE_NUMBER
<1>4. TypeOK
  BY <1>1, <1>2, <1>3, Constants, Labels DEF Init, TypeOK, Opc
<1> QED
  BY <1>4 DEF Init, CallInv, Numbered

\* A call works on a path, a create on one that has a directory.
LEMMA PathOfCall ==
    ASSUME CallInv, NEW t \in Task, pc[t] # "idle"
    PROVE  path[t] \in Path /\ (op[t] = "create" => Parent[path[t]] \in Path)
BY TreeAssumption DEF CallInv

\* Returning from a call keeps the types of what a task holds.
LEMMA ReturnTypes ==
    ASSUME TypeOK, NEW t \in Task, Return(t)
    PROVE  /\ pc' \in [Task -> PC]
           /\ op' \in [Task -> {"none", "create", "write"}]
           /\ path' \in [Task -> Path \cup {NoPath}]
           /\ new' \in [Task -> Inode]
           /\ ppos' \in [Task -> Nat]
           /\ pending' \subseteq Task
BY Labels, Constants DEF TypeOK, Return, Goto

\* The steps that take a mutex change no data but the size in memory.
LEMMA LockingType ==
    ASSUME TypeOK, LockInv, NEW t \in Task, Locking(t) PROVE TypeOK'
<1>0. UNCHANGED <<sb, sbDisk, store, storeDisk, dirblk, acked, signals, crashes>>
  BY DEF Locking, LockChildren, LockCount, LockFree, LockAdd, LockAddSb,
     LockSave, LockSaveSb, cache, image, faults
<1>1. mutex' \in [Lock -> Nat]
  BY NextLockInv, Labels DEF Next, LockInv, ControlType
<1>2. /\ pc' \in [Task -> PC]
  BY NextLockInv, Labels DEF Next, LockInv, ControlType
<1>3. \/ Return(t)
      \/ UNCHANGED <<pending, op, path, new, ppos>>
  BY DEF Locking, LockChildren, LockCount, LockFree, LockAdd, LockAddSb,
     LockSave, LockSaveSb, local
<1>4. UNCHANGED mem \/ UpdateSize(t)
  BY DEF Locking, LockChildren, LockCount, LockFree, LockAdd, LockAddSb,
     LockSave, LockSaveSb
<1>5. mem' \in [Path -> Inode]
  <2>1. CASE UpdateSize(t)
    <3> SUFFICES ASSUME NEW p \in Path PROVE mem'[p] \in Inode
      BY Zenon, <2>1 DEF UpdateSize, TypeOK
    <3>1. mem[p] \in Inode /\ mem[p].size \in Nat /\ ppos[t] \in Nat
      BY DEF TypeOK, Inode
    <3>2. mem'[p] = mem[p] \/ mem'[p] = [mem[p] EXCEPT !.size = @ + 1]
          \/ mem'[p] = [mem[p] EXCEPT !.size = ppos[t]]
      BY <2>1 DEF UpdateSize, TypeOK
    <3> QED
      BY <3>1, <3>2 DEF Inode
  <2> QED
    BY <1>4, <2>1 DEF TypeOK
<1>6. /\ op' \in [Task -> {"none", "create", "write"}]
      /\ path' \in [Task -> Path \cup {NoPath}]
      /\ new' \in [Task -> Inode]
      /\ ppos' \in [Task -> Nat]
      /\ pending' \subseteq Task
  BY <1>3, ReturnTypes DEF TypeOK
<1> QED
  BY <1>0, <1>1, <1>2, <1>5, <1>6 DEF TypeOK

\* The other steps of a call, one by one.
LEMMA ProceedType ==
    ASSUME TypeOK, CallInv, LockInv, NEW t \in Task, Proceed(t)
    PROVE  TypeOK'
<1>1. /\ mutex' \in [Lock -> Nat] /\ pc' \in [Task -> PC]
      /\ op' \in [Task -> {"none", "create", "write"}]
  BY NextLockInv DEF Next, LockInv, ControlType, Opc
<1>2. CASE ObjectsCount(t)
  <2>1. path[t] \in Path
    BY <1>2, PathOfCall DEF ObjectsCount
  <2>2. CASE sb.inodes_count >= MaxObjects
    BY <1>1, <1>2, <2>2, ReturnTypes
       DEF ObjectsCount, TypeOK, cache, image, faults
  <2>3. CASE ~(sb.inodes_count >= MaxObjects)
    <3>1. sb.inodes_count \in 0 .. MaxObjects - 1
      BY <2>3, CountType
    <3>2. NewInode(path[t], sb.inodes_count) \in Inode
      BY <2>1, <3>1, Constants
    <3> QED
      BY Zenon, <1>1, <1>2, <2>3, <3>2 DEF ObjectsCount, TypeOK, cache, image, faults
  <2> QED
    BY <2>2, <2>3
<1>3. CASE GetAFreeblock(t)
  <2>1. CASE Return(t) /\ UNCHANGED <<sb, sbDisk>>
    BY <1>1, <1>3, <2>1, ReturnTypes DEF GetAFreeblock, TypeOK, faults
  <2>2. ASSUME NEW k \in First(FreeBlocks(sb.free_blocks)), TakeBlock(k), SbSync,
               new' = [new EXCEPT ![t].block = k],
               UNCHANGED <<pending, op, path, ppos>>
        PROVE  TypeOK'
    <3>1. k \in Block
      BY Constants DEF First, FreeBlocks, Block, RESERVED_INODES
    <3>2. new' \in [Task -> Inode]
      BY Zenon, <2>2, <3>1 DEF TypeOK, Inode
    <3>3. sb' \in Superblock /\ sbDisk' = sb'
      BY Zenon, <2>2 DEF TypeOK, Superblock, TakeBlock, SbSync
    <3> QED
      BY <1>1, <1>3, <2>2, <3>2, <3>3 DEF GetAFreeblock, TypeOK, faults
  <2> QED
    BY <1>3, <2>1, <2>2 DEF GetAFreeblock
<1>4. CASE AppendInode(t)
  BY Zenon, <1>1, <1>4 DEF AppendInode, TypeOK, InodeStore, image, local, faults
<1>5. CASE CountInode(t)
  <2>1. sb.inodes_count \in Nat /\ sb.inodes_count < MaxObjects
    BY <1>5, Constants DEF CountInode, CallInv, Numbered, TypeOK, Superblock
  <2>2. sb.inodes_count + 1 \in 0 .. MaxObjects
    BY <2>1, Constants
  <2>3. sb' = [sb EXCEPT !.inodes_count = @ + 1] /\ sbDisk' = sb'
    BY <1>5 DEF CountInode, SbSync
  <2>4. sb' \in Superblock
    BY Zenon, <2>2, <2>3 DEF TypeOK, Superblock
  <2> QED
    BY <1>1, <1>5, <2>3, <2>4 DEF CountInode, TypeOK, local, faults
<1>6. CASE AddRecord(t)
  <2> DEFINE dir == mem[Parent[path[t]]]
             r == [name |-> path[t], ino |-> new[t].ino]
  <2>1. r \in Record
    BY DEF TypeOK, Record, Inode
  <2> HIDE DEF r, dir
  <2>2. \/ UNCHANGED dirblk
        \/ dirblk' = [dirblk EXCEPT ![dir.block][dir.size] = r]
    BY Zenon, <1>6 DEF AddRecord, dir, r
  <2>3. dirblk' \in [Block -> [0 .. RecordsPerBlock - 1 -> Record]]
    <3> DEFINE D == [0 .. RecordsPerBlock - 1 -> Record]
    <3>1. CASE dirblk' = [dirblk EXCEPT ![dir.block][dir.size] = r]
      <4> SUFFICES ASSUME NEW b \in Block PROVE dirblk'[b] \in D
        BY Zenon, <3>1 DEF TypeOK
      <4>1. dirblk[b] \in D
        BY DEF TypeOK
      <4>2. dirblk'[b] = dirblk[b] \/ dirblk'[b] = [dirblk[b] EXCEPT ![dir.size] = r]
        BY Zenon, <3>1 DEF TypeOK
      <4> QED
        BY Zenon, <2>1, <4>1, <4>2
    <3> QED
      BY <2>2, <3>1 DEF TypeOK
  <2> QED
    BY <1>1, <1>6, <2>3 DEF AddRecord, TypeOK, cache, local, faults
<1>7. CASE SaveInode(t)
  <2>1. CASE Return(t) /\ UNCHANGED <<store, storeDisk>>
    BY <1>1, <1>7, <2>1, ReturnTypes DEF SaveInode, TypeOK, faults
  <2>2. ASSUME NEW k, store' = [store EXCEPT ![k] = mem[Saved(t)]],
               storeDisk' = store', UNCHANGED <<pending, local>>
        PROVE  TypeOK'
    <3>1. Saved(t) \in Path
      BY Zenon, <1>7, PathOfCall DEF SaveInode, Saved, Creating
    <3>2. store' \in InodeStore
      BY Zenon, <2>2, <3>1 DEF TypeOK, InodeStore
    <3> QED
      BY <1>1, <1>7, <2>2, <3>2 DEF SaveInode, TypeOK, local, faults
  <2> QED
    BY <1>7, <2>1, <2>2 DEF SaveInode
<1>8. CASE Leave(t)
  <2>1. UNCHANGED mem \/ mem' = [mem EXCEPT ![path[t]] = new[t]]
    BY <1>8 DEF Leave
  <2>2. mem' \in [Path -> Inode]
    BY Zenon, <2>1 DEF TypeOK
  <2>3. path[t] \in Path
    BY <1>8, PathOfCall DEF Leave
  <2>4. acked' \subseteq Path
    BY <1>8, <2>3 DEF Leave, TypeOK
  <2> QED
    BY <1>1, <1>8, <2>2, <2>4, ReturnTypes DEF Leave, TypeOK, cache, image, faults
<1> QED
  BY <1>2, <1>3, <1>4, <1>5, <1>6, <1>7, <1>8 DEF Proceed

\* Calls, lookups, eviction, mount, umount and faults keep the types.
LEMMA OtherType ==
    ASSUME TypeOK, CallInv, LockInv,
           \/ \E t \in Task : Call(t) \/ Signal(t)
           \/ \E p \in Path : Lookup(p) \/ DestroyInode(p)
           \/ FillSuper \/ KillSuperblock \/ Writeback \/ Crash
    PROVE  TypeOK'
<1>1. /\ mutex' \in [Lock -> Nat] /\ pc' \in [Task -> PC]
      /\ op' \in [Task -> {"none", "create", "write"}]
  BY NextLockInv DEF Next, LockInv, ControlType, Opc
<1>2. \A ino : GetInode(ino) \subseteq Inode
  <2> SUFFICES ASSUME NEW ino, NEW n \in GetInode(ino) PROVE n \in Inode
    OBVIOUS
  <2>1. n = NoInode \/ \E k \in 0 .. sb.inodes_count - 1 : n = store[k]
    BY DEF GetInode, First
  <2>2. ASSUME NEW k \in 0 .. sb.inodes_count - 1 PROVE store[k] \in Inode
    BY Constants DEF TypeOK, Superblock, InodeStore
  <2> QED
    BY <2>1, <2>2, Constants
<1>3. ASSUME NEW t \in Task, Call(t) PROVE TypeOK'
  <2>1. ASSUME NEW p \in Path, CreateCall(t, p) PROVE TypeOK'
    BY <1>1, <2>1 DEF CreateCall, TypeOK, cache, image, faults
  <2>2. ASSUME NEW p \in Path, NEW n \in 1 .. MaxSize, WriteCall(t, p, n)
        PROVE  TypeOK'
    <3>1. n \in Nat
      BY SizeAssumption
    <3> QED
      BY <1>1, <2>2, <3>1 DEF WriteCall, TypeOK, cache, image, faults
  <2> QED
    BY <1>3, <2>1, <2>2 DEF Call
<1>4. ASSUME NEW t \in Task, Signal(t) PROVE TypeOK'
  BY <1>1, <1>4 DEF Signal, TypeOK, cache, image, local
<1>5. ASSUME NEW p \in Path, Lookup(p) PROVE TypeOK'
  <2>1. PICK n \in Inode : mem' = [mem EXCEPT ![p] = n]
    BY Zenon, <1>2, <1>5 DEF Lookup
  <2> QED
    BY Zenon, <1>1, <1>5, <2>1 DEF Lookup, TypeOK, cache, image, local, faults
<1>6. ASSUME NEW p \in Path, DestroyInode(p) PROVE TypeOK'
  BY <1>1, <1>6, Constants
     DEF DestroyInode, TypeOK, cache, image, local, faults
<1>7. CASE FillSuper
  <2>1. PICK n \in Inode : mem' = [mem EXCEPT ![Root] = n]
    BY Zenon, <1>2, <1>7 DEF FillSuper
  <2> QED
    BY Zenon, <1>1, <1>7, <2>1 DEF FillSuper, TypeOK, cache, image, local, faults
<1>8. CASE KillSuperblock
  BY <1>1, <1>8, Constants DEF KillSuperblock, TypeOK, cache, local, faults
<1>9. CASE Writeback
  BY <1>1, <1>9 DEF Writeback, TypeOK, cache, local, faults
<1>10. CASE Crash
  BY <1>1, <1>10, Constants DEF Crash, TypeOK, image
<1> QED
  BY <1>3, <1>4, <1>5, <1>6, <1>7, <1>8, <1>9, <1>10

\* Every step keeps the types.
LEMMA NextType ==
    TypeOK /\ CallInv /\ LockInv /\ [Next]_vars => TypeOK'
<1> SUFFICES ASSUME TypeOK, CallInv, LockInv, [Next]_vars PROVE TypeOK'
  OBVIOUS
<1>1. CASE UNCHANGED vars
  BY <1>1 DEF TypeOK, vars, cache, image, local, faults
<1>2. ASSUME NEW t \in Task, Locking(t) \/ Proceed(t) PROVE TypeOK'
  BY <1>2, LockingType, ProceedType
<1>3. CASE \/ \E t \in Task : Call(t) \/ Signal(t)
           \/ \E p \in Path : Lookup(p) \/ DestroyInode(p)
           \/ FillSuper \/ KillSuperblock \/ Writeback \/ Crash
  BY <1>3, OtherType
<1> QED
  BY <1>1, <1>2, <1>3 DEF Next

\* At most one create is between its two looks at inodes_count.
LEMMA NumberedOnce ==
    ASSUME LockInv, NEW t \in Task, NEW u \in Task,
           pc[t] \in Numbered, pc[u] \in Numbered
    PROVE  t = u
BY DEF LockInv, OpInv, ChildrenInv, HoldsChildren, Numbered

\* The count that create derived its inode number from stays current until
\* the inode is counted.
LEMMA NextCallInv ==
    TypeOK /\ CallInv /\ LockInv /\ [Next]_vars => CallInv'
<1> SUFFICES ASSUME TypeOK, CallInv, LockInv, [Next]_vars PROVE CallInv'
  OBVIOUS
<1>1. LockInv'
  BY NextLockInv
<1>2. CASE UNCHANGED vars
  BY Zenon, <1>2 DEF CallInv, vars, cache, image, local
<1>3. ASSUME NEW t \in Task, Locking(t) PROVE CallInv'
  <2>1. UNCHANGED <<sb, sbDisk>>
    BY <1>3 DEF Locking, LockChildren, LockCount, LockFree, LockAdd, LockAddSb,
       LockSave, LockSaveSb, cache, image
  <2>2. CASE Return(t)
    BY <2>1, <2>2 DEF Return, Goto, CallInv, TypeOK, Numbered
  <2>3. CASE UNCHANGED local
    BY <1>3, <2>1, <2>3, Labels DEF Locking, LockChildren, LockCount, LockFree,
       LockAdd, LockAddSb, LockSave, LockSaveSb, Return, Goto, CallInv, TypeOK,
       Numbered, local
  <2> QED
    BY <1>3, <2>2, <2>3 DEF Locking, LockChildren, LockCount, LockFree, LockAdd,
       LockAddSb, LockSave, LockSaveSb
<1>4. ASSUME NEW t \in Task, ObjectsCount(t) PROVE CallInv'
  <2>1. CASE sb.inodes_count >= MaxObjects
    BY ZenonT(30), <1>4, <2>1 DEF ObjectsCount, Return, Goto, CallInv, TypeOK, Numbered,
       cache, image
  <2>2. CASE ~(sb.inodes_count >= MaxObjects)
    <3>1. sb.inodes_count \in 0 .. MaxObjects - 1
      BY <2>2, CountType
    <3>2. NewInode(path[t], sb.inodes_count).ino = sb.inodes_count + 8
      BY Zenon, <1>4, <3>1, Constants, PathOfCall DEF ObjectsCount
    <3> QED
      <4>1. /\ new' = [new EXCEPT ![t] = NewInode(path[t], sb.inodes_count)]
            /\ Goto(t, "free") /\ UNCHANGED <<sb, sbDisk, op, path>>
        BY Zenon, <1>4, <2>2 DEF ObjectsCount, cache, image
      <4>2. new'[t].ino = sb.inodes_count + 8 /\ sb.inodes_count < MaxObjects
        BY <3>1, <3>2, <4>1, Constants DEF TypeOK
      <4>3. \A u \in Task : u # t => new'[u] = new[u] /\ pc'[u] = pc[u]
        BY <4>1 DEF Goto, TypeOK
      <4>4. pc[t] # "idle" /\ pc'[t] = "free"
        BY <1>4, <4>1 DEF ObjectsCount, Goto, TypeOK
      <4> QED
        BY Zenon, <4>1, <4>2, <4>3, <4>4 DEF CallInv
  <2> QED BY <2>1, <2>2
<1>5. ASSUME NEW t \in Task, GetAFreeblock(t) PROVE CallInv'
  <2>1. CASE Return(t) /\ UNCHANGED <<sb, sbDisk>>
    BY <2>1 DEF Return, Goto, CallInv, TypeOK, Numbered
  <2>2. ASSUME NEW k, TakeBlock(k), SbSync,
               new' = [new EXCEPT ![t].block = k], Goto(t, "add"),
               UNCHANGED <<op, path>>
        PROVE  CallInv'
    <3>1. sb'.inodes_count = sb.inodes_count /\ sb' = sbDisk'
      BY <2>2 DEF TakeBlock, SbSync, TypeOK, Superblock
    <3>2. \A u \in Task : new'[u].ino = new[u].ino
      BY <2>2 DEF TypeOK, Inode
    <3> QED
      BY <1>5, <2>2, <3>1, <3>2 DEF GetAFreeblock, Goto, CallInv, TypeOK, Numbered
  <2> QED
    BY <1>5, <2>1, <2>2 DEF GetAFreeblock
<1>6. ASSUME NEW t \in Task, CountInode(t) PROVE CallInv'
  <2>1. \A u \in Task : pc'[u] \notin Numbered
    BY <1>6, NumberedOnce DEF CountInode, Goto, TypeOK, Numbered
  <2> QED
    BY <1>6, <2>1 DEF CountInode, SbSync, Goto, CallInv, TypeOK, local
<1>7. ASSUME NEW t \in Task, AppendInode(t) \/ AddRecord(t) PROVE CallInv'
  BY Zenon, <1>7 DEF AppendInode, AddRecord, Goto, CallInv, TypeOK, Numbered,
     cache, image, local
<1>8. ASSUME NEW t \in Task, SaveInode(t) \/ Leave(t) PROVE CallInv'
  <2>1. UNCHANGED <<sb, sbDisk>>
    BY <1>8 DEF SaveInode, Leave, cache, image
  <2>2. CASE Return(t)
    BY <2>1, <2>2 DEF Return, Goto, CallInv, TypeOK, Numbered
  <2>3. CASE pc[t] = "copy" /\ Goto(t, "leave") /\ UNCHANGED local
    BY <2>1, <2>3 DEF Goto, CallInv, TypeOK, Numbered, local
  <2> QED
    BY <1>8, <2>2, <2>3 DEF SaveInode, Leave
<1>9. ASSUME NEW t \in Task, Call(t) PROVE CallInv'
  BY <1>9 DEF Call, CreateCall, WriteCall, Goto, CallInv, TypeOK, Numbered,
     cache, image
<1>10. ASSUME NEW t \in Task, Signal(t) PROVE CallInv'
  BY Zenon, <1>10 DEF Signal, CallInv, cache, image, local
<1>11. ASSUME NEW p \in Path, Lookup(p) \/ DestroyInode(p) PROVE CallInv'
  BY Zenon, <1>11 DEF Lookup, DestroyInode, CallInv, cache, image, local
<1>12. CASE FillSuper \/ KillSuperblock \/ Writeback
  BY Zenon, <1>12 DEF FillSuper, KillSuperblock, Writeback, CallInv, cache, image, local
<1>13. CASE Crash
  BY <1>13 DEF Crash, CallInv, TypeOK, Numbered, image
<1> QED
  BY <1>2, <1>3, <1>4, <1>5, <1>6, <1>7, <1>8, <1>9, <1>10, <1>11, <1>12, <1>13
     DEF Next, Proceed

\* The first three parts of the inductive invariant hold throughout.
LEMMA CallsAccounted == Spec => [](TypeOK /\ CallInv /\ LockInv)
<1>1. Init => TypeOK /\ CallInv /\ LockInv
  BY InitTypeInv, InitLockInv
<1>2. TypeOK /\ CallInv /\ LockInv /\ [Next]_vars => (TypeOK /\ CallInv /\ LockInv)'
  BY NextType, NextCallInv, NextLockInv
<1> QED
  BY <1>1, <1>2, PTL DEF Spec

\* Every variable keeps its type; above all inodes_count never passes
\* MaxObjects, so no inode is appended outside the inode store.
THEOREM TypeCorrect == Spec => []TypeOK
BY CallsAccounted, PTL

-----------------------------------------------------------------------------
(***************************************************************************)
(* Who owns which block.  An inode is copied between the store, the image, *)
(* memory and the calls, and only its size changes on the way; a block is  *)
(* given out once, so it determines the number of the inode that got it.   *)
(* A slot of the store is only ever used for one inode number.             *)
(***************************************************************************)
SlotIno(i) == IF i < 2 THEN i + 1 ELSE i + 8

GoodSlot(n, i) == n = NoInode \/ (n.ino = SlotIno(i) /\ n.block # 0)
GoodInode(n) == n.ino # 0 /\ n.block # 0

SlotInv ==
    /\ sb.inodes_count >= 2
    /\ \A i \in 0 .. MaxObjects :
          GoodSlot(store[i], i) /\ GoodSlot(storeDisk[i], i)

\* The calls that have a block, and the inodes that calls are about to save.
InodeInv ==
    /\ \A p \in Path : mem[p] = NoInode \/ GoodInode(mem[p])
    /\ \A t \in Task : pc[t] # "idle" =>
          /\ mem[Saved(t)] # NoInode
          /\ Creating(t) /\ pc[t] \notin {"children", "count", "objects", "free",
                                          "freeblock"} => GoodInode(new[t])

AllInodes ==
    {store[i] : i \in 0 .. MaxObjects} \cup {storeDisk[i] : i \in 0 .. MaxObjects}
        \cup {mem[p] : p \in Path} \cup {new[t] : t \in Task}

OwnerInv ==
    /\ \A m, n \in AllInodes : m.block # 0 /\ m.block = n.block => m.ino = n.ino
    /\ \A n \in AllInodes : n.block \notin FreeBlocks(sb.free_blocks)

BlockInv == SlotInv /\ InodeInv /\ OwnerInv

\* On the image of mkfs-simplefs no block is shared.
LEMMA InitBlockInv == Init => BlockInv
<1> SUFFICES ASSUME Init PROVE BlockInv
  OBVIOUS
<1>1. SlotInv
  BY Constants DEF Init, SlotInv, GoodSlot, SlotIno, mkfsStore, mkfsSuperblock,
     ROOTDIR_INODE_NUMBER, ROOTDIR_DATABLOCK_NUMBER,
     WELCOMEFILE_INODE_NUMBER, WELCOMEFILE_DATABLOCK_NUMBER
<1>2. InodeInv
  BY DEF Init, InodeInv
<1> DEFINE root == [ino |-> 1, mode |-> "DIR", block |-> 2, size |-> 1]
           welcome == [ino |-> 2, mode |-> "REG", block |-> 3, size |-> 1]
<1>3. \A n \in AllInodes : n \in {NoInode, root, welcome}
  <2>1. \A i \in 0 .. MaxObjects : mkfsStore[i] \in {NoInode, root, welcome}
    BY DEF mkfsStore, ROOTDIR_INODE_NUMBER, ROOTDIR_DATABLOCK_NUMBER,
       WELCOMEFILE_INODE_NUMBER, WELCOMEFILE_DATABLOCK_NUMBER
  <2> QED
    BY <2>1 DEF AllInodes, Init
<1>4. \A b \in {0, 2, 3} : b \notin FreeBlocks(mkfsSuperblock.free_blocks)
  BY DEF FreeBlocks, mkfsSuperblock, RESERVED_INODES,
     WELCOMEFILE_DATABLOCK_NUMBER
<1>5. OwnerInv
  BY <1>3, <1>4 DEF OwnerInv, Init, NoInode
<1> QED
  BY <1>1, <1>2, <1>5 DEF BlockInv

\* The steps that change the super block, the store or the store's image.
LEMMA StoreSteps ==
    [Next]_vars =>
        \/ UNCHANGED <<sb, store, storeDisk>>
        \/ \E t \in Task : GetAFreeblock(t) \/ AppendInode(t) \/ CountInode(t)
                           \/ SaveInode(t)
        \/ KillSuperblock \/ Writeback \/ Crash
<1> SUFFICES ASSUME [Next]_vars PROVE
        \/ UNCHANGED <<sb, store, storeDisk>>
        \/ \E t \in Task : GetAFreeblock(t) \/ AppendInode(t) \/ CountInode(t)
                           \/ SaveInode(t)
        \/ KillSuperblock \/ Writeback \/ Crash
  OBVIOUS
<1>1. ASSUME NEW t \in Task, Locking(t) PROVE UNCHANGED <<sb, store, storeDisk>>
  BY <1>1 DEF Locking, LockChildren, LockCount, LockFree, LockAdd, LockAddSb,
     LockSave, LockSaveSb, cache, image
<1>2. ASSUME NEW t \in Task,
             ObjectsCount(t) \/ AddRecord(t) \/ Leave(t) \/ Call(t) \/ Signal(t)
      PROVE  UNCHANGED <<sb, store, storeDisk>>
  BY Zenon, <1>2 DEF ObjectsCount, AddRecord, Leave, Call, CreateCall, WriteCall, Signal,
     cache, image
<1>3. ASSUME NEW p \in Path, Lookup(p) \/ DestroyInode(p)
      PROVE  UNCHANGED <<sb, store, storeDisk>>
  BY Zenon, <1>3 DEF Lookup, DestroyInode, cache, image
<1>4. FillSuper \/ UNCHANGED vars => UNCHANGED <<sb, store, storeDisk>>
  BY DEF FillSuper, vars, cache, image
<1> QED
  BY <1>1, <1>2, <1>3, <1>4 DEF Next, Proceed

\* A slot of the inode store only ever holds the inode number of its place.
LEMMA NextSlotInv ==
    TypeOK /\ CallInv /\ LockInv /\ BlockInv /\ [Next]_vars => SlotInv'
<1> SUFFICES ASSUME TypeOK, CallInv, LockInv, BlockInv, [Next]_vars PROVE SlotInv'
  OBVIOUS
<1> USE DEF BlockInv
<1>1. CASE UNCHANGED <<sb, store, storeDisk>>
  BY <1>1 DEF SlotInv
<1>2. ASSUME NEW t \in Task, GetAFreeblock(t) PROVE SlotInv'
  <2>1. sb'.inodes_count = sb.inodes_count
    BY <1>2, CountType DEF GetAFreeblock, TakeBlock, Superblock
  <2> QED
    BY <1>2, <2>1 DEF GetAFreeblock, SlotInv
<1>3. ASSUME NEW t \in Task, AppendInode(t) PROVE SlotInv'
  <2>1. /\ new[t].ino = SlotIno(sb.inodes_count)
        /\ sb.inodes_count \in 0 .. MaxObjects
    <3>1. pc[t] \in Numbered
      BY <1>3 DEF AppendInode, Numbered
    <3>2. new[t].ino = sb.inodes_count + 8
      BY Zenon, <3>1 DEF CallInv
    <3>3. sb.inodes_count >= 2 /\ sb.inodes_count \in 0 .. MaxObjects
      BY Zenon, CountType DEF SlotInv
    <3> QED
      BY <3>2, <3>3 DEF SlotIno
  <2>2. op[t] = "create"
    BY Zenon, <1>3 DEF AppendInode, LockInv, OpInv
  <2>3. GoodSlot(new[t], sb.inodes_count)
    BY Zenon, <1>3, <2>1, <2>2
       DEF AppendInode, GoodSlot, InodeInv, GoodInode, Creating
  <2> QED
    BY <1>3, <2>1, <2>3 DEF AppendInode, SlotInv, TypeOK, InodeStore, image
<1>4. ASSUME NEW t \in Task, CountInode(t) PROVE SlotInv'
  <2>1. sb'.inodes_count = sb.inodes_count + 1 /\ sb.inodes_count \in Nat
    BY <1>4, CountType DEF CountInode, Superblock
  <2> QED
    BY <1>4, <2>1 DEF CountInode, SlotInv
<1>5. ASSUME NEW t \in Task, SaveInode(t) PROVE SlotInv'
  <2>1. CASE UNCHANGED <<store, storeDisk>>
    BY <1>5, <2>1 DEF SaveInode, SlotInv
  <2>2. ASSUME NEW k \in First(InodeSearch(mem[Saved(t)].ino)),
               store' = [store EXCEPT ![k] = mem[Saved(t)]], storeDisk' = store'
        PROVE  SlotInv'
    <3>1. k \in 0 .. MaxObjects /\ store[k].ino = mem[Saved(t)].ino
      BY CountType DEF First, InodeSearch
    <3>2. Saved(t) \in Path
      BY Zenon, <1>5, PathOfCall DEF SaveInode, Saved, Creating
    <3>3. GoodInode(mem[Saved(t)])
      BY Zenon, <1>5, <3>2 DEF SaveInode, InodeInv
    <3>4. GoodSlot(mem[Saved(t)], k)
      <4>1. GoodSlot(store[k], k)
        BY <3>1 DEF SlotInv
      <4>2. store[k] # NoInode
        BY <3>1, <3>3 DEF GoodInode, NoInode
      <4>3. store[k].ino = SlotIno(k)
        BY <4>1, <4>2 DEF GoodSlot
      <4> QED
        BY Zenon, <3>1, <3>3, <4>3 DEF GoodSlot, GoodInode
    <3> QED
      BY <1>5, <2>2, <3>1, <3>4 DEF SaveInode, SlotInv, TypeOK, InodeStore
  <2> QED
    BY <1>5, <2>1, <2>2 DEF SaveInode
<1>6. CASE KillSuperblock \/ Writeback
  BY <1>6 DEF KillSuperblock, Writeback, SlotInv, cache
<1>7. CASE Crash
  BY <1>7 DEF Crash, SlotInv, CallInv, image
<1> QED
  BY <1>1, <1>2, <1>3, <1>4, <1>5, <1>6, <1>7, StoreSteps

\* The calls in which new has no block yet.
Early == {"children", "count", "objects", "free", "freeblock"}

\* It is enough to look at what a step does to the inodes in memory, and to
\* the new inode of the call that it belongs to.
LEMMA InodeStep ==
    ASSUME TypeOK, CallInv, InodeInv,
           \A p \in Path : mem'[p] = mem[p] \/ GoodInode(mem'[p]),
           \A u \in Task :
              \/ pc'[u] = "idle"
              \/ /\ pc[u] # "idle" /\ op'[u] = op[u] /\ path'[u] = path[u]
                 /\ Creating(u) /\ pc'[u] \notin Early => GoodInode(new'[u])
    PROVE  InodeInv'
<1>1. \A p \in Path : mem'[p] = NoInode \/ GoodInode(mem'[p])
  BY DEF InodeInv
<1>2. ASSUME NEW u \in Task, pc'[u] # "idle"
      PROVE  /\ mem'[Saved(u)'] # NoInode
             /\ Creating(u)' /\ pc'[u] \notin Early => GoodInode(new'[u])
  <2>1. Saved(u)' = Saved(u) /\ Saved(u) \in Path /\ Creating(u)' = Creating(u)
    BY <1>2, PathOfCall DEF Saved, Creating
  <2>2. mem[Saved(u)] # NoInode
    BY <1>2 DEF InodeInv
  <2> QED
    BY <1>2, <2>1, <2>2 DEF GoodInode, NoInode
<1> QED
  BY <1>1, <1>2 DEF InodeInv, Early

\* What simplefs_get_inode returns is NULL or a well-formed inode.
LEMMA GetInodeGood ==
    ASSUME TypeOK, SlotInv, NEW ino, NEW n \in GetInode(ino)
    PROVE  n = NoInode \/ GoodInode(n)
<1>1. n = NoInode \/ \E k \in 0 .. sb.inodes_count - 1 : n = store[k]
  BY DEF GetInode, First
<1>2. ASSUME NEW k \in 0 .. sb.inodes_count - 1
      PROVE  store[k] = NoInode \/ GoodInode(store[k])
  <2>1. k \in 0 .. MaxObjects
    BY CountType
  <2> QED
    BY <2>1 DEF SlotInv, GoodSlot, GoodInode, SlotIno
<1> QED
  BY <1>1, <1>2

\* Changing a size changes neither number nor block of an inode.
LEMMA UpdateSizeKeeps ==
    ASSUME TypeOK, NEW t \in Task, UpdateSize(t), NEW p \in Path
    PROVE  mem'[p].ino = mem[p].ino /\ mem'[p].block = mem[p].block
<1>1. mem'[p] = mem[p] \/ mem'[p] = [mem[p] EXCEPT !.size = mem[p].size + 1]
      \/ mem'[p] = [mem[p] EXCEPT !.size = ppos[t]]
  BY DEF UpdateSize, TypeOK
<1> QED
  BY <1>1 DEF TypeOK, Inode

\* Every step keeps numbers and blocks in the inodes that calls work on.
LEMMA NextInodeInv ==
    TypeOK /\ CallInv /\ LockInv /\ BlockInv /\ [Next]_vars => InodeInv'
<1> SUFFICES ASSUME TypeOK, CallInv, LockInv, BlockInv, [Next]_vars PROVE InodeInv'
  OBVIOUS
<1>a. SlotInv /\ InodeInv
  BY DEF BlockInv
<1>b. ASSUME NEW t \in Task, Return(t), UNCHANGED mem PROVE InodeInv'
  BY <1>a, <1>b, InodeStep DEF Return, Goto, TypeOK, InodeInv, Early
<1>1. CASE UNCHANGED vars
  BY <1>1, <1>a DEF vars, local, InodeInv, Saved, Creating
<1>2. ASSUME NEW t \in Task, Locking(t) PROVE InodeInv'
  <2>1. CASE Return(t)
    BY Zenon, <1>2, <1>b, <2>1, Labels DEF Locking, LockChildren, LockCount, LockFree,
       LockAdd, LockAddSb, LockSave, LockSaveSb, Return, Goto, TypeOK
  <2>2. CASE UNCHANGED local
    <3>1. \A p \in Path : mem'[p] = mem[p] \/ GoodInode(mem'[p])
      <4>1. CASE UpdateSize(t)
        <5> SUFFICES ASSUME NEW p \in Path, mem'[p] # mem[p]
                     PROVE  GoodInode(mem'[p])
          OBVIOUS
        <5>1. p = Saved(t)
          BY <4>1 DEF UpdateSize, TypeOK
        <5>2. GoodInode(mem[p])
          BY Zenon, <1>2, <5>1, <1>a DEF InodeInv, Locking, LockChildren, LockCount,
             LockFree, LockAdd, LockAddSb, LockSave, LockSaveSb
        <5> QED
          BY <4>1, <5>2, UpdateSizeKeeps DEF GoodInode
      <4> QED
        BY <1>2, <4>1 DEF Locking, LockChildren, LockCount, LockFree, LockAdd,
           LockAddSb, LockSave, LockSaveSb
    <3>2. pc[t] # "idle" /\ \A u \in Task : u # t => pc'[u] = pc[u]
      BY <1>2 DEF Locking, LockChildren, LockCount, LockFree, LockAdd,
         LockAddSb, LockSave, LockSaveSb, Goto, Return, TypeOK
    <3>3. pc'[t] = "idle" \/ (pc'[t] \notin Early => pc[t] \notin Early)
      BY <1>2 DEF Locking, LockChildren, LockCount, LockFree, LockAdd,
         LockAddSb, LockSave, LockSaveSb, Goto, Return, TypeOK, Early
    <3> QED
      BY Zenon, <1>a, <2>2, <3>1, <3>2, <3>3, InodeStep DEF local, InodeInv, Early
  <2> QED
    BY <1>2, <2>1, <2>2 DEF Locking, LockChildren, LockCount, LockFree, LockAdd,
       LockAddSb, LockSave, LockSaveSb
<1>3. ASSUME NEW t \in Task, ObjectsCount(t) PROVE InodeInv'
  <2>1. CASE Goto(t, "free") /\ UNCHANGED <<op, path>>
             /\ new' = [new EXCEPT ![t] = NewInode(path[t], sb.inodes_count)]
    BY <1>3, <1>a, <2>1, InodeStep DEF ObjectsCount, Goto, TypeOK, InodeInv, Early
  <2> QED
    BY Zenon, <1>3, <1>b, <2>1 DEF ObjectsCount
<1>4. ASSUME NEW t \in Task, GetAFreeblock(t) PROVE InodeInv'
  <2>1. ASSUME NEW k \in First(FreeBlocks(sb.free_blocks)),
               new' = [new EXCEPT ![t].block = k], Goto(t, "add"),
               UNCHANGED <<op, path>>
        PROVE  InodeInv'
    <3>1. new[t].ino # 0
      BY <1>4, Constants
         DEF GetAFreeblock, CallInv, Numbered, TypeOK, Superblock
    <3>2. k # 0
      BY Constants DEF First, FreeBlocks, RESERVED_INODES
    <3>3. GoodInode(new'[t])
      BY <2>1, <3>1, <3>2 DEF GoodInode, TypeOK, Inode
    <3> QED
      BY Zenon, <1>4, <1>a, <2>1, <3>3, InodeStep
         DEF GetAFreeblock, Goto, TypeOK, InodeInv, Early
  <2> QED
    BY <1>4, <1>b, <2>1 DEF GetAFreeblock
<1>5. ASSUME NEW t \in Task, AppendInode(t) \/ CountInode(t) \/ AddRecord(t)
      PROVE  InodeInv'
  BY Zenon, <1>5, <1>a, InodeStep DEF AppendInode, CountInode, AddRecord, Goto, TypeOK,
     InodeInv, Early, local
<1>6. ASSUME NEW t \in Task, SaveInode(t) PROVE InodeInv'
  <2>1. CASE Goto(t, "leave") /\ UNCHANGED local
    BY <1>6, <1>a, <2>1, InodeStep DEF SaveInode, Goto, TypeOK, InodeInv, Early,
       local
  <2> QED
    BY <1>6, <1>b, <2>1 DEF SaveInode
<1>7. ASSUME NEW t \in Task, Leave(t) PROVE InodeInv'
  <2>1. CASE Creating(t) /\ mem' = [mem EXCEPT ![path[t]] = new[t]]
    <3>1. GoodInode(new[t])
      BY Zenon, <1>7, <1>a, <2>1 DEF Leave, InodeInv
    <3>2. \A p \in Path : mem'[p] = mem[p] \/ GoodInode(mem'[p])
      BY <2>1, <3>1 DEF TypeOK
    <3> QED
      BY <1>7, <1>a, <3>2, InodeStep
         DEF Leave, Return, Goto, TypeOK, InodeInv, Early
  <2> QED
    BY Zenon, <1>7, <1>b, <2>1 DEF Leave
<1>8. ASSUME NEW t \in Task, Call(t) PROVE InodeInv'
  <2>1. ASSUME NEW p \in Path, CreateCall(t, p) PROVE InodeInv'
    <3>1. /\ mem' = mem /\ new' = new
          /\ \A u \in Task \ {t} :
                pc'[u] = pc[u] /\ op'[u] = op[u] /\ path'[u] = path[u]
      BY Zenon, <1>a, <2>1 DEF CreateCall, Goto, TypeOK
    <3>2. /\ pc'[t] = "children" /\ op'[t] = "create" /\ path'[t] = p
          /\ mem[Parent[p]] # NoInode
      <4>1. pc'[t] = "children" /\ op'[t] = "create" /\ path'[t] = p
        BY Zenon, <1>a, <2>1 DEF CreateCall, Goto, TypeOK
      <4>2. mem[Parent[p]].mode = "DIR"
        BY Zenon, <2>1 DEF CreateCall
      <4> QED
        BY <4>1, <4>2 DEF NoInode
    <3>3. ASSUME NEW u \in Task, pc'[u] # "idle"
          PROVE  /\ mem'[Saved(u)'] # NoInode
                 /\ Creating(u)' /\ pc'[u] \notin Early => GoodInode(new'[u])
      <4>1. CASE u = t
        BY <3>1, <3>2, <4>1 DEF Saved, Creating, Early
      <4>2. CASE u # t
        BY <1>a, <3>1, <3>3, <4>2 DEF InodeInv, Saved, Creating, Early
      <4> QED
        BY Zenon, <4>1, <4>2
    <3> QED
      BY Zenon, <1>a, <3>1, <3>3 DEF InodeInv, Early
  <2>2. ASSUME NEW p \in Path, NEW n \in 1 .. MaxSize, WriteCall(t, p, n)
        PROVE  InodeInv'
    <3>1. /\ mem' = mem /\ new' = new
          /\ \A u \in Task \ {t} :
                pc'[u] = pc[u] /\ op'[u] = op[u] /\ path'[u] = path[u]
      BY Zenon, <1>a, <2>2 DEF WriteCall, Goto, TypeOK
    <3>2. /\ pc'[t] = "save" /\ op'[t] = "write" /\ path'[t] = p
          /\ mem[p] # NoInode
      <4>1. pc'[t] = "save" /\ op'[t] = "write" /\ path'[t] = p
        BY Zenon, <1>a, <2>2 DEF WriteCall, Goto, TypeOK
      <4>2. mem[p].mode = "REG"
        BY Zenon, <2>2 DEF WriteCall
      <4> QED
        BY <4>1, <4>2 DEF NoInode
    <3>3. ASSUME NEW u \in Task, pc'[u] # "idle"
          PROVE  /\ mem'[Saved(u)'] # NoInode
                 /\ Creating(u)' /\ pc'[u] \notin Early => GoodInode(new'[u])
      <4>1. CASE u = t
        BY <3>1, <3>2, <4>1 DEF Saved, Creating, Early
      <4>2. CASE u # t
        BY <1>a, <3>1, <3>3, <4>2 DEF InodeInv, Saved, Creating, Early
      <4> QED
        BY <4>1, <4>2
    <3> QED
      BY <1>a, <3>1, <3>3 DEF InodeInv, Early
  <2> QED
    BY <1>8, <2>1, <2>2 DEF Call
<1>9. ASSUME NEW t \in Task, Signal(t) PROVE InodeInv'
  BY <1>9, <1>a DEF Signal, local, InodeInv, Saved, Creating
<1>10. ASSUME NEW p \in Path, NEW ino, NEW n \in GetInode(ino),
              mem' = [mem EXCEPT ![p] = n], mem[p] = NoInode,
              UNCHANGED <<pc, local>>
       PROVE  InodeInv'
  <2>1. n = NoInode \/ GoodInode(n)
    BY <1>a, GetInodeGood
  <2>2. \A q \in Path : mem'[q] = mem[q] \/ GoodInode(mem'[q])
    BY <1>10, <2>1 DEF TypeOK
  <2> QED
    BY Zenon, <1>10, <1>a, <2>2, InodeStep DEF local, InodeInv, Early
<1>11. ASSUME NEW p \in Path, Lookup(p) PROVE InodeInv'
  BY Zenon, <1>10, <1>11 DEF Lookup
<1>12. CASE FillSuper
  BY Zenon, <1>10, <1>12, Constants DEF FillSuper, Mounted
<1>13. ASSUME NEW p \in Path, ~InUse(p), mem' = [mem EXCEPT ![p] = NoInode],
              UNCHANGED <<pc, local>>
       PROVE  InodeInv'
  <2>1. ASSUME NEW u \in Task, pc[u] # "idle"
        PROVE  Saved(u) # p /\ Saved(u) \in Path
    BY <1>13, <2>1, PathOfCall DEF InUse, Saved, Creating
  <2>2. ASSUME NEW u \in Task PROVE Saved(u)' = Saved(u) /\ Creating(u)' = Creating(u)
    BY <1>13 DEF Saved, Creating, local
  <2> QED
    BY <1>13, <1>a, <2>1, <2>2 DEF InodeInv, TypeOK, local
<1>14. ASSUME NEW p \in Path, DestroyInode(p) PROVE InodeInv'
  BY Zenon, <1>13, <1>14 DEF DestroyInode
<1>15. CASE KillSuperblock
  BY Zenon, <1>13, <1>15, Constants DEF KillSuperblock
<1>16. CASE Writeback
  BY Zenon, <1>16, <1>a DEF Writeback, local, InodeInv, Saved, Creating
<1>17. CASE Crash
  BY <1>17 DEF Crash, InodeInv
<1> QED
  BY <1>1, <1>2, <1>3, <1>4, <1>5, <1>6, <1>7, <1>8, <1>9, <1>11, <1>12, <1>14,
     <1>15, <1>16, <1>17 DEF Next, Proceed

\* n owns what some inode already owned, or nothing.
Copy(n) ==
    n.block = 0 \/ \E m \in AllInodes : m.ino = n.ino /\ m.block = n.block

\* What is in a store, in memory or in a call is a copy of itself.
LEMMA Copies ==
    /\ Copy(NoInode)
    /\ \A k \in 0 .. MaxObjects : Copy(store[k]) /\ Copy(storeDisk[k])
    /\ \A p \in Path : Copy(mem[p])
    /\ \A t \in Task : Copy(new[t])
BY DEF Copy, AllInodes, NoInode

\* A step that only copies inodes around, and frees no block, keeps one
\* owner for each block.
LEMMA CopiesKeepOwners ==
    ASSUME OwnerInv, sb'.free_blocks \subseteq sb.free_blocks,
           \A k \in 0 .. MaxObjects : Copy(store'[k]) /\ Copy(storeDisk'[k]),
           \A p \in Path : Copy(mem'[p]),
           \A t \in Task : Copy(new'[t])
    PROVE  OwnerInv'
<1>1. FreeBlocks(sb'.free_blocks) \subseteq FreeBlocks(sb.free_blocks)
  BY DEF FreeBlocks
<1>2. 0 \notin FreeBlocks(sb.free_blocks)
  BY DEF FreeBlocks, RESERVED_INODES
<1>3. \A n \in AllInodes' : Copy(n)
  BY DEF AllInodes
<1>4. ASSUME NEW m \in AllInodes', NEW n \in AllInodes',
             m.block # 0, m.block = n.block
      PROVE  m.ino = n.ino
  <2>1. PICK a \in AllInodes : a.ino = m.ino /\ a.block = m.block
    BY <1>3, <1>4 DEF Copy
  <2>2. PICK b \in AllInodes : b.ino = n.ino /\ b.block = n.block
    BY <1>3, <1>4 DEF Copy
  <2> QED
    BY <1>4, <2>1, <2>2 DEF OwnerInv
<1>5. ASSUME NEW n \in AllInodes' PROVE n.block \notin FreeBlocks(sb'.free_blocks)
  BY <1>1, <1>2, <1>3 DEF Copy, OwnerInv
<1> QED
  BY <1>4, <1>5 DEF OwnerInv

\* A block that the scan finds belongs to no inode yet, and the scan finds
\* it no more once its mask is cleared.
LEMMA FreshOwner ==
    ASSUME TypeOK, OwnerInv, NEW t \in Task,
           NEW k \in First(FreeBlocks(sb.free_blocks)), TakeBlock(k),
           new' = [new EXCEPT ![t].block = k],
           UNCHANGED <<store, storeDisk, mem>>
    PROVE  OwnerInv'
<1>1. sb'.free_blocks = sb.free_blocks \ Mask(k)
  BY CountType DEF TakeBlock, Superblock
<1>2. k \in FreeBlocks(sb.free_blocks) /\ k \notin FreeBlocks(sb'.free_blocks)
  BY <1>1 DEF First, FreeBlocks
<1>3. FreeBlocks(sb'.free_blocks) \subseteq FreeBlocks(sb.free_blocks)
  BY <1>1 DEF FreeBlocks
<1>4. new'[t].block = k /\ \A u \in Task : u # t => new'[u] = new[u]
  BY DEF TypeOK, Inode
<1>5. \A n \in AllInodes' : n = new'[t] \/ n \in AllInodes
  BY <1>4 DEF AllInodes
<1>6. \A n \in AllInodes : n.block # k
  BY <1>2 DEF OwnerInv
<1>7. ASSUME NEW m \in AllInodes', NEW n \in AllInodes',
             m.block # 0, m.block = n.block
      PROVE  m.ino = n.ino
  BY Zenon, <1>4, <1>5, <1>6, <1>7 DEF OwnerInv
<1>8. ASSUME NEW n \in AllInodes' PROVE n.block \notin FreeBlocks(sb'.free_blocks)
  BY Zenon, <1>2, <1>3, <1>4, <1>5 DEF OwnerInv
<1> QED
  BY <1>7, <1>8 DEF OwnerInv

\* Every step keeps one owner for each block.
LEMMA NextOwnerInv ==
    TypeOK /\ CallInv /\ OwnerInv /\ [Next]_vars => OwnerInv'
<1> SUFFICES ASSUME TypeOK, CallInv, OwnerInv, [Next]_vars PROVE OwnerInv'
  OBVIOUS
<1>a. \A ino : \A n \in GetInode(ino) : Copy(n)
  <2> SUFFICES ASSUME NEW ino, NEW n \in GetInode(ino) PROVE Copy(n)
    OBVIOUS
  <2>1. n = NoInode \/ \E k \in 0 .. sb.inodes_count - 1 : n = store[k]
    BY DEF GetInode, First
  <2>2. 0 .. sb.inodes_count - 1 \subseteq 0 .. MaxObjects
    BY CountType
  <2> QED
    BY <2>1, <2>2, Copies
<1>b. ASSUME NEW t \in Task, Return(t) PROVE \A u \in Task : Copy(new'[u])
  BY <1>b, Copies DEF Return, TypeOK
<1>1. CASE UNCHANGED vars
  <2>1. UNCHANGED <<sb, store, storeDisk, mem, new>>
    BY <1>1 DEF vars, cache, image, local
  <2>2. AllInodes' = AllInodes
    BY <2>1 DEF AllInodes
  <2> QED
    BY <2>1, <2>2 DEF OwnerInv
<1>2. ASSUME NEW t \in Task, Locking(t) PROVE OwnerInv'
  <2>1. UNCHANGED <<sb, store, storeDisk>>
    BY <1>2 DEF Locking, LockChildren, LockCount, LockFree, LockAdd, LockAddSb,
       LockSave, LockSaveSb, cache, image
  <2>2. \A u \in Task : Copy(new'[u])
    BY Zenon, <1>2, <1>b, Copies DEF Locking, LockChildren, LockCount, LockFree, LockAdd,
       LockAddSb, LockSave, LockSaveSb, local
  <2>3. CASE UpdateSize(t)
    <3>1. \A p \in Path : Copy(mem'[p])
      BY <2>3, UpdateSizeKeeps, Copies DEF Copy
    <3> QED
      BY <2>1, <2>2, <3>1, Copies, CopiesKeepOwners
  <2>4. CASE UNCHANGED mem
    BY <2>1, <2>2, <2>4, Copies, CopiesKeepOwners
  <2> QED
    BY <1>2, <2>3, <2>4 DEF Locking, LockChildren, LockCount, LockFree, LockAdd,
       LockAddSb, LockSave, LockSaveSb
<1>3. ASSUME NEW t \in Task, ObjectsCount(t) PROVE OwnerInv'
  <2>1. Copy(NewInode(path[t], sb.inodes_count))
    BY DEF Copy, NewInode
  <2>2. \A u \in Task : Copy(new'[u])
    BY Zenon, <1>3, <1>b, <2>1, Copies DEF ObjectsCount, TypeOK
  <2> QED
    BY <1>3, <2>2, Copies, CopiesKeepOwners DEF ObjectsCount, cache, image
<1>4. ASSUME NEW t \in Task, GetAFreeblock(t) PROVE OwnerInv'
  <2>1. CASE Return(t) /\ UNCHANGED sb
    BY <1>4, <2>1, <1>b, Copies, CopiesKeepOwners DEF GetAFreeblock
  <2> QED
    BY <1>4, <2>1, FreshOwner DEF GetAFreeblock
<1>5. ASSUME NEW t \in Task, AppendInode(t) PROVE OwnerInv'
  <2>1. \A k \in 0 .. MaxObjects : Copy(store'[k])
    BY <1>5, Copies DEF AppendInode, TypeOK, InodeStore
  <2> QED
    BY Zenon, <1>5, <2>1, Copies, CopiesKeepOwners DEF AppendInode, image, local
<1>6. ASSUME NEW t \in Task, CountInode(t) PROVE OwnerInv'
  <2>1. sb'.free_blocks = sb.free_blocks
    BY <1>6, CountType DEF CountInode, Superblock
  <2> QED
    BY <1>6, <2>1, Copies, CopiesKeepOwners DEF CountInode, local
<1>7. ASSUME NEW t \in Task, SaveInode(t) PROVE OwnerInv'
  <2>1. \A u \in Task : Copy(new'[u])
    BY <1>7, <1>b, Copies DEF SaveInode, local
  <2>2. CASE UNCHANGED <<store, storeDisk>>
    BY <1>7, <2>1, <2>2, Copies, CopiesKeepOwners DEF SaveInode
  <2>3. ASSUME NEW k, store' = [store EXCEPT ![k] = mem[Saved(t)]],
               storeDisk' = store'
        PROVE  OwnerInv'
    <3>1. Saved(t) \in Path
      BY Zenon, <1>7, PathOfCall DEF SaveInode, Saved, Creating
    <3>2. \A j \in 0 .. MaxObjects : Copy(store'[j]) /\ Copy(storeDisk'[j])
      BY <2>3, <3>1, Copies DEF TypeOK, InodeStore
    <3> QED
      BY Zenon, <1>7, <2>1, <3>2, Copies, CopiesKeepOwners DEF SaveInode
  <2> QED
    BY <1>7, <2>2, <2>3 DEF SaveInode
<1>8. ASSUME NEW t \in Task, Leave(t) PROVE OwnerInv'
  <2>1. \A p \in Path : Copy(mem'[p])
    BY Zenon, <1>8, Copies DEF Leave, TypeOK
  <2> QED
    BY Zenon, <1>8, <1>b, <2>1, Copies, CopiesKeepOwners DEF Leave, cache, image
<1>9. ASSUME NEW t \in Task, AddRecord(t) \/ Call(t) \/ Signal(t) PROVE OwnerInv'
  <2>1. UNCHANGED <<sb, store, storeDisk, mem, new>>
    BY Zenon, <1>9 DEF AddRecord, Call, CreateCall, WriteCall, Signal, cache, image, local
  <2> QED
    BY Zenon, <2>1, Copies, CopiesKeepOwners
<1>10. ASSUME NEW p \in Path, Lookup(p) \/ DestroyInode(p) PROVE OwnerInv'
  <2>1. PICK n : Copy(n) /\ mem' = [mem EXCEPT ![p] = n]
    BY Zenon, <1>10, <1>a, Copies DEF Lookup, DestroyInode
  <2>2. \A q \in Path : Copy(mem'[q])
    BY <2>1, Copies DEF TypeOK
  <2> QED
    BY Zenon, <1>10, <2>2, Copies, CopiesKeepOwners
       DEF Lookup, DestroyInode, cache, image, local
<1>11. CASE FillSuper \/ KillSuperblock
  <2>1. PICK n : Copy(n) /\ mem' = [mem EXCEPT ![Root] = n]
    BY Zenon, <1>11, <1>a, Copies DEF FillSuper, KillSuperblock
  <2>2. \A q \in Path : Copy(mem'[q])
    BY <2>1, Copies DEF TypeOK
  <2> QED
    BY <1>11, <2>2, Copies, CopiesKeepOwners
       DEF FillSuper, KillSuperblock, cache, image, local
<1>12. CASE Writeback
  BY <1>12, Copies, CopiesKeepOwners DEF Writeback, cache, local
<1>13. CASE Crash
  BY Zenon, <1>13, Copies, CopiesKeepOwners DEF Crash, image, CallInv
<1> QED
  BY <1>1, <1>2, <1>3, <1>4, <1>5, <1>6, <1>7, <1>8, <1>9, <1>10, <1>11, <1>12,
     <1>13 DEF Next, Proceed

(***************************************************************************)
(* The whole inductive invariant.  It holds whatever fails.                *)
(***************************************************************************)
BaseInv == TypeOK /\ CallInv /\ LockInv /\ BlockInv

\* Every step keeps the types, the numbers, the mutexes and the owners.
LEMMA NextBaseInv == BaseInv /\ [Next]_vars => BaseInv'
BY NextType, NextCallInv, NextLockInv, NextSlotInv, NextInodeInv, NextOwnerInv
   DEF BaseInv, BlockInv

\* They are right in every reachable state.
LEMMA Accounted == Spec => []BaseInv
<1>1. Init => BaseInv
  BY InitTypeInv, InitLockInv, InitBlockInv DEF BaseInv
<1> QED
  BY <1>1, NextBaseInv, PTL DEF Spec

\* No data block ever belongs to two inodes of the image, no inode number is
\* used twice, and no owned block is handed out again, in spite of crashes,
\* interrupted calls and the aliasing of bits by the shift.
THEOREM BlocksNotShared == Spec => []BlocksOwnedOnce
<1>1. BaseInv => BlocksOwnedOnce
  <2> SUFFICES ASSUME BaseInv PROVE BlocksOwnedOnce
    OBVIOUS
  <2> USE DEF BaseInv
  <2>1. \A k \in 0 .. sbDisk.inodes_count - 1 :
           k \in 0 .. MaxObjects /\ storeDisk[k] \in AllInodes
    BY CountType DEF AllInodes
  <2>2. ASSUME NEW k \in 0 .. sbDisk.inodes_count - 1,
               NEW j \in 0 .. sbDisk.inodes_count - 1,
               k # j, storeDisk[k] # NoInode, storeDisk[j] # NoInode
        PROVE  /\ storeDisk[k].ino # storeDisk[j].ino
               /\ storeDisk[k].block # storeDisk[j].block
    <3>1. SlotIno(k) # SlotIno(j)
      BY <2>2 DEF SlotIno
    <3>2. /\ storeDisk[k].ino = SlotIno(k) /\ storeDisk[k].block # 0
          /\ storeDisk[j].ino = SlotIno(j)
      BY Zenon, <2>1, <2>2 DEF BlockInv, SlotInv, GoodSlot
    <3> QED
      BY Zenon, <2>1, <3>1, <3>2 DEF BlockInv, OwnerInv
  <2>3. \A n \in OnDisk : n.block \notin FreeBlocks(sbDisk.free_blocks)
    BY Zenon, <2>1 DEF OnDisk, BlockInv, OwnerInv, CallInv
  <2> QED
    BY <2>2, <2>3 DEF BlocksOwnedOnce
<1> QED
  BY <1>1, Accounted, PTL

=============================================================================
