---------------------------- MODULE SimpleFsNames ----------------------------
(***************************************************************************)
(* What SimpleFs keeps of directories as long as no signal interrupts a    *)
(* call, for any number of tasks, paths and crashes: every record on the   *)
(* image names an inode of the image.                                      *)
(***************************************************************************)
EXTENDS SimpleFsFiles

(***************************************************************************)
(* Numbers.  An inode number belongs to one path: records, memory and the  *)
(* calls agree on it, and nobody uses a number that was not given out.     *)
(***************************************************************************)
Index == 0 .. RecordsPerBlock - 1

\* A record has a name and a number.
LEMMA RecordFields ==
    ASSUME NEW p, NEW n, NEW r, r = [name |-> p, ino |-> n]
    PROVE  r.name = p /\ r.ino = n
OBVIOUS

\* Path p goes by the number n.
Used(p, n) ==
    \/ p = Root /\ n = ROOTDIR_INODE_NUMBER
    \/ \E b \in Block, k \in Index : dirblk[b][k] = [name |-> p, ino |-> n]
    \/ p \in Path /\ mem[p].ino = n
    \/ \E t \in Task : HasInode(t) /\ path[t] = p /\ new[t].ino = n

NameInv ==
    \A p \in Path \cup {NoPath}, n \in Ino \ {0} : Used(p, n) =>
        /\ n < sb.inodes_count + 8
        /\ \A q \in Path \cup {NoPath} : Used(q, n) => q = p

\* create writes one record, the one after the last child, if it fits.
LEMMA AddEffect ==
    ASSUME BaseInv, NEW t \in Task, AddRecord(t)
    PROVE  LET dir == mem[Parent[path[t]]]
               r == [name |-> path[t], ino |-> new[t].ino]
           IN /\ HasInode(t) /\ pc[t] = "record"
              /\ UNCHANGED <<cache, sbDisk, storeDisk, mem, local>>
              /\ \A b \in Block, k \in Index :
                    \/ dirblk'[b][k] = dirblk[b][k]
                    \/ b = dir.block /\ k = dir.size /\ dirblk'[b][k] = r
              /\ dir.size < RecordsPerBlock => dirblk'[dir.block][dir.size] = r
<1> DEFINE dir == mem[Parent[path[t]]]
           r == [name |-> path[t], ino |-> new[t].ino]
<1>1. HasInode(t) /\ pc[t] = "record"
  BY DEF AddRecord, HasInode, Creating, BaseInv, LockInv, OpInv
<1>2. Parent[path[t]] \in Path
  BY <1>1, PathOfCall DEF BaseInv, HasInode, Creating
<1>3. dir \in Inode /\ dirblk \in [Block -> [Index -> Record]]
  BY <1>2, InodeTypes, DirTypes DEF Index
<1>4. dir.block \in Block /\ dir.size \in Nat
  BY <1>3 DEF Inode
<1>5. dirblk' = IF dir.size < RecordsPerBlock
                THEN [dirblk EXCEPT ![dir.block][dir.size] = r] ELSE dirblk
  BY DEF AddRecord
<1>6. UNCHANGED <<cache, sbDisk, storeDisk, mem, local>>
  BY DEF AddRecord
<1> HIDE DEF dir, r
<1>7. CASE dir.size < RecordsPerBlock
  <2>1. dir.size \in Index
    BY <1>4, <1>7, SizeAssumption DEF Index
  <2>2. \A b \in Block, k \in Index :
              dirblk'[b][k] = IF b = dir.block /\ k = dir.size THEN r ELSE dirblk[b][k]
    BY <1>3, <1>4, <1>5, <1>7, <2>1
  <2> QED
    BY <1>1, <1>4, <1>6, <2>1, <2>2 DEF dir, r
<1>8. CASE ~(dir.size < RecordsPerBlock)
  <2>1. dirblk' = dirblk
    BY <1>5, <1>8
  <2> QED
    BY <1>1, <1>6, <1>8, <2>1 DEF dir, r
<1> QED
  BY <1>7, <1>8

\* A path gets a number when simplefs_inode_add counts its inode; every
\* other step only passes the number on.
LEMMA UsedBefore ==
    ASSUME BaseInv, FileInv, [Next]_vars,
           NEW p \in Path \cup {NoPath}, NEW n \in Ino \ {0}, Used(p, n)'
    PROVE  \/ Used(p, n)
           \/ \E t \in Task : CountInode(t) /\ path[t] = p /\ new[t].ino = n
<1>1. CASE p = Root /\ n = ROOTDIR_INODE_NUMBER
  BY <1>1 DEF Used
<1>2. ASSUME NEW b \in Block, NEW k \in Index, dirblk'[b][k] = [name |-> p, ino |-> n]
      PROVE  Used(p, n)
  <2>1. CASE dirblk'[b][k] = dirblk[b][k]
    BY Zenon, <1>2, <2>1 DEF Used
  <2>2. ASSUME NEW t \in Task, HasInode(t),
               dirblk'[b][k] = [name |-> path[t], ino |-> new[t].ino]
        PROVE  Used(p, n)
    <3>1. path[t] = p /\ new[t].ino = n
      BY <1>2, <2>2
    <3> QED
      BY Zenon, <2>2, <3>1 DEF Used
  <2>3. ASSUME NEW t \in Task, AddRecord(t) PROVE Used(p, n)
    <3>1. /\ HasInode(t)
          /\ \/ dirblk'[b][k] = dirblk[b][k]
             \/ dirblk'[b][k] = [name |-> path[t], ino |-> new[t].ino]
      BY <2>3, AddEffect
    <3> QED
      BY Zenon, <2>1, <2>2, <3>1
  <2> QED
    BY <2>1, <2>3, DirStep
<1>3. ASSUME p \in Path, mem'[p].ino = n PROVE Used(p, n)
  <2>a. mem \in [Path -> Inode] /\ Root \in Path /\ mem'[p] # NoInode
    BY <1>3, Constants, InodeTypes DEF NoInode
  <2>1. CASE mem'[p].ino = mem[p].ino
    BY <1>3, <2>1 DEF Used
  <2>2. ASSUME NEW t \in Task, UpdateSize(t) PROVE Used(p, n)
    BY <1>3, <2>1, <2>2, SizeOnly DEF BaseInv, Same
  <2>3. ASSUME NEW t \in Task, Leave(t) PROVE Used(p, n)
    <3>1. mem'[p] = mem[p] \/ (Creating(t) /\ p = path[t] /\ mem'[p] = new[t])
      BY <2>3, <2>a, <1>3 DEF Leave
    <3>2. CASE Creating(t) /\ p = path[t] /\ mem'[p] = new[t]
      BY Zenon, <1>3, <2>3, <3>2 DEF Leave, HasInode, Used
    <3> QED
      BY <2>1, <3>1, <3>2
  <2>4. ASSUME NEW q \in Path, Lookup(q) PROVE Used(p, n)
    <3> DEFINE dir == mem[Parent[q]]
               match == {k \in Index : k < dir.size /\ dirblk[dir.block][k].name = q}
    <3>1. PICK k \in First(match) : \E m \in GetInode(dirblk[dir.block][k].ino) :
             mem' = [mem EXCEPT ![q] = m]
      BY Zenon, <2>4 DEF Lookup, Index
    <3>2. PICK m \in GetInode(dirblk[dir.block][k].ino) : mem' = [mem EXCEPT ![q] = m]
      BY Zenon, <3>1
    <3>3. CASE p # q
      BY <1>3, <2>1, <2>a, <3>2, <3>3
    <3>4. CASE p = q
      <4>1. mem'[p] = m
        BY <1>3, <2>a, <3>2, <3>4
      <4>2. m.ino = dirblk[dir.block][k].ino
        BY <2>a, <4>1, GetInodeStored
      <4>3. k \in Index /\ dirblk[dir.block][k].name = q
        BY DEF First
      <4>4. Parent[q] \in Path
        BY <2>4, TreeAssumption DEF Lookup
      <4>5. dir.block \in Block
        BY <2>a, <4>4 DEF Inode
      <4>a. dirblk \in [Block -> [Index -> Record]]
        BY Zenon, DirTypes DEF Index
      <4>6. dirblk[dir.block][k] \in Record
        BY <4>3, <4>5, <4>a
      <4>7. dirblk[dir.block][k] = [name |-> p, ino |-> n]
        BY <1>3, <3>4, <4>1, <4>2, <4>3, <4>6 DEF Record
      <4> QED
        BY Zenon, <4>3, <4>5, <4>7 DEF Used
    <3> QED
      BY <3>3, <3>4
  <2>5. ASSUME NEW q \in Path, DestroyInode(q) PROVE Used(p, n)
    BY <1>3, <2>1, <2>5, <2>a DEF DestroyInode
  <2>6. ASSUME FillSuper PROVE Used(p, n)
    <3>1. PICK m \in GetInode(ROOTDIR_INODE_NUMBER) : mem' = [mem EXCEPT ![Root] = m]
      BY Zenon, <2>6 DEF FillSuper
    <3>2. CASE p # Root
      BY <1>3, <2>1, <2>a, <3>1, <3>2
    <3>3. CASE p = Root
      <4>1. mem'[p] = m
        BY <2>a, <3>1, <3>3
      <4>2. m.ino = ROOTDIR_INODE_NUMBER
        BY <2>a, <4>1, GetInodeStored
      <4> QED
        BY <1>3, <3>3, <4>1, <4>2 DEF Used
    <3> QED
      BY <3>2, <3>3
  <2>7. ASSUME KillSuperblock PROVE Used(p, n)
    BY <1>3, <2>1, <2>7, <2>a DEF KillSuperblock
  <2>8. ~Crash
    BY <1>3, <2>a DEF Crash
  <2> QED
    BY Zenon, <2>1, <2>2, <2>3, <2>4, <2>5, <2>6, <2>7, <2>8, MemSteps
<1>4. ASSUME NEW t \in Task, HasInode(t)', path'[t] = p, new'[t].ino = n
      PROVE  Used(p, n) \/ (CountInode(t) /\ path[t] = p /\ new[t].ino = n)
  <2>1. /\ new'[t] = new[t] /\ path'[t] = path[t]
        /\ HasInode(t) \/ CountInode(t)
    BY <1>4, HasInodeStep DEF FileInv
  <2> QED
    BY Zenon, <1>4, <2>1 DEF Used
<1> QED
  BY Zenon, <1>1, <1>2, <1>3, <1>4 DEF Used

\* mkfs-simplefs gives out the numbers 1 and 2.
LEMMA InitNameInv == Init => NameInv
<1> SUFFICES ASSUME Init PROVE NameInv
  OBVIOUS
<1>1. sb.inodes_count = 2
  BY DEF Init, mkfsSuperblock
<1>2. ASSUME NEW p \in Path \cup {NoPath}, NEW n \in Ino \ {0}, Used(p, n)
      PROVE  (p = Root /\ n = 1) \/ (p = Welcome /\ n = 2)
  <2>1. ASSUME NEW b \in Block, NEW k \in Index, dirblk[b][k] = [name |-> p, ino |-> n]
        PROVE  p = Welcome /\ n = 2
    <3>1. \/ dirblk[b][k] = [name |-> Welcome, ino |-> 2]
          \/ dirblk[b][k] = [name |-> NoPath, ino |-> 0]
      BY DEF Init, mkfsDirent, Index, NoRecord, WELCOMEFILE_INODE_NUMBER
    <3> QED
      BY <1>2, <2>1, <3>1
  <2>2. p \in Path => mem[p].ino = 0
    BY DEF Init, NoInode
  <2>3. \A t \in Task : ~HasInode(t)
    BY Zenon DEF Init, HasInode, Creating
  <2> QED
    BY <1>2, <2>1, <2>2, <2>3 DEF Used, ROOTDIR_INODE_NUMBER
<1> QED
  BY <1>1, <1>2 DEF NameInv

\* The number of a new inode is greater than all that are in use.
LEMMA NextNameInv ==
    ASSUME BaseInv, FileInv, NameInv, [Next]_vars PROVE NameInv'
<1>1. ASSUME NEW t \in Task, CountInode(t)
      PROVE  /\ pc[t] \in Numbered /\ new[t].ino = sb.inodes_count + 8
             /\ sb'.inodes_count = sb.inodes_count + 1
  <2>1. pc[t] \in Numbered
    BY <1>1 DEF CountInode, Numbered
  <2> QED
    BY <1>1, <2>1, CountType DEF BaseInv, CallInv, CountInode, Superblock
<1>2. sb.inodes_count \in Nat /\ sb'.inodes_count >= sb.inodes_count
  BY CountStep
<1> SUFFICES ASSUME NEW p \in Path \cup {NoPath}, NEW n \in Ino \ {0}, Used(p, n)'
             PROVE  /\ n < sb'.inodes_count + 8
                    /\ \A q \in Path \cup {NoPath} : Used(q, n)' => q = p
  BY DEF NameInv
<1>3. n \in Nat /\ sb'.inodes_count \in Nat
  BY <1>2, CountStep, SizeAssumption DEF Ino, START_INO, RESERVED_INODES
<1>4. CASE Used(p, n)
  <2>1. n < sb.inodes_count + 8
    BY <1>4 DEF NameInv
  <2>2. ASSUME NEW q \in Path \cup {NoPath}, Used(q, n)' PROVE q = p
    <3>1. Used(q, n)
      BY <1>1, <1>2, <1>3, <2>1, <2>2, UsedBefore
    <3> QED
      BY <1>4, <3>1 DEF NameInv
  <2> QED
    BY <1>2, <1>3, <2>1, <2>2
<1>5. ASSUME NEW t \in Task, CountInode(t), path[t] = p, new[t].ino = n, ~Used(p, n)
      PROVE  /\ n < sb'.inodes_count + 8
             /\ \A q \in Path \cup {NoPath} : Used(q, n)' => q = p
  <2>1. ASSUME NEW q \in Path \cup {NoPath}, Used(q, n)' PROVE q = p
    <3>1. ~Used(q, n)
      <4>1. Used(q, n) => n < sb.inodes_count + 8
        BY DEF NameInv
      <4> QED
        BY <1>1, <1>2, <1>5, <4>1
    <3>2. PICK u \in Task : CountInode(u) /\ path[u] = q
      BY <2>1, <3>1, UsedBefore
    <3>3. u = t
      BY <1>1, <1>5, <3>2, NumberedOnce DEF BaseInv
    <3> QED
      BY <1>5, <3>2, <3>3
  <2> QED
    BY <1>1, <1>2, <1>5, <2>1
<1> QED
  BY <1>4, <1>5, UsedBefore

\* Two paths in memory are two inodes.
LEMMA OneInode ==
    ASSUME BaseInv, NameInv, NEW p \in Path, NEW q \in Path,
           mem[p] # NoInode, mem[p].ino = mem[q].ino
    PROVE  p = q
<1>1. mem[p].ino \in Ino \ {0}
  BY InodeTypes DEF BaseInv, BlockInv, InodeInv, GoodInode
<1>2. Used(p, mem[p].ino) /\ Used(q, mem[p].ino)
  BY DEF Used
<1> QED
  BY <1>1, <1>2 DEF NameInv

\* The inode of a create is not in memory.
LEMMA NewNotInMem ==
    ASSUME BaseInv, CallerInv, NameInv, NEW t \in Task, HasInode(t), NEW p \in Path
    PROVE  mem[p].ino # new[t].ino
<1>1. /\ new[t].ino \in Ino \ {0} /\ path[t] \in Path
      /\ mem[path[t]] = NoInode
  <2>1. GoodInode(new[t]) /\ new[t] \in Inode
    BY Zenon, InodeTypes DEF BaseInv, BlockInv, InodeInv, HasInode
  <2>2. new[t].ino \in Ino \ {0}
    BY <2>1 DEF GoodInode, Inode
  <2> QED
    BY <2>2, PathOfCall DEF BaseInv, HasInode, CallerInv
<1>2. Used(path[t], new[t].ino)
  BY DEF Used
<1>3. mem[p].ino = new[t].ino => Used(p, new[t].ino)
  BY DEF Used
<1>4. mem[p].ino = new[t].ino => p = path[t]
  BY <1>1, <1>2, <1>3 DEF NameInv
<1> QED
  BY <1>1, <1>4 DEF NoInode

\* Where an inode in memory comes from.
LEMMA MemStep ==
    ASSUME BaseInv, FileInv, CallerInv, [Next]_vars, NEW p \in Path, mem'[p] # NoInode
    PROVE  \/ mem'[p] = mem[p]
           \/ \E t \in Task : pc[t] = "save" /\ Locking(t) /\ UpdateSize(t)
                              /\ Saved(t) = p
           \/ mem[p] = NoInode /\ \E i \in Counted : mem'[p] = store[i]
           \/ mem[p] = NoInode /\ \E t \in Task : Leave(t) /\ Creating(t)
                                    /\ p = path[t] /\ mem'[p] = new[t]
<1>a. mem \in [Path -> Inode] /\ Root \in Path
  BY Constants, InodeTypes
<1>1. ASSUME NEW t \in Task, UpdateSize(t) PROVE mem'[p] = mem[p] \/ Saved(t) = p
  BY Zenon, <1>1, SizeOnly DEF BaseInv
<1>2. ASSUME NEW t \in Task, Leave(t)
      PROVE  \/ mem'[p] = mem[p]
             \/ mem[p] = NoInode /\ Creating(t) /\ p = path[t] /\ mem'[p] = new[t]
  BY <1>2, <1>a DEF Leave, CallerInv
<1>3. ASSUME NEW q \in Path, NEW ino, NEW n \in GetInode(ino), mem[q] = NoInode,
             mem' = [mem EXCEPT ![q] = n]
      PROVE  \/ mem'[p] = mem[p]
             \/ mem[p] = NoInode /\ \E i \in Counted : mem'[p] = store[i]
  BY Zenon, <1>3, <1>a, GetInodeStored
<1>4. ASSUME NEW q \in Path, Lookup(q)
      PROVE  \/ mem'[p] = mem[p]
             \/ mem[p] = NoInode /\ \E i \in Counted : mem'[p] = store[i]
  BY Zenon, <1>3, <1>4 DEF Lookup
<1>5. ASSUME FillSuper
      PROVE  \/ mem'[p] = mem[p]
             \/ mem[p] = NoInode /\ \E i \in Counted : mem'[p] = store[i]
  BY Zenon, <1>3, <1>5, <1>a DEF FillSuper, Mounted
<1>6. ASSUME NEW q \in Path, DestroyInode(q) PROVE mem'[p] = mem[p]
  BY <1>6, <1>a DEF DestroyInode
<1>7. KillSuperblock => mem'[p] = mem[p]
  BY <1>a DEF KillSuperblock
<1>8. ~Crash
  BY DEF Crash
<1> QED
  BY Zenon, <1>1, <1>2, <1>4, <1>5, <1>6, <1>7, <1>8, MemSteps

-----------------------------------------------------------------------------
(***************************************************************************)
(* Sizes.  The number of children that memory has for a directory is the   *)
(* one in the store, but for the create that is about to save it.          *)
(***************************************************************************)
Ahead(p) == \E t \in Task :
    Creating(t) /\ pc[t] \in {"saveSb", "copy"} /\ Parent[path[t]] = p

Extra(p) == IF Ahead(p) THEN 1 ELSE 0

SizeInv ==
    /\ \A p \in Path, i \in Counted :
          mem[p].mode = "DIR" /\ store[i].ino = mem[p].ino =>
              mem[p].size = store[i].size + Extra(p)
    /\ \A t \in Task, i \in Counted :
          HasInode(t) /\ store[i].ino = new[t].ino => store[i].size = 0

\* At first nothing is in memory.
LEMMA InitSizeInv == Init => SizeInv
BY DEF Init, SizeInv, HasInode, Creating, NoInode

\* A directory gets ahead when create counts the new child.
LEMMA AheadBefore ==
    ASSUME BaseInv, FileInv, [Next]_vars, NEW p \in Path, Ahead(p)'
    PROVE  \/ Ahead(p)
           \/ \E t \in Task : pc[t] = "save" /\ Creating(t) /\ UpdateSize(t) /\ Saved(t) = p
<1>1. PICK t \in Task : /\ Creating(t)' /\ pc'[t] \in {"saveSb", "copy"}
                        /\ Parent[path'[t]] = p
  BY DEF Ahead
<1>2. Creating(t)
  BY <1>1, CreatingBefore
<1>3. path'[t] = path[t]
  BY Zenon, <1>1, <1>2, CreateStep
<1>4. CASE pc[t] \in {"saveSb", "copy"}
  BY <1>1, <1>2, <1>3, <1>4 DEF Ahead
<1>5. CASE pc[t] = "save" /\ UpdateSize(t)
  BY <1>1, <1>2, <1>3, <1>5 DEF Saved
<1>6. <<pc[t], pc'[t]>> \in Passes => pc[t] = "saveSb"
  BY <1>1 DEF Passes
<1> QED
  BY <1>1, <1>2, <1>4, <1>5, <1>6, CreateStep

\* It stays ahead until create has saved it.
LEMMA AheadAfter ==
    ASSUME BaseInv, FileInv, [Next]_vars, ~Crash, NEW p \in Path, Ahead(p)
    PROVE  \/ Ahead(p)'
           \/ \E t \in Task : SaveInode(t) /\ Creating(t) /\ Saved(t) = p
<1>1. PICK t \in Task : /\ Creating(t) /\ pc[t] \in {"saveSb", "copy"}
                        /\ Parent[path[t]] = p
  BY DEF Ahead
<1>2. CASE Locking(t)
  <2>1. UNCHANGED local /\ pc'[t] \in {"saveSb", "copy"}
    BY <1>1, <1>2, LockingEffect DEF FileInv, Passes
  <2> QED
    BY <1>1, <2>1 DEF local, Ahead, Creating
<1>3. CASE Proceed(t)
  <2>1. SaveInode(t)
    BY <1>1, <1>3 DEF Proceed, ObjectsCount, GetAFreeblock, AppendInode, CountInode,
       AddRecord, Leave
  <2> QED
    BY <1>1, <2>1 DEF Saved
<1>4. ~Call(t)
  BY <1>1 DEF Call, CreateCall, WriteCall
<1>5. CASE ~Locking(t) /\ ~Proceed(t)
  <2>1. pc'[t] = pc[t] /\ op'[t] = op[t] /\ path'[t] = path[t]
    BY <1>4, <1>5, OthersKeep
  <2> QED
    BY <1>1, <2>1 DEF Ahead, Creating
<1> QED
  BY <1>2, <1>3, <1>5

\* The inode that a create or a write saves is an inode of its kind.
LEMMA SavedKind ==
    ASSUME BaseInv, CallerInv, NEW t \in Task, pc[t] \in {"save", "saveSb", "copy"}
    PROVE  /\ Saved(t) \in Path /\ mem[Saved(t)] # NoInode
           /\ mem[Saved(t)].mode = IF Creating(t) THEN "DIR" ELSE "REG"
<1>1. op[t] \in {"create", "write"}
  BY TaskTypes DEF BaseInv, LockInv, OpInv
<1>2. Saved(t) \in Path
  BY PathOfCall DEF BaseInv, Saved, Creating
<1>3. mem[Saved(t)] # NoInode
  BY DEF BaseInv, BlockInv, InodeInv
<1> QED
  BY <1>1, <1>2, <1>3 DEF CallerInv, Saved, Creating

\* simplefs_inode_save leaves the other slots alone.
LEMMA SaveSlot ==
    ASSUME BaseInv, FileInv, NEW t \in Task, SaveInode(t)
    PROVE  \E k \in Counted :
              /\ Same(store[k], mem[Saved(t)]) /\ store'[k] = mem[Saved(t)]
              /\ \A i \in Counted : i # k => store'[i] = store[i]
<1>1. PICK k \in Counted : /\ Same(store[k], mem[Saved(t)])
                           /\ store' = [store EXCEPT ![k] = mem[Saved(t)]]
  BY SaveEffect
<1>2. store \in InodeStore
  BY SlotTypes DEF InodeStore
<1> QED
  BY <1>1, <1>2, CountedSlots DEF InodeStore

\* A counted slot keeps its content unless it is saved.
LEMMA SlotKept ==
    ASSUME BaseInv, [Next]_vars, ~Crash, NEW i \in Counted,
           \A t \in Task : ~SaveInode(t)
    PROVE  store'[i] = store[i]
<1>1. ASSUME NEW t \in Task, AppendInode(t) PROVE store'[i] = store[i]
  BY <1>1, CountedSlots, SlotTypes DEF AppendInode
<1> QED
  BY <1>1, StoreStep

\* A slot that is counted in this step is the one of the new inode.
LEMMA NewSlot ==
    ASSUME BaseInv, FileInv, [Next]_vars, NEW i \in Counted', i \notin Counted
    PROVE  \E t \in Task : /\ CountInode(t) /\ i = sb.inodes_count
                           /\ store' = store /\ store[i] = new[t] /\ pc[t] \in Numbered
                           /\ UNCHANGED mem /\ UNCHANGED local
<1>1. PICK t \in Task : CountInode(t) /\ sb'.inodes_count = sb.inodes_count + 1
  BY CountStep DEF Counted
<1>2. i = sb.inodes_count
  BY <1>1, CountStep DEF Counted
<1> QED
  BY <1>1, <1>2 DEF CountInode, FileInv, Numbered

\* Every step keeps the sizes in memory and in the store together.
LEMMA NextSizeInv ==
    ASSUME BaseInv, FileInv, ImageInv, CallerInv, NameInv, SizeInv, [Next]_vars
    PROVE  SizeInv'
<1>a. mem \in [Path -> Inode] /\ store \in InodeStore
  BY InodeTypes, SlotTypes DEF InodeStore
<1>1. ASSUME NEW p \in Path, NEW i \in Counted', mem'[p].mode = "DIR",
             store'[i].ino = mem'[p].ino
      PROVE  mem'[p].size = store'[i].size + Extra(p)'
  <2>a. ~Crash /\ mem'[p] # NoInode
    BY <1>1 DEF Crash, NoInode
  <2>1. i \in Counted
    <3>1. SUFFICES ASSUME i \notin Counted PROVE FALSE
      OBVIOUS
    <3>2. PICK t \in Task : /\ store' = store /\ store[i] = new[t]
                            /\ pc[t] \in Numbered /\ UNCHANGED mem
      BY <3>1, NewSlot
    <3>3. new[t].ino = sb.inodes_count + 8 /\ mem[p].ino = new[t].ino
      BY <1>1, <3>2 DEF BaseInv, CallInv
    <3>4. mem[p].ino \in Ino \ {0}
      BY <1>a, <3>3, CountStep DEF Inode
    <3>5. mem[p].ino < sb.inodes_count + 8
      BY Zenon, <3>4 DEF NameInv, Used
    <3> QED
      BY <3>3, <3>5, CountStep
  <2>2. i \in 0 .. MaxObjects /\ store[i] \in Inode /\ mem[p] \in Inode
    BY <1>a, <2>1, CountedSlots DEF InodeStore
  <2>3. ASSUME NEW t \in Task, SaveInode(t)
        PROVE  mem'[p].size = store'[i].size + Extra(p)'
    <3>1. PICK k \in Counted :
             /\ Same(store[k], mem[Saved(t)]) /\ store'[k] = mem[Saved(t)]
             /\ \A j \in Counted : j # k => store'[j] = store[j]
      BY <2>3, SaveSlot
    <3>2. /\ mem' = mem /\ pc[t] = "copy" /\ pc'[t] = "leave" /\ op'[t] = op[t]
      BY Zenon, <2>3, SaveEffect, TaskTypes DEF SaveInode, Goto, local
    <3>3. /\ Saved(t) \in Path /\ mem[Saved(t)] # NoInode
          /\ mem[Saved(t)].mode = IF Creating(t) THEN "DIR" ELSE "REG"
      BY <3>2, SavedKind
    <3>4. CASE i = k
      <4>1. p = Saved(t) /\ Creating(t)
        BY <1>1, <3>1, <3>2, <3>3, <3>4, OneInode
      <4>2. ~Ahead(p)'
        <5>1. SUFFICES ASSUME NEW u \in Task, Creating(u)', Parent[path'[u]] = p,
                              pc'[u] \in {"saveSb", "copy"}
                       PROVE  FALSE
          BY DEF Ahead
        <5>2. Creating(u) /\ path'[u] = path[u]
          BY <5>1, CreatingBefore
        <5>3. u = t
          BY <4>1, <5>1, <5>2 DEF CallerInv, Saved
        <5> QED
          BY <3>2, <5>1, <5>3
      <4> QED
        BY <2>2, <3>1, <3>2, <3>4, <4>1, <4>2 DEF Extra, Inode
    <3>5. CASE i # k
      <4>1. store'[i] = store[i]
        BY <2>1, <3>1, <3>5
      <4>2. p # Saved(t)
        <5>1. SUFFICES ASSUME p = Saved(t) PROVE FALSE
          OBVIOUS
        <5>2. store[k].ino = store[i].ino /\ store[i].ino # 0
          BY <1>1, <3>1, <3>2, <3>3, <4>1, <5>1 DEF Same, BaseInv, BlockInv, InodeInv, GoodInode
        <5> QED
          BY <3>5, <5>2, <2>2, SlotOfIno, CountedSlots
      <4>3. Ahead(p)' => Ahead(p)
        <5>1. ASSUME NEW u \in Task, pc[u] = "save", Creating(u), UpdateSize(u), Saved(u) = p
              PROVE  FALSE
          BY <2>2, <3>2, <5>1, SizeOnly DEF BaseInv, Inode
        <5> QED
          BY <5>1, AheadBefore
      <4>4. Ahead(p) => Ahead(p)'
        <5>1. ASSUME NEW u \in Task, SaveInode(u), Creating(u), Saved(u) = p PROVE FALSE
          <6>1. HoldsMgmt(u) /\ HoldsMgmt(t)
            BY <2>3, <5>1 DEF SaveInode, HoldsMgmt
          <6> QED
            BY <4>2, <5>1, <6>1 DEF BaseInv, LockInv, MgmtInv
        <5> QED
          BY <2>a, <5>1, AheadAfter
      <4>5. mem[p].size = store[i].size + Extra(p)
        BY <1>1, <2>1, <3>2, <4>1 DEF SizeInv
      <4> QED
        BY <3>2, <4>1, <4>3, <4>4, <4>5 DEF Extra
    <3> QED
      BY <3>4, <3>5
  <2>4. ASSUME \A t \in Task : ~SaveInode(t)
        PROVE  mem'[p].size = store'[i].size + Extra(p)'
    <3>1. store'[i] = store[i] /\ (Ahead(p) => Ahead(p)')
      BY Zenon, <2>a, <2>1, <2>4, SlotKept, AheadAfter
    <3>2. ASSUME NEW t \in Task, pc[t] = "save", Locking(t), UpdateSize(t), Saved(t) = p
          PROVE  mem'[p].size = store'[i].size + Extra(p)'
      <4>1. Same(mem'[p], mem[p])
        BY <3>2, SizeOnly DEF BaseInv
      <4>2. Creating(t)
        BY <1>1, <3>2, <4>1, SavedKind DEF Same
      <4>3. mem'[p].size = mem[p].size + 1
        BY <3>2, <4>2, SizeOnly DEF BaseInv
      <4>4. ~Ahead(p)
        BY <3>2, <4>2 DEF Ahead, CallerInv, Saved
      <4>5. Ahead(p)'
        <5>1. pc'[t] = "saveSb" /\ UNCHANGED local
          BY <3>2, LockingEffect DEF FileInv, Passes
        <5> QED
          BY <3>2, <4>2, <5>1 DEF Ahead, local, Creating, Saved
      <4>6. mem[p].size = store[i].size + Extra(p)
        BY <1>1, <2>1, <3>1, <4>1 DEF SizeInv, Same
      <4> QED
        BY <2>2, <3>1, <4>3, <4>4, <4>5, <4>6 DEF Extra, Inode
    <3>3. CASE mem'[p] = mem[p]
      <4>1. Ahead(p)' => Ahead(p)
        <5>1. ASSUME NEW u \in Task, pc[u] = "save", Creating(u), UpdateSize(u), Saved(u) = p
              PROVE  FALSE
          BY <2>2, <3>3, <5>1, SizeOnly DEF BaseInv, Inode
        <5> QED
          BY <5>1, AheadBefore
      <4>2. mem[p].size = store[i].size + Extra(p)
        BY <1>1, <2>1, <3>1, <3>3 DEF SizeInv
      <4> QED
        BY <3>1, <3>3, <4>1, <4>2 DEF Extra
    <3>4. ASSUME mem[p] = NoInode, mem'[p].size = store'[i].size
          PROVE  mem'[p].size = store'[i].size + Extra(p)'
      <4>1. ~Ahead(p)
        BY <3>4 DEF Ahead, CallerInv, NoInode
      <4>2. ~Ahead(p)'
        <5>1. ASSUME NEW u \in Task, pc[u] = "save", Creating(u), UpdateSize(u), Saved(u) = p
              PROVE  FALSE
          BY <3>4, <5>1, SavedKind
        <5> QED
          BY <4>1, <5>1, AheadBefore
      <4> QED
        BY <2>2, <3>1, <3>4, <4>2 DEF Extra, Inode
    <3>5. ASSUME mem[p] = NoInode, NEW j \in Counted, mem'[p] = store[j]
          PROVE  mem'[p].size = store'[i].size
      <4>1. store[j].ino = store[i].ino /\ store[j].ino # 0
        <5>1. GoodSlot(store[j], j) /\ store[j] # NoInode
          BY <2>a, <3>5, CountedSlots DEF BaseInv, BlockInv, SlotInv
        <5>2. store[j].ino = SlotIno(j)
          BY <5>1 DEF GoodSlot
        <5>3. SlotIno(j) # 0
          BY CountStep DEF SlotIno, Counted
        <5> QED
          BY <1>1, <3>1, <3>5, <5>2, <5>3
      <4>2. i = j
        BY <2>2, <4>1, SlotOfIno, CountedSlots
      <4> QED
        BY <3>1, <3>5, <4>2
    <3>6. ASSUME NEW t \in Task, Leave(t), Creating(t), mem'[p] = new[t]
          PROVE  mem'[p].size = store'[i].size
      <4>1. HasInode(t)
        BY <3>6 DEF Leave, HasInode
      <4>2. store[i].size = 0
        BY <1>1, <2>1, <3>1, <3>6, <4>1 DEF SizeInv
      <4> QED
        BY <3>1, <3>6, <4>2 DEF ImageInv
    <3> QED
      BY <2>a, <3>2, <3>3, <3>4, <3>5, <3>6, MemStep
  <2> QED
    BY <2>3, <2>4
<1>2. ASSUME NEW t \in Task, NEW i \in Counted', HasInode(t)', store'[i].ino = new'[t].ino
      PROVE  store'[i].size = 0
  <2>1. ~Crash /\ new'[t] = new[t] /\ (HasInode(t) \/ CountInode(t))
    BY <1>2, HasInodeStep DEF FileInv
  <2>2. CASE i \notin Counted
    <3>1. store' = store /\ i \in 0 .. MaxObjects
      BY <2>2, NewSlot, CountedSlots
    <3> QED
      BY <2>2, <3>1 DEF ImageInv
  <2>3. CASE i \in Counted /\ HasInode(t)
    <3>1. ASSUME NEW u \in Task, SaveInode(u) PROVE store'[i] = store[i]
      <4>1. PICK k \in Counted :
               /\ store'[k] = mem[Saved(u)]
               /\ \A j \in Counted : j # k => store'[j] = store[j]
        BY <3>1, SaveSlot
      <4>2. Saved(u) \in Path
        BY <3>1, SaveEffect
      <4> QED
        BY <1>2, <2>1, <2>3, <4>1, <4>2, NewNotInMem
    <3>2. store'[i] = store[i]
      BY <2>1, <2>3, <3>1, SlotKept
    <3> QED
      BY <1>2, <2>1, <2>3, <3>2 DEF SizeInv
  <2>4. CASE i \in Counted /\ CountInode(t)
    <3>1. /\ store' = store /\ store[sb.inodes_count] = new[t]
          /\ new[t].ino = sb.inodes_count + 8
      BY <2>4 DEF CountInode, FileInv, BaseInv, CallInv, Numbered
    <3>2. i = sb.inodes_count
      BY <1>2, <2>1, <2>4, <3>1, SlotOfIno, CountedSlots
    <3> QED
      BY <2>4, <3>2, CountedSlots
  <2> QED
    BY <2>1, <2>2, <2>3, <2>4
<1> QED
  BY <1>1, <1>2 DEF SizeInv

-----------------------------------------------------------------------------
(***************************************************************************)
(* Records.  The record of a create is written before the directory counts *)
(* it, at the place that the directory is going to count.                  *)
(***************************************************************************)
RecordInv ==
    \A t \in Task : Creating(t) =>
        LET dir == mem[Parent[path[t]]]
            r == [name |-> path[t], ino |-> new[t].ino]
        IN /\ pc[t] = "save" /\ dir.size < RecordsPerBlock =>
                  dirblk[dir.block][dir.size] = r
           /\ pc[t] \in {"saveSb", "copy"} /\ dir.size <= RecordsPerBlock =>
                  dirblk[dir.block][dir.size - 1] = r

\* At first there are no calls.
LEMMA InitRecordInv == Init => RecordInv
BY DEF Init, RecordInv, Creating

\* The directory that a create works in changes by that create alone.
LEMMA ParentKept ==
    ASSUME BaseInv, FileInv, CallerInv, [Next]_vars, NEW t \in Task,
           Creating(t), Creating(t)'
    PROVE  LET p == Parent[path[t]] IN
           /\ p \in Path /\ Same(mem'[p], mem[p]) /\ mem[p].mode = "DIR"
           /\ mem[p] \in Inode /\ mem[p].block # 0
           /\ \/ mem'[p] = mem[p]
              \/ /\ pc[t] = "save" /\ pc'[t] = "saveSb" /\ dirblk' = dirblk
                 /\ mem'[p].size = mem[p].size + 1
<1> DEFINE p == Parent[path[t]]
<1>1. pc[t] # "idle" /\ ~Crash
  BY DEF Creating, Crash, BaseInv, LockInv, OpInv
<1>2. p \in Path /\ mem[p].mode = "DIR" /\ mem[p] # NoInode /\ InUse(p)
  BY <1>1, PathOfCall DEF BaseInv, Creating, CallerInv, NoInode, InUse
<1>3. mem[p] \in Inode /\ mem[p].block # 0
  BY Zenon, <1>2, InodeTypes DEF BaseInv, BlockInv, InodeInv, GoodInode
<1>4. ASSUME NEW u \in Task, pc[u] = "save", Locking(u), UpdateSize(u), Saved(u) = p
      PROVE  /\ pc[t] = "save" /\ pc'[t] = "saveSb" /\ dirblk' = dirblk
             /\ mem'[p].size = mem[p].size + 1
  <2>1. Creating(u)
    BY Zenon, <1>2, <1>4, SavedKind
  <2>2. u = t
    BY Zenon, <1>4, <2>1 DEF CallerInv, Saved
  <2> QED
    BY Zenon, <1>2, <1>4, <2>1, <2>2, LockingEffect, SizeOnly DEF BaseInv, FileInv, image, Passes
<1>5. /\ Same(mem'[p], mem[p])
      /\ \/ mem'[p] = mem[p]
         \/ \E u \in Task : pc[u] = "save" /\ Locking(u) /\ UpdateSize(u) /\ Saved(u) = p
  BY Zenon, <1>1, <1>2, UsedKept
<1> QED
  BY Zenon, <1>2, <1>3, <1>4, <1>5

\* Every step keeps the record in its place.
LEMMA NextRecordInv ==
    ASSUME BaseInv, FileInv, CallerInv, RecordInv, [Next]_vars PROVE RecordInv'
<1> SUFFICES ASSUME NEW t \in Task, Creating(t)', pc'[t] \in {"save", "saveSb", "copy"}
             PROVE  LET dir == mem'[Parent[path'[t]]]
                        r == [name |-> path'[t], ino |-> new'[t].ino]
                    IN /\ pc'[t] = "save" /\ dir.size < RecordsPerBlock =>
                              dirblk'[dir.block][dir.size] = r
                       /\ pc'[t] \in {"saveSb", "copy"} /\ dir.size <= RecordsPerBlock =>
                              dirblk'[dir.block][dir.size - 1] = r
  BY Zenon DEF RecordInv
<1> DEFINE p == Parent[path[t]]
           r == [name |-> path[t], ino |-> new[t].ino]
<1>1. Creating(t)
  BY CreatingBefore
<1>2. path'[t] = path[t]
  BY Zenon, <1>1, CreateStep
<1>3. /\ Same(mem'[p], mem[p]) /\ mem[p] \in Inode
      /\ \/ mem'[p] = mem[p]
         \/ /\ pc[t] = "save" /\ pc'[t] = "saveSb" /\ dirblk' = dirblk
            /\ mem'[p].size = mem[p].size + 1
  BY Zenon, <1>1, ParentKept
<1>4. CASE AddRecord(t) /\ pc'[t] = "save" /\ new'[t] = new[t]
  <2>1. /\ mem' = mem
        /\ mem[p].size < RecordsPerBlock => dirblk'[mem[p].block][mem[p].size] = r
    BY Zenon, <1>4, AddEffect
  <2> QED
    BY Zenon, <1>2, <1>4, <2>1
<1>5. CASE new'[t] = new[t] /\ pc[t] \in {"save", "saveSb", "copy"}
  <2>1. dirblk' = dirblk
    <3>1. SUFFICES ASSUME NEW u \in Task, AddRecord(u) PROVE FALSE
      BY DirStep
    <3>2. HoldsChildren(u) /\ HoldsChildren(t) /\ pc[u] = "record"
      BY Zenon, <1>1, <1>5, <3>1, AddEffect DEF HoldsChildren, HasInode, Creating
    <3> QED
      BY <1>5, <3>2 DEF BaseInv, LockInv, ChildrenInv
  <2>2. /\ pc[t] = "save" /\ mem[p].size < RecordsPerBlock =>
              dirblk[mem[p].block][mem[p].size] = r
        /\ pc[t] \in {"saveSb", "copy"} /\ mem[p].size <= RecordsPerBlock =>
              dirblk[mem[p].block][mem[p].size - 1] = r
    BY Zenon, <1>1 DEF RecordInv
  <2>3. CASE /\ pc[t] = "save" /\ pc'[t] = "saveSb"
             /\ mem'[p].size = mem[p].size + 1
    <3>1. /\ mem'[p].size - 1 = mem[p].size /\ mem'[p].block = mem[p].block
          /\ mem'[p].size <= RecordsPerBlock => mem[p].size < RecordsPerBlock
      <4>1. mem[p].size \in Nat
        BY <1>3 DEF Inode
      <4>2. mem'[p].block = mem[p].block
        BY Zenon, <1>3 DEF Same
      <4> QED
        BY <2>3, <4>1, <4>2, SizeAssumption
    <3> QED
      BY Zenon, <1>2, <1>5, <2>1, <2>2, <2>3, <3>1
  <2>4. CASE mem'[p] = mem[p] /\ ((pc[t] = "save") <=> (pc'[t] = "save"))
    BY Zenon, <1>2, <1>5, <2>1, <2>2, <2>4
  <2>5. CASE pc'[t] = pc[t]
    BY Zenon, <1>3, <2>4, <2>5
  <2>6. CASE <<pc[t], pc'[t]>> \in Passes /\ UNCHANGED <<mem, cache, image>>
    BY Zenon, <1>5, <2>4, <2>6 DEF Passes
  <2>7. CASE UpdateSize(t) /\ pc[t] = "save" /\ pc'[t] = "saveSb"
    <3>1. mem'[p].size = mem[p].size + 1
      BY Zenon, <1>1, <2>7, ParentKept, SizeOnly DEF BaseInv, Saved
    <3> QED
      BY Zenon, <2>3, <2>7, <3>1
  <2>8. ~AddRecord(t)
    BY <1>5 DEF AddRecord
  <2> QED
    BY Zenon, <1>1, <2>5, <2>6, <2>7, <2>8, CreateStep
<1>6. <<pc[t], pc'[t]>> \in Passes => pc[t] = "saveSb"
  BY DEF Passes
<1> QED
  BY Zenon, <1>1, <1>4, <1>5, <1>6, CreateStep

-----------------------------------------------------------------------------
(***************************************************************************)
(* Children.  What a directory in the store counts as its children changes *)
(* in one kind of step, the simplefs_inode_save of a create; it is then on *)
(* the image, so that a crash changes nothing of it.                       *)
(***************************************************************************)
Child(i, k) == store[i].mode = "DIR" /\ k < store[i].size
RecordAt(i, k) == dirblk[store[i].block][k]

NamesInv == /\ BaseInv /\ FileInv /\ ImageInv /\ CallerInv /\ NameInv /\ SizeInv
            /\ RecordInv

\* No record that is counted is overwritten.
LEMMA RecordKept ==
    ASSUME NamesInv, [Next]_vars, NEW i \in Counted, NEW k \in Index, Child(i, k)
    PROVE  dirblk'[store[i].block][k] = dirblk[store[i].block][k]
<1> USE DEF NamesInv
<1>1. /\ i \in 0 .. MaxObjects /\ store[i] \in Inode /\ store[i].block \in Block
      /\ store[i].size \in Nat /\ k \in Nat
  BY CountedSlots, SlotTypes, SizeAssumption DEF Index
<1>a. ASSUME NEW t \in Task, AddRecord(t), NEW b \in Block
      PROVE  \/ dirblk'[b][k] = dirblk[b][k]
             \/ b = mem[Parent[path[t]]].block /\ k = mem[Parent[path[t]]].size
  BY ZenonT(30), <1>a, AddEffect
<1>2. SUFFICES ASSUME NEW t \in Task, AddRecord(t),
                      store[i].block = mem[Parent[path[t]]].block,
                      k = mem[Parent[path[t]]].size
               PROVE  FALSE
  BY Zenon, <1>1, <1>a, DirStep
<1> DEFINE p == Parent[path[t]]
<1>3. Creating(t) /\ p \in Path /\ mem[p].mode = "DIR"
  BY Zenon, <1>2, AddEffect, PathOfCall DEF BaseInv, HasInode, Creating, CallerInv
<1>4. mem[p].block # 0
  BY <1>3 DEF BaseInv, BlockInv, InodeInv, GoodInode, NoInode
<1>5. store[i].ino = mem[p].ino
  <2>1. store[i] \in AllInodes /\ mem[p] \in AllInodes
    BY Zenon, <1>1, <1>3 DEF AllInodes
  <2> QED
    BY Zenon, <1>2, <1>4, <2>1 DEF BaseInv, BlockInv, OwnerInv
<1>6. mem[p].size = store[i].size + Extra(p)
  BY Zenon, <1>3, <1>5 DEF SizeInv
<1> QED
  BY <1>1, <1>2, <1>6 DEF Extra, Child

\* What simplefs_inode_save of a create does to the directory.
LEMMA SaveChild ==
    ASSUME NamesInv, [Next]_vars, ~Crash, NEW t \in Task, SaveInode(t),
           NEW i \in Counted, store[i].mode = "DIR", store'[i] # store[i]
    PROVE  /\ Creating(t) /\ HasInode(t) /\ store'[i] = mem[Parent[path[t]]]
           /\ Parent[path[t]] \in Path
           /\ store[i].ino = mem[Parent[path[t]]].ino
           /\ store'[i].size = store[i].size + 1 /\ store[i].size \in Nat
           /\ dirblk' = dirblk
           /\ store[i].size < RecordsPerBlock =>
                 dirblk'[store'[i].block][store[i].size]
                    = [name |-> path[t], ino |-> new[t].ino]
<1> USE DEF NamesInv
<1>1. PICK k \in Counted :
         /\ Same(store[k], mem[Saved(t)]) /\ store'[k] = mem[Saved(t)]
         /\ \A j \in Counted : j # k => store'[j] = store[j]
  BY Zenon, SaveSlot
<1>2. k = i
  BY <1>1
<1>3. pc[t] = "copy" /\ dirblk' = dirblk /\ store[i].size \in Nat
  BY SlotTypes DEF SaveInode
<1>4. /\ Saved(t) \in Path /\ mem[Saved(t)] # NoInode
      /\ mem[Saved(t)].mode = IF Creating(t) THEN "DIR" ELSE "REG"
  BY <1>3, SavedKind
<1>5. Creating(t) /\ HasInode(t) /\ Saved(t) = Parent[path[t]]
  BY Zenon, <1>1, <1>2, <1>3, <1>4 DEF Same, HasInode, Saved
<1>6. Extra(Saved(t)) = 1
  BY Zenon, <1>3, <1>5 DEF Extra, Ahead
<1>7. mem[Saved(t)].size = store[i].size + 1
  BY Zenon, <1>1, <1>2, <1>4, <1>5, <1>6 DEF SizeInv, Same
<1>8. ASSUME store[i].size < RecordsPerBlock
      PROVE  dirblk'[store'[i].block][store[i].size]
                = [name |-> path[t], ino |-> new[t].ino]
  <2>1. mem[Saved(t)].size <= RecordsPerBlock /\ mem[Saved(t)].size - 1 = store[i].size
    BY <1>3, <1>7, <1>8, SizeAssumption
  <2>2. dirblk[mem[Saved(t)].block][mem[Saved(t)].size - 1]
           = [name |-> path[t], ino |-> new[t].ino]
    BY Zenon, <1>3, <1>5, <2>1 DEF RecordInv
  <2> QED
    BY Zenon, <1>1, <1>2, <1>3, <2>1, <2>2
<1> QED
  BY Zenon, <1>1, <1>2, <1>3, <1>4, <1>5, <1>7, <1>8 DEF Same

\* A crash finds a directory with children on the image as it is in the store.
LEMMA CrashSlot ==
    ASSUME NamesInv, Crash, NEW i \in Counted
    PROVE  /\ Counted' = Counted /\ dirblk' = dirblk
           /\ store'[i] = storeDisk[i] /\ storeDisk'[i] = storeDisk[i]
           /\ \A k \in Index : Child(i, k) \/ Child(i, k)' => storeDisk[i] = store[i]
<1> USE DEF NamesInv
<1>1. /\ Counted' = Counted /\ dirblk' = dirblk
      /\ store'[i] = storeDisk[i] /\ storeDisk'[i] = storeDisk[i]
  BY DEF Crash, Counted, BaseInv, CallInv, image
<1>2. ASSUME NEW k \in Index, store[i].size = 0, storeDisk[i].size = 0
      PROVE  ~Child(i, k) /\ ~Child(i, k)'
  BY <1>1, <1>2, SizeAssumption DEF Child, Index
<1>3. ~Differs(store[i], storeDisk[i])
  BY CountedSlots DEF ImageInv
<1> QED
  BY <1>1, <1>2, <1>3 DEF Differs

\* A child stays a child.
LEMMA ChildKept ==
    ASSUME NamesInv, [Next]_vars, NEW i \in Counted, NEW k \in Index, Child(i, k)
    PROVE  /\ i \in Counted' /\ Child(i, k)' /\ store'[i].ino = store[i].ino
           /\ RecordAt(i, k)' = RecordAt(i, k)
<1> USE DEF NamesInv
<1>1. CASE Crash
  BY <1>1, CrashSlot DEF Child, RecordAt
<1>2. CASE ~Crash
  <2>1. i \in Counted' /\ Same(store'[i], store[i])
    BY <1>2, SlotsKept
  <2>2. dirblk'[store[i].block][k] = dirblk[store[i].block][k]
    BY RecordKept
  <2>3. k < store'[i].size
    <3>1. CASE store'[i] = store[i]
      BY <3>1 DEF Child
    <3>2. CASE store'[i] # store[i]
      <4>1. PICK t \in Task : SaveInode(t)
        BY <1>2, <3>2, SlotKept
      <4>2. store'[i].size = store[i].size + 1 /\ store[i].size \in Nat
        BY Zenon, <1>2, <3>2, <4>1, SaveChild DEF Child
      <4> QED
        BY <4>2, SizeAssumption DEF Child, Index
    <3> QED
      BY <3>1, <3>2
  <2> QED
    BY <2>1, <2>2, <2>3 DEF Child, RecordAt, Same
<1> QED
  BY <1>1, <1>2

\* A child that is new is the one that a create counts in this step.
LEMMA ChildStep ==
    ASSUME NamesInv, [Next]_vars, NEW i \in Counted', NEW k \in Index, Child(i, k)'
    PROVE  /\ i \in Counted /\ store'[i].ino = store[i].ino
           /\ \/ Child(i, k) /\ RecordAt(i, k)' = RecordAt(i, k)
              \/ /\ store[i].mode = "DIR" /\ k = store[i].size /\ ~Crash
                 /\ \E t \in Task :
                       /\ SaveInode(t) /\ Creating(t) /\ HasInode(t)
                       /\ Parent[path[t]] \in Path
                       /\ store[i].ino = mem[Parent[path[t]]].ino
                       /\ RecordAt(i, k)' = [name |-> path[t], ino |-> new[t].ino]
<1> USE DEF NamesInv
<1>1. CASE Crash
  <2>1. i \in Counted
    BY <1>1 DEF Crash, Counted, BaseInv, CallInv
  <2> QED
    BY <1>1, <2>1, CrashSlot DEF Child, RecordAt
<1>2. CASE ~Crash
  <2>1. i \in Counted
    <3>1. SUFFICES ASSUME i \notin Counted PROVE FALSE
      OBVIOUS
    <3>2. store' = store /\ i \in 0 .. MaxObjects
      BY <3>1, NewSlot, CountedSlots
    <3>3. store'[i].size = 0
      BY <3>1, <3>2 DEF ImageInv
    <3> QED
      BY <3>3, SizeAssumption DEF Child, Index
  <2>2. Same(store'[i], store[i])
    BY <1>2, <2>1, SlotsKept
  <2>3. CASE k < store[i].size
    <3>1. Child(i, k)
      BY <2>2, <2>3 DEF Child, Same
    <3> QED
      BY Zenon, <2>1, <2>2, <3>1, ChildKept DEF Same
  <2>4. CASE ~(k < store[i].size)
    <3>1. store'[i] # store[i] /\ store[i].mode = "DIR"
      BY <2>2, <2>4 DEF Child, Same
    <3>2. PICK t \in Task : SaveInode(t)
      BY Zenon, <1>2, <2>1, <3>1, SlotKept
    <3>3. /\ Creating(t) /\ HasInode(t) /\ Parent[path[t]] \in Path
          /\ store[i].ino = mem[Parent[path[t]]].ino
          /\ store[i].size < RecordsPerBlock =>
                dirblk'[store'[i].block][store[i].size]
                   = [name |-> path[t], ino |-> new[t].ino]
      BY <1>2, <2>1, <3>1, <3>2, SaveChild
    <3>a. store'[i].size = store[i].size + 1 /\ store[i].size \in Nat
      BY Zenon, <1>2, <2>1, <3>1, <3>2, SaveChild
    <3>b. k \in Nat /\ k < RecordsPerBlock /\ k < store'[i].size
      BY SizeAssumption DEF Child, Index
    <3>4. k = store[i].size /\ store[i].size < RecordsPerBlock
      BY <2>4, <3>a, <3>b
    <3>5. RecordAt(i, k)' = [name |-> path[t], ino |-> new[t].ino]
      BY Zenon, <3>3, <3>4 DEF RecordAt
    <3> QED
      BY Zenon, <1>2, <2>1, <2>2, <3>1, <3>2, <3>3, <3>4, <3>5 DEF Same
  <2> QED
    BY Zenon, <2>3, <2>4
<1> QED
  BY Zenon, <1>1, <1>2

\* An inode of the kind that record r promises is in the store and on the
\* image.
Backed(r) ==
    /\ r.ino # 0
    /\ \E j \in Counted : /\ store[j].ino = r.ino /\ storeDisk[j] = store[j]
                          /\ (store[j].mode = "DIR") <=> (r.name \in Dirs)

BackInv == \A i \in Counted, k \in Index : Child(i, k) => Backed(RecordAt(i, k))

\* The welcome file is on the image of mkfs-simplefs.
LEMMA InitBackInv == Init => BackInv
<1> SUFFICES ASSUME Init, NEW i \in Counted, NEW k \in Index, Child(i, k)
             PROVE  Backed(RecordAt(i, k))
  BY DEF BackInv
<1>1. Counted = 0 .. 1 /\ store = mkfsStore /\ storeDisk = mkfsStore /\ dirblk = mkfsDirent
  BY DEF Init, mkfsSuperblock, Counted
<1>2. i = 0 /\ k = 0
  BY <1>1, Constants DEF Child, mkfsStore, Index
<1>3. RecordAt(0, 0) = [name |-> Welcome, ino |-> 2]
  BY <1>1, <1>2, Constants DEF RecordAt, mkfsStore, mkfsDirent, Block, Index,
     ROOTDIR_DATABLOCK_NUMBER, WELCOMEFILE_INODE_NUMBER
<1>4. store[1].ino = 2 /\ store[1].mode = "REG" /\ storeDisk[1] = store[1]
  BY <1>1, Constants DEF mkfsStore, WELCOMEFILE_INODE_NUMBER
<1> QED
  BY <1>1, <1>2, <1>3, <1>4, TreeAssumption DEF Backed

\* The inode that a record names stays, on the image too.
LEMMA BackedKept ==
    ASSUME NamesInv, [Next]_vars, NEW r, Backed(r) PROVE
        /\ r.ino # 0
        /\ \E j \in Counted' : /\ store'[j].ino = r.ino /\ storeDisk'[j] = store'[j]
                               /\ (store'[j].mode = "DIR") <=> (r.name \in Dirs)
<1> USE DEF NamesInv
<1>1. PICK j \in Counted : /\ store[j].ino = r.ino /\ storeDisk[j] = store[j]
                           /\ (store[j].mode = "DIR") <=> (r.name \in Dirs)
  BY DEF Backed
<1>2. CASE Crash
  BY <1>1, <1>2, CrashSlot DEF Backed
<1>3. CASE ~Crash
  <2>1. j \in Counted' /\ Same(store'[j], store[j])
    BY <1>3, SlotsKept
  <2>2. storeDisk'[j] = store'[j]
    <3>1. CASE \E t \in Task : SaveInode(t)
      BY <3>1, SaveEffect
    <3>2. CASE \A t \in Task : ~SaveInode(t)
      BY <1>1, <1>3, <3>2, SlotKept, ImageSteps
    <3> QED
      BY <3>1, <3>2
  <2> QED
    BY <1>1, <2>1, <2>2 DEF Same, Backed
<1> QED
  BY <1>2, <1>3

\* A record is counted only when the inode that it names is on the image.
LEMMA NextBackInv ==
    ASSUME NamesInv, BackInv, [Next]_vars PROVE BackInv'
<1> USE DEF NamesInv
<1> SUFFICES ASSUME NEW i \in Counted', NEW k \in Index, Child(i, k)'
             PROVE  Backed(RecordAt(i, k))'
  BY DEF BackInv
<1>1. CASE i \in Counted /\ Child(i, k) /\ RecordAt(i, k)' = RecordAt(i, k)
  <2>1. Backed(RecordAt(i, k))
    BY <1>1 DEF BackInv
  <2> QED
    BY Zenon, <1>1, <2>1, BackedKept DEF Backed
<1>2. ASSUME ~Crash, NEW t \in Task, SaveInode(t), HasInode(t),
             RecordAt(i, k)' = [name |-> path[t], ino |-> new[t].ino]
      PROVE  Backed(RecordAt(i, k))'
  <2>1. new[t].ino # 0 /\ new[t].mode = Kind(path[t])
    BY Zenon, <1>2 DEF HasInode, CallerInv, BaseInv, BlockInv, InodeInv, GoodInode
  <2>2. PICK j \in Counted : Same(store[j], new[t])
    BY <1>2 DEF FileInv, StoredIn
  <2>3. j \in Counted' /\ Same(store'[j], store[j]) /\ storeDisk' = store'
    BY Zenon, <1>2, SlotsKept, SaveEffect
  <2>4. store'[j].ino = new[t].ino /\ ((store'[j].mode = "DIR") <=> (path[t] \in Dirs))
    BY Zenon, <2>1, <2>2, <2>3 DEF Same, Kind
  <2>5. RecordAt(i, k)'.ino = new[t].ino /\ RecordAt(i, k)'.name = path[t]
    BY <1>2, RecordFields
  <2>6. storeDisk'[j] = store'[j]
    BY <2>3
  <2> QED
    BY Zenon, <2>1, <2>3, <2>4, <2>5, <2>6 DEF Backed
<1> QED
  BY Zenon, <1>1, <1>2, ChildStep

\* All of it holds in every reachable state, as long as no signal comes.
LEMMA NamesKept ==
    ASSUME MaxSignals = 0 PROVE Spec => [](NamesInv /\ BackInv)
<1>1. Init => ImageInv /\ CallerInv /\ NameInv /\ SizeInv /\ RecordInv /\ BackInv
  BY InitImageInv, InitCallerInv, InitNameInv, InitSizeInv, InitRecordInv, InitBackInv
<1>2. /\ BaseInv /\ FileInv /\ ImageInv /\ CallerInv /\ NameInv /\ SizeInv
      /\ RecordInv /\ BackInv /\ [Next]_vars
      => (ImageInv /\ CallerInv /\ NameInv /\ SizeInv /\ RecordInv /\ BackInv)'
  BY NextImageInv, NextCallerInv, NextNameInv, NextSizeInv, NextRecordInv, NextBackInv
     DEF NamesInv
<1>3. BaseInv /\ FileInv /\ ImageInv /\ CallerInv /\ NameInv /\ SizeInv /\ RecordInv
         <=> NamesInv
  BY DEF NamesInv
<1>4. Spec => [](BaseInv /\ FileInv)
  BY FilesStored
<1> QED
  BY <1>1, <1>2, <1>3, <1>4, PTL DEF Spec

\* A record that a directory on the image counts as a child names an inode
\* of the image of the right kind, at every moment and so after every crash:
\* the order in which create writes free map, inode store, record and parent
\* is right for any number of tasks, files, records per block and crashes.
THEOREM RecordsNeverDangle ==
    ASSUME MaxSignals = 0 PROVE Spec => []RecordsNameInodes
<1>1. NamesInv /\ BackInv => RecordsNameInodes
  <2> SUFFICES ASSUME NamesInv, BackInv, NEW dir \in OnDisk, dir.mode = "DIR",
                      NEW r \in Listed(dir)
               PROVE  \E n \in OnDisk :
                         n.ino = r.ino /\ ((n.mode = "DIR") <=> (r.name \in Dirs))
    BY DEF RecordsNameInodes
  <2> USE DEF NamesInv
  <2>1. PICK i \in Counted : dir = storeDisk[i]
    BY DEF OnDisk, Counted, BaseInv, CallInv
  <2>2. PICK k \in Index : k < dir.size /\ r = dirblk[dir.block][k]
    BY DEF Listed, Index
  <2>3. store[i] = storeDisk[i]
    BY <2>1, <2>2, CountedSlots, SizeAssumption DEF ImageInv, Differs, Index
  <2>4. Backed(r)
    BY <2>1, <2>2, <2>3 DEF BackInv, Child, RecordAt
  <2>5. PICK j \in Counted : /\ store[j].ino = r.ino /\ storeDisk[j] = store[j]
                             /\ (store[j].mode = "DIR") <=> (r.name \in Dirs)
    BY <2>4 DEF Backed
  <2>6. storeDisk[j] \in OnDisk
    BY <2>4, <2>5 DEF Backed, OnDisk, Counted, NoInode, BaseInv, CallInv
  <2> QED
    BY <2>5, <2>6
<1> QED
  BY <1>1, NamesKept, PTL

=============================================================================
