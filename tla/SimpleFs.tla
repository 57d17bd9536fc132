------------------------------ MODULE SimpleFs ------------------------------
(***************************************************************************)
(* simplefs (io/simplefs/simple.c) on an image made by mkfs-simplefs.c:    *)
(* create, mkdir, lookup, the size update of write, mount, umount, and a   *)
(* machine that may crash between any two steps.                           *)
(*                                                                         *)
(* The buffer cache (sb, store, dirblk) is kept apart from the image       *)
(* (sbDisk, storeDisk, dirblk): sync_dirty_buffer copies a block at once,  *)
(* a buffer that is only marked dirty reaches the image when the kernel    *)
(* chooses.  A block is written whole or not at all.  Directory blocks are *)
(* always synced by the call that changes them, so one variable holds both *)
(* copies.  A call is a walk of the task's pc; a step ends where the code  *)
(* takes or drops a mutex or makes a block durable.  Files are paths of a  *)
(* fixed tree; what they contain is left out, how long they are is not.    *)
(***************************************************************************)
EXTENDS Integers

CONSTANTS
    Task,
    Path, Root, Welcome,    \* paths; mkfs makes these two
    Parent,                 \* the directory of every path but Root
    Dirs,                   \* paths made by mkdir, the others by create
    NoPath,
    MaxObjects,     \* SIMPLEFS_MAX_FILESYSTEM_OBJECTS_SUPPORTED
    IntBits,        \* width of the int that "1 << i" is computed in
    ShiftMasks,     \* a shift count of IntBits or more wraps (x86), or the
                    \* result is 0 (ARM); undefined in C
    RecordsPerBlock,    \* dir records that fit a block
    MaxSize,        \* bound on the file sizes written
    MaxSignals, MaxCrashes  \* bounds on the faults of one behaviour

START_INO == 10
RESERVED_INODES == 3
ROOTDIR_INODE_NUMBER == 1
ROOTDIR_DATABLOCK_NUMBER == 2
WELCOMEFILE_INODE_NUMBER == 2
WELCOMEFILE_DATABLOCK_NUMBER == 3

Block == 0 .. MaxObjects - 1
Ino == 0 .. MaxObjects + START_INO - RESERVED_INODES
Lock == {"children", "mgmt", "sb"}

Inode == [ino : Ino, mode : {"NONE", "DIR", "REG"}, block : Block, size : Nat]
Record == [name : Path \cup {NoPath}, ino : Ino]

\* Bytes never written are zero: README makes the image from /dev/zero.
NoInode == [ino |-> 0, mode |-> "NONE", block |-> 0, size |-> 0]
NoRecord == [name |-> NoPath, ino |-> 0]

ASSUME TreeAssumption ==
    /\ {Root, Welcome} \subseteq Path /\ Dirs \subseteq Path /\ NoPath \notin Path
    /\ Root \in Dirs /\ Welcome \notin Dirs /\ Root # Welcome
    /\ Parent \in [Path \ {Root} -> Dirs] /\ Parent[Welcome] = Root
ASSUME SizeAssumption ==
    /\ IntBits \in Nat /\ MaxObjects \in Nat /\ IntBits > 4
    /\ MaxObjects >= IntBits /\ RecordsPerBlock \in Nat \ {0}
    /\ ShiftMasks \in BOOLEAN
    /\ MaxSize \in Nat /\ MaxSignals \in Nat /\ MaxCrashes \in Nat

VARIABLES
    sb, sbDisk,         \* [inodes_count, free_blocks]: the set of 1 bits
    store, storeDisk,   \* the slots of the inode store
    dirblk,             \* dirblk[b][k]: record k of directory block b
    mem,        \* mem[p]: the simplefs_inode of p's VFS inode, or NoInode
    mutex,      \* the count of each mutex, 1 when free
    pending,    \* tasks with a pending signal
    pc, op, path,       \* where a task is, in which call, on which path
    new,        \* sfs_inode in create
    ppos,       \* *ppos in write
    acked,      \* paths whose create or mkdir has returned 0
    signals, crashes    \* number of faults so far

cache == <<sb, store>>
image == <<sbDisk, storeDisk, dirblk>>
local == <<op, path, new, ppos>>
faults == <<signals, crashes>>
vars == <<cache, image, mem, mutex, pending, pc, local, acked, faults>>

-----------------------------------------------------------------------------
\* The bits of the uint64_t that (uint64_t)(1 << i) has set.  Bit
\* IntBits - 1 is the sign: converting it to 64 bits sets all above it too.
Mask(i) ==
    LET b == i % IntBits IN
    CASE i >= IntBits /\ ~ShiftMasks -> {}
      [] b = IntBits - 1 -> b .. MaxObjects - 1
      [] OTHER -> {b}

\* Slip: "<=" in the loop condition.
FreeBlocksPastEnd(bits) ==
    {i \in RESERVED_INODES .. MaxObjects : Mask(i) \cap bits # {}}

\* Slip: the loop starts one block late.
FreeBlocksLate(bits) ==
    {i \in WELCOMEFILE_DATABLOCK_NUMBER + 2 .. MaxObjects - 1 :
        Mask(i) \cap bits # {}}

\* The blocks 3 .. MaxObjects - 1 that the scan takes for free.
FreeBlocks(bits) ==
    {i \in RESERVED_INODES .. MaxObjects - 1 : Mask(i) \cap bits # {}}

mkfsStore == [i \in 0 .. MaxObjects |->
    CASE i = 0 -> [ino |-> ROOTDIR_INODE_NUMBER, mode |-> "DIR",
                   block |-> ROOTDIR_DATABLOCK_NUMBER, size |-> 1]
      [] i = 1 -> [ino |-> WELCOMEFILE_INODE_NUMBER, mode |-> "REG",
                   block |-> WELCOMEFILE_DATABLOCK_NUMBER, size |-> 1]
      [] OTHER -> NoInode]

mkfsSuperblock ==
    [inodes_count |-> 2,
     free_blocks |-> Block \ Mask(WELCOMEFILE_DATABLOCK_NUMBER)]

mkfsDirent == [b \in Block |-> [k \in 0 .. RecordsPerBlock - 1 |->
    IF b = ROOTDIR_DATABLOCK_NUMBER /\ k = 0
    THEN [name |-> Welcome, ino |-> WELCOMEFILE_INODE_NUMBER]
    ELSE NoRecord]]

\* Where a scan that goes up stops: the least element of S, if there is one.
First(S) == {i \in S : \A j \in S : i <= j}

\* simplefs_get_inode: looks at the slots below inodes_count, takes no lock.
GetInode(ino) ==
    LET found == {i \in 0 .. sb.inodes_count - 1 : store[i].ino = ino} IN
    IF found = {} THEN {NoInode} ELSE {store[i] : i \in First(found)}

\* simplefs_inode_search: also looks at the slot after the last one.
InodeSearch(ino) == {i \in 0 .. sb.inodes_count : store[i].ino = ino}

\* Slip: the loop ends one record early.
ListedButLast(d) ==
    {dirblk[d.block][k] : k \in {k \in 0 .. RecordsPerBlock - 1 : k + 1 < d.size}}

\* The records of directory d that iterate and lookup see, d in memory.
Listed(d) ==
    {dirblk[d.block][k] : k \in {k \in 0 .. RecordsPerBlock - 1 : k < d.size}}

Mounted == mem[Root] # NoInode
Creating(t) == op[t] = "create"

\* The VFS holds the directory's i_mutex around create, mkdir and lookup.
IMutexFree(d) == \A t \in Task : ~(Creating(t) /\ Parent[path[t]] = d)

Init ==
    /\ sb = mkfsSuperblock /\ sbDisk = mkfsSuperblock
    /\ store = mkfsStore /\ storeDisk = mkfsStore
    /\ dirblk = mkfsDirent
    /\ mem = [p \in Path |-> NoInode]
    /\ mutex = [l \in Lock |-> 1]
    /\ pending = {}
    /\ pc = [t \in Task |-> "idle"]
    /\ op = [t \in Task |-> "none"]
    /\ path = [t \in Task |-> NoPath]
    /\ new = [t \in Task |-> NoInode]
    /\ ppos = [t \in Task |-> 0]
    /\ acked = {}
    /\ signals = 0 /\ crashes = 0

-----------------------------------------------------------------------------
\* mutex_lock_interruptible gets the mutex, or fails when it would have to
\* wait and a signal is pending.  A count that an unlock too many has made
\* 2 lets two tasks in.
Acquire(l) == mutex[l] > 0 /\ mutex' = [mutex EXCEPT ![l] = @ - 1]
Interrupted(t, l) == mutex[l] = 0 /\ t \in pending
Unlock(ls) == mutex' = [l \in Lock |-> mutex[l] + IF l \in ls THEN 1 ELSE 0]

Goto(t, label) == pc' = [pc EXCEPT ![t] = label]

Return(t) ==
    /\ Goto(t, "idle")
    /\ pending' = pending \ {t}
    /\ op' = [op EXCEPT ![t] = "none"]
    /\ path' = [path EXCEPT ![t] = NoPath]
    /\ new' = [new EXCEPT ![t] = NoInode]
    /\ ppos' = [ppos EXCEPT ![t] = 0]

\* sync_dirty_buffer on the super block.
SbSync == sbDisk' = sb'

-----------------------------------------------------------------------------
\* open(O_CREAT) or mkdir of a path whose lookup found nothing.
CreateCall(t, p) ==
    /\ pc[t] = "idle" /\ p \in Path \ {Root}
    /\ mem[p] = NoInode /\ mem[Parent[p]].mode = "DIR"
    /\ IMutexFree(Parent[p])
    /\ \A r \in Listed(mem[Parent[p]]) : r.name # p
    /\ op' = [op EXCEPT ![t] = "create"]
    /\ path' = [path EXCEPT ![t] = p]
    /\ Goto(t, "children")
    /\ UNCHANGED <<cache, image, mem, mutex, pending, new, ppos, acked, faults>>

LockChildren(t) ==
    /\ pc[t] = "children"
    /\ \/ Acquire("children") /\ Goto(t, "count")
          /\ UNCHANGED <<pending, local>>
       \/ Interrupted(t, "children") /\ Return(t) /\ UNCHANGED mutex
    /\ UNCHANGED <<cache, image, mem, acked, faults>>

\* simplefs_sb_get_objects_count
LockCount(t) ==
    /\ pc[t] = "count"
    /\ \/ Acquire("mgmt") /\ Goto(t, "objects") /\ UNCHANGED <<pending, local>>
       \/ Interrupted(t, "mgmt") /\ Return(t) /\ Unlock({"children"})
    /\ UNCHANGED <<cache, image, mem, acked, faults>>

NewInode(p, count) ==
    [ino |-> count + START_INO - RESERVED_INODES + 1,
     mode |-> IF p \in Dirs THEN "DIR" ELSE "REG", block |-> 0, size |-> 0]

ObjectsCount(t) ==
    /\ pc[t] = "objects"
    /\ IF sb.inodes_count >= MaxObjects
       THEN Return(t) /\ Unlock({"children", "mgmt"})
       ELSE /\ new' = [new EXCEPT ![t] = NewInode(path[t], sb.inodes_count)]
            /\ Goto(t, "free") /\ Unlock({"mgmt"})
            /\ UNCHANGED <<pending, op, path, ppos>>
    /\ UNCHANGED <<cache, image, mem, acked, faults>>

\* simplefs_sb_get_a_freeblock; its error path unlocks a mutex not taken.
LockFree(t) ==
    /\ pc[t] = "free"
    /\ \/ Acquire("sb") /\ Goto(t, "freeblock") /\ UNCHANGED <<pending, local>>
       \/ Interrupted(t, "sb") /\ Return(t) /\ Unlock({"sb", "children"})
    /\ UNCHANGED <<cache, image, mem, acked, faults>>

\* Slip: 1ULL << i here, 1 << i in the scan.
TakeBlockWide(i) == sb' = [sb EXCEPT !.free_blocks = @ \ {i}]

TakeBlock(i) == sb' = [sb EXCEPT !.free_blocks = @ \ Mask(i)]

GetAFreeblock(t) ==
    /\ pc[t] = "freeblock"
    /\ LET free == FreeBlocks(sb.free_blocks) IN
       \/ /\ free = {}
          /\ Return(t) /\ Unlock({"sb", "children"})
          /\ UNCHANGED <<sb, sbDisk>>
       \/ /\ \E i \in First(free) :
                TakeBlock(i) /\ new' = [new EXCEPT ![t].block = i]
          /\ SbSync
          /\ Goto(t, "add") /\ Unlock({"sb"})
          /\ UNCHANGED <<pending, op, path, ppos>>
    /\ UNCHANGED <<store, storeDisk, dirblk, mem, acked, faults>>

\* Slip: simplefs_inode_add relies on simplefs_sb_lock alone.
LockAddNone(t) ==
    /\ pc[t] = "add" /\ Goto(t, "addSb")
    /\ UNCHANGED <<cache, image, mem, mutex, pending, local, acked, faults>>

\* simplefs_inode_add returns nothing: when a lock fails, create goes on
\* without the inode, and in the second case with the mgmt lock still held.
LockAdd(t) ==
    /\ pc[t] = "add"
    /\ \/ Acquire("mgmt") /\ Goto(t, "addSb")
       \/ Interrupted(t, "mgmt") /\ Goto(t, "record") /\ UNCHANGED mutex
    /\ UNCHANGED <<cache, image, mem, pending, local, acked, faults>>

LockAddSb(t) ==
    /\ pc[t] = "addSb"
    /\ IF Interrupted(t, "sb")
       THEN Goto(t, "record") /\ UNCHANGED mutex
       ELSE Acquire("sb") /\ Goto(t, "append")
    /\ UNCHANGED <<cache, image, mem, pending, local, acked, faults>>

\* The new slot is in the buffer cache before inodes_count covers it.
AppendInode(t) ==
    /\ pc[t] = "append"
    /\ store' = [store EXCEPT ![sb.inodes_count] = new[t]]
    /\ Goto(t, "inodes")
    /\ UNCHANGED <<sb, image, mem, mutex, pending, local, acked, faults>>

\* Slip: simplefs_sb_sync is left to a later writeback.
CountInodeUnsynced(t) ==
    /\ pc[t] = "inodes"
    /\ sb' = [sb EXCEPT !.inodes_count = @ + 1]
    /\ Goto(t, "record") /\ Unlock({"sb", "mgmt"})
    /\ UNCHANGED <<store, image, mem, pending, local, acked, faults>>

CountInode(t) ==
    /\ pc[t] = "inodes"
    /\ sb' = [sb EXCEPT !.inodes_count = @ + 1]
    /\ SbSync
    /\ Goto(t, "record") /\ Unlock({"sb", "mgmt"})
    /\ UNCHANGED <<store, storeDisk, dirblk, mem, pending, local, acked, faults>>

\* The record goes after the last child.  What falls outside the block is
\* not part of the image.
AddRecord(t) ==
    /\ pc[t] = "record"
    /\ LET dir == mem[Parent[path[t]]]
           record == [name |-> path[t], ino |-> new[t].ino]
       IN dirblk' = IF dir.size < RecordsPerBlock
                    THEN [dirblk EXCEPT ![dir.block][dir.size] = record]
                    ELSE dirblk
    /\ Goto(t, "save")
    /\ UNCHANGED <<cache, sbDisk, storeDisk, mem, mutex, pending, local,
                   acked, faults>>

-----------------------------------------------------------------------------
\* write puts the data into the file's block, syncs it, moves *ppos and then
\* stores *ppos as the file's size.
WriteCall(t, p, n) ==
    /\ pc[t] = "idle" /\ mem[p].mode = "REG"
    /\ op' = [op EXCEPT ![t] = "write"]
    /\ path' = [path EXCEPT ![t] = p]
    /\ ppos' = [ppos EXCEPT ![t] = n]
    /\ Goto(t, "save")
    /\ UNCHANGED <<cache, image, mem, mutex, pending, new, acked, faults>>

\* The inode that the call changes and saves, the lock that create holds.
Saved(t) == IF Creating(t) THEN Parent[path[t]] ELSE path[t]
Held(t) == IF Creating(t) THEN {"children"} ELSE {}

UpdateSize(t) ==
    mem' = [mem EXCEPT ![Saved(t)].size =
               IF Creating(t) THEN @ + 1 ELSE ppos[t]]

\* Slip: create tries the lock and starts over from the record when it is
\* taken.
LockSaveRetries(t) ==
    /\ pc[t] = "save"
    /\ \/ Acquire("mgmt") /\ UpdateSize(t) /\ Goto(t, "saveSb")
       \/ mutex["mgmt"] = 0 /\ Creating(t) /\ Goto(t, "record")
          /\ UNCHANGED <<mutex, mem>>
    /\ UNCHANGED <<cache, image, pending, local, acked, faults>>

LockSave(t) ==
    /\ pc[t] = "save"
    /\ \/ Acquire("mgmt") /\ UpdateSize(t) /\ Goto(t, "saveSb")
          /\ UNCHANGED <<pending, local>>
       \/ Interrupted(t, "mgmt") /\ Return(t) /\ Unlock(Held(t))
          /\ UNCHANGED mem
    /\ UNCHANGED <<cache, image, acked, faults>>

\* Slip: the error path of simplefs_write returns at once.
LockSaveSbKeeps(t) ==
    /\ pc[t] = "saveSb"
    /\ \/ Acquire("sb") /\ Goto(t, "copy") /\ UNCHANGED <<pending, local>>
       \/ Interrupted(t, "sb") /\ Return(t) /\ Unlock(Held(t))
    /\ UNCHANGED <<cache, image, mem, acked, faults>>

\* simplefs_inode_save; the count in memory stays changed when it fails.
LockSaveSb(t) ==
    /\ pc[t] = "saveSb"
    /\ \/ Acquire("sb") /\ Goto(t, "copy") /\ UNCHANGED <<pending, local>>
       \/ Interrupted(t, "sb") /\ Return(t) /\ Unlock(Held(t) \cup {"mgmt"})
    /\ UNCHANGED <<cache, image, mem, acked, faults>>

\* Slip: mark_buffer_dirty without sync_dirty_buffer.
SaveInodeUnsynced(t) ==
    /\ pc[t] = "copy"
    /\ \E i \in First(InodeSearch(mem[Saved(t)].ino)) :
          store' = [store EXCEPT ![i] = mem[Saved(t)]]
    /\ Goto(t, "leave") /\ Unlock({"sb"})
    /\ UNCHANGED <<sb, image, mem, pending, local, acked, faults>>

SaveInode(t) ==
    /\ pc[t] = "copy"
    /\ LET slots == InodeSearch(mem[Saved(t)].ino) IN
       \/ /\ \E i \in First(slots) :
                store' = [store EXCEPT ![i] = mem[Saved(t)]]
          /\ storeDisk' = store'
          /\ Goto(t, "leave") /\ Unlock({"sb"})
          /\ UNCHANGED <<pending, local>>
       \/ /\ slots = {}
          /\ Return(t) /\ Unlock(Held(t) \cup {"mgmt", "sb"})
          /\ UNCHANGED <<store, storeDisk>>
    /\ UNCHANGED <<sb, sbDisk, dirblk, mem, acked, faults>>

\* Success: the mutexes are dropped, create enters the inode (d_add).
Leave(t) ==
    /\ pc[t] = "leave"
    /\ Return(t) /\ Unlock(Held(t) \cup {"mgmt"})
    /\ \/ /\ Creating(t)
          /\ mem' = [mem EXCEPT ![path[t]] = new[t]]
          /\ acked' = acked \cup {path[t]}
       \/ ~Creating(t) /\ UNCHANGED <<mem, acked>>
    /\ UNCHANGED <<cache, image, faults>>

-----------------------------------------------------------------------------
\* simplefs_lookup: the first record with the name.  When the record's inode
\* is not in the store the code dereferences NULL; here nothing is found.
Lookup(p) ==
    /\ p \in Path \ {Root}
    /\ mem[p] = NoInode /\ mem[Parent[p]].mode = "DIR"
    /\ IMutexFree(Parent[p])
    /\ LET dir == mem[Parent[p]]
           match == {k \in 0 .. RecordsPerBlock - 1 :
                        k < dir.size /\ dirblk[dir.block][k].name = p}
       IN \E k \in First(match) : \E n \in GetInode(dirblk[dir.block][k].ino) :
             mem' = [mem EXCEPT ![p] = n]
    /\ UNCHANGED <<cache, image, mutex, pending, pc, local, acked, faults>>

\* No open file, no cached child and no call in progress needs p's inode.
InUse(p) ==
    \/ \E t \in Task : path[t] = p \/ (Creating(t) /\ Parent[path[t]] = p)
    \/ \E c \in Path \ {Root} : Parent[c] = p /\ mem[c] # NoInode

DestroyInode(p) ==
    /\ p # Root /\ mem[p] # NoInode /\ ~InUse(p)
    /\ mem' = [mem EXCEPT ![p] = NoInode]
    /\ UNCHANGED <<cache, image, mutex, pending, pc, local, acked, faults>>

FillSuper ==
    /\ ~Mounted
    /\ \E n \in GetInode(ROOTDIR_INODE_NUMBER) : mem' = [mem EXCEPT ![Root] = n]
    /\ UNCHANGED <<cache, image, mutex, pending, pc, local, acked, faults>>

\* umount of an idle file system; kill_block_super writes what is dirty.
KillSuperblock ==
    /\ Mounted /\ ~InUse(Root)
    /\ mem' = [mem EXCEPT ![Root] = NoInode]
    /\ storeDisk' = store
    /\ UNCHANGED <<cache, sbDisk, dirblk, mutex, pending, pc, local, acked,
                   faults>>

\* The kernel writes a dirty inode store back.
Writeback ==
    /\ storeDisk # store
    /\ storeDisk' = store
    /\ UNCHANGED <<cache, sbDisk, dirblk, mem, mutex, pending, pc, local,
                   acked, faults>>

Signal(t) ==
    /\ pc[t] # "idle" /\ t \notin pending /\ signals < MaxSignals
    /\ pending' = pending \cup {t} /\ signals' = signals + 1
    /\ UNCHANGED <<cache, image, mem, mutex, pc, local, acked, crashes>>

\* Power fails: the image is what is left.
Crash ==
    /\ Mounted /\ crashes < MaxCrashes
    /\ crashes' = crashes + 1
    /\ sb' = sbDisk /\ store' = storeDisk
    /\ mem' = [p \in Path |-> NoInode]
    /\ mutex' = [l \in Lock |-> 1]
    /\ pending' = {}
    /\ pc' = [t \in Task |-> "idle"]
    /\ op' = [t \in Task |-> "none"]
    /\ path' = [t \in Task |-> NoPath]
    /\ new' = [t \in Task |-> NoInode]
    /\ ppos' = [t \in Task |-> 0]
    /\ UNCHANGED <<image, acked, signals>>

\* A call in progress runs to its next step.
Proceed(t) ==
    \/ ObjectsCount(t) \/ GetAFreeblock(t) \/ AppendInode(t) \/ CountInode(t)
    \/ AddRecord(t) \/ SaveInode(t) \/ Leave(t)

Locking(t) ==
    \/ LockChildren(t) \/ LockCount(t) \/ LockFree(t) \/ LockAdd(t)
    \/ LockAddSb(t) \/ LockSave(t) \/ LockSaveSb(t)

Call(t) ==
    \E p \in Path : CreateCall(t, p) \/ \E n \in 1 .. MaxSize : WriteCall(t, p, n)

Next ==
    \/ \E t \in Task : Call(t) \/ Proceed(t) \/ Locking(t) \/ Signal(t)
    \/ \E p \in Path : Lookup(p) \/ DestroyInode(p)
    \/ FillSuper \/ KillSuperblock \/ Writeback \/ Crash

Spec == Init /\ [][Next]_vars

\* A task in a call is scheduled again and again; a mutex hands itself to
\* its waiters in the order they came.
FairSpec ==
    Spec /\ \A t \in Task : WF_vars(Proceed(t)) /\ SF_vars(Locking(t))

-----------------------------------------------------------------------------
PC == {"idle", "children", "count", "objects", "free", "freeblock", "add",
       "addSb", "append", "inodes", "record", "save", "saveSb", "copy",
       "leave"}

Superblock == [inodes_count : 0 .. MaxObjects, free_blocks : SUBSET Block]
InodeStore == [0 .. MaxObjects -> Inode]

\* Every variable has its type.  inodes_count never passes
\* MaxObjects, so the append of simplefs_inode_add stays in its block.
TypeOK ==
    /\ sb \in Superblock /\ sbDisk \in Superblock
    /\ store \in InodeStore /\ storeDisk \in InodeStore
    /\ dirblk \in [Block -> [0 .. RecordsPerBlock - 1 -> Record]]
    /\ mem \in [Path -> Inode]
    /\ mutex \in [Lock -> Nat]
    /\ pending \subseteq Task
    /\ pc \in [Task -> PC]
    /\ op \in [Task -> {"none", "create", "write"}]
    /\ path \in [Task -> Path \cup {NoPath}]
    /\ new \in [Task -> Inode]
    /\ ppos \in [Task -> Nat]
    /\ acked \subseteq Path
    /\ signals \in Nat /\ crashes \in Nat

\* The inodes that the image holds, as a mount would find them.
OnDisk == {storeDisk[i] : i \in 0 .. sbDisk.inodes_count - 1} \ {NoInode}

\* The order in which create updates the image (free map, inode store, parent)
\* keeps it consistent at every moment, so also after a crash: a record that
\* a directory inode on the image counts as its child names an inode of the
\* image of the right kind.  simplefs_lookup dereferences what it finds.
RecordsNameInodes ==
    \A dir \in OnDisk : dir.mode = "DIR" => \A r \in Listed(dir) :
        \E n \in OnDisk :
            n.ino = r.ino /\ (n.mode = "DIR" <=> r.name \in Dirs)

\* No two inodes of the image share a number or a data block, and the scan
\* of simplefs_sb_get_a_freeblock hands out no block an inode owns,
\* whatever was lost in crashes and however "1 << i" is compiled.
BlocksOwnedOnce ==
    /\ \A i, j \in 0 .. sbDisk.inodes_count - 1 :
          i # j /\ storeDisk[i] # NoInode /\ storeDisk[j] # NoInode =>
              /\ storeDisk[i].ino # storeDisk[j].ino
              /\ storeDisk[i].block # storeDisk[j].block
    /\ \A n \in OnDisk : n.block \notin FreeBlocks(sbDisk.free_blocks)

\* free_blocks and inodes_count, and the inode store, each have at most one
\* task in the middle of an update, even when an interrupted call has
\* unlocked simplefs_sb_lock under its holder: the other two mutexes cover.
UpdatesExclusive ==
    \A t, u \in Task : t # u =>
        /\ ~({pc[t], pc[u]} \subseteq {"freeblock", "inodes"})
        /\ ~({pc[t], pc[u]} \subseteq {"append", "inodes", "copy"})

\* The comment on simplefs_sb_lock: every critical section on the super
\* block, simplefs_inode_save included, runs alone.
SbLockExclusive ==
    \A t, u \in Task : t # u =>
        ~({pc[t], pc[u]} \subseteq {"freeblock", "append", "inodes", "copy"})

\* When no call is in progress no mutex is held.
LocksReturned == (\A t \in Task : pc[t] = "idle") => \A l \in Lock : mutex[l] > 0

\* simplefs_create_fs_object writes the record behind the last one without a
\* look at the size of the block: the place is inside it, as long as no path
\* gets a second record and no directory has more paths than places.
RecordsInBlock ==
    \A t \in Task : pc[t] = "record" =>
        mem[Parent[path[t]]].size < RecordsPerBlock

\* simplefs_sb_get_a_freeblock reports that there is no free block only when
\* every block was given to somebody (as long as no call was interrupted and
\* nothing crashed: the block of an abandoned create stays marked as used).
NoSpaceMeansFull ==
    FreeBlocks(sb.free_blocks) = {} =>
        RESERVED_INODES .. MaxObjects - 1 \subseteq
            {n.block : n \in OnDisk \cup {new[t] : t \in Task}}

\* The paths that some directory on the image lists and has an inode for.
Visible(p) ==
    \/ p = Root
    \/ \E dir, n \in OnDisk :
          dir.mode = "DIR" /\ [name |-> p, ino |-> n.ino] \in Listed(dir)

Names == INSTANCE NameTree WITH tree <- {p \in Path : Visible(p)}

\* What is visible in the image implements NameTree: one create adds one
\* path below an existing directory, nothing that was created is lost in a
\* crash or at umount, and a create that returned 0 is among it.
IsNameTree == Names!Spec

\* Every call returns: the three mutexes are always taken in the order
\* children, mgmt, sb, and all are released on the way out.
CallsReturn == \A t \in Task : pc[t] # "idle" ~> pc[t] = "idle"

=============================================================================
