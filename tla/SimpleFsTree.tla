---------------------------- MODULE SimpleFsTree -----------------------------
(***************************************************************************)
(* The names of SimpleFs form a tree that implements NameTree, as long as  *)
(* no signal interrupts a call and the directories fit their blocks, for   *)
(* any number of tasks, paths and crashes.                                 *)
(***************************************************************************)
EXTENDS SimpleFsNames

(***************************************************************************)
(* The tree.  As long as the records of a directory fit its block, every   *)
(* child has one parent and one record, what is in memory is in the tree,  *)
(* and a create adds its path in the step that saves the parent.           *)
(***************************************************************************)
\* Path p is in the tree, with the inode number n.
Named(p, n) ==
    \/ p = Root /\ n = ROOTDIR_INODE_NUMBER
    \/ \E i \in Counted, k \in Index :
          Child(i, k) /\ RecordAt(i, k) = [name |-> p, ino |-> n]

TreeInv ==
    /\ \A p \in Path : mem[p] # NoInode => Named(p, mem[p].ino)
    /\ \A p \in Path, m, n \in Ino : Named(p, m) /\ Named(p, n) => m = n
    /\ \A i \in Counted, k \in Index : Child(i, k) =>
          LET p == RecordAt(i, k).name IN
          /\ p \in Path \ {Root} /\ Named(Parent[p], store[i].ino)
          /\ \A l \in Index : l < k => RecordAt(i, l).name # p
    /\ \A t \in Task : Creating(t) /\ pc[t] # "leave" =>
          \A n \in Ino : ~Named(path[t], n)
    /\ \A t \in Task : Creating(t) /\ pc[t] = "leave" => Named(path[t], new[t].ino)

FitInv == \A i \in Counted : store[i].mode = "DIR" => store[i].size <= RecordsPerBlock

\* A directory's block has room for a record of every path in it: there are
\* no RecordsPerBlock + 1 different paths with the same parent.
Children(d) == {p \in Path \ {Root} : Parent[p] = d}
DirectoriesFit == \A d \in Dirs : \A f \in [0 .. RecordsPerBlock -> Children(d)] :
    \E k, l \in 0 .. RecordsPerBlock : k # l /\ f[k] = f[l]

\* mkfs-simplefs makes a tree of the root directory and the welcome file.
LEMMA InitChildren ==
    ASSUME Init
    PROVE  /\ Counted = 0 .. 1 /\ store[0].ino = 1 /\ store[0].mode = "DIR"
           /\ store[0].size = 1 /\ store[1].mode = "REG" /\ 0 \in Index
           /\ RecordAt(0, 0) = [name |-> Welcome, ino |-> 2]
           /\ \A i \in Counted, k \in Index : Child(i, k) <=> i = 0 /\ k = 0
<1>1. Counted = 0 .. 1 /\ store = mkfsStore /\ dirblk = mkfsDirent /\ 0 \in Index
  BY Constants, SizeAssumption DEF Init, mkfsSuperblock, Counted, Index
<1>2. /\ store[0].ino = 1 /\ store[0].mode = "DIR"
      /\ store[0].size = 1 /\ store[1].mode = "REG" /\ store[0].block = 2
  BY <1>1, Constants DEF mkfsStore, ROOTDIR_INODE_NUMBER, ROOTDIR_DATABLOCK_NUMBER
<1>3. RecordAt(0, 0) = [name |-> Welcome, ino |-> 2]
  BY <1>1, <1>2, Constants DEF RecordAt, mkfsDirent, Block, Index,
     ROOTDIR_DATABLOCK_NUMBER, WELCOMEFILE_INODE_NUMBER
<1>4. \A i \in Counted, k \in Index : Child(i, k) <=> i = 0 /\ k = 0
  BY <1>1, <1>2, SizeAssumption DEF Child, Index
<1> QED
  BY <1>1, <1>2, <1>3, <1>4

\* So it is a tree at first.
LEMMA InitTreeInv == Init => TreeInv /\ FitInv
<1> SUFFICES ASSUME Init PROVE TreeInv /\ FitInv
  OBVIOUS
<1>1. \A p, n : Named(p, n) <=> (p = Root /\ n = 1) \/ (p = Welcome /\ n = 2)
  <2>1. \A p, n : RecordAt(0, 0) = [name |-> p, ino |-> n] <=> p = Welcome /\ n = 2
    BY InitChildren
  <2> QED
    BY <2>1, InitChildren DEF Named, ROOTDIR_INODE_NUMBER
<1>2. FitInv
  BY InitChildren, SizeAssumption DEF FitInv
<1>3. ASSUME NEW i \in Counted, NEW k \in Index, Child(i, k)
      PROVE  LET p == RecordAt(i, k).name IN
             /\ p \in Path \ {Root} /\ Named(Parent[p], store[i].ino)
             /\ \A l \in Index : l < k => RecordAt(i, l).name # p
  <2>1. i = 0 /\ k = 0 /\ RecordAt(i, k).name = Welcome
    BY <1>3, InitChildren
  <2>2. \A l \in Index : ~(l < k)
    BY <2>1 DEF Index
  <2> QED
    BY <1>1, <2>1, <2>2, InitChildren, TreeAssumption
<1>4. /\ \A p \in Path : mem[p] = NoInode
      /\ \A t \in Task : ~Creating(t)
  BY DEF Init, Creating
<1>5. \A p \in Path, m, n \in Ino : Named(p, m) /\ Named(p, n) => m = n
  BY <1>1, TreeAssumption
<1> QED
  BY <1>2, <1>3, <1>4, <1>5 DEF TreeInv

\* A path stays in the tree with its number.
LEMMA NamedKept ==
    ASSUME NamesInv, [Next]_vars, NEW p, NEW n, Named(p, n) PROVE Named(p, n)'
<1>1. ASSUME NEW i \in Counted, NEW k \in Index, Child(i, k),
             RecordAt(i, k) = [name |-> p, ino |-> n]
      PROVE  Named(p, n)'
  <2>1. i \in Counted' /\ Child(i, k)' /\ RecordAt(i, k)' = RecordAt(i, k)
    BY <1>1, ChildKept
  <2> QED
    BY Zenon, <1>1, <2>1 DEF Named
<1> QED
  BY Zenon, <1>1 DEF Named

\* A path that is new in the tree is the one of a create that saves its parent.
LEMMA NamedBefore ==
    ASSUME NamesInv, [Next]_vars, NEW p, NEW n, Named(p, n)'
    PROVE  \/ Named(p, n)
           \/ \E t \in Task : /\ SaveInode(t) /\ Creating(t) /\ HasInode(t) /\ ~Crash
                              /\ p = path[t] /\ n = new[t].ino
<1>1. ASSUME NEW i \in Counted', NEW k \in Index, Child(i, k)',
             RecordAt(i, k)' = [name |-> p, ino |-> n]
      PROVE  \/ Named(p, n)
             \/ \E t \in Task : /\ SaveInode(t) /\ Creating(t) /\ HasInode(t) /\ ~Crash
                                /\ p = path[t] /\ n = new[t].ino
  <2>1. CASE i \in Counted /\ Child(i, k) /\ RecordAt(i, k)' = RecordAt(i, k)
    BY Zenon, <1>1, <2>1 DEF Named
  <2>2. ASSUME NEW t \in Task, SaveInode(t), Creating(t), HasInode(t), ~Crash,
               RecordAt(i, k)' = [name |-> path[t], ino |-> new[t].ino]
        PROVE  p = path[t] /\ n = new[t].ino
    BY <1>1, <2>2
  <2>3. \/ i \in Counted /\ Child(i, k) /\ RecordAt(i, k)' = RecordAt(i, k)
        \/ \E t \in Task : /\ SaveInode(t) /\ Creating(t) /\ HasInode(t) /\ ~Crash
                           /\ RecordAt(i, k)' = [name |-> path[t], ino |-> new[t].ino]
    BY <1>1, ChildStep
  <2> QED
    BY Zenon, <2>1, <2>2, <2>3
<1> QED
  BY Zenon, <1>1 DEF Named

\* The slot of a directory that is in memory, and what its block lists.
LEMMA DirSlot ==
    ASSUME NamesInv, NEW d \in Path, mem[d].mode = "DIR"
    PROVE  \E i \in Counted :
              /\ Same(store[i], mem[d]) /\ store[i].mode = "DIR"
              /\ mem[d].size = store[i].size + Extra(d) /\ store[i].size \in Nat
              /\ \A j \in Counted : store[j].ino = mem[d].ino => j = i
<1> USE DEF NamesInv
<1>1. mem[d] # NoInode
  BY DEF NoInode
<1>2. PICK i \in Counted : Same(store[i], mem[d])
  BY <1>1 DEF FileInv, StoredIn
<1>3. mem[d].size = store[i].size + Extra(d)
  BY <1>2 DEF SizeInv, Same
<1>4. store[i].ino # 0 /\ store[i].size \in Nat
  BY <1>1, <1>2, SlotTypes DEF BaseInv, BlockInv, InodeInv,
     GoodInode, Same
<1>5. ASSUME NEW j \in Counted, store[j].ino = mem[d].ino PROVE j = i
  BY <1>2, <1>4, <1>5, SlotOfIno, CountedSlots DEF Same
<1> QED
  BY <1>2, <1>3, <1>4, <1>5 DEF Same

\* What a counted record is.
LEMMA RecordType ==
    ASSUME NamesInv, NEW i \in Counted, NEW k \in Index
    PROVE  LET r == RecordAt(i, k) IN
           /\ store[i].block \in Block
           /\ r.name \in Path \cup {NoPath} /\ r.ino \in Ino
           /\ r = [name |-> r.name, ino |-> r.ino]
<1>1. store[i].block \in Block
  BY SlotTypes DEF NamesInv
<1>2. RecordAt(i, k) \in Record
  BY Zenon, <1>1, DirTypes DEF NamesInv, RecordAt, Index
<1> QED
  BY <1>1, <1>2 DEF Record

\* A path in the tree goes by its number.
LEMMA NamedUsed ==
    ASSUME NamesInv, NEW p, NEW n, Named(p, n) PROVE Used(p, n)
<1>1. ASSUME NEW i \in Counted, NEW k \in Index,
             RecordAt(i, k) = [name |-> p, ino |-> n]
      PROVE  Used(p, n)
  <2>1. store[i].block \in Block
    BY RecordType
  <2> QED
    BY Zenon, <1>1, <2>1 DEF Used, RecordAt
<1> QED
  BY Zenon, <1>1 DEF Named, Used

\* What the directory in memory does not list is not in the tree.
LEMMA NotListed ==
    ASSUME NamesInv, TreeInv, NEW p \in Path \ {Root}, mem[Parent[p]].mode = "DIR",
           \A r \in Listed(mem[Parent[p]]) : r.name # p, NEW n \in Ino
    PROVE  ~Named(p, n)
<1> DEFINE d == Parent[p]
<1> USE DEF NamesInv
<1>1. SUFFICES ASSUME NEW i \in Counted, NEW k \in Index, Child(i, k),
                      RecordAt(i, k) = [name |-> p, ino |-> n]
               PROVE  FALSE
  BY Zenon DEF Named
<1>2. d \in Path /\ mem[d] # NoInode /\ mem[d] \in Inode
  BY TreeAssumption, InodeTypes DEF NoInode
<1>3. RecordAt(i, k).name = p
  BY <1>1
<1>4. Named(d, store[i].ino)
  BY <1>1, <1>3 DEF TreeInv
<1>5. Named(d, mem[d].ino)
  BY <1>2 DEF TreeInv
<1>6. store[i].ino \in Ino /\ mem[d].ino \in Ino
  BY <1>2, SlotTypes, InodeTypes
<1>7. store[i].ino = mem[d].ino
  BY <1>2, <1>4, <1>5, <1>6 DEF TreeInv
<1>8. Same(store[i], mem[d]) /\ mem[d].size = store[i].size + Extra(d) /\ store[i].size \in Nat
  BY <1>2, <1>7, DirSlot
<1>9. k < mem[d].size /\ k \in 0 .. RecordsPerBlock - 1
  BY <1>1, <1>8, SizeAssumption DEF Child, Extra, Index
<1>10. RecordAt(i, k) \in Listed(mem[d])
  BY <1>8, <1>9 DEF Listed, RecordAt, Same
<1> QED
  BY <1>3, <1>10

\* A create works below a directory of the tree.
LEMMA ParentNamed ==
    ASSUME NamesInv, TreeInv, NEW t \in Task, Creating(t)
    PROVE  LET d == Parent[path[t]] IN
           /\ path[t] \in Path \ {Root} /\ d \in Path /\ d \in Dirs
           /\ mem[d].mode = "DIR" /\ Named(d, mem[d].ino)
<1> USE DEF NamesInv
<1> DEFINE d == Parent[path[t]]
<1>1. pc[t] # "idle" /\ op[t] = "create"
  BY DEF BaseInv, LockInv, OpInv, Creating
<1>2. path[t] \in Path \ {Root}
  BY <1>1 DEF BaseInv, CallInv
<1>3. d \in Path /\ d \in Dirs
  BY <1>2, TreeAssumption
<1>4. mem[d].mode = "DIR"
  BY DEF CallerInv
<1>5. mem[d] # NoInode
  BY <1>4 DEF NoInode
<1>6. Named(d, mem[d].ino)
  BY <1>3, <1>5 DEF TreeInv
<1> QED
  BY <1>2, <1>3, <1>4, <1>6

\* As long as a create has not finished, its directory has room for a child.
LEMMA RoomLeft ==
    ASSUME DirectoriesFit, NamesInv, TreeInv, FitInv,
           NEW t \in Task, Creating(t), pc[t] # "leave",
           NEW i \in Counted, store[i].ino = mem[Parent[path[t]]].ino
    PROVE  store[i].size < RecordsPerBlock
<1>0. store[i].size \in Nat
  BY SlotTypes DEF NamesInv
<1> SUFFICES ASSUME store[i].size >= RecordsPerBlock PROVE FALSE
  BY <1>0, SizeAssumption
<1> DEFINE d == Parent[path[t]]
           s == RecordsPerBlock
           f == [k \in 0 .. s |-> IF k = s THEN path[t] ELSE RecordAt(i, k).name]
<1> USE DEF NamesInv
<1>1. path[t] \in Path \ {Root} /\ d \in Path /\ d \in Dirs /\ mem[d].mode = "DIR"
  BY ParentNamed
<1>2. mem[d] # NoInode
  BY <1>1 DEF NoInode
<1>3. store[i].mode = "DIR" /\ store[i].size \in Nat /\ s \in Nat
  BY <1>1, DirSlot, SizeAssumption
<1>4. store[i].size = s
  BY <1>3 DEF FitInv
<1>5. ASSUME NEW k \in 0 .. s - 1
      PROVE  /\ k \in Index /\ Child(i, k)
             /\ RecordAt(i, k).name \in Children(d) \ {path[t]}
  <2>1. k \in Index /\ Child(i, k)
    BY <1>3, <1>4, SizeAssumption DEF Index, Child
  <2> DEFINE q == RecordAt(i, k).name
  <2>2. q \in Path \ {Root} /\ Named(Parent[q], store[i].ino)
    BY <2>1 DEF TreeInv
  <2>3. Named(d, store[i].ino)
    BY ParentNamed
  <2>4. Used(Parent[q], store[i].ino) /\ Used(d, store[i].ino) /\ Parent[q] \in Path
    BY <2>2, <2>3, NamedUsed, TreeAssumption
  <2>5. store[i].ino \in Ino \ {0}
    BY <1>1, <1>2, InodeTypes DEF BaseInv, BlockInv, InodeInv, GoodInode
  <2>6. Parent[q] = d
    BY <1>1, <2>4, <2>5 DEF NameInv
  <2>7. q # path[t]
    <3>1. RecordAt(i, k) = [name |-> q, ino |-> RecordAt(i, k).ino] /\ RecordAt(i, k).ino \in Ino
      BY <2>1, RecordType
    <3>2. Named(q, RecordAt(i, k).ino)
      BY Zenon, <2>1, <3>1 DEF Named
    <3> QED
      BY <3>1, <3>2 DEF TreeInv
  <2> QED
    BY <2>1, <2>2, <2>6, <2>7 DEF Children
<1>6. ASSUME NEW k \in 0 .. s - 1, NEW l \in 0 .. s - 1, l < k
      PROVE  RecordAt(i, l).name # RecordAt(i, k).name
  BY <1>5, <1>6 DEF TreeInv
<1>7. \A k \in 0 .. s : f[k] = IF k = s THEN path[t] ELSE RecordAt(i, k).name
  OBVIOUS
<1>8. f \in [0 .. s -> Children(d)]
  <2>1. path[t] \in Children(d)
    BY <1>1 DEF Children
  <2>2. \A k \in 0 .. s : k # s => k \in 0 .. s - 1
    BY <1>3
  <2> QED
    BY <1>5, <2>1, <2>2
<1> HIDE DEF f
<1>9. ASSUME NEW k \in 0 .. s, NEW l \in 0 .. s, l < k PROVE f[k] # f[l]
  <2>1. l \in 0 .. s - 1 /\ f[l] = RecordAt(i, l).name
    BY <1>3, <1>7, <1>9
  <2>2. CASE k = s
    BY <1>5, <1>7, <2>1, <2>2
  <2>3. CASE k # s
    <3>1. k \in 0 .. s - 1 /\ f[k] = RecordAt(i, k).name
      BY <1>3, <1>7, <2>3
    <3> QED
      BY <1>6, <1>9, <2>1, <3>1
  <2> QED
    BY <2>2, <2>3
<1> QED
  BY <1>1, <1>3, <1>8, <1>9 DEF DirectoriesFit

\* When create saves the parent its path is in the tree.
LEMMA SaveNames ==
    ASSUME DirectoriesFit, NamesInv, TreeInv, FitInv, [Next]_vars, ~Crash,
           NEW t \in Task, SaveInode(t), Creating(t),
           NEW p, NEW n, p = path[t], n = new[t].ino
    PROVE  Named(p, n)'
<1> USE DEF NamesInv
<1>1. pc[t] = "copy"
  BY DEF SaveInode
<1>2. PICK k \in Counted : Same(store[k], mem[Saved(t)]) /\ store'[k] = mem[Saved(t)]
  BY SaveSlot
<1>3. Saved(t) \in Path /\ mem[Saved(t)].mode = "DIR" /\ Saved(t) = Parent[path[t]]
  BY <1>1, SavedKind DEF Saved
<1>4. Extra(Saved(t)) = 1
  BY <1>1, <1>3 DEF Extra, Ahead
<1>5. mem[Saved(t)].size = store[k].size + 1 /\ store[k].size \in Nat
  BY <1>2, <1>3, <1>4, SlotTypes DEF SizeInv, Same
<1>6. store'[k] # store[k] /\ store[k].mode = "DIR"
  BY <1>2, <1>3, <1>5 DEF Same
<1>7. store[k].size < RecordsPerBlock
  BY <1>1, <1>2, <1>3, RoomLeft DEF Same
<1> DEFINE s == store[k].size
<1>8. dirblk'[store'[k].block][s] = [name |-> p, ino |-> n]
  BY <1>6, <1>7, SaveChild
<1>9. \E m \in Index : m = s
  BY <1>5, <1>7, SizeAssumption DEF Index
<1>10. PICK m \in Index : m = s
  BY <1>9
<1>11. k \in Counted' /\ Child(k, m)'
  BY <1>2, <1>3, <1>5, <1>10, SlotsKept DEF Child
<1>12. RecordAt(k, m)' = [name |-> p, ino |-> n]
  BY <1>8, <1>10 DEF RecordAt
<1> QED
  BY Zenon, <1>11, <1>12 DEF Named

\* The directories go on fitting their blocks.
LEMMA NextFitInv ==
    ASSUME DirectoriesFit, NamesInv, TreeInv, FitInv, [Next]_vars PROVE FitInv'
<1> USE DEF NamesInv
<1> SUFFICES ASSUME NEW i \in Counted', store'[i].mode = "DIR"
             PROVE  store'[i].size <= RecordsPerBlock
  BY DEF FitInv
<1>1. CASE Crash
  <2>1. i \in Counted
    BY <1>1 DEF Crash, Counted, BaseInv, CallInv
  <2>2. store'[i] = storeDisk[i] /\ ~Differs(store[i], storeDisk[i])
    BY <1>1, <2>1, CrashSlot, CountedSlots DEF ImageInv
  <2> QED
    BY <2>1, <2>2, SizeAssumption DEF FitInv, Differs
<1>2. CASE ~Crash /\ i \notin Counted
  <2>1. store' = store /\ i \in 0 .. MaxObjects
    BY <1>2, NewSlot, CountedSlots
  <2> QED
    BY <1>2, <2>1, SizeAssumption DEF ImageInv
<1>3. CASE ~Crash /\ i \in Counted
  <2>1. store[i].mode = "DIR"
    BY <1>3, SlotsKept DEF Same
  <2>2. CASE store'[i] = store[i]
    BY <1>3, <2>1, <2>2 DEF FitInv
  <2>3. CASE store'[i] # store[i]
    <3>1. PICK t \in Task : SaveInode(t)
      BY <1>3, <2>3, SlotKept
    <3>2. /\ Creating(t) /\ store[i].ino = mem[Parent[path[t]]].ino
          /\ store'[i].size = store[i].size + 1 /\ store[i].size \in Nat
      BY Zenon, <1>3, <2>1, <2>3, <3>1, SaveChild
    <3>3. store[i].size < RecordsPerBlock
      BY <1>3, <3>1, <3>2, RoomLeft DEF SaveInode
    <3> QED
      BY <3>2, <3>3, SizeAssumption
  <2> QED
    BY <2>2, <2>3
<1> QED
  BY <1>1, <1>2, <1>3

\* What is in memory stays in the tree: simplefs_lookup finds it there.
LEMMA MemNamed ==
    ASSUME NamesInv, TreeInv, [Next]_vars, NEW p \in Path, mem'[p] # NoInode,
           NEW n, n = mem'[p].ino
    PROVE  Named(p, n)'
<1> USE DEF NamesInv
<1>a. mem \in [Path -> Inode] /\ Root \in Path
  BY Constants, InodeTypes
<1>1. SUFFICES Named(p, n)
  BY NamedKept
<1>2. CASE mem'[p].ino = mem[p].ino
  <2>1. mem[p] # NoInode
    <3>1. BaseInv'
      BY NextBaseInv
    <3>2. GoodInode(mem'[p])
      BY <3>1 DEF BaseInv, BlockInv, InodeInv
    <3> QED
      BY <1>2, <3>2 DEF GoodInode, NoInode
  <2> QED
    BY <1>2, <2>1 DEF TreeInv
<1>3. ASSUME NEW t \in Task, UpdateSize(t) PROVE Named(p, n)
  BY <1>2, <1>3, SizeOnly DEF BaseInv, Same
<1>4. ASSUME NEW t \in Task, Leave(t) PROVE Named(p, n)
  <2>1. mem'[p] = mem[p] \/ (Creating(t) /\ p = path[t] /\ mem'[p] = new[t])
    BY <1>4, <1>a DEF Leave
  <2>2. CASE Creating(t) /\ p = path[t] /\ mem'[p] = new[t]
    BY <1>4, <2>2 DEF Leave, TreeInv
  <2> QED
    BY <1>2, <2>1, <2>2
<1>5. ASSUME NEW q \in Path, Lookup(q) PROVE Named(p, n)
  <2> DEFINE d == Parent[q]
             match == {k \in Index : k < mem[d].size /\ dirblk[mem[d].block][k].name = q}
  <2>1. PICK k \in First(match) : \E m \in GetInode(dirblk[mem[d].block][k].ino) :
           mem' = [mem EXCEPT ![q] = m]
    BY Zenon, <1>5 DEF Lookup, Index
  <2>2. PICK m \in GetInode(dirblk[mem[d].block][k].ino) : mem' = [mem EXCEPT ![q] = m]
    BY Zenon, <2>1
  <2>3. CASE p # q
    BY <1>2, <1>a, <2>2, <2>3
  <2>4. CASE p = q
    <3>1. m.ino = dirblk[mem[d].block][k].ino /\ mem'[p] = m
      BY <1>a, <2>2, <2>4, GetInodeStored
    <3>2. k \in Index /\ k < mem[d].size /\ dirblk[mem[d].block][k].name = q
      BY DEF First
    <3>3. d \in Path /\ mem[d].mode = "DIR" /\ ~Ahead(d)
      BY Zenon, <1>5, TreeAssumption DEF Lookup, IMutexFree, Ahead
    <3>4. PICK i \in Counted : /\ Same(store[i], mem[d]) /\ store[i].mode = "DIR"
                               /\ mem[d].size = store[i].size + Extra(d)
                               /\ store[i].size \in Nat
      BY <3>3, DirSlot
    <3>5. Child(i, k)
      BY <3>2, <3>3, <3>4 DEF Child, Extra
    <3>6. RecordAt(i, k).name = p /\ RecordAt(i, k).ino = n
      BY Zenon, <2>4, <3>1, <3>2, <3>4 DEF RecordAt, Same
    <3>7. RecordAt(i, k) = [name |-> p, ino |-> n]
      BY <3>2, <3>6, RecordType
    <3> QED
      BY Zenon, <3>2, <3>5, <3>7 DEF Named
  <2> QED
    BY <2>3, <2>4
<1>6. ASSUME FillSuper PROVE Named(p, n)
  <2>1. PICK m \in GetInode(ROOTDIR_INODE_NUMBER) : mem' = [mem EXCEPT ![Root] = m]
    BY Zenon, <1>6 DEF FillSuper
  <2>2. CASE p # Root
    BY <1>2, <1>a, <2>1, <2>2
  <2>3. CASE p = Root
    <3>1. mem'[p] = m
      BY <1>a, <2>1, <2>3
    <3>2. m.ino = ROOTDIR_INODE_NUMBER
      BY <3>1, GetInodeStored
    <3> QED
      BY <2>3, <3>1, <3>2 DEF Named
  <2> QED
    BY <2>2, <2>3
<1>7. ASSUME NEW q \in Path, DestroyInode(q) PROVE Named(p, n)
  BY <1>2, <1>7, <1>a DEF DestroyInode
<1>8. ASSUME KillSuperblock PROVE Named(p, n)
  BY <1>2, <1>8, <1>a DEF KillSuperblock
<1>9. ~Crash
  BY DEF Crash
<1>10. mem' = mem => Named(p, n)
  BY <1>2
<1> QED
  BY Zenon, <1>3, <1>4, <1>5, <1>6, <1>7, <1>8, <1>9, <1>10, MemSteps

\* Every step keeps the tree a tree.
LEMMA NextTreeInv ==
    ASSUME DirectoriesFit, NamesInv, TreeInv, FitInv, [Next]_vars PROVE TreeInv'
<1> USE DEF NamesInv
<1>a. ASSUME NEW t \in Task, NEW u \in Task, SaveInode(t), SaveInode(u) PROVE t = u
  <2>1. HoldsMgmt(t) /\ HoldsMgmt(u)
    BY <1>a DEF SaveInode, HoldsMgmt
  <2> QED
    BY <2>1 DEF BaseInv, LockInv, MgmtInv
<1>b. ASSUME NEW t \in Task, SaveInode(t), Creating(t), NEW n \in Ino
      PROVE  ~Named(path[t], n)
  BY <1>b DEF SaveInode, TreeInv
<1>1. ASSUME NEW p \in Path, mem'[p] # NoInode PROVE Named(p, mem[p].ino)'
  <2>1. \A n : n = mem'[p].ino => Named(p, n)'
    BY <1>1, MemNamed
  <2> QED
    BY <2>1
<1>2. ASSUME NEW p \in Path, NEW m \in Ino, NEW n \in Ino, Named(p, m)', Named(p, n)'
      PROVE  m = n
  <2>1. CASE Named(p, m) /\ Named(p, n)
    BY <2>1 DEF TreeInv
  <2>2. ASSUME NEW t \in Task, SaveInode(t), Creating(t), p = path[t], m = new[t].ino
        PROVE  m = n
    <3>1. ~Named(p, n)
      BY <1>b, <2>2
    <3>2. PICK u \in Task : SaveInode(u) /\ n = new[u].ino
      BY <1>2, <3>1, NamedBefore
    <3> QED
      BY <1>a, <2>2, <3>2
  <2>3. ASSUME NEW t \in Task, SaveInode(t), Creating(t), p = path[t], n = new[t].ino
        PROVE  m = n
    <3>1. ~Named(p, m)
      BY <1>b, <2>3
    <3>2. PICK u \in Task : SaveInode(u) /\ m = new[u].ino
      BY <1>2, <3>1, NamedBefore
    <3> QED
      BY <1>a, <2>3, <3>2
  <2> QED
    BY <1>2, <2>1, <2>2, <2>3, NamedBefore
<1>3. ASSUME NEW i \in Counted', NEW k \in Index, Child(i, k)'
      PROVE  LET p == RecordAt(i, k).name IN
             /\ p' \in Path \ {Root} /\ Named(Parent[p], store[i].ino)'
             /\ \A l \in Index : l < k => (RecordAt(i, l).name)' # p'
  <2>1. i \in Counted /\ store'[i].ino = store[i].ino
    BY Zenon, <1>3, ChildStep
  <2>2. ASSUME NEW p \in Path \ {Root}, NEW n, n = store[i].ino, Named(Parent[p], n),
               RecordAt(i, k)'.name = p,
               \A l \in Index : l < k => Child(i, l) /\ RecordAt(i, l).name # p
        PROVE  LET q == RecordAt(i, k).name IN
               /\ q' \in Path \ {Root} /\ Named(Parent[q], store[i].ino)'
               /\ \A l \in Index : l < k => (RecordAt(i, l).name)' # q'
    <3>1. Named(Parent[p], n)'
      BY <2>2, NamedKept
    <3>2. ASSUME NEW l \in Index, l < k PROVE RecordAt(i, l)'.name # p
      BY <2>1, <2>2, <3>2, ChildKept
    <3> QED
      BY <2>1, <2>2, <3>1, <3>2
  <2>3. CASE Child(i, k) /\ RecordAt(i, k)' = RecordAt(i, k)
    <3> DEFINE p == RecordAt(i, k).name
    <3>1. /\ p \in Path \ {Root} /\ Named(Parent[p], store[i].ino)
          /\ \A l \in Index : l < k => RecordAt(i, l).name # p
      BY <2>1, <2>3 DEF TreeInv
    <3>2. store[i].size \in Nat
      BY <2>1, SlotTypes
    <3>3. \A l \in Index : l < k => Child(i, l)
      BY <2>3, <3>2, SizeAssumption DEF Child, Index
    <3> QED
      BY <2>2, <2>3, <3>1, <3>3
  <2>4. ASSUME NEW t \in Task, SaveInode(t), Creating(t), Parent[path[t]] \in Path,
               store[i].mode = "DIR", k = store[i].size,
               store[i].ino = mem[Parent[path[t]]].ino,
               RecordAt(i, k)' = [name |-> path[t], ino |-> new[t].ino]
        PROVE  LET q == RecordAt(i, k).name IN
               /\ q' \in Path \ {Root} /\ Named(Parent[q], store[i].ino)'
               /\ \A l \in Index : l < k => (RecordAt(i, l).name)' # q'
    <3>1. path[t] \in Path \ {Root} /\ RecordAt(i, k)'.name = path[t]
      BY <2>4, ParentNamed
    <3>2. Named(Parent[path[t]], store[i].ino)
      BY <2>4, ParentNamed
    <3>3. ASSUME NEW l \in Index, l < k PROVE Child(i, l) /\ RecordAt(i, l).name # path[t]
      <4>1. Child(i, l)
        BY <2>4, <3>3 DEF Child
      <4>2. /\ RecordAt(i, l) = [name |-> RecordAt(i, l).name, ino |-> RecordAt(i, l).ino]
            /\ RecordAt(i, l).ino \in Ino
        BY <2>1, RecordType
      <4>3. Named(RecordAt(i, l).name, RecordAt(i, l).ino)
        BY Zenon, <2>1, <4>1, <4>2 DEF Named
      <4> QED
        BY <1>b, <2>4, <4>1, <4>2, <4>3
    <3> QED
      BY <2>2, <3>1, <3>2, <3>3
  <2> QED
    BY <1>3, <2>3, <2>4, ChildStep
<1>4. ASSUME NEW t \in Task, Creating(t)', pc'[t] # "leave", NEW n \in Ino
      PROVE  ~Named(path[t], n)'
  <2>1. SUFFICES ASSUME NEW p, p = path'[t], Named(p, n)' PROVE FALSE
    BY DEF Named
  <2>2. CASE CreateCall(t, path'[t])
    <3>1. ~Named(p, n)
      BY <2>1, <2>2, NotListed DEF CreateCall
    <3>2. UNCHANGED <<cache, image>>
      BY <2>2 DEF CreateCall
    <3>3. Named(p, n)' => Named(p, n)
      BY <3>2 DEF Named, Counted, Child, RecordAt, cache, image
    <3> QED
      BY <2>1, <3>1, <3>3
  <2>3. CASE Creating(t) /\ path'[t] = path[t]
    <3>1. pc[t] # "leave"
      <4>1. /\ <<pc[t], pc'[t]>> \in Passes => pc[t] # "leave"
            /\ ObjectsCount(t) \/ GetAFreeblock(t) \/ AppendInode(t) \/ CountInode(t)
               \/ AddRecord(t) \/ SaveInode(t) => pc[t] # "leave"
        BY DEF Passes, ObjectsCount, GetAFreeblock, AppendInode, CountInode, AddRecord,
           SaveInode
      <4> QED
        BY <1>4, <2>3, <4>1, CreateStep
    <3>2. ~Named(p, n)
      BY <2>1, <2>3, <3>1 DEF TreeInv
    <3>3. PICK u \in Task : SaveInode(u) /\ Creating(u) /\ p = path[u]
      BY <2>1, <3>2, NamedBefore
    <3>4. u = t
      BY <2>1, <2>3, <3>3 DEF CallerInv
    <3>5. pc'[t] = "leave"
      BY <3>3, <3>4, SaveEffect, TaskTypes DEF Goto
    <3> QED
      BY <1>4, <3>5
  <2> QED
    BY <1>4, <2>2, <2>3, CreatingBefore
<1>5. ASSUME NEW t \in Task, Creating(t)', pc'[t] = "leave"
      PROVE  Named(path[t], new[t].ino)'
  <2>1. Creating(t) /\ path'[t] = path[t] /\ ~Crash
    BY <1>5, CreatingBefore
  <2>2. CASE new'[t] = new[t] /\ pc[t] = "leave"
    <3>1. Named(path[t], new[t].ino)
      BY <2>1, <2>2 DEF TreeInv
    <3>2. \A p, n : p = path[t] /\ n = new[t].ino => Named(p, n)'
      BY <3>1, NamedKept
    <3> QED
      BY <2>1, <2>2, <3>2
  <2>3. CASE SaveInode(t) /\ new'[t] = new[t]
    <3>1. \A p, n : p = path[t] /\ n = new[t].ino => Named(p, n)'
      BY <2>1, <2>3, SaveNames
    <3> QED
      BY <2>1, <2>3, <3>1
  <2>4. <<pc[t], pc'[t]>> \notin Passes
    BY <1>5 DEF Passes
  <2> QED
    BY <1>5, <2>1, <2>2, <2>3, <2>4, CreateStep
<1> QED
  BY Zenon, <1>1, <1>2, <1>3, <1>4, <1>5 DEF TreeInv

\* All of it holds in every state, when no call is interrupted and the
\* directories fit their blocks.
LEMMA TreeKept ==
    ASSUME MaxSignals = 0, DirectoriesFit
    PROVE  Spec => [](NamesInv /\ BackInv /\ TreeInv /\ FitInv)
<1>1. NamesInv /\ TreeInv /\ FitInv /\ [Next]_vars => TreeInv' /\ FitInv'
  BY NextTreeInv, NextFitInv
<1> QED
  BY <1>1, InitTreeInv, NamesKept, PTL DEF Spec

\* simplefs_create and simplefs_mkdir check nothing before they write the
\* record behind the last one of the directory's block: it is inside the block
\* if the directory's paths fit, because no path ever gets a second record, not
\* after a crash and not when creates, lookups and evictions interleave.
THEOREM RecordsStayInBlock ==
    ASSUME MaxSignals = 0, DirectoriesFit PROVE Spec => []RecordsInBlock
<1>1. NamesInv /\ TreeInv /\ FitInv => RecordsInBlock
  <2> SUFFICES ASSUME NamesInv, TreeInv, FitInv, NEW t \in Task, pc[t] = "record"
               PROVE  mem[Parent[path[t]]].size < RecordsPerBlock
    BY DEF RecordsInBlock
  <2> DEFINE d == Parent[path[t]]
  <2> USE DEF NamesInv
  <2>1. Creating(t)
    BY DEF BaseInv, LockInv, OpInv, Creating
  <2>2. d \in Path /\ mem[d].mode = "DIR"
    BY <2>1, ParentNamed
  <2>3. PICK i \in Counted : store[i].ino = mem[d].ino /\ mem[d].size = store[i].size + Extra(d)
                             /\ store[i].size \in Nat
    BY <2>2, DirSlot DEF Same
  <2>4. ~Ahead(d)
    BY <2>1 DEF Ahead, CallerInv
  <2>5. store[i].size < RecordsPerBlock
    BY <2>1, <2>3, RoomLeft
  <2> QED
    BY <2>3, <2>4, <2>5 DEF Extra
<1> QED
  BY <1>1, TreeKept, PTL

-----------------------------------------------------------------------------
(***************************************************************************)
(* The refinement.  The paths that a mount of the image would find are the *)
(* paths of the tree.                                                      *)
(***************************************************************************)
InTree(p) == \E n \in Ino : Named(p, n)

SeenInv == \A p \in Path : Visible(p) <=> InTree(p)

\* A directory that counts a child is the same in the store and on the image,
\* and so is the child's inode.
LEMMA TreeSeen ==
    ASSUME NamesInv, BackInv PROVE SeenInv
<1> USE DEF NamesInv
<1>1. ASSUME NEW p \in Path, p # Root, Visible(p) PROVE InTree(p)
  <2>1. PICK dir \in OnDisk, n \in OnDisk :
           dir.mode = "DIR" /\ [name |-> p, ino |-> n.ino] \in Listed(dir)
    BY <1>1 DEF Visible
  <2>2. PICK i \in Counted : dir = storeDisk[i]
    BY DEF OnDisk, Counted, BaseInv, CallInv
  <2>3. PICK k \in Index : k < dir.size /\ dirblk[dir.block][k] = [name |-> p, ino |-> n.ino]
    BY <2>1 DEF Listed, Index
  <2>4. store[i] = storeDisk[i]
    BY <2>2, <2>3, CountedSlots, SizeAssumption DEF ImageInv, Differs, Index
  <2>5. Child(i, k) /\ RecordAt(i, k) = [name |-> p, ino |-> n.ino]
    BY <2>1, <2>2, <2>3, <2>4 DEF Child, RecordAt
  <2>6. n.ino \in Ino
    BY <2>5, RecordType
  <2> QED
    BY Zenon, <2>5, <2>6 DEF InTree, Named
<1>2. ASSUME NEW p \in Path, p # Root, InTree(p) PROVE Visible(p)
  <2>1. PICK m \in Ino, i \in Counted, k \in Index :
           Child(i, k) /\ RecordAt(i, k) = [name |-> p, ino |-> m]
    BY Zenon, <1>2 DEF InTree, Named
  <2>2. i \in 0 .. MaxObjects /\ store[i] = storeDisk[i]
    BY <2>1, CountedSlots, SizeAssumption DEF ImageInv, Differs, Index, Child
  <2>3. storeDisk[i] \in OnDisk /\ storeDisk[i].mode = "DIR"
    BY <2>1, <2>2 DEF OnDisk, Counted, NoInode, BaseInv, CallInv, Child
  <2>4. Backed([name |-> p, ino |-> m])
    BY <2>1 DEF BackInv
  <2>5. PICK j \in Counted : store[j].ino = m /\ storeDisk[j] = store[j] /\ m # 0
    BY <2>4 DEF Backed
  <2>6. storeDisk[j] \in OnDisk /\ storeDisk[j].ino = m
    BY <2>5 DEF OnDisk, Counted, NoInode, BaseInv, CallInv
  <2>7. [name |-> p, ino |-> m] \in Listed(storeDisk[i])
    BY <2>1, <2>2 DEF Listed, Index, Child, RecordAt
  <2> QED
    BY Zenon, <2>3, <2>6, <2>7 DEF Visible
<1>3. Visible(Root) /\ InTree(Root)
  BY Constants DEF Visible, InTree, Named, ROOTDIR_INODE_NUMBER, Ino, START_INO,
     RESERVED_INODES
<1> QED
  BY <1>1, <1>2, <1>3 DEF SeenInv

\* A create is reported in one place, and only when it was one.
LEMMA AckStep ==
    ASSUME [Next]_vars
    PROVE  \/ acked' = acked
           \/ \E t \in Task : Leave(t) /\ Creating(t) /\ acked' = acked \cup {path[t]}
<1>1. ASSUME NEW t \in Task, Call(t) \/ Locking(t) \/ Signal(t) PROVE acked' = acked
  BY Zenon, <1>1 DEF Call, CreateCall, WriteCall, Locking, LockChildren, LockCount,
     LockFree, LockAdd, LockAddSb, LockSave, LockSaveSb, Signal
<1>2. ASSUME NEW t \in Task, Proceed(t)
      PROVE  acked' = acked \/ (Leave(t) /\ Creating(t) /\ acked' = acked \cup {path[t]})
  BY Zenon, <1>2 DEF Proceed, ObjectsCount, GetAFreeblock, AppendInode, CountInode,
     AddRecord, SaveInode, Leave
<1>3. ASSUME NEW p \in Path, Lookup(p) \/ DestroyInode(p) PROVE acked' = acked
  BY Zenon, <1>3 DEF Lookup, DestroyInode
<1>4. FillSuper \/ KillSuperblock \/ Writeback \/ Crash \/ UNCHANGED vars => acked' = acked
  BY Zenon DEF FillSuper, KillSuperblock, Writeback, Crash, vars
<1> QED
  BY Zenon, <1>1, <1>2, <1>3, <1>4 DEF Next

\* mkfs-simplefs makes the tree of Names.
LEMMA InitNames ==
    ASSUME Init, SeenInv PROVE Names!Init
<1>1. \A p, n : RecordAt(0, 0) = [name |-> p, ino |-> n] <=> p = Welcome /\ n = 2
  BY InitChildren
<1>2. \A p, n : Named(p, n) <=> (p = Root /\ n = 1) \/ (p = Welcome /\ n = 2)
  BY <1>1, InitChildren DEF Named, ROOTDIR_INODE_NUMBER
<1>3. 1 \in Ino /\ 2 \in Ino
  BY Constants DEF Ino, START_INO, RESERVED_INODES
<1>4. \A p \in Path : Visible(p) <=> p \in {Root, Welcome}
  BY <1>2, <1>3 DEF SeenInv, InTree
<1>5. {p \in Path : Visible(p)} = {Root, Welcome}
  BY <1>4, TreeAssumption
<1>6. acked = {}
  BY DEF Init
<1> QED
  BY <1>5, <1>6 DEF Names!Init

\* The simplefs_inode_save of a create adds its path to the tree, its return
\* reports it, and nothing else changes the tree: no lookup, no eviction, no
\* writeback, no umount, no crash.
LEMMA StepNames ==
    ASSUME DirectoriesFit, NamesInv, TreeInv, FitInv, SeenInv, SeenInv', [Next]_vars
    PROVE  [Names!Next]_<<{p \in Path : Visible(p)}, acked>>
<1> DEFINE tree == {p \in Path : Visible(p)}
<1> USE DEF NamesInv
<1>a. /\ \A p \in Path : p \in tree <=> InTree(p)
      /\ \A p \in Path : p \in tree' <=> InTree(p)'
      /\ tree \subseteq Path /\ tree' \subseteq Path
  BY DEF SeenInv
<1>b. ASSUME NEW p \in Path, InTree(p) PROVE InTree(p)'
  <2>1. PICK n \in Ino : Named(p, n)
    BY <1>b DEF InTree
  <2>2. Named(p, n)'
    BY <2>1, NamedKept
  <2> QED
    BY <2>2 DEF InTree
<1>c. ASSUME NEW p \in Path, InTree(p)', ~InTree(p)
      PROVE  \E t \in Task : SaveInode(t) /\ Creating(t) /\ p = path[t]
  <2>1. PICK n \in Ino : Named(p, n)'
    BY <1>c DEF InTree
  <2>2. ~Named(p, n)
    BY <1>c DEF InTree
  <2> QED
    BY <2>1, <2>2, NamedBefore
<1>d. ASSUME NEW t \in Task, Creating(t)
      PROVE  path[t] \in Path \ {Root} /\ Parent[path[t]] \in Path
  BY <1>d, ParentNamed
<1> HIDE DEF tree
<1>1. ASSUME NEW t \in Task, SaveInode(t), Creating(t)
      PROVE  Names!Create(path[t]) /\ path[t] \in Path \ {Root}
  <2>1. pc[t] = "copy" /\ acked' = acked
    BY Zenon, <1>1 DEF SaveInode
  <2>2. path[t] \in Path \ {Root} /\ Parent[path[t]] \in Path
    BY <1>1, <1>d
  <2>3. ~InTree(path[t])
    BY <1>1, <2>1 DEF TreeInv, InTree
  <2>4. InTree(Parent[path[t]])
    <3>1. Named(Parent[path[t]], mem[Parent[path[t]]].ino)
      BY <1>1, ParentNamed
    <3>2. mem[Parent[path[t]]].ino \in Ino
      BY <2>2, InodeTypes
    <3> QED
      BY <3>1, <3>2 DEF InTree
  <2>5. ~Crash
    <3>1. pc'[t] = "leave"
      BY <1>1, SaveEffect, TaskTypes DEF Goto
    <3> QED
      BY <3>1 DEF Crash
  <2>6. ASSUME NEW p, p = path[t] PROVE InTree(p)'
    <3>1. \A n : n = new[t].ino => Named(p, n)'
      BY <1>1, <2>5, <2>6, SaveNames
    <3>2. new[t].ino \in Ino
      BY InodeTypes
    <3> QED
      BY <3>1, <3>2 DEF InTree
  <2>7. ASSUME NEW p \in tree', p \notin tree PROVE p = path[t]
    <3>1. PICK u \in Task : SaveInode(u) /\ Creating(u) /\ p = path[u]
      BY <1>a, <1>c, <2>7
    <3>2. HoldsMgmt(t) /\ HoldsMgmt(u)
      BY Zenon, <1>1, <3>1 DEF SaveInode, HoldsMgmt
    <3> QED
      BY <3>1, <3>2 DEF BaseInv, LockInv, MgmtInv
  <2>8. tree' = tree \cup {path[t]}
    BY <1>a, <1>b, <2>2, <2>6, <2>7
  <2>9. path[t] \notin tree /\ Parent[path[t]] \in tree
    BY <1>a, <2>2, <2>3, <2>4
  <2> QED
    BY <2>1, <2>2, <2>8, <2>9 DEF Names!Create, tree
<1>2. CASE \A t \in Task : ~(SaveInode(t) /\ Creating(t))
  <2>1. tree' = tree
    BY <1>2, <1>a, <1>b, <1>c
  <2>2. ASSUME NEW t \in Task, Leave(t), Creating(t), acked' = acked \cup {path[t]}
        PROVE  Names!Report(path[t]) /\ path[t] \in Path \ {Root}
    <3>1. path[t] \in Path \ {Root} /\ pc[t] = "leave"
      BY <1>d, <2>2 DEF Leave
    <3>2. new[t].ino \in Ino
      BY InodeTypes
    <3>3. path[t] \in tree
      BY Zenon, <1>a, <2>2, <3>1, <3>2 DEF TreeInv, InTree
    <3> QED
      BY <2>1, <2>2, <3>1, <3>3 DEF Names!Report, tree
  <2>3. CASE acked' = acked
    BY <2>1, <2>3 DEF tree
  <2> QED
    BY <2>2, <2>3, AckStep DEF Names!Next
<1> QED
  BY <1>1, <1>2 DEF Names!Next

\* What a mount of the image would show implements NameTree, for any number of
\* tasks, paths and crashes: a create adds one path, below a directory that
\* exists; no crash, umount or later create loses one; and a create that
\* returned 0 is there for good.
THEOREM NamesSurvive ==
    ASSUME MaxSignals = 0, DirectoriesFit PROVE Spec => IsNameTree
<1>1. NamesInv /\ BackInv => SeenInv
  BY TreeSeen
<1>2. Init /\ SeenInv => Names!Init
  BY InitNames
<1>3. NamesInv /\ TreeInv /\ FitInv /\ SeenInv /\ SeenInv' /\ [Next]_vars
      => [Names!Next]_<<{p \in Path : Visible(p)}, acked>>
  BY StepNames
<1> QED
  BY <1>1, <1>2, <1>3, TreeKept, PTL DEF Spec, IsNameTree, Names!Spec

=============================================================================
