------------------------------ MODULE SfsProofs ------------------------------
(***************************************************************************)
(* IInv is an invariant of Sfs, for every number of inodes, every even     *)
(* MAX_FILES_IN_DIR and all sets of names, paths, modes and sizes.  The    *)
(* properties of Sfs follow from it.                                       *)
(***************************************************************************)
EXTENDS TableProofs

DiskType == [touched : BOOLEAN, sBlock : SuperBlock, inodes : [Slots -> FCB]]

(***************************************************************************)
(* Tables without entries: blank memory, and what formatDisk lays out.     *)
(***************************************************************************)
LEMMA BlankTableFacts ==
    /\ BlankTable \in [Slots -> FCB]
    /\ BlankTable[NumInodes - 1] = BlankFCB
    /\ BlankSuperBlock \in SuperBlock
    /\ CountOK(BlankSuperBlock)
    /\ BlankSuperBlock.inodeStartIndex = 0
    /\ \A sb : CountOK(sb) => TableInv(BlankTable, sb)
<1>1. BlankTable \in [Slots -> FCB] /\ \A i \in Slots : BlankTable[i] = BlankFCB
  BY BlankFacts DEF BlankTable
<1>2. BlankSuperBlock \in SuperBlock /\ CountOK(BlankSuperBlock)
      /\ BlankSuperBlock.inodeStartIndex = 0
  BY DEF BlankSuperBlock, SuperBlock, CountOK
<1>3. ASSUME NEW sb, CountOK(sb) PROVE TableInv(BlankTable, sb)
  <2>1. \A i \in Slots : /\ ~Named(BlankTable, i)
                         /\ BlankTable[i].inumber = 0
                         /\ BlankTable[i].dirContents = initDirContents
    BY <1>1, BlankFacts DEF Named
  <2>2. NamedNumbered(BlankTable) /\ NamesDistinct(BlankTable)
    BY <2>1, SlotFacts, PathFacts DEF NamedNumbered, NamesDistinct, HasNames, Named
  <2>3. TailRules(BlankTable) /\ NothingBeyond(BlankTable, sb)
    BY <2>1, InitFacts DEF TailRules, NothingBeyond
  <2>4. EntriesOK(BlankTable, sb) /\ EntriesDistinct(BlankTable)
    BY <2>1, InitFacts DEF EntriesOK, EntriesDistinct
  <2> QED
    BY <1>3, <2>2, <2>3, <2>4 DEF TableInv
<1> QED
  BY <1>1, <1>2, <1>3, SlotFacts

(* The table formatDisk lays out is consistent and has "/" only. *)
LEMMA FormattedFacts ==
    ASSUME NEW n \in {0, NumInodes}
    PROVE  /\ FormattedTable \in [Slots -> FCB]
           /\ FormattedTable[NumInodes - 1] = BlankFCB
           /\ FormattedSuperBlock(n) \in SuperBlock
           /\ FormattedSuperBlock(n).numInodes = n
           /\ TableInv(FormattedTable, FormattedSuperBlock(n))
<1> DEFINE sb == FormattedSuperBlock(n)
<1>1. sb \in SuperBlock /\ CountOK(sb) /\ sb.numInodes = n
  BY DEF FormattedSuperBlock, SuperBlock, CountOK, INODE_START_INDEX
<1>2. /\ RootFCB \in FCB
      /\ RootFCB.inumber = 0 /\ RootFCB.dirContents = initDirContents
      /\ RootFCB.fileName \notin Names
  <2>1. "/" \in NameField /\ -1 \in ParentNumber
    BY DEF NameField, ParentNumber
  <2>2. S_IFDIR + 493 \in SHRT_MIN .. SHRT_MAX
    <3>1. /\ SHRT_MIN \in Int /\ SHRT_MAX \in Int /\ S_IFDIR + 493 \in Int
          /\ SHRT_MIN <= S_IFDIR + 493 /\ S_IFDIR + 493 <= SHRT_MAX
      BY DEF SHRT_MIN, SHRT_MAX, S_IFDIR
    <3> QED
      BY <3>1
  <2>3. PICK s \in NameField, m \in SHRT_MIN .. SHRT_MAX, pn \in ParentNumber :
          s = "/" /\ m = S_IFDIR + 493 /\ pn = -1
    BY <2>1, <2>2
  <2>4. RootFCB = [BlankFCB EXCEPT !.fileName = s, !.mode = m,
                                   !.parent_inumber = pn]
    BY <2>3 DEF RootFCB
  <2>5. s \in NameField /\ s \notin Names
    BY <2>1, <2>3, NamesAssumption
  <2>6. RootFCB \in FCB
    BY <2>4, BlankFacts DEF FCB
  <2>7. RootFCB.inumber = BlankFCB.inumber
        /\ RootFCB.dirContents = BlankFCB.dirContents
        /\ RootFCB.fileName = s
    BY <2>4, BlankFacts DEF FCB
  <2> QED
    BY <2>5, <2>6, <2>7, BlankFacts
<1>3. /\ FormattedTable \in [Slots -> FCB]
      /\ FormattedTable[0] = RootFCB
      /\ \A i \in Slots \ {0} : FormattedTable[i] = BlankFCB
  BY <1>2, BlankTableFacts, SlotFacts DEF FormattedTable, BlankTable
<1> HIDE DEF sb
<1>4. \A i \in Slots : /\ ~Named(FormattedTable, i)
                       /\ FormattedTable[i].inumber = 0
                       /\ FormattedTable[i].dirContents = initDirContents
  BY <1>2, <1>3, BlankFacts DEF Named
<1>5. NamedNumbered(FormattedTable) /\ NamesDistinct(FormattedTable)
  BY <1>4, SlotFacts, PathFacts DEF NamedNumbered, NamesDistinct, HasNames, Named
<1>6. TailRules(FormattedTable) /\ NothingBeyond(FormattedTable, sb)
  BY <1>4, InitFacts DEF TailRules, NothingBeyond
<1>7. EntriesOK(FormattedTable, sb) /\ EntriesDistinct(FormattedTable)
  BY <1>4, InitFacts DEF EntriesOK, EntriesDistinct
<1> QED
  BY <1>1, <1>3, <1>5, <1>6, <1>7, SlotFacts DEF TableInv, sb

(* formatDisk, which runs with diskSize 0 only, finds room for no inode. *)
LEMMA EmptyFileHasNoRoom == InodesFor(0 - SUPERBLOCK_SIZE) = 0
<1> DEFINE r == 0 - SUPERBLOCK_SIZE
           Fits(n) == /\ (ALLOCATION * n * (n - 1)) \div 2 < r
                      /\ ALLOCATION * n < r
<1>1. r \in Int /\ r < 1
  BY DEF SUPERBLOCK_SIZE
<1> HIDE DEF r, Fits
<1>2. {n \in 1 .. r : Fits(n)} = {}
  BY <1>1
<1>3. InodesFor(r) = Cardinality({n \in 1 .. r : Fits(n)})
  BY DEF InodesFor, Fits
<1> QED
  BY <1>2, <1>3, FS_EmptySet DEF r

------------------------------------------------------------------------------
(***************************************************************************)
(* The disk files a mount can meet satisfy the invariant.                  *)
(***************************************************************************)
LEMMA InitIInv == Init => IInv
<1> SUFFICES ASSUME Init PROVE IInv
  OBVIOUS
<1>1. /\ up = FALSE /\ inodes = BlankTable /\ sBlock = BlankSuperBlock
      /\ errno = 0 /\ ret = 0 /\ pending = {}
  BY DEF Init
<1>2. /\ disk \in DiskType
      /\ TableInv(disk.inodes, disk.sBlock)
      /\ disk.inodes[NumInodes - 1] = BlankFCB
      /\ UntouchedEmpty
  <2>1. CASE disk = EmptyDisk
    BY <2>1, BlankTableFacts DEF EmptyDisk, DiskType, UntouchedEmpty
  <2>2. CASE disk = ZeroDisk
    BY <2>2, BlankTableFacts DEF ZeroDisk, EmptyDisk, DiskType, UntouchedEmpty
  <2>3. CASE disk = FormattedDisk(NumInodes)
    BY <2>3, FormattedFacts DEF FormattedDisk, DiskType, UntouchedEmpty
  <2> QED
    BY <2>1, <2>2, <2>3 DEF Init, InitialDisks
<1>3. TableInv(inodes, sBlock)
  BY <1>1, BlankTableFacts
<1>4. TypeOK
  <2>1. up \in BOOLEAN /\ pending \subseteq Paths
    BY <1>1
  <2>2. errno \in Int /\ ret \in Int
    BY <1>1
  <2>3. inodes \in [Slots -> FCB] /\ sBlock \in SuperBlock
    BY <1>1, BlankTableFacts
  <2> QED
    BY <1>2, <2>1, <2>2, <2>3 DEF TypeOK, DiskType
<1>5. PendingAbsent
  BY <1>1 DEF PendingAbsent
<1> QED
  BY <1>1, <1>2, <1>3, <1>4, <1>5 DEF IInv, DiskCurrent, Mounted
------------------------------------------------------------------------------
(***************************************************************************)
(* The kinds of steps.                                                     *)
(***************************************************************************)
(* As long as no inode gets a name, what was absent stays absent. *)
LEMMA AbsentStays ==
    ASSUME PendingAbsent, pending' \subseteq pending, UNCHANGED inodes,
           sBlock' = sBlock
    PROVE  PendingAbsent'
BY DEF PendingAbsent, Carries

(* A step that changes neither tables nor disk nor up. *)
LEMMA QuietStep ==
    ASSUME IInv, UNCHANGED tableVars, pending' \subseteq pending,
           up' = up, errno' \in Int, ret' \in Int
    PROVE  IInv'
<1>1. inodes' = inodes /\ sBlock' = sBlock /\ disk' = disk
  BY DEF tableVars
<1>2. TypeOK'
  BY <1>1 DEF IInv, TypeOK
<1>3. DiskCurrent'
  BY <1>1 DEF IInv, DiskCurrent, Mounted
<1>4. /\ (~up => inodes = BlankTable /\ sBlock = BlankSuperBlock /\ pending = {})'
      /\ PendingAbsent'
  BY <1>1, AbsentStays DEF IInv
<1>5. TableInv(inodes', sBlock') /\ TableInv(disk'.inodes, disk'.sBlock)
      /\ disk'.inodes[NumInodes - 1] = BlankFCB /\ UntouchedEmpty'
  BY <1>1 DEF IInv, UntouchedEmpty
<1> QED
  BY <1>2, <1>3, <1>4, <1>5 DEF IInv

(* A request that changed the table and flushed it. *)
LEMMA FlushStep ==
    ASSUME IInv, up, MemoryOK',
           sBlock'.numInodes = NumInodes, sBlock'.inodeStartIndex # 0,
           disk' = flushAllInodesTodisk(sBlock', inodes'),
           pending' \subseteq Paths, PendingAbsent',
           up' = up, errno' \in Int, ret' \in Int
    PROVE  IInv'
<1>1. /\ inodes' \in [Slots -> FCB] /\ sBlock' \in SuperBlock
      /\ TableInv(inodes', sBlock')
  BY DEF MemoryOK
<1>2. disk.inodes[NumInodes - 1] = BlankFCB
  BY DEF IInv
<1>3. /\ disk' \in DiskType
      /\ disk'.touched /\ disk'.sBlock = sBlock'
      /\ TableInv(disk'.inodes, sBlock')
      /\ disk'.inodes[NumInodes - 1] = BlankFCB
      /\ \A i \in 0 .. NumInodes - 2 : disk'.inodes[i] = inodes'[i]
  BY <1>1, <1>2, FlushKeepsTable DEF DiskType
<1>4. DiskCurrent'
  BY <1>3 DEF DiskCurrent
<1>5. TypeOK'
  <2>1. up' \in BOOLEAN
    BY DEF IInv, TypeOK
  <2> QED
    BY <1>1, <1>3, <2>1 DEF TypeOK, DiskType
<1>6. (~up => inodes = BlankTable /\ sBlock = BlankSuperBlock /\ pending = {})'
  OBVIOUS
<1> QED
  BY <1>1, <1>3, <1>4, <1>5, <1>6 DEF IInv, UntouchedEmpty

(* The process ends; the disk it leaves is consistent. *)
LEMMA EndStep ==
    ASSUME IInv, ProcessEnds, disk' \in DiskType,
           TableInv(disk'.inodes, disk'.sBlock),
           disk'.inodes[NumInodes - 1] = BlankFCB, UntouchedEmpty'
    PROVE  IInv'
<1>1. up' = FALSE /\ inodes' = BlankTable /\ sBlock' = BlankSuperBlock
      /\ errno' = 0 /\ ret' = 0 /\ pending' = {}
  BY DEF ProcessEnds
<1>2. TableInv(inodes', sBlock')
  BY <1>1, BlankTableFacts
<1>3. TypeOK'
  <2>1. up' \in BOOLEAN /\ pending' \subseteq Paths
    BY <1>1
  <2>2. errno' \in Int /\ ret' \in Int
    BY <1>1
  <2>3. inodes' \in [Slots -> FCB] /\ sBlock' \in SuperBlock
    BY <1>1, BlankTableFacts
  <2> QED
    BY <2>1, <2>2, <2>3 DEF TypeOK, DiskType
<1>4. DiskCurrent'
  BY <1>1 DEF DiskCurrent, Mounted
<1>5. PendingAbsent'
  BY <1>1 DEF PendingAbsent
<1> QED
  BY <1>1, <1>2, <1>3, <1>4, <1>5 DEF IInv

(* The handlers' replies are numbers. *)
LEMMA Replies ==
    ASSUME IInv
    PROVE  /\ \A e \in Int : Reply(e) => ret' \in Int /\ errno' \in Int /\ up' = up
           /\ \A e \in Int : Fail(e) => ret' \in Int /\ errno' \in Int /\ up' = up
<1>1. errno \in Int
  BY DEF IInv, TypeOK
<1>2. \A e \in Int : -e \in Int
  OBVIOUS
<1> QED
  BY <1>1, <1>2 DEF Reply, Fail

(* A handler that returns 0 leaves errno and up alone. *)
LEMMA ZeroReply ==
    ASSUME IInv, Reply(0)
    PROVE  ret' \in Int /\ errno' \in Int /\ up' = up
<1>1. 0 \in Int
  OBVIOUS
<1> QED
  BY <1>1, Replies

(* open, release, read and opendir change no table. *)
LEMMA LookupStep ==
    ASSUME IInv, NEW path, Lookup(path)
    PROVE  IInv'
<1>1. ENOENT \in Int /\ 0 \in Int
  BY DEF ENOENT
<1>2. ret' \in Int /\ errno' \in Int /\ up' = up
  BY <1>1, Replies DEF Lookup
<1> QED
  BY <1>2, QuietStep DEF Lookup

(* What getattr does not find, findFileOrDir does not find. *)
LEMMA AbsentPath ==
    ASSUME NEW path \in Paths, IsAbsent(path)
    PROVE  findFileOrDir(path) = {}
<1>1. path # <<>>
  BY PathFacts
<1>2. Stat(path).ret = -2
  BY DEF IsAbsent, ENOENT
<1>3. CASE path \in TrashPaths
  <2>1. Stat(path).ret = 0
    BY <1>1, <1>3 DEF Stat
  <2> QED
    BY <1>2, <2>1
<1>4. CASE path \notin TrashPaths /\ findFileOrDir(path) # {}
  <2>1. Stat(path).ret = 0
    BY <1>1, <1>4 DEF Stat
  <2> QED
    BY <1>2, <2>1
<1> QED
  BY <1>3, <1>4

(***************************************************************************)
(* The flush of sfs_destroy writes what the disk has already, whatever the *)
(* inodes are.                                                             *)
(***************************************************************************)
LEMMA IdleFlush ==
    ASSUME NEW B, NEW F,
           disk \in [touched : BOOLEAN, sBlock : B, inodes : [Slots -> F]],
           sBlock \in SuperBlock, CountOK(sBlock), DiskCurrent, up
    PROVE  flushAllInodesTodisk(sBlock, inodes) = disk
<1> DEFINE u == [i \in Slots |-> IF i < sBlock.numInodes - 1 THEN inodes[i]
                                 ELSE disk.inodes[i]]
           tc == disk.touched \/ sBlock.inodeStartIndex # 0
           sb == IF sBlock.inodeStartIndex = 0 THEN disk.sBlock ELSE sBlock
<1>1. sBlock.numInodes \in {0, NumInodes}
  BY DEF SuperBlock
<1>2. sBlock.inodeStartIndex # 0 =>
        /\ disk.touched /\ disk.sBlock = sBlock
        /\ \A i \in 0 .. sBlock.numInodes - 2 : disk.inodes[i] = inodes[i]
  BY DEF DiskCurrent, Mounted
<1>3. u = disk.inodes
  <2>1. \A i \in Slots : i < sBlock.numInodes - 1 =>
          /\ i \in 0 .. sBlock.numInodes - 2
          /\ sBlock.inodeStartIndex # 0
    BY <1>1, SlotFacts DEF Slots, CountOK
  <2> QED
    BY <1>2, <2>1
<1>4. tc = disk.touched /\ sb = disk.sBlock
  BY <1>2
<1>5. flushAllInodesTodisk(sBlock, inodes) =
        [touched |-> tc, sBlock |-> sb, inodes |-> u]
  BY DEF flushAllInodesTodisk
<1> HIDE DEF u, tc, sb
<1> QED
  BY <1>3, <1>4, <1>5

(* So unmounting changes the disk as little as killing the process does. *)
LEMMA UnmountIsIdle ==
    ASSUME IInv, up, disk' = flushAllInodesTodisk(sBlock, inodes)
    PROVE  disk' = disk
BY IdleFlush DEF IInv, TypeOK, TableInv

------------------------------------------------------------------------------
(***************************************************************************)
(* One case per operation.                                                 *)
(***************************************************************************)
(* The lemmas of TableProofs apply to the table in memory. *)
LEMMA IInvMemory == IInv => MemoryOK
BY DEF IInv, TypeOK, MemoryOK

(***************************************************************************)
(* create_inode for a path the kernel has found absent.  The other paths   *)
(* that wait to be created stay absent: their names are not the new ones.  *)
(***************************************************************************)
LEMMA CreatePending ==
    ASSUME MemoryOK, PendingAbsent, pending \subseteq Paths,
           NEW path \in pending, pending' = pending \ {path},
           NEW mode \in Nat, create_inode(path, mode)
    PROVE  /\ MemoryOK'
           /\ sBlock'.numInodes = NumInodes /\ sBlock'.inodeStartIndex # 0
           /\ disk' = flushAllInodesTodisk(sBlock', inodes')
           /\ pending' \subseteq Paths /\ PendingAbsent'
           /\ \A j \in Slots : sBlock.ibmap[j] = 1 =>
                /\ inodes'[j].fileName = inodes[j].fileName
                /\ inodes'[j].parentDir = inodes[j].parentDir
<1>1. path \in Paths /\ pending' \subseteq Paths
  OBVIOUS
<1>2. ~HasAlias(path) => \A j \in 0 .. sBlock.numInodes - 1 : ~Carries(j, path)
  BY DEF PendingAbsent
<1>3. /\ MemoryOK'
      /\ sBlock'.numInodes = NumInodes /\ sBlock'.inodeStartIndex # 0
      /\ sBlock'.numInodes = sBlock.numInodes
      /\ disk' = flushAllInodesTodisk(sBlock', inodes')
      /\ \A j \in Slots : sBlock.ibmap[j] = 1 =>
           /\ inodes'[j].fileName = inodes[j].fileName
           /\ inodes'[j].parentDir = inodes[j].parentDir
      /\ \A q \in Paths \ {path}, j \in Slots :
           ~HasAlias(q) /\ ~Carries(j, q) => ~Carries(j, q)'
  BY <1>1, <1>2, CreateKeepsTable
<1>4. PendingAbsent'
  BY <1>3 DEF PendingAbsent, Slots
<1> QED
  BY <1>1, <1>3, <1>4

(* remove_inode takes no name away, and gives none. *)
LEMMA RemovePending ==
    ASSUME MemoryOK, PendingAbsent, UNCHANGED pending,
           NEW path \in Paths, remove_inode(path)
    PROVE  PendingAbsent'
<1>1. /\ sBlock'.numInodes = NumInodes /\ sBlock'.numInodes = sBlock.numInodes
      /\ \A j \in Slots : /\ inodes'[j].fileName = inodes[j].fileName
                          /\ inodes'[j].parentDir = inodes[j].parentDir
  BY RemoveKeepsTable
<1> QED
  BY <1>1 DEF PendingAbsent, Carries, Slots

(* The lookup in front of a create. *)
LEMMA LookupToCreateStep ==
    ASSUME IInv, NEW path \in Paths, LookupToCreate(path)
    PROVE  IInv'
<1>1. /\ inodes' = inodes /\ sBlock' = sBlock /\ disk' = disk
      /\ up /\ up' = up /\ errno' = errno /\ ret' = -ENOENT
      /\ pending' = pending \cup {path}
      /\ findFileOrDir(path) = {}
  BY AbsentPath DEF LookupToCreate, Reply, tableVars, IsAbsent
<1>2. sBlock.numInodes \in Nat
  BY SlotFacts DEF IInv, TypeOK, SuperBlock
<1>3. \A j \in 0 .. sBlock.numInodes - 1 : ~Carries(j, path)
  BY <1>1, <1>2, AbsentFacts
<1>4. PendingAbsent'
  <2>1. PendingAbsent
    BY DEF IInv
  <2> QED
    BY <1>1, <1>3, <2>1 DEF PendingAbsent, Carries
<1>5. TypeOK'
  BY <1>1 DEF IInv, TypeOK, ENOENT
<1>6. DiskCurrent'
  BY <1>1 DEF IInv, DiskCurrent, Mounted
<1>7. TableInv(inodes', sBlock') /\ TableInv(disk'.inodes, disk'.sBlock)
      /\ disk'.inodes[NumInodes - 1] = BlankFCB /\ UntouchedEmpty'
  BY <1>1 DEF IInv, UntouchedEmpty
<1> QED
  BY <1>1, <1>4, <1>5, <1>6, <1>7 DEF IInv

(* sfs_create, whether it finds an inode or not. *)
LEMMA CreateStep ==
    ASSUME IInv, NEW path \in Paths, NEW mode \in CreateModes,
           sfs_create(path, mode)
    PROVE  IInv'
<1>1. /\ up /\ path \in pending /\ pending' = pending \ {path}
      /\ pending \subseteq Paths /\ PendingAbsent /\ mode \in Nat
  BY ModesAssumption DEF sfs_create, IInv, TypeOK
<1>2. CASE create_inode(path, mode) /\ Reply(0)
  <2>1. /\ MemoryOK' /\ sBlock'.numInodes = NumInodes
        /\ sBlock'.inodeStartIndex # 0
        /\ disk' = flushAllInodesTodisk(sBlock', inodes')
        /\ pending' \subseteq Paths /\ PendingAbsent'
    BY <1>1, <1>2, IInvMemory, CreatePending
  <2>2. ret' \in Int /\ errno' \in Int /\ up' = up
    BY <1>2, ZeroReply
  <2> QED
    BY <1>1, <2>1, <2>2, FlushStep
<1>3. CASE Reply(-errno) /\ UNCHANGED tableVars
  <2>1. -errno \in Int
    BY DEF IInv, TypeOK
  <2> QED
    BY <1>1, <1>3, <2>1, Replies, QuietStep
<1> QED
  BY <1>2, <1>3 DEF sfs_create

(* sfs_mkdir, whether it calls create_inode or not. *)
LEMMA MkdirStep ==
    ASSUME IInv, NEW path \in Paths, NEW mode, sfs_mkdir(path, mode)
    PROVE  IInv'
<1>1. /\ up /\ path \in pending /\ pending' = pending \ {path}
      /\ pending \subseteq Paths /\ PendingAbsent /\ Reply(0)
  BY DEF sfs_mkdir, IInv, TypeOK
<1>2. CASE create_inode(path, S_IFDIR)
  <2>1. S_IFDIR \in Nat
    BY DEF S_IFDIR
  <2>2. /\ MemoryOK' /\ sBlock'.numInodes = NumInodes
        /\ sBlock'.inodeStartIndex # 0
        /\ disk' = flushAllInodesTodisk(sBlock', inodes')
        /\ pending' \subseteq Paths /\ PendingAbsent'
    BY <1>1, <1>2, <2>1, IInvMemory, CreatePending
  <2>3. ret' \in Int /\ errno' \in Int /\ up' = up
    BY <1>1, ZeroReply
  <2> QED
    BY <1>1, <2>2, <2>3, FlushStep
<1>3. CASE UNCHANGED tableVars
  BY <1>1, <1>3, ZeroReply, QuietStep
<1> QED
  BY <1>2, <1>3 DEF sfs_mkdir

(* sfs_unlink and sfs_rmdir. *)
LEMMA RemoveStep ==
    ASSUME IInv, NEW path \in Paths, up, RemoveRequest(path), UNCHANGED pending
    PROVE  IInv'
<1>1. CASE remove_inode(path) /\ Reply(0)
  <2>1. /\ MemoryOK' /\ sBlock'.numInodes = NumInodes
        /\ sBlock'.inodeStartIndex # 0
        /\ disk' = flushAllInodesTodisk(sBlock', inodes')
        /\ PendingAbsent' /\ pending' \subseteq Paths
    BY <1>1, IInvMemory, RemoveKeepsTable, RemovePending DEF IInv, TypeOK
  <2>2. ret' \in Int /\ errno' \in Int /\ up' = up
    BY <1>1, ZeroReply
  <2> QED
    BY <2>1, <2>2, FlushStep
<1>2. CASE Fail(ENOENT) /\ UNCHANGED tableVars
  <2>1. ENOENT \in Int
    BY DEF ENOENT
  <2> QED
    BY <1>2, <2>1, Replies, QuietStep
<1> QED
  BY <1>1, <1>2 DEF RemoveRequest

(* sfs_getattr only answers. *)
LEMMA GetattrStep ==
    ASSUME IInv, NEW path, sfs_getattr(path)
    PROVE  IInv'
<1>1. Stat(path).ret \in Int
  <2>1. \/ Stat(path).ret = 0
        \/ Stat(path).ret = -ENOENT
    BY DEF Stat
  <2> QED
    BY <2>1 DEF ENOENT
<1> QED
  BY <1>1, Replies, QuietStep DEF sfs_getattr

(* sfs_write only sets errno. *)
LEMMA WriteStep ==
    ASSUME IInv, NEW path, NEW size, sfs_write(path, size)
    PROVE  IInv'
<1>1. errno' \in Int
  <2>1. errno \in Int
    BY DEF IInv, TypeOK
  <2> QED
    BY <2>1 DEF sfs_write, ENOENT, EFBIG
<1>2. ret' \in Int
  BY DEF sfs_write
<1> QED
  BY <1>1, <1>2, QuietStep DEF sfs_write, tableVars

(* A process that dies leaves the disk as it is. *)
LEMMA KilledStep ==
    ASSUME IInv, ProcessEnds, UNCHANGED disk
    PROVE  IInv'
BY EndStep DEF IInv, TypeOK, DiskType, UntouchedEmpty

(* opendir and readdir, the walk beyond the array included. *)
LEMMA DirRequestStep ==
    ASSUME IInv, NEW path, DirRequest(path)
    PROVE  IInv'
<1>1. CASE sfs_opendir(path)
  BY <1>1, LookupStep DEF sfs_opendir
<1>2. CASE sfs_readdir(path)
  <2>1. -1 \in Int /\ 0 \in Int
    OBVIOUS
  <2>2. ret' \in Int /\ errno' \in Int /\ up' = up
    BY <1>2, <2>1, Replies DEF sfs_readdir
  <2> QED
    BY <1>2, <2>2, QuietStep DEF sfs_readdir
<1>3. CASE ReaddirFaults(path)
  <2>1. CASE ProcessEnds /\ UNCHANGED disk
    BY <2>1, KilledStep
  <2>2. CASE Reply(0) /\ UNCHANGED <<tableVars, pending>>
    BY <2>2, ZeroReply, QuietStep
  <2> QED
    BY <1>3, <2>1, <2>2 DEF ReaddirFaults
<1> QED
  BY <1>1, <1>2, <1>3 DEF DirRequest

(* sfs_init: an empty file, a file with contents, a read error. *)
LEMMA MountStep ==
    ASSUME IInv, sfs_init
    PROVE  IInv'
<1>1. /\ up \in BOOLEAN /\ errno \in Int /\ ret \in Int
      /\ disk \in DiskType /\ TableInv(disk.inodes, disk.sBlock)
      /\ disk.inodes[NumInodes - 1] = BlankFCB
  BY DEF IInv, TypeOK, DiskType
<1>2. ~up /\ up' = TRUE /\ pending = {} /\ pending' = {}
  BY DEF sfs_init, MountEmpty, MountTouched, MountReadError, IInv
<1>3. up' \in BOOLEAN /\ pending' \subseteq Paths /\ PendingAbsent'
  BY <1>2 DEF PendingAbsent
<1>4. CASE MountEmpty
  <2>1. errno' \in Int /\ ret' \in Int
    BY <1>1, <1>4 DEF MountEmpty
  <2>2. formatDisk(0)
    BY <1>4 DEF MountEmpty
  <2>3. /\ sBlock' = FormattedSuperBlock(0)
        /\ inodes' = FormattedTable
        /\ disk' = FormattedDisk(0)
    BY <2>2, EmptyFileHasNoRoom DEF formatDisk
  <2>4. /\ disk'.touched = TRUE /\ disk'.sBlock = sBlock'
        /\ disk'.inodes = inodes'
    BY <2>3 DEF FormattedDisk
  <2>5. /\ inodes' \in [Slots -> FCB] /\ inodes'[NumInodes - 1] = BlankFCB
        /\ sBlock' \in SuperBlock /\ TableInv(inodes', sBlock')
    BY <2>3, FormattedFacts
  <2>6. disk' \in DiskType
    BY <2>3, <2>5 DEF FormattedDisk, DiskType
  <2>7. TypeOK'
    BY <1>3, <2>1, <2>5, <2>6 DEF TypeOK, DiskType
  <2>8. DiskCurrent'
    BY <2>4 DEF DiskCurrent
  <2> QED
    BY <1>2, <1>3, <2>4, <2>5, <2>7, <2>8 DEF IInv, UntouchedEmpty
<1>5. CASE MountTouched
  <2>1. errno' \in Int /\ ret' \in Int
    BY <1>1, <1>5 DEF MountTouched
  <2>2. disk' = disk /\ sBlock' = disk.sBlock /\ disk.touched
        /\ inodes' = [i \in Slots |-> IF i < disk.sBlock.numInodes
                                      THEN disk.inodes[i] ELSE BlankFCB]
    BY <1>5 DEF MountTouched, loadDisk
  <2>3. disk.sBlock \in SuperBlock /\ disk.inodes \in [Slots -> FCB]
    BY <1>1 DEF DiskType
  <2>4. inodes' \in [Slots -> FCB] /\ TableInv(inodes', sBlock')
        /\ \A i \in 0 .. sBlock'.numInodes - 2 : disk'.inodes[i] = inodes'[i]
    <3>1. CASE disk.sBlock.numInodes = NumInodes
      <4>1. inodes' = disk.inodes
        BY <2>2, <2>3, <3>1, SlotFacts
      <4> QED
        BY <1>1, <2>2, <2>3, <4>1
    <3>2. CASE disk.sBlock.numInodes = 0
      <4>1. inodes' = BlankTable
        BY <2>2, <3>2, SlotFacts DEF BlankTable
      <4>2. CountOK(disk.sBlock)
        BY <1>1 DEF TableInv
      <4>3. \A i \in 0 .. sBlock'.numInodes - 2 : FALSE
        BY <2>2, <3>2
      <4> QED
        BY <2>2, <4>1, <4>2, <4>3, BlankTableFacts
    <3> QED
      BY <2>3, <3>1, <3>2 DEF SuperBlock
  <2>5. TypeOK'
    BY <1>1, <1>3, <2>1, <2>2, <2>3, <2>4 DEF TypeOK, DiskType
  <2>6. DiskCurrent'
    BY <2>2, <2>4 DEF DiskCurrent
  <2> QED
    BY <1>1, <1>2, <1>3, <2>2, <2>4, <2>5, <2>6 DEF IInv, UntouchedEmpty
<1>6. CASE MountReadError
  <2>1. /\ errno' = EIO /\ ret' = ret /\ inodes' = inodes
        /\ sBlock' = sBlock /\ disk' = disk
    BY <1>6 DEF MountReadError, tableVars
  <2>2. errno' \in Int /\ ret' \in Int
    BY <1>1, <2>1 DEF EIO
  <2>3. sBlock'.inodeStartIndex = 0
    BY <1>2, <2>1, BlankTableFacts DEF IInv
  <2>4. TypeOK'
    BY <1>3, <2>1, <2>2 DEF IInv, TypeOK
  <2>5. DiskCurrent'
    BY <2>3 DEF DiskCurrent, Mounted
  <2> QED
    BY <1>1, <1>2, <1>3, <2>1, <2>4, <2>5 DEF IInv, UntouchedEmpty
<1> QED
  BY <1>4, <1>5, <1>6 DEF sfs_init

(***************************************************************************)
(* Every step keeps the invariant.                                         *)
(***************************************************************************)
LEMMA NextIInv == IInv /\ [Next]_vars => IInv'
<1> SUFFICES ASSUME IInv, [Next]_vars PROVE IInv'
  OBVIOUS
<1>1. ASSUME NEW path \in Paths, Request(path) PROVE IInv'
  <2>1. CASE \E mode \in CreateModes : sfs_create(path, mode)
    BY <2>1, CreateStep
  <2>2. CASE \E mode \in MkdirModes : sfs_mkdir(path, mode)
    BY <2>2, MkdirStep
  <2>3. CASE sfs_unlink(path)
    BY <2>3, RemoveStep DEF sfs_unlink
  <2>4. CASE sfs_rmdir(path)
    BY <2>4, RemoveStep DEF sfs_rmdir
  <2>5. CASE sfs_getattr(path)
    BY <2>5, GetattrStep
  <2>6. CASE sfs_open(path)
    BY <2>6, LookupStep DEF sfs_open
  <2>7. CASE sfs_release(path) \/ sfs_read(path)
    BY <2>7, LookupStep DEF sfs_release, sfs_read
  <2>8. CASE \E size \in WriteSizes : sfs_write(path, size)
    BY <2>8, WriteStep
  <2>9. CASE LookupToCreate(path)
    BY <2>9, LookupToCreateStep
  <2> QED
    BY <1>1, <2>1, <2>2, <2>3, <2>4, <2>5, <2>6, <2>7, <2>8, <2>9 DEF Request
<1>2. CASE \E path \in Paths \cup {<<>>} : DirRequest(path)
  BY <1>2, DirRequestStep
<1>3. CASE sfs_releasedir
  BY <1>3, ZeroReply, QuietStep DEF sfs_releasedir
<1>4. CASE sfs_init
  BY <1>4, MountStep
<1>5. CASE sfs_destroy
  BY <1>5, UnmountIsIdle, KilledStep DEF sfs_destroy
<1>6. CASE Kill
  BY <1>6, KilledStep DEF Kill
<1>7. CASE UNCHANGED vars
  <2>1. UNCHANGED tableVars /\ pending' = pending
        /\ up' = up /\ errno' = errno /\ ret' = ret
    BY <1>7 DEF vars, tableVars
  <2> QED
    BY <2>1, QuietStep DEF IInv, TypeOK
<1> QED
  BY <1>1, <1>2, <1>3, <1>4, <1>5, <1>6, <1>7 DEF Next
------------------------------------------------------------------------------
(***************************************************************************)
(* IInv is an invariant of the specification.                              *)
(***************************************************************************)
THEOREM Invariant == Spec => []IInv
BY InitIInv, NextIInv, PTL DEF Spec

(***************************************************************************)
(* The tables keep their types: the values create_inode and remove_inode   *)
(* store are inode numbers, shorts and entries, and the superblock counts  *)
(* 0 or NumInodes inodes.                                                  *)
(***************************************************************************)
THEOREM TypeCorrect == Spec => []TypeOK
<1>1. IInv => TypeOK
  BY DEF IInv
<1> QED
  BY <1>1, Invariant, PTL

(***************************************************************************)
(* indexed_remove_from_direntry never leaves the dirContents array,        *)
(* whatever the even MAX_FILES_IN_DIR.                                     *)
(***************************************************************************)
THEOREM ScanSafe == Spec => []ScanInBounds
<1>1. IInv => ScanInBounds
  BY LastEntryIsLastIndex DEF IInv, TableInv, TailRules, ScanInBounds
<1> QED
  BY <1>1, Invariant, PTL

(***************************************************************************)
(* For a path that shares its last two names with no other, findFileOrDir  *)
(* never has two inodes to choose from, however the lookups and creates of *)
(* several clients mix.                                                    *)
(***************************************************************************)
THEOREM LookupUnambiguous == Spec => []NamesUnambiguous
<1>1. IInv => NamesUnambiguous
  BY DEF IInv, TableInv, NamesDistinct, HasNames, Carries, NamesUnambiguous
<1> QED
  BY <1>1, Invariant, PTL

(***************************************************************************)
(* Directory entries point at allocated inodes only, so create_inode never *)
(* takes an inode that a directory lists.                                  *)
(***************************************************************************)
THEOREM NoEntryForFreeInode == Spec => []EntriesAllocated
<1>1. IInv => EntriesAllocated
  BY DEF IInv, TableInv, EntriesOK, EntryOK, EntriesAllocated, Children
<1> QED
  BY <1>1, Invariant, PTL

(***************************************************************************)
(* An inode is in one entry of one directory at most.                      *)
(***************************************************************************)
THEOREM OneEntryPerInode == Spec => []EntriesUnique
<1>1. IInv => EntriesUnique
  BY DEF IInv, TableInv, EntriesDistinct, EntriesUnique
<1> QED
  BY <1>1, Invariant, PTL

(***************************************************************************)
(* Entries and parent_inumber agree, but for the inode no flush writes.    *)
(***************************************************************************)
THEOREM EntriesPointBack == Spec => []EntriesBackLinked
<1>1. IInv => EntriesBackLinked
  BY DEF IInv, TableInv, EntriesOK, EntryOK, EntriesBackLinked, Children
<1> QED
  BY <1>1, Invariant, PTL

(***************************************************************************)
(* Between two requests the disk is as memory is, but for the last inode.  *)
(***************************************************************************)
THEOREM DiskStaysCurrent == Spec => []DiskCurrent
<1>1. IInv => DiskCurrent
  BY DEF IInv
<1> QED
  BY <1>1, Invariant, PTL

(***************************************************************************)
(* Requests rename no inode that stays allocated: create_inode writes the  *)
(* names of a free inode, remove_inode writes none.                        *)
(***************************************************************************)
THEOREM NamesKept == Spec => AllocatedKeepsNames
<1> DEFINE Kept ==
        up /\ up' =>
            \A i \in Slots : sBlock.ibmap[i] = 1 /\ sBlock'.ibmap[i] = 1 =>
                /\ inodes'[i].fileName = inodes[i].fileName
                /\ inodes'[i].parentDir = inodes[i].parentDir
<1>1. IInv /\ [Next]_vars => Kept
  <2> SUFFICES ASSUME IInv, [Next]_vars, up, up',
                      NEW i \in Slots, sBlock.ibmap[i] = 1
               PROVE  /\ inodes'[i].fileName = inodes[i].fileName
                      /\ inodes'[i].parentDir = inodes[i].parentDir
    OBVIOUS
  <2>1. CASE inodes' = inodes
    BY <2>1
  <2>2. ASSUME NEW path \in pending, pending' = pending \ {path},
               NEW mode \in Nat, create_inode(path, mode)
        PROVE  /\ inodes'[i].fileName = inodes[i].fileName
               /\ inodes'[i].parentDir = inodes[i].parentDir
    <3>1. PendingAbsent /\ pending \subseteq Paths
      BY DEF IInv, TypeOK
    <3> QED
      BY <2>2, <3>1, IInvMemory, CreatePending
  <2>3. ASSUME NEW path \in Paths, Request(path), inodes' # inodes
        PROVE  /\ inodes'[i].fileName = inodes[i].fileName
               /\ inodes'[i].parentDir = inodes[i].parentDir
    <3>1. ASSUME NEW mode \in CreateModes, sfs_create(path, mode)
          PROVE  /\ inodes'[i].fileName = inodes[i].fileName
                 /\ inodes'[i].parentDir = inodes[i].parentDir
      BY <2>2, <2>3, <3>1, ModesAssumption DEF sfs_create, tableVars
    <3>2. ASSUME NEW mode \in MkdirModes, sfs_mkdir(path, mode)
          PROVE  /\ inodes'[i].fileName = inodes[i].fileName
                 /\ inodes'[i].parentDir = inodes[i].parentDir
      <4>1. S_IFDIR \in Nat
        BY DEF S_IFDIR
      <4> QED
        BY <2>2, <2>3, <3>2, <4>1 DEF sfs_mkdir, tableVars
    <3>3. CASE sfs_unlink(path) \/ sfs_rmdir(path)
      BY <2>3, <3>3, IInvMemory, RemoveKeepsTable
         DEF sfs_unlink, sfs_rmdir, RemoveRequest, tableVars
    <3>4. ~sfs_getattr(path) /\ ~sfs_open(path) /\ ~sfs_release(path)
          /\ ~sfs_read(path) /\ ~LookupToCreate(path)
      BY <2>3 DEF LookupToCreate, sfs_getattr, sfs_open, sfs_release, sfs_read, Lookup, tableVars
    <3>5. ASSUME NEW size \in WriteSizes PROVE ~sfs_write(path, size)
      BY <2>3 DEF sfs_write, tableVars
    <3> QED
      BY <2>3, <3>1, <3>2, <3>3, <3>4, <3>5 DEF Request
  <2>4. ASSUME NEW path \in Paths \cup {<<>>}, DirRequest(path)
        PROVE  inodes' = inodes
    BY <2>4 DEF DirRequest, sfs_opendir, Lookup, sfs_readdir, ReaddirFaults,
                ProcessEnds, tableVars
  <2>5. CASE sfs_releasedir \/ UNCHANGED vars
    BY <2>1, <2>5 DEF sfs_releasedir, tableVars, vars
  <2>6. ~sfs_init /\ ~sfs_destroy /\ ~Kill
    BY DEF sfs_init, MountEmpty, MountTouched, MountReadError, sfs_destroy,
           Kill, ProcessEnds
  <2> QED
    BY <2>1, <2>3, <2>4, <2>5, <2>6 DEF Next
<1>2. Spec => [][Kept]_vars
  BY <1>1, Invariant, PTL DEF Spec
<1> QED
  BY <1>2 DEF AllocatedKeepsNames

(***************************************************************************)
(* After a failed superblock read no request and no unmount writes to the  *)
(* disk: the zeroed superblock has no inodes to create or remove, and the  *)
(* flush writes zero bytes of it.                                          *)
(***************************************************************************)
THEOREM ReadErrorHarmless == Spec => FailedReadKeepsDisk
<1> DEFINE Harmless == up /\ sBlock.inodeStartIndex = 0 => UNCHANGED disk
<1>1. IInv /\ [Next]_vars => Harmless
  <2> SUFFICES ASSUME IInv, [Next]_vars, up, sBlock.inodeStartIndex = 0
               PROVE  disk' = disk
    OBVIOUS
  <2>1. sBlock.numInodes = 0
    BY DEF IInv, TableInv, CountOK
  <2>2. ASSUME NEW path, NEW mode PROVE ~create_inode(path, mode)
    BY <2>1, SlotFacts DEF create_inode, FreeInode
  <2>3. ASSUME NEW path \in Paths PROVE ~remove_inode(path)
    <3>1. \A f \in findFileOrDir(path) : FALSE
      BY <2>1, IInvMemory, FoundFacts, SlotFacts
    <3> QED
      BY <3>1 DEF remove_inode
  <2>4. ASSUME NEW path \in Paths, Request(path) PROVE disk' = disk
    BY <2>2, <2>3, <2>4
       DEF Request, LookupToCreate, sfs_create, sfs_mkdir, sfs_unlink, sfs_rmdir,
           RemoveRequest, sfs_getattr, sfs_open, sfs_release, sfs_read, Lookup,
           sfs_write, tableVars
  <2>5. ASSUME NEW path, DirRequest(path) PROVE disk' = disk
    BY <2>5 DEF DirRequest, sfs_opendir, Lookup, sfs_readdir, ReaddirFaults,
                tableVars
  <2>6. CASE sfs_destroy
    BY <2>6, UnmountIsIdle DEF sfs_destroy
  <2>7. CASE sfs_releasedir \/ Kill \/ UNCHANGED vars
    BY <2>7 DEF sfs_releasedir, Kill, tableVars, vars
  <2>8. ~sfs_init
    BY DEF sfs_init, MountEmpty, MountTouched, MountReadError
  <2> QED
    BY <2>4, <2>5, <2>6, <2>7, <2>8 DEF Next
<1>2. Spec => [][Harmless]_vars
  BY <1>1, Invariant, PTL DEF Spec
<1> QED
  BY <1>2 DEF FailedReadKeepsDisk

------------------------------------------------------------------------------
(***************************************************************************)
(* The implementation of LinkTable.  What LinkTable calls alloc and        *)
(* children, as the mapping of Sfs gives them.                             *)
(***************************************************************************)
MappedBlock == IF Mounted THEN sBlock ELSE disk.sBlock
MappedTable == IF Mounted THEN inodes ELSE disk.inodes
AllocSet(sb) == {i \in Slots : sb.ibmap[i] = 1}
ChildSets(table) == [p \in Slots |-> Children(table[p].dirContents)]

(* The steps of LinkTable under the mapping. *)
LEMMA MappedFormat ==
    ASSUME AllocSet(MappedBlock) = {}, AllocSet(MappedBlock)' = {0},
           ChildSets(MappedTable)' = ChildSets(MappedTable)
    PROVE  Links!LinkNext
BY DEF Links!LinkNext, Links!Format, MappedBlock, MappedTable, AllocSet, ChildSets

(* Both modules take Cardinality from FiniteSets. *)
LEMMA SameCardinality == \A S : Links!Cardinality(S) = Cardinality(S)
BY DEF Links!Cardinality, Cardinality

(* Setting one bit and adding the inode to its parent's children is Link. *)
LEMMA MappedLink ==
    ASSUME NEW p \in Slots, NEW c \in Slots, c # 0,
           c \notin AllocSet(MappedBlock),
           AllocSet(MappedBlock)' = AllocSet(MappedBlock) \cup {c},
           ChildSets(MappedTable)' =
             IF Cardinality(ChildSets(MappedTable)[p]) = MAX_FILES_IN_DIR
             THEN ChildSets(MappedTable)
             ELSE [ChildSets(MappedTable) EXCEPT ![p] = @ \cup {c}]
    PROVE  Links!LinkNext
<1>1. Links!Link(p, c)
  BY SameCardinality DEF Links!Link, MappedBlock, MappedTable, AllocSet, ChildSets
<1> QED
  BY <1>1 DEF Links!LinkNext

(* Clearing the bit and taking the inode out of its parent's children is Unlink. *)
LEMMA MappedUnlink ==
    ASSUME NEW c \in Slots, c # 0,
           AllocSet(MappedBlock)' = AllocSet(MappedBlock) \ {c},
           ChildSets(MappedTable)' =
             [p \in Slots |-> ChildSets(MappedTable)[p] \ {c}]
    PROVE  Links!LinkNext
<1>1. Links!Unlink(c)
  BY DEF Links!Unlink, MappedBlock, MappedTable, AllocSet, ChildSets
<1> QED
  BY <1>1 DEF Links!LinkNext

(* Losing what the last inode lists, at the end of the process, is ForgetLast. *)
LEMMA MappedForgetLast ==
    ASSUME AllocSet(MappedBlock)' = AllocSet(MappedBlock),
           ChildSets(MappedTable)' =
             [ChildSets(MappedTable) EXCEPT ![NumInodes - 1] = {}]
    PROVE  Links!LinkNext
<1>1. Links!ForgetLast
  BY DEF Links!ForgetLast, MappedBlock, MappedTable, AllocSet, ChildSets
<1> QED
  BY <1>1 DEF Links!LinkNext

(* A step that leaves bits and children alone is a stutter of the link table. *)
LEMMA MappedStutter ==
    ASSUME AllocSet(MappedBlock)' = AllocSet(MappedBlock),
           ChildSets(MappedTable)' = ChildSets(MappedTable)
    PROVE  UNCHANGED Links!linkVars
BY DEF Links!linkVars, MappedBlock, MappedTable, AllocSet, ChildSets

(* The children of a blank inode. *)
LEMMA NoChildren == Children(initDirContents) = {}
BY InitFacts DEF Children

(* Which tables the mapping reads; the bits of both are the same. *)
LEMMA MappedFacts ==
    ASSUME IInv
    PROVE  /\ MappedBlock = disk.sBlock
           /\ Mounted => MappedTable = inodes /\ MappedBlock = sBlock
           /\ ~Mounted => MappedTable = disk.inodes
BY DEF IInv, DiskCurrent, MappedBlock, MappedTable

(* create_inode is a Link step. *)
LEMMA CreateLinks ==
    ASSUME IInv, up, up' = up, NEW path \in Paths, NEW mode \in Nat,
           create_inode(path, mode)
    PROVE  Links!LinkNext
<1>1. PICK i \in Slots, p \in findParent(path) :
        /\ FreeInode(i)
        /\ inodes' = Linked(p, i, path, mode)
        /\ sBlock' = [sBlock EXCEPT !.ibmap[i] = 1]
  BY DEF create_inode
<1>2. /\ inodes \in [Slots -> FCB] /\ sBlock \in SuperBlock
      /\ EntriesDistinct(inodes) /\ CountOK(sBlock)
  BY DEF IInv, TypeOK, TableInv
<1>3. p \in Slots /\ inodes[p].inumber = p
  BY IInvMemory, ParentFacts
<1>4. i # 0 /\ sBlock.ibmap[i] # 1 /\ sBlock.numInodes # 0
  BY <1>1, <1>2, SlotFacts DEF FreeInode, SuperBlock
<1>5. /\ sBlock'.inodeStartIndex = sBlock.inodeStartIndex
      /\ sBlock'.ibmap[i] = 1
      /\ \A j \in Slots \ {i} : sBlock'.ibmap[j] = sBlock.ibmap[j]
  BY <1>1, <1>2 DEF SuperBlock
<1>6. Mounted /\ Mounted'
  BY <1>2, <1>4, <1>5 DEF CountOK, Mounted
<1>7. /\ MappedBlock = sBlock /\ MappedBlock' = sBlock'
      /\ MappedTable = inodes /\ MappedTable' = inodes'
  BY <1>6 DEF MappedBlock, MappedTable
<1>8. /\ i \notin AllocSet(sBlock)
      /\ AllocSet(sBlock') = AllocSet(sBlock) \cup {i}
  BY <1>4, <1>5 DEF AllocSet
<1> DEFINE d == inodes[p].dirContents
           e == add_to_direntry(d, i)
<1>9. /\ inodes'[p].dirContents = e
      /\ \A j \in Slots \ {p} : inodes'[j].dirContents = inodes[j].dirContents
  BY <1>1, <1>3, IInvMemory, LinkedFields
<1>10. d \in [Idx -> Entries] /\ i \in Entries /\ i # NULL
  BY <1>2, <1>3, SlotFacts DEF FCB, Entries
<1>11. \A k, l \in Idx : d[k] # NULL /\ d[k] = d[l] => k = l
  BY <1>2, <1>3 DEF EntriesDistinct
<1> HIDE DEF d
<1>12. /\ Cardinality(Children(d)) = MAX_FILES_IN_DIR <=> Full(d)
       /\ Full(d) => e = d
       /\ ~Full(d) => Children(e) = Children(d) \cup {i}
  BY <1>10, <1>11, FullIsAtCapacity, AddedChildren
<1> HIDE DEF e
<1>13. ChildSets(inodes)[p] = Children(d)
  BY <1>3 DEF ChildSets, d
<1>14. ChildSets(inodes') =
         IF Cardinality(ChildSets(inodes)[p]) = MAX_FILES_IN_DIR
         THEN ChildSets(inodes)
         ELSE [ChildSets(inodes) EXCEPT ![p] = @ \cup {i}]
  <2>1. CASE Full(d)
    BY <1>3, <1>9, <1>12, <1>13, <2>1 DEF ChildSets, d
  <2>2. CASE ~Full(d)
    <3>1. ChildSets(inodes') = [ChildSets(inodes) EXCEPT ![p] = @ \cup {i}]
      BY <1>3, <1>9, <1>12, <1>13, <2>2 DEF ChildSets
    <3> QED
      BY <1>12, <1>13, <2>2, <3>1
  <2> QED
    BY <2>1, <2>2
<1> QED
  BY <1>3, <1>4, <1>7, <1>8, <1>14, MappedLink DEF AllocSet, ChildSets

(* remove_inode is an Unlink step. *)
LEMMA RemoveUnlinks ==
    ASSUME IInv, up, up' = up, NEW path \in Paths, remove_inode(path)
    PROVE  Links!LinkNext
<1>1. PICK f \in findFileOrDir(path) :
        /\ inodes' = [inodes EXCEPT ![getParentFcb(f)].dirContents =
                          remove_from_direntry(getParentFcb(f), f)]
        /\ sBlock' = [sBlock EXCEPT !.ibmap[inodes[f].inumber] = 0]
  BY DEF remove_inode
<1>2. /\ f \in Slots /\ f # 0 /\ Named(inodes, f)
      /\ inodes[f].inumber = f /\ inodes[f].parent_inumber \in Slots
      /\ sBlock.numInodes = NumInodes
  BY IInvMemory, FoundFacts
<1>3. /\ inodes \in [Slots -> FCB] /\ sBlock \in SuperBlock
      /\ EntriesOK(inodes, sBlock) /\ CountOK(sBlock)
  BY DEF IInv, TypeOK, TableInv
<1>4. /\ sBlock'.inodeStartIndex = sBlock.inodeStartIndex
      /\ sBlock'.ibmap[f] = 0
      /\ \A j \in Slots \ {f} : sBlock'.ibmap[j] = sBlock.ibmap[j]
  BY <1>1, <1>2, <1>3 DEF SuperBlock
<1>5. Mounted /\ Mounted'
  BY <1>2, <1>3, <1>4, SlotFacts DEF CountOK, Mounted
<1>6. /\ MappedBlock = sBlock /\ MappedBlock' = sBlock'
      /\ MappedTable = inodes /\ MappedTable' = inodes'
  BY <1>5 DEF MappedBlock, MappedTable
<1>7. AllocSet(sBlock') = AllocSet(sBlock) \ {f}
  BY <1>4 DEF AllocSet
<1> DEFINE q == getParentFcb(f)
           d == inodes[q].dirContents
           e == remove_from_direntry(q, f)
<1>8. q \in Slots /\ q = inodes[f].parent_inumber
  BY <1>2 DEF getParentFcb
<1> HIDE DEF q
<1>9. Children(e) = Children(d) \ {f}
  BY <1>2, <1>8, IInvMemory, RemovedEntries, RemovedChildren
<1>10. /\ inodes'[q].dirContents = e
       /\ \A j \in Slots \ {q} : inodes'[j].dirContents = inodes[j].dirContents
  <2>1. inodes' = [inodes EXCEPT ![q].dirContents = e]
    BY <1>1 DEF q
  <2> HIDE DEF e
  <2> QED
    BY <1>3, <1>8, <2>1 DEF FCB
<1>11. \A j \in Slots \ {q} : f \notin Children(inodes[j].dirContents)
  <2> SUFFICES ASSUME NEW j \in Slots, NEW k \in Idx,
                      inodes[j].dirContents[k] = f
               PROVE  j = q
    BY DEF Children
  <2>1. EntryOK(inodes, sBlock, j, f)
    BY <1>2, <1>3, SlotFacts DEF EntriesOK
  <2>2. ~LostInode(inodes, f)
    BY <1>2, BlankFacts DEF LostInode, Named
  <2> QED
    BY <1>8, <2>1, <2>2 DEF EntryOK
<1> HIDE DEF d, e
<1>12. ChildSets(inodes') = [p \in Slots |-> ChildSets(inodes)[p] \ {f}]
  <2> SUFFICES ASSUME NEW j \in Slots
               PROVE  Children(inodes'[j].dirContents)
                        = Children(inodes[j].dirContents) \ {f}
    BY DEF ChildSets
  <2>1. CASE j = q
    BY <1>9, <1>10, <2>1 DEF d
  <2>2. CASE j # q
    BY <1>10, <1>11, <2>2
  <2> QED
    BY <2>1, <2>2
<1> QED
  BY <1>2, <1>6, <1>7, <1>12, MappedUnlink DEF AllocSet, ChildSets

(***************************************************************************)
(* The end of a process forgets what memory has of the last inode; without *)
(* a mounted disk, nothing.                                                *)
(***************************************************************************)
LEMMA EndForgets ==
    ASSUME IInv, ProcessEnds, disk' = disk
    PROVE  Links!LinkNext \/ UNCHANGED Links!linkVars
<1>1. ~Mounted'
  BY DEF ProcessEnds, Mounted
<1>2. MappedBlock' = disk.sBlock /\ MappedTable' = disk.inodes
  BY <1>1 DEF MappedBlock, MappedTable
<1>3. AllocSet(MappedBlock)' = AllocSet(MappedBlock)
  BY <1>2, MappedFacts DEF AllocSet
<1>4. CASE ~Mounted
  <2>1. ChildSets(MappedTable)' = ChildSets(MappedTable)
    BY <1>2, <1>4, MappedFacts DEF ChildSets
  <2> QED
    BY <1>3, <2>1, MappedStutter
<1>5. CASE Mounted
  <2> DEFINE last == NumInodes - 1
  <2>1. /\ MappedTable = inodes /\ disk.sBlock = sBlock /\ sBlock \in SuperBlock
        /\ NothingBeyond(inodes, sBlock) /\ NothingBeyond(disk.inodes, sBlock)
        /\ disk.inodes[last] = BlankFCB
        /\ \A i \in 0 .. sBlock.numInodes - 2 : disk.inodes[i] = inodes[i]
    BY <1>5, MappedFacts DEF IInv, TypeOK, TableInv, DiskCurrent
  <2>2. Children(disk.inodes[last].dirContents) = {}
    BY <2>1, BlankFacts, NoChildren
  <2>3. \A j \in Slots \ {last} :
          Children(disk.inodes[j].dirContents) = Children(inodes[j].dirContents)
    <3>1. CASE sBlock.numInodes = 0
      BY <2>1, <3>1 DEF NothingBeyond
    <3>2. CASE sBlock.numInodes = NumInodes
      <4>1. \A j \in Slots \ {last} : j \in 0 .. NumInodes - 2
        BY SlotFacts DEF Slots
      <4> QED
        BY <2>1, <3>2, <4>1
    <3> QED
      BY <2>1, <3>1, <3>2 DEF SuperBlock
  <2>4. ChildSets(disk.inodes) = [ChildSets(inodes) EXCEPT ![last] = {}]
    BY <2>2, <2>3, SlotFacts DEF ChildSets
  <2>5. ChildSets(MappedTable)' = [ChildSets(MappedTable) EXCEPT ![last] = {}]
    BY <1>2, <2>1, <2>4 DEF ChildSets
  <2> QED
    BY <1>3, <2>5, MappedForgetLast
<1> QED
  BY <1>4, <1>5

(* A mount formats an empty file; otherwise it changes nothing. *)
LEMMA MountLinks ==
    ASSUME IInv, sfs_init
    PROVE  Links!LinkNext \/ UNCHANGED Links!linkVars
<1>1. ~up /\ up' = TRUE
  BY DEF sfs_init, MountEmpty, MountTouched, MountReadError
<1>2. /\ MappedBlock = disk.sBlock /\ MappedTable = disk.inodes
      /\ sBlock = BlankSuperBlock
  BY <1>1, MappedFacts DEF IInv, Mounted
<1>3. CASE MountEmpty
  <2>1. disk = EmptyDisk
    BY <1>3 DEF MountEmpty, IInv, UntouchedEmpty
  <2>2. /\ sBlock' = FormattedSuperBlock(0) /\ inodes' = FormattedTable
    BY <1>3, EmptyFileHasNoRoom DEF MountEmpty, formatDisk
  <2>3. /\ sBlock'.inodeStartIndex # 0
        /\ AllocSet(sBlock') = {0}
    BY <2>2, SlotFacts DEF FormattedSuperBlock, INODE_START_INDEX, AllocSet
  <2>4. MappedBlock' = sBlock' /\ MappedTable' = inodes'
    BY <1>1, <2>3 DEF MappedBlock, MappedTable, Mounted
  <2>5. AllocSet(MappedBlock) = {}
    BY <1>2, <2>1 DEF EmptyDisk, BlankSuperBlock, AllocSet
  <2>6. \A j \in Slots : /\ Children(disk.inodes[j].dirContents) = {}
                         /\ Children(inodes'[j].dirContents) = {}
    <3>1. \A j \in Slots : disk.inodes[j].dirContents = initDirContents
      BY <2>1, BlankFacts DEF EmptyDisk, BlankTable
    <3>2. NothingBeyond(FormattedTable, FormattedSuperBlock(0))
          /\ FormattedSuperBlock(0).numInodes = 0
      BY FormattedFacts DEF TableInv
    <3>3. \A j \in Slots : inodes'[j].dirContents = initDirContents
      BY <2>2, <3>2 DEF NothingBeyond
    <3> QED
      BY <3>1, <3>3, NoChildren
  <2>7. ChildSets(MappedTable)' = ChildSets(MappedTable)
    BY <1>2, <2>4, <2>6 DEF ChildSets
  <2>8. AllocSet(MappedBlock)' = {0}
    BY <2>3, <2>4 DEF AllocSet
  <2> QED
    BY <2>5, <2>7, <2>8, MappedFormat
<1>4. CASE MountTouched
  <2>1. disk' = disk /\ sBlock' = disk.sBlock
        /\ inodes' = [i \in Slots |-> IF i < disk.sBlock.numInodes
                                      THEN disk.inodes[i] ELSE BlankFCB]
    BY <1>4 DEF MountTouched, loadDisk
  <2>2. /\ disk.sBlock \in SuperBlock
        /\ NothingBeyond(disk.inodes, disk.sBlock)
    BY DEF IInv, TypeOK, TableInv
  <2>3. \A j \in Slots : inodes'[j].dirContents = disk.inodes[j].dirContents
    <3>1. CASE disk.sBlock.numInodes = NumInodes
      BY <2>1, <3>1, SlotFacts
    <3>2. CASE disk.sBlock.numInodes = 0
      BY <2>1, <2>2, <3>2, SlotFacts, BlankFacts DEF NothingBeyond
    <3> QED
      BY <2>2, <3>1, <3>2 DEF SuperBlock
  <2>4. MappedBlock' = disk.sBlock
        /\ (MappedTable' = inodes' \/ MappedTable' = disk.inodes)
    BY <2>1 DEF MappedBlock, MappedTable
  <2>5. AllocSet(MappedBlock)' = AllocSet(MappedBlock)
    BY <1>2, <2>4 DEF AllocSet
  <2>6. ChildSets(MappedTable)' = ChildSets(MappedTable)
    BY <1>2, <2>3, <2>4 DEF ChildSets
  <2> QED
    BY <2>5, <2>6, MappedStutter
<1>5. CASE MountReadError
  <2>1. disk' = disk /\ sBlock' = sBlock
    BY <1>5 DEF MountReadError, tableVars
  <2>2. ~Mounted'
    BY <1>2, <2>1, BlankTableFacts DEF Mounted
  <2>3. MappedBlock' = disk.sBlock /\ MappedTable' = disk.inodes
    BY <2>1, <2>2 DEF MappedBlock, MappedTable
  <2>4. AllocSet(MappedBlock)' = AllocSet(MappedBlock)
        /\ ChildSets(MappedTable)' = ChildSets(MappedTable)
    BY <1>2, <2>3 DEF AllocSet, ChildSets
  <2> QED
    BY <2>4, MappedStutter
<1> QED
  BY <1>3, <1>4, <1>5 DEF sfs_init

(* A request that leaves the tables alone. *)
LEMMA QuietLinks ==
    ASSUME UNCHANGED tableVars, up' = up
    PROVE  UNCHANGED Links!linkVars
<1>1. MappedBlock' = MappedBlock /\ MappedTable' = MappedTable
  BY DEF MappedBlock, MappedTable, Mounted, tableVars
<1>2. AllocSet(MappedBlock)' = AllocSet(MappedBlock)
      /\ ChildSets(MappedTable)' = ChildSets(MappedTable)
  BY <1>1 DEF AllocSet, ChildSets
<1> QED
  BY <1>2, MappedStutter

(* The disk files a mount can meet have no links. *)
LEMMA InitLinks == Init => Links!LinkInit
<1> SUFFICES ASSUME Init PROVE Links!LinkInit
  OBVIOUS
<1>1. MappedBlock = disk.sBlock /\ MappedTable = disk.inodes
  BY DEF Init, MappedBlock, MappedTable, Mounted
<1>2. \A j \in Slots : BlankTable[j].dirContents = initDirContents
  BY BlankFacts DEF BlankTable
<1>3. AllocSet(disk.sBlock) \in {{}, {0}}
      /\ \A j \in Slots : disk.inodes[j].dirContents = initDirContents
  <2>1. CASE disk.sBlock = BlankSuperBlock /\ disk.inodes = BlankTable
    BY <1>2, <2>1 DEF BlankSuperBlock, AllocSet
  <2>2. CASE disk = FormattedDisk(NumInodes)
    <3>1. AllocSet(disk.sBlock) = {0}
      <4>1. disk.sBlock.ibmap = [j \in Slots |-> IF j = 0 THEN 1 ELSE 0]
        BY <2>2 DEF FormattedDisk, FormattedSuperBlock
      <4> QED
        BY <4>1, SlotFacts DEF AllocSet
    <3>2. FormattedSuperBlock(0).numInodes = 0
          /\ NothingBeyond(FormattedTable, FormattedSuperBlock(0))
      BY FormattedFacts DEF TableInv
    <3>3. \A j \in Slots : disk.inodes[j].dirContents = initDirContents
      BY <2>2, <3>2 DEF FormattedDisk, NothingBeyond
    <3> QED
      BY <3>1, <3>3
  <2>3. CASE disk = EmptyDisk \/ disk = ZeroDisk
    BY <2>1, <2>3 DEF EmptyDisk, ZeroDisk
  <2> QED
    BY <2>2, <2>3 DEF Init, InitialDisks
<1>4. ChildSets(disk.inodes) = [p \in Slots |-> {}]
  BY <1>3, NoChildren DEF ChildSets
<1> QED
  BY <1>1, <1>3, <1>4 DEF Links!LinkInit, MappedBlock, MappedTable, AllocSet, ChildSets

(***************************************************************************)
(* Sfs implements LinkTable: create_inode and remove_inode add and remove  *)
(* exactly one child of one directory, whatever holes their array edits    *)
(* leave, and mounts, unmounts and kills lose the last inode's entries     *)
(* only.                                                                   *)
(***************************************************************************)
THEOREM RefinesLinkTable == Spec => ImplementsLinkTable
<1>1. IInv /\ [Next]_vars => [Links!LinkNext]_(Links!linkVars)
  <2> SUFFICES ASSUME IInv, [Next]_vars
               PROVE  Links!LinkNext \/ UNCHANGED Links!linkVars
    OBVIOUS
  <2>1. ASSUME NEW path \in Paths, Request(path)
        PROVE  Links!LinkNext \/ UNCHANGED Links!linkVars
    <3>1. ASSUME NEW mode \in CreateModes, sfs_create(path, mode)
          PROVE  Links!LinkNext \/ UNCHANGED Links!linkVars
      BY <3>1, CreateLinks, QuietLinks, ModesAssumption DEF sfs_create, Reply
    <3>2. ASSUME NEW mode \in MkdirModes, sfs_mkdir(path, mode)
          PROVE  Links!LinkNext \/ UNCHANGED Links!linkVars
      <4>1. S_IFDIR \in Nat
        BY DEF S_IFDIR
      <4> QED
        BY <3>2, <4>1, CreateLinks, QuietLinks DEF sfs_mkdir, Reply
    <3>3. CASE sfs_unlink(path) \/ sfs_rmdir(path)
      BY <3>3, RemoveUnlinks, QuietLinks
         DEF sfs_unlink, sfs_rmdir, RemoveRequest, Reply, Fail
    <3>4. CASE \/ sfs_getattr(path) \/ sfs_open(path) \/ sfs_release(path)
               \/ sfs_read(path) \/ LookupToCreate(path)
      BY <3>4, QuietLinks
         DEF LookupToCreate, sfs_getattr, sfs_open, sfs_release, sfs_read, Lookup, Reply, Fail
    <3>5. ASSUME NEW size \in WriteSizes, sfs_write(path, size)
          PROVE  UNCHANGED Links!linkVars
      BY <3>5, QuietLinks DEF sfs_write, tableVars
    <3> QED
      BY <2>1, <3>1, <3>2, <3>3, <3>4, <3>5 DEF Request
  <2>2. ASSUME NEW path \in Paths \cup {<<>>}, DirRequest(path)
        PROVE  Links!LinkNext \/ UNCHANGED Links!linkVars
    BY <2>2, QuietLinks, EndForgets
       DEF DirRequest, sfs_opendir, Lookup, sfs_readdir, ReaddirFaults, Reply, Fail
  <2>3. CASE sfs_releasedir
    BY <2>3, QuietLinks DEF sfs_releasedir, Reply
  <2>4. CASE sfs_init
    BY <2>4, MountLinks
  <2>5. CASE sfs_destroy
    BY <2>5, UnmountIsIdle, EndForgets DEF sfs_destroy
  <2>6. CASE Kill
    BY <2>6, EndForgets DEF Kill
  <2>7. CASE UNCHANGED vars
    BY <2>7, QuietLinks DEF vars, tableVars
  <2> QED
    BY <2>1, <2>2, <2>3, <2>4, <2>5, <2>6, <2>7 DEF Next
<1>2. Spec => Links!LinkSpec
  BY <1>1, InitLinks, Invariant, PTL DEF Spec, Links!LinkSpec
<1> QED
  BY <1>2 DEF ImplementsLinkTable
==============================================================================
