------------------------------ MODULE InodeTable ------------------------------
(***************************************************************************)
(* The inode table of DateiSteuerBlock.c: the global array inodes, the     *)
(* superblock with its inode bitmap, and the copy of both that every       *)
(* change writes to the disk file.  Operations: lookup by path, create and *)
(* remove an inode, flush the table, lay out a new disk, load one.         *)
(*                                                                         *)
(* A path is the sequence of its names, <<>> being "/".  Not modelled, as  *)
(* nothing but stat output reads them: uid, time, fileSize and numBlocks   *)
(* (both always 0), block, dbmap, and the log.  Heap allocation succeeds.  *)
(***************************************************************************)
EXTENDS DirContents, Sequences, FiniteSets

CONSTANTS
    Names,      \* the file names in use
    Paths,      \* the paths in use, "/" excluded
    NumInodes   \* numInodes in the superblock of an image that has inodes

VARIABLES
    inodes,     \* the array inodes: [Slots -> FCB]
    sBlock,     \* the superblock in memory
    disk        \* the disk file: touched or empty, its superblock, its inodes

tableVars == <<inodes, sBlock, disk>>

(* Paths holds the parent directories of its members, but not "/" itself. *)
ParentPath(path) == SubSeq(path, 1, Len(path) - 1)

ASSUME NamesAssumption == "" \notin Names /\ "/" \notin Names

ASSUME PathsAssumption ==
    /\ Paths \subseteq Seq(Names) \ {<<>>}
    /\ \A path \in Paths : Len(path) > 1 => ParentPath(path) \in Paths

(* sfs.c declares inodes[100]; a table of one inode would hold only "/".   *)
(* From 97 inodes on, loading a file that ends before the last one, which  *)
(* no flush writes, may clear the superblock in memory or end the process: *)
(* module BlockLayer has those disks.                                      *)
ASSUME InodesAssumption == NumInodes \in 2 .. 96

ASSUME NullAssumption == NULL \notin 0 .. NumInodes - 1

Slots == 0 .. NumInodes - 1

(* The constants of sys/stat.h and the sizes the x86-64 build gives. *)
S_IFDIR == 16384
SUPERBLOCK_SIZE == 11744   \* sizeof(superblock): 6 int, 2 * MAX_BLOCKS bytes
INODE_START_INDEX == 3     \* 1 + sizeof(superblock) / BLOCK_SIZE
ALLOCATION == 61444        \* BLOCK_SIZE * 15 + BLOCK_SIZE / sizeof(fcb)

SHRT_MIN == -32768
SHRT_MAX == 32767

NameField == Names \cup {"", "/"}
ParentNumber == Slots \cup {-1}
Entries == Slots \cup {NULL}

FCB == [fileName : NameField, parentDir : NameField,
        inumber : Slots, parent_inumber : ParentNumber,
        mode : SHRT_MIN .. SHRT_MAX, dirContents : [Idx -> Entries]]

SuperBlock == [numInodes : {0, NumInodes},
               inodeStartIndex : {0, INODE_START_INDEX},
               ibmap : [Slots -> {0, 1}]]

(* What zeroed memory, and a disk of zero bytes, reads as. *)
BlankFCB == [fileName |-> "", parentDir |-> "", inumber |-> 0,
             parent_inumber |-> 0, mode |-> 0,
             dirContents |-> initDirContents]
BlankTable == [i \in Slots |-> BlankFCB]
BlankSuperBlock == [numInodes |-> 0, inodeStartIndex |-> 0,
                    ibmap |-> [i \in Slots |-> 0]]

------------------------------------------------------------------------------
(***************************************************************************)
(* Paths.  getRelativeParentName keeps only the parent's last name.        *)
(***************************************************************************)
relativeName(path) == path[Len(path)]

getRelativeParentName(path) ==
    IF Len(path) = 1 THEN "/" ELSE path[Len(path) - 1]

(***************************************************************************)
(* findFileOrDir compares the names an inode carries and nothing else: not *)
(* its bit in ibmap, not its parent_inumber.  The result is the set of the *)
(* inode it returns, or {} for NULL.                                       *)
(***************************************************************************)
Carries(i, path) ==
    /\ inodes[i].fileName = relativeName(path)
    /\ inodes[i].parentDir = getRelativeParentName(path)

(* Mutant: the search ends one inode early. *)
find_skips_last(path) ==
    IF path = <<>> THEN {0}
    ELSE {i \in 0 .. sBlock.numInodes - 2 :
            Carries(i, path) /\ \A j \in 0 .. i - 1 : ~Carries(j, path)}

findFileOrDir(path) ==
    IF path = <<>> THEN {0}
    ELSE {i \in 0 .. sBlock.numInodes - 1 :
            Carries(i, path) /\ \A j \in 0 .. i - 1 : ~Carries(j, path)}

------------------------------------------------------------------------------
(***************************************************************************)
(* flushAllInodesTodisk(FALSE).  The superblock write has length           *)
(* BLOCK_SIZE * inodeStartIndex, so a zeroed superblock writes nothing.    *)
(* The loop ends at numInodes - 1, so the last inode is never written.     *)
(***************************************************************************)
(* Mutant: the superblock is written whatever it holds. *)
flush_with_zero_superblock(sb, table) ==
    [touched |-> TRUE, sBlock |-> sb,
     inodes |-> [i \in Slots |-> IF i < sb.numInodes - 1 THEN table[i]
                                 ELSE disk.inodes[i]]]

(* Mutant: the loop starts at inode 1. *)
flush_starts_at_one(sb, table) ==
    [touched |-> disk.touched \/ sb.inodeStartIndex # 0,
     sBlock |-> IF sb.inodeStartIndex = 0 THEN disk.sBlock ELSE sb,
     inodes |-> [i \in Slots |-> IF i \in 1 .. sb.numInodes - 2 THEN table[i]
                                 ELSE disk.inodes[i]]]

flushAllInodesTodisk(sb, table) ==
    [touched |-> disk.touched \/ sb.inodeStartIndex # 0,
     sBlock |-> IF sb.inodeStartIndex = 0 THEN disk.sBlock ELSE sb,
     inodes |-> [i \in Slots |-> IF i < sb.numInodes - 1 THEN table[i]
                                 ELSE disk.inodes[i]]]

------------------------------------------------------------------------------
(***************************************************************************)
(* create_inode takes the first inode from 1 on whose bit is clear, links  *)
(* it into the parent found by path, fills in its names and numbers, sets  *)
(* the bit and flushes.  It does not clear the dirContents of an inode     *)
(* that is used again, and the parent may be that very inode.              *)
(***************************************************************************)
(* Mutant: the bit of the inode before is tested. *)
free_by_previous_bit(i) ==
    /\ i \in 1 .. sBlock.numInodes - 1
    /\ sBlock.ibmap[i - 1] # 1
    /\ \A j \in 1 .. i - 1 : sBlock.ibmap[j - 1] = 1

FreeInode(i) ==
    /\ i \in 1 .. sBlock.numInodes - 1
    /\ sBlock.ibmap[i] # 1
    /\ \A j \in 1 .. i - 1 : sBlock.ibmap[j] = 1

findParent(path) == findFileOrDir(ParentPath(path))

CanCreate(path) == (\E i \in Slots : FreeInode(i)) /\ findParent(path) # {}

(* Mutant: the mode is kept as it is. *)
keep_mode(mode) == mode

(* The mode_t is stored in a short. *)
ToShort(mode) ==
    IF mode % 65536 < 32768 THEN mode % 65536 ELSE (mode % 65536) - 65536

(* Mutant: parent_inumber is not set. *)
link_without_parent(parent, i, path, mode) ==
    LET withEntry ==
            [inodes EXCEPT ![parent].dirContents = add_to_direntry(@, i)]
    IN  [withEntry EXCEPT
            ![i].inumber = i,
            ![i].fileName = relativeName(path),
            ![i].parentDir = getRelativeParentName(path),
            ![i].mode = ToShort(mode)]

Linked(parent, i, path, mode) ==
    LET withEntry ==
            [inodes EXCEPT ![parent].dirContents = add_to_direntry(@, i)]
        numbered == [withEntry EXCEPT ![i].inumber = i]
    IN  [numbered EXCEPT
            ![i].fileName = relativeName(path),
            ![i].parentDir = getRelativeParentName(path),
            ![i].mode = ToShort(mode),
            ![i].parent_inumber = numbered[parent].inumber]

create_inode(path, mode) ==
    \E i \in Slots, parent \in findParent(path) :
        /\ FreeInode(i)
        /\ inodes' = Linked(parent, i, path, mode)
        /\ sBlock' = [sBlock EXCEPT !.ibmap[i] = 1]
        /\ disk' = flushAllInodesTodisk(sBlock', inodes')

------------------------------------------------------------------------------
(***************************************************************************)
(* remove_from_direntry looks for the entry whose inode has the child's    *)
(* inumber; an entry that is not found counts as removed.                  *)
(***************************************************************************)
remove_from_direntry(parent, child) ==
    LET d == inodes[parent].dirContents
        Hit(k) == d[k] # NULL /\ inodes[d[k]].inumber = inodes[child].inumber
        First(k) == Hit(k) /\ \A j \in 0 .. k - 1 : ~Hit(j)
    IN  IF \E k \in Idx : First(k)
        THEN indexed_remove_from_direntry(d, CHOOSE k \in Idx : First(k))
        ELSE d

(* Mutant: the parent is taken to be "/". *)
root_as_parent(child) == 0

getParentFcb(child) == inodes[child].parent_inumber

(***************************************************************************)
(* remove_inode unlinks the inode from its parent, clears its bit and      *)
(* flushes.  The inode keeps its names, its numbers and its dirContents.   *)
(***************************************************************************)
remove_inode(path) ==
    \E f \in findFileOrDir(path) :
        /\ inodes' = [inodes EXCEPT ![getParentFcb(f)].dirContents =
                          remove_from_direntry(getParentFcb(f), f)]
        /\ sBlock' = [sBlock EXCEPT !.ibmap[inodes[f].inumber] = 0]
        /\ disk' = flushAllInodesTodisk(sBlock', inodes')

------------------------------------------------------------------------------
(***************************************************************************)
(* formatDisk.  Its loop adds ALLOCATION to currAllocation and that sum to *)
(* spaceUsed for every inode, while both stay below the remaining space:   *)
(* after n inodes spaceUsed is ALLOCATION * n * (n + 1) / 2.  The result   *)
(* has "/" in inode 0; the others are written as the zeroed memory they    *)
(* are (the initialised copy curr is dropped), the last is not written.    *)
(***************************************************************************)
InodesFor(remainingSpace) ==
    Cardinality({n \in 1 .. remainingSpace :
                    /\ (ALLOCATION * n * (n - 1)) \div 2 < remainingSpace
                    /\ ALLOCATION * n < remainingSpace})

RootFCB == [BlankFCB EXCEPT !.fileName = "/", !.mode = S_IFDIR + 493,
                            !.parent_inumber = -1]

FormattedSuperBlock(n) ==
    [numInodes |-> n, inodeStartIndex |-> INODE_START_INDEX,
     ibmap |-> [i \in Slots |-> IF i = 0 THEN 1 ELSE 0]]

FormattedTable == [BlankTable EXCEPT ![0] = RootFCB]

FormattedDisk(n) == [touched |-> TRUE, sBlock |-> FormattedSuperBlock(n),
                     inodes |-> FormattedTable]

formatDisk(diskSize) ==
    LET n == InodesFor(diskSize - SUPERBLOCK_SIZE)
    IN  /\ sBlock' = FormattedSuperBlock(n)
        /\ inodes' = FormattedTable
        /\ disk' = FormattedDisk(n)

(***************************************************************************)
(* The second half of sfs_init: the superblock is copied as it is (a wrong *)
(* magicNum is only logged) and inodes 0 .. numInodes - 1 are read.        *)
(***************************************************************************)
(* Mutant: the loop starts at inode 1. *)
load_skips_root(d) ==
    /\ sBlock' = d.sBlock
    /\ inodes' = [i \in Slots |-> IF i \in 1 .. d.sBlock.numInodes - 1
                                  THEN d.inodes[i] ELSE BlankFCB]
    /\ UNCHANGED disk

loadDisk(d) ==
    /\ sBlock' = d.sBlock
    /\ inodes' = [i \in Slots |-> IF i < d.sBlock.numInodes
                                  THEN d.inodes[i] ELSE BlankFCB]
    /\ UNCHANGED disk

(***************************************************************************)
(* The disk files a mount can meet: empty, filled with zero bytes, or laid *)
(* out with NumInodes inodes.                                              *)
(***************************************************************************)
EmptyDisk == [touched |-> FALSE, sBlock |-> BlankSuperBlock,
              inodes |-> BlankTable]
ZeroDisk == [EmptyDisk EXCEPT !.touched = TRUE]
InitialDisks == {EmptyDisk, ZeroDisk, FormattedDisk(NumInodes)}
==============================================================================
