--------------------------------- MODULE Sfs ---------------------------------
(***************************************************************************)
(* The sfs process: the FUSE operations of sfs.c over the inode table, one *)
(* request at a time (montiere.sh mounts with -s), mounts and unmounts,    *)
(* and the process being killed between two requests.                      *)
(*                                                                         *)
(* The kernel and libfuse are external.  Before a create or mkdir the      *)
(* kernel looks the path up, with requests of their own: between them and  *)
(* the create it keeps the directory locked, and answers other clients'    *)
(* requests for other directories.  It knows directories by their paths.   *)
(* Unlink and rmdir follow a lookup, too; by the time they come, what it   *)
(* found may have become another file.  The other requests are for what    *)
(* was opened or listed at any time before, so they come for any path.     *)
(***************************************************************************)
EXTENDS InodeTable

CONSTANTS
    TrashPaths,   \* the paths "/.Trash" and "/.Trash-xxxxx"
    CreateModes,  \* mode_t values of create: S_IFREG and permissions
    MkdirModes,   \* mode_t values of mkdir: permissions only
    WriteSizes    \* the sizes write is called with

VARIABLES
    up,      \* the process runs and sfs_init is done
    errno,   \* errno of the process
    ret,     \* what the last operation returned
    pending  \* the paths that the kernel has found absent and is to create

vars == <<inodes, sBlock, disk, up, errno, ret, pending>>

ASSUME TrashAssumption == TrashPaths \subseteq {path \in Paths : Len(path) = 1}

ASSUME ModesAssumption == CreateModes \subseteq Nat /\ MkdirModes \subseteq Nat

S_IFREG == 32768
ENOENT == 2
EIO == 5
EFBIG == 27
BLOCK_SIZE == 4096

S_ISDIR(mode) == (mode \div 4096) % 16 = 4
S_ISREG(mode) == (mode \div 4096) % 16 = 8

------------------------------------------------------------------------------
(***************************************************************************)
(* The stat that sfs_getattr fills in, its mode and its return value.  The *)
(* buffer comes zeroed from libfuse; a mode that is neither rwxr-xr-x, nor *)
(* S_IFDIR, nor S_IFREG with rw-r--r-- (as a short), leaves st_mode 0.     *)
(***************************************************************************)
StMode(mode) ==
    CASE mode \in {493, 16384} -> S_IFDIR
      [] mode = -32348 -> S_IFREG
      [] OTHER -> 0

Stat(path) ==
    IF path = <<>> THEN [ret |-> 0, st_mode |-> S_IFDIR + 493]
    ELSE IF path \in TrashPaths THEN [ret |-> 0, st_mode |-> S_IFREG + 438]
    ELSE IF findFileOrDir(path) = {} THEN [ret |-> -ENOENT, st_mode |-> 0]
    ELSE [ret |-> 0,
          st_mode |-> StMode(inodes[CHOOSE f \in findFileOrDir(path) : TRUE].mode)]

(* What the kernel concludes from the lookups it makes. *)
IsDir(path) == Stat(path).ret = 0 /\ S_ISDIR(Stat(path).st_mode)
IsReg(path) == Stat(path).ret = 0 /\ S_ISREG(Stat(path).st_mode)
IsAbsent(path) == Stat(path).ret = -ENOENT
Walk(path) == \A n \in 0 .. Len(path) - 1 : IsDir(SubSeq(path, 1, n))

(* The kernel changes one entry of a directory at a time. *)
Locked(dir) == \E path \in pending : ParentPath(path) = dir

Reply(r) == ret' = r /\ UNCHANGED <<up, errno>>
Fail(e) == ret' = -e /\ errno' = e /\ UNCHANGED up

(* The lookup in front of a create or mkdir, a getattr like any other. *)
LookupToCreate(path) ==
    /\ up /\ Walk(path) /\ IsAbsent(path) /\ ~Locked(ParentPath(path))
    /\ pending' = pending \cup {path}
    /\ Reply(Stat(path).ret) /\ UNCHANGED tableVars

------------------------------------------------------------------------------
(***************************************************************************)
(* Operations that change the table.  None of them looks whether the path  *)
(* is there already.                                                       *)
(***************************************************************************)
sfs_create(path, mode) ==
    /\ up /\ path \in pending
    /\ pending' = pending \ {path}
    /\ \/ create_inode(path, mode) /\ Reply(0)
       \* create_inode gives NULL and no errno of its own
       \/ ~CanCreate(path) /\ Reply(-errno) /\ UNCHANGED tableVars

(***************************************************************************)
(* Only rwxr-xr-x makes a directory, and the result is always 0.  The      *)
(* S_IFREG branch is dead code: no mode_t equals the negative constant.    *)
(***************************************************************************)
sfs_mkdir(path, mode) ==
    /\ up /\ path \in pending
    /\ pending' = pending \ {path}
    /\ \/ mode = 493 /\ create_inode(path, S_IFDIR)
       \/ (mode # 493 \/ ~CanCreate(path)) /\ UNCHANGED tableVars
    /\ Reply(0)

RemoveRequest(path) ==
    \/ remove_inode(path) /\ Reply(0)
    \/ findFileOrDir(path) = {} /\ Fail(ENOENT) /\ UNCHANGED tableVars

sfs_unlink(path) ==
    /\ up /\ (IsReg(path) \/ IsAbsent(path)) /\ ~Locked(ParentPath(path))
    /\ RemoveRequest(path)
    /\ UNCHANGED pending

sfs_rmdir(path) ==
    /\ up /\ (IsDir(path) \/ IsAbsent(path))
    /\ ~Locked(ParentPath(path)) /\ ~Locked(path)
    /\ RemoveRequest(path)
    /\ UNCHANGED pending

------------------------------------------------------------------------------
(***************************************************************************)
(* Operations that leave the table alone.                                  *)
(***************************************************************************)
Lookup(path) ==
    /\ up
    /\ IF findFileOrDir(path) # {} THEN Reply(0) ELSE Fail(ENOENT)
    /\ UNCHANGED <<tableVars, pending>>

sfs_getattr(path) ==
    up /\ Reply(Stat(path).ret) /\ UNCHANGED <<tableVars, pending>>

sfs_open(path) == Lookup(path)
sfs_release(path) == Lookup(path)
sfs_read(path) == Lookup(path)
sfs_opendir(path) == Lookup(path)
sfs_releasedir == up /\ Reply(0) /\ UNCHANGED <<tableVars, pending>>

(* sizeof(block) / sizeof(block[0]) of a char[60]. *)
how_many_pointers == 60
WriteFits(size) == size <= how_many_pointers * BLOCK_SIZE

(* Nothing is stored and the result is always -1; only errno differs. *)
sfs_write(path, size) ==
    /\ up
    /\ ret' = -1
    /\ errno' = IF findFileOrDir(path) = {} THEN ENOENT
                ELSE IF WriteFits(size) THEN errno ELSE EFBIG
    /\ UNCHANGED <<up, tableVars, pending>>

(***************************************************************************)
(* The walk of sfs_readdir has no bound: over a full array it reads on in  *)
(* the next inode's fileName.  A blank name reads as NULL and ends it.     *)
(* Otherwise the bytes of the name are used as a pointer.                  *)
(***************************************************************************)
ReaddirOverruns(dir) ==
    /\ Full(inodes[dir].dirContents)
    /\ dir + 1 \in Slots /\ inodes[dir + 1].fileName # ""

sfs_readdir(path) ==
    /\ up
    /\ \A dir \in findFileOrDir(path) : ~ReaddirOverruns(dir)
    /\ Reply(IF findFileOrDir(path) = {} THEN -1 ELSE 0)
    /\ UNCHANGED <<tableVars, pending>>

------------------------------------------------------------------------------
(***************************************************************************)
(* The process.  Its globals start zeroed and vanish with it, and so do    *)
(* the requests that wait for it.                                          *)
(***************************************************************************)
ProcessEnds ==
    /\ up' = FALSE
    /\ inodes' = BlankTable
    /\ sBlock' = BlankSuperBlock
    /\ errno' = 0
    /\ ret' = 0
    /\ pending' = {}

(* The wild pointer of an overrunning walk: a crash, or garbage names. *)
ReaddirFaults(path) ==
    /\ up
    /\ \E dir \in findFileOrDir(path) : ReaddirOverruns(dir)
    /\ \/ ProcessEnds /\ UNCHANGED disk
       \/ Reply(0) /\ UNCHANGED <<tableVars, pending>>

(***************************************************************************)
(* sfs_init.  The superblock read returns 0 only for an empty file, so     *)
(* formatDisk always runs with diskSize 0.  A read error is only logged.   *)
(***************************************************************************)
MountEmpty ==
    /\ ~up /\ ~disk.touched
    /\ formatDisk(0)
    /\ up' = TRUE /\ UNCHANGED <<errno, ret, pending>>

MountTouched ==
    /\ ~up /\ disk.touched
    /\ loadDisk(disk)
    /\ up' = TRUE /\ UNCHANGED <<errno, ret, pending>>

MountReadError ==
    /\ ~up
    /\ up' = TRUE /\ errno' = EIO /\ UNCHANGED <<ret, pending, tableVars>>

sfs_init == MountEmpty \/ MountTouched \/ MountReadError

sfs_destroy ==
    /\ up /\ disk' = flushAllInodesTodisk(sBlock, inodes)
    /\ ProcessEnds

Kill == up /\ ProcessEnds /\ UNCHANGED disk

------------------------------------------------------------------------------
Init ==
    /\ disk \in InitialDisks
    /\ up = FALSE
    /\ inodes = BlankTable
    /\ sBlock = BlankSuperBlock
    /\ errno = 0
    /\ ret = 0
    /\ pending = {}

Request(path) ==
    \/ LookupToCreate(path)
    \/ \E mode \in CreateModes : sfs_create(path, mode)
    \/ \E mode \in MkdirModes : sfs_mkdir(path, mode)
    \/ sfs_unlink(path)
    \/ sfs_rmdir(path)
    \/ sfs_getattr(path)
    \/ sfs_open(path)
    \/ sfs_release(path)
    \/ sfs_read(path)
    \/ \E size \in WriteSizes : sfs_write(path, size)

DirRequest(path) ==
    \/ sfs_opendir(path)
    \/ sfs_readdir(path)
    \/ ReaddirFaults(path)

Next ==
    \/ \E path \in Paths : Request(path)
    \/ \E path \in Paths \cup {<<>>} : DirRequest(path)
    \/ sfs_releasedir
    \/ sfs_init
    \/ sfs_destroy
    \/ Kill

Spec == Init /\ [][Next]_vars

------------------------------------------------------------------------------
(***************************************************************************)
(* Properties.                                                             *)
(***************************************************************************)
TypeOK ==
    /\ inodes \in [Slots -> FCB]
    /\ sBlock \in SuperBlock
    /\ disk \in [touched : BOOLEAN, sBlock : SuperBlock, inodes : [Slots -> FCB]]
    /\ up \in BOOLEAN
    /\ errno \in Int
    /\ ret \in Int
    /\ pending \subseteq Paths

(***************************************************************************)
(* The index indexed_remove_from_direntry computes with its double step is *)
(* an index of the array, in every directory and after every sequence of   *)
(* requests: the code never reads or clears dirContents[MAX_FILES_IN_DIR]. *)
(***************************************************************************)
ScanInBounds ==
    \A p \in Slots : lastEntryInDirentry(inodes[p].dirContents) \in Idx

(* Two paths are alias if they end in the same two names. *)
SameNames(path, other) ==
    /\ relativeName(path) = relativeName(other)
    /\ getRelativeParentName(path) = getRelativeParentName(other)

HasAlias(path) == \E other \in Paths \ {path} : SameNames(path, other)

(***************************************************************************)
(* No two inodes, free ones included, carry the names of a path that has   *)
(* no alias, so what findFileOrDir returns for it does not depend on the   *)
(* order of its search and a new inode never hides an old one.  The lookup *)
(* and the create are two requests and create_inode checks nothing; but    *)
(* the kernel lets nobody else into the directory, and no request for      *)
(* another one makes such an inode.  (For paths with an alias, see         *)
(* CreatesAbsentOnly in SfsClaims.)                                        *)
(***************************************************************************)
NamesUnambiguous ==
    \A path \in Paths : ~HasAlias(path) =>
        \A i, j \in Slots : Carries(i, path) /\ Carries(j, path) => i = j

(***************************************************************************)
(* Every directory entry, stale dirContents of removed directories         *)
(* included, points at an inode that is allocated and is not "/": when     *)
(* create_inode takes a free inode, nothing lists it already.              *)
(***************************************************************************)
EntriesAllocated ==
    \A p \in Slots : \A c \in Children(inodes[p].dirContents) :
        sBlock.ibmap[c] = 1 /\ c # 0

(***************************************************************************)
(* An inode is pointed at by one entry of one directory at most, so        *)
(* removing it from its parent removes it from the whole table.            *)
(***************************************************************************)
EntriesUnique ==
    \A p, q \in Slots, k, l \in Idx :
        /\ inodes[p].dirContents[k] # NULL
        /\ inodes[p].dirContents[k] = inodes[q].dirContents[l]
        => p = q /\ k = l

(***************************************************************************)
(* The inode an entry points at has the directory as its parent_inumber    *)
(* and its own index as its inumber, the two numbers remove_inode relies   *)
(* on.  The exception is the last inode, which no flush writes: after a    *)
(* remount the entry is there and the inode is blank.                      *)
(***************************************************************************)
LostInode(table, c) == c = NumInodes - 1 /\ table[c] = BlankFCB

EntriesBackLinked ==
    \A p \in Slots : \A c \in Children(inodes[p].dirContents) :
        \/ inodes[c].inumber = c /\ inodes[c].parent_inumber = p
        \/ LostInode(inodes, c)

(* The process serves a disk whose superblock it has read or written. *)
Mounted == up /\ sBlock.inodeStartIndex # 0

(***************************************************************************)
(* Between two requests the disk holds the superblock and every inode but  *)
(* the last as memory has them, so killing the process loses no completed  *)
(* request on those.                                                       *)
(***************************************************************************)
DiskCurrent ==
    Mounted =>
        /\ disk.touched /\ disk.sBlock = sBlock
        /\ \A i \in 0 .. sBlock.numInodes - 2 : disk.inodes[i] = inodes[i]

(***************************************************************************)
(* No request renames or moves an inode that stays allocated: create_inode *)
(* and remove_inode touch the names of free inodes only.                   *)
(***************************************************************************)
AllocatedKeepsNames ==
    [][up /\ up' =>
        \A i \in Slots : sBlock.ibmap[i] = 1 /\ sBlock'.ibmap[i] = 1 =>
            /\ inodes'[i].fileName = inodes[i].fileName
            /\ inodes'[i].parentDir = inodes[i].parentDir]_vars

(***************************************************************************)
(* A session whose superblock read failed serves requests from a zeroed    *)
(* superblock, and flushes it at the end; it never changes the disk.       *)
(***************************************************************************)
FailedReadKeepsDisk ==
    [][up /\ sBlock.inodeStartIndex = 0 => UNCHANGED disk]_vars

(***************************************************************************)
(* The implementation of LinkTable: what memory holds while a disk is      *)
(* mounted, and what the disk holds otherwise.                             *)
(***************************************************************************)
Links == INSTANCE LinkTable WITH
    Inode <- Slots,
    Root <- 0,
    Last <- NumInodes - 1,
    Capacity <- MAX_FILES_IN_DIR,
    alloc <- {i \in Slots : (IF Mounted THEN sBlock ELSE disk.sBlock).ibmap[i] = 1},
    children <- [p \in Slots |->
        Children((IF Mounted THEN inodes ELSE disk.inodes)[p].dirContents)]

(***************************************************************************)
(* Requests, mounts, unmounts and kills change allocation and links only   *)
(* as LinkTable allows: the array edits add or remove exactly the one      *)
(* child, and only the last inode's entries are lost with the process.     *)
(***************************************************************************)
ImplementsLinkTable == Links!LinkSpec
==============================================================================
