------------------------------- MODULE SfsCrash -------------------------------
(***************************************************************************)
(* Sfs with the process killed inside a flush.  Module BlockLayer shows    *)
(* what the disk then holds: the new superblock, the new inodes up to some *)
(* point, there perhaps an inode of '0' characters, and the old inodes     *)
(* behind; or a superblock of '0' characters and the old inodes.  This     *)
(* module shows what mounts and requests make of such a disk.              *)
(***************************************************************************)
EXTENDS Sfs, Padding

CONSTANT MaxCuts    \* bound on the flushes that are cut short

VARIABLE cuts

crashVars == <<inodes, sBlock, disk, up, errno, ret, pending, cuts>>

ASSUME CutsAssumption == MaxCuts \in Nat

------------------------------------------------------------------------------
(***************************************************************************)
(* A flush that ends at inode k, before it is written or, if padded, after *)
(* its first pwrite.                                                       *)
(***************************************************************************)
(* Mutant: the inodes are written first. *)
cut_inodes_first(sb, table, k, padded) ==
    [touched |-> TRUE, sBlock |-> disk.sBlock,
     inodes |-> [i \in Slots |->
        IF i < k THEN table[i]
        ELSE IF i = k /\ padded THEN PadFCB ELSE disk.inodes[i]]]

CutFlush(sb, table, k, padded) ==
    [touched |-> TRUE, sBlock |-> sb,
     inodes |-> [i \in Slots |->
        IF i < k THEN table[i]
        ELSE IF i = k /\ padded THEN PadFCB ELSE disk.inodes[i]]]

CutSuperBlock == [disk EXCEPT !.sBlock = PadSuperBlock]

(* Mutant: the loop goes on to the last inode. *)
cut_reaches_last(sb, table) ==
    /\ cuts < MaxCuts /\ cuts' = cuts + 1
    /\ \/ disk' = CutSuperBlock
       \/ \E k \in 0 .. sb.numInodes - 1, padded \in BOOLEAN :
            disk' = CutFlush(sb, table, k, padded)
    /\ ProcessEnds

CutAt(sb, table) ==
    /\ cuts < MaxCuts /\ cuts' = cuts + 1
    /\ \/ disk' = CutSuperBlock
       \/ \E k \in 0 .. sb.numInodes - 2, padded \in BOOLEAN :
            disk' = CutFlush(sb, table, k, padded)
    /\ ProcessEnds

(* The requests that flush, and sfs_destroy, up to the cut. *)
CutCreate(path, mode) ==
    /\ up /\ path \in pending
    /\ \E i \in Slots, parent \in findParent(path) :
        /\ FreeInode(i)
        /\ CutAt([sBlock EXCEPT !.ibmap[i] = 1], Linked(parent, i, path, mode))

(* Entries that are followed when the inode is removed. *)
FollowsWild(f) ==
    getParentFcb(f) \in Slots =>
        \E k \in Idx : inodes[getParentFcb(f)].dirContents[k] = WILD

(* What the kernel sends an unlink or rmdir for. *)
Removable(path) ==
    /\ up /\ ~Locked(ParentPath(path))
    /\ IsReg(path) \/ (IsDir(path) /\ ~Locked(path))

CutRemove(path) ==
    /\ Removable(path)
    /\ \E f \in findFileOrDir(path) :
        /\ ~FollowsWild(f)
        /\ CutAt([sBlock EXCEPT !.ibmap[inodes[f].inumber] = 0],
                 [inodes EXCEPT ![getParentFcb(f)].dirContents =
                      remove_from_direntry(getParentFcb(f), f)])

CutDestroy == up /\ sBlock.inodeStartIndex # 0 /\ CutAt(sBlock, inodes)

(* formatDisk, which runs for an empty file only, up to the cut. *)
CutFormat ==
    /\ ~up /\ ~disk.touched
    /\ cuts < MaxCuts /\ cuts' = cuts + 1
    /\ \E sb \in {PadSuperBlock, FormattedSuperBlock(0)}, root \in {BlankFCB, PadFCB} :
        /\ sb = PadSuperBlock => root = BlankFCB
        /\ disk' = [touched |-> TRUE, sBlock |-> sb,
                    inodes |-> [BlankTable EXCEPT ![0] = root]]
    /\ UNCHANGED <<inodes, sBlock, up, errno, ret, pending>>

------------------------------------------------------------------------------
(***************************************************************************)
(* Requests on a table with inodes of '0' characters.  To follow a wild    *)
(* pointer ends the process.  Those that only look a path up are left out, *)
(* and removals of what is gone: they change errno and ret, as in Sfs.     *)
(***************************************************************************)
WildRemove(path) ==
    /\ Removable(path)
    /\ \E f \in findFileOrDir(path) : FollowsWild(f)
    /\ ProcessEnds /\ UNCHANGED <<disk, cuts>>

ListsWild(path) ==
    \E dir \in findFileOrDir(path), k \in Idx : inodes[dir].dirContents[k] = WILD

WildReaddir(path) ==
    /\ up /\ ListsWild(path)
    /\ ProcessEnds /\ UNCHANGED <<disk, cuts>>

TameRemove(path) ==
    /\ Removable(path) /\ \A f \in findFileOrDir(path) : ~FollowsWild(f)
    /\ sfs_unlink(path) \/ sfs_rmdir(path)

OtherRequest(path) ==
    \/ LookupToCreate(path)
    \/ \E mode \in CreateModes : sfs_create(path, mode)
    \/ \E mode \in MkdirModes : sfs_mkdir(path, mode)

ListRequest(path) ==
    ~ListsWild(path) /\ (sfs_readdir(path) \/ ReaddirFaults(path))

(* A mount of a superblock of '0' characters dies in the load loop. *)
CrashMount ==
    \/ MountEmpty
    \/ disk.sBlock # PadSuperBlock /\ MountTouched
    \/ MountReadError

CrashInit == Init /\ cuts = 0

CrashNext ==
    \/ \E path \in Paths :
        \/ OtherRequest(path) /\ UNCHANGED cuts
        \/ TameRemove(path) /\ UNCHANGED cuts
        \/ WildRemove(path)
        \/ \E mode \in CreateModes : CutCreate(path, mode)
        \/ \E mode \in MkdirModes : mode = 493 /\ CutCreate(path, S_IFDIR)
        \/ CutRemove(path)
    \/ \E path \in Paths \cup {<<>>} :
        \/ ListRequest(path) /\ UNCHANGED cuts
        \/ WildReaddir(path)
    \/ CrashMount /\ UNCHANGED cuts
    \/ sfs_destroy /\ UNCHANGED cuts
    \/ CutDestroy
    \/ CutFormat
    \/ Kill /\ UNCHANGED cuts

CrashSpec == CrashInit /\ [][CrashNext]_crashVars

------------------------------------------------------------------------------
(***************************************************************************)
(* Properties.  NamesUnambiguous and ScanInBounds of Sfs hold here, too.   *)
(***************************************************************************)
DiskChildren(p) == Children(disk.inodes[p].dirContents) \ {WILD}

(***************************************************************************)
(* The disk never gains an entry for an inode that it has as free, even if *)
(* the flush of a create is cut short: the superblock goes first.  So what *)
(* an interrupted create leaves behind is not taken again.                 *)
(***************************************************************************)
GainedIsAllocated ==
    [][\A p \in Slots : \A c \in DiskChildren(p)' \ DiskChildren(p) :
        disk'.sBlock.ibmap[c] = 1]_crashVars

(***************************************************************************)
(* The disk never loses an entry of an inode that it has as allocated,     *)
(* even if the flush of a remove is cut short, but for those of the one    *)
(* directory that the cut leaves as '0' characters.                        *)
(***************************************************************************)
LostIsFree ==
    [][\A p \in Slots : \A c \in DiskChildren(p) \ DiskChildren(p)' :
        disk'.sBlock.ibmap[c] = 0 \/ disk'.inodes[p] = PadFCB]_crashVars

(* The inodes that a step changes on the disk, or leaves as '0's there. *)
ChangedInodes == {i \in Slots : disk'.inodes[i] # disk.inodes[i]}
PaddedInodes == {i \in Slots : disk'.inodes[i] = PadFCB}

(***************************************************************************)
(* However the process ends, the disk changes in three inodes at most: the *)
(* two of the interrupted request, and one that is now '0' characters.     *)
(* The flush rewrites all others with what the disk has already.           *)
(***************************************************************************)
DamageIsLocal ==
    [][up /\ ~up' =>
        /\ Cardinality(ChangedInodes \cap PaddedInodes) <= 1
        /\ Cardinality(ChangedInodes \ PaddedInodes) <= 2]_crashVars
==============================================================================
