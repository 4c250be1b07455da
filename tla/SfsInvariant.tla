----------------------------- MODULE SfsInvariant -----------------------------
(***************************************************************************)
(* The inductive invariant of Sfs.  It says of the table in memory, and of *)
(* the table on the disk that the next mount will load, what keeps the     *)
(* properties of Sfs true.                                                 *)
(***************************************************************************)
EXTENDS Sfs

Named(table, i) == table[i].fileName \in Names

(* An inode that has a file name has its numbers too, and is not "/". *)
NamedNumbered(table) ==
    /\ table[0].inumber = 0
    /\ \A i \in Slots : Named(table, i) =>
        i # 0 /\ table[i].inumber = i /\ table[i].parent_inumber \in Slots

HasNames(table, i, path) ==
    /\ table[i].fileName = relativeName(path)
    /\ table[i].parentDir = getRelativeParentName(path)

NamesDistinct(table) ==
    \A path \in Paths : ~HasAlias(path) =>
        \A i, j \in Slots :
            HasNames(table, i, path) /\ HasNames(table, j, path) => i = j

TailRules(table) == \A p \in Slots : TailRule(table[p].dirContents)

(* An entry points at an allocated inode, which points back or is lost. *)
EntryOK(table, sb, p, c) ==
    /\ c # 0 /\ sb.ibmap[c] = 1
    /\ \/ table[c].inumber = c /\ table[c].parent_inumber = p
       \/ LostInode(table, c)

EntriesOK(table, sb) ==
    \A p \in Slots, k \in Idx :
        table[p].dirContents[k] # NULL =>
            EntryOK(table, sb, p, table[p].dirContents[k])

EntriesDistinct(table) ==
    \A p, q \in Slots, k, l \in Idx :
        /\ table[p].dirContents[k] # NULL
        /\ table[p].dirContents[k] = table[q].dirContents[l]
        => p = q /\ k = l

(* A superblock that was never laid out counts no inodes. *)
CountOK(sb) == sb.inodeStartIndex = 0 => sb.numInodes = 0

(* A table without inodes has no names and no entries. *)
NothingBeyond(table, sb) ==
    sb.numInodes = 0 =>
        \A i \in Slots : /\ ~Named(table, i)
                         /\ table[i].dirContents = initDirContents

TableInv(table, sb) ==
    /\ NamedNumbered(table)
    /\ NamesDistinct(table)
    /\ TailRules(table)
    /\ EntriesOK(table, sb)
    /\ EntriesDistinct(table)
    /\ CountOK(sb)
    /\ NothingBeyond(table, sb)

(* What the kernel is to create was absent, and still is. *)
PendingAbsent ==
    \A path \in pending : ~HasAlias(path) =>
        \A i \in 0 .. sBlock.numInodes - 1 : ~Carries(i, path)

(* A disk file of length 0 has no superblock and no inodes. *)
UntouchedEmpty == ~disk.touched => disk = EmptyDisk

(***************************************************************************)
(* Both tables are consistent, the disk's last inode was never written,    *)
(* and a process that is not there has no memory and no requests.          *)
(***************************************************************************)
IInv ==
    /\ TypeOK
    /\ TableInv(inodes, sBlock)
    /\ TableInv(disk.inodes, disk.sBlock)
    /\ disk.inodes[NumInodes - 1] = BlankFCB
    /\ DiskCurrent
    /\ PendingAbsent
    /\ ~up => inodes = BlankTable /\ sBlock = BlankSuperBlock /\ pending = {}
    /\ UntouchedEmpty
==============================================================================
