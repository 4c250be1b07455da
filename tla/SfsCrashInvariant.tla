-------------------------- MODULE SfsCrashInvariant --------------------------
(***************************************************************************)
(* The inductive invariant of SfsCrash.  A cut flush mixes inodes of two   *)
(* states of the table and '0' characters, so entries and their inodes     *)
(* need not agree any more.  What is left is what each inode says of       *)
(* itself, and that the names stay distinct.                               *)
(***************************************************************************)
EXTENDS SfsCrash, SfsInvariant

WildName == NameField \cup {PadFCB.fileName}

(* An inode, or a mixture of an inode and '0' characters. *)
WildFCB == [fileName : WildName, parentDir : WildName,
            inumber : Slots \cup {PAD_SHORT},
            parent_inumber : ParentNumber \cup {PAD_SHORT},
            mode : SHRT_MIN .. SHRT_MAX,
            dirContents : [Idx -> Entries \cup {WILD}]]

CrashTypeOK ==
    /\ inodes \in [Slots -> WildFCB]
    /\ sBlock \in SuperBlock
    /\ disk \in [touched : BOOLEAN, sBlock : SuperBlock \cup {PadSuperBlock},
                 inodes : [Slots -> WildFCB]]
    /\ up \in BOOLEAN
    /\ errno \in Int
    /\ ret \in Int
    /\ pending \subseteq Paths
    /\ cuts \in 0 .. MaxCuts

(* An inode has its own number, 0, or none; its own if it has a name. *)
Numbered(table) ==
    \A i \in Slots :
        /\ table[i].inumber \in {0, i, PAD_SHORT}
        /\ Named(table, i) => i # 0 /\ table[i].inumber = i

WildTableInv(table) ==
    /\ Numbered(table)
    /\ NamesDistinct(table)
    /\ TailRules(table)

(* Whatever a kill inside flushAllInodesTodisk left, the inodes in memory and on
   the disk have distinct names and, if named, their own numbers; the scan of
   remove_from_direntry stays in each array; and between two requests the disk
   holds what memory holds, but for the last inode, which is blank there. *)
CrashInv ==
    /\ CrashTypeOK
    /\ WildTableInv(inodes)
    /\ WildTableInv(disk.inodes)
    /\ CountOK(sBlock)
    /\ CountOK(disk.sBlock)
    /\ disk.inodes[NumInodes - 1] = BlankFCB
    /\ DiskCurrent
    /\ PendingAbsent
    /\ ~up => inodes = BlankTable /\ sBlock = BlankSuperBlock /\ pending = {}
    /\ UntouchedEmpty
==============================================================================
