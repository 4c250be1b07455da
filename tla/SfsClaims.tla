------------------------------ MODULE SfsClaims ------------------------------
(***************************************************************************)
(* What the README and the comments say the file system does, where the    *)
(* code does something else.  Each formula is refuted by a run.            *)
(***************************************************************************)
EXTENDS Sfs

Allocated(i) == sBlock.ibmap[i] = 1

(***************************************************************************)
(* sfs_readdir: "the whole directory is read in a single readdir           *)
(* operation".  indexed_remove_from_direntry leaves a hole, and the walk   *)
(* stops at it.                                                            *)
(***************************************************************************)
ReaddirListsAll ==
    \A p \in Slots :
        Children(inodes[p].dirContents) \subseteq Listed(inodes[p].dirContents)

(***************************************************************************)
(* README: "supports a hierarchical tree structure".  The parent of an     *)
(* allocated inode is another allocated inode.  sfs_rmdir removes          *)
(* directories with children, and create_inode finds removed directories   *)
(* as parents: the inode it takes may become its own parent.               *)
(***************************************************************************)
ParentsAllocated ==
    \A i \in Slots \ {0} :
        Allocated(i) /\ inodes[i].fileName # "" =>
            Allocated(getParentFcb(i)) /\ getParentFcb(i) # i

(***************************************************************************)
(* fuse.h: an operation "should return the negated error value (-errno)    *)
(* directly".  What was answered with 0 was done: after a create or mkdir  *)
(* the path is found, after an unlink or rmdir it is not.  create_inode    *)
(* fails without setting errno, so sfs_create may return -0; sfs_mkdir     *)
(* returns 0 whatever happens; and remove_inode clears the bit and keeps   *)
(* the names that findFileOrDir goes by.                                   *)
(***************************************************************************)
SuccessMeansDone ==
    [][\A path \in Paths : ret' = 0 =>
        /\ \/ \E mode \in CreateModes : sfs_create(path, mode)
           \/ \E mode \in MkdirModes : sfs_mkdir(path, mode)
           => findFileOrDir(path)' # {}
        /\ sfs_unlink(path) \/ sfs_rmdir(path) => findFileOrDir(path)' = {}]_vars

(* The step of a create or mkdir that takes inode i. *)
Takes(i) == up /\ up' /\ sBlock.ibmap[i] # 1 /\ sBlock'.ibmap[i] = 1

(***************************************************************************)
(* sfs_create: "If the file does not exist, first create it".  An inode is *)
(* taken for a path only if findFileOrDir does not find it.  The lookup is *)
(* another request, create_inode does not repeat it, and the kernel's lock *)
(* does not help against a path with the same last two names: of two       *)
(* clients that create /a/b and /a/a/b both go ahead.                      *)
(***************************************************************************)
CreatesAbsentOnly ==
    [][\A path \in Paths, i \in Slots :
        (\E mode \in CreateModes : sfs_create(path, mode)) /\ Takes(i)
        => findFileOrDir(path) = {}]_vars

(***************************************************************************)
(* README: "Each directory's inode contains an array of pointers to the    *)
(* inodes of the files within its directory"; create_inode: "write to      *)
(* disk".  A new inode is in the array of its parent, and on the disk when *)
(* the create is answered.  add_to_direntry does not find out that it met  *)
(* no free entry, as its loop never gets beyond MAX_FILES_IN_DIR, and      *)
(* answers TRUE; the loop of the flush leaves out the last inode.          *)
(***************************************************************************)
CreatedIsStored ==
    [][\A i \in Slots : Takes(i) =>
        /\ i \in Children(inodes'[inodes'[i].parent_inumber].dirContents)
        /\ disk'.inodes[i] = inodes'[i]]_vars
==============================================================================
