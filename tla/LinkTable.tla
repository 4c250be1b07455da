------------------------------ MODULE LinkTable ------------------------------
(***************************************************************************)
(* What create_inode and remove_inode do to allocation and directory links,*)
(* without arrays, holes, names or a disk: a set of allocated inodes, and  *)
(* for each directory the set of its children.  A child is linked in one   *)
(* directory at most and only while allocated.                             *)
(***************************************************************************)
EXTENDS Naturals, FiniteSets

CONSTANTS
    Inode,     \* the inodes
    Root,      \* the inode of "/"
    Last,      \* the inode whose contents do not survive the process
    Capacity   \* the number of children a directory can list

VARIABLES alloc, children

linkVars == <<alloc, children>>

LinkInit ==
    /\ alloc \in {{}, {Root}}
    /\ children = [p \in Inode |-> {}]

(* An empty disk file is given its root. *)
Format ==
    /\ alloc = {}
    /\ alloc' = {Root}
    /\ UNCHANGED children

(* A directory that is full does not list the new child: that is what the *)
(* code does, not what it promises (CreatedIsStored in SfsClaims).        *)
Link(p, c) ==
    /\ c \notin alloc /\ c # Root
    /\ alloc' = alloc \cup {c}
    /\ children' = IF Cardinality(children[p]) = Capacity THEN children
                   ELSE [children EXCEPT ![p] = @ \cup {c}]

(* Afterwards no directory lists the inode.  It may be free already. *)
Unlink(c) ==
    /\ c # Root
    /\ alloc' = alloc \ {c}
    /\ children' = [p \in Inode |-> children[p] \ {c}]

(* The end of the process loses the entries of the last inode. *)
ForgetLast ==
    /\ children' = [children EXCEPT ![Last] = {}]
    /\ UNCHANGED alloc

LinkNext ==
    \/ Format
    \/ \E p, c \in Inode : Link(p, c)
    \/ \E c \in Inode : Unlink(c)
    \/ ForgetLast

LinkSpec == LinkInit /\ [][LinkNext]_linkVars
==============================================================================
