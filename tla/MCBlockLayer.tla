----------------------------- MODULE MCBlockLayer -----------------------------
(***************************************************************************)
(* Values of the constants of BlockLayer: six inodes, so that they fill a  *)
(* block and begin another, in an array of eight: the last inodes are so   *)
(* close to its end that a memset of a block's length goes beyond it.      *)
(***************************************************************************)
EXTENDS BlockLayer

CONSTANTS v1, v2

MCData == {v1, v2}

(* The parent in front of the child, in the next block, and a lone inode. *)
MCChanges == {{0, 4}, {1}}
==============================================================================
