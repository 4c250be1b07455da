------------------------------- MODULE Padding -------------------------------
(***************************************************************************)
(* What the '0' characters that every padded write of block.c stores first *)
(* read as: ints and shorts of 0x30 bytes, a name without an end that no   *)
(* other equals, and wild pointers.                                        *)
(***************************************************************************)
EXTENDS InodeTable

CONSTANT WILD    \* a pointer made of '0' characters

ASSUME WildAssumption == WILD \notin 0 .. NumInodes - 1 /\ WILD # NULL

PAD_SHORT == 12336
PAD_INT == 808464432

PadFCB == [fileName |-> "0...", parentDir |-> "0...",
           inumber |-> PAD_SHORT, parent_inumber |-> PAD_SHORT,
           mode |-> PAD_SHORT, dirContents |-> [k \in Idx |-> WILD]]

(* The field has no terminating zero, so no file name compares equal. *)
ASSUME PadAssumption == PadFCB.fileName \notin Names

PadSuperBlock == [numInodes |-> PAD_INT, inodeStartIndex |-> PAD_INT,
                  ibmap |-> [i \in Slots |-> 48]]
==============================================================================
