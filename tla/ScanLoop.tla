------------------------------- MODULE ScanLoop -------------------------------
(***************************************************************************)
(* The for loop of indexed_remove_from_direntry, iteration by iteration,   *)
(* over an arbitrary array d.  Module DirContents defines the index the    *)
(* loop yields as a least closed set; this module shows that it is the one *)
(* the loop reaches.                                                       *)
(***************************************************************************)
EXTENDS DirContents

CONSTANT Entry   \* what entries can point at

ASSUME EntryAssumption == NULL \notin Entry

VARIABLES d, i

loopVars == <<d, i>>

LoopInit ==
    /\ d \in [Idx -> Entry \cup {NULL}]
    /\ i = 0

Iterate ==
    /\ i < MAX_FILES_IN_DIR
    /\ i' = ScanStep(d, i)
    /\ UNCHANGED d

LoopSpec == LoopInit /\ [][Iterate]_loopVars

------------------------------------------------------------------------------
(***************************************************************************)
(* When the loop ends, i - 1 is lastEntryInDirentry(d).                    *)
(***************************************************************************)
ExitIsLastEntry == i >= MAX_FILES_IN_DIR => i - 1 = lastEntryInDirentry(d)

(***************************************************************************)
(* Over an array whose last entry is used only when all entries are, the   *)
(* loop ends at MAX_FILES_IN_DIR exactly and reads no entry beyond it.     *)
(***************************************************************************)
ExitInBounds == TailRule(d) => i <= MAX_FILES_IN_DIR
==============================================================================
