----------------------------- MODULE DirContents -----------------------------
(***************************************************************************)
(* The dirContents array of a fileControlBlock (knoten.h) and the code     *)
(* that edits and walks it: add_to_direntry, indexed_remove_from_direntry  *)
(* and initDirContents of DateiSteuerBlock.c, and the walk of sfs_readdir. *)
(*                                                                         *)
(* An entry is a pointer &inodes[c]; the model keeps the index c, or NULL. *)
(* Indices are the C ones, 0 .. MAX_FILES_IN_DIR - 1.                      *)
(***************************************************************************)
EXTENDS Integers

CONSTANTS MAX_FILES_IN_DIR, NULL

(***************************************************************************)
(* knoten.h fixes 30.  The indexed_remove_from_direntry loop steps by two  *)
(* over occupied entries, so it matters that the length is even.           *)
(***************************************************************************)
ASSUME DirAssumption ==
    /\ MAX_FILES_IN_DIR \in Nat \ {0}
    /\ MAX_FILES_IN_DIR % 2 = 0

Idx == 0 .. MAX_FILES_IN_DIR - 1

initDirContents == [k \in Idx |-> NULL]

Full(d) == \A k \in Idx : d[k] # NULL

(* The last entry is in use only when all entries are. *)
TailRule(d) == d[MAX_FILES_IN_DIR - 1] # NULL => Full(d)

(* The inodes the array points at. *)
Children(d) == {d[k] : k \in Idx} \ {NULL}

------------------------------------------------------------------------------
(***************************************************************************)
(* Mutant: the new entry replaces every NULL entry (a missing break).      *)
(***************************************************************************)
add_without_break(d, child) ==
    [k \in Idx |-> IF d[k] = NULL THEN child ELSE d[k]]

(***************************************************************************)
(* Mutant: the free entry is searched from the end of the array.           *)
(***************************************************************************)
add_from_the_end(d, child) ==
    [k \in Idx |-> IF d[k] = NULL /\ \A j \in Idx : j > k => d[j] # NULL
                   THEN child ELSE d[k]]

(***************************************************************************)
(* The first NULL entry becomes the child.  A full array is left alone and *)
(* the function still returns TRUE: its loop ends with i equal to          *)
(* MAX_FILES_IN_DIR and the error branch asks for more.  The dirContents   *)
(* == NULL branch is dead code, the member being an array.                 *)
(***************************************************************************)
add_to_direntry(d, child) ==
    [k \in Idx |-> IF d[k] = NULL /\ \A j \in 0 .. k - 1 : d[j] # NULL
                   THEN child ELSE d[k]]

------------------------------------------------------------------------------
(***************************************************************************)
(* The scan of indexed_remove_from_direntry,                               *)
(*     for (i = 0; i < MAX; i++) if (dirContents[i] != NULL) i++;          *)
(* advances by two over an occupied entry and by one over a NULL one.  The *)
(* values i takes form the least set that has 0 and is closed under the    *)
(* step; the loop leaves at MAX_FILES_IN_DIR, or one beyond it.            *)
(***************************************************************************)
(* Mutant: the extra step is taken over the NULL entries. *)
step_over_null(d, i) == IF d[i] # NULL THEN i + 1 ELSE i + 2

ScanStep(d, i) == IF d[i] # NULL THEN i + 2 ELSE i + 1

ScanClosed(d, V) ==
    /\ 0 \in V
    /\ \A i \in V : i < MAX_FILES_IN_DIR => ScanStep(d, i) \in V

Scanned(d) ==
    {i \in 0 .. MAX_FILES_IN_DIR + 1 :
        \A V \in SUBSET (0 .. MAX_FILES_IN_DIR + 1) :
            ScanClosed(d, V) => i \in V}

(* Mutant: the scan is taken to end at the last index. *)
always_last_index(d) == MAX_FILES_IN_DIR - 1

lastEntryInDirentry(d) ==
    (IF MAX_FILES_IN_DIR + 1 \in Scanned(d) THEN MAX_FILES_IN_DIR + 1
                                             ELSE MAX_FILES_IN_DIR) - 1

(***************************************************************************)
(* Mutant: the removed entry is not overwritten, only the last one goes.   *)
(***************************************************************************)
remove_clears_last(d, k) == [d EXCEPT ![lastEntryInDirentry(d)] = NULL]

(***************************************************************************)
(* Mutant: the last entry is copied over the removed one and not cleared.  *)
(***************************************************************************)
remove_keeps_last(d, k) == [d EXCEPT ![k] = d[lastEntryInDirentry(d)]]

(***************************************************************************)
(* The entry at the scan's last index moves to index k and leaves NULL     *)
(* behind.  The "parent appears to be empty" branch is dead code: the last *)
(* index is never -1.  That it is an index of the array at all is          *)
(* ScanInBounds of module Sfs.                                             *)
(***************************************************************************)
indexed_remove_from_direntry(d, k) ==
    LET last == lastEntryInDirentry(d)
    IN  IF last = k THEN [d EXCEPT ![k] = NULL]
                    ELSE [d EXCEPT ![k] = d[last], ![last] = NULL]

------------------------------------------------------------------------------
(***************************************************************************)
(* What the walk of sfs_readdir passes to filler: it stops at the first    *)
(* NULL, so entries behind a hole are not listed.                          *)
(***************************************************************************)
Listed(d) == {d[k] : k \in {n \in Idx : \A j \in 0 .. n : d[j] # NULL}}
==============================================================================
