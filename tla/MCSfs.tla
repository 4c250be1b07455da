-------------------------------- MODULE MCSfs --------------------------------
(***************************************************************************)
(* Values of the constants of Sfs for the runs.                            *)
(***************************************************************************)
EXTENDS SfsClaims, SfsInvariant, TLC

CONSTANTS n0, n1, n2, n3, n4, n5

(* Two names, three levels: /a/b and /a/a/b have the same last two names. *)
TreeNames == {"a", "b"}
TreePaths == {<<"a">>, <<"a", "a">>, <<"a", "b">>, <<"a", "a", "b">>}

(* Files of one directory, enough to overfill it, and the trash name n0. *)
FileNames == {n1, n2, n3, n4, n5}
FlatNames == FileNames \cup {n0}
FlatPaths == {<<n>> : n \in FlatNames}
FlatTrash == {<<n0>>}
FlatSymmetry == Permutations(FileNames)

(* One directory, one file in it, and the trash name. *)
RequestNames == {"a", ".Trash"}
RequestPaths == {<<"a">>, <<"a", "a">>, <<".Trash">>}
RequestTrash == {<<".Trash">>}
==============================================================================
