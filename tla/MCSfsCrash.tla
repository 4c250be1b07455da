------------------------------ MODULE MCSfsCrash ------------------------------
(***************************************************************************)
(* Values of the constants of SfsCrash: a file and a directory in "/", and *)
(* a file in the directory.                                                *)
(***************************************************************************)
EXTENDS SfsCrashInvariant

CrashNames == {"a", "b"}
CrashPaths == {<<"a">>, <<"b">>, <<"a", "b">>}
==============================================================================
