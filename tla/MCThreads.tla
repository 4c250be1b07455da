------------------------------ MODULE MCThreads ------------------------------
(***************************************************************************)
(* Values of the constants of Threads: a directory in "/" and files in     *)
(* both, so that two requests can overlap.                                 *)
(***************************************************************************)
EXTENDS Threads

ThreadNames == {"a", "b", "c"}
ThreadPaths == {<<"a">>, <<"b">>, <<"c">>, <<"a", "b">>}
ThreadDirPaths == {<<"a">>}
==============================================================================
