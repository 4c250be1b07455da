------------------------------ MODULE MCScanLoop ------------------------------
(***************************************************************************)
(* All arrays of eight entries, each occupied or not.                      *)
(***************************************************************************)
EXTENDS ScanLoop
OneEntry == {1}
==============================================================================
