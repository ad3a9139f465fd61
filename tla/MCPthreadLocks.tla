--------------------------- MODULE MCPthreadLocks ---------------------------
(* Instances of PthreadLocks for TLC.                                      *)
EXTENDS PthreadLocks
CONSTANTS c1, c2, c3
=============================================================================
