-------------------------------- MODULE MCLock --------------------------------
(***************************************************************************)
(* Two clients of one row, who may erase it once, each with one patch it   *)
(* may send twice.                                                         *)
(***************************************************************************)
EXTENDS OptimisticLock
=============================================================================
