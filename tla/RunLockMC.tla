----------------------------- MODULE RunLockMC -----------------------------
(***************************************************************************)
(* Three pids, so that a dead owner, a starting run and a third program    *)
(* meet.                                                                   *)
(***************************************************************************)
EXTENDS RunLock, TLC

Pids == Permutations(Pid)
=============================================================================
