------------------------------ MODULE MCDaemon ------------------------------
(***************************************************************************)
(* Daemon on small instances: MCDaemon.cfg (safety and liveness) and       *)
(* MCDaemonCancel.cfg (what a cancel frame is answered).  Symmetry is for  *)
(* the second only: it is not sound for liveness.                          *)
(***************************************************************************)
EXTENDS Daemon, TLC

Interchangeable == Permutations(Requests) \cup Permutations(Digests)
=============================================================================
