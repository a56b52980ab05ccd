------------------------------ MODULE MCKvDisk ------------------------------
(***************************************************************************)
(* KvDisk on small instances: MCKvDisk.cfg (one way to start the engine),  *)
(* MCKvDiskLayout.cfg (with and without DSA).                              *)
(***************************************************************************)
EXTENDS KvDisk, TLC

Interchangeable == Permutations(Tokens)
=============================================================================
