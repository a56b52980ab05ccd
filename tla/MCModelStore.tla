---------------------------- MODULE MCModelStore ----------------------------
(***************************************************************************)
(* ModelStore on small instances: MCModelStore.cfg (puts, crashes, edits   *)
(* and damage) and MCModelStoreRollback.cfg (what a rollback selects).     *)
(***************************************************************************)
EXTENDS ModelStore

CONSTANTS blockA, blockB

\* Two contents of different sizes that share no beginning.
TwoContents == {<<blockA>>, <<blockB, blockB>>}

\* Three contents, for a history of two and a current revision.
ThreeContents == TwoContents \cup {<<blockA, blockB>>}
=============================================================================
