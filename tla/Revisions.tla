----------------------------- MODULE Revisions -----------------------------
(***************************************************************************)
(* What update and rollback of a model are for                             *)
(* (local_data_plane/model_store.py:1, "atomic update and rollback"): the  *)
(* revisions of a model are a stack; an update puts one on top, and a      *)
(* rollback takes the top one away and so selects the one before it.       *)
(***************************************************************************)
EXTENDS Naturals, Sequences

CONSTANTS Models,      \* model ids
          Contents     \* what a revision may contain

VARIABLES revisions    \* the revisions of each model, the selected one last

Init == revisions = [m \in Models |-> <<>>]

Update(m, c) == revisions' = [revisions EXCEPT ![m] = Append(@, c)]

Rollback(m) ==
    /\ Len(revisions[m]) > 1
    /\ revisions' = [revisions EXCEPT ![m] = SubSeq(@, 1, Len(@) - 1)]

Next == \E m \in Models : Rollback(m) \/ \E c \in Contents : Update(m, c)

Spec == Init /\ [][Next]_revisions
=============================================================================
