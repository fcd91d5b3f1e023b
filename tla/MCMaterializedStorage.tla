------------------------- MODULE MCMaterializedStorage -------------------------
(***************************************************************************)
(* Two revisions, of which the second may be there to begin with in any    *)
(* condition, and three processes that make one call each, one of which    *)
(* may die.                                                                *)
(***************************************************************************)
EXTENDS MaterializedStorage, TLC

CONSTANTS r1, r2

MCRevisions == {r1, r2}
Ephemeral == [retention |-> "ephemeral", pinned |-> FALSE]
Pinned == [retention |-> "ephemeral", pinned |-> TRUE]
There(payload, descriptor, lifecycle) ==
    [payload |-> payload, descriptor |-> descriptor, lifecycle |-> lifecycle,
     temps |-> {}]
MCInitial ==
    {None, There("good", "good", Ephemeral), There("good", "good", Pinned),
     There("good", "none", None), There("bad", "good", None),
     There("good", "bad", None)}
Set(r, retention, pinned) ==
    [op |-> "set", rev |-> r, retention |-> retention, pinned |-> pinned]
MCCalls ==
    {[op |-> "materialize", rev |-> r1], [op |-> "delete", rev |-> r1],
     [op |-> "prune"], Set(r1, None, TRUE), Set(r1, "retained", FALSE)}
Symmetry == Permutations(Clients)
=============================================================================
