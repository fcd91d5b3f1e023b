------------------------------ MODULE RevisionStore -----------------------------
(***************************************************************************)
(* What materialized storage promises: a revision appears at once and      *)
(* whole, is never altered, may gain the descriptor it lacks, and          *)
(* disappears at once.  Its lifecycle is the only thing that changes.      *)
(***************************************************************************)
CONSTANTS Revisions, Absent

Retentions == {"retained", "ephemeral"}
Lifecycle == [retention: Retentions, pinned: BOOLEAN]
Default == [retention |-> "retained", pinned |-> FALSE]
Contents == {"good", "bad", "none"}
Stored == [payload: Contents, descriptor: Contents, lifecycle: Lifecycle]

VARIABLE store      \* the revisions a reader of the storage can see

Whole == [payload |-> "good", descriptor |-> "good", lifecycle |-> Default]

Init == store \in [Revisions -> Stored \cup {Absent}]

Become(r, stored) == store' = [store EXCEPT ![r] = stored]
Appear(r) == store[r] = Absent /\ Become(r, Whole)
Disappear(r) == store[r] # Absent /\ Become(r, Absent)
Describe(r) ==
    /\ store[r] # Absent /\ store[r].payload = "good"
    /\ store[r].descriptor = "none"
    /\ Become(r, [store[r] EXCEPT !.descriptor = "good"])
SetLifecycle(r) ==
    /\ store[r] # Absent
    /\ \E l \in Lifecycle : Become(r, [store[r] EXCEPT !.lifecycle = l])

Next == \E r \in Revisions :
    Appear(r) \/ Disappear(r) \/ Describe(r) \/ SetLifecycle(r)

Spec == Init /\ [][Next]_store
=============================================================================
