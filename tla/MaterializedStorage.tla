--------------------------- MODULE MaterializedStorage --------------------------
(***************************************************************************)
(* The revisions of one entity in materialized storage                     *)
(* (materialized_storage.py), used by several processes that share nothing *)
(* but the file system: no lock, only staging directories, temporary files *)
(* and renames.  A process may die between any two steps.  Every step      *)
(* reads or changes one path; symbolic links are left out.                 *)
(***************************************************************************)
EXTENDS Integers

CONSTANTS
    Revisions,  \* the revisions of the entity
    Clients,    \* the processes, each making one call at a time
    Calls,      \* the calls they make, see Call
    Initial,    \* the directories there may be to begin with, see Directory
    MaxCalls,   \* bound: calls a process makes
    MaxCrashes, \* bound: processes that die
    None        \* no such path, no such value

Retentions == {"retained", "ephemeral"}
Lifecycle == [retention: Retentions, pinned: BOOLEAN]
Default == [retention |-> "retained", pinned |-> FALSE]

\* Contents are right, wrong or not there; temps are files being written.
Contents == {"good", "bad", "none"}
Directory == [payload: Contents, descriptor: Contents,
              lifecycle: Lifecycle \cup {None}, temps: SUBSET Clients]

\* In a change of the lifecycle None leaves a field as it is.
Call == [op: {"materialize", "delete"}, rev: Revisions] \cup [op: {"prune"}]
        \cup [op: {"set"}, rev: Revisions,
              retention: Retentions \cup {None}, pinned: BOOLEAN \cup {None}]

ASSUME StorageAssumption ==
    /\ Calls \subseteq Call /\ Initial \subseteq Directory \cup {None}
    /\ \A d \in Initial \ {None} : d.temps = {}
    /\ MaxCalls \in Nat /\ MaxCrashes \in Nat
    /\ None \notin Directory \cup Lifecycle \cup Revisions \cup Call
    /\ None \notin [payload: Contents, descriptor: Contents, lifecycle: Lifecycle]
    /\ None \notin Retentions /\ None \notin BOOLEAN
    /\ None \notin {"conflict", "oserror"}

VARIABLES
    dir,        \* the canonical directory of each revision
    staging,    \* the staging directory of each process
    tombstone,  \* the directory it has renamed in order to remove it
    pc,         \* where in its call a process is
    call,       \* the call
    rev,        \* the revision it is about, for prune the current one
    got,        \* the lifecycle it has read
    left,       \* prune: the revisions still to look at
    listed,     \* prune: the revisions found by the listing
    fault,      \* the exception passing through the finally clause
    answer,     \* what the last call returned or raised
    made,       \* calls made
    crashes,    \* processes that died
    free,       \* history: revisions a delete or prune may take away
    disturbed   \* history: the call met damage, a removal, or a bad source

disk == <<dir, staging, tombstone>>
local == <<call, rev, got, left, listed, fault>>
history == <<free, disturbed>>
vars == <<disk, pc, local, answer, made, crashes, history>>

Damaged(r) == /\ dir[r] # None
              /\ dir[r].payload # "good" \/ dir[r].descriptor = "bad"
LifecycleOf(d) == IF d = None \/ d.lifecycle = None THEN Default ELSE d.lifecycle

Init ==
    /\ dir \in [Revisions -> Initial]
    /\ staging = [c \in Clients |-> None] /\ tombstone = staging
    /\ pc = [c \in Clients |-> "idle"] /\ call = staging /\ rev = staging
    /\ got = staging /\ fault = staging /\ answer = staging
    /\ left = [c \in Clients |-> {}] /\ listed = left
    /\ made = [c \in Clients |-> 0] /\ crashes = 0
    /\ free = left /\ disturbed = [c \in Clients |-> FALSE]

-----------------------------------------------------------------------------
(* Helpers.                                                                *)

GoTo(c, place) == pc' = [pc EXCEPT ![c] = place]
Only(c, place) == GoTo(c, place) /\ UNCHANGED <<disk, local, answer>>
SetDir(r, d) == dir' = [dir EXCEPT ![r] = d] /\ UNCHANGED <<staging, tombstone>>

\* The call is over: its local variables are gone.
Return(c, result) ==
    /\ GoTo(c, "idle") /\ answer' = [answer EXCEPT ![c] = result]
    /\ call' = [call EXCEPT ![c] = None] /\ rev' = [rev EXCEPT ![c] = None]
    /\ got' = [got EXCEPT ![c] = None] /\ fault' = [fault EXCEPT ![c] = None]
    /\ left' = [left EXCEPT ![c] = {}] /\ listed' = [listed EXCEPT ![c] = {}]
Answer(c, result) == Return(c, result) /\ UNCHANGED disk

\* An exception inside the try of _materialize.
Fault(c, exception) ==
    /\ GoTo(c, "cleanup") /\ fault' = [fault EXCEPT ![c] = exception]
    /\ UNCHANGED <<disk, call, rev, got, left, listed, answer>>

\* What the properties need to remember of a call while it runs.
Removable(c, r) ==
    LET l == LifecycleOf(dir[r]) IN
    IF call[c].op = "prune" THEN l.retention = "ephemeral" /\ ~l.pinned
    ELSE call[c].op = "delete" /\ call[c].rev = r /\ ~l.pinned
Concerns(c) == IF call[c].op = "prune" THEN Revisions ELSE {call[c].rev}
Running(c) == pc[c] \notin {"idle", "dead"}
Observe ==
    /\ free' = [c \in Clients |->
        IF Running(c)' THEN free[c] \cup {r \in Revisions : Removable(c, r)'}
        ELSE {}]
    /\ disturbed' = [c \in Clients |-> Running(c)' /\
        \/ disturbed[c] \/ fault'[c] = "source"
        \/ \E r \in Concerns(c)' :
            Damaged(r)' \/ (dir[r] # None /\ dir'[r] = None)]

-----------------------------------------------------------------------------
(* Materialize: the source has been read and names revision rev.           *)

Entry(operation) ==
    CASE operation = "materialize" -> "check" [] operation = "prune" -> "list"
      [] OTHER -> "find"
Begin(c) ==
    /\ pc[c] = "idle" /\ made[c] < MaxCalls
    /\ made' = [made EXCEPT ![c] = @ + 1]
    /\ \E k \in Calls :
        /\ call' = [call EXCEPT ![c] = k]
        /\ rev' = [rev EXCEPT ![c] = IF k.op = "prune" THEN None ELSE k.rev]
        /\ GoTo(c, Entry(k.op))
    /\ answer' = [answer EXCEPT ![c] = None]
    /\ UNCHANGED <<disk, got, left, listed, fault, crashes>>

At(c, place) == pc[c] = place /\ UNCHANGED <<made, crashes>>

Check(c) ==
    /\ At(c, "check")
    /\ Only(c, IF dir[rev[c]] # None THEN "require" ELSE "stage")

\* _require_existing_payload, then the choice between validating and writing
\* the descriptor of a revision that was there before.
Matches(r) == dir[r] # None /\ dir[r].payload = "good"
Require(c) ==
    /\ At(c, "require")
    /\ IF Matches(rev[c]) THEN Only(c, "described") ELSE Answer(c, "conflict")
Described(c) ==
    /\ At(c, "described")
    /\ Only(c, IF dir[rev[c]] # None /\ dir[rev[c]].descriptor # "none"
               THEN "validate" ELSE "write")

Empty == [payload |-> "none", descriptor |-> "none", lifecycle |-> None,
          temps |-> {}]
\* Mutant: the revision's own directory is created and filled.
StageInPlace(c) ==
    /\ At(c, "stage")
    /\ SetDir(rev[c], [Empty EXCEPT !.payload = "good"])
    /\ GoTo(c, "write")
    /\ UNCHANGED <<local, answer>>

\* tempfile.mkdtemp beside the revision.
Stage(c) ==
    /\ At(c, "stage")
    /\ staging' = [staging EXCEPT ![c] = Empty]
    /\ GoTo(c, "copy")
    /\ UNCHANGED <<dir, tombstone, local, answer>>

\* _copy_payload of a source that may have changed meanwhile.
Copy(c) ==
    /\ At(c, "copy")
    /\ \E copied \in {"good", "bad"} :
        staging' = [staging EXCEPT ![c].payload = copied]
    /\ GoTo(c, "verify")
    /\ UNCHANGED <<dir, tombstone, local, answer>>
CopyFails(c) == At(c, "copy") /\ Fault(c, "source")

\* The copy is read again; the descriptor is written beside it.
Verify(c) ==
    /\ At(c, "verify")
    /\ IF staging[c].payload # "good" THEN Fault(c, "source")
       ELSE /\ staging' = [staging EXCEPT ![c].descriptor = "good"]
            /\ GoTo(c, "publish")
            /\ UNCHANGED <<dir, tombstone, local, answer>>

\* Mutant: the loser of the race reports a conflict at once.
PublishOrConflict(c) ==
    /\ At(c, "publish")
    /\ IF dir[rev[c]] # None THEN Fault(c, "conflict")
       ELSE /\ dir' = [dir EXCEPT ![rev[c]] = staging[c]]
            /\ staging' = [staging EXCEPT ![c] = None]
            /\ GoTo(c, "cleanup")
            /\ UNCHANGED <<tombstone, local, answer>>

\* os.replace does not replace a directory that has something in it.
Publish(c) ==
    /\ At(c, "publish")
    /\ IF dir[rev[c]] # None THEN Only(c, "lost")
       ELSE /\ dir' = [dir EXCEPT ![rev[c]] = staging[c]]
            /\ staging' = [staging EXCEPT ![c] = None]
            /\ GoTo(c, "cleanup")
            /\ UNCHANGED <<tombstone, local, answer>>

\* Another process was faster: its payload must be this one's.
Lost(c) ==
    /\ At(c, "lost")
    /\ IF Matches(rev[c]) THEN Only(c, "adopt") ELSE Fault(c, "conflict")
Adopt(c) ==
    /\ At(c, "adopt")
    /\ Only(c, IF dir[rev[c]] # None /\ dir[rev[c]].descriptor # "none"
               THEN "cleanup" ELSE "write")

\* Mutant: the finally clause is skipped by an exception.
CleanupUnlessRaising(c) ==
    /\ At(c, "cleanup")
    /\ IF fault[c] # None THEN Answer(c, fault[c])
       ELSE IF staging[c] # None
       THEN /\ staging' = [staging EXCEPT ![c] = None]
            /\ UNCHANGED <<dir, tombstone, pc, local, answer>>
       ELSE Only(c, "confirm")

\* The finally clause; then the exception goes on, or the result is checked.
Cleanup(c) ==
    /\ At(c, "cleanup")
    /\ IF staging[c] # None
       THEN /\ staging' = [staging EXCEPT ![c] = None]
            /\ UNCHANGED <<dir, tombstone, pc, local, answer>>
       ELSE IF fault[c] # None THEN Answer(c, fault[c]) ELSE Only(c, "confirm")
Confirm(c) ==
    /\ At(c, "confirm")
    /\ IF Matches(rev[c]) THEN Only(c, "validate") ELSE Answer(c, "conflict")
Validate(c) ==
    /\ At(c, "validate")
    /\ Answer(c, IF dir[rev[c]] # None /\ dir[rev[c]].descriptor = "good"
                 THEN "stored" ELSE "conflict")

-----------------------------------------------------------------------------
(* _write_json_document with atomic=True: a temporary file in the revision *)
(* directory, renamed over the descriptor or the lifecycle.                *)

\* Where the error of a directory that is gone takes the call.
WriteFails(c) == IF staging[c] # None THEN Fault(c, "oserror") ELSE Answer(c, "oserror")
WriteTemp(c) ==
    /\ At(c, "write")
    /\ IF dir[rev[c]] = None THEN WriteFails(c)
       ELSE /\ SetDir(rev[c], [dir[rev[c]] EXCEPT !.temps = @ \cup {c}])
            /\ GoTo(c, "install")
            /\ UNCHANGED <<local, answer>>

Keep(new, old) == IF new = None THEN old ELSE new
\* Mutant: a field that is not given is stored as such.
UpdatedAsGiven(c) == [retention |-> call[c].retention, pinned |-> call[c].pinned]
Updated(c) == [retention |-> Keep(call[c].retention, got[c].retention),
               pinned |-> Keep(call[c].pinned, got[c].pinned)]
Installed(c, d) ==
    IF call[c].op = "set" THEN [d EXCEPT !.lifecycle = Updated(c), !.temps = @ \ {c}]
    ELSE [d EXCEPT !.descriptor = "good", !.temps = @ \ {c}]

\* os.replace fails when the temporary file has gone away with its directory.
Install(c) ==
    /\ At(c, "install")
    /\ IF dir[rev[c]] = None \/ c \notin dir[rev[c]].temps THEN WriteFails(c)
       ELSE /\ SetDir(rev[c], Installed(c, dir[rev[c]]))
            /\ IF call[c].op = "set" THEN Return(c, "set")
               ELSE /\ GoTo(c, IF staging[c] # None THEN "cleanup" ELSE "validate")
                    /\ UNCHANGED <<local, answer>>

-----------------------------------------------------------------------------
(* _find_revision and _read_lifecycle: each looks for a file and then reads *)
(* it; a file that has gone in between is an invalid document.             *)

Find(c) ==
    /\ At(c, "find")
    /\ IF dir[rev[c]] # None /\ dir[rev[c]].descriptor # "none"
       THEN Only(c, "parse")
       ELSE IF call[c].op = "prune" THEN Only(c, "prune")
       ELSE Answer(c, IF call[c].op = "set" THEN "not_found" ELSE "absent")
Parse(c) ==
    /\ At(c, "parse")
    /\ IF \/ dir[rev[c]] = None \/ dir[rev[c]].descriptor # "good"
          \/ dir[rev[c]].payload = "none"
       THEN Answer(c, "conflict") ELSE Only(c, "look")

HasLifecycle(r) == dir[r] # None /\ dir[r].lifecycle # None

\* What a call does once it knows the lifecycle; a pin forbids the deletion.
GoOn(c, lifecycle) ==
    /\ GoTo(c, IF call[c].op = "set" THEN "write" ELSE "remove")
    /\ got' = [got EXCEPT ![c] = IF call[c].op = "set" THEN lifecycle ELSE None]
    /\ UNCHANGED <<disk, call, rev, left, listed, fault, answer>>
\* Mutant: nobody looks at the pin.
DecideBlindly(c, lifecycle) == GoOn(c, lifecycle)
Decide(c, lifecycle) ==
    IF call[c].op # "set" /\ lifecycle.pinned THEN Answer(c, "pinned")
    ELSE GoOn(c, lifecycle)

Look(c) ==
    /\ At(c, "look")
    /\ IF HasLifecycle(rev[c]) THEN Only(c, "read") ELSE Decide(c, Default)
Read(c) ==
    /\ At(c, "read")
    /\ IF HasLifecycle(rev[c]) THEN Decide(c, dir[rev[c]].lifecycle)
       ELSE Answer(c, "conflict")

-----------------------------------------------------------------------------
(* Deletion: rename out of sight, then remove.                             *)

AfterDelete(c) ==
    IF call[c].op = "prune" THEN GoTo(c, "prune") /\ UNCHANGED <<local, answer>>
    ELSE Return(c, "deleted")

Remove(c) ==
    /\ At(c, "remove")
    /\ IF dir[rev[c]] # None
       THEN /\ tombstone' = [tombstone EXCEPT ![c] = dir[rev[c]]]
            /\ dir' = [dir EXCEPT ![rev[c]] = None]
            /\ GoTo(c, "clear")
            /\ UNCHANGED <<staging, local, answer>>
       ELSE IF call[c].op = "prune" THEN Only(c, "prune") ELSE Answer(c, "absent")
Clear(c) ==
    /\ At(c, "clear")
    /\ tombstone' = [tombstone EXCEPT ![c] = None]
    /\ AfterDelete(c)
    /\ UNCHANGED <<dir, staging>>

-----------------------------------------------------------------------------
(* _prune_ephemeral_revisions: list the revisions, then delete those that  *)
(* are ephemeral and not pinned.  The order is that of the digests.        *)

List(c) ==
    /\ At(c, "list")
    /\ left' = [left EXCEPT ![c] = {r \in Revisions : dir[r] # None}]
    /\ GoTo(c, "listing")
    /\ UNCHANGED <<disk, call, rev, got, listed, fault, answer>>

\* The directory iterator yields the next one; it may have no descriptor.
ListNext(c) ==
    /\ At(c, "listing")
    /\ \E r \in left[c] :
        /\ left' = [left EXCEPT ![c] = @ \ {r}]
        /\ rev' = [rev EXCEPT ![c] = r]
        /\ GoTo(c, IF dir[r] # None /\ dir[r].descriptor # "none"
                   THEN "list_parse" ELSE "listing")
    /\ UNCHANGED <<disk, call, got, listed, fault, answer>>
ListParse(c) ==
    /\ At(c, "list_parse")
    /\ IF dir[rev[c]] = None \/ dir[rev[c]].descriptor # "good"
       THEN Answer(c, "conflict")
       ELSE /\ listed' = [listed EXCEPT ![c] = @ \cup {rev[c]}]
            /\ GoTo(c, "listing")
            /\ UNCHANGED <<disk, call, rev, got, left, fault, answer>>
ListEnds(c) ==
    /\ At(c, "listing") /\ left[c] = {}
    /\ left' = [left EXCEPT ![c] = listed[c]]
    /\ listed' = [listed EXCEPT ![c] = {}] /\ rev' = [rev EXCEPT ![c] = None]
    /\ GoTo(c, "prune")
    /\ UNCHANGED <<disk, call, got, fault, answer>>

\* Without a lifecycle document the revision is retained.
PruneNext(c) ==
    /\ At(c, "prune")
    /\ \E r \in left[c] :
        /\ left' = [left EXCEPT ![c] = @ \ {r}]
        /\ rev' = [rev EXCEPT ![c] = r]
        /\ GoTo(c, IF HasLifecycle(r) THEN "prune_read" ELSE "prune")
    /\ UNCHANGED <<disk, call, got, listed, fault, answer>>

\* Mutant: an ephemeral revision is pruned whatever its pin says.
PruneReadRetention(c) ==
    /\ At(c, "prune_read")
    /\ IF ~HasLifecycle(rev[c]) THEN Answer(c, "conflict")
       ELSE Only(c, IF dir[rev[c]].lifecycle.pinned THEN "prune" ELSE "find")
PruneRead(c) ==
    /\ At(c, "prune_read")
    /\ IF ~HasLifecycle(rev[c]) THEN Answer(c, "conflict")
       ELSE Only(c, IF /\ dir[rev[c]].lifecycle.retention = "ephemeral"
                       /\ ~dir[rev[c]].lifecycle.pinned THEN "find" ELSE "prune")
PruneEnds(c) == At(c, "prune") /\ left[c] = {} /\ Answer(c, "pruned")

-----------------------------------------------------------------------------
\* The process dies; what it has on disk stays.
Die(c) ==
    /\ Running(c) /\ crashes < MaxCrashes
    /\ crashes' = crashes + 1
    /\ GoTo(c, "dead")
    /\ UNCHANGED <<disk, local, answer, made>>

Materialize(c) ==
    \/ Check(c) \/ Require(c) \/ Described(c) \/ Stage(c) \/ Copy(c)
    \/ CopyFails(c) \/ Verify(c) \/ Publish(c) \/ Lost(c) \/ Adopt(c)
    \/ Cleanup(c) \/ Confirm(c) \/ Validate(c)
Inspect(c) == Find(c) \/ Parse(c) \/ Look(c) \/ Read(c)
Prune(c) ==
    \/ List(c) \/ ListNext(c) \/ ListParse(c) \/ ListEnds(c)
    \/ PruneNext(c) \/ PruneRead(c) \/ PruneEnds(c)

Next ==
    /\ \E c \in Clients :
        \/ Begin(c) \/ Materialize(c) \/ WriteTemp(c) \/ Install(c)
        \/ Inspect(c) \/ Remove(c) \/ Clear(c) \/ Prune(c) \/ Die(c)
    /\ Observe

Spec == Init /\ [][Next]_vars

-----------------------------------------------------------------------------
(* Properties.                                                             *)

Places == {"idle", "dead", "check", "require", "described", "stage", "copy",
           "verify", "publish", "lost", "adopt", "cleanup", "confirm",
           "validate", "write", "install", "find", "parse", "look", "read",
           "remove", "clear", "list", "listing", "list_parse", "prune",
           "prune_read"}
\* The shape of the state.
TypeOK ==
    /\ dir \in [Revisions -> Directory \cup {None}]
    /\ staging \in [Clients -> Directory \cup {None}]
    /\ tombstone \in [Clients -> Directory \cup {None}]
    /\ pc \in [Clients -> Places]
    /\ call \in [Clients -> Calls \cup {None}]
    /\ rev \in [Clients -> Revisions \cup {None}]
    /\ got \in [Clients -> Lifecycle \cup {None}]
    /\ left \in [Clients -> SUBSET Revisions]
    /\ listed \in [Clients -> SUBSET Revisions]
    /\ fault \in [Clients -> {None, "source", "conflict", "oserror"}]
    /\ answer \in [Clients -> {None, "stored", "deleted", "absent", "pruned", "set",
                   "not_found", "pinned", "conflict", "source", "oserror"}]
    /\ made \in [Clients -> 0..MaxCalls] /\ crashes \in 0..MaxCrashes
    /\ free \in [Clients -> SUBSET Revisions]
    /\ disturbed \in [Clients -> BOOLEAN]

\* What readers can see is a store of whole, immutable revisions, although
\* writers copy, race, and die half way and have no lock.
Seen(d) == IF d = None THEN None
           ELSE [payload |-> d.payload, descriptor |-> d.descriptor,
                 lifecycle |-> LifecycleOf(d)]
Store == INSTANCE RevisionStore WITH
    Absent <- None, store <- [r \in Revisions |-> Seen(dir[r])]
IsRevisionStore == Store!Spec

\* A deletion takes away only what it was allowed to at some moment while it
\* ran: a revision that was not pinned, and for prune one that was ephemeral
\* too.  (At the moment of the rename it may be pinned again: nothing is locked.)
DeletesOnlyFree ==
    [][\A c \in Clients : \A r \in Revisions :
        tombstone[c] = None /\ tombstone'[c] # None /\ dir[r] # dir'[r]
        => r \in free[c]]_vars

\* A call raises a conflict or a file error only when the storage was damaged,
\* the source changed, or somebody took the revision away while it ran: losing
\* a race against another writer is never an error.
Raises(c) == Running(c) /\ answer'[c] \in {"conflict", "oserror"}
NoSpuriousFailure == [][\A c \in Clients : Raises(c) => disturbed[c]]_vars

\* A process that did not die leaves nothing behind but the revisions.
NothingLeftBehind ==
    \A c \in Clients :
        pc[c] = "idle" =>
            /\ staging[c] = None /\ tombstone[c] = None
            /\ \A r \in Revisions : dir[r] # None => c \notin dir[r].temps
=============================================================================
