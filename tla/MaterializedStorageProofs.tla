----------------------- MODULE MaterializedStorageProofs -----------------------
(***************************************************************************)
(* What MaterializedStorage guarantees for any revisions, processes, calls *)
(* and number of crashes: it implements RevisionStore, it removes only     *)
(* what it may, who did not die leaves nothing behind, and who fails has a *)
(* cause.                                                                  *)
(***************************************************************************)
EXTENDS MaterializedStorage, TLAPS

\* The operations that can be at a place.
Materializing ==
    {"check", "require", "described", "stage", "copy", "verify", "publish", "lost",
     "adopt", "cleanup", "confirm", "validate"}
Writing == {"write", "install"}
Inspecting == {"find", "parse", "look", "read"}
Deleting == {"remove", "clear"}
Pruning == {"list", "listing", "list_parse", "prune", "prune_read"}
OpAgrees(c) ==
    /\ pc[c] \in Materializing => call[c].op = "materialize"
    /\ pc[c] \in Writing => call[c].op \in {"materialize", "set"}
    /\ pc[c] \in Inspecting => call[c].op \in {"delete", "set", "prune"}
    /\ pc[c] \in Deleting => call[c].op \in {"delete", "prune"}
    /\ pc[c] \in Pruning => call[c].op = "prune"

\* What a client at work has in its variables.
Equipped(c) ==
    Running(c) =>
        /\ call[c] \in Calls /\ OpAgrees(c)
        /\ call[c].op # "prune" => rev[c] = call[c].rev
        /\ pc[c] \in Inspecting \cup Deleting \cup {"list_parse", "prune_read"}
               => rev[c] \in Revisions
        /\ pc[c] \in Writing /\ call[c].op = "set" => got[c] \in Lifecycle

\* A copy that is complete.
Fresh == [payload |-> "good", descriptor |-> "good", lifecycle |-> None,
          temps |-> {}]

\* A staged copy at each place, and none elsewhere.
Staged(c) ==
    /\ pc[c] = "copy" => staging[c] = Empty
    /\ pc[c] = "verify" =>
           staging[c] \in {[Empty EXCEPT !.payload = "good"],
                           [Empty EXCEPT !.payload = "bad"]}
    /\ pc[c] = "publish" => staging[c] = Fresh
    /\ staging[c] # None =>
           \/ pc[c] \in {"copy", "verify", "publish", "lost", "adopt", "cleanup", "dead"}
           \/ pc[c] \in Writing /\ call[c].op = "materialize"
    /\ tombstone[c] # None => pc[c] \in {"clear", "dead"}

\* What was true of a revision when it was looked at still is, or it has gone
\* and may have come back whole.
Intact(r) == dir[r] # None => dir[r].payload = "good"
Describable(r) == dir[r] # None => dir[r].descriptor # "bad"
Examined(c) ==
    /\ pc[c] \in {"described", "adopt"} => Intact(rev[c])
    /\ pc[c] \in Writing /\ call[c].op = "materialize" =>
           Intact(rev[c]) /\ Describable(rev[c])

\* A deletion under way was allowed.
Allowed(c) ==
    /\ pc[c] = "remove" => rev[c] \in free[c]
    /\ pc[c] \in Inspecting /\ call[c].op = "prune" => rev[c] \in free[c]

\* Temporary files belong to those who write them.
TempsOwned(c) ==
    \A r \in Revisions : dir[r] # None =>
        (c \in dir[r].temps => pc[c] = "dead" \/ (pc[c] = "install" /\ rev[c] = r))

ClientInv(c) ==
    Equipped(c) /\ Staged(c) /\ Examined(c) /\ Allowed(c) /\ TempsOwned(c)
StorageInv == TypeOK /\ \A c \in Clients : ClientInv(c)

-----------------------------------------------------------------------------
(* Calls.                                                                  *)

LEMMA CallFields ==
    ASSUME NEW k \in Calls
    PROVE  /\ k # None
           /\ k.op \in {"materialize", "delete", "prune", "set"}
           /\ k.op # "prune" => k.rev \in Revisions
           /\ k.op = "set" => /\ k.retention \in Retentions \cup {None}
                              /\ k.pinned \in BOOLEAN \cup {None}
BY StorageAssumption DEF Call

\* A client that is not pruning works on the revision it was called for.
LEMMA RevisionAtHand ==
    ASSUME NEW c \in Clients, Equipped(c), Running(c), call[c].op # "prune"
    PROVE  rev[c] \in Revisions
BY CallFields DEF Equipped

-----------------------------------------------------------------------------
(* What a step of one client leaves to the others.                         *)

\* A directory stays, goes, appears whole, or keeps its payload and may gain a
\* descriptor, a lifecycle, or a temporary file of the client.
Evolves(c, r) ==
    \/ dir'[r] = dir[r]
    \/ dir'[r] = None
    \/ dir[r] = None /\ dir'[r] = Fresh
    \/ /\ dir[r] # None /\ dir'[r] # None
       /\ dir'[r].payload = dir[r].payload
       /\ dir'[r].descriptor \in {dir[r].descriptor, "good"}
       /\ dir'[r].temps \ {c} \subseteq dir[r].temps

LeftAlone(d) ==
    /\ pc'[d] = pc[d] /\ call'[d] = call[d] /\ rev'[d] = rev[d]
    /\ got'[d] = got[d] /\ staging'[d] = staging[d] /\ tombstone'[d] = tombstone[d]

\* The step of one client.
StepOf(c) ==
    /\ \A r \in Revisions : Evolves(c, r)
    /\ \A d \in Clients \ {c} : LeftAlone(d)

LEMMA ObserveRemembers ==
    ASSUME Observe, NEW c \in Clients, pc'[c] \notin {"idle", "dead"}
    PROVE  /\ free[c] \subseteq free'[c]
           /\ \A r \in Revisions : Removable(c, r)' => r \in free'[c]
BY DEF Observe, Running

LEMMA ObserveTypes ==
    ASSUME Observe, TypeOK
    PROVE  free' \in [Clients -> SUBSET Revisions] /\ disturbed' \in [Clients -> BOOLEAN]
<1>1. free' \in [Clients -> SUBSET Revisions]
  BY DEF Observe, TypeOK
<1>2. disturbed' \in [Clients -> BOOLEAN]
  BY DEF Observe, TypeOK
<1> QED
  BY <1>1, <1>2

LEMMA OthersKeepInv ==
    ASSUME StorageInv, NEW c \in Clients, StepOf(c), Observe,
           NEW d \in Clients, d # c
    PROVE  ClientInv(d)'
<1> USE DEF StorageInv, ClientInv
<1>1. ClientInv(d) /\ LeftAlone(d)
  BY DEF StepOf
<1>2. ASSUME NEW r \in Revisions  PROVE Evolves(c, r)
  BY DEF StepOf
<1>3. Equipped(d)'
  BY <1>1 DEF LeftAlone, Equipped, OpAgrees, Running
<1>4. Staged(d)'
  BY <1>1 DEF LeftAlone, Staged
<1>5. Examined(d)'
  <2>1. ASSUME NEW r \in Revisions, Intact(r)  PROVE Intact(r)'
    BY <1>2, <2>1 DEF Evolves, Intact, Fresh
  <2>2. ASSUME NEW r \in Revisions, Describable(r)  PROVE Describable(r)'
    BY <1>2, <2>2 DEF Evolves, Describable, Fresh
  <2>3. ASSUME \/ pc[d] \in {"described", "adopt"}
               \/ pc[d] \in Writing /\ call[d].op = "materialize"
        PROVE  rev[d] \in Revisions
    BY <1>1, <2>3, RevisionAtHand DEF Equipped, OpAgrees, Running, Materializing, Writing
  <2> QED
    BY <1>1, <2>1, <2>2, <2>3 DEF LeftAlone, Examined
<1>6. Allowed(d)'
  BY <1>1, ObserveRemembers DEF LeftAlone, Allowed, Inspecting
<1>7. TempsOwned(d)'
  BY <1>1, <1>2 DEF LeftAlone, TempsOwned, Evolves, Fresh
<1> QED
  BY <1>3, <1>4, <1>5, <1>6, <1>7

-----------------------------------------------------------------------------
(* Steps of common form.                                                   *)

Results == {None, "stored", "deleted", "absent", "pruned", "set",
            "not_found", "pinned", "conflict", "source", "oserror"}
DiskTypes ==
    /\ dir \in [Revisions -> Directory \cup {None}]
    /\ staging \in [Clients -> Directory \cup {None}]
    /\ tombstone \in [Clients -> Directory \cup {None}]
LocalTypes ==
    /\ pc \in [Clients -> Places]
    /\ call \in [Clients -> Calls \cup {None}]
    /\ rev \in [Clients -> Revisions \cup {None}]
    /\ got \in [Clients -> Lifecycle \cup {None}]
    /\ left \in [Clients -> SUBSET Revisions]
    /\ listed \in [Clients -> SUBSET Revisions]
    /\ fault \in [Clients -> {None, "source", "conflict", "oserror"}]
    /\ answer \in [Clients -> Results]
CounterTypes == made \in [Clients -> 0..MaxCalls] /\ crashes \in 0..MaxCrashes

LEMMA TypesAre ==
    TypeOK <=> /\ DiskTypes /\ LocalTypes /\ CounterTypes
               /\ free \in [Clients -> SUBSET Revisions]
               /\ disturbed \in [Clients -> BOOLEAN]
BY DEF TypeOK, DiskTypes, LocalTypes, CounterTypes, Results

LEMMA TypesKept ==
    ASSUME TypeOK, Observe, DiskTypes', LocalTypes', CounterTypes'
    PROVE  TypeOK'
<1>1. free' \in [Clients -> SUBSET Revisions] /\ disturbed' \in [Clients -> BOOLEAN]
  BY ObserveTypes
<1> QED
  BY <1>1 DEF TypeOK, DiskTypes, LocalTypes, CounterTypes, Results

\* A client goes from one place to another.
LEMMA OnlyStep ==
    ASSUME StorageInv, NEW c \in Clients, NEW place \in Places,
           Only(c, place), UNCHANGED <<made, crashes>>, Observe
    PROVE  StepOf(c) /\ TypeOK' /\ pc'[c] = place
<1>1. DiskTypes /\ LocalTypes /\ CounterTypes
  BY TypesAre DEF StorageInv
<1>2. pc' = [pc EXCEPT ![c] = place] /\ UNCHANGED <<disk, local, answer>>
  BY DEF Only, GoTo
<1>3. StepOf(c) /\ pc'[c] = place
  BY <1>1, <1>2 DEF StepOf, Evolves, LeftAlone, disk, local, LocalTypes
<1>4. DiskTypes' /\ LocalTypes' /\ CounterTypes'
  BY <1>1, <1>2 DEF DiskTypes, LocalTypes, CounterTypes, disk, local
<1> QED
  BY <1>3, <1>4, TypesKept DEF StorageInv

\* A call returns or raises.
LEMMA ReturnTypes ==
    ASSUME LocalTypes, NEW c \in Clients, NEW result \in Results, Return(c, result)
    PROVE  LocalTypes'
BY DEF LocalTypes, Return, GoTo, Places

LEMMA ReturnInv ==
    ASSUME LocalTypes, NEW c \in Clients, NEW result, Return(c, result),
           staging'[c] = None, tombstone'[c] = None,
           \A r \in Revisions : dir'[r] # None => c \notin dir'[r].temps
    PROVE  /\ ClientInv(c)'
           /\ \A d \in Clients \ {c} :
                  staging'[d] = staging[d] /\ tombstone'[d] = tombstone[d]
                      => LeftAlone(d)
<1>1. pc'[c] = "idle"
  BY DEF Return, GoTo, LocalTypes
<1>2. Equipped(c)' /\ Staged(c)' /\ Examined(c)' /\ Allowed(c)' /\ TempsOwned(c)'
  BY <1>1 DEF Equipped, Running, Staged, Examined, Allowed, TempsOwned, Writing,
              Inspecting
<1> QED
  BY <1>2 DEF ClientInv, Return, GoTo, LeftAlone

LEMMA AnswerStep ==
    ASSUME StorageInv, NEW c \in Clients, NEW result \in Results,
           Answer(c, result), UNCHANGED <<made, crashes>>, Observe,
           staging[c] = None, tombstone[c] = None,
           \A r \in Revisions : dir[r] # None => c \notin dir[r].temps
    PROVE  StepOf(c) /\ TypeOK' /\ ClientInv(c)'
<1>1. DiskTypes /\ LocalTypes /\ CounterTypes
  BY TypesAre DEF StorageInv
<1>2. Return(c, result) /\ UNCHANGED disk
  BY DEF Answer
<1>3. StepOf(c) /\ ClientInv(c)'
  BY <1>1, <1>2, ReturnInv DEF StepOf, Evolves, disk
<1>4. DiskTypes' /\ LocalTypes' /\ CounterTypes'
  BY <1>1, <1>2, ReturnTypes DEF DiskTypes, CounterTypes, disk
<1> QED
  BY <1>3, <1>4, TypesKept DEF StorageInv

\* An exception takes a materialize to its finally clause.
LEMMA FaultStep ==
    ASSUME StorageInv, NEW c \in Clients, NEW e \in {"source", "conflict", "oserror"},
           Fault(c, e), UNCHANGED <<made, crashes>>, Observe,
           pc[c] \in Materializing \cup Writing, call[c].op = "materialize",
           \A r \in Revisions : dir[r] # None => c \notin dir[r].temps
    PROVE  StepOf(c) /\ TypeOK' /\ ClientInv(c)'
<1>1. DiskTypes /\ LocalTypes /\ CounterTypes /\ ClientInv(c)
  BY TypesAre DEF StorageInv
<1>2. /\ pc' = [pc EXCEPT ![c] = "cleanup"] /\ fault' = [fault EXCEPT ![c] = e]
      /\ UNCHANGED <<disk, call, rev, got, left, listed, answer>>
  BY DEF Fault, GoTo
<1>3. StepOf(c) /\ pc'[c] = "cleanup"
  BY <1>1, <1>2 DEF StepOf, Evolves, LeftAlone, disk, LocalTypes
<1>4. DiskTypes' /\ LocalTypes' /\ CounterTypes'
  <2>1. DiskTypes' /\ CounterTypes'
    BY <1>1, <1>2 DEF DiskTypes, CounterTypes, disk
  <2>2. LocalTypes'
    BY <1>1, <1>2 DEF LocalTypes, Places
  <2> QED
    BY <2>1, <2>2
<1>5. ClientInv(c)'
  <2>1. Equipped(c)'
    BY <1>1, <1>2, <1>3 DEF ClientInv, Equipped, OpAgrees, Running, Materializing,
       Writing, Inspecting, Deleting, Pruning
  <2>2. Staged(c)'
    BY <1>1, <1>2, <1>3 DEF ClientInv, Staged, disk, Materializing, Writing
  <2>3. Examined(c)' /\ Allowed(c)'
    BY <1>3 DEF Examined, Allowed, Writing, Inspecting
  <2>4. TempsOwned(c)'
    BY <1>2 DEF TempsOwned, disk
  <2> QED
    BY <2>1, <2>2, <2>3, <2>4 DEF ClientInv
<1> QED
  BY <1>3, <1>4, <1>5, TypesKept DEF StorageInv

-----------------------------------------------------------------------------
(* The steps of a client, one by one.                                      *)

Fine(c) == StepOf(c) /\ TypeOK' /\ ClientInv(c)'

\* Who is not installing a document has no temporary file, who is not removing
\* a revision has no tombstone.
LEMMA NothingAside ==
    ASSUME StorageInv, NEW c \in Clients, pc[c] \notin {"install", "dead"}
    PROVE  /\ \A r \in Revisions : dir[r] # None => c \notin dir[r].temps
           /\ pc[c] # "clear" => tombstone[c] = None
BY DEF StorageInv, ClientInv, TempsOwned, Staged

\* Steps of a materialize that look and do not touch.
LEMMA QuietStep ==
    ASSUME StorageInv, NEW c \in Clients, Observe,
           Check(c) \/ Require(c) \/ Described(c) \/ Lost(c) \/ Adopt(c) \/ Confirm(c)
             \/ Validate(c)
    PROVE  Fine(c)
<1> DEFINE looking == {"check", "require", "described", "lost", "adopt", "confirm",
                       "validate"}
<1>1. /\ pc[c] \in looking /\ UNCHANGED <<made, crashes>>
      /\ pc[c] \in Materializing /\ pc[c] \notin {"install", "dead", "clear", "idle"}
  BY DEF Check, Require, Described, Lost, Adopt, Confirm, Validate, At, Materializing
<1>2. ClientInv(c) /\ Running(c) /\ call[c].op = "materialize"
      /\ rev[c] \in Revisions
  BY <1>1, RevisionAtHand DEF StorageInv, ClientInv, Equipped, OpAgrees, Running
<1>3. CASE /\ pc[c] \in {"require", "confirm", "validate"}
           /\ \E result \in Results : Answer(c, result)
  <2>1. staging[c] = None
    BY <1>2, <1>3 DEF ClientInv, Staged, Writing
  <2> QED
    BY <1>1, <1>3, <2>1, NothingAside, AnswerStep DEF Fine
<1>4. CASE pc[c] = "lost" /\ Fault(c, "conflict")
  BY <1>1, <1>2, <1>4, NothingAside, FaultStep DEF Fine
<1>5. CASE \E place \in Places : 
             /\ Only(c, place)
             /\ place \in {"require", "described", "stage", "adopt", "cleanup",
                           "validate", "write"}
             /\ place \in {"adopt", "cleanup"} \/ staging[c] = None
                 \/ (place = "write" /\ pc[c] = "adopt")
             /\ place \in {"described", "adopt"} => Intact(rev[c])
             /\ place = "write" => Intact(rev[c]) /\ Describable(rev[c])
  <2> PICK place \in Places :
             /\ Only(c, place)
             /\ place \in {"require", "described", "stage", "adopt", "cleanup",
                           "validate", "write"}
             /\ place \in {"adopt", "cleanup"} \/ staging[c] = None
                 \/ (place = "write" /\ pc[c] = "adopt")
             /\ place \in {"described", "adopt"} => Intact(rev[c])
             /\ place = "write" => Intact(rev[c]) /\ Describable(rev[c])
    BY <1>5
  <2>1. StepOf(c) /\ TypeOK' /\ pc'[c] = place
    BY <1>1, OnlyStep
  <2>2. UNCHANGED <<dir, staging, tombstone, call, rev, got>>
    BY DEF Only, disk, local
  <2>3. Equipped(c)'
    BY <1>1, <1>2, <2>1, <2>2 DEF ClientInv, Equipped, Running, OpAgrees, Materializing,
       Writing, Inspecting, Deleting, Pruning
  <2>4. Staged(c)'
    BY <1>1, <1>2, <2>1, <2>2 DEF ClientInv, Staged, Writing
  <2>5. Examined(c)'
    BY <2>1, <2>2 DEF Examined, Intact, Describable, Writing
  <2>6. Allowed(c)' /\ TempsOwned(c)'
    BY <1>1, <2>1, <2>2, NothingAside DEF Allowed, TempsOwned, Inspecting
  <2> QED
    BY <2>1, <2>3, <2>4, <2>5, <2>6 DEF Fine, ClientInv
<1> QED
  <2>1. pc[c] \in {"check", "require", "described", "confirm", "validate"} =>
            staging[c] = None
    BY <1>1, <1>2 DEF ClientInv, Staged, Writing
  <2>2. dir[rev[c]] \in Directory \cup {None}
    BY <1>2, TypesAre DEF StorageInv, DiskTypes
  <2>3. CASE Check(c)
    BY <1>5, <2>1, <2>3 DEF Check, At, Places
  <2>4. CASE Require(c)
    BY <1>3, <1>5, <2>1, <2>4 DEF Require, At, Places, Results, Matches, Intact
  <2>5. CASE Described(c)
    BY <1>2, <1>5, <2>1, <2>5 DEF Described, At, Places, ClientInv, Examined, Describable
  <2>6. CASE Lost(c)
    BY <1>4, <1>5, <2>6 DEF Lost, At, Places, Matches, Intact
  <2>7. CASE Adopt(c)
    BY <1>2, <1>5, <2>7 DEF Adopt, At, Places, ClientInv, Examined, Describable
  <2>8. CASE Confirm(c)
    BY <1>3, <1>5, <2>1, <2>8 DEF Confirm, At, Places, Results
  <2>9. CASE Validate(c)
    BY <1>3, <2>1, <2>9 DEF Validate, At, Results
  <2> QED
    BY <2>3, <2>4, <2>5, <2>6, <2>7, <2>8, <2>9

LEMMA BeginStep ==
    ASSUME StorageInv, NEW c \in Clients, Observe, Begin(c)
    PROVE  Fine(c)
<1> PICK k \in Calls :
        /\ call' = [call EXCEPT ![c] = k]
        /\ rev' = [rev EXCEPT ![c] = IF k.op = "prune" THEN None ELSE k.rev]
        /\ GoTo(c, Entry(k.op))
  BY DEF Begin
<1>1. DiskTypes /\ LocalTypes /\ CounterTypes /\ ClientInv(c)
  BY TypesAre DEF StorageInv
<1>2. /\ pc[c] = "idle" /\ made[c] < MaxCalls
      /\ made' = [made EXCEPT ![c] = made[c] + 1]
      /\ pc' = [pc EXCEPT ![c] = Entry(k.op)]
      /\ answer' = [answer EXCEPT ![c] = None]
      /\ UNCHANGED <<dir, staging, tombstone, got, left, listed, fault, crashes>>
  BY DEF Begin, GoTo, disk
<1>3. /\ k.op \in {"materialize", "delete", "prune", "set"}
      /\ k.op # "prune" => k.rev \in Revisions
  BY CallFields
<1>4. pc'[c] = Entry(k.op) /\ call'[c] = k
  BY <1>1, <1>2 DEF LocalTypes
<1>5. StepOf(c)
  BY <1>1, <1>2 DEF StepOf, Evolves, LeftAlone, LocalTypes
<1>6. TypeOK'
  <2>1. Entry(k.op) \in Places
    BY <1>3 DEF Entry, Places
  <2>2. (IF k.op = "prune" THEN None ELSE k.rev) \in Revisions \cup {None}
    BY <1>3
  <2>3. DiskTypes' /\ LocalTypes'
    BY <1>1, <1>2, <2>1, <2>2 DEF DiskTypes, LocalTypes, Results
  <2>4. made[c] + 1 \in 0..MaxCalls
    BY <1>1, <1>2, StorageAssumption DEF CounterTypes
  <2>5. CounterTypes'
    BY <1>1, <1>2, <2>4 DEF CounterTypes
  <2> QED
    BY <2>3, <2>5, TypesKept DEF StorageInv
<1>7. Equipped(c)'
  <2>1. k.op # "prune" => rev'[c] = k.rev
    BY <1>1 DEF LocalTypes
  <2>2. OpAgrees(c)'
    BY <1>3, <1>4 DEF OpAgrees, Entry, Materializing, Writing, Inspecting, Deleting,
                      Pruning
  <2>3. pc'[c] \in Inspecting \cup Deleting \cup {"list_parse", "prune_read"}
            => k.op # "prune"
    BY <1>3, <1>4 DEF Entry, Inspecting, Deleting
  <2>4. pc'[c] \notin Writing
    BY <1>3, <1>4 DEF Entry, Writing
  <2> QED
    BY <1>3, <1>4, <2>1, <2>2, <2>3, <2>4 DEF Equipped
<1>8. Staged(c)'
  <2>1. staging[c] = None /\ tombstone[c] = None
    BY <1>1, <1>2 DEF ClientInv, Staged, Writing
  <2> QED
    BY <1>2, <1>3, <1>4, <2>1 DEF Staged, Entry
<1>9. Examined(c)' /\ Allowed(c)'
  BY <1>3, <1>4 DEF Examined, Allowed, Entry, Writing, Inspecting
<1>10. TempsOwned(c)'
  BY <1>2, NothingAside DEF TempsOwned
<1> QED
  BY <1>5, <1>6, <1>7, <1>8, <1>9, <1>10 DEF Fine, ClientInv

LEMMA DirectoryFields ==
    ASSUME NEW d \in Directory
    PROVE  /\ d # None
           /\ d = [payload |-> d.payload, descriptor |-> d.descriptor,
                   lifecycle |-> d.lifecycle, temps |-> d.temps]
           /\ d.payload \in Contents /\ d.descriptor \in Contents
           /\ d.lifecycle \in Lifecycle \cup {None} /\ d.temps \in SUBSET Clients
<1>1. d # None
  BY StorageAssumption
<1>2. d = [payload |-> d.payload, descriptor |-> d.descriptor,
           lifecycle |-> d.lifecycle, temps |-> d.temps]
  BY DEF Directory
<1>3. /\ d.payload \in Contents /\ d.descriptor \in Contents
      /\ d.lifecycle \in Lifecycle \cup {None} /\ d.temps \in SUBSET Clients
  BY DEF Directory
<1> QED
  BY <1>1, <1>2, <1>3

LEMMA DirectoryUpdates ==
    ASSUME NEW d \in Directory
    PROVE  /\ \A p \in Contents : [d EXCEPT !.payload = p] \in Directory
           /\ \A q \in Contents : [d EXCEPT !.descriptor = q] \in Directory
           /\ \A l \in Lifecycle : [d EXCEPT !.lifecycle = l] \in Directory
           /\ \A t \in SUBSET Clients : [d EXCEPT !.temps = t] \in Directory
<1>1. \A p \in Contents : [d EXCEPT !.payload = p] \in Directory
  BY DEF Directory
<1>2. \A q \in Contents : [d EXCEPT !.descriptor = q] \in Directory
  BY DEF Directory
<1>3. \A l \in Lifecycle : [d EXCEPT !.lifecycle = l] \in Directory
  BY DEF Directory
<1>4. \A t \in SUBSET Clients : [d EXCEPT !.temps = t] \in Directory
  BY DEF Directory
<1> QED
  BY <1>1, <1>2, <1>3, <1>4

LEMMA SameDirectory ==
    ASSUME NEW a \in Directory, NEW b \in Directory,
           a.payload = b.payload, a.descriptor = b.descriptor,
           a.lifecycle = b.lifecycle, a.temps = b.temps
    PROVE  a = b
BY DEF Directory

LEMMA EmptyIsDirectory ==
    /\ Empty \in Directory /\ Fresh \in Directory
    /\ [Empty EXCEPT !.payload = "good"] \in Directory
    /\ [Empty EXCEPT !.payload = "bad"] \in Directory
    /\ [[Empty EXCEPT !.payload = "good"] EXCEPT !.descriptor = "good"] = Fresh
<1>1. ASSUME NEW p \in Contents, NEW d \in Contents
      PROVE  [payload |-> p, descriptor |-> d, lifecycle |-> None, temps |-> {}]
                 \in Directory
  BY DEF Directory
<1>2. Empty \in Directory /\ Fresh \in Directory
  BY <1>1 DEF Empty, Fresh, Contents
<1>3. /\ [Empty EXCEPT !.payload = "good"] \in Directory
      /\ [Empty EXCEPT !.payload = "bad"] \in Directory
  BY <1>2, DirectoryUpdates DEF Contents
<1>4. [[Empty EXCEPT !.payload = "good"] EXCEPT !.descriptor = "good"] = Fresh
  <2> DEFINE copied == [Empty EXCEPT !.payload = "good"]
             whole == [copied EXCEPT !.descriptor = "good"]
  <2>1. copied \in Directory /\ whole \in Directory
    BY <1>3, DirectoryUpdates DEF Contents
  <2>2. /\ copied.payload = "good" /\ copied.lifecycle = None /\ copied.temps = {}
    BY DEF Empty
  <2> HIDE DEF copied
  <2>3. /\ whole.payload = "good" /\ whole.descriptor = "good"
        /\ whole.lifecycle = None /\ whole.temps = {}
    BY <2>1, <2>2 DEF Directory
  <2> HIDE DEF whole
  <2>4. whole = Fresh
    BY <1>2, <2>1, <2>3, SameDirectory DEF Fresh
  <2> QED
    BY <2>4 DEF whole, copied
<1> QED
  BY <1>2, <1>3, <1>4

\* The steps that build the staged copy.
LEMMA StagingStep ==
    ASSUME StorageInv, NEW c \in Clients, Observe,
           Stage(c) \/ Copy(c) \/ CopyFails(c) \/ Verify(c)
    PROVE  Fine(c)
<1>1. DiskTypes /\ LocalTypes /\ CounterTypes /\ ClientInv(c)
  BY TypesAre DEF StorageInv
<1>2. /\ pc[c] \in {"stage", "copy", "verify"} /\ UNCHANGED <<made, crashes>>
      /\ pc[c] \in Materializing /\ pc[c] \notin {"install", "dead", "clear"}
  BY DEF Stage, Copy, CopyFails, Verify, At, Materializing
<1>3. Running(c) /\ call[c].op = "materialize"
  BY <1>1, <1>2 DEF ClientInv, Equipped, OpAgrees, Running
<1>4. CASE Fault(c, "source")
  BY <1>2, <1>3, <1>4, NothingAside, FaultStep DEF Fine
<1>5. ASSUME NEW d \in Directory, NEW place \in {"copy", "verify", "publish"},
             staging' = [staging EXCEPT ![c] = d], GoTo(c, place),
             UNCHANGED <<dir, tombstone, local, answer>>,
             place = "copy" => d = Empty,
             place = "verify" => d \in {[Empty EXCEPT !.payload = "good"],
                                        [Empty EXCEPT !.payload = "bad"]},
             place = "publish" => d = Fresh
      PROVE  Fine(c)
  <2>1. pc' = [pc EXCEPT ![c] = place]
        /\ UNCHANGED <<call, rev, got, left, listed, fault, answer>>
    BY <1>5 DEF GoTo, local
  <2>2. pc'[c] = place /\ staging'[c] = d
    BY <1>1, <1>5, <2>1 DEF LocalTypes, DiskTypes
  <2>3. StepOf(c)
    BY <1>1, <1>5, <2>1 DEF StepOf, Evolves, LeftAlone, LocalTypes, DiskTypes
  <2>4. TypeOK'
    <3>1. DiskTypes' /\ CounterTypes'
      BY <1>1, <1>2, <1>5 DEF DiskTypes, CounterTypes
    <3>2. LocalTypes'
      BY <1>1, <2>1 DEF LocalTypes, Places
    <3> QED
      BY <3>1, <3>2, TypesKept DEF StorageInv
  <2>5. Equipped(c)'
    BY <1>1, <1>3, <2>1, <2>2 DEF ClientInv, Equipped, Running, OpAgrees,
       Materializing, Writing, Inspecting, Deleting, Pruning
  <2>6. Staged(c)'
    BY <1>2, <1>5, <2>2, NothingAside DEF Staged
  <2>7. Examined(c)' /\ Allowed(c)'
    BY <2>2 DEF Examined, Allowed, Writing, Inspecting
  <2>8. TempsOwned(c)'
    BY <1>2, <1>5, NothingAside DEF TempsOwned
  <2> QED
    BY <2>3, <2>4, <2>5, <2>6, <2>7, <2>8 DEF Fine, ClientInv
<1> QED
  <2>1. CASE Stage(c)
    BY <1>5, <2>1, EmptyIsDirectory DEF Stage
  <2>2. CASE Copy(c)
    <3>1. pc[c] = "copy" /\ staging[c] = Empty
      BY <1>1, <2>2 DEF Copy, At, ClientInv, Staged
    <3>2. PICK copied \in {"good", "bad"} :
              staging' = [staging EXCEPT ![c] = [Empty EXCEPT !.payload = copied]]
      BY <2>2, <3>1 DEF Copy
    <3> QED
      BY <1>5, <2>2, <3>2, EmptyIsDirectory DEF Copy
  <2>3. CASE CopyFails(c)
    BY <1>4, <2>3 DEF CopyFails
  <2>4. CASE Verify(c)
    <3>1. CASE staging[c].payload # "good"
      BY <1>4, <2>4, <3>1 DEF Verify
    <3>2. CASE staging[c].payload = "good"
      <4>1. pc[c] = "verify"
            /\ staging[c] \in {[Empty EXCEPT !.payload = "good"],
                               [Empty EXCEPT !.payload = "bad"]}
        BY <1>1, <2>4 DEF Verify, At, ClientInv, Staged
      <4>2. staging[c] = [Empty EXCEPT !.payload = "good"]
        BY <3>2, <4>1 DEF Empty
      <4>3. staging' = [staging EXCEPT ![c] = Fresh]
        BY <2>4, <3>2, <4>2, EmptyIsDirectory DEF Verify
      <4> QED
        BY <1>5, <2>4, <3>2, <4>3, EmptyIsDirectory DEF Verify
    <3> QED
      BY <3>1, <3>2
  <2> QED
    BY <2>1, <2>2, <2>3, <2>4

\* The rename that makes a revision visible, or loses the race.
LEMMA PublishStep ==
    ASSUME StorageInv, NEW c \in Clients, Observe, Publish(c)
    PROVE  Fine(c)
<1>1. DiskTypes /\ LocalTypes /\ CounterTypes /\ ClientInv(c)
  BY TypesAre DEF StorageInv
<1>2. /\ pc[c] = "publish" /\ UNCHANGED <<made, crashes>>
      /\ staging[c] = Fresh /\ tombstone[c] = None
  BY <1>1, EmptyIsDirectory DEF Publish, At, ClientInv, Staged
<1>3. Running(c) /\ call[c].op = "materialize" /\ rev[c] \in Revisions
  BY <1>1, <1>2, RevisionAtHand DEF ClientInv, Equipped, OpAgrees, Running, Materializing
<1>4. \A r \in Revisions : dir[r] # None => c \notin dir[r].temps
  BY <1>2, NothingAside
<1>5. CASE dir[rev[c]] # None
  <2>1. Only(c, "lost")
    BY <1>5 DEF Publish
  <2>2. StepOf(c) /\ TypeOK' /\ pc'[c] = "lost"
    BY <1>2, <2>1, OnlyStep DEF Places
  <2>3. UNCHANGED <<dir, staging, tombstone, call, rev, got>>
    BY <2>1 DEF Only, disk, local
  <2>4. Equipped(c)'
    BY <1>1, <1>3, <2>2, <2>3 DEF ClientInv, Equipped, Running, OpAgrees, Materializing,
       Writing, Inspecting, Deleting, Pruning
  <2>5. Staged(c)' /\ Examined(c)' /\ Allowed(c)' /\ TempsOwned(c)'
    BY <1>2, <1>4, <2>2, <2>3 DEF Staged, Examined, Allowed, TempsOwned, Writing,
       Inspecting
  <2> QED
    BY <2>2, <2>4, <2>5 DEF Fine, ClientInv
<1>6. CASE dir[rev[c]] = None
  <2>1. /\ dir' = [dir EXCEPT ![rev[c]] = Fresh]
        /\ staging' = [staging EXCEPT ![c] = None]
        /\ pc' = [pc EXCEPT ![c] = "cleanup"]
        /\ UNCHANGED <<tombstone, call, rev, got, left, listed, fault, answer>>
    BY <1>2, <1>6 DEF Publish, GoTo, local
  <2>2. pc'[c] = "cleanup" /\ staging'[c] = None
    BY <1>1, <2>1 DEF LocalTypes, DiskTypes
  <2>3. \A r \in Revisions : dir'[r] = IF r = rev[c] THEN Fresh ELSE dir[r]
    BY <1>1, <2>1 DEF DiskTypes
  <2>4. StepOf(c)
    BY <1>1, <1>6, <2>1, <2>3 DEF StepOf, Evolves, LeftAlone, LocalTypes, DiskTypes
  <2>5. TypeOK'
    <3>1. DiskTypes' /\ CounterTypes'
      BY <1>1, <1>2, <2>1, EmptyIsDirectory DEF DiskTypes, CounterTypes
    <3>2. LocalTypes'
      BY <1>1, <2>1 DEF LocalTypes, Places
    <3> QED
      BY <3>1, <3>2, TypesKept DEF StorageInv
  <2>6. Equipped(c)'
    BY <1>1, <1>3, <2>1, <2>2 DEF ClientInv, Equipped, Running, OpAgrees,
       Materializing, Writing, Inspecting, Deleting, Pruning
  <2>7. Staged(c)' /\ Examined(c)' /\ Allowed(c)'
    BY <1>2, <2>1, <2>2 DEF Staged, Examined, Allowed, Writing, Inspecting
  <2>8. TempsOwned(c)'
    BY <1>4, <2>3 DEF TempsOwned, Fresh
  <2> QED
    BY <2>4, <2>5, <2>6, <2>7, <2>8 DEF Fine, ClientInv
<1> QED
  BY <1>5, <1>6

\* The finally clause.
LEMMA CleanupStep ==
    ASSUME StorageInv, NEW c \in Clients, Observe, Cleanup(c)
    PROVE  Fine(c)
<1>1. DiskTypes /\ LocalTypes /\ CounterTypes /\ ClientInv(c)
  BY TypesAre DEF StorageInv
<1>2. pc[c] = "cleanup" /\ UNCHANGED <<made, crashes>> /\ tombstone[c] = None
  BY <1>1 DEF Cleanup, At, ClientInv, Staged
<1>3. Running(c) /\ call[c].op = "materialize" /\ rev[c] \in Revisions
  BY <1>1, <1>2, RevisionAtHand DEF ClientInv, Equipped, OpAgrees, Running, Materializing
<1>4. \A r \in Revisions : dir[r] # None => c \notin dir[r].temps
  BY <1>2, NothingAside
<1>5. CASE staging[c] # None
  <2>1. /\ staging' = [staging EXCEPT ![c] = None]
        /\ UNCHANGED <<dir, tombstone, pc, call, rev, got, left, listed, fault, answer>>
    BY <1>5 DEF Cleanup, local
  <2>2. staging'[c] = None
    BY <1>1, <2>1 DEF DiskTypes
  <2>3. StepOf(c)
    BY <1>1, <2>1 DEF StepOf, Evolves, LeftAlone, DiskTypes
  <2>4. TypeOK'
    <3>1. DiskTypes' /\ LocalTypes' /\ CounterTypes'
      BY <1>1, <1>2, <2>1 DEF DiskTypes, LocalTypes, CounterTypes
    <3> QED
      BY <3>1, TypesKept DEF StorageInv
  <2>5. Equipped(c)' /\ Examined(c)' /\ Allowed(c)' /\ TempsOwned(c)'
    BY <1>1, <1>2, <1>4, <2>1 DEF ClientInv, Equipped, Running, OpAgrees, Examined,
       Allowed, TempsOwned, Writing, Inspecting, Deleting
  <2>6. Staged(c)'
    BY <1>2, <2>1, <2>2 DEF Staged
  <2> QED
    BY <2>3, <2>4, <2>5, <2>6 DEF Fine, ClientInv
<1>6. CASE staging[c] = None /\ fault[c] # None
  <2>1. fault[c] \in Results
    BY <1>1 DEF LocalTypes, Results
  <2> QED
    BY <1>2, <1>4, <1>6, <2>1, AnswerStep DEF Cleanup, Fine
<1>7. CASE staging[c] = None /\ fault[c] = None
  <2>1. Only(c, "confirm")
    BY <1>7 DEF Cleanup
  <2>2. StepOf(c) /\ TypeOK' /\ pc'[c] = "confirm"
    BY <1>2, <2>1, OnlyStep DEF Places
  <2>3. UNCHANGED <<dir, staging, tombstone, call, rev, got>>
    BY <2>1 DEF Only, disk, local
  <2>4. Equipped(c)'
    BY <1>1, <1>3, <2>2, <2>3 DEF ClientInv, Equipped, Running, OpAgrees, Materializing,
       Writing, Inspecting, Deleting, Pruning
  <2>5. Staged(c)' /\ Examined(c)' /\ Allowed(c)' /\ TempsOwned(c)'
    BY <1>2, <1>4, <1>7, <2>2, <2>3 DEF Staged, Examined, Allowed, TempsOwned, Writing,
       Inspecting
  <2> QED
    BY <2>2, <2>4, <2>5 DEF Fine, ClientInv
<1> QED
  BY <1>5, <1>6, <1>7

\* An error of a write, wherever it takes the call.
LEMMA WriteFailsStep ==
    ASSUME StorageInv, NEW c \in Clients, Observe, pc[c] \in Writing,
           UNCHANGED <<made, crashes>>, WriteFails(c),
           \A r \in Revisions : dir[r] # None => c \notin dir[r].temps
    PROVE  Fine(c)
<1>1. ClientInv(c) /\ tombstone[c] = None
  BY DEF StorageInv, ClientInv, Staged, Writing
<1>2. CASE staging[c] # None
  <2>1. call[c].op = "materialize"
    BY <1>1, <1>2 DEF ClientInv, Staged, Writing
  <2> QED
    BY <1>2, <2>1, FaultStep DEF WriteFails, Fine
<1>3. CASE staging[c] = None
  BY <1>1, <1>3, AnswerStep DEF WriteFails, Fine, Results
<1> QED
  BY <1>2, <1>3

LEMMA WriteTempStep ==
    ASSUME StorageInv, NEW c \in Clients, Observe, WriteTemp(c)
    PROVE  Fine(c)
<1>1. DiskTypes /\ LocalTypes /\ CounterTypes /\ ClientInv(c)
  BY TypesAre DEF StorageInv
<1>2. /\ pc[c] = "write" /\ UNCHANGED <<made, crashes>>
      /\ pc[c] \in Writing /\ tombstone[c] = None
      /\ \A r \in Revisions : dir[r] # None => c \notin dir[r].temps
  BY NothingAside DEF WriteTemp, At, Writing
<1>3. Running(c) /\ call[c].op \in {"materialize", "set"} /\ rev[c] \in Revisions
  BY <1>1, <1>2, RevisionAtHand DEF ClientInv, Equipped, OpAgrees, Running
<1>4. CASE dir[rev[c]] = None
  BY <1>2, <1>4, WriteFailsStep DEF WriteTemp
<1>5. CASE dir[rev[c]] # None
  <2> DEFINE old == dir[rev[c]]
             new == [old EXCEPT !.temps = old.temps \cup {c}]
  <2>1. old \in Directory /\ old.temps \in SUBSET Clients
    BY <1>1, <1>3, <1>5, DirectoryFields DEF DiskTypes
  <2>2. /\ dir' = [dir EXCEPT ![rev[c]] = new]
        /\ pc' = [pc EXCEPT ![c] = "install"]
        /\ UNCHANGED <<staging, tombstone, call, rev, got, left, listed, fault, answer>>
    BY <1>5 DEF WriteTemp, SetDir, GoTo, local
  <2>3. new \in Directory
    BY <2>1, DirectoryUpdates
  <2>4. /\ new.payload = old.payload /\ new.descriptor = old.descriptor
        /\ new.temps = old.temps \cup {c} /\ new # None
    BY <2>1, <2>3, DirectoryFields DEF Directory
  <2> HIDE DEF new
  <2>5. \A r \in Revisions : dir'[r] = IF r = rev[c] THEN new ELSE dir[r]
    BY <1>1, <2>2 DEF DiskTypes
  <2>6. pc'[c] = "install"
    BY <1>1, <2>2 DEF LocalTypes
  <2>7. StepOf(c)
    <3>1. \A r \in Revisions : Evolves(c, r)
      BY <1>5, <2>4, <2>5 DEF Evolves
    <3>2. \A d \in Clients \ {c} : LeftAlone(d)
      BY <1>1, <2>2 DEF LeftAlone, LocalTypes
    <3> QED
      BY <3>1, <3>2 DEF StepOf
  <2>8. TypeOK'
    <3>1. DiskTypes' /\ CounterTypes'
      BY <1>1, <1>2, <1>3, <2>2, <2>3 DEF DiskTypes, CounterTypes
    <3>2. LocalTypes'
      BY <1>1, <2>2 DEF LocalTypes, Places
    <3> QED
      BY <3>1, <3>2, TypesKept DEF StorageInv
  <2>9. Equipped(c)'
    BY <1>1, <1>2, <1>3, <2>2, <2>6 DEF ClientInv, Equipped, Running, OpAgrees,
       Materializing, Writing, Inspecting, Deleting, Pruning
  <2>10. Staged(c)' /\ Allowed(c)'
    BY <1>1, <1>2, <2>2, <2>6 DEF ClientInv, Staged, Allowed, Writing, Inspecting
  <2>11. Examined(c)'
    BY <1>1, <1>2, <1>3, <1>5, <2>2, <2>4, <2>5, <2>6
    DEF ClientInv, Examined, Intact, Describable, Writing
  <2>12. TempsOwned(c)'
    BY <1>2, <2>2, <2>5, <2>6 DEF TempsOwned
  <2> QED
    BY <2>7, <2>8, <2>9, <2>10, <2>11, <2>12 DEF Fine, ClientInv
<1> QED
  BY <1>4, <1>5

\* What a rename of a document makes of the directory.
LEMMA InstalledFields ==
    ASSUME StorageInv, NEW c \in Clients, pc[c] = "install",
           NEW d \in Directory
    PROVE  /\ Installed(c, d) \in Directory /\ Installed(c, d).payload = d.payload
           /\ Installed(c, d).temps = d.temps \ {c}
           /\ call[c].op = "set" => /\ Updated(c) \in Lifecycle
                                    /\ Installed(c, d).lifecycle = Updated(c)
                                    /\ Installed(c, d).descriptor = d.descriptor
           /\ call[c].op # "set" => /\ Installed(c, d).lifecycle = d.lifecycle
                                    /\ Installed(c, d).descriptor = "good"
<1>1. d.temps \ {c} \in SUBSET Clients
  BY DirectoryFields
<1>2. Running(c) /\ Equipped(c)
  BY DEF StorageInv, ClientInv, Running
<1>3. CASE call[c].op = "set"
  <2>1. call[c] \in Calls /\ got[c] \in Lifecycle
    BY <1>2, <1>3 DEF Equipped, Writing
  <2>2. /\ call[c].retention \in Retentions \cup {None}
        /\ call[c].pinned \in BOOLEAN \cup {None}
    BY <1>3, <2>1, CallFields
  <2>3. got[c].retention \in Retentions /\ got[c].pinned \in BOOLEAN
    BY <2>1 DEF Lifecycle
  <2>4. /\ Keep(call[c].retention, got[c].retention) \in Retentions
        /\ Keep(call[c].pinned, got[c].pinned) \in BOOLEAN
    BY <2>2, <2>3 DEF Keep
  <2>5. Updated(c) \in Lifecycle
    BY <2>4 DEF Updated, Lifecycle
  <2> DEFINE l == Updated(c)
             once == [d EXCEPT !.lifecycle = l]
             twice == [once EXCEPT !.temps = d.temps \ {c}]
  <2> HIDE DEF l
  <2>6. Installed(c, d) = [d EXCEPT !.lifecycle = l, !.temps = d.temps \ {c}]
    BY <1>3 DEF Installed, l
  <2>7. Installed(c, d) = twice
    BY <2>6 DEF Directory
  <2>8. once \in Directory /\ twice \in Directory
    BY <1>1, <2>5, DirectoryUpdates DEF l
  <2>9. once.payload = d.payload /\ once.descriptor = d.descriptor /\ once.lifecycle = l
    BY DEF Directory
  <2> HIDE DEF once
  <2>10. /\ twice.payload = d.payload /\ twice.descriptor = d.descriptor
         /\ twice.lifecycle = l /\ twice.temps = d.temps \ {c}
    BY <2>8, <2>9 DEF Directory
  <2> HIDE DEF twice
  <2> QED
    BY <1>3, <2>5, <2>7, <2>8, <2>10 DEF l
<1>4. CASE call[c].op # "set"
  <2> DEFINE once == [d EXCEPT !.descriptor = "good"]
             twice == [once EXCEPT !.temps = d.temps \ {c}]
  <2>1. Installed(c, d) = [d EXCEPT !.descriptor = "good", !.temps = d.temps \ {c}]
    BY <1>4 DEF Installed
  <2>2. Installed(c, d) = twice
    BY <2>1 DEF Directory
  <2>3. once \in Directory /\ twice \in Directory
    BY <1>1, DirectoryUpdates DEF Contents
  <2>4. /\ once.payload = d.payload /\ once.descriptor = "good"
        /\ once.lifecycle = d.lifecycle
    BY DEF Directory
  <2> HIDE DEF once
  <2>5. /\ twice.payload = d.payload /\ twice.descriptor = "good"
        /\ twice.lifecycle = d.lifecycle /\ twice.temps = d.temps \ {c}
    BY <2>3, <2>4 DEF Directory
  <2> HIDE DEF twice
  <2> QED
    BY <1>4, <2>2, <2>3, <2>5
<1> QED
  BY <1>3, <1>4

LEMMA InstallStep ==
    ASSUME StorageInv, NEW c \in Clients, Observe, Install(c)
    PROVE  Fine(c)
<1>1. DiskTypes /\ LocalTypes /\ CounterTypes /\ ClientInv(c)
  BY TypesAre DEF StorageInv
<1>2. /\ pc[c] = "install" /\ UNCHANGED <<made, crashes>>
      /\ pc[c] \in Writing /\ tombstone[c] = None
  BY <1>1 DEF Install, At, Writing, ClientInv, Staged
<1>3. Running(c) /\ call[c].op \in {"materialize", "set"} /\ rev[c] \in Revisions
  BY <1>1, <1>2, RevisionAtHand DEF ClientInv, Equipped, OpAgrees, Running
<1>4. \A r \in Revisions \ {rev[c]} : dir[r] # None => c \notin dir[r].temps
  BY <1>1, <1>2 DEF ClientInv, TempsOwned
<1>5. CASE dir[rev[c]] = None \/ c \notin dir[rev[c]].temps
  BY <1>2, <1>4, <1>5, WriteFailsStep DEF Install
<1>6. CASE ~(dir[rev[c]] = None \/ c \notin dir[rev[c]].temps)
  <2> DEFINE old == dir[rev[c]]
             new == Installed(c, old)
  <2>1. old \in Directory
    BY <1>1, <1>3, <1>6 DEF DiskTypes
  <2>2. /\ new \in Directory /\ new # None /\ new.payload = old.payload
        /\ new.temps = old.temps \ {c}
        /\ new.descriptor \in {old.descriptor, "good"}
    BY <1>2, <2>1, InstalledFields, DirectoryFields
  <2>3. dir' = [dir EXCEPT ![rev[c]] = new] /\ UNCHANGED <<staging, tombstone>>
    BY <1>6 DEF Install, SetDir
  <2> HIDE DEF new
  <2>4. \A r \in Revisions : dir'[r] = IF r = rev[c] THEN new ELSE dir[r]
    BY <1>1, <2>3 DEF DiskTypes
  <2>5. \A r \in Revisions : dir'[r] # None => c \notin dir'[r].temps
    BY <1>4, <2>2, <2>4
  <2>6. \A r \in Revisions : Evolves(c, r)
    BY <1>6, <2>2, <2>4 DEF Evolves
  <2>7. DiskTypes' /\ CounterTypes'
    BY <1>1, <1>2, <1>3, <2>2, <2>3 DEF DiskTypes, CounterTypes
  <2>8. CASE call[c].op = "set"
    <3>1. Return(c, "set") /\ staging[c] = None
      BY <1>1, <1>2, <1>6, <2>8 DEF Install, ClientInv, Staged, Writing
    <3>2. LocalTypes'
      BY <1>1, <3>1, ReturnTypes DEF Results
    <3>3. ClientInv(c)' /\ \A d \in Clients \ {c} : LeftAlone(d)
      BY <1>1, <1>2, <2>3, <2>5, <3>1, ReturnInv
    <3> QED
      BY <2>6, <2>7, <3>2, <3>3, TypesKept DEF Fine, StepOf, StorageInv
  <2>9. CASE call[c].op # "set"
    <3>1. PICK place \in {"cleanup", "validate"} :
              /\ pc' = [pc EXCEPT ![c] = place]
              /\ place = "validate" => staging[c] = None
      BY <1>6, <2>9 DEF Install, GoTo
    <3>2. UNCHANGED <<call, rev, got, left, listed, fault, answer>>
      BY <1>6, <2>9 DEF Install, local
    <3>3. pc'[c] = place /\ call[c].op = "materialize"
      BY <1>1, <1>3, <2>9, <3>1 DEF LocalTypes
    <3>4. LocalTypes'
      BY <1>1, <3>1, <3>2 DEF LocalTypes, Places
    <3>5. \A d \in Clients \ {c} : LeftAlone(d)
      BY <1>1, <2>3, <3>1, <3>2 DEF LeftAlone, LocalTypes
    <3>6. Equipped(c)'
      BY <1>1, <1>3, <3>2, <3>3 DEF ClientInv, Equipped, Running, OpAgrees,
         Materializing, Writing, Inspecting, Deleting, Pruning
    <3>7. Staged(c)'
      BY <1>2, <2>3, <3>1, <3>3 DEF Staged
    <3>8. Examined(c)' /\ Allowed(c)'
      BY <3>3 DEF Examined, Allowed, Writing, Inspecting
    <3>9. TempsOwned(c)'
      BY <2>5 DEF TempsOwned
    <3> QED
      BY <2>6, <2>7, <3>4, <3>5, <3>6, <3>7, <3>8, <3>9, TypesKept
      DEF Fine, StepOf, StorageInv, ClientInv
  <2> QED
    BY <2>8, <2>9
<1> QED
  BY <1>5, <1>6

\* Finding a revision and reading its lifecycle.
LEMMA InspectStep ==
    ASSUME StorageInv, NEW c \in Clients, Observe, Inspect(c)
    PROVE  Fine(c)
<1>1. DiskTypes /\ LocalTypes /\ CounterTypes /\ ClientInv(c)
  BY TypesAre DEF StorageInv
<1>2. /\ pc[c] \in Inspecting /\ UNCHANGED <<made, crashes>>
      /\ pc[c] \notin {"install", "dead", "clear"}
  BY DEF Inspect, Find, Parse, Look, Read, At, Inspecting
<1>3. Running(c) /\ call[c].op \in {"delete", "set", "prune"} /\ rev[c] \in Revisions
  BY <1>1, <1>2 DEF ClientInv, Equipped, OpAgrees, Running, Inspecting
<1>4. /\ staging[c] = None /\ tombstone[c] = None
      /\ \A r \in Revisions : dir[r] # None => c \notin dir[r].temps
  BY <1>1, <1>2, NothingAside DEF ClientInv, Staged, Inspecting, Writing
<1>5. CASE \E result \in Results : Answer(c, result)
  BY <1>2, <1>4, <1>5, AnswerStep DEF Fine
<1>6. ASSUME NEW place \in {"parse", "look", "read"}, Only(c, place)
      PROVE  Fine(c)
  <2>1. StepOf(c) /\ TypeOK' /\ pc'[c] = place
    BY <1>2, <1>6, OnlyStep DEF Places
  <2>2. UNCHANGED <<dir, staging, tombstone, call, rev, got>>
    BY <1>6 DEF Only, disk, local
  <2>3. Equipped(c)' /\ Staged(c)' /\ Examined(c)' /\ TempsOwned(c)'
    BY <1>1, <1>2, <1>3, <1>4, <2>1, <2>2 DEF ClientInv, Equipped, Running, OpAgrees,
       Staged, Examined, TempsOwned, Materializing, Writing, Inspecting, Deleting, Pruning
  <2>4. Allowed(c)'
    BY <1>1, <1>2, <2>1, <2>2, ObserveRemembers DEF ClientInv, Allowed, Inspecting
  <2> QED
    BY <2>1, <2>3, <2>4 DEF Fine, ClientInv
<1>7. ASSUME Only(c, "prune"), call[c].op = "prune"
      PROVE  Fine(c)
  <2>1. StepOf(c) /\ TypeOK' /\ pc'[c] = "prune"
    BY <1>2, <1>7, OnlyStep DEF Places
  <2>2. UNCHANGED <<dir, staging, tombstone, call, rev, got>>
    BY <1>7 DEF Only, disk, local
  <2>3. Equipped(c)'
    BY <1>1, <1>3, <1>7, <2>1, <2>2 DEF ClientInv, Equipped, Running, OpAgrees,
       Materializing, Writing, Inspecting, Deleting, Pruning
  <2>4. Staged(c)' /\ Examined(c)' /\ TempsOwned(c)' /\ Allowed(c)'
    BY <1>4, <2>1, <2>2 DEF Staged, Examined, TempsOwned, Allowed, Writing, Inspecting
  <2> QED
    BY <2>1, <2>3, <2>4 DEF Fine, ClientInv
<1>8. ASSUME NEW l \in Lifecycle, l = LifecycleOf(dir[rev[c]]), Decide(c, l)
      PROVE  Fine(c)
  <2>1. CASE call[c].op # "set" /\ l.pinned
    BY <1>5, <1>8, <2>1 DEF Decide, Results
  <2>2. CASE ~(call[c].op # "set" /\ l.pinned)
    <3> DEFINE place == IF call[c].op = "set" THEN "write" ELSE "remove"
               kept == IF call[c].op = "set" THEN l ELSE None
    <3>1. /\ pc' = [pc EXCEPT ![c] = place] /\ got' = [got EXCEPT ![c] = kept]
          /\ UNCHANGED <<dir, staging, tombstone, call, rev, left, listed, fault, answer>>
      BY <1>8, <2>2 DEF Decide, GoOn, GoTo, disk
    <3>2. pc'[c] = place /\ got'[c] = kept
      BY <1>1, <3>1 DEF LocalTypes
    <3>3. \A d \in Clients \ {c} : LeftAlone(d)
      BY <1>1, <3>1 DEF LeftAlone, LocalTypes
    <3>4. StepOf(c)
      BY <3>1, <3>3 DEF StepOf, Evolves
    <3>5. TypeOK'
      <4>1. DiskTypes' /\ CounterTypes'
        BY <1>1, <1>2, <3>1 DEF DiskTypes, CounterTypes
      <4>2. LocalTypes'
        BY <1>1, <1>8, <3>1 DEF LocalTypes, Places
      <4> QED
        BY <4>1, <4>2, TypesKept DEF StorageInv
    <3>6. Equipped(c)'
      BY <1>1, <1>3, <1>8, <3>1, <3>2 DEF ClientInv, Equipped, Running, OpAgrees,
         Materializing, Writing, Inspecting, Deleting, Pruning
    <3>7. Staged(c)' /\ Examined(c)' /\ TempsOwned(c)'
      BY <1>3, <1>4, <3>1, <3>2 DEF Staged, Examined, TempsOwned, Writing
    <3>8. Allowed(c)'
      <4>1. CASE call[c].op = "set"
        BY <3>2, <4>1 DEF Allowed, Inspecting
      <4>2. CASE call[c].op = "prune"
        BY <1>1, <1>2, <3>1, <3>2, <4>2, ObserveRemembers
        DEF ClientInv, Allowed, Inspecting
      <4>3. CASE call[c].op = "delete"
        <5>1. call[c].rev = rev[c]
          BY <1>1, <1>3, <4>3 DEF ClientInv, Equipped
        <5>2. PICK r \in Revisions : r = rev[c]
          BY <1>3
        <5>3. Removable(c, r)'
          BY <1>8, <2>2, <3>1, <4>3, <5>1, <5>2 DEF Removable
        <5>4. r \in free'[c]
          BY <3>2, <4>3, <5>3, ObserveRemembers
        <5> QED
          BY <3>1, <3>2, <4>3, <5>2, <5>4 DEF Allowed, Inspecting
      <4> QED
        BY <1>3, <4>1, <4>2, <4>3
    <3> QED
      BY <3>4, <3>5, <3>6, <3>7, <3>8 DEF Fine, ClientInv
  <2> QED
    BY <2>1, <2>2
<1> QED
  <2>1. CASE Find(c)
    BY <1>3, <1>5, <1>6, <1>7, <2>1 DEF Find, Results
  <2>2. CASE Parse(c)
    BY <1>5, <1>6, <2>2 DEF Parse, Results
  <2>3. Default \in Lifecycle
    BY DEF Default, Lifecycle, Retentions
  <2>4. CASE Look(c)
    BY <1>6, <1>8, <2>3, <2>4 DEF Look, HasLifecycle, LifecycleOf
  <2>5. CASE Read(c)
    <3>1. CASE HasLifecycle(rev[c])
      <4>1. dir[rev[c]].lifecycle \in Lifecycle
        BY <1>1, <1>3, <3>1, DirectoryFields DEF DiskTypes, HasLifecycle
      <4> QED
        BY <1>8, <2>5, <3>1, <4>1 DEF Read, HasLifecycle, LifecycleOf
    <3>2. CASE ~HasLifecycle(rev[c])
      BY <1>5, <2>5, <3>2 DEF Read, Results
    <3> QED
      BY <3>1, <3>2
  <2> QED
    BY <2>1, <2>2, <2>4, <2>5 DEF Inspect

\* The rename out of sight.
LEMMA RemoveStep ==
    ASSUME StorageInv, NEW c \in Clients, Observe, Remove(c)
    PROVE  Fine(c)
<1>1. DiskTypes /\ LocalTypes /\ CounterTypes /\ ClientInv(c)
  BY TypesAre DEF StorageInv
<1>2. pc[c] = "remove" /\ UNCHANGED <<made, crashes>>
  BY DEF Remove, At
<1>3. Running(c) /\ call[c].op \in {"delete", "prune"} /\ rev[c] \in Revisions
  BY <1>1, <1>2 DEF ClientInv, Equipped, OpAgrees, Running, Deleting
<1>4. /\ staging[c] = None /\ tombstone[c] = None
      /\ \A r \in Revisions : dir[r] # None => c \notin dir[r].temps
  BY <1>1, <1>2, NothingAside DEF ClientInv, Staged, Writing
<1>5. CASE \E result \in Results : Answer(c, result)
  BY <1>2, <1>4, <1>5, AnswerStep DEF Fine
<1>6. CASE call[c].op = "prune" /\ Only(c, "prune")
  <2>1. StepOf(c) /\ TypeOK' /\ pc'[c] = "prune"
    BY <1>2, <1>6, OnlyStep DEF Places
  <2>2. UNCHANGED <<dir, staging, tombstone, call, rev, got>>
    BY <1>6 DEF Only, disk, local
  <2>3. Equipped(c)'
    BY <1>1, <1>3, <1>6, <2>1, <2>2 DEF ClientInv, Equipped, Running, OpAgrees,
       Materializing, Writing, Inspecting, Deleting, Pruning
  <2>4. Staged(c)' /\ Examined(c)' /\ TempsOwned(c)' /\ Allowed(c)'
    BY <1>4, <2>1, <2>2 DEF Staged, Examined, TempsOwned, Allowed, Writing, Inspecting
  <2> QED
    BY <2>1, <2>3, <2>4 DEF Fine, ClientInv
<1>7. CASE dir[rev[c]] # None
  <2>1. /\ tombstone' = [tombstone EXCEPT ![c] = dir[rev[c]]]
        /\ dir' = [dir EXCEPT ![rev[c]] = None]
        /\ pc' = [pc EXCEPT ![c] = "clear"]
        /\ UNCHANGED <<staging, call, rev, got, left, listed, fault, answer>>
    BY <1>7 DEF Remove, GoTo, local
  <2>2. \A r \in Revisions : dir'[r] = IF r = rev[c] THEN None ELSE dir[r]
    BY <1>1, <2>1 DEF DiskTypes
  <2>3. pc'[c] = "clear"
    BY <1>1, <2>1 DEF LocalTypes
  <2>4. StepOf(c)
    BY <1>1, <2>1, <2>2 DEF StepOf, Evolves, LeftAlone, LocalTypes, DiskTypes
  <2>5. TypeOK'
    <3>1. dir[rev[c]] \in Directory
      BY <1>1, <1>3, <1>7 DEF DiskTypes
    <3>2. DiskTypes' /\ CounterTypes'
      BY <1>1, <1>2, <2>1, <3>1 DEF DiskTypes, CounterTypes
    <3>3. LocalTypes'
      BY <1>1, <2>1 DEF LocalTypes, Places
    <3> QED
      BY <3>2, <3>3, TypesKept DEF StorageInv
  <2>6. Equipped(c)'
    BY <1>1, <1>3, <2>1, <2>3 DEF ClientInv, Equipped, Running, OpAgrees,
       Materializing, Writing, Inspecting, Deleting, Pruning
  <2>7. Staged(c)' /\ Examined(c)' /\ Allowed(c)'
    BY <1>4, <2>1, <2>3 DEF Staged, Examined, Allowed, Writing, Inspecting
  <2>8. TempsOwned(c)'
    BY <1>4, <2>2 DEF TempsOwned
  <2> QED
    BY <2>4, <2>5, <2>6, <2>7, <2>8 DEF Fine, ClientInv
<1> QED
  BY <1>5, <1>6, <1>7 DEF Remove, Results

LEMMA ClearStep ==
    ASSUME StorageInv, NEW c \in Clients, Observe, Clear(c)
    PROVE  Fine(c)
<1>1. DiskTypes /\ LocalTypes /\ CounterTypes /\ ClientInv(c)
  BY TypesAre DEF StorageInv
<1>2. /\ pc[c] = "clear" /\ UNCHANGED <<made, crashes, dir, staging>>
      /\ tombstone' = [tombstone EXCEPT ![c] = None]
  BY DEF Clear, At
<1>3. Running(c) /\ call[c].op \in {"delete", "prune"} /\ tombstone'[c] = None
  BY <1>1, <1>2 DEF ClientInv, Equipped, OpAgrees, Running, Deleting, DiskTypes
<1>4. /\ staging[c] = None
      /\ \A r \in Revisions : dir[r] # None => c \notin dir[r].temps
  BY <1>1, <1>2, NothingAside DEF ClientInv, Staged, Writing
<1>5. /\ \A d \in Clients \ {c} : tombstone'[d] = tombstone[d]
      /\ \A r \in Revisions : Evolves(c, r)
      /\ DiskTypes' /\ CounterTypes'
  BY <1>1, <1>2 DEF DiskTypes, CounterTypes, Evolves
<1>6. CASE call[c].op = "prune"
  <2>1. /\ pc' = [pc EXCEPT ![c] = "prune"]
        /\ UNCHANGED <<call, rev, got, left, listed, fault, answer>>
    BY <1>6 DEF Clear, AfterDelete, GoTo, local
  <2>2. pc'[c] = "prune" /\ LocalTypes'
    BY <1>1, <2>1 DEF LocalTypes, Places
  <2>3. \A d \in Clients \ {c} : LeftAlone(d)
    BY <1>1, <1>2, <1>5, <2>1 DEF LeftAlone, LocalTypes
  <2>4. Equipped(c)'
    BY <1>1, <1>3, <1>6, <2>1, <2>2 DEF ClientInv, Equipped, Running, OpAgrees,
       Materializing, Writing, Inspecting, Deleting, Pruning
  <2>5. Staged(c)' /\ Examined(c)' /\ TempsOwned(c)' /\ Allowed(c)'
    BY <1>2, <1>3, <1>4, <2>2 DEF Staged, Examined, TempsOwned, Allowed, Writing,
       Inspecting
  <2> QED
    BY <1>5, <2>2, <2>3, <2>4, <2>5, TypesKept DEF Fine, StepOf, ClientInv, StorageInv
<1>7. CASE call[c].op # "prune"
  <2>1. Return(c, "deleted")
    BY <1>7 DEF Clear, AfterDelete
  <2>2. LocalTypes'
    BY <1>1, <2>1, ReturnTypes DEF Results
  <2>3. ClientInv(c)' /\ \A d \in Clients \ {c} : LeftAlone(d)
    BY <1>1, <1>2, <1>3, <1>4, <1>5, <2>1, ReturnInv
  <2> QED
    BY <1>5, <2>2, <2>3, TypesKept DEF Fine, StepOf, StorageInv
<1> QED
  BY <1>6, <1>7

\* Listing the revisions and choosing those to be deleted.
LEMMA PruneStep ==
    ASSUME StorageInv, NEW c \in Clients, Observe, Prune(c)
    PROVE  Fine(c)
<1>1. DiskTypes /\ LocalTypes /\ CounterTypes /\ ClientInv(c)
  BY TypesAre DEF StorageInv
<1>2. /\ pc[c] \in Pruning /\ UNCHANGED <<made, crashes>>
      /\ pc[c] \notin {"install", "dead", "clear"}
  BY DEF Prune, List, ListNext, ListParse, ListEnds, PruneNext, PruneRead, PruneEnds,
     At, Pruning
<1>3. Running(c) /\ call[c].op = "prune" /\ call[c] \in Calls
  BY <1>1, <1>2 DEF ClientInv, Equipped, OpAgrees, Running, Pruning
<1>4. /\ staging[c] = None /\ tombstone[c] = None
      /\ \A r \in Revisions : dir[r] # None => c \notin dir[r].temps
  BY <1>1, <1>2, NothingAside DEF ClientInv, Staged, Pruning, Writing
<1>5. CASE \E result \in Results : Answer(c, result)
  BY <1>2, <1>4, <1>5, AnswerStep DEF Fine
\* Steps along the list: they touch nothing but the client's variables.
<1>6. ASSUME NEW place \in Pruning, NEW r \in Revisions \cup {None},
             NEW more \in SUBSET Revisions, NEW found \in SUBSET Revisions,
             pc' = [pc EXCEPT ![c] = place], rev' = [rev EXCEPT ![c] = r],
             left' = [left EXCEPT ![c] = more], listed' = [listed EXCEPT ![c] = found],
             UNCHANGED <<dir, staging, tombstone, call, got, fault, answer>>,
             place \in {"list_parse", "prune_read"} => r \in Revisions
      PROVE  Fine(c)
  <2>1. pc'[c] = place /\ rev'[c] = r
    BY <1>1, <1>6 DEF LocalTypes
  <2>2. StepOf(c)
    BY <1>1, <1>6 DEF StepOf, Evolves, LeftAlone, LocalTypes
  <2>3. TypeOK'
    <3>1. DiskTypes' /\ CounterTypes'
      BY <1>1, <1>2, <1>6 DEF DiskTypes, CounterTypes
    <3>2. place \in Places
      BY DEF Pruning, Places
    <3>3. LocalTypes'
      BY <1>1, <1>6, <3>2 DEF LocalTypes
    <3> QED
      BY <3>1, <3>3, TypesKept DEF StorageInv
  <2>4. Equipped(c)'
    BY <1>3, <1>6, <2>1 DEF Equipped, Running, OpAgrees, Materializing, Writing,
       Inspecting, Deleting, Pruning
  <2>5. Staged(c)' /\ Examined(c)' /\ Allowed(c)' /\ TempsOwned(c)'
    BY <1>4, <1>6, <2>1 DEF Staged, Examined, Allowed, TempsOwned, Writing, Inspecting,
       Pruning
  <2> QED
    BY <2>2, <2>3, <2>4, <2>5 DEF Fine, ClientInv
<1>7. /\ left[c] \in SUBSET Revisions /\ listed[c] \in SUBSET Revisions
      /\ rev[c] \in Revisions \cup {None}
      /\ left = [left EXCEPT ![c] = left[c]] /\ listed = [listed EXCEPT ![c] = listed[c]]
      /\ rev = [rev EXCEPT ![c] = rev[c]]
  BY <1>1 DEF LocalTypes
<1>8. CASE List(c)
  BY <1>6, <1>7, <1>8 DEF List, GoTo, disk, Pruning
<1>9. CASE ListNext(c) \/ PruneNext(c)
  <2>1. PICK r \in left[c], place \in Pruning :
            /\ left' = [left EXCEPT ![c] = left[c] \ {r}]
            /\ rev' = [rev EXCEPT ![c] = r]
            /\ pc' = [pc EXCEPT ![c] = place]
    BY <1>9 DEF ListNext, PruneNext, GoTo, Pruning
  <2>2. UNCHANGED <<dir, staging, tombstone, call, got, listed, fault, answer>>
    BY <1>9 DEF ListNext, PruneNext, disk
  <2> QED
    BY <1>6, <1>7, <2>1, <2>2
<1>10. CASE ListParse(c)
  <2>1. rev[c] \in Revisions
    BY <1>1, <1>3, <1>10 DEF ListParse, At, ClientInv, Equipped
  <2>2. CASE dir[rev[c]] = None \/ dir[rev[c]].descriptor # "good"
    BY <1>5, <1>10, <2>2 DEF ListParse, Results
  <2>3. CASE ~(dir[rev[c]] = None \/ dir[rev[c]].descriptor # "good")
    <3>1. /\ listed' = [listed EXCEPT ![c] = listed[c] \cup {rev[c]}]
          /\ pc' = [pc EXCEPT ![c] = "listing"]
          /\ UNCHANGED <<dir, staging, tombstone, call, rev, got, left, fault, answer>>
      BY <1>10, <2>3 DEF ListParse, GoTo, disk
    <3>2. listed[c] \cup {rev[c]} \in SUBSET Revisions
      BY <1>7, <2>1
    <3> QED
      BY <1>6, <1>7, <2>1, <3>1, <3>2 DEF Pruning
  <2> QED
    BY <2>2, <2>3
<1>11. CASE ListEnds(c)
  BY <1>6, <1>7, <1>11 DEF ListEnds, GoTo, disk, Pruning
<1>12. CASE PruneEnds(c)
  BY <1>5, <1>12 DEF PruneEnds, Results
<1>13. CASE PruneRead(c)
  <2>1. rev[c] \in Revisions
    BY <1>1, <1>3, <1>13 DEF PruneRead, At, ClientInv, Equipped
  <2>2. CASE ~HasLifecycle(rev[c])
    BY <1>5, <1>13, <2>2 DEF PruneRead, Results
  <2>3. CASE HasLifecycle(rev[c]) /\ Only(c, "prune")
    BY <1>6, <1>7, <2>3 DEF Only, GoTo, disk, local, Pruning
  <2>4. CASE /\ HasLifecycle(rev[c]) /\ Only(c, "find")
             /\ dir[rev[c]].lifecycle.retention = "ephemeral"
             /\ ~dir[rev[c]].lifecycle.pinned
    <3>1. StepOf(c) /\ TypeOK' /\ pc'[c] = "find"
      BY <1>2, <2>4, OnlyStep DEF Places
    <3>2. UNCHANGED <<dir, staging, tombstone, call, rev, got>>
      BY <2>4 DEF Only, disk, local
    <3>3. Equipped(c)' /\ Staged(c)' /\ Examined(c)' /\ TempsOwned(c)'
      BY <1>3, <1>4, <2>1, <3>1, <3>2 DEF Equipped, Running, OpAgrees, Staged, Examined,
         TempsOwned, Materializing, Writing, Inspecting, Deleting, Pruning
    <3>4. PICK r \in Revisions : r = rev[c]
      BY <2>1
    <3>5. Removable(c, r)'
      BY <1>3, <2>4, <3>2, <3>4 DEF Removable, LifecycleOf, HasLifecycle
    <3>6. r \in free'[c]
      BY <3>1, <3>5, ObserveRemembers
    <3>7. Allowed(c)'
      BY <3>1, <3>2, <3>4, <3>6 DEF Allowed
    <3> QED
      BY <3>1, <3>3, <3>7 DEF Fine, ClientInv
  <2> QED
    BY <1>13, <2>2, <2>3, <2>4 DEF PruneRead
<1> QED
  BY <1>8, <1>9, <1>10, <1>11, <1>12, <1>13 DEF Prune

LEMMA DieStep ==
    ASSUME StorageInv, NEW c \in Clients, Observe, Die(c)
    PROVE  Fine(c)
<1>1. DiskTypes /\ LocalTypes /\ CounterTypes /\ ClientInv(c)
  BY TypesAre DEF StorageInv
<1>2. /\ pc' = [pc EXCEPT ![c] = "dead"]
      /\ UNCHANGED <<dir, staging, tombstone, call, rev, got, left, listed, fault,
                     answer, made>>
      /\ crashes < MaxCrashes /\ crashes' = crashes + 1
  BY DEF Die, GoTo, disk, local
<1>3. pc'[c] = "dead"
  BY <1>1, <1>2 DEF LocalTypes
<1>4. StepOf(c)
  BY <1>1, <1>2 DEF StepOf, Evolves, LeftAlone, LocalTypes
<1>5. TypeOK'
  <2>1. DiskTypes'
    BY <1>1, <1>2 DEF DiskTypes
  <2>2. LocalTypes'
    BY <1>1, <1>2 DEF LocalTypes, Places
  <2>3. CounterTypes'
    BY <1>1, <1>2, StorageAssumption DEF CounterTypes
  <2> QED
    BY <2>1, <2>2, <2>3, TypesKept DEF StorageInv
<1>6. ClientInv(c)'
  BY <1>3 DEF ClientInv, Equipped, Running, Staged, Examined, Allowed, TempsOwned,
     Writing, Inspecting
<1> QED
  BY <1>4, <1>5, <1>6 DEF Fine

-----------------------------------------------------------------------------
(* The invariant.                                                          *)

LEMMA InitStorageInv == Init => StorageInv
<1> SUFFICES ASSUME Init PROVE StorageInv
  OBVIOUS
<1>1. \A c \in Clients :
          /\ pc[c] = "idle" /\ staging[c] = None /\ tombstone[c] = None
  BY DEF Init
<1>2. \A r \in Revisions : dir[r] # None => dir[r].temps = {}
  BY StorageAssumption DEF Init
<1>3. \A c \in Clients : ClientInv(c)
  BY <1>1, <1>2 DEF ClientInv, Equipped, Running, Staged, Examined, Allowed, TempsOwned,
     Writing, Inspecting
<1>4. DiskTypes
  BY StorageAssumption DEF Init, DiskTypes
<1>5. LocalTypes
  BY DEF Init, LocalTypes, Places, Results
<1>6. CounterTypes
  BY StorageAssumption DEF Init, CounterTypes
<1>7. free \in [Clients -> SUBSET Revisions] /\ disturbed \in [Clients -> BOOLEAN]
  BY DEF Init
<1> QED
  BY <1>3, <1>4, <1>5, <1>6, <1>7, TypesAre DEF StorageInv

ClientStep(c) ==
    \/ Begin(c) \/ Materialize(c) \/ WriteTemp(c) \/ Install(c)
    \/ Inspect(c) \/ Remove(c) \/ Clear(c) \/ Prune(c) \/ Die(c)

LEMMA FineStep ==
    ASSUME StorageInv, NEW c \in Clients, Observe, ClientStep(c)
    PROVE  Fine(c)
<1>1. CASE Materialize(c)
  BY <1>1, QuietStep, StagingStep, PublishStep, CleanupStep DEF Materialize
<1> QED
  BY <1>1, BeginStep, WriteTempStep, InstallStep, InspectStep, RemoveStep, ClearStep,
     PruneStep, DieStep DEF ClientStep

LEMMA NextStorageInv == StorageInv /\ [Next]_vars => StorageInv'
<1> SUFFICES ASSUME StorageInv, [Next]_vars PROVE StorageInv'
  OBVIOUS
<1>1. CASE Next
  <2>1. PICK c \in Clients : ClientStep(c) /\ Observe
    BY <1>1 DEF Next, ClientStep
  <2>2. Fine(c)
    BY <2>1, FineStep
  <2>3. \A d \in Clients : ClientInv(d)'
    BY <2>1, <2>2, OthersKeepInv DEF Fine
  <2> QED
    BY <2>2, <2>3 DEF Fine, StorageInv
<1>2. CASE UNCHANGED vars
  <2>1. UNCHANGED <<dir, staging, tombstone, pc, call, rev, got, left, listed, fault,
                    answer, made, crashes, free, disturbed>>
    BY <1>2 DEF vars, disk, local, history
  <2>2. TypeOK'
    BY <2>1 DEF TypeOK, StorageInv
  <2>3. ASSUME NEW c \in Clients  PROVE ClientInv(c)'
    BY <2>1 DEF StorageInv, ClientInv, Equipped, OpAgrees, Running, Staged, Examined,
       Intact, Describable, Allowed, TempsOwned
  <2> QED
    BY <2>2, <2>3 DEF StorageInv
<1> QED
  BY <1>1, <1>2

LEMMA AlwaysStorageInv == Spec => []StorageInv
BY InitStorageInv, NextStorageInv, PTL DEF Spec

\* The variables of materialize, set_lifecycle, delete and prune have their
\* types whatever the processes do.
THEOREM StorageTypeCorrect == Spec => []TypeOK
<1>1. StorageInv => TypeOK
  BY DEF StorageInv
<1> QED
  BY <1>1, AlwaysStorageInv, PTL

\* Whoever has returned, or raised, has left no staging directory, no tombstone
\* and no temporary file.
THEOREM NobodyLeavesAnything == Spec => []NothingLeftBehind
<1>1. StorageInv => NothingLeftBehind
  BY DEF StorageInv, ClientInv, Staged, TempsOwned, Writing, NothingLeftBehind
<1> QED
  BY <1>1, AlwaysStorageInv, PTL

\* Who looks, stages, cleans up or dies does not change what others can see.
Removes(c) == Remove(c) /\ dir[rev[c]] # None
Publishes(c) == Publish(c) /\ dir[rev[c]] = None
Writes(c) == (WriteTemp(c) \/ Install(c)) /\ dir' # dir

LEMMA OthersTouchNothing ==
    ASSUME NEW c \in Clients, ClientStep(c), ~Removes(c)
    PROVE  /\ dir' = dir \/ Publishes(c) \/ Writes(c)
           /\ tombstone' \in {tombstone, [tombstone EXCEPT ![c] = None]}
<1>1. CASE Materialize(c)
  BY <1>1 DEF Materialize, Check, Require, Described, Stage, Copy, CopyFails, Verify,
     Publish, Publishes, Lost, Adopt, Cleanup, Confirm, Validate, Only, Answer, Fault, disk
<1>2. CASE WriteTemp(c) \/ Install(c)
  BY <1>2 DEF WriteTemp, Install, Writes, WriteFails, SetDir, Fault, Answer, disk
<1>3. CASE Inspect(c)
  BY <1>3 DEF Inspect, Find, Parse, Look, Read, Decide, GoOn, Only, Answer, disk
<1>4. CASE Prune(c)
  BY <1>4 DEF Prune, List, ListNext, ListParse, ListEnds, PruneNext, PruneRead,
     PruneEnds, Only, Answer, disk
<1>5. CASE Begin(c) \/ Die(c) \/ Clear(c)
  BY <1>5 DEF Begin, Die, Clear, disk
<1>6. CASE Remove(c)
  BY <1>6 DEF Remove, Removes, Only, Answer, disk
<1> QED
  BY <1>1, <1>2, <1>3, <1>4, <1>5, <1>6 DEF ClientStep

\* Only Remove takes a revision away, and only one that was seen free.
THEOREM OnlyFreeAreDeleted == Spec => DeletesOnlyFree
<1> DEFINE Taking == \A c \in Clients : \A r \in Revisions :
        tombstone[c] = None /\ tombstone'[c] # None /\ dir[r] # dir'[r]
            => r \in free[c]
<1>1. ASSUME StorageInv, [Next]_vars  PROVE Taking
  <2>1. CASE Next
    <3>1. PICK c \in Clients : ClientStep(c) /\ Observe
      BY <2>1 DEF Next, ClientStep
    <3>2. \A d \in Clients \ {c} : tombstone'[d] = tombstone[d]
      BY <1>1, <3>1, FineStep DEF Fine, StepOf, LeftAlone
    <3>3. CASE Removes(c)
      <4>1. rev[c] \in free[c] /\ dir' = [dir EXCEPT ![rev[c]] = None]
        BY <1>1, <3>3 DEF Removes, Remove, At, StorageInv, ClientInv, Allowed
      <4>2. \A r \in Revisions : dir[r] # dir'[r] => r = rev[c]
        BY <1>1, <4>1 DEF StorageInv, TypeOK
      <4> QED
        BY <3>2, <4>1, <4>2
    <3>4. CASE ~Removes(c)
      <4>1. tombstone \in [Clients -> Directory \cup {None}]
        BY <1>1 DEF StorageInv, TypeOK
      <4>2. tombstone'[c] \in {tombstone[c], None}
        BY <3>1, <3>4, <4>1, OthersTouchNothing
      <4> QED
        BY <3>2, <4>2
    <3> QED
      BY <3>3, <3>4
  <2>2. CASE UNCHANGED vars
    BY <2>2 DEF vars, disk
  <2> QED
    BY <1>1, <2>1, <2>2
<1>2. StorageInv /\ [Next]_vars => [Taking]_vars
  BY <1>1
<1> QED
  BY <1>2, AlwaysStorageInv, PTL DEF Spec, DeletesOnlyFree

-----------------------------------------------------------------------------
(* The refinement of RevisionStore.                                        *)

Shown == [r \in Revisions |-> Seen(dir[r])]

\* A change of one directory is a change of one revision of the store.
LEMMA ShownChange ==
    ASSUME DiskTypes, NEW r \in Revisions, NEW d, dir' = [dir EXCEPT ![r] = d]
    PROVE  Shown' = [Shown EXCEPT ![r] = Seen(d)]
BY DEF Shown, DiskTypes, Seen, LifecycleOf

LEMMA SeenIsStored ==
    ASSUME NEW d \in Directory
    PROVE  /\ Seen(d) \in Store!Stored /\ Seen(d) # None
           /\ Seen(d) = [payload |-> d.payload, descriptor |-> d.descriptor,
                         lifecycle |-> LifecycleOf(d)]
           /\ LifecycleOf(d) = IF d.lifecycle = None THEN Default ELSE d.lifecycle
           /\ LifecycleOf(d) \in Lifecycle
<1>1. d # None /\ LifecycleOf(d) = IF d.lifecycle = None THEN Default ELSE d.lifecycle
  BY DirectoryFields DEF LifecycleOf
<1>2. LifecycleOf(d) \in Lifecycle
  <2>1. Default \in Lifecycle
    BY DEF Default, Lifecycle, Retentions
  <2> QED
    BY <1>1, <2>1, DirectoryFields
<1>3. Seen(d) = [payload |-> d.payload, descriptor |-> d.descriptor,
                 lifecycle |-> LifecycleOf(d)]
  BY <1>1 DEF Seen
<1>4. Seen(d) \in [payload: Contents, descriptor: Contents, lifecycle: Lifecycle]
  BY <1>2, <1>3, DirectoryFields
<1> QED
  BY <1>1, <1>2, <1>3, <1>4, StorageAssumption
  DEF Store!Stored, Store!Contents, Store!Lifecycle, Store!Retentions, Contents,
      Lifecycle, Retentions

LEMMA PublishAppears ==
    ASSUME StorageInv, NEW c \in Clients, Publishes(c)
    PROVE  \E r \in Revisions : Store!Appear(r)
<1>1. DiskTypes /\ ClientInv(c) /\ pc[c] = "publish"
  BY TypesAre DEF StorageInv, Publishes, Publish, At
<1>2. rev[c] \in Revisions /\ staging[c] = Fresh /\ dir[rev[c]] = None
  BY <1>1, RevisionAtHand DEF Publishes, ClientInv, Staged, Equipped, OpAgrees,
     Running, Materializing
<1>3. Shown' = [Shown EXCEPT ![rev[c]] = Seen(Fresh)]
  BY <1>1, <1>2, ShownChange DEF Publishes, Publish
<1>4. Shown[rev[c]] = None
  BY <1>2 DEF Shown, Seen
<1>5. Seen(Fresh) = Store!Whole
  BY EmptyIsDirectory, SeenIsStored DEF Fresh, Store!Whole, Store!Default, Default
<1> QED
  BY <1>2, <1>3, <1>4, <1>5 DEF Shown, Store!Appear, Store!Become

LEMMA RemoveDisappears ==
    ASSUME StorageInv, NEW c \in Clients, Removes(c)
    PROVE  \E r \in Revisions : Store!Disappear(r)
<1>1. DiskTypes /\ ClientInv(c) /\ pc[c] = "remove"
  BY TypesAre DEF StorageInv, Removes, Remove, At
<1>2. rev[c] \in Revisions
  BY <1>1 DEF ClientInv, Equipped, Running, Deleting
<1>3. Shown' = [Shown EXCEPT ![rev[c]] = None]
  <2>1. Seen(None) = None
    BY DEF Seen
  <2> QED
    BY <1>1, <1>2, <2>1, ShownChange DEF Removes, Remove
<1>4. Shown[rev[c]] # None
  BY <1>1, <1>2, SeenIsStored DEF Shown, Removes, DiskTypes
<1> QED
  BY <1>2, <1>3, <1>4 DEF Shown, Store!Disappear, Store!Become

LEMMA SeenFromFields ==
    ASSUME NEW d \in Directory, NEW e \in Directory, d.payload = e.payload,
           d.descriptor = e.descriptor, d.lifecycle = e.lifecycle
    PROVE  Seen(d) = Seen(e)
BY DirectoryFields DEF Seen, LifecycleOf

\* A temporary file is invisible; its rename is a change of the lifecycle, or
\* gives the revision the descriptor it lacks.
LEMMA WriteDescribes ==
    ASSUME StorageInv, NEW c \in Clients, Writes(c)
    PROVE  \/ Shown' = Shown
           \/ \E r \in Revisions : Store!Describe(r) \/ Store!SetLifecycle(r)
<1>1. DiskTypes /\ ClientInv(c) /\ pc[c] \in Writing
  BY TypesAre DEF StorageInv, Writes, WriteTemp, Install, At, Writing
<1>2. Running(c) /\ call[c].op \in {"materialize", "set"} /\ rev[c] \in Revisions
  BY <1>1, RevisionAtHand DEF ClientInv, Equipped, OpAgrees, Running, Writing
<1> DEFINE old == dir[rev[c]]
<1>3. dir[rev[c]] # None
  BY DEF Writes, WriteTemp, Install, WriteFails, Fault, Answer, disk
<1>4. old \in Directory
  BY <1>1, <1>2, <1>3 DEF DiskTypes
<1>5. CASE WriteTemp(c)
  <2> DEFINE new == [old EXCEPT !.temps = old.temps \cup {c}]
  <2>1. dir' = [dir EXCEPT ![rev[c]] = new]
    BY <1>3, <1>5 DEF WriteTemp, SetDir
  <2>2. new \in Directory
    BY <1>4, DirectoryFields, DirectoryUpdates
  <2>3. /\ new.payload = old.payload /\ new.descriptor = old.descriptor
        /\ new.lifecycle = old.lifecycle
    BY <1>4 DEF Directory
  <2> HIDE DEF new
  <2>4. Seen(new) = Seen(old)
    BY <1>4, <2>2, <2>3, SeenFromFields
  <2>5. Shown' = [Shown EXCEPT ![rev[c]] = Seen(old)]
    BY <1>1, <1>2, <2>1, <2>4, ShownChange
  <2>6. Shown[rev[c]] = Seen(old)
    BY <1>2 DEF Shown
  <2> QED
    BY <1>2, <2>5, <2>6 DEF Shown
<1>6. CASE Install(c)
  <2> DEFINE new == Installed(c, old)
  <2>1. pc[c] = "install" /\ dir' = [dir EXCEPT ![rev[c]] = new]
    BY <1>3, <1>6 DEF Writes, Install, WriteFails, Fault, Answer, At, disk, SetDir
  <2>2. /\ new \in Directory /\ new.payload = old.payload
        /\ call[c].op = "set" => /\ Updated(c) \in Lifecycle
                                 /\ new.lifecycle = Updated(c)
                                 /\ new.descriptor = old.descriptor
        /\ call[c].op # "set" => /\ new.lifecycle = old.lifecycle
                                 /\ new.descriptor = "good"
    BY <1>4, <2>1, InstalledFields
  <2> HIDE DEF new
  <2>3. Shown' = [Shown EXCEPT ![rev[c]] = Seen(new)]
    BY <1>1, <1>2, <2>1, ShownChange
  <2>4. Shown[rev[c]] = Seen(old) /\ Seen(old) # None
    BY <1>2, <1>4, SeenIsStored DEF Shown
  <2>5. CASE call[c].op = "set"
    <3>1. LifecycleOf(new) = Updated(c) /\ Updated(c) \in Lifecycle
      BY <2>2, <2>5, SeenIsStored, StorageAssumption
    <3>2. Seen(new) = [Seen(old) EXCEPT !.lifecycle = Updated(c)]
      <4>1. Seen(new) = [payload |-> old.payload, descriptor |-> old.descriptor,
                         lifecycle |-> Updated(c)]
        BY <2>2, <2>5, <3>1, SeenIsStored
      <4>2. Seen(old) = [payload |-> old.payload, descriptor |-> old.descriptor,
                         lifecycle |-> LifecycleOf(old)]
        BY <1>4, SeenIsStored
      <4> QED
        BY <4>1, <4>2
    <3>3. Updated(c) \in Store!Lifecycle
      BY <3>1 DEF Store!Lifecycle, Store!Retentions, Lifecycle, Retentions
    <3>4. Shown' = [Shown EXCEPT ![rev[c]] =
                        [Shown[rev[c]] EXCEPT !.lifecycle = Updated(c)]]
      BY <2>3, <2>4, <3>2
    <3>5. PICK l \in Store!Lifecycle : l = Updated(c)
      BY <3>3
    <3>6. Store!SetLifecycle(rev[c])
      BY <2>4, <3>4, <3>5 DEF Shown, Store!SetLifecycle, Store!Become
    <3> QED
      BY <1>2, <3>6
  <2>6. CASE call[c].op # "set"
    <3>1. old.payload = "good" /\ old.descriptor \in {"none", "good"}
      BY <1>1, <1>2, <1>3, <1>4, <2>6, DirectoryFields
      DEF ClientInv, Examined, Intact, Describable, Contents
    <3>2. CASE old.descriptor = "good"
      <4>1. Seen(new) = Seen(old)
        BY <1>4, <2>2, <2>6, <3>2, SeenFromFields
      <4> QED
        BY <1>2, <2>3, <2>4, <4>1 DEF Shown
    <3>3. CASE old.descriptor = "none"
      <4>1. /\ Seen(new) = [payload |-> old.payload, descriptor |-> "good",
                            lifecycle |-> LifecycleOf(old)]
            /\ Seen(old) = [payload |-> old.payload, descriptor |-> old.descriptor,
                            lifecycle |-> LifecycleOf(old)]
        BY <1>4, <2>2, <2>6, SeenIsStored
      <4>2. Seen(new) = [Seen(old) EXCEPT !.descriptor = "good"]
        BY <4>1
      <4>3. Seen(old).payload = "good" /\ Seen(old).descriptor = "none"
        BY <3>1, <3>3, <4>1
      <4> QED
        BY <1>2, <2>3, <2>4, <4>2, <4>3 DEF Shown, Store!Describe, Store!Become
    <3> QED
      BY <3>1, <3>2, <3>3
  <2> QED
    BY <2>5, <2>6
<1> QED
  BY <1>5, <1>6 DEF Writes

LEMMA StepIsStoreStep ==
    StorageInv /\ [Next]_vars => [Store!Next]_Shown
<1> SUFFICES ASSUME StorageInv, [Next]_vars  PROVE [Store!Next]_Shown
  OBVIOUS
<1>1. ASSUME dir' = dir  PROVE Shown' = Shown
  BY <1>1 DEF Shown, Seen, LifecycleOf
<1>2. CASE UNCHANGED vars
  BY <1>1, <1>2 DEF vars, disk
<1>3. CASE Next
  <2>1. PICK c \in Clients : ClientStep(c)
    BY <1>3 DEF Next, ClientStep
  <2> QED
    BY <1>1, <2>1, OthersTouchNothing, PublishAppears, RemoveDisappears, WriteDescribes
    DEF Store!Next
<1> QED
  BY <1>2, <1>3

\* Storage implements the store: whatever races, fails or dies, a revision
\* appears whole, is not altered, and disappears at once.
THEOREM StorageIsRevisionStore == Spec => IsRevisionStore
<1>1. Init => Store!Init
  <2> SUFFICES ASSUME Init  PROVE Store!Init
    OBVIOUS
  <2>1. \A r \in Revisions : Seen(dir[r]) \in Store!Stored \cup {None}
    <3>1. \A r \in Revisions : dir[r] \in Directory \cup {None}
      BY StorageAssumption DEF Init
    <3> QED
      BY <3>1, SeenIsStored DEF Seen
  <2> QED
    BY <2>1 DEF Store!Init
<1> QED
  BY <1>1, AlwaysStorageInv, StepIsStoreStep, PTL
  DEF Spec, IsRevisionStore, Store!Spec, Shown

-----------------------------------------------------------------------------
(***************************************************************************)
(* No call fails without a cause.                                          *)
(***************************************************************************)

\* What a call that nothing has disturbed knows of its revision when it comes to a
\* place: that it is there, with what the last look found.
Found == {"require", "described", "lost", "adopt", "parse", "look", "read", "write",
          "install", "list_parse", "prune_read"}
Whole == {"cleanup", "confirm", "validate"}
Known(c, place) ==
    /\ place \in Found \cup Whole => dir[rev[c]] # None
    /\ place \in {"parse", "list_parse"} => dir[rev[c]].descriptor # "none"
    /\ place \in Whole => dir[rev[c]].descriptor = "good"
    /\ place = "install" => c \in dir[rev[c]].temps
    /\ place \in {"read", "prune_read"} => dir[rev[c]].lifecycle # None
Undisturbed(c) ==
    /\ fault[c] = None
    /\ \A r \in Concerns(c) : ~Damaged(r)
    /\ Known(c, pc[c])
Sound(c) ==
    /\ pc[c] = "idle" => fault[c] = None
    /\ Running(c) => answer[c] = None
    /\ Running(c) /\ ~disturbed[c] => Undisturbed(c)
SoundInv == \A c \in Clients : Sound(c)

\* A step of a client keeps that, and does not fail without a cause.
Failures == {"conflict", "oserror"}
Honest(c) ==
    /\ Sound(c)'
    /\ Running(c) /\ answer'[c] \in Failures => disturbed[c]

\* What a call is about.
Holding == Materializing \cup Writing \cup Inspecting \cup {"list_parse", "prune_read"}
LEMMA HandConcerned ==
    ASSUME StorageInv, NEW c \in Clients, pc[c] \in Holding
    PROVE  /\ rev[c] \in Revisions /\ rev[c] \in Concerns(c)
           /\ dir[rev[c]] \in Directory \cup {None} /\ Running(c)
  <1>1. Running(c) /\ Equipped(c)
    BY DEF Holding, Running, Materializing, Writing, Inspecting, StorageInv, ClientInv
  <1>2. call[c] \in Calls /\ OpAgrees(c)
    BY <1>1 DEF Equipped
  <1>3. CASE call[c].op = "prune"
    <2>1. pc[c] \in Inspecting \cup {"list_parse", "prune_read"}
      BY <1>2, <1>3 DEF Holding, OpAgrees, Materializing, Writing
    <2>2. rev[c] \in Revisions
      BY <1>1, <2>1 DEF Equipped
    <2>. QED BY <1>1, <1>3, <2>2 DEF Concerns, StorageInv, TypeOK
  <1>4. CASE call[c].op # "prune"
    <2>1. rev[c] = call[c].rev
      BY <1>1, <1>4 DEF Equipped
    <2>2. rev[c] \in Revisions
      BY <1>1, <1>4, RevisionAtHand
    <2>. QED BY <1>1, <1>4, <2>1, <2>2 DEF Concerns, StorageInv, TypeOK
  <1>. QED BY <1>3, <1>4

\* Of a revision that is not damaged the payload is right, and so is a descriptor.
LEMMA NotDamaged ==
    ASSUME StorageInv, NEW c \in Clients, pc[c] \in Holding, Undisturbed(c),
           dir[rev[c]] # None
    PROVE  /\ dir[rev[c]].payload = "good" /\ Matches(rev[c])
           /\ dir[rev[c]].descriptor \in {"good", "none"}
  <1>1. rev[c] \in Concerns(c) /\ dir[rev[c]] \in Directory
    BY HandConcerned
  <1>2. ~Damaged(rev[c])
    BY <1>1 DEF Undisturbed
  <1>3. dir[rev[c]].descriptor \in Contents
    BY <1>1, DirectoryFields
  <1>. QED BY <1>2, <1>3 DEF Damaged, Matches, Contents

LEMMA ObserveDisturbs ==
    ASSUME Observe, NEW c \in Clients, Running(c)', ~disturbed'[c]
    PROVE  /\ ~disturbed[c] /\ fault'[c] # "source"
           /\ \A r \in Concerns(c)' : ~Damaged(r)' /\ ~(dir[r] # None /\ dir'[r] = None)
BY DEF Observe

LEMMA NoneIsNoFailure == None \notin Failures
BY StorageAssumption DEF Failures

\* A call goes on: what it knows, should nothing have disturbed it, is enough.
LEMMA GoesOnSoundly ==
    ASSUME NEW c \in Clients, Sound(c), Observe, Running(c), Running(c)',
           answer'[c] = answer[c],
           Undisturbed(c) /\ ~disturbed'[c] => fault'[c] = None /\ Known(c, pc[c])'
    PROVE  Honest(c)
<1>1. answer'[c] = None
  BY DEF Sound
<1>2. pc'[c] # "idle"
  BY DEF Running
<1>3. ASSUME ~disturbed'[c]  PROVE Undisturbed(c)'
  <2>1. ~disturbed[c] /\ \A r \in Concerns(c)' : ~Damaged(r)'
    BY <1>3, ObserveDisturbs
  <2>2. Undisturbed(c)
    BY <2>1 DEF Sound
  <2>3. fault'[c] = None /\ Known(c, pc[c])'
    BY <1>3, <2>2
  <2> QED
    BY <2>1, <2>3 DEF Undisturbed
<1> QED
  BY <1>1, <1>2, <1>3, NoneIsNoFailure DEF Honest, Sound

\* It goes from one place to another and changes nothing.
LEMMA OnlySoundly ==
    ASSUME StorageInv, NEW c \in Clients, Sound(c), Observe, Running(c),
           NEW place \in Places \ {"idle", "dead"}, Only(c, place),
           Undisturbed(c) => Known(c, place)
    PROVE  Honest(c)
<1>1. pc'[c] = place /\ UNCHANGED <<dir, rev, fault, answer>>
  BY DEF Only, GoTo, disk, local, StorageInv, TypeOK
<1>2. Undisturbed(c) => fault'[c] = None /\ Known(c, pc[c])'
  BY <1>1 DEF Undisturbed, Known
<1>3. Running(c)'
  BY <1>1 DEF Running
<1> QED
  BY <1>1, <1>2, <1>3, GoesOnSoundly

\* It returns, or raises because something has disturbed it.
LEMMA ReturnsSoundly ==
    ASSUME StorageInv, NEW c \in Clients, Sound(c), Running(c), NEW result,
           Return(c, result), result \in Failures => ~Undisturbed(c)
    PROVE  Honest(c)
<1>1. pc'[c] = "idle" /\ fault'[c] = None /\ answer'[c] = result
  BY DEF Return, GoTo, StorageInv, TypeOK
<1>2. Sound(c)'
  BY <1>1 DEF Sound, Running
<1>3. result \in Failures => disturbed[c]
  BY DEF Sound
<1> QED
  BY <1>1, <1>2, <1>3 DEF Honest

\* An exception passes through the finally clause: a bad source, or again
\* something that has disturbed the call.
LEMMA FaultsSoundly ==
    ASSUME StorageInv, NEW c \in Clients, Sound(c), Observe, Running(c),
           NEW e, Fault(c, e), e = "source" \/ ~Undisturbed(c)
    PROVE  Honest(c)
<1>1. pc'[c] = "cleanup" /\ fault'[c] = e /\ answer'[c] = answer[c]
  BY DEF Fault, GoTo, StorageInv, TypeOK
<1>2. Running(c)'
  BY <1>1 DEF Running
<1>3. e = "source" => disturbed'[c]
  BY <1>1, <1>2 DEF Observe
<1> QED
  BY <1>1, <1>2, <1>3, GoesOnSoundly

\* The steps of a materialize.
LEMMA LookingSoundly ==
    ASSUME StorageInv, NEW c \in Clients, Sound(c), Observe,
           Check(c) \/ Require(c) \/ Described(c) \/ Lost(c) \/ Adopt(c) \/ Confirm(c)
             \/ Validate(c)
    PROVE  Honest(c)
<1>1. pc[c] \in Holding
  BY DEF Check, Require, Described, Lost, Adopt, Confirm, Validate, At, Holding,
         Materializing
<1>2. /\ rev[c] \in Revisions /\ Running(c)
      /\ Undisturbed(c) /\ dir[rev[c]] # None =>
             Matches(rev[c]) /\ dir[rev[c]].descriptor \in {"good", "none"}
  BY <1>1, HandConcerned, NotDamaged
<1>3. ASSUME NEW result, Answer(c, result), result \in Failures => ~Undisturbed(c)
      PROVE  Honest(c)
  BY <1>2, <1>3, ReturnsSoundly DEF Answer
<1>4. ASSUME NEW place \in Places \ {"idle", "dead"}, Only(c, place),
             Undisturbed(c) => Known(c, place)
      PROVE  Honest(c)
  BY <1>2, <1>4, OnlySoundly
<1>5. CASE Check(c)
  <2>1. CASE dir[rev[c]] # None
    BY <1>4, <1>5, <2>1 DEF Check, Known, Places, Whole, Found
  <2>2. CASE dir[rev[c]] = None
    BY <1>4, <1>5, <2>2 DEF Check, Known, Places, Whole, Found
  <2> QED
    BY <2>1, <2>2
<1>6. CASE Require(c)
  <2>1. Undisturbed(c) => Matches(rev[c])
    BY <1>2, <1>6 DEF Require, At, Undisturbed, Known, Found
  <2>2. CASE Matches(rev[c])
    BY <1>4, <1>6, <2>2 DEF Require, Known, Matches, Places, Whole, Found
  <2>3. CASE ~Matches(rev[c])
    BY <1>3, <1>6, <2>1, <2>3 DEF Require
  <2> QED
    BY <2>2, <2>3
<1>7. CASE Described(c)
  <2>1. Undisturbed(c) => dir[rev[c]] # None
    BY <1>7 DEF Described, At, Undisturbed, Known, Found
  <2>2. CASE dir[rev[c]] # None /\ dir[rev[c]].descriptor # "none"
    <3>1. Undisturbed(c) => Known(c, "validate")
      BY <1>2, <2>2 DEF Known, Whole, Found
    <3> QED
      BY <1>4, <1>7, <2>2, <3>1 DEF Described, Places
  <2>3. CASE ~(dir[rev[c]] # None /\ dir[rev[c]].descriptor # "none")
    <3>1. Undisturbed(c) => Known(c, "write")
      BY <2>1 DEF Known, Whole, Found
    <3> QED
      BY <1>4, <1>7, <2>3, <3>1 DEF Described, Places
  <2> QED
    BY <2>2, <2>3
<1>8. CASE Lost(c)
  <2>1. Undisturbed(c) => Matches(rev[c])
    BY <1>2, <1>8 DEF Lost, At, Undisturbed, Known, Found
  <2>2. CASE Matches(rev[c])
    BY <1>4, <1>8, <2>2 DEF Lost, Known, Matches, Places, Whole, Found
  <2>3. CASE ~Matches(rev[c])
    BY <1>2, <1>8, <2>1, <2>3, FaultsSoundly DEF Lost
  <2> QED
    BY <2>2, <2>3
<1>9. CASE Adopt(c)
  <2>1. Undisturbed(c) => dir[rev[c]] # None
    BY <1>9 DEF Adopt, At, Undisturbed, Known, Found
  <2>2. CASE dir[rev[c]] # None /\ dir[rev[c]].descriptor # "none"
    <3>1. Undisturbed(c) => Known(c, "cleanup")
      BY <1>2, <2>2 DEF Known, Whole, Found
    <3> QED
      BY <1>4, <1>9, <2>2, <3>1 DEF Adopt, Places
  <2>3. CASE ~(dir[rev[c]] # None /\ dir[rev[c]].descriptor # "none")
    <3>1. Undisturbed(c) => Known(c, "write")
      BY <2>1 DEF Known, Whole, Found
    <3> QED
      BY <1>4, <1>9, <2>3, <3>1 DEF Adopt, Places
  <2> QED
    BY <2>2, <2>3
<1>10. CASE Confirm(c)
  <2>1. Undisturbed(c) => Known(c, "validate") /\ dir[rev[c]] # None
    BY <1>10 DEF Confirm, At, Undisturbed, Known, Found, Whole
  <2>2. CASE Matches(rev[c])
    BY <1>4, <1>10, <2>1, <2>2 DEF Confirm, Places
  <2>3. CASE ~Matches(rev[c])
    BY <1>2, <1>3, <1>10, <2>1, <2>3 DEF Confirm
  <2> QED
    BY <2>2, <2>3
<1>11. CASE Validate(c)
  <2>1. Undisturbed(c) => dir[rev[c]] # None /\ dir[rev[c]].descriptor = "good"
    BY <1>11 DEF Validate, At, Undisturbed, Known, Found, Whole
  <2>2. CASE dir[rev[c]] # None /\ dir[rev[c]].descriptor = "good"
    BY <1>3, <1>11, <2>2 DEF Validate, Failures
  <2>3. CASE ~(dir[rev[c]] # None /\ dir[rev[c]].descriptor = "good")
    BY <1>3, <1>11, <2>1, <2>3 DEF Validate
  <2> QED
    BY <2>2, <2>3
<1> QED
  BY <1>5, <1>6, <1>7, <1>8, <1>9, <1>10, <1>11

LEMMA StagingSoundly ==
    ASSUME StorageInv, NEW c \in Clients, Sound(c), Observe,
           Stage(c) \/ Copy(c) \/ CopyFails(c) \/ Verify(c) \/ Publish(c) \/ Cleanup(c)
    PROVE  Honest(c)
<1>1. pc[c] \in Holding
  BY DEF Stage, Copy, CopyFails, Verify, Publish, Cleanup, At, Holding, Materializing
<1>2. /\ rev[c] \in Revisions /\ Running(c)
      /\ pc \in [Clients -> Places] /\ fault \in [Clients -> {None, "source", "conflict", "oserror"}]
      /\ dir \in [Revisions -> Directory \cup {None}]
  BY <1>1, HandConcerned DEF StorageInv, TypeOK
\* The copy is built out of sight.
<1>3. ASSUME NEW place \in {"copy", "verify", "publish"}, GoTo(c, place),
             UNCHANGED <<dir, local, answer>>
      PROVE  Honest(c)
  <2>1. pc'[c] = place /\ fault'[c] = fault[c] /\ answer'[c] = answer[c]
    BY <1>2, <1>3 DEF GoTo, local
  <2>2. Undisturbed(c) => fault'[c] = None /\ Known(c, pc[c])'
    BY <2>1 DEF Undisturbed, Known, Found, Whole
  <2>3. Running(c)'
    BY <2>1 DEF Running
  <2> QED
    BY <1>2, <2>1, <2>2, <2>3, GoesOnSoundly
<1>4. CASE Stage(c) \/ Copy(c)
  BY <1>3, <1>4 DEF Stage, Copy
<1>5. CASE CopyFails(c)
  BY <1>2, <1>5, FaultsSoundly DEF CopyFails
<1>6. CASE Verify(c)
  BY <1>2, <1>3, <1>6, FaultsSoundly DEF Verify
<1>7. CASE Publish(c)
  <2>1. CASE dir[rev[c]] # None
    <3>1. Known(c, "lost")
      BY <2>1 DEF Known, Found, Whole
    <3> QED
      BY <1>2, <1>7, <2>1, <3>1, OnlySoundly DEF Publish, Places
  <2>2. CASE dir[rev[c]] = None
    <3>1. staging[c] = Fresh
      BY <1>7 DEF Publish, At, StorageInv, ClientInv, Staged
    <3>2. /\ dir' = [dir EXCEPT ![rev[c]] = Fresh] /\ pc' = [pc EXCEPT ![c] = "cleanup"]
          /\ UNCHANGED <<rev, fault, answer>>
      BY <1>7, <2>2, <3>1 DEF Publish, GoTo, local
    <3>3. pc'[c] = "cleanup" /\ dir'[rev'[c]] = Fresh
      BY <1>2, <3>2
    <3>4. Fresh # None /\ Fresh.descriptor = "good"
      BY EmptyIsDirectory, DirectoryFields DEF Fresh
    <3>5. Undisturbed(c) => fault'[c] = None /\ Known(c, pc[c])'
      BY <3>2, <3>3, <3>4 DEF Undisturbed, Known, Found, Whole
    <3>6. Running(c)'
      BY <3>3 DEF Running
    <3> QED
      BY <1>2, <3>2, <3>5, <3>6, GoesOnSoundly
  <2> QED
    BY <2>1, <2>2
<1>8. CASE Cleanup(c)
  <2>1. pc[c] = "cleanup"
    BY <1>8 DEF Cleanup, At
  <2>2. CASE staging[c] # None
    <3>1. UNCHANGED <<dir, pc, rev, fault, answer>>
      BY <1>8, <2>2 DEF Cleanup, local
    <3>2. Undisturbed(c) => fault'[c] = None /\ Known(c, pc[c])'
      BY <3>1 DEF Undisturbed, Known
    <3> QED
      BY <1>2, <3>1, <3>2, GoesOnSoundly DEF Running
  <2>3. CASE staging[c] = None /\ fault[c] # None
    <3>1. Return(c, fault[c]) /\ ~Undisturbed(c)
      BY <1>8, <2>3 DEF Cleanup, Answer, Undisturbed
    <3> QED
      BY <1>2, <3>1, ReturnsSoundly
  <2>4. CASE staging[c] = None /\ fault[c] = None
    <3>1. Undisturbed(c) => Known(c, "confirm")
      BY <2>1 DEF Undisturbed, Known, Found, Whole
    <3> QED
      BY <1>2, <1>8, <2>4, <3>1, OnlySoundly DEF Cleanup, Places
  <2> QED
    BY <2>2, <2>3, <2>4
<1> QED
  BY <1>4, <1>5, <1>6, <1>7, <1>8

\* Writing a document.
LEMMA WriteFailsSoundly ==
    ASSUME StorageInv, NEW c \in Clients, Sound(c), Observe, Running(c),
           WriteFails(c), ~Undisturbed(c)
    PROVE  Honest(c)
<1>1. CASE Fault(c, "oserror")
  BY <1>1, FaultsSoundly
<1>2. CASE Answer(c, "oserror")
  BY <1>2, ReturnsSoundly DEF Answer
<1> QED
  BY <1>1, <1>2 DEF WriteFails

LEMMA WritingSoundly ==
    ASSUME StorageInv, NEW c \in Clients, Sound(c), Observe,
           WriteTemp(c) \/ Install(c)
    PROVE  Honest(c)
<1>1. pc[c] \in Holding
  BY DEF WriteTemp, Install, At, Holding, Writing
<1>2. /\ rev[c] \in Revisions /\ Running(c)
      /\ pc \in [Clients -> Places]
      /\ dir \in [Revisions -> Directory \cup {None}]
      /\ rev \in [Clients -> Revisions \cup {None}]
  BY <1>1, HandConcerned DEF StorageInv, TypeOK
<1> DEFINE old == dir[rev[c]]
<1>3. CASE WriteTemp(c)
  <2>1. pc[c] = "write"
    BY <1>3 DEF WriteTemp, At
  <2>2. CASE old = None
    <3>1. ~Undisturbed(c)
      BY <2>1, <2>2 DEF Undisturbed, Known, Found
    <3> QED
      BY <1>2, <1>3, <2>2, <3>1, WriteFailsSoundly DEF WriteTemp
  <2>3. CASE old # None
    <3> DEFINE new == [old EXCEPT !.temps = old.temps \cup {c}]
    <3>1. old \in Directory /\ old.temps \in SUBSET Clients
      BY <1>2, <2>3, DirectoryFields
    <3>2. new \in Directory
      BY <3>1, DirectoryUpdates
    <3>3. new # None /\ c \in new.temps
      BY <3>1, <3>2, DirectoryFields DEF Directory
    <3>4. /\ dir' = [dir EXCEPT ![rev[c]] = new] /\ pc' = [pc EXCEPT ![c] = "install"]
          /\ UNCHANGED <<rev, fault, answer>>
      BY <1>3, <2>3 DEF WriteTemp, SetDir, GoTo, local
    <3> HIDE DEF new
    <3>5. pc'[c] = "install" /\ dir'[rev'[c]] = new
      BY <1>2, <3>4
    <3>6. Undisturbed(c) => fault'[c] = None /\ Known(c, pc[c])'
      BY <3>3, <3>4, <3>5 DEF Undisturbed, Known, Found, Whole
    <3>7. Running(c)'
      BY <3>5 DEF Running
    <3> QED
      BY <1>2, <3>4, <3>6, <3>7, GoesOnSoundly
  <2> QED
    BY <2>2, <2>3
<1>4. CASE Install(c)
  <2>1. pc[c] = "install"
    BY <1>4 DEF Install, At
  <2>2. CASE old = None \/ c \notin old.temps
    <3>1. ~Undisturbed(c)
      BY <2>1, <2>2 DEF Undisturbed, Known, Found
    <3> QED
      BY <1>2, <1>4, <2>2, <3>1, WriteFailsSoundly DEF Install
  <2>3. CASE ~(old = None \/ c \notin old.temps)
    <3>1. CASE call[c].op = "set"
      <4>1. Return(c, "set")
        BY <1>4, <2>3, <3>1 DEF Install
      <4> QED
        BY <1>2, <4>1, ReturnsSoundly DEF Failures
    <3>2. CASE call[c].op # "set"
      <4> DEFINE new == Installed(c, old)
      <4>1. old \in Directory
        BY <1>2, <2>3
      <4>2. new \in Directory /\ new # None /\ new.descriptor = "good"
        BY <2>1, <3>2, <4>1, InstalledFields, DirectoryFields
      <4>3. PICK place \in {"cleanup", "validate"} :
                /\ dir' = [dir EXCEPT ![rev[c]] = new]
                /\ pc' = [pc EXCEPT ![c] = place]
                /\ UNCHANGED <<rev, fault, answer>>
        BY <1>4, <2>3, <3>2 DEF Install, SetDir, GoTo, local
      <4> HIDE DEF new
      <4>4. pc'[c] = place /\ dir'[rev'[c]] = new
        BY <1>2, <4>3
      <4>5. Undisturbed(c) => fault'[c] = None /\ Known(c, pc[c])'
        BY <4>2, <4>3, <4>4 DEF Undisturbed, Known, Found, Whole
      <4>6. Running(c)'
        BY <4>4 DEF Running
      <4> QED
        BY <1>2, <4>3, <4>5, <4>6, GoesOnSoundly
    <3> QED
      BY <3>1, <3>2
  <2> QED
    BY <2>2, <2>3
<1> QED
  BY <1>3, <1>4

\* Finding a revision and reading its lifecycle.
LEMMA InspectingSoundly ==
    ASSUME StorageInv, NEW c \in Clients, Sound(c), Observe, Inspect(c)
    PROVE  Honest(c)
<1>1. pc[c] \in Holding
  BY DEF Inspect, Find, Parse, Look, Read, At, Holding, Inspecting
<1>2. /\ rev[c] \in Revisions /\ Running(c)
      /\ pc \in [Clients -> Places]
      /\ Undisturbed(c) /\ dir[rev[c]] # None =>
             /\ dir[rev[c]].payload = "good"
             /\ dir[rev[c]].descriptor \in {"good", "none"}
  BY <1>1, HandConcerned, NotDamaged DEF StorageInv, TypeOK
<1>3. ASSUME NEW result, Answer(c, result), result \in Failures => ~Undisturbed(c)
      PROVE  Honest(c)
  BY <1>2, <1>3, ReturnsSoundly DEF Answer
<1>4. ASSUME NEW place \in Places \ {"idle", "dead"}, Only(c, place),
             Undisturbed(c) => Known(c, place)
      PROVE  Honest(c)
  BY <1>2, <1>4, OnlySoundly
<1>5. ASSUME NEW l, Decide(c, l), Undisturbed(c) => dir[rev[c]] # None
      PROVE  Honest(c)
  <2>1. CASE Answer(c, "pinned")
    BY <1>3, <2>1 DEF Failures
  <2>2. CASE GoOn(c, l)
    <3>1. PICK place \in {"write", "remove"} :
              pc' = [pc EXCEPT ![c] = place] /\ UNCHANGED <<dir, rev, fault, answer>>
      BY <2>2 DEF GoOn, GoTo, disk
    <3>2. pc'[c] = place
      BY <1>2, <3>1
    <3>3. Undisturbed(c) => fault'[c] = None /\ Known(c, pc[c])'
      BY <1>5, <3>1, <3>2 DEF Undisturbed, Known, Found, Whole
    <3>4. Running(c)'
      BY <3>2 DEF Running
    <3> QED
      BY <1>2, <3>1, <3>3, <3>4, GoesOnSoundly
  <2> QED
    BY <1>5, <2>1, <2>2 DEF Decide
<1>6. CASE Find(c)
  <2>1. CASE dir[rev[c]] # None /\ dir[rev[c]].descriptor # "none"
    <3>1. Known(c, "parse")
      BY <2>1 DEF Known, Found, Whole
    <3> QED
      BY <1>4, <1>6, <2>1, <3>1 DEF Find, Places
  <2>2. CASE ~(dir[rev[c]] # None /\ dir[rev[c]].descriptor # "none")
    <3>1. Known(c, "prune")
      BY DEF Known, Found, Whole
    <3>2. CASE Only(c, "prune")
      BY <1>4, <3>1, <3>2 DEF Places
    <3>3. CASE Answer(c, "not_found") \/ Answer(c, "absent")
      BY <1>3, <3>3 DEF Failures
    <3> QED
      BY <1>6, <2>2, <3>2, <3>3 DEF Find
  <2> QED
    BY <2>1, <2>2
<1>7. CASE Parse(c)
  <2>1. Undisturbed(c) => /\ dir[rev[c]] # None /\ dir[rev[c]].descriptor = "good"
                          /\ dir[rev[c]].payload = "good"
    BY <1>2, <1>7 DEF Parse, At, Undisturbed, Known, Found
  <2>2. CASE Answer(c, "conflict") /\ ~Undisturbed(c)
    BY <1>3, <2>2
  <2>3. CASE Only(c, "look")
    <3>1. Undisturbed(c) => Known(c, "look")
      BY <2>1 DEF Known, Found, Whole
    <3> QED
      BY <1>4, <2>3, <3>1 DEF Places
  <2> QED
    BY <1>7, <2>1, <2>2, <2>3 DEF Parse
<1>8. CASE Look(c)
  <2>1. Undisturbed(c) => dir[rev[c]] # None
    BY <1>8 DEF Look, At, Undisturbed, Known, Found
  <2>2. CASE HasLifecycle(rev[c])
    <3>1. Known(c, "read")
      BY <2>2 DEF HasLifecycle, Known, Found, Whole
    <3> QED
      BY <1>4, <1>8, <2>2, <3>1 DEF Look, Places
  <2>3. CASE ~HasLifecycle(rev[c])
    BY <1>5, <1>8, <2>1, <2>3 DEF Look
  <2> QED
    BY <2>2, <2>3
<1>9. CASE Read(c)
  <2>1. Undisturbed(c) => HasLifecycle(rev[c]) /\ dir[rev[c]] # None
    BY <1>9 DEF Read, At, Undisturbed, Known, Found, HasLifecycle
  <2>2. CASE HasLifecycle(rev[c])
    BY <1>5, <1>9, <2>1, <2>2 DEF Read
  <2>3. CASE ~HasLifecycle(rev[c])
    BY <1>3, <1>9, <2>1, <2>3 DEF Read
  <2> QED
    BY <2>2, <2>3
<1> QED
  BY <1>6, <1>7, <1>8, <1>9 DEF Inspect

\* Removing a revision, which is not an error of the call that does it.
LEMMA RemovingSoundly ==
    ASSUME StorageInv, NEW c \in Clients, Sound(c), Observe, Remove(c) \/ Clear(c)
    PROVE  Honest(c)
<1>1. Running(c) /\ pc \in [Clients -> Places]
  BY DEF Remove, Clear, At, Running, StorageInv, TypeOK
<1>2. ASSUME NEW result \in {"absent", "deleted"}, Return(c, result)
      PROVE  Honest(c)
  BY <1>1, <1>2, ReturnsSoundly DEF Failures
<1>3. ASSUME NEW place \in {"clear", "prune"}, GoTo(c, place),
             UNCHANGED <<fault, answer>>
      PROVE  Honest(c)
  <2>1. pc'[c] = place
    BY <1>1, <1>3 DEF GoTo
  <2>2. Undisturbed(c) => fault'[c] = None /\ Known(c, pc[c])'
    BY <1>3, <2>1 DEF Undisturbed, Known, Found, Whole
  <2>3. Running(c)'
    BY <2>1 DEF Running
  <2> QED
    BY <1>1, <1>3, <2>2, <2>3, GoesOnSoundly
<1>4. CASE Remove(c)
  BY <1>2, <1>3, <1>4 DEF Remove, Only, Answer, local
<1>5. CASE Clear(c)
  BY <1>2, <1>3, <1>5 DEF Clear, AfterDelete, local
<1> QED
  BY <1>4, <1>5

\* Listing the revisions and choosing among them.
LEMMA PruningSoundly ==
    ASSUME StorageInv, NEW c \in Clients, Sound(c), Observe, Prune(c)
    PROVE  Honest(c)
<1>1. pc[c] \in Pruning /\ Running(c)
  BY DEF Prune, List, ListNext, ListParse, ListEnds, PruneNext, PruneRead, PruneEnds,
         At, Pruning, Running
<1>2. pc \in [Clients -> Places] /\ rev \in [Clients -> Revisions \cup {None}]
  BY DEF StorageInv, TypeOK
<1>3. ASSUME NEW result, Answer(c, result), result \in Failures => ~Undisturbed(c)
      PROVE  Honest(c)
  BY <1>1, <1>3, ReturnsSoundly DEF Answer
<1>4. ASSUME NEW place \in Pruning \cup {"find"}, GoTo(c, place),
             UNCHANGED <<fault, answer>>,
             place = "list_parse" => /\ dir'[rev'[c]] # None
                                     /\ dir'[rev'[c]].descriptor # "none",
             place = "prune_read" => /\ dir'[rev'[c]] # None
                                     /\ dir'[rev'[c]].lifecycle # None
      PROVE  Honest(c)
  <2>1. pc'[c] = place
    BY <1>2, <1>4 DEF GoTo
  <2>2. Undisturbed(c) => fault'[c] = None /\ Known(c, pc[c])'
    BY <1>4, <2>1 DEF Undisturbed, Known, Found, Whole, Pruning
  <2>3. Running(c)'
    BY <2>1 DEF Running, Pruning
  <2> QED
    BY <1>1, <1>4, <2>2, <2>3, GoesOnSoundly
<1>5. CASE List(c) \/ ListEnds(c)
  BY <1>4, <1>5 DEF List, ListEnds, Pruning
<1>6. CASE ListNext(c)
  <2>1. PICK r \in left[c] :
            /\ rev' = [rev EXCEPT ![c] = r]
            /\ GoTo(c, IF dir[r] # None /\ dir[r].descriptor # "none"
                       THEN "list_parse" ELSE "listing")
    BY <1>6 DEF ListNext
  <2>2. rev'[c] = r /\ UNCHANGED <<dir, fault, answer>>
    BY <1>2, <1>6, <2>1 DEF ListNext, disk
  <2>3. CASE dir[r] # None /\ dir[r].descriptor # "none"
    BY <1>4, <2>1, <2>2, <2>3 DEF Pruning
  <2>4. CASE ~(dir[r] # None /\ dir[r].descriptor # "none")
    BY <1>4, <2>1, <2>2, <2>4 DEF Pruning
  <2> QED
    BY <2>3, <2>4
<1>7. CASE PruneNext(c)
  <2>1. PICK r \in left[c] :
            /\ rev' = [rev EXCEPT ![c] = r]
            /\ GoTo(c, IF HasLifecycle(r) THEN "prune_read" ELSE "prune")
    BY <1>7 DEF PruneNext
  <2>2. rev'[c] = r /\ UNCHANGED <<dir, fault, answer>>
    BY <1>2, <1>7, <2>1 DEF PruneNext, disk
  <2>3. CASE HasLifecycle(r)
    BY <1>4, <2>1, <2>2, <2>3 DEF Pruning, HasLifecycle
  <2>4. CASE ~HasLifecycle(r)
    BY <1>4, <2>1, <2>2, <2>4 DEF Pruning
  <2> QED
    BY <2>3, <2>4
<1>8. CASE ListParse(c)
  <2>1. pc[c] \in Holding
    BY <1>8 DEF ListParse, At, Holding
  <2>2. Undisturbed(c) => dir[rev[c]] # None /\ dir[rev[c]].descriptor = "good"
    BY <1>8, <2>1, NotDamaged DEF ListParse, At, Undisturbed, Known, Found
  <2>3. CASE dir[rev[c]] = None \/ dir[rev[c]].descriptor # "good"
    BY <1>3, <1>8, <2>2, <2>3 DEF ListParse
  <2>4. CASE ~(dir[rev[c]] = None \/ dir[rev[c]].descriptor # "good")
    BY <1>4, <1>8, <2>4 DEF ListParse, Pruning
  <2> QED
    BY <2>3, <2>4
<1>9. CASE PruneRead(c)
  <2>1. Undisturbed(c) => HasLifecycle(rev[c])
    BY <1>9 DEF PruneRead, At, Undisturbed, Known, Found, HasLifecycle
  <2>2. CASE ~HasLifecycle(rev[c])
    BY <1>3, <1>9, <2>1, <2>2 DEF PruneRead
  <2>3. CASE HasLifecycle(rev[c])
    <3>1. PICK place \in {"find", "prune"} : Only(c, place)
      BY <1>9, <2>3 DEF PruneRead
    <3> QED
      BY <1>4, <3>1 DEF Only, local, Pruning
  <2> QED
    BY <2>2, <2>3
<1>10. CASE PruneEnds(c)
  BY <1>3, <1>10 DEF PruneEnds, Failures
<1> QED
  BY <1>5, <1>6, <1>7, <1>8, <1>9, <1>10 DEF Prune

\* A call begins with no exception and no answer; who dies raises nothing.
LEMMA BeginsSoundly ==
    ASSUME StorageInv, NEW c \in Clients, Sound(c), Observe, Begin(c)
    PROVE  Honest(c)
<1> PICK k \in Calls : GoTo(c, Entry(k.op))
  BY DEF Begin
<1>1. pc'[c] \in {"check", "list", "find"}
  BY DEF GoTo, Entry, StorageInv, TypeOK
<1>2. answer'[c] = None /\ fault'[c] = None /\ ~Running(c)
  BY DEF Begin, Sound, Running, StorageInv, TypeOK
<1>3. ASSUME ~disturbed'[c], Running(c)'  PROVE Undisturbed(c)'
  <2>1. \A r \in Concerns(c)' : ~Damaged(r)'
    BY <1>3, ObserveDisturbs
  <2>2. Known(c, pc[c])'
    BY <1>1 DEF Known, Found, Whole
  <2> QED
    BY <1>2, <2>1, <2>2 DEF Undisturbed
<1> QED
  BY <1>1, <1>2, <1>3 DEF Honest, Sound

LEMMA DiesSoundly ==
    ASSUME StorageInv, NEW c \in Clients, Sound(c), Die(c)
    PROVE  Honest(c)
<1>1. pc'[c] = "dead" /\ answer'[c] = None
  BY DEF Die, GoTo, Sound, StorageInv, TypeOK
<1> QED
  BY <1>1, NoneIsNoFailure DEF Honest, Sound, Running

LEMMA HonestStep ==
    ASSUME StorageInv, NEW c \in Clients, Sound(c), Observe, ClientStep(c)
    PROVE  Honest(c)
<1>1. CASE Materialize(c)
  BY <1>1, LookingSoundly, StagingSoundly DEF Materialize
<1> QED
  BY <1>1, BeginsSoundly, WritingSoundly, InspectingSoundly, RemovingSoundly,
     PruningSoundly, DiesSoundly DEF ClientStep

-----------------------------------------------------------------------------
(* The others: what a call knows of a revision stays true while it is there. *)

\* A step takes a revision away, or leaves a descriptor and a lifecycle in it and
\* all temporary files but the client's.
Enriches(c, r) ==
    dir[r] # None /\ dir'[r] # None =>
        /\ dir'[r].descriptor \in {dir[r].descriptor, "good"}
        /\ dir[r].lifecycle # None => dir'[r].lifecycle # None
        /\ dir[r].temps \ {c} \subseteq dir'[r].temps

LEMMA StepEnriches ==
    ASSUME StorageInv, NEW c \in Clients, ClientStep(c), NEW r \in Revisions
    PROVE  Enriches(c, r)
<1>1. dir \in [Revisions -> Directory \cup {None}]
  BY DEF StorageInv, TypeOK
<1>2. CASE Removes(c)
  BY <1>1, <1>2 DEF Removes, Remove, Enriches
<1>3. CASE Publishes(c)
  BY <1>1, <1>3 DEF Publishes, Publish, Enriches
<1>4. CASE dir' = dir
  BY <1>4 DEF Enriches
<1>5. CASE Writes(c)
  <2> DEFINE old == dir[rev[c]]
  <2>1. pc[c] \in Writing
    BY <1>5 DEF Writes, WriteTemp, Install, At, Writing
  <2>2. rev[c] \in Revisions
    BY <2>1, HandConcerned DEF Holding
  <2>3. old # None
    BY <1>5 DEF Writes, WriteTemp, Install, WriteFails, Fault, Answer, disk
  <2>4. old \in Directory /\ old.temps \in SUBSET Clients
    BY <1>1, <2>2, <2>3, DirectoryFields
  <2>5. PICK new : /\ dir' = [dir EXCEPT ![rev[c]] = new]
                   /\ new.descriptor \in {old.descriptor, "good"}
                   /\ old.lifecycle # None => new.lifecycle # None
                   /\ old.temps \ {c} \subseteq new.temps
    <3>1. CASE WriteTemp(c)
      <4> DEFINE d == [old EXCEPT !.temps = old.temps \cup {c}]
      <4>1. dir' = [dir EXCEPT ![rev[c]] = d]
        BY <2>3, <3>1 DEF WriteTemp, SetDir
      <4>2. /\ d.descriptor = old.descriptor /\ d.lifecycle = old.lifecycle
            /\ d.temps = old.temps \cup {c}
        BY <2>4 DEF Directory
      <4> QED
        BY <4>1, <4>2
    <3>2. CASE Install(c)
      <4> DEFINE d == Installed(c, old)
      <4>1. pc[c] = "install" /\ dir' = [dir EXCEPT ![rev[c]] = d]
        BY <1>5, <2>3, <3>2
        DEF Writes, Install, WriteFails, Fault, Answer, At, disk, SetDir
      <4>2. /\ d.temps = old.temps \ {c}
            /\ call[c].op = "set" => /\ Updated(c) \in Lifecycle
                                     /\ d.lifecycle = Updated(c)
                                     /\ d.descriptor = old.descriptor
            /\ call[c].op # "set" => /\ d.lifecycle = old.lifecycle
                                     /\ d.descriptor = "good"
        BY <2>4, <4>1, InstalledFields
      <4>3. None \notin Lifecycle
        BY StorageAssumption
      <4> QED
        BY <4>1, <4>2, <4>3
    <3> QED
      BY <1>5, <3>1, <3>2 DEF Writes
  <2>6. dir'[r] = IF r = rev[c] THEN new ELSE dir[r]
    BY <1>1, <2>5
  <2> QED
    BY <2>5, <2>6 DEF Enriches
<1> QED
  BY <1>2, <1>3, <1>4, <1>5, OthersTouchNothing

\* Nobody else raises an exception in a call or answers it.
LEMMA OthersSayNothing ==
    ASSUME StorageInv, NEW c \in Clients, ClientStep(c), NEW d \in Clients, d # c
    PROVE  fault'[d] = fault[d] /\ answer'[d] = answer[d]
<1>1. /\ \A e : [fault EXCEPT ![c] = e][d] = fault[d]
      /\ \A a : [answer EXCEPT ![c] = a][d] = answer[d]
  BY DEF StorageInv, TypeOK
<1>2. CASE Begin(c) \/ Die(c) \/ Clear(c) \/ Remove(c)
  BY <1>1, <1>2 DEF Begin, Die, Clear, Remove, AfterDelete, Only, Answer, Return, local
<1>3. CASE Materialize(c)
  BY <1>1, <1>3 DEF Materialize, Check, Require, Described, Stage, Copy, CopyFails, Verify,
     Publish, Lost, Adopt, Cleanup, Confirm, Validate, Only, Answer, Return, Fault, local
<1>4. CASE WriteTemp(c) \/ Install(c)
  BY <1>1, <1>4 DEF WriteTemp, Install, WriteFails, Fault, Answer, Return, local
<1>5. CASE Inspect(c)
  BY <1>1, <1>5 DEF Inspect, Find, Parse, Look, Read, Decide, GoOn, Only, Answer, Return,
     local
<1>6. CASE Prune(c)
  BY <1>1, <1>6 DEF Prune, List, ListNext, ListParse, ListEnds, PruneNext, PruneRead,
     PruneEnds, Only, Answer, Return, local
<1> QED
  BY <1>2, <1>3, <1>4, <1>5, <1>6 DEF ClientStep

LEMMA OthersKeepSound ==
    ASSUME StorageInv, NEW c \in Clients, ClientStep(c), Observe,
           NEW d \in Clients, d # c, Sound(d)
    PROVE  Honest(d)
<1>1. /\ pc'[d] = pc[d] /\ call'[d] = call[d] /\ rev'[d] = rev[d]
      /\ fault'[d] = fault[d] /\ answer'[d] = answer[d]
  BY FineStep, OthersSayNothing DEF Fine, StepOf, LeftAlone
<1>2. Running(d)' <=> Running(d)
  BY <1>1 DEF Running
<1>3. CASE Running(d)
  <2>1. ASSUME Undisturbed(d), ~disturbed'[d]  PROVE Known(d, pc[d])'
    <3>1. CASE pc[d] \in Found \cup Whole
      <4>1. pc[d] \in Holding
        BY <3>1 DEF Found, Whole, Holding, Materializing, Writing, Inspecting
      <4>2. rev[d] \in Revisions /\ rev[d] \in Concerns(d)
        BY <4>1, HandConcerned
      <4>3. PICK r \in Revisions : r = rev[d]
        BY <4>2
      <4>4. dir[r] # None /\ Known(d, pc[d])
        BY <2>1, <3>1, <4>3 DEF Undisturbed, Known
      <4>5. Concerns(d)' = Concerns(d)
        BY <1>1 DEF Concerns
      <4>6. dir'[r] # None
        BY <1>2, <1>3, <2>1, <4>2, <4>3, <4>4, <4>5, ObserveDisturbs
      <4>7. Enriches(c, r)
        BY StepEnriches
      <4>8. /\ dir'[r].descriptor \in {dir[r].descriptor, "good"}
            /\ dir[r].lifecycle # None => dir'[r].lifecycle # None
            /\ d \in dir[r].temps => d \in dir'[r].temps
        BY <4>4, <4>6, <4>7 DEF Enriches
      <4> QED
        BY <1>1, <4>3, <4>4, <4>6, <4>8 DEF Known
    <3>2. CASE pc[d] \notin Found \cup Whole
      BY <1>1, <3>2 DEF Known, Found, Whole
    <3> QED
      BY <3>1, <3>2
  <2>2. Undisturbed(d) /\ ~disturbed'[d] => fault'[d] = None /\ Known(d, pc[d])'
    BY <1>1, <2>1 DEF Undisturbed
  <2> QED
    BY <1>1, <1>2, <1>3, <2>2, GoesOnSoundly
<1>4. CASE ~Running(d)
  BY <1>1, <1>2, <1>4 DEF Honest, Sound
<1> QED
  BY <1>3, <1>4

LEMMA NextHonest ==
    ASSUME StorageInv, SoundInv, [Next]_vars
    PROVE  SoundInv' /\ \A c \in Clients : Raises(c) => disturbed[c]
<1>1. CASE Next
  <2>1. PICK c \in Clients : ClientStep(c) /\ Observe
    BY <1>1 DEF Next, ClientStep
  <2>2. \A d \in Clients : Honest(d)
    BY <2>1, HonestStep, OthersKeepSound DEF SoundInv
  <2> QED
    BY <2>2 DEF Honest, SoundInv, Raises, Failures
<1>2. CASE UNCHANGED vars
  <2>1. UNCHANGED <<dir, pc, call, rev, fault, answer, disturbed>>
    BY <1>2 DEF vars, disk, local, history
  <2>2. ASSUME NEW c \in Clients  PROVE Sound(c)'
    BY <2>1 DEF SoundInv, Sound, Undisturbed, Known, Running, Concerns, Damaged
  <2>3. ASSUME NEW c \in Clients, Running(c)  PROVE answer'[c] \notin Failures
    BY <2>1, <2>3, NoneIsNoFailure DEF SoundInv, Sound
  <2> QED
    BY <2>2, <2>3 DEF SoundInv, Raises, Failures
<1> QED
  BY <1>1, <1>2

LEMMA InitSound == Init => SoundInv
<1> SUFFICES ASSUME Init, NEW c \in Clients  PROVE Sound(c)
  BY DEF SoundInv
<1>1. pc[c] = "idle" /\ fault[c] = None
  BY DEF Init
<1> QED
  BY <1>1 DEF Sound, Running

\* A call that raises a conflict or a file error has met damage, a bad source, or
\* a revision taken away while it ran: to lose a race to another writer, or to find
\* its work half done, is no error.
THEOREM FailuresHaveACause == Spec => NoSpuriousFailure
<1> DEFINE Justified == \A c \in Clients : Raises(c) => disturbed[c]
<1>1. StorageInv /\ SoundInv /\ [Next]_vars => SoundInv'
  BY NextHonest
<1>2. StorageInv /\ SoundInv /\ [Next]_vars => [Justified]_vars
  BY NextHonest
<1> QED
  BY <1>1, <1>2, InitSound, AlwaysStorageInv, PTL DEF Spec, NoSpuriousFailure
=============================================================================
