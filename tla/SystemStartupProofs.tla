------------------------ MODULE SystemStartupProofs -------------------------
(***************************************************************************)
(* Theorems about SystemStartup, for every set of scopes, children, plans  *)
(* and statuses.                                                           *)
(***************************************************************************)
EXTENDS SystemStartup, WellFoundedInduction, TLAPS

-----------------------------------------------------------------------------
(* Type correctness.                                                       *)

\* A child that left pending has a start time, and the child being launched
\* is a child: what TypeOK needs to be inductive.
StartTimesKnown == \A c \in Children \ pending : startedAt[c] \in Nat
TypeInv ==
    /\ TypeOK
    /\ StartTimesKnown
    /\ phase = "launching" => child # None

\* The static facts the constants give.
LEMMA PlanFacts ==
    ASSUME TypeOK, NEW d \in deps
    PROVE  /\ d.requires \in Children /\ d.system \in Children
           /\ d.timeout \in Nat /\ d.ordinal \in Nat
           /\ d.condition \in Conditions
  BY PlansAssumption DEF TypeOK, Dependency

LEMMA DeadlineType ==
    ASSUME TypeInv, NEW d \in deps, d.requires \notin pending
    PROVE  Deadline(d) \in Nat
  BY PlanFacts DEF TypeInv, StartTimesKnown, Deadline

LEMMA TypeInit == Init => TypeInv
  <1> SUFFICES ASSUME Init PROVE TypeInv
    OBVIOUS
  <1>1. TypeOK
    <2>1. <<>> \in Seq(Units)
      OBVIOUS
    <2>2. /\ cache \in [Children -> Statuses \cup {None}]
          /\ startedAt \in [Children -> Nat \cup {None}]
      BY DEF Init
    <2>3. clock \in Nat /\ delay \in 0..MaxDelay /\ launchedAt \in Nat
      BY BoundsAssumption DEF Init
    <2>4. running \in Seq(Units) /\ stops \in Seq(Units)
      BY <2>1 DEF Init
    <2> QED
      BY <2>2, <2>3, <2>4 DEF Init, TypeOK, Codes, Ended
  <1>2. QED
    BY <1>1 DEF Init, TypeInv, StartTimesKnown

LEMMA TypeStep == TypeInv /\ [Next]_vars => TypeInv'
  <1> SUFFICES ASSUME TypeInv, [Next]_vars PROVE TypeInv'
    OBVIOUS
  <1> USE DEF TypeInv, TypeOK, StartTimesKnown, Codes, Ended,
              control, backends, pass, startup
  <1>1. CASE StartScope
    BY <1>1, BoundsAssumption DEF StartScope, TimePasses, Units, ScopeSet
  <1>2. CASE ScopeStartFails
    BY <1>2, BoundsAssumption DEF ScopeStartFails, TimePasses, Raise
  <1>3. CASE BeginScheduling
    BY <1>3 DEF BeginScheduling, NewPass
  <1>4. ASSUME NEW c \in Children, PickChild(c) PROVE TypeInv'
    BY <1>4 DEF PickChild
  <1>5. ASSUME NEW d \in deps, PrerequisiteNotRunning(d) PROVE TypeInv'
    BY <1>5 DEF PrerequisiteNotRunning, NextDependency
  <1>6. ASSUME NEW d \in deps, LatchStarted(d) PROVE TypeInv'
    BY <1>6, BoundsAssumption DEF LatchStarted, NextDependency, TimePasses
  <1>7. ASSUME NEW d \in deps, NEW st \in Statuses, LatchObserved(d, st)
        PROVE TypeInv'
    BY <1>7, BoundsAssumption, PlanFacts
    DEF LatchObserved, NextDependency, TimePasses, Inspected
  <1>8. ASSUME NEW d \in deps, NEW st \in Statuses, DependencyUnmet(d, st)
        PROVE TypeInv'
    <2>1. d.requires \notin pending
      BY <1>8 DEF DependencyUnmet
    <2>2. d.requires \in Children /\ Deadline(d) \in Nat
      BY <2>1, PlanFacts, DeadlineType
    <2>3. cache' \in [Children -> Statuses \cup {None}]
      BY <1>8, <2>2 DEF DependencyUnmet, Inspected
    <2>4. clock' \in Nat /\ delay' \in 0..MaxDelay
      BY <1>8, BoundsAssumption DEF DependencyUnmet, TimePasses
    <2>5. deadlines' \subseteq Nat
      BY <1>8, <2>2 DEF DependencyUnmet
    <2> QED
      BY <1>8, <2>3, <2>4, <2>5 DEF DependencyUnmet, NextDependency
  <1>9. ASSUME NEW d \in deps, NEW st \in Statuses, DependencyFails(d, st)
        PROVE TypeInv'
    BY <1>9, BoundsAssumption, PlanFacts
    DEF DependencyFails, NextDependency, TimePasses, Inspected, Raise
  <1>10. ASSUME NEW d \in deps, DependencyTimesOut(d) PROVE TypeInv'
    BY <1>10, BoundsAssumption, PlanFacts
    DEF DependencyTimesOut, NextDependency, TimePasses, Inspected, Raise
  <1>11. ASSUME NEW d \in deps, DependencyEventFails(d) PROVE TypeInv'
    BY <1>11, BoundsAssumption, PlanFacts
    DEF DependencyEventFails, NextDependency, TimePasses, Inspected, Raise
  <1>12. CASE SkipChild
    BY <1>12 DEF SkipChild
  <1>13. CASE LaunchChild
    BY <1>13 DEF LaunchChild, Units
  <1>14. CASE ChildStarted
    BY <1>14, BoundsAssumption DEF ChildStarted, TimePasses, Units
  <1>15. CASE ChildEventFails
    BY <1>15, BoundsAssumption DEF ChildEventFails, TimePasses, Raise, Units
  <1>16. CASE ChildStartFails
    BY <1>16, BoundsAssumption DEF ChildStartFails, TimePasses, Raise
  <1>17. CASE StartReturns
    BY <1>17 DEF StartReturns
  <1>18. CASE NextPass
    BY <1>18 DEF NextPass, NewPass, PassOver
  <1>19. CASE CannotProgress
    BY <1>19 DEF CannotProgress, Raise
  <1>20. CASE WaitForDependencies
    <2>1. PICK nearest \in deadlines :
            clock' = IF nearest - clock <= 0 THEN clock
                     ELSE IF nearest - clock < PollInterval THEN nearest
                     ELSE clock + PollInterval
      BY <1>20 DEF WaitForDependencies
    <2>2. clock' \in Nat
      BY <2>1, BoundsAssumption
    <2> QED
      BY <1>20, <2>2 DEF WaitForDependencies, NewPass, PassOver
  <1>21. CASE RollbackStop
    BY <1>21 DEF RollbackStop
  <1>22. CASE StartFails
    BY <1>22 DEF StartFails
  <1>23. CASE Interrupt
    BY <1>23 DEF Interrupt
  <1>24. CASE UNCHANGED vars
    BY <1>24 DEF vars
  <1> QED
    BY <1>1, <1>2, <1>3, <1>4, <1>5, <1>6, <1>7, <1>8, <1>9, <1>10, <1>11,
       <1>12, <1>13, <1>14, <1>15, <1>16, <1>17, <1>18, <1>19, <1>20, <1>21,
       <1>22, <1>23, <1>24
    DEF Next, Step, ExamineDependency

\* Every behaviour of the start procedure is type correct.
THEOREM TypeCorrect == Spec => []TypeOK
  <1>1. TypeInv => TypeOK
    BY DEF TypeInv
  <1> QED
    BY <1>1, TypeInit, TypeStep, PTL DEF Spec

-----------------------------------------------------------------------------
(* Dependencies come first.                                                *)

\* What left pending has a place in running_systems.
StartedRecorded == \A c \in Children \ pending : HasStarted(c)
\* Only a prerequisite that is running can satisfy a dependency.
LatchedRunning == \A d \in latched : d.requires \notin pending
\* The child under examination is pending and outside the rest of the tour;
\* while it looks eligible, each of its dependencies is latched or still to
\* be examined, and when it is launched all are latched.
Examining ==
    /\ phase \in {"schedule", "launching"} => tour \subseteq pending
    /\ phase \in {"schedule", "launching"} /\ child # None =>
          child \in pending /\ child \notin tour
    /\ phase = "schedule" /\ child # None =>
          /\ \A d \in todo : d.system = child /\ d \notin latched
          /\ eligible => \A d \in deps :
                            d.system = child => d \in latched \cup todo
    /\ phase = "launching" =>
          \A d \in deps : d.system = child => d \in latched

OrderInv ==
    /\ TypeInv
    /\ StartedRecorded
    /\ LatchedRunning
    /\ Examining
    /\ DependenciesFirst

LEMMA AppendFacts ==
    ASSUME NEW s \in Seq(Units), NEW u \in Units
    PROVE  /\ Append(s, u) \in Seq(Units)
           /\ Len(s) \in Nat
           /\ Len(Append(s, u)) = Len(s) + 1
           /\ \A i \in 1..Len(s) : Append(s, u)[i] = s[i]
           /\ Append(s, u)[Len(s) + 1] = u
  OBVIOUS

\* A step that leaves running and latched alone and launches nobody keeps
\* DependenciesFirst.
LEMMA FirstUnchanged ==
    ASSUME DependenciesFirst, UNCHANGED <<deps, running, latched>>,
           phase' # "launching"
    PROVE  DependenciesFirst'
  BY DEF DependenciesFirst, HasStarted

LEMMA OrderInit == Init => OrderInv
  <1> SUFFICES ASSUME Init PROVE OrderInv
    OBVIOUS
  <1>1. Len(running) = 0
    BY DEF Init
  <1>2. DependenciesFirst
    BY <1>1 DEF Init, DependenciesFirst
  <1> QED
    BY <1>2, TypeInit
    DEF Init, OrderInv, StartedRecorded, LatchedRunning, Examining

\* Appending the child keeps the order: its prerequisites have started.
LEMMA FirstAppended ==
    ASSUME OrderInv, phase = "launching", phase' # "launching",
           running' = Append(running, child), UNCHANGED <<deps, latched>>
    PROVE  DependenciesFirst'
  <1>1. child \in Children /\ child \in Units /\ running \in Seq(Units)
    BY DEF OrderInv, TypeInv, TypeOK, Units
  <1>2. /\ Len(running) \in Nat
        /\ Len(running') = Len(running) + 1
        /\ \A i \in 1..Len(running) : running'[i] = running[i]
        /\ running'[Len(running) + 1] = child
    BY <1>1, AppendFacts
  <1> SUFFICES ASSUME NEW d \in deps, NEW i \in 1..Len(running'),
                      running'[i] = d.system
               PROVE  /\ d \in latched
                      /\ \E j \in 1..(i - 1) : running'[j] = d.requires
    BY DEF DependenciesFirst
  <1>3. CASE i = Len(running) + 1
    <2>1. d \in latched /\ d.requires \notin pending
      BY <1>2, <1>3 DEF OrderInv, Examining, LatchedRunning
    <2>2. d.requires \in Children
      BY PlanFacts DEF OrderInv, TypeInv
    <2>3. PICK j \in 1..Len(running) : running[j] = d.requires
      BY <2>1, <2>2 DEF OrderInv, StartedRecorded, HasStarted
    <2> QED
      BY <1>2, <1>3, <2>1, <2>3
  <1>4. CASE i # Len(running) + 1
    <2>1. i \in 1..Len(running) /\ running[i] = d.system
      BY <1>2, <1>4
    <2>2. d \in latched /\ \E j \in 1..(i - 1) : running[j] = d.requires
      BY <2>1 DEF OrderInv, DependenciesFirst
    <2> QED
      BY <1>2, <2>1, <2>2
  <1> QED
    BY <1>3, <1>4

\* Appending a scope keeps it too: scopes are not children.
LEMMA FirstScope ==
    ASSUME OrderInv, StartScope
    PROVE  DependenciesFirst'
  <1> DEFINE s == Scopes[Len(running) + 1]
  <1>1. running \in Seq(Units) /\ Len(running) \in Nat
    BY DEF OrderInv, TypeInv, TypeOK
  <1>2. s \in ScopeSet /\ s \in Units
    BY <1>1, ScopesAssumption DEF StartScope, Units, ScopeSet
  <1>3. /\ Len(running') = Len(running) + 1
        /\ \A i \in 1..Len(running) : running'[i] = running[i]
        /\ running'[Len(running) + 1] = s
    BY <1>1, <1>2, AppendFacts DEF StartScope
  <1>4. /\ UNCHANGED <<deps, latched>>
        /\ phase' # "launching"
    BY DEF StartScope, startup
  <1> SUFFICES ASSUME NEW d \in deps, NEW i \in 1..Len(running'),
                      running'[i] = d.system
               PROVE  /\ d \in latched
                      /\ \E j \in 1..(i - 1) : running'[j] = d.requires
    BY <1>4 DEF DependenciesFirst
  <1>5. d.system \in Children
    BY PlanFacts DEF OrderInv, TypeInv
  <1>6. i \in 1..Len(running) /\ running[i] = d.system
    BY <1>1, <1>2, <1>3, <1>5, ScopesAssumption
  <1>7. d \in latched /\ \E j \in 1..(i - 1) : running[j] = d.requires
    BY <1>6 DEF OrderInv, DependenciesFirst
  <1> QED
    BY <1>1, <1>3, <1>6, <1>7

\* Two ways a step keeps the rest: it changes neither pending, latched nor
\* running, or it appends a unit to running.
LEMMA RecordedKept ==
    ASSUME OrderInv, UNCHANGED <<deps, pending, running, latched>>
    PROVE  StartedRecorded' /\ LatchedRunning'
  BY DEF OrderInv, StartedRecorded, LatchedRunning, HasStarted

LEMMA RecordedAppend ==
    ASSUME OrderInv, NEW u \in Units, running' = Append(running, u),
           NEW D \in SUBSET {u}, pending' = pending \ D,
           UNCHANGED <<deps, latched>>
    PROVE  StartedRecorded' /\ LatchedRunning'
  <1>1. /\ running \in Seq(Units) /\ Len(running) \in Nat
        /\ Len(running') = Len(running) + 1
        /\ \A i \in 1..Len(running) : running'[i] = running[i]
        /\ running'[Len(running) + 1] = u
    BY AppendFacts DEF OrderInv, TypeInv, TypeOK
  <1>2. LatchedRunning'
    BY DEF OrderInv, LatchedRunning
  <1>3. ASSUME NEW c \in Children \ pending' PROVE HasStarted(c)'
    <2>1. CASE c \in Children \ pending
      <3>1. PICK i \in 1..Len(running) : running[i] = c
        BY <2>1 DEF OrderInv, StartedRecorded, HasStarted
      <3> QED
        BY <1>1, <3>1 DEF HasStarted
    <2>2. CASE c = u
      BY <1>1, <2>2 DEF HasStarted
    <2> QED
      BY <1>3, <2>1, <2>2
  <1> QED
    BY <1>2, <1>3 DEF StartedRecorded

LEMMA OrderStep == OrderInv /\ [Next]_vars => OrderInv'
  <1> SUFFICES ASSUME OrderInv, [Next]_vars PROVE OrderInv'
    OBVIOUS
  <1>0. TypeInv /\ TypeInv' /\ DependenciesFirst /\ Examining
    BY TypeStep DEF OrderInv
  <1>a. /\ pending \subseteq Children /\ running \in Seq(Units)
        /\ child \in Children \cup {None} /\ Children \subseteq Units
        /\ phase = "launching" => child # None
        /\ todo \subseteq deps
    BY <1>0 DEF TypeInv, TypeOK, Units
  <1> USE DEF control, backends, pass, startup
  <1>1. CASE StartScope
    <2>1. Scopes[Len(running) + 1] \in Units
      BY <1>1, <1>a, ScopesAssumption DEF StartScope, Units, ScopeSet
    <2>2. StartedRecorded' /\ LatchedRunning'
      <3> DEFINE u == Scopes[Len(running) + 1]
                 D == {}
      <3>1. /\ u \in Units /\ running' = Append(running, u)
            /\ D \in SUBSET {u} /\ pending' = pending \ D
            /\ UNCHANGED <<deps, latched>>
        BY <1>1, <2>1 DEF StartScope
      <3> HIDE DEF u, D
      <3> QED
        BY <3>1, RecordedAppend
    <2>3. DependenciesFirst'
      BY <1>1, FirstScope
    <2>4. Examining'
      BY <1>1 DEF StartScope, Examining
    <2> QED
      BY <1>0, <2>2, <2>3, <2>4 DEF OrderInv
  <1>2. CASE ScopeStartFails \/ SkipChild \/ StartReturns \/ CannotProgress
             \/ StartFails \/ Interrupt \/ NextPass \/ WaitForDependencies
             \/ BeginScheduling \/ ChildStartFails \/ RollbackStop
             \/ UNCHANGED vars
    <2>1. UNCHANGED <<deps, pending, running, latched>>
      BY <1>2 DEF ScopeStartFails, SkipChild, StartReturns, CannotProgress,
              StartFails, Interrupt, NextPass, WaitForDependencies,
              BeginScheduling, ChildStartFails, RollbackStop, vars
    <2>2. UNCHANGED <<phase, child>> \/ phase' # "launching"
      BY <1>2 DEF ScopeStartFails, SkipChild, StartReturns, CannotProgress,
              StartFails, Interrupt, NextPass, WaitForDependencies,
              BeginScheduling, ChildStartFails, RollbackStop, vars,
              Raise, NewPass, PassOver
    <2>3. DependenciesFirst'
      BY <1>0, <2>1, <2>2, FirstUnchanged DEF DependenciesFirst, HasStarted
    <2>4. Examining'
      BY <1>0, <1>a, <1>2
         DEF ScopeStartFails, SkipChild, StartReturns, CannotProgress,
             StartFails, Interrupt, NextPass, WaitForDependencies,
             BeginScheduling, ChildStartFails, RollbackStop, vars,
             Raise, NewPass, PassOver, Examining
    <2> QED
      BY <1>0, <2>1, <2>3, <2>4, RecordedKept DEF OrderInv
  <1>3. ASSUME NEW c \in Children, PickChild(c) PROVE OrderInv'
    <2>1. UNCHANGED <<deps, pending, running, latched>> /\ phase' = "schedule"
      BY <1>3 DEF PickChild
    <2>2. Examining'
      BY <1>0, <1>a, <1>3 DEF PickChild, Examining
    <2> QED
      BY <1>0, <2>1, <2>2, RecordedKept, FirstUnchanged DEF OrderInv
  <1>4. ASSUME NEW d \in deps,
               \/ PrerequisiteNotRunning(d)
               \/ \E st \in Statuses : DependencyUnmet(d, st)
        PROVE  OrderInv'
    <2>1. UNCHANGED <<deps, pending, running, latched>> /\ phase' = "schedule"
      BY <1>4 DEF PrerequisiteNotRunning, DependencyUnmet, NextDependency
    <2>2. UNCHANGED <<tour, child>> /\ ~eligible' /\ todo' \subseteq todo
      BY <1>4 DEF PrerequisiteNotRunning, DependencyUnmet
    <2>3. Examining'
      BY <1>0, <1>4, <2>1, <2>2
      DEF Examining, PrerequisiteNotRunning, DependencyUnmet, NextDependency
    <2> QED
      BY <1>0, <2>1, <2>3, RecordedKept, FirstUnchanged DEF OrderInv
  <1>5. ASSUME NEW d \in deps,
               \/ LatchStarted(d)
               \/ \E st \in Statuses : LatchObserved(d, st)
        PROVE  OrderInv'
    <2>1. /\ UNCHANGED <<deps, pending, running, tour, child, eligible>>
          /\ phase = "schedule" /\ phase' = "schedule" /\ child # None
          /\ latched' = latched \cup {d} /\ d.requires \notin pending
          /\ todo' = todo \ {d}
      BY <1>5 DEF LatchStarted, LatchObserved, NextDependency
    <2>2. StartedRecorded' /\ LatchedRunning'
      BY <2>1 DEF OrderInv, StartedRecorded, LatchedRunning, HasStarted
    <2>3. DependenciesFirst'
      BY <1>0, <2>1 DEF DependenciesFirst, HasStarted
    <2>4. Examining'
      BY <1>0, <2>1 DEF Examining
    <2> QED
      BY <1>0, <2>2, <2>3, <2>4 DEF OrderInv
  <1>6. ASSUME NEW d \in deps,
               \/ \E st \in Statuses : DependencyFails(d, st)
               \/ DependencyTimesOut(d)
               \/ DependencyEventFails(d)
        PROVE  OrderInv'
    <2>1. /\ UNCHANGED <<deps, pending, running, latched>>
          /\ phase' = "rollback"
      BY <1>6 DEF DependencyFails, DependencyTimesOut, DependencyEventFails,
                  Raise
    <2>2. Examining'
      BY <2>1 DEF Examining
    <2> QED
      BY <1>0, <2>1, <2>2, RecordedKept, FirstUnchanged DEF OrderInv
  <1>7. CASE LaunchChild
    <2>1. /\ UNCHANGED <<deps, pending, running, latched, child, tour>>
          /\ phase = "schedule" /\ child # None /\ todo = {} /\ eligible
          /\ phase' = "launching"
      BY <1>7 DEF LaunchChild
    <2>2. Examining'
      BY <1>0, <2>1 DEF Examining
    <2>3. \A d \in deps : d.system = child => d \in latched /\ HasStarted(d.requires)
      <3> SUFFICES ASSUME NEW d \in deps, d.system = child
                   PROVE  d \in latched /\ HasStarted(d.requires)
        OBVIOUS
      <3>1. d \in latched
        BY <1>0, <2>1 DEF Examining
      <3>2. d.requires \in Children \ pending
        BY <1>0, <3>1, PlanFacts DEF OrderInv, LatchedRunning, TypeInv
      <3> QED
        BY <3>1, <3>2 DEF OrderInv, StartedRecorded
    <2>4. DependenciesFirst'
      BY <1>0, <2>1, <2>3 DEF DependenciesFirst, HasStarted
    <2> QED
      BY <1>0, <2>1, <2>2, <2>4, RecordedKept DEF OrderInv
  <1>8. CASE ChildStarted
    <2>1. /\ phase = "launching" /\ phase' = "schedule"
          /\ UNCHANGED <<deps, latched, tour>> /\ child' = None
          /\ running' = Append(running, child)
          /\ pending' = pending \ {child}
      BY <1>8 DEF ChildStarted
    <2>2. StartedRecorded' /\ LatchedRunning'
      <3> DEFINE D == {child}
      <3>1. child \in Units /\ D \in SUBSET {child} /\ pending' = pending \ D
        BY <1>a, <2>1
      <3> HIDE DEF D
      <3> QED
        BY <2>1, <3>1, RecordedAppend
    <2>3. DependenciesFirst'
      BY <2>1, FirstAppended
    <2>4. Examining'
      BY <1>0, <1>a, <2>1 DEF Examining
    <2> QED
      BY <1>0, <2>2, <2>3, <2>4 DEF OrderInv
  <1>9. CASE ChildEventFails
    <2>1. /\ phase = "launching" /\ phase' = "rollback"
          /\ UNCHANGED <<deps, latched, pending>>
          /\ running' = Append(running, child)
      BY <1>9 DEF ChildEventFails, Raise
    <2>2. StartedRecorded' /\ LatchedRunning'
      <3> DEFINE D == {}
      <3>1. child \in Units /\ D \in SUBSET {child} /\ pending' = pending \ D
        BY <1>a, <2>1
      <3> HIDE DEF D
      <3> QED
        BY <2>1, <3>1, RecordedAppend
    <2>3. DependenciesFirst'
      BY <2>1, FirstAppended
    <2>4. Examining'
      BY <2>1 DEF Examining
    <2> QED
      BY <1>0, <2>2, <2>3, <2>4 DEF OrderInv
  <1> QED
    BY <1>1, <1>2, <1>3, <1>4, <1>5, <1>6, <1>7, <1>8, <1>9
    DEF Next, Step, ExamineDependency

\* Whatever the plan, the passes, the statuses and the timing, a child is
\* launched only after its dependencies were satisfied by prerequisites that
\* had started before it.
THEOREM StartsInDependencyOrder == Spec => []DependenciesFirst
  <1>1. OrderInv => DependenciesFirst
    BY DEF OrderInv
  <1> QED
    BY <1>1, OrderInit, OrderStep, PTL DEF Spec

-----------------------------------------------------------------------------
(* A pass that starts nobody has a reason to wait.                         *)

\* Why a child is not started in this pass: an unmet dependency among those
\* already examined (not in todo), ...
Blocked(c) ==
    \E d \in deps \ (latched \cup todo) :
        /\ d.system = c
        /\ \/ d.requires \in pending
           \/ /\ cache[d.requires] # None
              /\ Verdict(d, cache[d.requires]) = "unmet"
\* ... and what the scheduler can wait for.
Held(c) ==
    \/ deadlines # {}
    \/ \E d \in deps : d.system = c /\ d.requires \in pending

\* Every child this pass has examined, as long as it started nobody, is
\* blocked and held; so is the child under examination once it is known not
\* to be eligible.
PassInv ==
    /\ OrderInv
    /\ phase = "schedule" =>
          \A c \in pending : (Blocked(c) /\ Held(c))
                             \/ progress \/ c \in tour \/ c = child
    /\ phase = "schedule" /\ child # None =>
          eligible \/ (Blocked(child) /\ Held(child))
    /\ TopologyProgresses

\* A nonempty set of children has a first one in the compiled order.
LEMMA FirstInOrder ==
    ASSUME NEW S \in SUBSET Children, S # {}
    PROVE  \E c \in S : \A e \in S : Rank[c] <= Rank[e]
  <1> DEFINE R == {ss \in Nat \X Nat : ss[1] < ss[2]}
             T == {Rank[c] : c \in S}
  <1>1. T \subseteq Nat /\ T # {}
    BY RankAssumption
  <1>2. IsWellFoundedOn(R, Nat)
    BY NatLessThanWellFounded, Zenon DEF OpToRel
  <1>3. \A x, y \in Nat : x < y => <<x, y>> \in R
    OBVIOUS
  <1> HIDE DEF R, T
  <1>4. \E x \in T : \A y \in T : ~(<<y, x>> \in R)
    BY <1>1, <1>2, WFMin, Zenon
  <1>5. PICK m \in T : \A y \in T : ~(<<y, m>> \in R)
    BY <1>4
  <1>6. ASSUME NEW y \in T PROVE m <= y
    <2>1. m \in Nat /\ y \in Nat
      BY <1>1
    <2>2. ~(y < m)
      BY <1>3, <1>5, <2>1, Zenon
    <2> QED
      BY <2>1, <2>2
  <1> QED
    BY <1>5, <1>6 DEF T

\* What blocks and holds a child does not go away within a pass.
LEMMA BlockedKept ==
    ASSUME PassInv, NEW c, Blocked(c), UNCHANGED <<deps, pending>>,
           \A d \in latched' \ latched : d.system # c,
           \A d \in todo' \ todo : d.system # c,
           \A r \in Children : cache[r] # None => cache'[r] = cache[r]
    PROVE  Blocked(c)'
  <1>1. PICK d \in deps \ (latched \cup todo) :
            /\ d.system = c
            /\ \/ d.requires \in pending
               \/ /\ cache[d.requires] # None
                  /\ Verdict(d, cache[d.requires]) = "unmet"
    BY DEF Blocked
  <1>2. d.requires \in Children
    BY PlanFacts DEF PassInv, OrderInv, TypeInv
  <1>3. d \in deps' \ (latched' \cup todo')
    BY <1>1
  <1> QED
    BY <1>1, <1>2, <1>3 DEF Blocked, Verdict

LEMMA HeldKept ==
    ASSUME NEW c, Held(c), UNCHANGED <<deps, pending>>,
           deadlines \subseteq deadlines'
    PROVE  Held(c)'
  BY DEF Held

\* A step that leaves the scheduling phase, or stays out of it.
LEMMA PassLeft ==
    ASSUME PassInv, OrderInv', phase' # "schedule",
           error' = error \/ error' # "ORCH305", UNCHANGED deps
    PROVE  PassInv'
  BY DEF PassInv, TopologyProgresses, Ordered

LEMMA PassStep == PassInv /\ [Next]_vars => PassInv'
  <1> SUFFICES ASSUME PassInv, [Next]_vars PROVE PassInv'
    OBVIOUS
  <1>0. OrderInv /\ OrderInv'
    BY OrderStep DEF PassInv
  <1>a. /\ Examining /\ TypeInv /\ TypeOK
        /\ pending \subseteq Children /\ deps' = deps
    BY <1>0 DEF OrderInv, TypeInv, TypeOK, Next, Step, ExamineDependency,
       StartScope, ScopeStartFails, BeginScheduling, PickChild,
       PrerequisiteNotRunning, LatchStarted, LatchObserved, DependencyUnmet,
       DependencyFails, DependencyTimesOut, DependencyEventFails, SkipChild,
       LaunchChild, ChildStarted, ChildEventFails, ChildStartFails,
       StartReturns, NextPass, CannotProgress, WaitForDependencies,
       RollbackStop, StartFails, Interrupt, vars, control, backends, pass,
       startup
  <1> USE DEF control, backends, pass, startup
  <1>1. CASE \/ StartScope \/ ScopeStartFails \/ LaunchChild \/ ChildEventFails
             \/ ChildStartFails \/ StartReturns \/ RollbackStop \/ StartFails
             \/ Interrupt
    <2>1. phase' # "schedule" /\ (error' = error \/ error' # "ORCH305")
      BY <1>1 DEF StartScope, ScopeStartFails, LaunchChild, ChildEventFails,
         ChildStartFails, StartReturns, RollbackStop, StartFails, Interrupt,
         Raise
    <2> QED
      BY <1>0, <1>a, <2>1, PassLeft
  <1>2. ASSUME NEW d \in deps,
               \/ \E st \in Statuses : DependencyFails(d, st)
               \/ DependencyTimesOut(d)
               \/ DependencyEventFails(d)
        PROVE  PassInv'
    <2>1. phase' # "schedule" /\ error' # "ORCH305"
      BY <1>2 DEF DependencyFails, DependencyTimesOut, DependencyEventFails,
                  Raise
    <2> QED
      BY <1>0, <1>a, <2>1, PassLeft
  <1>3. CASE BeginScheduling \/ NextPass \/ WaitForDependencies
    <2>1. /\ tour' = pending /\ child' = None /\ UNCHANGED <<pending, error>>
      BY <1>3 DEF BeginScheduling, NextPass, WaitForDependencies, NewPass
    <2> QED
      BY <1>0, <1>a, <2>1 DEF PassInv, TopologyProgresses, Ordered
  <1>4. CASE CannotProgress
    <2>1. /\ phase = "schedule" /\ child = None /\ tour = {}
          /\ pending # {} /\ ~progress /\ deadlines = {}
          /\ phase' = "rollback"
      BY <1>4 DEF CannotProgress, PassOver, Raise
    <2>2. \A c \in pending :
             \E d \in deps : d.system = c /\ d.requires \in pending
      BY <1>a, <2>1, ScopesAssumption DEF PassInv, Held, Units
    <2>3. PICK c \in pending : \A e \in pending : Rank[c] <= Rank[e]
      BY <1>a, <2>1, FirstInOrder
    <2>4. PICK d \in deps : d.system = c /\ d.requires \in pending
      BY <2>2
    <2>5. Rank[d.system] \in Nat /\ Rank[d.requires] \in Nat
      BY <1>a, PlanFacts, RankAssumption
    <2>6. ~Ordered
      BY <2>3, <2>4, <2>5 DEF Ordered
    <2> QED
      BY <1>0, <1>a, <2>1, <2>6 DEF PassInv, TopologyProgresses, Ordered
  <1>5. ASSUME NEW c \in Children, PickChild(c) PROVE PassInv'
    <2>1. /\ tour' = tour \ {c} /\ child' = c /\ eligible' = TRUE
          /\ phase = "schedule" /\ child = None
          /\ todo' = {d \in deps : d.system = c} \ latched
          /\ UNCHANGED <<phase, error, pending, progress, cache, deadlines,
                         latched, deps>>
      BY <1>5 DEF PickChild
    <2>2. ASSUME NEW x, x # c, (Blocked(x) /\ Held(x))
          PROVE  (Blocked(x)' /\ Held(x)')
      BY <2>1, <2>2 DEF Blocked, Held, Verdict
    <2>3. TopologyProgresses'
      BY <2>1 DEF PassInv, TopologyProgresses, Ordered
    <2>4. \A x \in pending : (Blocked(x)' /\ Held(x)')
                             \/ progress' \/ x \in tour' \/ x = child'
      <3>1. \A x \in pending : x # child
        BY <1>a, <2>1, ScopesAssumption DEF Units
      <3>2. \A x \in pending : (Blocked(x) /\ Held(x)) \/ progress \/ x \in tour
        BY <2>1, <3>1 DEF PassInv
      <3> SUFFICES ASSUME NEW x \in pending
                   PROVE  (Blocked(x)' /\ Held(x)')
                          \/ progress' \/ x \in tour' \/ x = child'
        OBVIOUS
      <3>3. CASE progress \/ x \in tour
        BY <2>1, <3>3
      <3>4. CASE (Blocked(x) /\ Held(x)) /\ x # c
        BY <2>2, <3>4
      <3> QED
        BY <2>1, <3>2, <3>3, <3>4
    <2> QED
      BY <1>0, <2>1, <2>3, <2>4 DEF PassInv
  <1>6. CASE SkipChild
    <2>1. /\ child' = None /\ ~eligible /\ phase = "schedule" /\ child # None
          /\ UNCHANGED <<phase, error, pending, progress, cache, deadlines,
                         latched, deps, tour, todo>>
      BY <1>6 DEF SkipChild
    <2>2. \A x : (Blocked(x) <=> Blocked(x)') /\ (Held(x) <=> Held(x)')
      BY <2>1 DEF Blocked, Held, Verdict
    <2>3. TopologyProgresses'
      BY <2>1 DEF PassInv, TopologyProgresses, Ordered
    <2>4. \A x \in pending : (Blocked(x)' /\ Held(x)')
                             \/ progress' \/ x \in tour' \/ x = child'
      BY <2>1, <2>2 DEF PassInv
    <2> QED
      BY <1>0, <2>1, <2>3, <2>4 DEF PassInv
  <1>7. ASSUME NEW d \in deps, PrerequisiteNotRunning(d) PROVE PassInv'
    <2>1. /\ phase = "schedule" /\ child # None /\ d \in todo
          /\ d.requires \in pending /\ todo' = todo \ {d}
          /\ UNCHANGED <<phase, error, pending, progress, cache, deadlines,
                         latched, deps, tour, child>>
      BY <1>7 DEF PrerequisiteNotRunning, NextDependency
    <2>2. d.system = child
      BY <1>a, <2>1 DEF Examining
    <2>3. d \notin latched
      BY <1>0, <2>1 DEF OrderInv, LatchedRunning
    <2>4. \A x : (Blocked(x) => Blocked(x)') /\ (Held(x) => Held(x)')
      BY <2>1 DEF Blocked, Held, Verdict
    <2>5. (Blocked(child)' /\ Held(child)')
      BY <2>1, <2>2, <2>3 DEF Blocked, Held
    <2>6. TopologyProgresses'
      BY <2>1 DEF PassInv, TopologyProgresses, Ordered
    <2>7. \A x \in pending : (Blocked(x)' /\ Held(x)')
                             \/ progress' \/ x \in tour' \/ x = child'
      BY <2>1, <2>4 DEF PassInv
    <2> QED
      BY <1>0, <2>1, <2>4, <2>5, <2>6, <2>7 DEF PassInv
  <1>8. ASSUME NEW d \in deps,
               \/ LatchStarted(d)
               \/ \E st \in Statuses : LatchObserved(d, st)
        PROVE  PassInv'
    <2>1. /\ phase = "schedule" /\ child # None /\ d \in todo
          /\ d.requires \notin pending
          /\ latched' = latched \cup {d} /\ todo' = todo \ {d}
          /\ UNCHANGED <<phase, error, pending, progress, deadlines, deps,
                         tour, child, eligible>>
      BY <1>8 DEF LatchStarted, LatchObserved, NextDependency
    <2>2. d.system = child
      BY <1>a, <2>1 DEF Examining
    <2>3. \A r \in Children : cache[r] # None => cache'[r] = cache[r]
      BY <1>8, <1>a DEF LatchStarted, LatchObserved, Inspected, TypeOK
    <2>4. \A x : Held(x) => Held(x)'
      BY <2>1 DEF Held
    <2>5. ASSUME NEW x, x # child, Blocked(x) PROVE Blocked(x)'
      BY <2>1, <2>2, <2>3, <2>5, BlockedKept
    <2>6. ASSUME ~eligible PROVE Blocked(child)'
      <3>1. PICK e \in deps \ (latched \cup todo) :
                /\ e.system = child
                /\ \/ e.requires \in pending
                   \/ /\ cache[e.requires] # None
                      /\ Verdict(e, cache[e.requires]) = "unmet"
        BY <2>1, <2>6 DEF PassInv, Blocked
      <3>2. e.requires \in Children
        BY <1>a, PlanFacts
      <3>3. e \in deps' \ (latched' \cup todo')
        BY <1>a, <2>1, <3>1
      <3> QED
        BY <2>1, <2>3, <3>1, <3>2, <3>3 DEF Blocked, Verdict
    <2>7. TopologyProgresses'
      BY <2>1 DEF PassInv, TopologyProgresses, Ordered
    <2>8. \A x \in pending : (Blocked(x)' /\ Held(x)')
                             \/ progress' \/ x \in tour' \/ x = child'
      BY <2>1, <2>4, <2>5 DEF PassInv
    <2> QED
      BY <1>0, <2>1, <2>4, <2>6, <2>7, <2>8 DEF PassInv
  <1>9. ASSUME NEW d \in deps, NEW st \in Statuses, DependencyUnmet(d, st)
        PROVE  PassInv'
    <2>1. /\ phase = "schedule" /\ child # None /\ d \in todo
          /\ d.requires \notin pending
          /\ Verdict(d, st) = "unmet"
          /\ deadlines' = deadlines \cup {Deadline(d)} /\ todo' = todo \ {d}
          /\ UNCHANGED <<phase, error, pending, progress, latched, deps,
                         tour, child>>
      BY <1>9 DEF DependencyUnmet, NextDependency
    <2>2. d.system = child
      BY <1>a, <2>1 DEF Examining
    <2>3. d.requires \in Children
      BY <1>a, PlanFacts
    <2>4. cache'[d.requires] = st /\ st # None
      BY <1>9, <1>a, <2>3, StatusesAssumption
      DEF DependencyUnmet, Inspected, TypeOK
    <2>5. \A r \in Children : cache[r] # None => cache'[r] = cache[r]
      BY <1>9, <1>a DEF DependencyUnmet, Inspected, TypeOK
    <2>6. \A x : Held(x)'
      BY <2>1 DEF Held
    <2>7. ASSUME NEW x, Blocked(x) PROVE Blocked(x)'
      BY <2>1, <2>5, <2>7, BlockedKept
    <2>8. d \notin latched
      BY <1>a, <2>1 DEF Examining
    <2>9. Blocked(child)'
      BY <2>1, <2>2, <2>4, <2>8 DEF Blocked, Verdict
    <2>10. TopologyProgresses'
      BY <2>1 DEF PassInv, TopologyProgresses, Ordered
    <2>11. \A x \in pending : (Blocked(x)' /\ Held(x)')
                              \/ progress' \/ x \in tour' \/ x = child'
      BY <2>1, <2>6, <2>7 DEF PassInv
    <2> QED
      BY <1>0, <2>1, <2>6, <2>9, <2>10, <2>11 DEF PassInv
  <1>10. CASE ChildStarted
    BY <1>0, <1>a, <1>10 DEF ChildStarted, PassInv, TopologyProgresses, Ordered
  <1>11. CASE UNCHANGED vars
    <2>1. \A x : (Blocked(x) <=> Blocked(x)') /\ (Held(x) <=> Held(x)')
      BY <1>11 DEF Blocked, Held, Verdict, vars
    <2> QED
      BY <1>0, <1>11, <2>1 DEF vars, PassInv, TopologyProgresses, Ordered
  <1> QED
    BY <1>1, <1>2, <1>3, <1>4, <1>5, <1>6, <1>7, <1>8, <1>9, <1>10, <1>11
    DEF Next, Step, ExamineDependency

LEMMA PassInit == Init => PassInv
  BY OrderInit DEF Init, PassInv, TopologyProgresses

\* A plan ordered as the planner compiles it never dead-ends in ORCH305: the
\* first pending child has all its prerequisites running, so a pass that
\* starts nobody leaves a deadline to wait for.
THEOREM OrderedPlansNeverDeadEnd == Spec => []TopologyProgresses
  <1>1. PassInv => TopologyProgresses
    BY DEF PassInv
  <1> QED
    BY <1>1, PassInit, PassStep, PTL DEF Spec

LEMMA WaitJustified == PassInv => WaitsOnlyForUnmet
  <1> SUFFICES ASSUME PassInv, PassOver, ~progress, NEW c \in pending
               PROVE  \E d \in deps \ latched :
                        /\ d.system = c
                        /\ \/ d.requires \in pending
                           \/ /\ cache[d.requires] # None
                              /\ Verdict(d, cache[d.requires]) = "unmet"
    BY DEF WaitsOnlyForUnmet
  <1>1. c \in Children /\ c # None
    BY ScopesAssumption DEF PassInv, OrderInv, TypeInv, TypeOK, Units
  <1>2. Blocked(c)
    BY <1>1 DEF PassInv, PassOver
  <1> QED
    BY <1>2 DEF Blocked

\* When the scheduler is about to sleep, every child still pending has an
\* unmet dependency: nobody waits for an unrelated branch.
THEOREM NobodyWaitsForOthers == Spec => []WaitsOnlyForUnmet
  BY PassInit, PassStep, WaitJustified, PTL DEF Spec

\* A dependency is latched by a clock reading within its deadline.
THEOREM LatchedInTime == Spec => LatchInTime
  <1>1. ASSUME OrderInv, [Next]_vars
        PROVE  [\A d \in latched' \ latched :
                  /\ startedAt[d.requires] # None
                  /\ clock' <= startedAt[d.requires] + d.timeout]_vars
    <2> SUFFICES ASSUME NEW d \in latched' \ latched, Next
                 PROVE  /\ startedAt[d.requires] # None
                        /\ clock' <= startedAt[d.requires] + d.timeout
      BY <1>1 DEF vars, startup
    <2>1. \/ LatchStarted(d)
          \/ \E st \in Statuses : LatchObserved(d, st)
      BY <1>1 DEF Next, Step, ExamineDependency,
         StartScope, ScopeStartFails, BeginScheduling, PickChild,
         PrerequisiteNotRunning, LatchStarted, LatchObserved, DependencyUnmet,
         DependencyFails, DependencyTimesOut, DependencyEventFails, SkipChild,
         LaunchChild, ChildStarted, ChildEventFails, ChildStartFails,
         StartReturns, NextPass, CannotProgress, WaitForDependencies,
         RollbackStop, StartFails, Interrupt, control, backends, pass, startup
    <2>2. /\ d \in deps /\ d.requires \notin pending
          /\ clock' <= Deadline(d)
      BY <1>1, <2>1 DEF LatchStarted, LatchObserved, NextDependency,
                        OrderInv, TypeInv, TypeOK
    <2>3. startedAt[d.requires] \in Nat
      BY <1>1, <2>2, PlanFacts DEF OrderInv, TypeInv, StartTimesKnown
    <2> QED
      BY <2>2, <2>3, ScopesAssumption DEF Deadline
  <1> QED
    BY <1>1, OrderInit, OrderStep, PTL DEF Spec, LatchInTime

-----------------------------------------------------------------------------
(* What the handle owns and what rollback stops.                           *)

Starting == phase \in {"scopes", "schedule", "launching", "returned"}

\* Until something is raised, running_scopes is a prefix of the plan's scopes
\* followed by the children that left pending, each executing and listed once.
RunningExact ==
    /\ \A i \in 1..Len(running) : i <= Len(Scopes) => running[i] = Scopes[i]
    /\ IF phase = "scopes" THEN Len(running) <= Len(Scopes)
                           ELSE Len(running) >= Len(Scopes)
    /\ \A c \in pending : ~HasStarted(c)
    /\ \A i \in 1..Len(running) : running[i] \in live
    /\ \A i, j \in 1..Len(running) : running[i] = running[j] => i = j

\* The raising and rolling back phases.
RollbackInv ==
    /\ Starting => error = "none" /\ stops = <<>> /\ RunningExact
    /\ phase = "launching" => child \in live
    /\ phase = "returned" => pending = {}
    /\ RollbackComplete
    /\ phase # "interrupted" => \A u \in live :
          \/ HasStarted(u)
          \/ u = child /\ (phase = "launching" \/ error = "ORCH204")

HandleInv == OrderInv /\ RollbackInv

LEMMA ScopesFacts ==
    /\ Len(Scopes) \in Nat
    /\ \A i \in 1..Len(Scopes) : Scopes[i] \in Units /\ Scopes[i] \notin Children
  BY ScopesAssumption DEF Units, ScopeSet

LEMMA HandleInit == Init => HandleInv
  <1> SUFFICES ASSUME Init PROVE HandleInv
    OBVIOUS
  <1>1. Len(running) = 0 /\ Len(stops) = 0
    BY DEF Init
  <1>2. RunningExact
    BY <1>1, ScopesFacts DEF Init, RunningExact, HasStarted
  <1>3. RollbackComplete
    BY <1>1 DEF Init, RollbackComplete
  <1> QED
    BY <1>2, <1>3, OrderInit DEF Init, HandleInv, RollbackInv

\* A step that touches no unit: the scheduler goes on, or something is raised
\* while no child is being launched.
LEMMA HandleKept ==
    ASSUME HandleInv, phase \in {"scopes", "schedule"},
           phase = "scopes" /\ phase' # "rollback" => Len(running) = Len(Scopes),
           \/ phase' \in {"schedule", "returned"} /\ error' = error
           \/ phase' = "rollback",
           phase' = "returned" => pending = {},
           UNCHANGED <<running, live, stops, pending>>
    PROVE  RollbackInv'
  <1>1. RunningExact /\ stops = <<>> /\ Len(stops) = 0 /\ error = "none"
    BY DEF HandleInv, RollbackInv, Starting
  <1>2. \A u \in live : HasStarted(u)
    BY <1>1 DEF HandleInv, RollbackInv
  <1>3. Len(running) \in Nat
    BY DEF HandleInv, OrderInv, TypeInv, TypeOK
  <1>4. RollbackComplete'
    BY <1>1, <1>3 DEF RollbackComplete
  <1>5. Starting' => RunningExact' /\ error' = "none" /\ stops' = <<>>
    BY <1>1, <1>3, ScopesFacts DEF RunningExact, Starting, HasStarted
  <1> QED
    BY <1>2, <1>4, <1>5 DEF RollbackInv, HasStarted

LEMMA HandleStep == HandleInv /\ [Next]_vars => HandleInv'
  <1> SUFFICES ASSUME HandleInv, [Next]_vars PROVE HandleInv'
    OBVIOUS
  <1>0. /\ OrderInv /\ OrderInv' /\ RollbackInv /\ TypeOK /\ Examining
        /\ running \in Seq(Units) /\ Len(running) \in Nat
        /\ stops \in Seq(Units) /\ Len(stops) \in Nat
        /\ live \subseteq Units
    BY OrderStep DEF HandleInv, OrderInv, TypeInv, TypeOK
  <1> SUFFICES RollbackInv'
    BY <1>0 DEF HandleInv
  <1> USE DEF control, backends, pass, startup
  <1>1. CASE ScopeStartFails \/ BeginScheduling \/ SkipChild \/ StartReturns
             \/ NextPass \/ CannotProgress \/ WaitForDependencies
             \/ (\E c \in Children : PickChild(c))
             \/ (\E d \in deps : ExamineDependency(d))
    <2>1. /\ phase \in {"scopes", "schedule"}
          /\ phase = "scopes" /\ phase' # "rollback" =>
                Len(running) = Len(Scopes)
          /\ \/ phase' \in {"schedule", "returned"} /\ error' = error
             \/ phase' = "rollback"
          /\ phase' = "returned" => pending = {}
          /\ UNCHANGED <<running, live, stops, pending>>
      BY <1>1 DEF ExamineDependency, ScopeStartFails, BeginScheduling,
         PickChild, PrerequisiteNotRunning, LatchStarted, LatchObserved,
         DependencyUnmet, DependencyFails, DependencyTimesOut,
         DependencyEventFails, SkipChild, StartReturns, NextPass,
         CannotProgress, WaitForDependencies, NextDependency, Raise, PassOver
    <2> QED
      BY <2>1, HandleKept
  <1>2. CASE StartScope
    <2> DEFINE s == Scopes[Len(running) + 1]
    <2>1. /\ phase = "scopes" /\ phase' = "scopes" /\ error' = error
          /\ Len(running) + 1 \in 1..Len(Scopes)
          /\ running' = Append(running, s) /\ live' = live \cup {s}
          /\ UNCHANGED <<stops, pending>>
      BY <1>0, <1>2, ScopesFacts DEF StartScope
    <2>2. s \in Units /\ s \notin Children
      BY <2>1, ScopesFacts
    <2>3. /\ Len(running') = Len(running) + 1
          /\ \A i \in 1..Len(running) : running'[i] = running[i]
          /\ running'[Len(running) + 1] = s
      BY <1>0, <2>1, <2>2, AppendFacts
    <2> HIDE DEF s
    <2>4. /\ RunningExact /\ stops = <<>> /\ Len(stops) = 0 /\ error = "none"
      BY <1>0, <2>1 DEF RollbackInv, Starting
    <2>5. \A i \in 1..Len(running) : running[i] # s
      BY <2>1, <2>4, <1>0, ScopesFacts, ScopesAssumption DEF RunningExact, s
    <2>6. RunningExact'
      <3>1. \A i \in 1..Len(running') : i <= Len(Scopes) =>
               running'[i] = Scopes[i]
        BY <1>0, <2>1, <2>3, <2>4 DEF RunningExact, s
      <3>2. Len(running') <= Len(Scopes)
        BY <1>0, <2>1, <2>3, ScopesFacts
      <3>3. \A c \in pending' : ~HasStarted(c)'
        BY <1>0, <2>1, <2>2, <2>3, <2>4 DEF RunningExact, HasStarted, TypeOK
      <3>4. \A i \in 1..Len(running') : running'[i] \in live'
        BY <1>0, <2>1, <2>3, <2>4 DEF RunningExact
      <3>5. \A i, j \in 1..Len(running') : running'[i] = running'[j] => i = j
        BY <1>0, <2>3, <2>4, <2>5 DEF RunningExact
      <3> QED
        BY <2>1, <3>1, <3>2, <3>3, <3>4, <3>5 DEF RunningExact
    <2>7. RollbackComplete'
      BY <1>0, <2>1, <2>3, <2>4 DEF RollbackComplete
    <2>8. \A u \in live' : HasStarted(u)'
      BY <1>0, <2>1, <2>3, <2>4 DEF RollbackInv, HasStarted
    <2> QED
      BY <2>1, <2>4, <2>6, <2>7, <2>8 DEF RollbackInv
  <1>3. CASE LaunchChild
    <2>1. /\ phase = "schedule" /\ phase' = "launching"
          /\ live' = live \cup {child}
          /\ UNCHANGED <<error, running, stops, pending, child>>
      BY <1>3 DEF LaunchChild
    <2>2. RunningExact /\ stops = <<>> /\ Len(stops) = 0 /\ error = "none"
      BY <1>0, <2>1 DEF RollbackInv, Starting
    <2>3. RunningExact'
      BY <2>1, <2>2 DEF RunningExact, HasStarted
    <2>4. RollbackComplete'
      BY <1>0, <2>1, <2>2 DEF RollbackComplete
    <2> QED
      BY <1>0, <2>1, <2>2, <2>3, <2>4 DEF RollbackInv, HasStarted, Starting
  <1>4. CASE ChildStarted \/ ChildEventFails
    <2>1. /\ phase = "launching" /\ running' = Append(running, child)
          /\ UNCHANGED <<live, stops>>
          /\ \/ /\ phase' = "schedule" /\ error' = error
                /\ pending' = pending \ {child}
             \/ phase' = "rollback"
      BY <1>4 DEF ChildStarted, ChildEventFails, Raise
    <2>2. child \in Units /\ child \in pending
      BY <1>0, <2>1 DEF OrderInv, TypeInv, TypeOK, Examining, Units
    <2>3. /\ Len(running') = Len(running) + 1
          /\ \A i \in 1..Len(running) : running'[i] = running[i]
          /\ running'[Len(running) + 1] = child
      BY <1>0, <2>1, <2>2, AppendFacts
    <2>4. /\ RunningExact /\ stops = <<>> /\ Len(stops) = 0 /\ error = "none"
      BY <1>0, <2>1 DEF RollbackInv, Starting
    <2>5. \A i \in 1..Len(running) : running[i] # child
      BY <2>2, <2>4 DEF RunningExact, HasStarted
    <2>6. RollbackComplete'
      BY <1>0, <2>1, <2>3, <2>4 DEF RollbackComplete
    <2>7. \A u \in live' : HasStarted(u)'
      BY <1>0, <2>1, <2>3, <2>4 DEF RollbackInv, HasStarted
    <2>8. ASSUME phase' = "schedule" PROVE RunningExact'
      <3>1. child \in live
        BY <1>0, <2>1 DEF RollbackInv
      <3>2. Len(running) >= Len(Scopes)
        BY <2>1, <2>4 DEF RunningExact
      <3>3. \A i \in 1..Len(running') : i <= Len(Scopes) =>
               running'[i] = Scopes[i]
        BY <1>0, <2>3, <2>4, <3>2, ScopesFacts DEF RunningExact
      <3>4. Len(running') >= Len(Scopes)
        BY <1>0, <2>3, <3>2, ScopesFacts
      <3>5. \A c \in pending' : ~HasStarted(c)'
        BY <1>0, <2>1, <2>3, <2>4, <2>8 DEF RunningExact, HasStarted
      <3>6. \A i \in 1..Len(running') : running'[i] \in live'
        BY <1>0, <2>1, <2>3, <2>4, <3>1 DEF RunningExact
      <3>7. \A i, j \in 1..Len(running') : running'[i] = running'[j] => i = j
        BY <1>0, <2>3, <2>4, <2>5 DEF RunningExact
      <3> QED
        BY <2>8, <3>3, <3>4, <3>5, <3>6, <3>7 DEF RunningExact
    <2> QED
      BY <2>1, <2>4, <2>6, <2>7, <2>8 DEF RollbackInv, Starting
  <1>5. CASE ChildStartFails
    <2>1. /\ phase = "launching" /\ phase' = "rollback" /\ error' = "ORCH204"
          /\ UNCHANGED <<running, stops, child>> /\ live' \subseteq live
      BY <1>5 DEF ChildStartFails, Raise
    <2>2. stops = <<>> /\ Len(stops) = 0
      BY <1>0, <2>1 DEF RollbackInv, Starting
    <2>3. RollbackComplete'
      BY <1>0, <2>1, <2>2 DEF RollbackComplete
    <2> QED
      BY <1>0, <2>1, <2>3 DEF RollbackInv, Starting, HasStarted
  <1>6. CASE RollbackStop
    <2> DEFINE u == running[Len(running) - Len(stops)]
    <2>1. /\ phase = "rollback" /\ phase' = "rollback" /\ error' = error
          /\ Len(stops) < Len(running) /\ stops' = Append(stops, u)
          /\ live' \subseteq live /\ UNCHANGED <<running, child>>
      BY <1>6 DEF RollbackStop
    <2>2. u \in Units
      BY <1>0, <2>1
    <2>3. /\ Len(stops') = Len(stops) + 1
          /\ \A i \in 1..Len(stops) : stops'[i] = stops[i]
          /\ stops'[Len(stops) + 1] = u
      BY <1>0, <2>1, <2>2, AppendFacts
    <2>4. RollbackComplete'
      BY <1>0, <2>1, <2>3 DEF RollbackInv, RollbackComplete
    <2> QED
      BY <1>0, <2>1, <2>4 DEF RollbackInv, Starting, HasStarted
  <1>7. CASE StartFails
    <2>1. /\ phase = "rollback" /\ phase' = "failed"
          /\ Len(stops) = Len(running)
          /\ UNCHANGED <<error, running, stops, live, child>>
      BY <1>7 DEF StartFails
    <2>2. RollbackComplete'
      BY <1>0, <2>1 DEF RollbackInv, RollbackComplete, HasStarted
    <2> QED
      BY <1>0, <2>1, <2>2 DEF RollbackInv, Starting, HasStarted
  <1>8. CASE Interrupt
    <2>1. /\ phase' = "interrupted" /\ UNCHANGED <<running, stops>>
      BY <1>8 DEF Interrupt
    <2>2. RollbackComplete'
      BY <1>0, <2>1 DEF RollbackInv, RollbackComplete
    <2> QED
      BY <2>1, <2>2 DEF RollbackInv, Starting
  <1>9. CASE UNCHANGED vars
    <2>1. RollbackComplete' /\ (RunningExact => RunningExact')
      BY <1>0, <1>9 DEF RollbackInv, RollbackComplete, RunningExact, vars,
                        HasStarted
    <2> QED
      BY <1>0, <1>9, <2>1 DEF RollbackInv, Starting, HasStarted, vars
  <1> QED
    BY <1>1, <1>2, <1>3, <1>4, <1>5, <1>6, <1>7, <1>8, <1>9 DEF Next, Step

LEMMA HandleOwns == HandleInv => HandleOwnsEverything
  <1> SUFFICES ASSUME HandleInv, phase = "returned"
               PROVE  HandleOwnsEverything
    BY DEF HandleOwnsEverything
  <1>1. RunningExact /\ stops = <<>> /\ pending = {}
    BY DEF HandleInv, RollbackInv, Starting
  <1>2. ASSUME NEW s \in ScopeSet PROVE HasStarted(s)
    <2>1. PICK i \in 1..Len(Scopes) : s = Scopes[i]
      BY DEF ScopeSet
    <2>2. i \in 1..Len(running) /\ running[i] = s
      BY <1>1, <2>1, ScopesFacts
      DEF RunningExact, HandleInv, OrderInv, TypeInv, TypeOK
    <2> QED
      BY <2>2 DEF HasStarted
  <1>3. \A u \in Units : HasStarted(u)
    BY <1>1, <1>2 DEF Units, HandleInv, OrderInv, StartedRecorded
  <1>4. \A u \in Units : u \in live
    BY <1>1, <1>3 DEF HasStarted, RunningExact
  <1>5. live \subseteq Units
    BY DEF HandleInv, OrderInv, TypeInv, TypeOK
  <1> QED
    BY <1>1, <1>3, <1>4, <1>5 DEF HandleOwnsEverything, RunningExact

\* The handle a start returns owns every scope and child, once each.
LEMMA HandleIsComplete == Spec => []HandleOwnsEverything
  BY HandleInit, HandleStep, HandleOwns, PTL DEF Spec

\* Rollback stops exactly what had started, in reverse, and a start that
\* raised left nothing else executing but a child that failed by itself.
LEMMA RollbackIsComplete == Spec => []RollbackComplete
  <1>1. HandleInv => RollbackComplete
    BY DEF HandleInv, RollbackInv
  <1> QED
    BY <1>1, HandleInit, HandleStep, PTL DEF Spec

\* What start has started belongs to the handle or has been asked to stop.
THEOREM NothingIsUnowned == Spec => []NothingUnowned
  <1>1. RollbackComplete /\ HandleOwnsEverything => NothingUnowned
    BY DEF NothingUnowned
  <1> QED
    BY <1>1, HandleIsComplete, RollbackIsComplete, PTL
=============================================================================
