---------------------------- MODULE SystemStartup ---------------------------
(***************************************************************************)
(* SystemOrchestrator.start (system/orchestration.py): the parent's direct *)
(* scopes are started in plan order, then the scheduler starts the child   *)
(* Systems as their startup dependencies become satisfied, in passes over  *)
(* the children still pending; a pass that starts nobody waits for the     *)
(* poll interval or the nearest deadline.  Any Exception rolls back what   *)
(* was started; a KeyboardInterrupt does not.                              *)
(*                                                                         *)
(* A child's own start is the same procedure one level down.  Here it is   *)
(* the steps the parent can tell apart: the call enters and the child's    *)
(* first scope comes up (LaunchChild), then it returns a handle, or it     *)
(* raises after rolling itself back.                                       *)
(***************************************************************************)
EXTENDS SystemStates, Integers, Sequences

CONSTANTS
    Scopes,        \* sequence: the direct scopes, in plan order
    Children,      \* the direct child Systems
    Rank,          \* Rank[c]: position of c in the compiled startup order
    Plans,         \* sets of compiled dependencies a start may be given
    Statuses,      \* what an inspection of a child may report
    PollInterval,  \* dependency_poll_interval_seconds, in clock ticks
    MaxDelay,      \* bound: ticks spent inside backend and sink calls
    None           \* "not started", "no status cached", "no child"

ScopeSet == {Scopes[i] : i \in 1..Len(Scopes)}
Units == ScopeSet \cup Children

Conditions == {"started", "ready", "healthy"}
Dependency == [ordinal: Nat, system: Children, requires: Children,
               condition: Conditions, timeout: Nat]
Observation == [state: ExecutionStates, supported: BOOLEAN, ready: BOOLEAN,
                health: {"healthy", "degraded", "unhealthy", "unknown"}]

ASSUME ScopesAssumption ==
    /\ Scopes \in Seq(ScopeSet)
    /\ \A i, j \in 1..Len(Scopes) : Scopes[i] = Scopes[j] => i = j
    /\ ScopeSet \cap Children = {}
    /\ None \notin Units \cup Nat
ASSUME RankAssumption ==
    /\ Rank \in [Children -> Nat]
    /\ \A c, e \in Children : Rank[c] = Rank[e] => c = e
ASSUME PlansAssumption ==
    \A plan \in Plans :
        /\ plan \subseteq Dependency
        /\ \A d, e \in plan : d.ordinal = e.ordinal => d = e
ASSUME StatusesAssumption ==
    /\ Statuses \subseteq Observation
    /\ Statuses # {}
    /\ None \notin Statuses
ASSUME BoundsAssumption ==
    /\ PollInterval \in Nat \ {0}
    /\ MaxDelay \in Nat

VARIABLES
    deps,       \* the compiled dependencies of this start, never changed
    phase,      \* where the call is: "scopes", "schedule", "launching",
                \* "rollback", or how it ended
    error,      \* the code of the error being raised, or "none"
    clock,      \* the monotonic clock
    delay,      \* ticks spent inside calls so far (bounded by MaxDelay)
    running,    \* running_scopes followed by running_systems
    live,       \* units started whose backend has not confirmed a stop
    stops,      \* history: the units rollback has called stop on, in order
    pending,    \* children not started yet
    tour,       \* children of this pass's tuple(pending) not examined yet
    child,      \* the child under examination, or None
    todo,       \* its dependencies still to examine
    eligible,   \* no dependency of the child was found unmet
    progress,   \* made_progress
    cache,      \* status_cache of this pass
    deadlines,  \* unresolved_deadlines of this pass
    latched,    \* satisfied_dependencies
    waiting,    \* waiting_dependencies: those announced as waiting
    startedAt,  \* started_at
    launchedAt  \* child_started_at

control == <<phase, error, clock, delay>>
backends == <<running, live, stops>>
pass == <<tour, child, todo, eligible, progress, cache, deadlines>>
startup == <<deps, pending, latched, waiting, startedAt, launchedAt>>
vars == <<control, backends, pass, startup>>

Ended == {"returned", "failed", "interrupted"}

Init ==
    /\ deps \in Plans
    /\ phase = "scopes" /\ error = "none" /\ clock = 0 /\ delay = 0
    /\ running = <<>> /\ live = {} /\ stops = <<>>
    /\ pending = Children
    /\ tour = {} /\ child = None /\ todo = {} /\ eligible = FALSE
    /\ progress = FALSE
    /\ cache = [c \in Children |-> None] /\ deadlines = {}
    /\ latched = {} /\ waiting = {}
    /\ startedAt = [c \in Children |-> None] /\ launchedAt = 0

-----------------------------------------------------------------------------
(* Helpers.                                                                *)

\* A backend or sink call takes some of the delay left.
TimePasses ==
    \E dt \in 0..(MaxDelay - delay) :
        /\ clock' = clock + dt
        /\ delay' = delay + dt

\* An Exception reaches the handler that rolls back.
Raise(code) ==
    /\ phase' = "rollback"
    /\ error' = code

\* Start the next pass of `while pending`: snapshot and fresh accumulators.
NewPass ==
    /\ tour' = pending
    /\ child' = None /\ todo' = {} /\ eligible' = FALSE
    /\ progress' = FALSE
    /\ cache' = [c \in Children |-> None]
    /\ deadlines' = {}

Deadline(d) == startedAt[d.requires] + d.timeout

\* _dependency_condition_satisfied, in the order of its checks.
Verdict(d, st) ==
    IF st.state = "failed" THEN "ORCH302"
    ELSE IF ~st.supported THEN "ORCH304"
    ELSE IF st.health = "unhealthy" THEN "ORCH303"
    ELSE IF \/ d.condition = "ready" /\ st.ready
            \/ d.condition = "healthy" /\ st.health = "healthy"
         THEN "satisfied"
    ELSE IF st.state \in TerminalStates THEN "ORCH302"
    ELSE "unmet"

\* The dependency examined next: the todo entry of the lowest ordinal.
NextDependency(d) ==
    /\ phase = "schedule" /\ child # None
    /\ d \in todo
    /\ \A e \in todo : d.ordinal <= e.ordinal

-----------------------------------------------------------------------------
(* Direct scopes.                                                          *)

StartScope ==
    /\ phase = "scopes" /\ Len(running) < Len(Scopes)
    /\ LET s == Scopes[Len(running) + 1] IN
        /\ running' = Append(running, s)
        /\ live' = live \cup {s}
    /\ TimePasses
    /\ UNCHANGED <<phase, error, stops, pass, startup>>

\* Mutant: a failed start reports the code of a failed prepare.
ScopeStartFailsAsPrepare ==
    /\ phase = "scopes" /\ Len(running) < Len(Scopes)
    /\ Raise("ORCH201")
    /\ TimePasses
    /\ UNCHANGED <<backends, pass, startup>>

ScopeStartFails ==
    /\ phase = "scopes" /\ Len(running) < Len(Scopes)
    /\ Raise("ORCH202")
    /\ TimePasses
    /\ UNCHANGED <<backends, pass, startup>>

BeginScheduling ==
    /\ phase = "scopes" /\ Len(running) = Len(Scopes)
    /\ phase' = "schedule"
    /\ NewPass
    /\ UNCHANGED <<error, clock, delay, backends, startup>>

-----------------------------------------------------------------------------
(* One pass over the pending children.                                     *)

PickChild(c) ==
    /\ phase = "schedule" /\ child = None
    /\ c \in tour
    /\ \A o \in tour : Rank[c] <= Rank[o]
    /\ tour' = tour \ {c}
    /\ child' = c
    /\ todo' = {d \in deps : d.system = c} \ latched
    /\ eligible' = TRUE
    /\ UNCHANGED <<control, backends, progress, cache, deadlines, startup>>

\* Mutant: a prerequisite that has not started does not hold the child back.
PrerequisiteIgnored(d) ==
    /\ NextDependency(d)
    /\ d.requires \in pending
    /\ todo' = todo \ {d}
    /\ UNCHANGED <<control, backends, tour, child, eligible, progress, cache,
                   deadlines, startup>>

PrerequisiteNotRunning(d) ==
    /\ NextDependency(d)
    /\ d.requires \in pending
    /\ eligible' = FALSE
    /\ todo' = todo \ {d}
    /\ UNCHANGED <<control, backends, tour, child, progress, cache,
                   deadlines, startup>>

\* Condition `started`: no inspection, only the deadline.
LatchStarted(d) ==
    /\ NextDependency(d)
    /\ d.requires \notin pending /\ d.condition = "started"
    /\ TimePasses
    /\ clock' <= Deadline(d)
    /\ latched' = latched \cup {d}
    /\ todo' = todo \ {d}
    /\ UNCHANGED <<phase, error, backends, tour, child, eligible, progress,
                   cache, deadlines, deps, pending, waiting, startedAt,
                   launchedAt>>

\* Conditions `ready` and `healthy`: the status of this pass, inspected at
\* most once per prerequisite.
Inspected(d, st) ==
    LET seen == cache[d.requires] IN
    /\ st \in (IF seen = None THEN Statuses ELSE {seen})
    /\ cache' = [cache EXCEPT ![d.requires] = st]

\* Mutant: the deadline is not compared with the time of the observation.
LatchObservedLate(d, st) ==
    /\ NextDependency(d)
    /\ d.requires \notin pending /\ d.condition # "started"
    /\ Inspected(d, st)
    /\ TimePasses
    /\ Verdict(d, st) = "satisfied"
    /\ latched' = latched \cup {d}
    /\ todo' = todo \ {d}
    /\ UNCHANGED <<phase, error, backends, tour, child, eligible, progress,
                   deadlines, deps, pending, waiting, startedAt, launchedAt>>

LatchObserved(d, st) ==
    /\ NextDependency(d)
    /\ d.requires \notin pending /\ d.condition # "started"
    /\ Inspected(d, st)
    /\ TimePasses
    /\ clock' <= Deadline(d)
    /\ Verdict(d, st) = "satisfied"
    /\ latched' = latched \cup {d}
    /\ todo' = todo \ {d}
    /\ UNCHANGED <<phase, error, backends, tour, child, eligible, progress,
                   deadlines, deps, pending, waiting, startedAt, launchedAt>>

\* Mutant: the deadline is recorded only when the wait is announced.
DependencyUnmetOnce(d, st) ==
    /\ NextDependency(d)
    /\ d.requires \notin pending /\ d.condition # "started"
    /\ Inspected(d, st)
    /\ TimePasses
    /\ clock' < Deadline(d)
    /\ Verdict(d, st) = "unmet"
    /\ eligible' = FALSE
    /\ waiting' = waiting \cup {d}
    /\ deadlines' = IF d \in waiting THEN deadlines
                    ELSE deadlines \cup {Deadline(d)}
    /\ todo' = todo \ {d}
    /\ UNCHANGED <<phase, error, backends, tour, child, progress, deps,
                   pending, latched, startedAt, launchedAt>>

DependencyUnmet(d, st) ==
    /\ NextDependency(d)
    /\ d.requires \notin pending /\ d.condition # "started"
    /\ Inspected(d, st)
    /\ TimePasses
    /\ clock' < Deadline(d)
    /\ Verdict(d, st) = "unmet"
    /\ eligible' = FALSE
    /\ waiting' = waiting \cup {d}
    /\ deadlines' = deadlines \cup {Deadline(d)}
    /\ todo' = todo \ {d}
    /\ UNCHANGED <<phase, error, backends, tour, child, progress, deps,
                   pending, latched, startedAt, launchedAt>>

DependencyTimesOut(d) ==
    /\ NextDependency(d)
    /\ d.requires \notin pending
    /\ TimePasses
    /\ \/ /\ clock' > Deadline(d)
          /\ d.condition = "started"
          /\ UNCHANGED cache
       \/ /\ d.condition # "started"
          /\ \E st \in Statuses :
                /\ Inspected(d, st)
                /\ \/ clock' > Deadline(d)
                   \/ clock' = Deadline(d) /\ Verdict(d, st) = "unmet"
    /\ Raise("ORCH301")
    /\ UNCHANGED <<backends, tour, child, todo, eligible, progress,
                   deadlines, startup>>

DependencyFails(d, st) ==
    /\ NextDependency(d)
    /\ d.requires \notin pending /\ d.condition # "started"
    /\ Inspected(d, st)
    /\ TimePasses
    /\ clock' <= Deadline(d)
    /\ Verdict(d, st) \in {"ORCH302", "ORCH303", "ORCH304"}
    /\ Raise(Verdict(d, st))
    /\ UNCHANGED <<backends, tour, child, todo, eligible, progress,
                   deadlines, startup>>

\* startup_event_sink raises while a dependency is announced (a dependency is
\* announced as waiting only once).  The handler wraps what is not an
\* OrchestrationError as ORCH305; "sink" tells it from CannotProgress.
DependencyEventFails(d) ==
    /\ NextDependency(d)
    /\ d.requires \notin pending
    /\ TimePasses
    /\ \/ d.condition = "started" /\ UNCHANGED cache
       \/ /\ d.condition # "started"
          /\ \E st \in Statuses :
                /\ Inspected(d, st)
                /\ \/ d \notin waiting
                   \/ clock' >= Deadline(d)
                   \/ Verdict(d, st) # "unmet"
    /\ Raise("sink")
    /\ UNCHANGED <<backends, tour, child, todo, eligible, progress,
                   deadlines, startup>>

\* Mutant: the pass ends at the first child that is not eligible.
SkipChildAndBreak ==
    /\ phase = "schedule" /\ child # None /\ todo = {} /\ ~eligible
    /\ child' = None
    /\ tour' = {}
    /\ UNCHANGED <<control, backends, todo, eligible, progress, cache,
                   deadlines, startup>>

SkipChild ==
    /\ phase = "schedule" /\ child # None /\ todo = {} /\ ~eligible
    /\ child' = None
    /\ UNCHANGED <<control, backends, tour, todo, eligible, progress, cache,
                   deadlines, startup>>

-----------------------------------------------------------------------------
(* Starting a child.                                                       *)

\* child_started_at is read before the child's own start is called.
LaunchChild ==
    /\ phase = "schedule" /\ child # None /\ todo = {} /\ eligible
    /\ phase' = "launching"
    /\ launchedAt' = clock
    /\ live' = live \cup {child}
    /\ UNCHANGED <<error, clock, delay, running, stops, pass, deps,
                   pending, latched, waiting, startedAt>>

\* The child's start returns a handle and CHILD_STARTED is delivered.
ChildStarted ==
    /\ phase = "launching"
    /\ TimePasses
    /\ running' = Append(running, child)
    /\ startedAt' = [startedAt EXCEPT ![child] = launchedAt]
    /\ pending' = pending \ {child}
    /\ progress' = TRUE
    /\ child' = None
    /\ phase' = "schedule"
    /\ UNCHANGED <<error, live, stops, tour, todo, eligible, cache,
                   deadlines, deps, latched, waiting, launchedAt>>

\* Mutant: the event is emitted before the child joins running_systems.
ChildEventFailsFirst ==
    /\ phase = "launching"
    /\ TimePasses
    /\ Raise("sink")
    /\ UNCHANGED <<backends, pass, startup>>

\* The sink raises on CHILD_STARTED: the child is in running_systems already.
ChildEventFails ==
    /\ phase = "launching"
    /\ TimePasses
    /\ running' = Append(running, child)
    /\ Raise("sink")
    /\ UNCHANGED <<live, stops, pass, startup>>

\* Mutant: the failure of a child's start is swallowed.
ChildStartSwallowed ==
    /\ phase = "launching"
    /\ TimePasses
    /\ live' \in {live, live \ {child}}
    /\ startedAt' = [startedAt EXCEPT ![child] = launchedAt]
    /\ pending' = pending \ {child}
    /\ progress' = TRUE
    /\ child' = None
    /\ phase' = "schedule"
    /\ UNCHANGED <<error, running, stops, tour, todo, eligible, cache,
                   deadlines, deps, latched, waiting, launchedAt>>

\* The child's start raises after its own rollback, whose stop may fail too.
ChildStartFails ==
    /\ phase = "launching"
    /\ TimePasses
    /\ live' \in {live, live \ {child}}
    /\ Raise("ORCH204")
    /\ UNCHANGED <<running, stops, pass, startup>>

-----------------------------------------------------------------------------
(* The end of a pass.                                                      *)

PassOver == phase = "schedule" /\ child = None /\ tour = {}

StartReturns ==
    /\ PassOver /\ pending = {}
    /\ phase' = "returned"
    /\ UNCHANGED <<error, clock, delay, backends, pass, startup>>

NextPass ==
    /\ PassOver /\ pending # {} /\ progress
    /\ NewPass
    /\ UNCHANGED <<control, backends, startup>>

CannotProgress ==
    /\ PassOver /\ pending # {} /\ ~progress /\ deadlines = {}
    /\ Raise("ORCH305")
    /\ UNCHANGED <<clock, delay, backends, pass, startup>>

\* Mutant: the remaining time is computed with the wrong sign.
WaitNeverSleeps ==
    /\ PassOver /\ pending # {} /\ ~progress
    /\ \E nearest \in deadlines :
        /\ \A t \in deadlines : nearest <= t
        /\ clock' = IF clock - nearest <= 0 THEN clock ELSE clock + PollInterval
    /\ NewPass
    /\ UNCHANGED <<phase, error, delay, backends, startup>>

\* Sleep for the poll interval, or less when a deadline is nearer.
WaitForDependencies ==
    /\ PassOver /\ pending # {} /\ ~progress
    /\ \E nearest \in deadlines :
        /\ \A t \in deadlines : nearest <= t
        /\ clock' = IF nearest - clock <= 0 THEN clock
                    ELSE IF nearest - clock < PollInterval THEN nearest
                    ELSE clock + PollInterval
    /\ NewPass
    /\ UNCHANGED <<phase, error, delay, backends, startup>>

-----------------------------------------------------------------------------
(* Rollback and interruption.                                              *)

\* Children in reverse start order, then scopes in reverse.  A stop may fail
\* or time out and leave the unit executing; the loop goes on.
RollbackStop ==
    /\ phase = "rollback" /\ Len(stops) < Len(running)
    /\ LET u == running[Len(running) - Len(stops)] IN
        /\ stops' = Append(stops, u)
        /\ live' \in {live, live \ {u}}
    /\ UNCHANGED <<control, running, pass, startup>>

StartFails ==
    /\ phase = "rollback" /\ Len(stops) = Len(running)
    /\ phase' = "failed"
    /\ UNCHANGED <<error, clock, delay, backends, pass, startup>>

\* KeyboardInterrupt is not an Exception: no handler runs.
Interrupt ==
    /\ phase \notin Ended
    /\ phase' = "interrupted"
    /\ UNCHANGED <<error, clock, delay, backends, pass, startup>>

-----------------------------------------------------------------------------
ExamineDependency(d) ==
    \/ PrerequisiteNotRunning(d)
    \/ LatchStarted(d)
    \/ \E st \in Statuses :
        \/ LatchObserved(d, st)
        \/ DependencyUnmet(d, st)
        \/ DependencyFails(d, st)
    \/ DependencyTimesOut(d)
    \/ DependencyEventFails(d)

Step ==
    \/ StartScope \/ ScopeStartFails \/ BeginScheduling
    \/ \E c \in Children : PickChild(c)
    \/ \E d \in deps : ExamineDependency(d)
    \/ SkipChild
    \/ LaunchChild \/ ChildStarted \/ ChildEventFails \/ ChildStartFails
    \/ StartReturns \/ NextPass \/ CannotProgress \/ WaitForDependencies
    \/ RollbackStop \/ StartFails

Next == Step \/ Interrupt

Spec == Init /\ [][Next]_vars
\* The call runs on one thread that is always scheduled.
FairSpec == Spec /\ WF_vars(Step)

-----------------------------------------------------------------------------
(* Properties.                                                             *)

Codes == {"none", "ORCH202", "ORCH204", "ORCH301", "ORCH302", "ORCH303",
          "ORCH304", "ORCH305", "sink"}

\* The shape of the state of one start call.
TypeOK ==
    /\ deps \in Plans
    /\ phase \in {"scopes", "schedule", "launching", "rollback"} \cup Ended
    /\ error \in Codes
    /\ clock \in Nat /\ delay \in 0..MaxDelay
    /\ running \in Seq(Units) /\ stops \in Seq(Units)
    /\ live \subseteq Units
    /\ pending \subseteq Children /\ tour \subseteq Children
    /\ child \in Children \cup {None}
    /\ todo \subseteq deps /\ latched \subseteq deps /\ waiting \subseteq deps
    /\ eligible \in BOOLEAN /\ progress \in BOOLEAN
    /\ cache \in [Children -> Statuses \cup {None}]
    /\ deadlines \subseteq Nat
    /\ startedAt \in [Children -> Nat \cup {None}]
    /\ launchedAt \in Nat

HasStarted(c) == \E i \in 1..Len(running) : running[i] = c

\* A child is launched only after every one of its dependencies has been
\* satisfied, and after the prerequisite it names has returned its handle:
\* the scheduler never runs ahead of the compiled topology, whatever the
\* passes, the cached statuses and the timing were.
DependenciesFirst ==
    \A d \in deps :
        /\ phase = "launching" /\ child = d.system =>
              d \in latched /\ HasStarted(d.requires)
        /\ \A i \in 1..Len(running) : running[i] = d.system =>
              /\ d \in latched
              /\ \E j \in 1..(i - 1) : running[j] = d.requires

\* A dependency is latched as satisfied only by a reading of the clock that
\* is not past its deadline, which counts from the moment the prerequisite's
\* start was invoked.
LatchInTime ==
    [][\A d \in latched' \ latched :
          /\ startedAt[d.requires] # None
          /\ clock' <= startedAt[d.requires] + d.timeout]_vars

\* The scheduler sleeps only when every pending child has a dependency that
\* is really unmet: its prerequisite is not running, or was inspected in this
\* very pass and found wanting.  An independent branch never waits for an
\* unrelated one.
WaitsOnlyForUnmet ==
    PassOver /\ ~progress =>
        \A c \in pending : \E d \in deps \ latched :
            /\ d.system = c
            /\ \/ d.requires \in pending
               \/ /\ cache[d.requires] # None
                  /\ Verdict(d, cache[d.requires]) = "unmet"

\* A plan whose order puts prerequisites before dependents, as the planner
\* compiles it, never dead-ends: the scheduler always has a child to start or
\* a deadline to wait for.  ORCH305 is raised for cyclic plans only.
Ordered == \A d \in deps : Rank[d.requires] < Rank[d.system]
TopologyProgresses == error = "ORCH305" => ~Ordered

\* Rollback calls stop on exactly the units that had returned a handle, each
\* once, in reverse start order; when start has raised, whatever is still
\* executing has been asked to stop, except a child whose own start failed
\* and which rolled itself back.
RollbackComplete ==
    /\ Len(stops) <= Len(running)
    /\ \A i \in 1..Len(stops) : stops[i] = running[Len(running) + 1 - i]
    /\ phase = "failed" =>
          /\ Len(stops) = Len(running)
          /\ \A u \in live : HasStarted(u) \/ (error = "ORCH204" /\ u = child)

\* The handle start returns owns every scope and every child exactly once, all
\* of them executing, and nothing has been stopped.
HandleOwnsEverything ==
    phase = "returned" =>
        /\ live = Units /\ stops = <<>>
        /\ \A u \in Units : HasStarted(u)
        /\ \A i, j \in 1..Len(running) : running[i] = running[j] => i = j

\* Whatever start has started has an owner: the handle, if it returns, and
\* otherwise the rollback, which has asked it to stop.
NothingUnowned == RollbackComplete /\ HandleOwnsEverything

\* Every start call ends: readiness waits are bounded by the deadlines.
StartEnds == <>(phase \in Ended)

\* What the command line says of an interrupted start, "Interrupted before
\* execution started." (cli_system_commands.py): nothing is executing.
InterruptedBeforeStart == phase = "interrupted" => live = {}
=============================================================================
