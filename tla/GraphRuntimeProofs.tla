--------------------------- MODULE GraphRuntimeProofs -------------------------
(***************************************************************************)
(* Theorems about GraphRuntime: the shape of the state, the order in which *)
(* a node processes its messages, and the completeness of a run reported   *)
(* completed, for every graph, join and edge policy, capacity and count.   *)
(***************************************************************************)
EXTENDS GraphRuntime, WellFoundedInduction, TLAPS

\* What a worker has at hand where it needs it.
HandsInv ==
    /\ \A n \in Nodes : worker[n] = "receive" =>
          /\ Inputs(n) # {}
          /\ \A e \in Inputs(n) \ unread[n] : held[n][e] # None
    /\ \A n \in Nodes : worker[n] = "publish" => out[n] # None

ShapeInv == TypeOK /\ HandsInv

-----------------------------------------------------------------------------
(* The graph.                                                              *)

LEMMA ConfigFacts ==
  ASSUME TypeOK
  PROVE  /\ config.edges \subseteq Edges
         /\ config.policy \in [Edges -> EdgePolicies]
         /\ config.sync \in JoinPolicies
         /\ config.tolerance \in Nat
         /\ config.trigger \subseteq Edges
         /\ config.failure \in [Nodes -> FailurePolicies]
         /\ \A e \in config.edges : e[1] \in Nodes /\ e[2] \in Nodes
         /\ \A n \in Nodes : Inputs(n) \subseteq config.edges
                             /\ Outputs(n) \subseteq config.edges
<1>1. config \in Config BY GraphAssumption DEF TypeOK
<1> QED BY <1>1 DEF Config, Edges, Inputs, Outputs

LEMMA Bounds == /\ Capacity \in Nat \ {0} /\ Count \in Nat
                /\ None \notin Nat /\ None \notin Nodes /\ None # "runtime"
                /\ \A n \in Nodes : Rank[n] \in Nat
  BY GraphAssumption

LEMMA HeadIsElement ==
  ASSUME NEW S, NEW q \in Seq(S), q # <<>> PROVE Head(q) \in S
  OBVIOUS

LEMMA IsElement ==
  ASSUME NEW S, NEW q \in Seq(S), NEW i \in 1..Len(q) PROVE q[i] \in S
  OBVIOUS

\* Among the inputs of a node there is a first one.
LEMMA FirstExists ==
  ASSUME TypeOK, NEW n \in Nodes, Inputs(n) # {}
  PROVE  \E e \in Inputs(n) : First(Inputs(n), e)
<1> DEFINE R == {ss \in Nat \X Nat : ss[1] < ss[2]}
           T == {Rank[e[1]] : e \in Inputs(n)}
<1>1. T \subseteq Nat /\ T # {} BY ConfigFacts, Bounds
<1>2. IsWellFoundedOn(R, Nat) BY NatLessThanWellFounded, Zenon DEF OpToRel
<1>3. \A x, y \in Nat : x < y => <<x, y>> \in R OBVIOUS
<1> HIDE DEF R, T
<1>4. \E x \in T : \A y \in T : ~(<<y, x>> \in R)
  BY <1>1, <1>2, WFMin, Zenon
<1>5. PICK x \in T : \A y \in T : ~(<<y, x>> \in R) BY <1>4
<1>6. ASSUME NEW y \in T PROVE x <= y
  <2>1. x \in Nat /\ y \in Nat BY <1>1
  <2>2. ~(y < x) BY <1>3, <1>5, <2>1, Zenon
  <2> QED BY <2>1, <2>2
<1>7. PICK e \in Inputs(n) : \A f \in Inputs(n) : Rank[e[1]] <= Rank[f[1]]
  BY <1>5, <1>6 DEF T
<1>8. \A f \in Inputs(n) : f[2] = n /\ Rank[f[2]] \in Nat
  BY ConfigFacts, Bounds DEF Inputs
<1>9. \A f \in Inputs(n) : Rank[e[2]] <= Rank[f[2]] BY <1>8
<1> QED BY <1>7, <1>9 DEF First

LEMMA TriggerExists ==
  ASSUME TypeOK, NEW n \in Nodes, Inputs(n) # {}
  PROVE  Trigger(n) \in Inputs(n)
<1>1. \E e \in Inputs(n) : IF Inputs(n) \cap config.trigger = {}
                           THEN First(Inputs(n), e) ELSE e \in config.trigger
  BY FirstExists
<1> QED BY <1>1, Zenon DEF Trigger

-----------------------------------------------------------------------------
(* The shape of the state.                                                 *)

\* A worker comes to its end: it publishes EOS, or is done at once.
Ending(n) ==
    /\ worker' = [worker EXCEPT ![n] = worker'[n]]
    /\ worker'[n] \in {"eos", "done"}
    /\ todo' = [todo EXCEPT ![n] = todo'[n]]
    /\ todo'[n] \in {todo[n], Outputs(n), {}}

LEMMA BeginEosEnds ==
  ASSUME TypeOK, NEW n \in Nodes, BeginEos(n) PROVE Ending(n)
  BY DEF BeginEos, GoTo, Ending, TypeOK

\* What remains of the control variables and of the history.
ControlTypes ==
    /\ start \in BOOLEAN /\ stop \in BOOLEAN
    /\ error \in Nodes \cup {"runtime", None}
    /\ isolated \subseteq Nodes

LEMMA EscapeEnds ==
  ASSUME TypeOK, NEW n \in Nodes, Escape(n) PROVE Ending(n) /\ ControlTypes'
<1>1. CASE config.failure[n] = "isolate"
  BY <1>1, BeginEosEnds DEF Escape, TypeOK, ControlTypes, control
<1>2. CASE config.failure[n] # "isolate"
  BY <1>2 DEF Escape, RecordError, StopEverything, GoTo, Ending, TypeOK,
              ControlTypes
<1> QED BY <1>1, <1>2

LEMMA EndingTypes ==
  ASSUME TypeOK, NEW n \in Nodes, Ending(n), UNCHANGED config
  PROVE  /\ worker' \in [Nodes -> {"starting", "ready", "head", "receive",
                                   "publish", "eos", "done"}]
         /\ todo' \in [Nodes -> SUBSET config.edges]
         /\ \A m \in Nodes : todo'[m] \subseteq Outputs(m)'
         /\ \A m \in Nodes : worker'[m] \in {worker[m], "eos", "done"}
<1>1. Outputs(n) \subseteq config.edges BY ConfigFacts
<1>2. /\ todo'[n] \subseteq Outputs(n) /\ worker'[n] \in {"eos", "done"}
      /\ \A m \in Nodes : m # n => todo'[m] = todo[m] /\ worker'[m] = worker[m]
      /\ DOMAIN todo' = Nodes /\ DOMAIN worker' = Nodes
  BY DEF Ending, TypeOK
<1>3. \A m \in Nodes : Outputs(m)' = Outputs(m) BY DEF Outputs
<1>4. ASSUME NEW m \in Nodes PROVE todo'[m] \subseteq Outputs(m)'
  <2>1. Outputs(m)' = Outputs(m) BY <1>3
  <2>2. todo[m] \subseteq Outputs(m) BY DEF TypeOK
  <2> QED BY <1>2, <2>1, <2>2
<1>5. todo' \in [Nodes -> SUBSET config.edges]
  BY <1>1, <1>2 DEF Ending, TypeOK
<1>6. worker' \in [Nodes -> {"starting", "ready", "head", "receive",
                             "publish", "eos", "done"}]
  BY <1>2 DEF Ending, TypeOK
<1> QED BY <1>2, <1>4, <1>5, <1>6

\* Dropping what is held.
LEMMA UnheldTypes ==
  ASSUME TypeOK, NEW n \in Nodes, held' = Unheld(n), UNCHANGED config
  PROVE  /\ DOMAIN held' = Nodes
         /\ \A m \in Nodes : held'[m] \in [Inputs(m)' -> (1..Count) \cup {None}]
         /\ \A m \in Nodes : m # n => held'[m] = held[m]
         /\ \A e \in Inputs(n) : held'[n][e] = None
<1>1. \A m \in Nodes : Inputs(m)' = Inputs(m) BY DEF Inputs
<1>2. /\ DOMAIN held' = Nodes
      /\ \A m \in Nodes : m # n => held'[m] = held[m]
      /\ held'[n] = [e \in Inputs(n) |-> None]
  BY DEF Unheld, TypeOK
<1>3. held'[n] \in [Inputs(n) -> (1..Count) \cup {None}] BY <1>2
<1> QED BY <1>1, <1>2, <1>3 DEF TypeOK

\* Taking an item from an edge.
QueueTypes == /\ queue \in [config.edges -> Seq(Item)]
              /\ \A e \in config.edges : Len(queue[e]) <= Capacity

LEMMA TakeTypes ==
  ASSUME TypeOK, NEW e \in config.edges, queue[e] # <<>>, UNCHANGED config,
         queue' = [queue EXCEPT ![e] = Tail(@)]
  PROVE  QueueTypes'
<1>1. queue[e] \in Seq(Item) /\ Len(queue[e]) <= Capacity BY DEF TypeOK
<1>2. Tail(queue[e]) \in Seq(Item) /\ Len(Tail(queue[e])) <= Capacity
  BY <1>1, Bounds
<1> QED BY <1>2 DEF TypeOK, QueueTypes

\* The steps at which a worker ends, with all else of the flow as it is but for
\* its hands and the edge it read last.
LEMMA ShapeEndingTaking ==
  ASSUME ShapeInv, NEW n \in Nodes, Ending(n), ControlTypes', QueueTypes',
         held' = held \/ held' = Unheld(n),
         out' = out \/ out' = [out EXCEPT ![n] = None],
         UNCHANGED <<config, unread, produced, seen, fallback, main, requested>>
  PROVE  ShapeInv'
<1>1. TypeOK BY DEF ShapeInv
<1>2. \A m \in Nodes : Inputs(m)' = Inputs(m) BY DEF Inputs
<1>3. /\ DOMAIN held' = Nodes
      /\ \A m \in Nodes : held'[m] \in [Inputs(m)' -> (1..Count) \cup {None}]
      /\ \A m \in Nodes : m # n => held'[m] = held[m]
  <2>1. CASE held' = held BY <1>1, <1>2, <2>1 DEF TypeOK
  <2>2. CASE held' = Unheld(n) BY <1>1, <1>2, <2>2, UnheldTypes
  <2> QED BY <2>1, <2>2
<1>4. out' \in [Nodes -> (1..Count) \cup {None}]
      /\ \A m \in Nodes : m # n => out'[m] = out[m]
  BY <1>1 DEF TypeOK
<1>5. TypeOK'
  BY <1>1, <1>2, <1>3, <1>4, EndingTypes DEF TypeOK, ControlTypes, QueueTypes
<1>6. HandsInv'
  <2>1. \A m \in Nodes : m # n => worker'[m] = worker[m]
    BY <1>1 DEF Ending, TypeOK
  <2>2. worker'[n] \notin {"receive", "publish"} BY DEF Ending
  <2> QED BY <1>2, <1>3, <1>4, <2>1, <2>2 DEF ShapeInv, HandsInv
<1> QED BY <1>5, <1>6 DEF ShapeInv

LEMMA ShapeEnding ==
  ASSUME ShapeInv, NEW n \in Nodes, Ending(n), ControlTypes',
         held' = held \/ held' = Unheld(n),
         out' = out \/ out' = [out EXCEPT ![n] = None],
         UNCHANGED <<config, queue, unread, produced, seen, fallback, main,
                     requested>>
  PROVE  ShapeInv'
<1>1. QueueTypes' BY DEF ShapeInv, TypeOK, QueueTypes
<1> QED BY <1>1, ShapeEndingTaking

\* A worker goes elsewhere, or the control or the history changes.
LEMMA ShapeElsewhere ==
  ASSUME ShapeInv, ControlTypes', UNCHANGED <<config, flow>>,
         worker' \in [Nodes -> {"starting", "ready", "head", "receive",
                                "publish", "eos", "done"}],
         \A n \in Nodes : worker'[n] \in {"receive", "publish"} =>
                              worker'[n] = worker[n],
         fallback' \in [Nodes -> BOOLEAN], requested' \in BOOLEAN,
         main' \in {"readiness", "running", "draining", "joining", "ended"}
  PROVE  ShapeInv'
<1>1. TypeOK'
  BY DEF ShapeInv, TypeOK, ControlTypes, flow, Inputs, Outputs
<1>2. HandsInv'
  BY DEF ShapeInv, HandsInv, flow, Inputs
<1> QED BY <1>1, <1>2 DEF ShapeInv

LEMMA ControlKept == ASSUME TypeOK, UNCHANGED <<control, isolated>>
                     PROVE ControlTypes'
  BY DEF TypeOK, ControlTypes, control

LEMMA ErrorTypes ==
  ASSUME TypeOK, NEW who \in Nodes \cup {"runtime"}, RecordError(who),
         UNCHANGED isolated
  PROVE  ControlTypes'
  BY DEF TypeOK, ControlTypes, RecordError, StopEverything

\* A step of one worker that only moves it.
LEMMA ShapeMove ==
  ASSUME ShapeInv, NEW n \in Nodes, NEW place \in {"ready", "head", "done"},
         GoTo(n, place),
         UNCHANGED <<config, flow, control, fallback, main, requested, isolated>>
  PROVE  ShapeInv'
<1>1. TypeOK BY DEF ShapeInv
<1>2. ControlTypes' BY <1>1, ControlKept
<1>3. worker' \in [Nodes -> {"starting", "ready", "head", "receive",
                             "publish", "eos", "done"}]
  BY <1>1 DEF GoTo, TypeOK
<1>4. \A m \in Nodes : worker'[m] \in {"receive", "publish"} =>
                           worker'[m] = worker[m]
  BY <1>1 DEF GoTo, TypeOK
<1> QED BY <1>1, <1>2, <1>3, <1>4, ShapeElsewhere DEF TypeOK

LEMMA ShapeMain ==
  ASSUME ShapeInv,
         \/ MainStarts \/ MainSetsDeadline \/ MainEnds
         \/ DeadlinePasses \/ JoinGivesUp \/ RequestStop
         \/ \E n \in Nodes : WatchdogStops(n)
  PROVE  ShapeInv'
<1>1. TypeOK BY DEF ShapeInv
<1>2. /\ UNCHANGED <<config, flow, worker, fallback>> /\ requested' \in BOOLEAN
      /\ main' \in {"readiness", "running", "draining", "joining", "ended"}
  BY <1>1 DEF MainStarts, MainSetsDeadline, MainEnds, DeadlinePasses,
              JoinGivesUp, RequestStop, WatchdogStops, TypeOK
<1>3. ControlTypes'
  <2>1. CASE MainStarts \/ MainEnds \/ RequestStop
    BY <1>1, <2>1 DEF MainStarts, MainEnds, RequestStop, StopEverything,
                      ControlTypes, TypeOK
  <2>2. CASE MainSetsDeadline \/ JoinGivesUp
    BY <1>1, <2>2, ControlKept DEF MainSetsDeadline, JoinGivesUp
  <2>3. CASE DeadlinePasses \/ \E n \in Nodes : WatchdogStops(n)
    BY <1>1, <2>3, ErrorTypes DEF DeadlinePasses, WatchdogStops
  <2> QED BY <2>1, <2>2, <2>3
<1> QED BY <1>1, <1>2, <1>3, ShapeElsewhere DEF TypeOK

\* Starting to publish a number, once the hands are as they should be.
LEMMA ShapePublishing ==
  ASSUME ShapeInv, NEW n \in Nodes, NEW k \in 1..Count, BeginPublish(n, k),
         UNCHANGED <<config, queue, unread, control, fallback, main, requested,
                     isolated>>,
         held' = held \/ held' = Unheld(n),
         produced' \in [Nodes -> 0..Count], seen' \in [Nodes -> Seq(1..Count)]
  PROVE  ShapeInv'
<1>1. TypeOK BY DEF ShapeInv
<1>2. \A m \in Nodes : Inputs(m)' = Inputs(m) /\ Outputs(m)' = Outputs(m)
  BY DEF Inputs, Outputs
<1>3. /\ DOMAIN held' = Nodes
      /\ \A m \in Nodes : held'[m] \in [Inputs(m)' -> (1..Count) \cup {None}]
      /\ \A m \in Nodes : m # n => held'[m] = held[m]
  <2>1. CASE held' = held BY <1>1, <1>2, <2>1 DEF TypeOK
  <2>2. CASE held' = Unheld(n) BY <1>1, <1>2, <2>2, UnheldTypes
  <2> QED BY <2>1, <2>2
<1>4. /\ worker' \in [Nodes -> {"starting", "ready", "head", "receive",
                                "publish", "eos", "done"}]
      /\ \A m \in Nodes : m # n => worker'[m] = worker[m]
      /\ worker'[n] \in {"head", "publish"}
  BY <1>1 DEF BeginPublish, GoTo, TypeOK
<1>5. /\ out' \in [Nodes -> (1..Count) \cup {None}]
      /\ \A m \in Nodes : m # n => out'[m] = out[m]
      /\ worker'[n] = "publish" => out'[n] # None
  <2>1. k # None BY Bounds
  <2>2. CASE Outputs(n) = {} BY <1>1, <2>2 DEF BeginPublish, GoTo, TypeOK
  <2>3. CASE Outputs(n) # {}
    <3>1. out' = [out EXCEPT ![n] = k] BY <2>3 DEF BeginPublish
    <3> QED BY <1>1, <2>1, <3>1 DEF TypeOK
  <2> QED BY <2>2, <2>3
<1>6. /\ todo' \in [Nodes -> SUBSET config.edges]
      /\ \A m \in Nodes : todo'[m] \subseteq Outputs(m)
  <2>1. CASE Outputs(n) = {} BY <1>1, <2>1 DEF BeginPublish, TypeOK
  <2>2. CASE Outputs(n) # {}
    <3>1. todo' = [todo EXCEPT ![n] = Outputs(n)]
      BY <2>2 DEF BeginPublish
    <3> QED BY <1>1, <3>1, ConfigFacts DEF TypeOK
  <2> QED BY <2>1, <2>2
<1>7. TypeOK'
  BY <1>1, <1>2, <1>3, <1>4, <1>5, <1>6 DEF TypeOK, control
<1>8. HandsInv'
  <2> SUFFICES ASSUME NEW m \in Nodes
               PROVE  /\ worker'[m] = "receive" =>
                            /\ Inputs(m)' # {}
                            /\ \A e \in Inputs(m)' \ unread'[m] :
                                  held'[m][e] # None
                      /\ worker'[m] = "publish" => out'[m] # None
    BY DEF HandsInv
  <2>1. CASE m = n BY <1>4, <1>5, <2>1
  <2>2. CASE m # n
    <3>1. /\ worker'[m] = worker[m] /\ held'[m] = held[m] /\ out'[m] = out[m]
          /\ Inputs(m)' = Inputs(m) /\ unread'[m] = unread[m]
      BY <1>2, <1>3, <1>4, <1>5, <2>2
    <3> QED BY <3>1 DEF ShapeInv, HandsInv
  <2> QED BY <2>1, <2>2
<1> QED BY <1>7, <1>8 DEF ShapeInv

\* Reading one input: what changes is the hands of the reader and the edge.
LEMMA ShapeReading ==
  ASSUME ShapeInv, NEW n \in Nodes, worker[n] = "receive",
         NEW e \in config.edges, NEW item \in (1..Count) \cup {None},
         queue' = queue \/ (queue[e] # <<>>
                            /\ queue' = [queue EXCEPT ![e] = Tail(@)]),
         NEW left \in SUBSET Inputs(n), unread' = [unread EXCEPT ![n] = left],
         e \in Inputs(n), held' = [held EXCEPT ![n][e] = item] \/ held' = held,
         \A f \in Inputs(n) \ left : held'[n][f] # None,
         UNCHANGED <<config, worker, out, todo, produced, seen, control,
                     fallback, main, requested, isolated>>
  PROVE  ShapeInv'
<1>1. TypeOK BY DEF ShapeInv
<1>2. \A m \in Nodes : Inputs(m)' = Inputs(m) /\ Outputs(m)' = Outputs(m)
  BY DEF Inputs, Outputs
<1>3. QueueTypes'
  BY <1>1, TakeTypes DEF QueueTypes, TypeOK
<1>4. /\ DOMAIN held' = Nodes
      /\ \A m \in Nodes : held'[m] \in [Inputs(m) -> (1..Count) \cup {None}]
      /\ \A m \in Nodes : m # n => held'[m] = held[m]
  <2>1. CASE held' = held BY <1>1, <2>1 DEF TypeOK
  <2>2. CASE held' = [held EXCEPT ![n][e] = item]
    <3>1. held' = [held EXCEPT ![n] = [held[n] EXCEPT ![e] = item]]
      BY <1>1, <2>2 DEF TypeOK
    <3>2. [held[n] EXCEPT ![e] = item] \in [Inputs(n) -> (1..Count) \cup {None}]
      BY <1>1 DEF TypeOK
    <3> QED BY <1>1, <3>1, <3>2 DEF TypeOK
  <2> QED BY <2>1, <2>2
<1>5. /\ unread' \in [Nodes -> SUBSET config.edges]
      /\ \A m \in Nodes : unread'[m] \subseteq Inputs(m)
      /\ \A m \in Nodes : m # n => unread'[m] = unread[m]
      /\ unread'[n] = left
  BY <1>1, ConfigFacts DEF TypeOK
<1>6. TypeOK'
  BY <1>1, <1>2, <1>3, <1>4, <1>5 DEF TypeOK, QueueTypes, control
<1>7. HandsInv'
  <2> SUFFICES ASSUME NEW m \in Nodes
               PROVE  /\ worker'[m] = "receive" =>
                            /\ Inputs(m)' # {}
                            /\ \A f \in Inputs(m)' \ unread'[m] :
                                  held'[m][f] # None
                      /\ worker'[m] = "publish" => out'[m] # None
    BY DEF HandsInv
  <2>1. CASE m = n BY <1>2, <1>5, <2>1
  <2>2. CASE m # n
    BY <1>2, <1>4, <1>5, <2>2 DEF ShapeInv, HandsInv
  <2> QED BY <2>1, <2>2
<1> QED BY <1>6, <1>7 DEF ShapeInv

LEMMA ShapeReceive ==
  ASSUME ShapeInv, NEW n \in Nodes, NEW e \in config.edges, Receive(n, e)
  PROVE  ShapeInv'
<1>1. TypeOK BY DEF ShapeInv
<1>2. worker[n] = "receive" /\ e \in unread[n] /\ e \in Inputs(n)
  BY <1>1 DEF Receive, NextInput, TypeOK
<1>3. Head(queue[e]) \in 1..Count
  <2>1. queue[e] \in Seq(0..Count) BY <1>1 DEF TypeOK, Item
  <2>2. queue[e] # <<>> /\ Head(queue[e]) # 0 BY DEF Receive, EOS
  <2>3. Head(queue[e]) \in 0..Count BY <2>1, <2>2, HeadIsElement
  <2> QED BY <2>2, <2>3, Bounds
<1>4. PICK left \in SUBSET Inputs(n) :
          /\ unread' = [unread EXCEPT ![n] = left]
          /\ left \in {unread[n], unread[n] \ {e}}
  <2>1. unread[n] \subseteq Inputs(n) BY <1>1 DEF TypeOK
  <2> QED BY <2>1 DEF Receive
<1>5. held' = [held EXCEPT ![n][e] = Head(queue[e])] BY DEF Receive
<1>6. held'[n][e] = Head(queue[e])
      /\ \A f \in Inputs(n) : f # e => held'[n][f] = held[n][f]
  BY <1>1, <1>2, <1>5 DEF TypeOK
<1>7. \A f \in Inputs(n) \ left : held'[n][f] # None
  BY <1>2, <1>3, <1>4, <1>6, Bounds DEF ShapeInv, HandsInv
<1>8. queue[e] # <<>> /\ queue' = [queue EXCEPT ![e] = Tail(@)]
      /\ UNCHANGED <<config, worker, out, todo, produced, seen, control,
                     fallback, main, requested, isolated>>
  BY DEF Receive
<1> QED BY <1>2, <1>3, <1>4, <1>5, <1>7, <1>8, ShapeReading

LEMMA ShapeKeep ==
  ASSUME ShapeInv, NEW n \in Nodes, NEW e \in config.edges, KeepLatest(n, e)
  PROVE  ShapeInv'
<1>1. TypeOK BY DEF ShapeInv
<1>2. worker[n] = "receive" /\ e \in unread[n] /\ e \in Inputs(n)
  BY <1>1 DEF KeepLatest, NextInput, TypeOK
<1> DEFINE left == unread[n] \ {e}
<1>3. left \in SUBSET Inputs(n) BY <1>1 DEF TypeOK
<1>4. unread' = [unread EXCEPT ![n] = left] BY DEF KeepLatest
<1>5. \A f \in Inputs(n) \ left : held[n][f] # None
  BY <1>2 DEF ShapeInv, HandsInv, KeepLatest
<1>6. /\ queue' = queue \/ (queue[e] # <<>>
                            /\ queue' = [queue EXCEPT ![e] = Tail(@)])
      /\ UNCHANGED <<config, worker, held, out, todo, produced, seen, control,
                     fallback, main, requested, isolated>>
  BY DEF KeepLatest
<1> HIDE DEF left
<1>7. None \in (1..Count) \cup {None} OBVIOUS
<1> QED BY <1>2, <1>3, <1>4, <1>5, <1>6, <1>7, ShapeReading

LEMMA ShapeHead ==
  ASSUME ShapeInv, NEW n \in Nodes, LoopHead(n) PROVE ShapeInv'
<1>1. TypeOK BY DEF ShapeInv
<1>2. CASE stop
  <2>1. BeginEos(n) BY <1>2 DEF LoopHead
  <2>2. Ending(n) BY <1>1, <2>1, BeginEosEnds
  <2>3. ControlTypes' BY <1>1, ControlKept DEF LoopHead
  <2> QED BY <1>2, <2>2, <2>3, ShapeEnding DEF LoopHead
<1>3. CASE ~stop
  <2>1. \A m \in Nodes : Inputs(m)' = Inputs(m) /\ Outputs(m)' = Outputs(m)
    BY DEF Inputs, Outputs, LoopHead
  <2>2. worker' = [worker EXCEPT ![n] = "receive"]
        /\ unread' = [unread EXCEPT ![n] = Inputs(n)]
        /\ UNCHANGED <<config, queue, held, out, todo, produced, seen, control,
                       fallback, main, requested, isolated>>
    BY <1>3 DEF LoopHead, GoTo
  <2>3. /\ unread' \in [Nodes -> SUBSET config.edges]
        /\ \A m \in Nodes : unread'[m] \subseteq Inputs(m)
    BY <1>1, <2>2, ConfigFacts DEF TypeOK
  <2>4. worker' \in [Nodes -> {"starting", "ready", "head", "receive",
                               "publish", "eos", "done"}]
    BY <1>1, <2>2 DEF TypeOK
  <2>5. TypeOK' BY <1>1, <2>1, <2>2, <2>3, <2>4 DEF TypeOK, control
  <2>6. Inputs(n) # {} BY DEF LoopHead, IsSource
  <2>7. HandsInv'
    <3> SUFFICES ASSUME NEW m \in Nodes
                 PROVE  /\ worker'[m] = "receive" =>
                              /\ Inputs(m)' # {}
                              /\ \A f \in Inputs(m)' \ unread'[m] :
                                    held'[m][f] # None
                        /\ worker'[m] = "publish" => out'[m] # None
      BY DEF HandsInv
    <3>1. CASE m = n BY <1>1, <2>1, <2>2, <2>6, <3>1 DEF TypeOK
    <3>2. CASE m # n
      BY <1>1, <2>1, <2>2, <3>2 DEF ShapeInv, HandsInv, TypeOK
    <3> QED BY <3>1, <3>2
  <2> QED BY <2>5, <2>7 DEF ShapeInv
<1> QED BY <1>2, <1>3

LEMMA ShapeOldest ==
  ASSUME ShapeInv, NEW n \in Nodes, NEW e \in config.edges, DropOldest(n, e)
  PROVE  ShapeInv'
<1>1. TypeOK BY DEF ShapeInv
<1>2. CASE stop
  <2>1. Ending(n) BY <1>1, <1>2, BeginEosEnds DEF DropOldest
  <2>2. ControlTypes' BY <1>1, ControlKept DEF DropOldest
  <2> QED BY <1>2, <2>1, <2>2, ShapeEnding DEF DropOldest
<1>3. CASE ~stop
  <2> DEFINE left == {e}
  <2>1. worker[n] = "receive" /\ e \in Inputs(n) /\ left \in SUBSET Inputs(n)
        /\ held' = [held EXCEPT ![n][e] = None]
        /\ unread' = [unread EXCEPT ![n] = left]
        /\ UNCHANGED <<config, queue, worker, out, todo, produced, seen,
                       control, fallback, main, requested, isolated>>
    BY <1>3 DEF DropOldest
  <2>2. \A f \in Inputs(n) : f # e => held'[n][f] = held[n][f]
    BY <1>1, <2>1 DEF TypeOK
  <2>3. \A f \in Inputs(n) \ left : held'[n][f] # None
    BY <2>2 DEF ShapeInv, HandsInv, DropOldest
  <2>4. None \in (1..Count) \cup {None} OBVIOUS
  <2> HIDE DEF left
  <2> QED BY <2>1, <2>3, <2>4, ShapeReading
<1> QED BY <1>2, <1>3

\* A whole set of inputs has a message of the trigger among them.
LEMMA MessageKnown ==
  ASSUME ShapeInv, NEW n \in Nodes, Received(n)
  PROVE  /\ Message(n) \in 1..Count
         /\ Trigger(n) \in Inputs(n)
         /\ \A e \in Inputs(n) : held[n][e] \in 1..Count
<1>1. Inputs(n) # {} /\ \A e \in Inputs(n) : held[n][e] # None
  BY DEF Received, ShapeInv, HandsInv
<1>2. Trigger(n) \in Inputs(n) BY <1>1, TriggerExists DEF ShapeInv
<1> QED BY <1>1, <1>2 DEF ShapeInv, TypeOK, Message

LEMMA ShapeProcess ==
  ASSUME ShapeInv, NEW n \in Nodes, Process(n) PROVE ShapeInv'
<1>1. TypeOK BY DEF ShapeInv
<1>2. PICK k \in 1..Count : k = Message(n)
  BY MessageKnown DEF Process
<1>3. BeginPublish(n, k) BY <1>2 DEF Process
<1>4. seen' \in [Nodes -> Seq(1..Count)]
  <2>1. seen' = [seen EXCEPT ![n] = Append(@, k)] BY <1>2 DEF Process
  <2>2. Append(seen[n], k) \in Seq(1..Count) BY <1>1 DEF TypeOK
  <2> QED BY <1>1, <2>1, <2>2 DEF TypeOK
<1>5. held' = held \/ held' = Unheld(n) BY DEF Process, Consumed
<1>6. produced' \in [Nodes -> 0..Count] BY <1>1 DEF Process, TypeOK
<1>7. UNCHANGED <<config, queue, unread, control, fallback, main, requested,
                  isolated>>
  BY DEF Process
<1> QED BY <1>3, <1>4, <1>5, <1>6, <1>7, ShapePublishing

LEMMA ShapeSkip ==
  ASSUME ShapeInv, NEW n \in Nodes, SkipMessage(n) PROVE ShapeInv'
<1>1. TypeOK BY DEF ShapeInv
<1>2. \A m \in Nodes : Inputs(m)' = Inputs(m) /\ Outputs(m)' = Outputs(m)
  BY DEF Inputs, Outputs, SkipMessage
<1>3. held' = held \/ held' = Unheld(n) BY DEF SkipMessage, Consumed
<1>4. /\ DOMAIN held' = Nodes
      /\ \A m \in Nodes : held'[m] \in [Inputs(m)' -> (1..Count) \cup {None}]
      /\ \A m \in Nodes : m # n => held'[m] = held[m]
  <2>1. CASE held' = held BY <1>1, <1>2, <2>1 DEF TypeOK
  <2>2. CASE held' = Unheld(n)
    BY <1>1, <1>2, <2>2, UnheldTypes DEF SkipMessage
  <2> QED BY <1>3, <2>1, <2>2
<1>5. worker' = [worker EXCEPT ![n] = "head"]
      /\ UNCHANGED <<config, queue, unread, out, todo, produced, seen, control,
                     fallback, main, requested, isolated>>
  BY DEF SkipMessage, GoTo
<1>6. worker' \in [Nodes -> {"starting", "ready", "head", "receive",
                             "publish", "eos", "done"}]
  BY <1>1, <1>5 DEF TypeOK
<1>7. TypeOK' BY <1>1, <1>2, <1>4, <1>5, <1>6 DEF TypeOK, control
<1>8. HandsInv'
  <2> SUFFICES ASSUME NEW m \in Nodes
               PROVE  /\ worker'[m] = "receive" =>
                            /\ Inputs(m)' # {}
                            /\ \A f \in Inputs(m)' \ unread'[m] :
                                  held'[m][f] # None
                      /\ worker'[m] = "publish" => out'[m] # None
    BY DEF HandsInv
  <2>1. CASE m = n BY <1>1, <1>5, <2>1 DEF TypeOK
  <2>2. CASE m # n
    BY <1>1, <1>2, <1>4, <1>5, <2>2 DEF ShapeInv, HandsInv, TypeOK
  <2> QED BY <2>1, <2>2
<1> QED BY <1>7, <1>8 DEF ShapeInv

-----------------------------------------------------------------------------
(* What a put does to an edge.                                             *)

LEMMA PutTypes ==
  ASSUME TypeOK, NEW e \in config.edges, NEW item \in Item
  PROVE  PutItems(e, item) \in Seq(Item) /\ Len(PutItems(e, item)) <= Capacity
<1> DEFINE q == queue[e]
<1>1. q \in Seq(Item) /\ Len(q) <= Capacity BY DEF TypeOK
<1>2. <<item>> \in Seq(Item) /\ Len(<<item>>) = 1 OBVIOUS
<1>3. CASE config.policy[e] = "latest" BY <1>2, <1>3, Bounds DEF PutItems
<1>4. CASE config.policy[e] # "latest" /\ ~Full(e)
  <2>1. Append(q, item) \in Seq(Item) /\ Len(Append(q, item)) = Len(q) + 1
    BY <1>1
  <2>2. Len(q) < Capacity BY <1>1, <1>4, Bounds DEF Full
  <2> QED BY <1>1, <1>4, <2>1, <2>2, Bounds DEF PutItems
<1>5. CASE config.policy[e] = "drop_oldest" /\ Full(e)
  <2>1. q # <<>> BY <1>1, <1>5, Bounds DEF Full
  <2>2. Tail(q) \in Seq(Item) /\ Len(Tail(q)) = Len(q) - 1 BY <1>1, <2>1
  <2>3. Append(Tail(q), item) \in Seq(Item)
        /\ Len(Append(Tail(q), item)) = Len(q)
    BY <1>1, <2>1, <2>2
  <2> QED BY <1>1, <1>5, <2>3 DEF PutItems
<1>6. CASE /\ config.policy[e] \notin {"latest", "drop_oldest"} /\ Full(e)
  BY <1>1, <1>6 DEF PutItems
<1> QED BY <1>3, <1>4, <1>5, <1>6

LEMMA ControlTypes1 ==
  ASSUME TypeOK, NEW e \in config.edges, ~Full(e), NEW item \in Item
  PROVE  /\ Append(queue[e], item) \in Seq(Item)
         /\ Len(Append(queue[e], item)) <= Capacity
<1>1. queue[e] \in Seq(Item) /\ Len(queue[e]) < Capacity
  BY Bounds DEF TypeOK, Full
<1> QED BY <1>1, Bounds

\* One output is served: its edge may change, and the worker may go on.
LEMMA ShapeServing ==
  ASSUME ShapeInv, NEW n \in Nodes, NEW e \in config.edges,
         NEW items \in Seq(Item), Len(items) <= Capacity,
         queue' = queue \/ queue' = [queue EXCEPT ![e] = items],
         NEW state \in {"head", "done"}, Done(n, e, state),
         \/ out' = out
         \/ out' = [out EXCEPT ![n] = IF todo[n] = {e} THEN None ELSE @],
         UNCHANGED <<config, held, unread, produced, seen, control, fallback,
                     main, requested, isolated>>
  PROVE  ShapeInv'
<1>1. TypeOK BY DEF ShapeInv
<1>2. \A m \in Nodes : Inputs(m)' = Inputs(m) /\ Outputs(m)' = Outputs(m)
  BY DEF Inputs, Outputs
<1>3. /\ queue' \in [config.edges -> Seq(Item)]
      /\ \A f \in config.edges : Len(queue'[f]) <= Capacity
  <2>1. /\ queue \in [config.edges -> Seq(Item)]
        /\ \A f \in config.edges : Len(queue[f]) <= Capacity
    BY <1>1 DEF TypeOK
  <2>2. CASE queue' = queue BY <2>1, <2>2
  <2>3. CASE queue' = [queue EXCEPT ![e] = items]
    <3>1. queue' \in [config.edges -> Seq(Item)] BY <2>1, <2>3
    <3>2. ASSUME NEW f \in config.edges PROVE Len(queue'[f]) <= Capacity
      <4>1. queue'[f] = IF f = e THEN items ELSE queue[f] BY <2>1, <2>3
      <4> QED BY <2>1, <4>1
    <3> QED BY <3>1, <3>2
  <2> QED BY <2>2, <2>3
<1>4. /\ worker' \in [Nodes -> {"starting", "ready", "head", "receive",
                                "publish", "eos", "done"}]
      /\ \A m \in Nodes : m # n => worker'[m] = worker[m]
      /\ worker'[n] \in {state, worker[n]}
      /\ worker'[n] = worker[n] \/ todo[n] = {e}
      /\ todo[n] = {e} => worker'[n] = state
  BY <1>1 DEF Done, GoTo, TypeOK
<1>5. todo' = [todo EXCEPT ![n] = @ \ {e}] BY DEF Done
<1>6. /\ todo' \in [Nodes -> SUBSET config.edges]
      /\ \A m \in Nodes : todo'[m] \subseteq Outputs(m)
  BY <1>1, <1>5 DEF TypeOK
<1>7. /\ out' \in [Nodes -> (1..Count) \cup {None}]
      /\ \A m \in Nodes : m # n => out'[m] = out[m]
      /\ todo[n] # {e} => out'[n] = out[n]
  BY <1>1 DEF TypeOK
<1>8. TypeOK'
  BY <1>1, <1>2, <1>3, <1>4, <1>6, <1>7 DEF TypeOK, control
<1>9. HandsInv'
  <2> SUFFICES ASSUME NEW m \in Nodes
               PROVE  /\ worker'[m] = "receive" =>
                            /\ Inputs(m)' # {}
                            /\ \A f \in Inputs(m)' \ unread'[m] :
                                  held'[m][f] # None
                      /\ worker'[m] = "publish" => out'[m] # None
    BY DEF HandsInv
  <2>1. worker'[m] \in {"receive", "publish"} =>
            worker'[m] = worker[m] /\ out'[m] = out[m]
    BY <1>4, <1>7
  <2> QED BY <1>2, <2>1 DEF ShapeInv, HandsInv
<1> QED BY <1>8, <1>9 DEF ShapeInv

LEMMA ShapePublish ==
  ASSUME ShapeInv, NEW n \in Nodes, NEW e \in config.edges, Publish(n, e)
  PROVE  ShapeInv'
<1>1. TypeOK /\ out[n] \in 1..Count
  BY DEF ShapeInv, HandsInv, TypeOK, Publish
<1> DEFINE items == PutItems(e, out[n])
<1>2. items \in Seq(Item) /\ Len(items) <= Capacity
  <2>1. out[n] \in Item BY <1>1, Bounds DEF Item
  <2> QED BY <1>1, <2>1, PutTypes
<1>3. queue' = queue \/ queue' = [queue EXCEPT ![e] = items]
  BY DEF Publish
<1>4. /\ Done(n, e, "head")
      /\ out' = [out EXCEPT ![n] = IF todo[n] = {e} THEN None ELSE @]
      /\ UNCHANGED <<config, held, unread, produced, seen, control, fallback,
                     main, requested, isolated>>
  BY DEF Publish
<1> HIDE DEF items
<1> QED BY <1>2, <1>3, <1>4, ShapeServing

LEMMA ShapeEos ==
  ASSUME ShapeInv, NEW n \in Nodes, NEW e \in config.edges, PublishEos(n, e)
  PROVE  ShapeInv'
<1>1. TypeOK BY DEF ShapeInv
<1>2. UNCHANGED out /\ Done(n, e, "done")
      /\ UNCHANGED <<config, held, unread, produced, seen, control, fallback,
                     main, requested, isolated>>
  BY DEF PublishEos
<1>3. CASE stop
  <2>1. queue' = queue /\ queue[e] \in Seq(Item) /\ Len(queue[e]) <= Capacity
    BY <1>1, <1>3 DEF PublishEos, TypeOK
  <2> QED BY <1>2, <2>1, ShapeServing
<1>4. CASE ~stop
  <2> DEFINE items == Append(queue[e], EOS)
  <2>1. EOS \in Item BY Bounds DEF EOS, Item
  <2>2. items \in Seq(Item) /\ Len(items) <= Capacity
    BY <1>1, <1>4, <2>1, ControlTypes1 DEF PublishEos
  <2>3. queue' = [queue EXCEPT ![e] = items] BY <1>4 DEF PublishEos
  <2> HIDE DEF items
  <2> QED BY <1>2, <2>2, <2>3, ShapeServing
<1> QED BY <1>3, <1>4

LEMMA ShapeFails ==
  ASSUME ShapeInv, NEW n \in Nodes, WorkerFails(n) PROVE ShapeInv'
<1>1. TypeOK BY DEF ShapeInv
<1>2. CASE NodeStartFails(n)
  BY <1>1, <1>2, EscapeEnds, ShapeEnding DEF NodeStartFails
<1>3. CASE SourceFails(n)
  BY <1>1, <1>3, EscapeEnds, ShapeEnding DEF SourceFails
<1>4. CASE ActivateFallback(n)
  <2>1. ControlTypes' BY <1>1, <1>4, ControlKept DEF ActivateFallback
  <2>2. fallback' \in [Nodes -> BOOLEAN]
    BY <1>1, <1>4 DEF ActivateFallback, TypeOK
  <2>3. UNCHANGED <<config, flow, worker, main, requested>>
    BY <1>4 DEF ActivateFallback
  <2> QED BY <1>1, <2>1, <2>2, <2>3, ShapeElsewhere DEF TypeOK
<1>5. CASE SkipMessage(n) BY <1>5, ShapeSkip
<1>6. CASE ProcessFails(n)
  BY <1>1, <1>6, EscapeEnds, ShapeEnding DEF ProcessFails
<1>7. CASE PublishFails(n)
  <2>1. CASE config.failure[n] = "isolate"
    BY <1>1, <1>7, <2>1, EscapeEnds, ShapeEnding DEF PublishFails
  <2>2. CASE config.failure[n] # "isolate"
    <3>1. RecordError(n) /\ GoTo(n, "done")
          /\ todo' = [todo EXCEPT ![n] = {}] /\ UNCHANGED isolated
      BY <1>7, <2>2 DEF PublishFails
    <3>2. ControlTypes' BY <1>1, <3>1, ErrorTypes
    <3>3. Ending(n) BY <1>1, <3>1 DEF Ending, GoTo, TypeOK
    <3> QED BY <1>7, <3>2, <3>3, ShapeEnding DEF PublishFails
  <2> QED BY <2>1, <2>2
<1> QED BY <1>2, <1>3, <1>4, <1>5, <1>6, <1>7 DEF WorkerFails

LEMMA ShapeStep ==
  ASSUME ShapeInv, NEW n \in Nodes, WorkerStep(n) PROVE ShapeInv'
<1>1. TypeOK BY DEF ShapeInv
<1>2. CASE NodeReady(n) BY <1>2, ShapeMove DEF NodeReady
<1>3. CASE WorkerRuns(n)
  <2>1. PICK place \in {"head", "done"} : GoTo(n, place)
    BY <1>3 DEF WorkerRuns
  <2> QED BY <1>3, <2>1, ShapeMove DEF WorkerRuns
<1>4. CASE Produce(n)
  <2>1. PICK k \in 1..Count : k = produced[n] + 1
    BY <1>1, <1>4, Bounds DEF Produce, TypeOK
  <2>2. BeginPublish(n, k) BY <1>4, <2>1 DEF Produce
  <2>3. produced' \in [Nodes -> 0..Count]
    <3>1. produced' = [produced EXCEPT ![n] = k] BY <1>4, <2>1 DEF Produce
    <3> QED BY <1>1, <3>1 DEF TypeOK
  <2>4. seen' \in [Nodes -> Seq(1..Count)] BY <1>1, <1>4 DEF Produce, TypeOK
  <2>5. UNCHANGED <<config, queue, unread, held, control, fallback, main,
                    requested, isolated>>
    BY <1>4 DEF Produce
  <2> QED BY <2>2, <2>3, <2>4, <2>5, ShapePublishing
<1>5. CASE SourceEnds(n)
  <2>1. Ending(n) BY <1>1, <1>5, BeginEosEnds DEF SourceEnds
  <2>2. ControlTypes' BY <1>1, <1>5, ControlKept DEF SourceEnds
  <2> QED BY <1>5, <2>1, <2>2, ShapeEnding DEF SourceEnds
<1>6. CASE LoopHead(n) BY <1>6, ShapeHead
<1>7. CASE \E e \in config.edges : Receive(n, e) BY <1>7, ShapeReceive
<1>8. CASE \E e \in config.edges : KeepLatest(n, e) BY <1>8, ShapeKeep
<1>9. CASE \E e \in config.edges : ReceiveEnds(n, e)
  <2>1. PICK e \in config.edges : ReceiveEnds(n, e) BY <1>9
  <2>2. Ending(n) BY <1>1, <2>1, BeginEosEnds DEF ReceiveEnds
  <2>3. ControlTypes' BY <1>1, <2>1, ControlKept DEF ReceiveEnds
  <2>4. QueueTypes'
    <3>1. CASE queue' = queue
      BY <1>1, <2>1, <3>1 DEF ReceiveEnds, TypeOK, QueueTypes
    <3>2. CASE queue[e] # <<>> /\ queue' = [queue EXCEPT ![e] = Tail(@)]
      BY <1>1, <2>1, <3>2, TakeTypes DEF ReceiveEnds
    <3> QED BY <2>1, <3>1, <3>2 DEF ReceiveEnds
  <2>5. held' = Unheld(n) /\ UNCHANGED <<config, unread, out, produced, seen,
                                         fallback, main, requested>>
    BY <2>1 DEF ReceiveEnds
  <2> QED BY <2>2, <2>3, <2>4, <2>5, ShapeEndingTaking
<1>10. CASE \E e \in config.edges : DropOldest(n, e) BY <1>10, ShapeOldest
<1>11. CASE Process(n) BY <1>11, ShapeProcess
<1>12. CASE \E e \in config.edges : Publish(n, e) BY <1>12, ShapePublish
<1>13. CASE \E e \in config.edges : PublishEos(n, e) BY <1>13, ShapeEos
<1> QED
  BY <1>2, <1>3, <1>4, <1>5, <1>6, <1>7, <1>8, <1>9, <1>10, <1>11, <1>12,
     <1>13 DEF WorkerStep

LEMMA ShapeInit == ASSUME Init PROVE ShapeInv
<1>1. config \in Config BY GraphAssumption DEF Init
<1>2. <<>> \in Seq(Item) /\ <<>> \in Seq(1..Count) /\ Len(<<>>) = 0 OBVIOUS
<1>3. QueueTypes BY <1>2, Bounds DEF Init, QueueTypes
<1>4. seen \in [Nodes -> Seq(1..Count)] BY <1>2 DEF Init
<1>5. produced \in [Nodes -> 0..Count] BY Bounds DEF Init
<1>6. TypeOK BY <1>3, <1>4, <1>5 DEF Init, TypeOK, QueueTypes
<1>7. HandsInv BY DEF Init, HandsInv
<1> QED BY <1>6, <1>7 DEF ShapeInv

LEMMA ShapeNext == ASSUME ShapeInv, [Next]_vars PROVE ShapeInv'
<1>1. CASE \E n \in Nodes : WorkerStep(n) \/ WorkerFails(n)
  BY <1>1, ShapeStep, ShapeFails
<1>2. CASE \/ MainStarts \/ MainSetsDeadline \/ MainEnds
           \/ DeadlinePasses \/ JoinGivesUp \/ RequestStop
           \/ \E n \in Nodes : WatchdogStops(n)
  BY <1>2, ShapeMain
<1>3. CASE UNCHANGED vars
  <2>1. ControlTypes' BY <1>3, ControlKept DEF vars, ShapeInv
  <2>2. UNCHANGED <<config, flow, worker, fallback, main, requested>>
    BY <1>3 DEF vars
  <2> QED BY <2>1, <2>2, ShapeElsewhere DEF ShapeInv, TypeOK
<1> QED BY <1>1, <1>2, <1>3 DEF Next

\* The state of a run has its shape: edges within their capacity, hands that
\* hold messages of the node's own inputs, and only outputs left to serve.
THEOREM GraphTypeCorrect == Spec => []TypeOK
<1>1. Init => ShapeInv BY ShapeInit
<1>2. ShapeInv /\ [Next]_vars => ShapeInv' BY ShapeNext
<1>3. ShapeInv => TypeOK BY DEF ShapeInv
<1> QED BY <1>1, <1>2, <1>3, PTL DEF Spec

-----------------------------------------------------------------------------
(* The order of the messages.                                              *)

\* The number of the last message a node has made.
Latest(n) == IF IsSource(n) THEN produced[n]
             ELSE IF seen[n] = <<>> THEN 0 ELSE seen[n][Len(seen[n])]

\* The greatest number an edge may have been offered so far.
Offered(e) == IF worker[e[1]] = "publish" /\ e \in todo[e[1]]
              THEN out[e[1]] - 1 ELSE Latest(e[1])

Rising(q) == \A i, j \in 1..Len(q) : i < j /\ q[j] # EOS => q[i] < q[j]
Under(q, b) == \A i \in 1..Len(q) : q[i] <= b
Above(q, x) == \A i \in 1..Len(q) : q[i] # EOS => x < q[i]

\* A number that was taken from an edge: all that is still to come is greater.
Taken(e, x) == x <= Offered(e) /\ Above(queue[e], x)

Publishes(n) == worker[n] = "publish" => out[n] = Latest(n)
Ordered(e) == Rising(queue[e]) /\ Under(queue[e], Offered(e))
Holds(n) == \A e \in Inputs(n) : held[n][e] # None => Taken(e, held[n][e])
Saw(n) == \A i \in 1..Len(seen[n]) :
    /\ \A j \in 1..Len(seen[n]) : i < j => seen[n][i] < seen[n][j]
    /\ Inputs(n) # {} => Taken(Trigger(n), seen[n][i])
    /\ worker[n] = "receive" /\ Trigger(n) \notin unread[n] =>
           seen[n][i] < held[n][Trigger(n)]

OrderInv ==
    /\ \A n \in Nodes : Publishes(n) /\ Holds(n) /\ Saw(n)
    /\ \A e \in config.edges : Ordered(e)

LEMMA StaticConfig == ASSUME TypeOK, Next PROVE config' = config
<1>1. ASSUME NEW n \in Nodes, WorkerStep(n) \/ WorkerFails(n)
      PROVE  config' = config
  BY <1>1 DEF WorkerStep, WorkerFails, NodeReady, WorkerRuns, Produce, SourceEnds,
        LoopHead, Receive, KeepLatest, ReceiveEnds, DropOldest, Process, Publish,
        PublishEos, NodeStartFails, SourceFails, ActivateFallback, SkipMessage,
        ProcessFails, PublishFails
<1> QED
  BY <1>1 DEF Next, MainStarts, MainSetsDeadline, MainEnds, DeadlinePasses,
        JoinGivesUp, RequestStop, WatchdogStops

LEMMA StaticGraph ==
  ASSUME config' = config
  PROVE  /\ \A n \in Nodes : Inputs(n)' = Inputs(n) /\ Outputs(n)' = Outputs(n)
                             /\ IsSource(n)' = IsSource(n)
         /\ \A n \in Nodes : Trigger(n)' = Trigger(n)
<1>1. \A n \in Nodes : Inputs(n)' = Inputs(n) /\ Outputs(n)' = Outputs(n)
                       /\ IsSource(n)' = IsSource(n)
  BY DEF Inputs, Outputs, IsSource
<1>2. \A n \in Nodes : Trigger(n)' = Trigger(n)
  BY DEF Trigger, Inputs, First
<1> QED BY <1>1, <1>2

LEMMA LatestType == ASSUME TypeOK, NEW n \in Nodes PROVE Latest(n) \in 0..Count
<1>1. CASE IsSource(n) BY <1>1, Bounds DEF TypeOK, Latest
<1>2. CASE ~IsSource(n) /\ seen[n] = <<>> BY <1>2, Bounds DEF Latest
<1>3. CASE ~IsSource(n) /\ seen[n] # <<>>
  <2>1. seen[n] \in Seq(1..Count) BY DEF TypeOK
  <2>2. Len(seen[n]) \in 1..Len(seen[n]) BY <1>3, <2>1
  <2>3. seen[n][Len(seen[n])] \in 1..Count BY <2>1, <2>2, IsElement
  <2> QED BY <1>3, <2>3, Bounds DEF Latest
<1> QED BY <1>1, <1>2, <1>3

LEMMA OfferedType ==
  ASSUME ShapeInv, NEW e \in config.edges PROVE Offered(e) \in 0..Count
<1>1. TypeOK /\ e[1] \in Nodes BY ConfigFacts DEF ShapeInv
<1>2. CASE worker[e[1]] = "publish"
  <2>1. out[e[1]] \in 1..Count BY <1>1, <1>2 DEF ShapeInv, HandsInv, TypeOK
  <2> QED BY <1>1, <2>1, LatestType, Bounds DEF Offered
<1>3. CASE worker[e[1]] # "publish" BY <1>1, <1>3, LatestType DEF Offered
<1> QED BY <1>2, <1>3

-----------------------------------------------------------------------------
(* Sequences of items.                                                     *)

LEMMA TailKeeps ==
  ASSUME NEW q \in Seq(Item), q # <<>>, NEW b \in Nat
  PROVE  /\ Rising(q) => Rising(Tail(q)) /\ Above(Tail(q), Head(q))
         /\ Under(q, b) => Under(Tail(q), b) /\ Head(q) <= b
         /\ \A x \in Nat : Above(q, x) => Above(Tail(q), x)
<1>1. /\ Tail(q) \in Seq(Item) /\ Len(Tail(q)) = Len(q) - 1
      /\ Len(q) \in Nat \ {0} /\ Head(q) = q[1]
      /\ \A i \in 1..Len(Tail(q)) : Tail(q)[i] = q[i + 1]
                                    /\ i + 1 \in 1..Len(q)
  OBVIOUS
<1>2. Rising(q) => Rising(Tail(q)) /\ Above(Tail(q), Head(q))
  BY <1>1 DEF Rising, Above
<1>3. Under(q, b) => Under(Tail(q), b) /\ Head(q) <= b BY <1>1 DEF Under
<1>4. \A x \in Nat : Above(q, x) => Above(Tail(q), x) BY <1>1 DEF Above
<1> QED BY <1>2, <1>3, <1>4

LEMMA EosKeeps ==
  ASSUME NEW q \in Seq(Item), NEW b \in Nat
  PROVE  /\ Rising(q) => Rising(Append(q, EOS))
         /\ Under(q, b) => Under(Append(q, EOS), b)
         /\ \A x \in Nat : Above(q, x) => Above(Append(q, EOS), x)
<1>1. /\ Len(Append(q, EOS)) = Len(q) + 1 /\ Len(q) \in Nat
      /\ \A i \in 1..Len(q) : Append(q, EOS)[i] = q[i]
      /\ Append(q, EOS)[Len(q) + 1] = EOS
  OBVIOUS
<1>2. Rising(q) => Rising(Append(q, EOS)) BY <1>1 DEF Rising
<1>3. Under(q, b) => Under(Append(q, EOS), b) BY <1>1 DEF Under, EOS
<1>4. \A x \in Nat : Above(q, x) => Above(Append(q, EOS), x) BY <1>1 DEF Above
<1> QED BY <1>2, <1>3, <1>4

LEMMA AppendKeeps ==
  ASSUME NEW q \in Seq(Item), NEW b \in Nat, Rising(q), Under(q, b),
         NEW y \in Nat, b < y
  PROVE  /\ Rising(Append(q, y)) /\ Under(Append(q, y), y)
         /\ \A x \in Nat : x <= b /\ Above(q, x) => Above(Append(q, y), x)
<1>1. /\ Len(Append(q, y)) = Len(q) + 1 /\ Len(q) \in Nat
      /\ \A i \in 1..Len(q) : Append(q, y)[i] = q[i] /\ q[i] \in Int
      /\ Append(q, y)[Len(q) + 1] = y
  BY Bounds DEF Item
<1>2. Rising(Append(q, y)) BY <1>1 DEF Rising, Under
<1>3. Under(Append(q, y), y) BY <1>1 DEF Under
<1>4. \A x \in Nat : x <= b /\ Above(q, x) => Above(Append(q, y), x)
  BY <1>1 DEF Above
<1> QED BY <1>2, <1>3, <1>4

\* Whatever a put does with a message greater than all before it.
LEMMA PutKeeps ==
  ASSUME TypeOK, NEW e \in config.edges, NEW b \in Nat, NEW y \in Item, b < y,
         Rising(queue[e]), Under(queue[e], b)
  PROVE  /\ Rising(PutItems(e, y)) /\ Under(PutItems(e, y), y)
         /\ \A x \in Nat : x <= b /\ Above(queue[e], x) =>
                               Above(PutItems(e, y), x)
<1> DEFINE q == queue[e]
<1>1. q \in Seq(Item) /\ y \in Nat BY Bounds DEF TypeOK, Item
<1>2. CASE config.policy[e] = "latest"
  <2>1. Len(<<y>>) = 1 /\ <<y>>[1] = y OBVIOUS
  <2> QED BY <1>1, <1>2, <2>1 DEF PutItems, Rising, Under, Above
<1>3. CASE config.policy[e] # "latest" /\ ~Full(e)
  BY <1>1, <1>3, AppendKeeps DEF PutItems
<1>4. CASE config.policy[e] = "drop_oldest" /\ Full(e)
  <2>1. q # <<>> BY <1>1, <1>4, Bounds DEF Full
  <2>2. /\ Tail(q) \in Seq(Item) /\ Rising(Tail(q)) /\ Under(Tail(q), b)
        /\ \A x \in Nat : Above(q, x) => Above(Tail(q), x)
    BY <1>1, <2>1, TailKeeps
  <2>3. PutItems(e, y) = Append(Tail(q), y) BY <1>4 DEF PutItems
  <2>4. /\ Rising(Append(Tail(q), y)) /\ Under(Append(Tail(q), y), y)
        /\ \A x \in Nat : x <= b /\ Above(Tail(q), x) =>
                              Above(Append(Tail(q), y), x)
    BY <1>1, <2>2, AppendKeeps
  <2> QED BY <2>2, <2>3, <2>4
<1>5. CASE config.policy[e] \notin {"latest", "drop_oldest"} /\ Full(e)
  <2>1. PutItems(e, y) = q BY <1>5 DEF PutItems
  <2>2. \A i \in 1..Len(q) : q[i] \in Int BY <1>1, Bounds DEF Item
  <2>3. Under(q, y) BY <1>1, <2>2 DEF Under
  <2> QED BY <2>1, <2>3
<1> QED BY <1>2, <1>3, <1>4, <1>5

-----------------------------------------------------------------------------
(* What one step of a worker does.                                         *)

\* Nothing about the others changes.
LEMMA OthersKept ==
  ASSUME TypeOK, NEW n \in Nodes, WorkerStep(n) \/ WorkerFails(n),
         NEW m \in Nodes, m # n
  PROVE  /\ worker'[m] = worker[m] /\ todo'[m] = todo[m] /\ out'[m] = out[m]
         /\ produced'[m] = produced[m] /\ seen'[m] = seen[m]
         /\ held'[m] = held[m] /\ unread'[m] = unread[m]
<1>1. CASE WorkerStep(n)
  <2>1. CASE NodeReady(n) \/ WorkerRuns(n) \/ Produce(n) \/ SourceEnds(n)
    BY <2>1 DEF TypeOK, NodeReady, WorkerRuns, Produce, SourceEnds, GoTo,
                BeginEos, BeginPublish, flow
  <2>2. CASE LoopHead(n) \/ Process(n)
    BY <2>2 DEF TypeOK, LoopHead, Process, GoTo, BeginEos, BeginPublish, Unheld,
                Consumed, flow
  <2>3. ASSUME NEW e \in config.edges,
               Receive(n, e) \/ KeepLatest(n, e) \/ ReceiveEnds(n, e)
                  \/ DropOldest(n, e)
        PROVE  /\ worker'[m] = worker[m] /\ todo'[m] = todo[m]
               /\ out'[m] = out[m] /\ produced'[m] = produced[m]
               /\ seen'[m] = seen[m] /\ held'[m] = held[m]
               /\ unread'[m] = unread[m]
    <3>1. CASE Receive(n, e) BY <3>1 DEF TypeOK, Receive
    <3>2. CASE KeepLatest(n, e) BY <3>2 DEF TypeOK, KeepLatest
    <3>3. CASE ReceiveEnds(n, e)
      BY <3>3 DEF TypeOK, ReceiveEnds, BeginEos, GoTo, Unheld
    <3>4. CASE DropOldest(n, e)
      BY <3>4 DEF TypeOK, DropOldest, BeginEos, GoTo, Unheld
    <3> QED BY <2>3, <3>1, <3>2, <3>3, <3>4
  <2>4. ASSUME NEW e \in config.edges, Publish(n, e) \/ PublishEos(n, e)
        PROVE  /\ worker'[m] = worker[m] /\ todo'[m] = todo[m]
               /\ out'[m] = out[m] /\ produced'[m] = produced[m]
               /\ seen'[m] = seen[m] /\ held'[m] = held[m]
               /\ unread'[m] = unread[m]
    BY <2>4 DEF TypeOK, Publish, PublishEos, Done, GoTo, flow
  <2> QED BY <1>1, <2>1, <2>2, <2>3, <2>4 DEF WorkerStep
<1>2. CASE WorkerFails(n)
  BY <1>2 DEF TypeOK, WorkerFails, NodeStartFails, SourceFails, ActivateFallback,
        SkipMessage, ProcessFails, PublishFails, Escape, GoTo, BeginEos, Unheld,
        Consumed, flow
<1> QED BY <1>1, <1>2

\* Its own edges lose their head or gain EOS, unless it publishes a message.
LEMMA QueueMoves ==
  ASSUME TypeOK, NEW n \in Nodes, WorkerStep(n) \/ WorkerFails(n),
         NEW e \in config.edges
  PROVE  \/ queue'[e] = queue[e]
         \/ queue[e] # <<>> /\ queue'[e] = Tail(queue[e]) /\ e \in Inputs(n)
         \/ PublishEos(n, e) /\ queue'[e] = Append(queue[e], EOS)
         \/ Publish(n, e) /\ queue'[e] = PutItems(e, out[n])
<1>1. CASE \E f \in config.edges : Receive(n, f) \/ KeepLatest(n, f)
                                   \/ ReceiveEnds(n, f)
  <2>1. PICK f \in config.edges : Receive(n, f) \/ KeepLatest(n, f)
                                  \/ ReceiveEnds(n, f)
    BY <1>1
  <2>2. f \in Inputs(n)
    BY <2>1 DEF Receive, KeepLatest, ReceiveEnds, NextInput, TypeOK
  <2>3. \/ queue' = queue
        \/ queue[f] # <<>> /\ queue' = [queue EXCEPT ![f] = Tail(@)]
    BY <2>1 DEF Receive, KeepLatest, ReceiveEnds
  <2> QED BY <2>2, <2>3 DEF TypeOK
<1>2. CASE \E f \in config.edges : Publish(n, f)
  <2>1. PICK f \in config.edges : Publish(n, f) BY <1>2
  <2>2. \/ queue' = queue
        \/ queue' = [queue EXCEPT ![f] = PutItems(f, out[n])]
    BY <2>1 DEF Publish
  <2> QED BY <2>1, <2>2 DEF TypeOK
<1>3. CASE \E f \in config.edges : PublishEos(n, f)
  <2>1. PICK f \in config.edges : PublishEos(n, f) BY <1>3
  <2>2. \/ queue' = queue
        \/ queue' = [queue EXCEPT ![f] = Append(queue[f], EOS)]
    BY <2>1 DEF PublishEos
  <2> QED BY <2>1, <2>2 DEF TypeOK
<1>4. CASE \/ NodeReady(n) \/ WorkerRuns(n) \/ Produce(n) \/ SourceEnds(n)
           \/ LoopHead(n) \/ Process(n) \/ WorkerFails(n)
           \/ \E f \in config.edges : DropOldest(n, f)
  BY <1>4 DEF NodeReady, WorkerRuns, Produce, SourceEnds, LoopHead, Process,
        DropOldest, WorkerFails, NodeStartFails, SourceFails, ActivateFallback,
        SkipMessage, ProcessFails, PublishFails, flow
<1> QED BY <1>1, <1>2, <1>3, <1>4 DEF WorkerStep

\* Its last message stays, with at most what was left to publish of it, or it
\* makes a greater one.
Continues(n) ==
    /\ Latest(n)' = Latest(n)
    /\ worker'[n] = "publish" =>
           /\ worker[n] = "publish" /\ out'[n] = out[n]
           /\ todo'[n] \subseteq todo[n]
Begins(n) ==
    /\ worker[n] # "publish" /\ Latest(n) < Latest(n)'
    /\ \/ worker'[n] # "publish" /\ Outputs(n) = {}
       \/ out'[n] = Latest(n)' /\ worker'[n] = "publish" /\ todo'[n] = Outputs(n)

LEMMA LatestKept ==
  ASSUME NEW n \in Nodes, config' = config, produced'[n] = produced[n],
         seen'[n] = seen[n]
  PROVE  Latest(n)' = Latest(n)
  BY StaticGraph DEF Latest

LEMMA OwnProduce ==
  ASSUME TypeOK, NEW n \in Nodes, Produce(n) PROVE Begins(n)
<1>1. /\ IsSource(n) /\ worker[n] = "head" /\ config' = config
      /\ produced' = [produced EXCEPT ![n] = produced[n] + 1]
      /\ BeginPublish(n, produced[n] + 1)
  BY DEF Produce
<1>2. IsSource(n)' BY <1>1, StaticGraph
<1>3. produced[n] \in 0..Count /\ produced'[n] = produced[n] + 1
  BY <1>1 DEF TypeOK
<1>4. Latest(n) = produced[n] /\ Latest(n)' = produced[n] + 1
  BY <1>1, <1>2, <1>3 DEF Latest
<1>5. \/ worker'[n] # "publish" /\ Outputs(n) = {}
      \/ /\ out'[n] = produced[n] + 1 /\ worker'[n] = "publish"
         /\ todo'[n] = Outputs(n)
  BY <1>1 DEF BeginPublish, GoTo, TypeOK
<1> QED BY <1>1, <1>3, <1>4, <1>5, Bounds DEF Begins

LEMMA OwnProcess ==
  ASSUME ShapeInv, NEW n \in Nodes, Saw(n), Process(n)
  PROVE  Begins(n) /\ Latest(n)' = Message(n)
         /\ \A i \in 1..Len(seen[n]) : seen[n][i] < Message(n)
<1>1. TypeOK BY DEF ShapeInv
<1>2. /\ Message(n) \in 1..Count /\ Trigger(n) \in Inputs(n)
      /\ Inputs(n) # {} /\ ~IsSource(n)
  BY MessageKnown DEF Process, IsSource
<1>3. /\ worker[n] = "receive" /\ Trigger(n) \notin unread[n]
      /\ config' = config /\ BeginPublish(n, Message(n))
      /\ seen' = [seen EXCEPT ![n] = Append(seen[n], Message(n))]
  BY DEF Process, Received
<1>4. ~IsSource(n)' BY <1>2, <1>3, StaticGraph
<1>5. seen'[n] = Append(seen[n], Message(n)) /\ seen[n] \in Seq(1..Count)
  BY <1>1, <1>3 DEF TypeOK
<1>6. /\ seen'[n] # <<>> /\ Len(seen'[n]) = Len(seen[n]) + 1
      /\ seen'[n][Len(seen'[n])] = Message(n)
  BY <1>2, <1>5
<1>7. Latest(n)' = Message(n) BY <1>4, <1>6 DEF Latest
<1>8. \A i \in 1..Len(seen[n]) : seen[n][i] < Message(n)
  BY <1>3 DEF Saw, Message
<1>9. Latest(n) < Message(n)
  <2>1. CASE seen[n] = <<>> BY <1>2, <2>1, Bounds DEF Latest
  <2>2. CASE seen[n] # <<>>
    <3>1. Len(seen[n]) \in 1..Len(seen[n]) BY <1>5, <2>2
    <3> QED BY <1>2, <1>8, <2>2, <3>1 DEF Latest
  <2> QED BY <2>1, <2>2
<1>10. \/ worker'[n] # "publish" /\ Outputs(n) = {}
       \/ /\ out'[n] = Message(n) /\ worker'[n] = "publish"
          /\ todo'[n] = Outputs(n)
  BY <1>1, <1>3 DEF BeginPublish, GoTo, TypeOK
<1> QED BY <1>3, <1>7, <1>8, <1>9, <1>10 DEF Begins

LEMMA OwnStep ==
  ASSUME ShapeInv, NEW n \in Nodes, Saw(n), WorkerStep(n) \/ WorkerFails(n)
  PROVE  Continues(n) \/ Begins(n)
<1>1. TypeOK BY DEF ShapeInv
<1>2. CASE Produce(n) BY <1>1, <1>2, OwnProduce
<1>3. CASE Process(n) BY <1>3, OwnProcess
<1>4. CASE \E e \in config.edges : Publish(n, e)
  <2>1. PICK e \in config.edges : Publish(n, e) BY <1>4
  <2>2. /\ worker[n] = "publish" /\ Done(n, e, "head")
        /\ out' = [out EXCEPT ![n] = IF todo[n] = {e} THEN None ELSE @]
        /\ UNCHANGED <<config, produced, seen>>
    BY <2>1 DEF Publish
  <2>3. /\ todo'[n] \subseteq todo[n]
        /\ worker'[n] = "publish" => out'[n] = out[n]
    BY <1>1, <2>2 DEF Done, GoTo, TypeOK
  <2> QED BY <2>2, <2>3, LatestKept DEF Continues
<1>5. CASE \/ NodeReady(n) \/ WorkerRuns(n) \/ SourceEnds(n) \/ LoopHead(n)
           \/ \E e \in config.edges : \/ Receive(n, e) \/ KeepLatest(n, e)
                                      \/ ReceiveEnds(n, e) \/ DropOldest(n, e)
                                      \/ PublishEos(n, e)
  <2>1. UNCHANGED <<config, produced, seen>>
    BY <1>5 DEF NodeReady, WorkerRuns, SourceEnds, LoopHead, Receive, KeepLatest,
          ReceiveEnds, DropOldest, PublishEos, flow
  <2>2. worker'[n] # "publish"
    BY <1>1, <1>5 DEF NodeReady, WorkerRuns, SourceEnds, LoopHead, Receive,
          NextInput, KeepLatest, ReceiveEnds, DropOldest, PublishEos, GoTo,
          BeginEos, Done, TypeOK
  <2> QED BY <2>1, <2>2, LatestKept DEF Continues
<1>6. CASE WorkerFails(n)
  <2>1. UNCHANGED <<config, produced, seen>>
    BY <1>6 DEF WorkerFails, NodeStartFails, SourceFails, ActivateFallback,
          SkipMessage, ProcessFails, PublishFails, flow
  <2>2. worker'[n] # "publish"
    BY <1>1, <1>6 DEF WorkerFails, NodeStartFails, SourceFails, ActivateFallback,
          Received, SkipMessage, ProcessFails, PublishFails, Escape, GoTo,
          BeginEos, TypeOK
  <2> QED BY <2>1, <2>2, LatestKept DEF Continues
<1> QED BY <1>2, <1>3, <1>4, <1>5, <1>6 DEF WorkerStep

-----------------------------------------------------------------------------
(* The order is kept.                                                      *)

LEMMA WorkerStatic ==
  ASSUME TypeOK, NEW n \in Nodes, WorkerStep(n) \/ WorkerFails(n)
  PROVE  config' = config
  BY StaticConfig DEF Next

LEMMA Numbers ==
  ShapeInv => /\ \A n \in Nodes : Latest(n) \in 0..Count
              /\ \A e \in config.edges : Offered(e) \in 0..Count
  BY LatestType, OfferedType DEF ShapeInv

LEMMA NumbersNext ==
  ShapeInv' => /\ \A n \in Nodes : Latest(n)' \in 0..Count
               /\ \A e \in config'.edges : Offered(e)' \in 0..Count
<1>1. (ShapeInv => /\ \A n \in Nodes : Latest(n) \in 0..Count
                   /\ \A e \in config.edges : Offered(e) \in 0..Count)'
  BY Numbers, PTL
<1> QED BY <1>1

LEMMA OfferedGrows ==
  ASSUME ShapeInv, OrderInv, NEW n \in Nodes, WorkerStep(n) \/ WorkerFails(n),
         NEW e \in config.edges
  PROVE  /\ Offered(e) <= Offered(e)' /\ Offered(e) \in Nat /\ Offered(e)' \in Nat
         /\ Publish(n, e) => out[n] \in Item /\ Offered(e) < out[n]
                             /\ Offered(e)' = out[n]
<1>1. TypeOK /\ e[1] \in Nodes /\ config' = config
  BY ConfigFacts, WorkerStatic DEF ShapeInv
<1>2. Offered(e) \in Nat /\ Offered(e)' \in Nat
  <2>1. ShapeInv' BY ShapeStep, ShapeFails
  <2>2. Offered(e) \in 0..Count BY OfferedType
  <2>3. Offered(e)' \in 0..Count BY <1>1, <2>1, NumbersNext
  <2> QED BY <2>2, <2>3, Bounds
<1>3. CASE e[1] # n
  <2>1. Offered(e)' = Offered(e)
    BY <1>1, <1>3, OthersKept, LatestKept DEF Offered
  <2>2. ~Publish(n, e)
    BY <1>1, <1>3 DEF Publish, First, TypeOK, Outputs
  <2> QED BY <1>2, <2>1, <2>2
<1>4. CASE e[1] = n
  <2>1. Saw(n) /\ Publishes(n) /\ e \in Outputs(n)
    BY <1>4 DEF OrderInv, Outputs
  <2>2. Latest(n) \in 0..Count /\ (worker[n] = "publish" => out[n] \in 1..Count)
    BY <1>1, LatestType DEF ShapeInv, HandsInv, TypeOK
  <2>3. CASE Begins(n)
    <3>1. Offered(e) = Latest(n) BY <1>4, <2>3 DEF Begins, Offered
    <3>2. Offered(e)' = Latest(n)' - 1
      BY <1>4, <2>1, <2>3 DEF Begins, Offered
    <3>3. Latest(n) < Latest(n)' BY <2>3 DEF Begins
    <3>4. ~Publish(n, e) BY <2>3 DEF Begins, Publish
    <3>5. Latest(n)' \in 0..Count
      BY <1>1, ShapeStep, ShapeFails, NumbersNext
    <3> QED BY <1>2, <2>2, <3>1, <3>2, <3>3, <3>4, <3>5, Bounds
  <2>4. CASE Continues(n)
    <3>1. worker[n] = "publish" => out[n] = Latest(n) BY <2>1 DEF Publishes
    <3>2. \/ Offered(e) = Latest(n)
          \/ Offered(e) = Latest(n) - 1 /\ worker[n] = "publish"
                                        /\ e \in todo[n]
      BY <1>4, <3>1 DEF Offered
    <3>3. \/ Offered(e)' = Latest(n)
          \/ Offered(e)' = Latest(n) - 1 /\ worker[n] = "publish"
                                         /\ e \in todo[n]
      BY <1>4, <2>4, <3>1 DEF Continues, Offered
    <3>4. Offered(e) <= Offered(e)'
      BY <1>4, <2>2, <3>1, <3>2, <3>3 DEF Offered
    <3>5. ASSUME Publish(n, e)
          PROVE  out[n] \in Item /\ Offered(e) < out[n] /\ Offered(e)' = out[n]
      <4>1. worker[n] = "publish" /\ e \in todo[n] /\ e \notin todo'[n]
        BY <1>1, <3>5 DEF Publish, First, Done, TypeOK
      <4>2. Offered(e) = out[n] - 1 /\ Offered(e)' = out[n]
        BY <1>4, <2>4, <3>1, <4>1 DEF Offered, Continues
      <4> QED BY <2>2, <4>1, <4>2, Bounds DEF Item
    <3> QED BY <1>2, <3>4, <3>5
  <2> QED BY <2>1, <2>3, <2>4, OwnStep
<1> QED BY <1>3, <1>4

\* An edge keeps its order, and what was taken from it stays behind.
LEMMA EdgeStep ==
  ASSUME ShapeInv, OrderInv, NEW n \in Nodes, WorkerStep(n) \/ WorkerFails(n),
         NEW e \in config.edges
  PROVE  /\ Ordered(e)' /\ \A x \in Nat : Taken(e, x) => Taken(e, x)'
         /\ queue[e] # <<>> /\ queue'[e] = Tail(queue[e]) =>
                \A h : h = Head(queue[e]) => Taken(e, h)'
<1> DEFINE q == queue[e]
<1>1. q \in Seq(Item) /\ TypeOK BY DEF ShapeInv, TypeOK
<1>2. /\ Offered(e) <= Offered(e)' /\ Offered(e) \in Nat /\ Offered(e)' \in Nat
      /\ Publish(n, e) => out[n] \in Item /\ Offered(e) < out[n]
                          /\ Offered(e)' = out[n]
  BY OfferedGrows
<1>3. Rising(q) /\ Under(q, Offered(e)) BY DEF OrderInv, Ordered
<1>4. Under(q, Offered(e)')
  <2>1. \A i \in 1..Len(q) : q[i] \in Int BY <1>1, Bounds DEF Item
  <2> HIDE DEF q
  <2> QED BY <1>2, <1>3, <2>1 DEF Under
<1>5. q # <<>> => /\ Rising(Tail(q)) /\ Under(Tail(q), Offered(e)')
                  /\ Above(Tail(q), Head(q)) /\ Head(q) <= Offered(e)'
                  /\ \A x \in Nat : Above(q, x) => Above(Tail(q), x)
  BY <1>1, <1>2, <1>3, <1>4, TailKeeps
<1>6. CASE q # <<>> /\ queue'[e] = Tail(q)
  <2>1. Ordered(e)' BY <1>5, <1>6 DEF Ordered, Rising, Under
  <2>3. ASSUME NEW h, h = Head(q) PROVE Taken(e, h)'
    BY <1>5, <1>6, <2>3 DEF Taken, Above
  <2>2. \A x \in Nat : Taken(e, x) => Taken(e, x)'
    <3> SUFFICES ASSUME NEW x \in Nat, Taken(e, x) PROVE Taken(e, x)'
      OBVIOUS
    <3>1. x <= Offered(e)' BY <1>2 DEF Taken
    <3>2. Above(Tail(q), x) BY <1>5, <1>6 DEF Taken
    <3> QED BY <1>6, <3>1, <3>2 DEF Taken, Above
  <2> QED BY <2>1, <2>2, <2>3
<1>7. CASE ~(q # <<>> /\ queue'[e] = Tail(q))
  <2>1. PICK p : p = queue'[e] OBVIOUS
  <2>2. /\ Rising(p) /\ Under(p, Offered(e)')
        /\ \A x \in Nat : x <= Offered(e) /\ Above(q, x) => Above(p, x)
    <3>1. CASE queue'[e] = q BY <1>3, <1>4, <2>1, <3>1
    <3>2. CASE queue'[e] = Append(q, EOS)
      BY <1>1, <1>2, <1>3, <1>4, <2>1, <3>2, EosKeeps
    <3>3. CASE Publish(n, e) /\ queue'[e] = PutItems(e, out[n])
      BY <1>1, <1>2, <1>3, <2>1, <3>3, PutKeeps
    <3> QED BY <1>1, <1>7, <3>1, <3>2, <3>3, QueueMoves
  <2>3. Ordered(e)' BY <2>1, <2>2 DEF Ordered, Rising, Under
  <2>4. \A x \in Nat : Taken(e, x) => Taken(e, x)'
    <3> SUFFICES ASSUME NEW x \in Nat, Taken(e, x) PROVE Taken(e, x)'
      OBVIOUS
    <3>1. x <= Offered(e)' BY <1>2 DEF Taken
    <3>2. Above(p, x) BY <2>2 DEF Taken
    <3> QED BY <2>1, <3>1, <3>2 DEF Taken, Above
  <2> QED BY <1>7, <2>3, <2>4
<1> QED BY <1>6, <1>7

LEMMA PublishesStep ==
  ASSUME ShapeInv, OrderInv, NEW n \in Nodes, WorkerStep(n) \/ WorkerFails(n),
         NEW m \in Nodes
  PROVE  Publishes(m)'
<1>1. TypeOK /\ config' = config BY WorkerStatic DEF ShapeInv
<1>2. CASE m # n
  BY <1>1, <1>2, OthersKept, LatestKept DEF OrderInv, Publishes
<1>3. CASE m = n
  <2>1. Continues(n) \/ Begins(n) BY OwnStep DEF OrderInv
  <2> QED BY <1>3, <2>1 DEF OrderInv, Publishes, Continues, Begins
<1> QED BY <1>2, <1>3

\* The hands of a worker: what it receives, what it keeps, what it drops.
LEMMA HandsMove ==
  ASSUME TypeOK, NEW n \in Nodes, WorkerStep(n) \/ WorkerFails(n),
         NEW e \in Inputs(n)
  PROVE  \/ held'[n][e] \in {held[n][e], None}
         \/ Receive(n, e) /\ held'[n][e] = Head(queue[e])
<1>1. CASE \E f \in config.edges : Receive(n, f)
  <2>1. PICK f \in config.edges : Receive(n, f) BY <1>1
  <2>2. f \in Inputs(n) /\ held' = [held EXCEPT ![n][f] = Head(queue[f])]
    BY <2>1 DEF Receive, NextInput, TypeOK
  <2>3. held'[n] = [held[n] EXCEPT ![f] = Head(queue[f])]
    BY <2>2 DEF TypeOK
  <2> QED BY <2>1, <2>2, <2>3 DEF TypeOK
<1>2. CASE \E f \in config.edges : DropOldest(n, f)
  <2>1. PICK f \in config.edges : DropOldest(n, f) BY <1>2
  <2>2. CASE stop BY <2>1, <2>2 DEF DropOldest, Unheld, TypeOK
  <2>3. CASE ~stop
    <3>1. f \in Inputs(n) /\ held' = [held EXCEPT ![n][f] = None]
      BY <2>1, <2>3 DEF DropOldest
    <3>2. held'[n] = [held[n] EXCEPT ![f] = None] BY <3>1 DEF TypeOK
    <3> QED BY <3>1, <3>2 DEF TypeOK
  <2> QED BY <2>2, <2>3
<1>3. CASE held' = held \/ held' = Unheld(n) BY <1>3 DEF Unheld, TypeOK
<1>4. CASE \/ NodeReady(n) \/ WorkerRuns(n) \/ Produce(n) \/ SourceEnds(n)
           \/ LoopHead(n) \/ Process(n) \/ WorkerFails(n)
           \/ \E f \in config.edges : \/ KeepLatest(n, f) \/ ReceiveEnds(n, f)
                                      \/ Publish(n, f) \/ PublishEos(n, f)
  <2>1. held' = held \/ held' = Unheld(n)
    BY <1>4 DEF NodeReady, WorkerRuns, Produce, SourceEnds, LoopHead, Process,
          KeepLatest, ReceiveEnds, Publish, PublishEos, WorkerFails,
          NodeStartFails, SourceFails, ActivateFallback, SkipMessage,
          ProcessFails, PublishFails, Consumed, flow
  <2> QED BY <1>3, <2>1
<1> QED BY <1>1, <1>2, <1>4 DEF WorkerStep

LEMMA HoldsStep ==
  ASSUME ShapeInv, OrderInv, NEW n \in Nodes, WorkerStep(n) \/ WorkerFails(n),
         NEW m \in Nodes
  PROVE  Holds(m)'
<1>1. TypeOK /\ config' = config BY WorkerStatic DEF ShapeInv
<1>2. Inputs(m)' = Inputs(m) /\ Inputs(m) \subseteq config.edges
  BY <1>1, StaticGraph, ConfigFacts
<1> SUFFICES ASSUME NEW e \in Inputs(m), held'[m][e] # None
             PROVE  Taken(e, held[m][e])'
  BY <1>2 DEF Holds
<1>3. held[m][e] # None => held[m][e] \in Nat /\ Taken(e, held[m][e])
  BY <1>1, Bounds DEF OrderInv, Holds, TypeOK
<1>4. \A x \in Nat : Taken(e, x) => Taken(e, x)' BY <1>2, EdgeStep
<1>5. CASE held'[m][e] = held[m][e]
  <2>1. PICK x \in Nat : x = held[m][e] BY <1>3, <1>5
  <2>2. Taken(e, x)' BY <1>3, <1>4, <1>5, <2>1
  <2> QED BY <1>5, <2>1, <2>2
<1>6. CASE m = n /\ Receive(n, e) /\ held'[m][e] = Head(queue[e])
  <2>1. queue[e] # <<>> /\ queue'[e] = Tail(queue[e])
    BY <1>1, <1>2, <1>6 DEF Receive, TypeOK
  <2>2. PICK h : h = Head(queue[e]) OBVIOUS
  <2>3. Taken(e, h)' BY <1>2, <2>1, <2>2, EdgeStep
  <2> QED BY <1>6, <2>2, <2>3
<1> QED BY <1>1, <1>5, <1>6, HandsMove, OthersKept

\* What a worker has at hand of its trigger is greater than all it has seen.
LEMMA SawStep ==
  ASSUME ShapeInv, OrderInv, NEW n \in Nodes, WorkerStep(n) \/ WorkerFails(n),
         NEW m \in Nodes
  PROVE  Saw(m)'
<1>1. TypeOK /\ config' = config BY WorkerStatic DEF ShapeInv
<1>2. Inputs(m)' = Inputs(m) /\ Trigger(m)' = Trigger(m)
  BY <1>1, StaticGraph
<1> DEFINE t == Trigger(m)
<1>3. Inputs(m) # {} => t \in Inputs(m) /\ t \in config.edges
  BY <1>1, TriggerExists, ConfigFacts
<1>4. seen[m] \in Seq(1..Count) /\ \A i \in 1..Len(seen[m]) : seen[m][i] \in Nat
  <2>1. seen[m] \in Seq(1..Count) BY <1>1 DEF TypeOK
  <2> QED BY <2>1, IsElement, Bounds
<1>5. \A x \in Nat : Inputs(m) # {} /\ Taken(t, x) => Taken(t, x)'
  <2> SUFFICES ASSUME NEW x \in Nat, Inputs(m) # {}, Taken(t, x)
               PROVE  Taken(t, x)'
    OBVIOUS
  <2>1. PICK e \in config.edges : e = t BY <1>3
  <2>2. Taken(e, x) BY <2>1
  <2>3. Taken(e, x)' BY <2>2, EdgeStep
  <2> QED BY <1>2, <2>1, <2>3
<1>6. Saw(m) BY DEF OrderInv
<1>7. CASE seen'[m] = seen[m]
  <2> SUFFICES ASSUME NEW i \in 1..Len(seen[m])
               PROVE  /\ \A j \in 1..Len(seen[m]) : i < j =>
                                                    seen[m][i] < seen[m][j]
                      /\ Inputs(m) # {} => Taken(t, seen[m][i])'
                      /\ worker'[m] = "receive" /\ t \notin unread'[m] =>
                             seen[m][i] < held'[m][t]
    BY <1>2, <1>7 DEF Saw
  <2>1. \A j \in 1..Len(seen[m]) : i < j => seen[m][i] < seen[m][j]
    BY <1>6 DEF Saw
  <2>2. Inputs(m) # {} => Taken(t, seen[m][i])'
    <3>1. PICK x \in Nat : x = seen[m][i] BY <1>4
    <3>2. Inputs(m) # {} => Taken(t, x) BY <1>6, <3>1 DEF Saw
    <3>3. Inputs(m) # {} => Taken(t, x)' BY <1>5, <3>2
    <3> QED BY <1>2, <1>7, <3>1, <3>3
  <2>3. ASSUME worker'[m] = "receive", t \notin unread'[m]
        PROVE  seen[m][i] < held'[m][t]
    <3>1. CASE worker[m] = "receive" /\ t \notin unread[m]
                                     /\ held'[m][t] = held[m][t]
      BY <1>6, <3>1 DEF Saw
    <3>2. CASE m = n /\ Receive(n, t)
      <4>1. /\ queue[t] # <<>> /\ Head(queue[t]) # EOS /\ t \in Inputs(m)
            /\ held' = [held EXCEPT ![m][t] = Head(queue[t])]
        BY <1>1, <3>2 DEF Receive, NextInput, TypeOK
      <4>2. held'[m][t] = Head(queue[t]) BY <1>1, <4>1 DEF TypeOK
      <4>3. t \in config.edges /\ queue[t] \in Seq(Item)
        BY <1>1, <1>3, <4>1 DEF TypeOK
      <4>4. 1 \in 1..Len(queue[t]) /\ Head(queue[t]) = queue[t][1]
        BY <4>1, <4>3
      <4>5. Taken(t, seen[m][i]) BY <1>6, <4>1 DEF Saw
      <4> QED BY <4>1, <4>2, <4>4, <4>5 DEF Taken, Above
    <3>3. CASE m # n BY <1>6, <2>3, <3>3, <1>1, OthersKept DEF Saw
    <3>4. CASE m = n /\ ~Receive(n, t)
      <4>1. CASE \E e \in config.edges : Receive(n, e) \/ KeepLatest(n, e)
        <5>1. PICK e \in config.edges : Receive(n, e) \/ KeepLatest(n, e)
          BY <4>1
        <5>2. worker[m] = "receive" /\ e \in Inputs(m) /\ worker' = worker
          BY <1>1, <3>4, <5>1 DEF Receive, KeepLatest, NextInput, TypeOK
        <5>3. e # t
          <6>1. ~KeepLatest(n, t) BY <3>4 DEF KeepLatest, Sampled
          <6> QED BY <3>4, <5>1, <6>1
        <5>4. t \notin unread[m]
          BY <1>1, <2>3, <3>4, <5>1, <5>3 DEF Receive, KeepLatest, TypeOK
        <5>5. t \in Inputs(m) BY <1>3, <5>2
        <5>6. held'[m][t] = held[m][t]
          <6>1. CASE held' = held BY <6>1
          <6>2. CASE held' = [held EXCEPT ![n][e] = Head(queue[e])]
            <7>1. held'[n] = [held[n] EXCEPT ![e] = Head(queue[e])]
              BY <1>1, <6>2 DEF TypeOK
            <7> QED BY <1>1, <3>4, <5>3, <5>5, <7>1 DEF TypeOK
          <6> QED BY <5>1, <6>1, <6>2 DEF Receive, KeepLatest
        <5> QED BY <3>1, <5>2, <5>4, <5>6
      <4>2. CASE \E e \in config.edges : DropOldest(n, e)
        <5>1. PICK e \in config.edges : DropOldest(n, e) BY <4>2
        <5>2. ~stop
          BY <1>1, <2>3, <3>4, <5>1 DEF DropOldest, BeginEos, GoTo, TypeOK
        <5>3. /\ worker[m] = "receive" /\ unread[m] = {} /\ e \in Inputs(m)
              /\ held' = [held EXCEPT ![n][e] = None]
              /\ unread'[m] = {e}
          BY <1>1, <3>4, <5>1, <5>2 DEF DropOldest, TypeOK
        <5>4. e # t /\ t \in Inputs(m) BY <1>3, <2>3, <5>3
        <5>5. held'[n] = [held[n] EXCEPT ![e] = None]
          BY <1>1, <5>3 DEF TypeOK
        <5>6. held'[m][t] = held[m][t] BY <1>1, <3>4, <5>4, <5>5 DEF TypeOK
        <5> QED BY <3>1, <5>3, <5>6
      <4>3. CASE ActivateFallback(n)
        BY <2>3, <3>1, <4>3 DEF ActivateFallback, flow
      <4>4. CASE LoopHead(n)
        <5>1. ~IsSource(n) /\ unread'[m] = Inputs(m)
          BY <1>1, <2>3, <3>4, <4>4 DEF LoopHead, BeginEos, GoTo, TypeOK
        <5> QED BY <1>3, <2>3, <3>4, <5>1 DEF IsSource
      <4>5. CASE \/ NodeReady(n) \/ WorkerRuns(n) \/ Produce(n) \/ SourceEnds(n)
                 \/ Process(n) \/ (WorkerFails(n) /\ ~ActivateFallback(n))
                 \/ \E f \in config.edges : \/ ReceiveEnds(n, f) \/ Publish(n, f)
                                            \/ PublishEos(n, f)
        <5>1. worker'[n] # "receive"
          BY <1>1, <4>5 DEF NodeReady, WorkerRuns, Produce, SourceEnds, Process,
             ReceiveEnds, Publish, PublishEos, WorkerFails, NodeStartFails,
             SourceFails, SkipMessage, ProcessFails, PublishFails, Escape,
             BeginEos, BeginPublish, GoTo, Done, TypeOK
        <5> QED BY <2>3, <3>4, <5>1
      <4> QED BY <4>1, <4>2, <4>3, <4>4, <4>5 DEF WorkerStep, WorkerFails
    <3> QED BY <3>2, <3>3, <3>4
  <2> QED BY <2>1, <2>2, <2>3
<1>8. CASE m = n /\ Process(n)
  <2>1. /\ Message(m) \in 1..Count /\ t \in Inputs(m) /\ held[m][t] # None
        /\ \A i \in 1..Len(seen[m]) : seen[m][i] < Message(m)
    <3>1. /\ Message(n) \in 1..Count /\ Trigger(n) \in Inputs(n)
          /\ \A e \in Inputs(n) : held[n][e] \in 1..Count
      BY <1>8, MessageKnown DEF Process
    <3>2. \A i \in 1..Len(seen[n]) : seen[n][i] < Message(n)
      BY <1>6, <1>8, OwnProcess
    <3>3. None \notin 1..Count BY Bounds
    <3> QED BY <1>8, <3>1, <3>2, <3>3
  <2>2. PICK x \in Nat : x = Message(m) BY <2>1, Bounds
  <2>3. seen'[m] = Append(seen[m], x) /\ worker'[m] # "receive"
    BY <1>1, <1>8, <2>2 DEF Process, BeginPublish, GoTo, TypeOK
  <2>4. Taken(t, x)'
    <3>1. Taken(t, x) BY <2>1, <2>2 DEF OrderInv, Holds, Message
    <3> QED BY <1>5, <2>1, <3>1
  <2>5. /\ Len(seen'[m]) = Len(seen[m]) + 1 /\ Len(seen[m]) \in Nat
        /\ \A i \in 1..Len(seen[m]) : seen'[m][i] = seen[m][i]
        /\ seen'[m][Len(seen[m]) + 1] = x
    BY <1>4, <2>3
  <2> SUFFICES ASSUME NEW i \in 1..Len(seen'[m])
               PROVE  /\ \A j \in 1..Len(seen'[m]) : i < j =>
                                                    seen'[m][i] < seen'[m][j]
                      /\ Taken(t, seen[m][i])'
    BY <1>2, <2>1, <2>3 DEF Saw
  <2>6. CASE i = Len(seen[m]) + 1
    <3>1. seen'[m][i] = x BY <2>5, <2>6
    <3>2. Taken(t, seen[m][i])' BY <2>4, <3>1
    <3> QED BY <2>5, <2>6, <3>2
  <2>7. CASE i # Len(seen[m]) + 1
    <3>1. i \in 1..Len(seen[m]) BY <2>5, <2>7
    <3>2. PICK y \in Nat : y = seen[m][i] BY <1>4, <3>1
    <3>3. Taken(t, y) BY <1>6, <2>1, <3>1, <3>2 DEF Saw
    <3>4. Taken(t, y)' BY <1>5, <2>1, <3>3
    <3>5. seen'[m][i] = y BY <2>5, <3>1, <3>2
    <3>6. Taken(t, seen[m][i])' BY <3>4, <3>5
    <3>7. \A j \in 1..Len(seen'[m]) : i < j => seen'[m][i] < seen'[m][j]
      <4> SUFFICES ASSUME NEW j \in 1..Len(seen'[m]), i < j
                   PROVE  seen'[m][i] < seen'[m][j]
        OBVIOUS
      <4>1. CASE j = Len(seen[m]) + 1 BY <2>1, <2>2, <2>5, <3>1, <4>1
      <4>2. CASE j # Len(seen[m]) + 1
        <5>1. j \in 1..Len(seen[m]) BY <2>5, <4>2
        <5>2. seen[m][i] < seen[m][j] BY <1>6, <3>1, <5>1 DEF Saw
        <5> QED BY <2>5, <3>1, <5>1, <5>2
      <4> QED BY <4>1, <4>2
    <3> QED BY <3>6, <3>7
  <2> QED BY <2>6, <2>7
<1>9. CASE m = n /\ ~Process(n)
  <2>1. seen'[n] = seen[n]
    BY <1>9 DEF WorkerStep, WorkerFails, NodeReady, WorkerRuns, Produce,
       SourceEnds, LoopHead, Receive, KeepLatest, ReceiveEnds, DropOldest,
       Publish, PublishEos, NodeStartFails, SourceFails, ActivateFallback,
       SkipMessage, ProcessFails, PublishFails, flow
  <2> QED BY <1>7, <1>9, <2>1
<1> QED BY <1>1, <1>7, <1>8, <1>9, OthersKept

LEMMA OrderElsewhere ==
  ASSUME TypeOK, OrderInv, UNCHANGED <<config, flow, worker>> PROVE OrderInv'
<1>1. \A n \in Nodes : Latest(n)' = Latest(n)
  BY StaticGraph DEF Latest, flow
<1>2. \A e \in Edges : Offered(e)' = Offered(e)
  BY <1>1 DEF Offered, flow, Edges
<1>3. \A n \in Nodes : /\ Inputs(n)' = Inputs(n) /\ Trigger(n)' = Trigger(n)
  BY StaticGraph
<1>4. ASSUME NEW e \in config.edges PROVE Ordered(e)'
  <2>1. Offered(e)' = Offered(e) BY <1>2, ConfigFacts
  <2> QED BY <2>1 DEF OrderInv, Ordered, Rising, Under, flow
<1>5. ASSUME NEW e \in config.edges, NEW x, Taken(e, x) PROVE Taken(e, x)'
  <2>1. Offered(e)' = Offered(e) BY <1>2, ConfigFacts
  <2> QED BY <1>5, <2>1 DEF Taken, Above, flow
<1>6. ASSUME NEW n \in Nodes PROVE Publishes(n)'
  BY <1>1 DEF OrderInv, Publishes, flow
<1>7. ASSUME NEW n \in Nodes PROVE Holds(n)'
  <2> SUFFICES ASSUME NEW e \in Inputs(n), held[n][e] # None
               PROVE  Taken(e, held[n][e])'
    BY <1>3 DEF Holds, flow
  <2>1. PICK x : x = held[n][e] OBVIOUS
  <2>2. Taken(e, x)' BY <1>5, <2>1, ConfigFacts DEF OrderInv, Holds
  <2> QED BY <2>1, <2>2 DEF flow
<1>8. ASSUME NEW n \in Nodes PROVE Saw(n)'
  <2> SUFFICES ASSUME NEW i \in 1..Len(seen[n])
               PROVE  /\ \A j \in 1..Len(seen[n]) : i < j =>
                                                  seen[n][i] < seen[n][j]
                      /\ Inputs(n) # {} => Taken(Trigger(n), seen[n][i])'
                      /\ worker[n] = "receive" /\ Trigger(n) \notin unread[n] =>
                             seen[n][i] < held[n][Trigger(n)]
    BY <1>3 DEF Saw, flow
  <2>1. Saw(n) BY DEF OrderInv
  <2>2. ASSUME Inputs(n) # {} PROVE Taken(Trigger(n), seen[n][i])'
    <3>1. PICK e \in config.edges : e = Trigger(n)
      BY <2>2, TriggerExists, ConfigFacts
    <3>2. PICK x : x = seen[n][i] OBVIOUS
    <3>3. Taken(e, x)' BY <1>5, <2>1, <2>2, <3>1, <3>2 DEF Saw
    <3> QED BY <1>3, <3>1, <3>2, <3>3 DEF flow
  <2> QED BY <2>1, <2>2 DEF Saw
<1> QED BY <1>4, <1>6, <1>7, <1>8 DEF OrderInv

LEMMA OrderNext == ASSUME ShapeInv, OrderInv, [Next]_vars PROVE OrderInv'
<1>1. TypeOK BY DEF ShapeInv
<1>2. CASE \E n \in Nodes : WorkerStep(n) \/ WorkerFails(n)
  <2>1. PICK n \in Nodes : WorkerStep(n) \/ WorkerFails(n) BY <1>2
  <2>2. config' = config BY <1>1, <2>1, WorkerStatic
  <2>3. \A m \in Nodes : Publishes(m)' BY <2>1, PublishesStep
  <2>4. \A m \in Nodes : Holds(m)' BY <2>1, HoldsStep
  <2>5. \A m \in Nodes : Saw(m)' BY <2>1, SawStep
  <2>6. \A e \in config.edges : Ordered(e)' BY <2>1, EdgeStep
  <2> QED BY <2>2, <2>3, <2>4, <2>5, <2>6 DEF OrderInv
<1>3. CASE UNCHANGED <<config, flow, worker>>
  BY <1>1, <1>3, OrderElsewhere
<1>4. CASE \/ MainStarts \/ MainSetsDeadline \/ MainEnds
           \/ DeadlinePasses \/ JoinGivesUp \/ RequestStop
           \/ \E n \in Nodes : WatchdogStops(n)
  BY <1>3, <1>4 DEF MainStarts, MainSetsDeadline, MainEnds, DeadlinePasses,
     JoinGivesUp, RequestStop, WatchdogStops
<1>5. CASE UNCHANGED vars BY <1>3, <1>5 DEF vars
<1> QED BY <1>2, <1>4, <1>5 DEF Next

LEMMA OrderInit == ASSUME Init PROVE OrderInv
<1>1. /\ \A n \in Nodes : seen[n] = <<>> /\ worker[n] = "starting"
      /\ \A n \in Nodes : \A e \in Inputs(n) : held[n][e] = None
      /\ \A e \in config.edges : queue[e] = <<>>
  BY DEF Init
<1>2. Len(<<>>) = 0 OBVIOUS
<1> QED
  BY <1>1, <1>2 DEF OrderInv, Publishes, Holds, Saw, Ordered, Rising, Under

\* Whatever the edges drop, a node processes messages in the order they were
\* produced and none of them twice, in every graph and under every way to join:
\* what is still to come on an edge is greater than what was taken from it.
THEOREM MessagesStayInOrder == Spec => []OrderPreserved
<1>1. Init => ShapeInv /\ OrderInv BY ShapeInit, OrderInit
<1>2. ShapeInv /\ OrderInv /\ [Next]_vars => (ShapeInv /\ OrderInv)'
  BY ShapeNext, OrderNext
<1>3. OrderInv => OrderPreserved BY DEF OrderInv, Saw, OrderPreserved
<1> QED BY <1>1, <1>2, <1>3, PTL DEF Spec

-----------------------------------------------------------------------------
(* The completeness of a run reported completed.                           *)

\* Nothing has gone wrong, and nothing may be dropped.
Clean ==
    /\ error = None /\ ~requested /\ isolated = {}
    /\ \A e \in config.edges : config.policy[e] = "block"
    /\ \A n \in Nodes : config.failure[n] # "skip"

Ended(n) == worker[n] \in {"eos", "done"}

\* Then the edges are closed only at the end, when every worker has ended.
Undisturbed ==
    /\ main # "joining"
    /\ main = "ended" => AllDone
    /\ main # "ended" => ~stop

\* A node has processed all messages up to its last one, and ends at the last
\* of all.
NoGap(n) ==
    /\ \A i \in 1..Len(seen[n]) : seen[n][i] = i
    /\ Ended(n) => Latest(n) = Count

\* It holds the next message on every port it has read, or, where the newest is
\* taken, the next or the last one of its trigger.
InHand(n, e) ==
    IF config.sync # "latest"
    THEN held[n][e] = IF worker[n] = "receive" /\ e \notin unread[n]
                      THEN Latest(n) + 1 ELSE None
    ELSE /\ held[n][e] = None => Latest(n) = 0
         /\ e = Trigger(n) /\ held[n][e] # None =>
                held[n][e] = IF worker[n] = "receive" /\ e \notin unread[n]
                             THEN Latest(n) + 1 ELSE Latest(n)

\* The last message its consumer has taken from an edge.
LastTaken(e) == IF held[e[2]][e] = None THEN Latest(e[2]) ELSE held[e[2]][e]

\* An edge holds what was offered to it and not taken, and EOS after that.
Contents(e) ==
    \/ /\ Len(queue[e]) = Offered(e) - LastTaken(e)
       /\ \A i \in 1..Len(queue[e]) : queue[e][i] = LastTaken(e) + i
    \/ /\ Len(queue[e]) = Offered(e) - LastTaken(e) + 1
       /\ \A i \in 1..Len(queue[e]) :
             queue[e][i] = IF i = Len(queue[e]) THEN EOS ELSE LastTaken(e) + i
       /\ Ended(e[1]) /\ ~(worker[e[1]] = "eos" /\ e \in todo[e[1]])

CleanInv ==
    /\ Undisturbed
    /\ \A n \in Nodes : NoGap(n)
    /\ \A n \in Nodes : ~Ended(n) => \A e \in Inputs(n) : InHand(n, e)
    /\ \A e \in config.edges : ~Ended(e[2]) => Contents(e)

LEMMA CleanBefore == ASSUME TypeOK, Next, Clean' PROVE Clean
<1>1. config' = config BY StaticConfig
<1>2. error = None /\ ~requested /\ isolated = {}
  <2>1. ASSUME NEW n \in Nodes, WorkerStep(n)
        PROVE  error' = error /\ requested' = requested
               /\ isolated' = isolated
    BY <2>1 DEF WorkerStep, NodeReady, WorkerRuns, Produce, SourceEnds, LoopHead,
       Receive, KeepLatest, ReceiveEnds, DropOldest, Process, Publish, PublishEos,
       control
  <2>2. ASSUME NEW n \in Nodes, WorkerFails(n)
        PROVE  /\ error' = error \/ error = None
               /\ requested' = requested /\ isolated \subseteq isolated'
    BY <2>2 DEF WorkerFails, NodeStartFails, SourceFails, ActivateFallback,
       SkipMessage, ProcessFails, PublishFails, Escape, RecordError, control
  <2>3. ASSUME \/ MainStarts \/ MainSetsDeadline \/ MainEnds
               \/ DeadlinePasses \/ JoinGivesUp \/ RequestStop
               \/ \E n \in Nodes : WatchdogStops(n)
        PROVE  /\ error' = error \/ error = None
               /\ (requested => requested') /\ isolated' = isolated
    BY <2>3 DEF MainStarts, MainSetsDeadline, MainEnds, DeadlinePasses,
       JoinGivesUp, RequestStop, WatchdogStops, RecordError, control
  <2>4. error' = None /\ ~requested' /\ isolated' = {} BY DEF Clean
  <2>5. CASE \E n \in Nodes : WorkerStep(n) BY <2>1, <2>4, <2>5
  <2>6. CASE \E n \in Nodes : WorkerFails(n) BY <2>2, <2>4, <2>6
  <2>7. CASE \/ MainStarts \/ MainSetsDeadline \/ MainEnds
             \/ DeadlinePasses \/ JoinGivesUp \/ RequestStop
             \/ \E n \in Nodes : WatchdogStops(n)
    BY <2>3, <2>4, <2>7
  <2> QED BY <2>5, <2>6, <2>7 DEF Next
<1> QED BY <1>1, <1>2 DEF Clean

\* In a clean run the edges are open while a worker works, and none of them
\* fails but for the activation of a fallback.
LEMMA CleanWorker ==
  ASSUME TypeOK, Clean, Undisturbed, NEW n \in Nodes,
         WorkerStep(n) \/ WorkerFails(n), Clean'
  PROVE  /\ ~stop /\ main # "ended" /\ UNCHANGED <<config, main, stop>>
         /\ WorkerStep(n) \/ ActivateFallback(n)
<1>1. worker[n] # "done"
  <2>1. CASE WorkerStep(n)
    BY <2>1 DEF WorkerStep, NodeReady, WorkerRuns, Produce, SourceEnds, LoopHead,
       Receive, NextInput, KeepLatest, ReceiveEnds, DropOldest, Process, Received,
       Publish, PublishEos
  <2>2. CASE WorkerFails(n)
    BY <2>2 DEF WorkerFails, NodeStartFails, SourceFails, ActivateFallback,
       SkipMessage, ProcessFails, PublishFails, Received
  <2> QED BY <2>1, <2>2
<1>2. ~stop /\ main # "ended" BY <1>1 DEF Undisturbed, AllDone
<1>3. ~Escape(n) /\ ~RecordError(n) /\ config.failure[n] # "skip"
  BY Bounds DEF Clean, Escape, RecordError
<1>4. WorkerStep(n) \/ ActivateFallback(n)
  BY <1>3 DEF WorkerFails, NodeStartFails, SourceFails, SkipMessage,
     ProcessFails, PublishFails
<1>5. UNCHANGED <<config, main, stop>>
  <2>1. CASE WorkerStep(n)
    BY <2>1 DEF WorkerStep, NodeReady, WorkerRuns, Produce, SourceEnds, LoopHead,
       Receive, KeepLatest, ReceiveEnds, DropOldest, Process, Publish, PublishEos,
       control
  <2>2. CASE ActivateFallback(n) BY <2>2 DEF ActivateFallback, control
  <2> QED BY <1>4, <2>1, <2>2
<1> QED BY <1>2, <1>4, <1>5

\* Messages in hand are the same number on every port, but where the newest is
\* taken, and the trigger's is the next one.
LEMMA NextInHand ==
  ASSUME ShapeInv, CleanInv, NEW n \in Nodes, worker[n] = "receive",
         unread[n] = {}
  PROVE  /\ Inputs(n) # {} /\ Trigger(n) \in Inputs(n)
         /\ Message(n) = Latest(n) + 1
         /\ \A e \in Inputs(n) : held[n][e] # None
         /\ config.sync # "latest" =>
                \A e \in Inputs(n) : held[n][e] = Latest(n) + 1
<1>1. Inputs(n) # {} /\ \A e \in Inputs(n) : held[n][e] # None
  BY DEF ShapeInv, HandsInv
<1>2. Trigger(n) \in Inputs(n) BY <1>1, TriggerExists DEF ShapeInv
<1>3. \A e \in Inputs(n) : InHand(n, e) BY DEF CleanInv, Ended
<1> QED BY <1>1, <1>2, <1>3 DEF InHand, Message

LEMMA NothingDropped ==
  ASSUME ShapeInv, CleanInv, NEW n \in Nodes, NEW e \in config.edges
  PROVE  ~DropOldest(n, e)
<1> SUFFICES ASSUME DropOldest(n, e) PROVE FALSE
  OBVIOUS
<1>1. worker[n] = "receive" /\ unread[n] = {} /\ config.sync = "matching"
      /\ ~Matches(n)
  BY DEF DropOldest
<1>2. \A f \in Inputs(n) : held[n][f] = Latest(n) + 1 BY <1>1, NextInHand
<1>3. Latest(n) \in Nat /\ config.tolerance \in Nat
  BY LatestType, ConfigFacts, Bounds DEF ShapeInv
<1>4. Matches(n) BY <1>2, <1>3 DEF Matches
<1> QED BY <1>1, <1>4

LEMMA CleanProcess ==
  ASSUME ShapeInv, OrderInv, CleanInv, NEW n \in Nodes, Process(n)
  PROVE  /\ Latest(n)' = Latest(n) + 1
         /\ \A i \in 1..Len(seen'[n]) : seen'[n][i] = i
<1>1. Received(n) /\ config' = config
      /\ seen' = [seen EXCEPT ![n] = Append(@, Message(n))]
  BY DEF Process
<1>2. Message(n) = Latest(n) + 1 /\ Message(n) \in 1..Count /\ Inputs(n) # {}
  BY <1>1, NextInHand, MessageKnown DEF Received
<1>3. Latest(n)' = Message(n) BY OwnProcess DEF OrderInv
<1>4. seen[n] \in Seq(1..Count) /\ seen'[n] = Append(seen[n], Message(n))
  BY <1>1 DEF ShapeInv, TypeOK
<1>5. NoGap(n) BY DEF CleanInv
<1>6. Latest(n) = Len(seen[n])
  <2>1. CASE seen[n] = <<>> BY <1>2, <2>1 DEF Latest, IsSource
  <2>2. CASE seen[n] # <<>>
    <3>1. Len(seen[n]) \in 1..Len(seen[n]) BY <1>4, <2>2
    <3> QED BY <1>2, <1>5, <2>2, <3>1 DEF Latest, IsSource, NoGap
  <2> QED BY <2>1, <2>2
<1>7. /\ Len(seen'[n]) = Len(seen[n]) + 1 /\ Len(seen[n]) \in Nat
      /\ \A i \in 1..Len(seen[n]) : seen'[n][i] = seen[n][i]
      /\ seen'[n][Len(seen[n]) + 1] = Message(n)
  BY <1>2, <1>4
<1>8. \A i \in 1..Len(seen'[n]) : seen'[n][i] = i
  BY <1>2, <1>5, <1>6, <1>7 DEF NoGap
<1> QED BY <1>2, <1>3, <1>8

\* A node that is not the one that steps, and every node but for its end.
LEMMA NoGapStep ==
  ASSUME ShapeInv, OrderInv, CleanInv, Clean, Clean', NEW n \in Nodes,
         WorkerStep(n) \/ WorkerFails(n), NEW m \in Nodes
  PROVE  NoGap(m)'
<1>1. /\ TypeOK /\ config' = config /\ ~stop
      /\ WorkerStep(n) \/ ActivateFallback(n)
  BY CleanWorker DEF ShapeInv, CleanInv
<1>2. NoGap(m) BY DEF CleanInv
<1>3. CASE m # n
  BY <1>1, <1>2, <1>3, OthersKept, LatestKept DEF NoGap, Ended
<1>4. CASE m = n /\ Process(n)
  <2>1. ~Ended(n)'
    BY <1>1, <1>4 DEF Process, BeginPublish, GoTo, Ended, TypeOK
  <2> QED BY <1>4, <2>1, CleanProcess DEF NoGap
<1>5. CASE m = n /\ Produce(n)
  <2>1. ~Ended(n)' /\ seen' = seen
    BY <1>1, <1>5 DEF Produce, BeginPublish, GoTo, Ended, TypeOK
  <2> QED BY <1>2, <1>5, <2>1 DEF NoGap
<1>6. CASE m = n /\ SourceEnds(n)
  <2>1. seen' = seen /\ produced' = produced /\ IsSource(n)
        /\ produced[n] = Count
    BY <1>1, <1>6 DEF SourceEnds
  <2>2. Latest(n)' = Count BY <1>1, <2>1, LatestKept DEF Latest
  <2> QED BY <1>2, <1>6, <2>1, <2>2 DEF NoGap
<1>7. CASE m = n /\ \E e \in config.edges : ReceiveEnds(n, e)
  <2>1. PICK e \in config.edges : ReceiveEnds(n, e) BY <1>7
  <2>2. /\ worker[n] = "receive" /\ e \in unread[n] /\ e \in Inputs(n)
        /\ queue[e] # <<>> /\ queue[e][1] = EOS /\ seen' = seen
        /\ produced' = produced /\ (~Sampled(n, e) \/ held[n][e] = None)
    <3>1. worker[n] = "receive" /\ e \in unread[n] /\ e \in Inputs(n)
          /\ (~Sampled(n, e) \/ held[n][e] = None)
      BY <1>1, <2>1 DEF ReceiveEnds, NextInput, TypeOK
    <3>2. queue[e] # <<>> /\ Head(queue[e]) = EOS
      BY <1>1, <2>1 DEF ReceiveEnds
    <3>3. Head(queue[e]) = queue[e][1] BY <1>1, <3>2 DEF TypeOK
    <3> QED BY <2>1, <3>1, <3>2, <3>3 DEF ReceiveEnds
  <2>3. /\ e[2] = n /\ e[1] \in Nodes /\ Contents(e) /\ InHand(n, e)
        /\ NoGap(e[1])
    BY <1>1, <2>2, ConfigFacts DEF Inputs, CleanInv, Ended
  <2>4. Latest(n) \in Nat /\ (held[n][e] # None => held[n][e] \in 1..Count)
    BY <1>1, <2>2, LatestType, Bounds DEF TypeOK
  <2>5. LastTaken(e) \in Nat BY <2>3, <2>4, Bounds DEF LastTaken
  <2>6. Len(queue[e]) \in Nat \ {0} BY <1>1, <2>2 DEF TypeOK
  <2>7. Offered(e) = LastTaken(e) /\ Ended(e[1])
    BY <2>2, <2>3, <2>5, <2>6, OfferedType, Bounds DEF Contents, EOS
  <2>8. LastTaken(e) = Count
    BY <2>3, <2>7 DEF NoGap, Offered, Ended
  <2>9. Latest(n) = Count
    <3>1. CASE held[n][e] = None BY <2>3, <2>8, <3>1 DEF LastTaken
    <3>2. CASE held[n][e] # None
      <4>1. ~Sampled(n, e) BY <2>2, <3>2
      <4>2. config.sync = "latest" /\ e = Trigger(n)
        BY <2>2, <2>3, <3>2, <4>1 DEF Sampled, InHand
      <4> QED BY <2>2, <2>3, <2>8, <3>2, <4>2 DEF InHand, LastTaken
    <3> QED BY <3>1, <3>2
  <2>10. Latest(n)' = Count BY <1>1, <2>2, <2>9, LatestKept
  <2> QED BY <1>2, <1>7, <2>2, <2>10 DEF NoGap
<1>8. CASE m = n /\ \E e \in config.edges : PublishEos(n, e)
  <2>1. Ended(n) /\ UNCHANGED <<seen, produced>>
    BY <1>8 DEF PublishEos, Ended
  <2> QED BY <1>1, <1>2, <1>8, <2>1, LatestKept DEF NoGap
<1>9. CASE /\ m = n
           /\ \/ NodeReady(n) \/ WorkerRuns(n) \/ LoopHead(n)
              \/ ActivateFallback(n)
              \/ \E e \in config.edges : \/ Receive(n, e) \/ KeepLatest(n, e)
                                         \/ Publish(n, e)
  <2>1. UNCHANGED seen
    BY <1>9 DEF NodeReady, WorkerRuns, LoopHead, ActivateFallback, Receive,
       KeepLatest, Publish, flow
  <2>2. ~Ended(n)'
    BY <1>1, <1>9 DEF NodeReady, WorkerRuns, LoopHead, ActivateFallback, Received,
       Receive, KeepLatest, NextInput, Publish, Done, GoTo, Ended, TypeOK
  <2> QED BY <1>2, <1>9, <2>1, <2>2 DEF NoGap
<1> QED
  BY <1>1, <1>3, <1>4, <1>5, <1>6, <1>7, <1>8, <1>9, NothingDropped
     DEF WorkerStep

\* A worker's hands, one action at a time.
LEMMA InHandStep ==
  ASSUME ShapeInv, OrderInv, CleanInv, Clean, Clean', NEW n \in Nodes,
         WorkerStep(n) \/ WorkerFails(n), NEW m \in Nodes, ~Ended(m)',
         NEW e \in Inputs(m)
  PROVE  InHand(m, e)'
<1>1. /\ TypeOK /\ config' = config /\ ~stop
      /\ WorkerStep(n) \/ ActivateFallback(n)
  BY CleanWorker DEF ShapeInv, CleanInv
<1>2. Trigger(m)' = Trigger(m) BY <1>1, StaticGraph
<1>3. ~IsSource(m) /\ e \in config.edges /\ e[2] = m
  BY <1>1, ConfigFacts DEF IsSource, Inputs
<1>4. CASE m # n
  <2>1. InHand(m, e)
    BY <1>1, <1>4, OthersKept DEF CleanInv, Ended
  <2> QED BY <1>1, <1>2, <1>4, <2>1, OthersKept, LatestKept DEF InHand
<1>5. CASE m = n /\ Process(n)
  <2>1. /\ Latest(n)' = Latest(n) + 1 /\ worker'[n] # "receive"
        /\ Latest(n) \in Nat /\ held' = Consumed(n)
    <3>1. worker'[n] # "receive"
      BY <1>1, <1>5 DEF Process, BeginPublish, GoTo, TypeOK
    <3>2. held' = Consumed(n) BY <1>5 DEF Process
    <3> QED BY <1>1, <1>5, <3>1, <3>2, CleanProcess, LatestType, Bounds
  <2>2. /\ held[n][e] # None /\ Message(n) = Latest(n) + 1
    BY <1>5, NextInHand DEF Process, Received
  <2>3. CASE config.sync = "latest"
    BY <1>1, <1>2, <1>5, <2>1, <2>2, <2>3 DEF Consumed, InHand, Message
  <2>4. CASE config.sync # "latest"
    <3>1. held'[n][e] = None
      BY <1>1, <1>5, <2>1, <2>4 DEF Consumed, Unheld, TypeOK
    <3> QED BY <1>1, <1>5, <2>1, <2>4, <3>1 DEF InHand
  <2> QED BY <2>3, <2>4
<1>6. CASE m = n /\ LoopHead(n)
  <2>1. /\ worker[n] = "head" /\ worker'[n] = "receive"
        /\ unread'[n] = Inputs(n) /\ UNCHANGED <<held, seen, produced>>
    BY <1>1, <1>6 DEF LoopHead, GoTo, TypeOK
  <2>2. InHand(m, e) BY <1>6, <2>1 DEF CleanInv, Ended
  <2> QED BY <1>1, <1>2, <1>6, <2>1, <2>2, LatestKept DEF InHand
<1>7. CASE m = n /\ Receive(n, e)
  <2>1. /\ worker[n] = "receive" /\ worker' = worker /\ e \in unread[n]
        /\ queue[e] # <<>> /\ Head(queue[e]) # EOS
        /\ held' = [held EXCEPT ![n][e] = Head(queue[e])]
        /\ unread' = [unread EXCEPT ![n] = IF Sampled(n, e) THEN @ ELSE @ \ {e}]
        /\ UNCHANGED <<seen, produced>>
    BY <1>7 DEF Receive, NextInput
  <2>2. Head(queue[e]) = queue[e][1] /\ Len(queue[e]) \in Nat \ {0}
    BY <1>1, <1>3, <2>1 DEF TypeOK
  <2>3. held'[n][e] = queue[e][1] BY <1>1, <1>7, <2>1, <2>2 DEF TypeOK
  <2>4. Contents(e) /\ InHand(n, e)
    BY <1>3, <1>7, <2>1 DEF CleanInv, Ended
  <2>5. queue[e][1] = LastTaken(e) + 1 BY <2>1, <2>2, <2>4 DEF Contents
  <2>6. queue[e][1] \in 0..Count
    <3>1. queue[e] \in Seq(0..Count) BY <1>1, <1>3 DEF TypeOK, Item
    <3>2. 1 \in 1..Len(queue[e]) BY <2>2
    <3> QED BY <3>1, <3>2, IsElement
  <2>7. Latest(n) \in Nat BY <1>1, LatestType, Bounds
  <2>8. held'[n][e] # None BY <2>3, <2>6, Bounds
  <2>9. CASE config.sync # "latest"
    <3>1. held[n][e] = None BY <2>1, <2>4, <2>9 DEF InHand
    <3>2. held'[n][e] = Latest(n) + 1
      BY <1>3, <1>7, <2>3, <2>5, <3>1 DEF LastTaken
    <3>3. e \notin unread'[n] BY <1>1, <2>1, <2>9 DEF Sampled, TypeOK
    <3> QED BY <1>1, <1>7, <2>1, <2>9, <3>2, <3>3, LatestKept DEF InHand
  <2>10. CASE config.sync = "latest" /\ e = Trigger(n)
    <3>1. LastTaken(e) = Latest(n)
      BY <1>3, <1>7, <2>1, <2>4, <2>10 DEF InHand, LastTaken
    <3>2. e \notin unread'[n] BY <1>1, <2>1, <2>10 DEF Sampled, TypeOK
    <3>3. held'[n][e] = Latest(n) + 1 BY <2>3, <2>5, <3>1
    <3> QED BY <1>1, <1>2, <1>7, <2>1, <2>8, <2>10, <3>2, <3>3, LatestKept
            DEF InHand
  <2>11. CASE config.sync = "latest" /\ e # Trigger(n)
    BY <1>1, <1>2, <1>7, <2>8, <2>11 DEF InHand
  <2> QED BY <2>9, <2>10, <2>11
<1>8. CASE m = n /\ \E f \in config.edges : Receive(n, f) /\ f # e
  <2>1. PICK f \in config.edges : Receive(n, f) /\ f # e BY <1>8
  <2>2. /\ worker[n] = "receive" /\ worker' = worker /\ f \in Inputs(n)
        /\ held' = [held EXCEPT ![n][f] = Head(queue[f])]
        /\ UNCHANGED <<seen, produced>>
        /\ unread' = [unread EXCEPT ![n] = IF Sampled(n, f) THEN @ ELSE @ \ {f}]
    BY <1>1, <2>1 DEF Receive, NextInput, TypeOK
  <2>3. held'[n] = [held[n] EXCEPT ![f] = Head(queue[f])]
    BY <1>1, <2>2 DEF TypeOK
  <2>4. held'[n][e] = held[n][e] /\ (e \in unread'[n] <=> e \in unread[n])
    BY <1>1, <1>8, <2>1, <2>2, <2>3 DEF TypeOK
  <2>5. InHand(m, e) BY <1>8, <2>2 DEF CleanInv, Ended
  <2> QED BY <1>1, <1>2, <1>8, <2>2, <2>4, <2>5, LatestKept DEF InHand
<1>9. CASE m = n /\ \E f \in config.edges : KeepLatest(n, f)
  <2>1. PICK f \in config.edges : KeepLatest(n, f) BY <1>9
  <2>2. /\ worker[n] = "receive" /\ worker' = worker
        /\ config.sync = "latest" /\ f # Trigger(n)
        /\ UNCHANGED <<held, seen, produced>>
        /\ unread' = [unread EXCEPT ![n] = @ \ {f}]
    BY <2>1 DEF KeepLatest, NextInput, Sampled
  <2>3. e = Trigger(n) => (e \in unread'[n] <=> e \in unread[n])
    BY <1>1, <2>2 DEF TypeOK
  <2>4. InHand(m, e) BY <1>9, <2>2 DEF CleanInv, Ended
  <2> QED BY <1>1, <1>2, <1>9, <2>2, <2>3, <2>4, LatestKept DEF InHand
<1>10. CASE m = n /\ \/ NodeReady(n) \/ WorkerRuns(n) \/ ActivateFallback(n)
                     \/ \E f \in config.edges : Publish(n, f)
  <2>1. /\ UNCHANGED <<held, unread, seen, produced>> /\ ~Ended(n)
        /\ \/ worker' = worker
           \/ worker[n] # "receive" /\ worker'[n] # "receive"
    BY <1>1, <1>10 DEF NodeReady, WorkerRuns, ActivateFallback, Received, Publish,
       Done, GoTo, Ended, TypeOK, flow
  <2>2. InHand(m, e) BY <1>10, <2>1 DEF CleanInv
  <2> QED BY <1>1, <1>2, <1>10, <2>1, <2>2, LatestKept DEF InHand
<1>11. CASE m = n /\ \/ SourceEnds(n) \/ Produce(n)
                     \/ \E f \in config.edges : ReceiveEnds(n, f)
                                                \/ PublishEos(n, f)
  BY <1>1, <1>3, <1>11 DEF Produce, SourceEnds, ReceiveEnds, PublishEos, BeginEos,
     Done, GoTo, Ended, TypeOK
<1> QED
  BY <1>1, <1>4, <1>5, <1>6, <1>7, <1>8, <1>9, <1>10, <1>11, NothingDropped
     DEF WorkerStep

\* A worker that has come to its end does no more than publish EOS.
LEMMA EndedStays ==
  ASSUME TypeOK, NEW n \in Nodes, Ended(n), WorkerStep(n) \/ ActivateFallback(n)
  PROVE  /\ Ended(n)' /\ \E f \in config.edges : PublishEos(n, f)
         /\ todo'[n] \subseteq todo[n] /\ worker'[n] \in {worker[n], "done"}
<1>1. \E f \in config.edges : PublishEos(n, f)
  BY DEF WorkerStep, NodeReady, WorkerRuns, Produce, SourceEnds, LoopHead,
     Receive, NextInput, KeepLatest, ReceiveEnds, DropOldest, Process, Received,
     Publish, ActivateFallback, Ended
<1>2. PICK f \in config.edges : PublishEos(n, f) BY <1>1
<1> QED BY <1>1, <1>2 DEF PublishEos, Done, GoTo, Ended, TypeOK

\* What a clean step offers an edge: the message it publishes there, or nothing.
LEMMA OfferedExactly ==
  ASSUME ShapeInv, OrderInv, CleanInv, Clean, Clean', NEW n \in Nodes,
         WorkerStep(n) \/ WorkerFails(n), NEW e \in config.edges
  PROVE  /\ Publish(n, e) =>
                Offered(e)' = Offered(e) + 1 /\ out[n] = Offered(e) + 1
         /\ ~Publish(n, e) => Offered(e)' = Offered(e)
<1>1. /\ TypeOK /\ config' = config /\ ~stop /\ e[1] \in Nodes
      /\ WorkerStep(n) \/ ActivateFallback(n)
  BY CleanWorker, ConfigFacts DEF ShapeInv, CleanInv
<1>2. CASE e[1] # n
  <2>1. Offered(e)' = Offered(e)
    BY <1>1, <1>2, OthersKept, LatestKept DEF Offered
  <2>2. ~Publish(n, e) BY <1>1, <1>2 DEF Publish, First, TypeOK, Outputs
  <2> QED BY <2>1, <2>2
<1>3. CASE e[1] = n
  <2>1. /\ Publishes(n) /\ e \in Outputs(n) /\ Latest(n) \in Nat
    BY <1>1, <1>3, LatestType, Bounds DEF OrderInv, Outputs
  <2>2. CASE Publish(n, e)
    <3>1. Offered(e)' = out[n] BY <2>2, OfferedGrows
    <3>2. worker[n] = "publish" /\ e \in todo[n]
      BY <2>2 DEF Publish, First
    <3> QED BY <1>3, <2>1, <2>2, <3>1, <3>2 DEF Offered, Publishes
  <2>3. CASE \E f \in config.edges : Publish(n, f) /\ f # e
    <3>1. PICK f \in config.edges : Publish(n, f) /\ f # e BY <2>3
    <3>2. /\ worker[n] = "publish" /\ Done(n, f, "head") /\ f \in todo[n]
          /\ out' = [out EXCEPT ![n] = IF todo[n] = {f} THEN None ELSE @]
          /\ UNCHANGED <<seen, produced>>
      BY <3>1 DEF Publish, First
    <3>3. Latest(n)' = Latest(n) BY <1>1, <3>2, LatestKept
    <3>4. CASE e \in todo[n]
      <4>1. worker'[n] = "publish" /\ e \in todo'[n] /\ out'[n] = out[n]
        BY <1>1, <3>1, <3>2, <3>4 DEF Done, GoTo, TypeOK
      <4>2. ~Publish(n, e)
        <5>1. \A r, s \in todo[n] :
                  First(todo[n], r) /\ First(todo[n], s) => r = s
          <6> SUFFICES ASSUME NEW r \in todo[n], NEW s \in todo[n],
                              First(todo[n], r), First(todo[n], s)
                       PROVE  r = s
            OBVIOUS
          <6>1. r \in Edges /\ s \in Edges BY <1>1, ConfigFacts DEF TypeOK
          <6>2. Rank[r[1]] = Rank[s[1]] /\ Rank[r[2]] = Rank[s[2]]
            BY <6>1, Bounds DEF First, Edges
          <6> QED BY <6>1, <6>2, GraphAssumption DEF Edges
        <5> QED BY <3>1, <3>2, <3>4, <5>1 DEF Publish
      <4> QED BY <1>3, <3>2, <3>4, <4>1, <4>2 DEF Offered
    <3>5. CASE e \notin todo[n]
      <4>1. e \notin todo'[n] BY <1>1, <3>2, <3>5 DEF Done, TypeOK
      <4>2. ~Publish(n, e) BY <3>5 DEF Publish, First
      <4> QED BY <1>3, <3>3, <3>5, <4>1, <4>2 DEF Offered
    <3> QED BY <3>4, <3>5
  <2>4. CASE Produce(n) \/ Process(n)
    <3>1. Begins(n) BY <1>1, <2>4, OwnProduce, OwnProcess DEF OrderInv
    <3>2. Latest(n)' = Latest(n) + 1
      <4>1. CASE Produce(n)
        <5>1. IsSource(n) /\ produced' = [produced EXCEPT ![n] = @ + 1]
          BY <4>1 DEF Produce
        <5>2. IsSource(n)' BY <1>1, <5>1, StaticGraph
        <5> QED BY <1>1, <5>1, <5>2 DEF Latest, TypeOK
      <4>2. CASE Process(n) BY <4>2, CleanProcess
      <4> QED BY <2>4, <4>1, <4>2
    <3>3. Offered(e) = Latest(n) BY <1>3, <3>1 DEF Offered, Begins
    <3>4. Offered(e)' = Latest(n)' - 1
      BY <1>3, <2>1, <3>1 DEF Offered, Begins
    <3>5. ~Publish(n, e) BY <3>1 DEF Publish, Begins
    <3> QED BY <2>1, <3>2, <3>3, <3>4, <3>5
  <2>5. CASE \/ NodeReady(n) \/ WorkerRuns(n) \/ SourceEnds(n) \/ LoopHead(n)
             \/ ActivateFallback(n)
             \/ \E f \in config.edges : \/ Receive(n, f) \/ KeepLatest(n, f)
                                        \/ ReceiveEnds(n, f) \/ PublishEos(n, f)
    <3>1. UNCHANGED <<seen, produced>>
      BY <2>5 DEF NodeReady, WorkerRuns, SourceEnds, LoopHead, ActivateFallback,
         Receive, KeepLatest, ReceiveEnds, PublishEos, flow
    <3>2. worker[n] # "publish" /\ worker'[n] # "publish"
      BY <1>1, <2>5 DEF NodeReady, WorkerRuns, SourceEnds, LoopHead,
         ActivateFallback, Received, Receive, KeepLatest, ReceiveEnds, NextInput,
         PublishEos, BeginEos, Done, GoTo, TypeOK
    <3>3. ~Publish(n, e) BY <3>2 DEF Publish
    <3> QED BY <1>1, <1>3, <3>1, <3>2, <3>3, LatestKept DEF Offered
  <2> QED BY <1>1, <2>2, <2>3, <2>4, <2>5, NothingDropped DEF WorkerStep
<1> QED BY <1>2, <1>3

LEMMA LastTakenType ==
  ASSUME TypeOK, NEW e \in config.edges PROVE LastTaken(e) \in Nat
<1>1. e[2] \in Nodes /\ e \in Inputs(e[2])
  BY ConfigFacts DEF Inputs
<1>2. held[e[2]][e] \in (1..Count) \cup {None} BY <1>1 DEF TypeOK
<1> QED BY <1>1, <1>2, LatestType, Bounds DEF LastTaken

\* An edge when its producer steps.
LEMMA ContentsProducer ==
  ASSUME ShapeInv, OrderInv, CleanInv, Clean, Clean', NEW n \in Nodes,
         WorkerStep(n) \/ WorkerFails(n), NEW e \in config.edges,
         e[1] = n, ~Ended(e[2])'
  PROVE  Contents(e)'
<1>1. /\ TypeOK /\ config' = config /\ ~stop /\ e[2] \in Nodes
      /\ WorkerStep(n) \/ ActivateFallback(n)
  BY CleanWorker, ConfigFacts DEF ShapeInv, CleanInv
<1>2. e[2] # n
  <2>1. config.edges \in SUBSET Edges /\ Rank[e[1]] < Rank[e[2]]
    BY <1>1, GraphAssumption, ConfigFacts DEF TypeOK
  <2>2. Rank[n] \in Nat BY Bounds
  <2> QED BY <2>1, <2>2
<1>3. Contents(e) BY <1>1, <1>2, OthersKept DEF CleanInv, Ended
<1>4. LastTaken(e)' = LastTaken(e)
  BY <1>1, <1>2, OthersKept, LatestKept DEF LastTaken
<1>5. /\ LastTaken(e) \in Nat /\ Offered(e) \in Nat /\ queue[e] \in Seq(Item)
      /\ Len(queue[e]) \in Nat /\ e \notin Inputs(n)
  <2>1. Offered(e) \in 0..Count BY OfferedType
  <2>2. queue[e] \in Seq(Item) BY <1>1 DEF TypeOK
  <2>3. LastTaken(e) \in Nat BY <1>1, LastTakenType
  <2> QED BY <1>2, <2>1, <2>2, <2>3, Bounds DEF Inputs
<1>6. CASE Publish(n, e)
  <2>1. worker[n] = "publish" /\ config.policy[e] = "block" /\ ~Full(e)
        /\ queue'[e] = PutItems(e, out[n])
    BY <1>1, <1>6 DEF Publish, Clean, TypeOK
  <2>2. queue'[e] = Append(queue[e], out[n]) BY <2>1 DEF PutItems
  <2>3. /\ Len(queue[e]) = Offered(e) - LastTaken(e)
        /\ \A i \in 1..Len(queue[e]) : queue[e][i] = LastTaken(e) + i
    BY <1>3, <2>1 DEF Contents, Ended
  <2>4. Offered(e)' = Offered(e) + 1 /\ out[n] = Offered(e) + 1
    BY <1>6, OfferedExactly
  <2>5. /\ Len(queue'[e]) = Len(queue[e]) + 1
        /\ \A i \in 1..Len(queue[e]) : queue'[e][i] = queue[e][i]
        /\ queue'[e][Len(queue[e]) + 1] = out[n]
    BY <1>5, <2>2
  <2>6. /\ Len(queue'[e]) = Offered(e)' - LastTaken(e)'
        /\ \A i \in 1..Len(queue'[e]) : queue'[e][i] = LastTaken(e)' + i
    <3>1. Len(queue'[e]) = Offered(e)' - LastTaken(e)'
      BY <1>4, <1>5, <2>3, <2>4, <2>5
    <3>2. ASSUME NEW i \in 1..Len(queue'[e])
          PROVE  queue'[e][i] = LastTaken(e)' + i
      <4>1. CASE i = Len(queue[e]) + 1
        BY <1>4, <1>5, <2>3, <2>4, <2>5, <4>1
      <4>2. CASE i # Len(queue[e]) + 1
        <5>1. i \in 1..Len(queue[e]) BY <1>5, <2>5, <4>2
        <5> QED BY <1>4, <2>3, <2>5, <5>1
      <4> QED BY <4>1, <4>2
    <3> QED BY <3>1, <3>2
  <2> QED BY <2>6 DEF Contents
<1>7. CASE PublishEos(n, e)
  <2>1. worker[n] = "eos" /\ e \in todo[n] /\ Done(n, e, "done")
        /\ queue'[e] = Append(queue[e], EOS)
    BY <1>1, <1>7 DEF PublishEos, First, TypeOK
  <2>2. /\ Len(queue[e]) = Offered(e) - LastTaken(e)
        /\ \A i \in 1..Len(queue[e]) : queue[e][i] = LastTaken(e) + i
    BY <1>3, <2>1 DEF Contents
  <2>3. Offered(e)' = Offered(e)
    <3>1. ~Publish(n, e) BY <2>1 DEF Publish
    <3> QED BY <3>1, OfferedExactly
  <2>4. Ended(n)' /\ e \notin todo'[n]
    BY <1>1, <2>1 DEF Done, GoTo, Ended, TypeOK
  <2>5. /\ Len(queue'[e]) = Len(queue[e]) + 1
        /\ \A i \in 1..Len(queue[e]) : queue'[e][i] = queue[e][i]
        /\ queue'[e][Len(queue[e]) + 1] = EOS
    BY <1>5, <2>1
  <2>6. /\ Len(queue'[e]) = Offered(e)' - LastTaken(e)' + 1
        /\ \A i \in 1..Len(queue'[e]) :
              queue'[e][i] = IF i = Len(queue'[e]) THEN EOS
                             ELSE LastTaken(e)' + i
    <3>1. Len(queue'[e]) = Offered(e)' - LastTaken(e)' + 1
      BY <1>4, <1>5, <2>2, <2>3, <2>5
    <3>2. ASSUME NEW i \in 1..Len(queue'[e])
          PROVE  queue'[e][i] = IF i = Len(queue'[e]) THEN EOS
                                ELSE LastTaken(e)' + i
      <4>1. CASE i = Len(queue[e]) + 1 BY <2>5, <4>1
      <4>2. CASE i # Len(queue[e]) + 1
        <5>1. i \in 1..Len(queue[e]) BY <1>5, <2>5, <4>2
        <5> QED BY <1>4, <2>2, <2>5, <4>2, <5>1
      <4> QED BY <4>1, <4>2
    <3> QED BY <3>1, <3>2
  <2> QED BY <2>4, <2>6 DEF Contents
<1>8. CASE ~Publish(n, e) /\ ~PublishEos(n, e)
  <2>1. queue'[e] = queue[e] /\ Offered(e)' = Offered(e)
    BY <1>1, <1>5, <1>8, QueueMoves, OfferedExactly
  <2>2. Ended(n) /\ ~(worker[n] = "eos" /\ e \in todo[n]) =>
            Ended(n)' /\ ~(worker'[n] = "eos" /\ e \in todo'[n])
    BY <1>1, EndedStays DEF Ended
  <2> QED BY <1>3, <1>4, <2>1, <2>2 DEF Contents
<1> QED BY <1>6, <1>7, <1>8

\* What the head of an edge says of it.
LEMMA HeadTells ==
  ASSUME ShapeInv, NEW e \in config.edges, Contents(e), queue[e] # <<>>
  PROVE  /\ Head(queue[e]) # EOS => Head(queue[e]) = LastTaken(e) + 1
         /\ Head(queue[e]) = EOS =>
              Len(queue[e]) = 1 /\ Offered(e) = LastTaken(e)
<1>1. TypeOK /\ Offered(e) \in 0..Count BY OfferedType DEF ShapeInv
<1>2. queue[e] \in Seq(Item) BY <1>1 DEF TypeOK
<1>3. Head(queue[e]) = queue[e][1] /\ Len(queue[e]) \in Nat \ {0} BY <1>2
<1>4. LastTaken(e) \in Nat BY <1>1, LastTakenType
<1>5. 1 \in 1..Len(queue[e]) BY <1>3
<1>6. CASE \A i \in 1..Len(queue[e]) : queue[e][i] = LastTaken(e) + i
  BY <1>3, <1>4, <1>5, <1>6 DEF EOS
<1>7. CASE /\ Len(queue[e]) = Offered(e) - LastTaken(e) + 1
           /\ \A i \in 1..Len(queue[e]) :
                queue[e][i] = IF i = Len(queue[e]) THEN EOS ELSE LastTaken(e) + i
  BY <1>1, <1>3, <1>4, <1>5, <1>7, Bounds DEF EOS
<1> QED BY <1>6, <1>7 DEF Contents

\* An edge when its consumer takes a message.
LEMMA ContentsReceive ==
  ASSUME ShapeInv, NEW n \in Nodes, NEW e \in config.edges, Receive(n, e),
         Contents(e), Offered(e)' = Offered(e),
         worker'[e[1]] = worker[e[1]], todo'[e[1]] = todo[e[1]]
  PROVE  Contents(e)'
<1>1. /\ TypeOK /\ e \in Inputs(n) /\ e[2] = n /\ queue[e] # <<>>
      /\ Head(queue[e]) # EOS
      /\ queue' = [queue EXCEPT ![e] = Tail(@)]
      /\ held' = [held EXCEPT ![n][e] = Head(queue[e])]
  BY DEF ShapeInv, TypeOK, Receive, NextInput, Inputs
<1>2. /\ queue[e] \in Seq(Item) /\ LastTaken(e) \in Nat /\ Offered(e) \in Nat
      /\ Head(queue[e]) \in Item
  BY <1>1, LastTakenType, OfferedType, HeadIsElement, Bounds DEF TypeOK
<1>3. /\ queue'[e] = Tail(queue[e]) /\ held'[n][e] = Head(queue[e])
  BY <1>1 DEF TypeOK
<1>4. /\ Head(queue[e]) = queue[e][1] /\ Len(queue[e]) \in Nat \ {0}
      /\ Len(Tail(queue[e])) = Len(queue[e]) - 1
      /\ \A i \in 1..Len(Tail(queue[e])) : Tail(queue[e])[i] = queue[e][i + 1]
  BY <1>1, <1>2
<1>5. LastTaken(e)' = LastTaken(e) + 1
  <2>1. Head(queue[e]) = LastTaken(e) + 1 BY <1>1, HeadTells
  <2>2. Head(queue[e]) # None BY <1>2, Bounds DEF Item
  <2> QED BY <1>1, <1>3, <2>1, <2>2 DEF LastTaken
<1>6. CASE /\ Len(queue[e]) = Offered(e) - LastTaken(e)
           /\ \A i \in 1..Len(queue[e]) : queue[e][i] = LastTaken(e) + i
  <2>1. Len(queue'[e]) = Offered(e)' - LastTaken(e)'
    BY <1>2, <1>3, <1>4, <1>5, <1>6
  <2>2. ASSUME NEW i \in 1..Len(queue'[e]) PROVE queue'[e][i] = LastTaken(e)' + i
    <3>1. i + 1 \in 1..Len(queue[e]) /\ queue'[e][i] = queue[e][i + 1]
      BY <1>3, <1>4
    <3> QED BY <1>2, <1>5, <1>6, <3>1
  <2> QED BY <2>1, <2>2 DEF Contents
<1>7. CASE /\ Len(queue[e]) = Offered(e) - LastTaken(e) + 1
           /\ \A i \in 1..Len(queue[e]) :
                queue[e][i] = IF i = Len(queue[e]) THEN EOS ELSE LastTaken(e) + i
           /\ Ended(e[1]) /\ ~(worker[e[1]] = "eos" /\ e \in todo[e[1]])
  <2>1. Len(queue'[e]) = Offered(e)' - LastTaken(e)' + 1
    BY <1>2, <1>3, <1>4, <1>5, <1>7
  <2>2. ASSUME NEW i \in 1..Len(queue'[e])
        PROVE  queue'[e][i] = IF i = Len(queue'[e]) THEN EOS
                              ELSE LastTaken(e)' + i
    <3>1. i + 1 \in 1..Len(queue[e]) /\ queue'[e][i] = queue[e][i + 1]
          /\ (i = Len(queue'[e]) <=> i + 1 = Len(queue[e]))
      BY <1>3, <1>4
    <3>2. CASE i + 1 = Len(queue[e]) BY <1>7, <3>1, <3>2
    <3>3. CASE i + 1 # Len(queue[e])
      <4>1. queue[e][i + 1] = LastTaken(e) + (i + 1) BY <1>7, <3>1, <3>3
      <4> QED BY <1>2, <1>5, <3>1, <3>3, <4>1
    <3> QED BY <3>2, <3>3
  <2>3. Ended(e[1])' /\ ~(worker'[e[1]] = "eos" /\ e \in todo'[e[1]])
    BY <1>7 DEF Ended
  <2> QED BY <2>1, <2>2, <2>3 DEF Contents
<1> QED BY <1>6, <1>7 DEF Contents

\* An edge when its consumer does anything else.
LEMMA ContentsConsumer ==
  ASSUME ShapeInv, OrderInv, CleanInv, Clean, Clean', NEW n \in Nodes,
         WorkerStep(n) \/ WorkerFails(n), NEW e \in config.edges,
         e[2] = n, ~Ended(n)'
  PROVE  Contents(e)'
<1>1. /\ TypeOK /\ config' = config /\ ~stop /\ e[1] \in Nodes
      /\ WorkerStep(n) \/ ActivateFallback(n)
  BY CleanWorker, ConfigFacts DEF ShapeInv, CleanInv
<1>2. e[1] # n /\ e \in Inputs(n)
  <2>1. config.edges \in SUBSET Edges /\ Rank[e[1]] < Rank[e[2]]
    BY <1>1, GraphAssumption, ConfigFacts DEF TypeOK
  <2>2. Rank[n] \in Nat BY Bounds
  <2> QED BY <2>1, <2>2 DEF Inputs
<1>3. Contents(e)
  <2>1. ~Ended(n) BY <1>1, EndedStays
  <2> QED BY <2>1 DEF CleanInv
<1>4. /\ worker'[e[1]] = worker[e[1]] /\ todo'[e[1]] = todo[e[1]]
      /\ Offered(e)' = Offered(e) /\ ~Publish(n, e) /\ ~PublishEos(n, e)
  <2>1. ~Publish(n, e) /\ ~PublishEos(n, e)
    BY <1>1, <1>2 DEF Publish, PublishEos, First, TypeOK, Outputs
  <2> QED BY <1>1, <1>2, <2>1, OthersKept, OfferedExactly
<1>5. CASE Receive(n, e) BY <1>3, <1>4, <1>5, ContentsReceive
<1>6. CASE KeepLatest(n, e)
  <2>1. UNCHANGED <<held, seen, produced>> BY <1>6 DEF KeepLatest
  <2>2. LastTaken(e)' = LastTaken(e) BY <1>1, <2>1, LatestKept DEF LastTaken
  <2>3. CASE queue' = queue BY <1>3, <1>4, <2>2, <2>3 DEF Contents, Ended
  <2>4. CASE /\ queue[e] # <<>> /\ Head(queue[e]) = EOS
             /\ queue' = [queue EXCEPT ![e] = Tail(@)]
    <3>1. Len(queue[e]) = 1 /\ Offered(e) = LastTaken(e)
      BY <1>1, <1>3, <2>4, HeadTells
    <3>2. queue'[e] = Tail(queue[e]) /\ queue[e] \in Seq(Item)
      BY <1>1, <2>4 DEF TypeOK
    <3>3. Len(queue'[e]) = 0
      <4>1. Len(Tail(queue[e])) = Len(queue[e]) - 1 BY <2>4, <3>2
      <4> QED BY <3>1, <3>2, <4>1
    <3>4. LastTaken(e) \in Nat BY <1>1, LastTakenType
    <3> QED BY <1>4, <2>2, <3>1, <3>3, <3>4 DEF Contents
  <2> QED BY <1>6, <2>3, <2>4 DEF KeepLatest
<1>7. CASE Process(n)
  <2>1. queue' = queue /\ Latest(n)' = Latest(n) + 1 /\ held' = Consumed(n)
    BY <1>7, CleanProcess DEF Process
  <2>2. /\ held[n][e] # None
        /\ config.sync # "latest" => held[n][e] = Latest(n) + 1
    BY <1>2, <1>7, NextInHand DEF Process, Received
  <2>3. LastTaken(e)' = LastTaken(e)
    <3>1. CASE config.sync = "latest"
      BY <2>1, <2>2, <3>1 DEF Consumed, LastTaken
    <3>2. CASE config.sync # "latest"
      <4>1. held'[n][e] = None
        BY <1>1, <1>2, <2>1, <3>2 DEF Consumed, Unheld, TypeOK
      <4> QED BY <2>1, <2>2, <3>2, <4>1 DEF LastTaken
    <3> QED BY <3>1, <3>2
  <2> QED BY <1>3, <1>4, <2>1, <2>3 DEF Contents, Ended
<1>8. CASE ~Receive(n, e) /\ ~KeepLatest(n, e) /\ ~Process(n)
  <2>1. ~ \E f \in config.edges : ReceiveEnds(n, f)
    BY <1>1 DEF ReceiveEnds, BeginEos, GoTo, Ended, TypeOK
  <2>2. queue'[e] = queue[e]
    <3>1. ASSUME NEW f \in config.edges, f # e,
                 Receive(n, f) \/ KeepLatest(n, f)
          PROVE  queue'[e] = queue[e]
      BY <1>1, <3>1 DEF Receive, KeepLatest, TypeOK
    <3>2. CASE \/ NodeReady(n) \/ WorkerRuns(n) \/ Produce(n) \/ SourceEnds(n)
               \/ LoopHead(n) \/ ActivateFallback(n)
      BY <3>2 DEF NodeReady, WorkerRuns, Produce, SourceEnds, LoopHead,
         ActivateFallback, flow
    <3>3. CASE \E f \in config.edges : Publish(n, f) \/ PublishEos(n, f)
      BY <1>1, <1>4, <3>3 DEF Publish, PublishEos, TypeOK
    <3> QED BY <1>1, <1>8, <2>1, <3>1, <3>2, <3>3, NothingDropped
            DEF WorkerStep
  <2>3. held'[n][e] = held[n][e]
    <3>1. CASE \E f \in config.edges : Receive(n, f)
      <4>1. PICK f \in config.edges : Receive(n, f) /\ f # e BY <1>8, <3>1
      <4>2. f \in Inputs(n) /\ held' = [held EXCEPT ![n][f] = Head(queue[f])]
        BY <1>1, <4>1 DEF Receive, NextInput, TypeOK
      <4>3. held'[n] = [held[n] EXCEPT ![f] = Head(queue[f])]
        BY <1>1, <4>2 DEF TypeOK
      <4> QED BY <1>1, <1>2, <4>1, <4>3 DEF TypeOK
    <3>2. CASE \/ NodeReady(n) \/ WorkerRuns(n) \/ Produce(n) \/ SourceEnds(n)
               \/ LoopHead(n) \/ ActivateFallback(n)
               \/ \E f \in config.edges : \/ KeepLatest(n, f) \/ Publish(n, f)
                                          \/ PublishEos(n, f)
      BY <3>2 DEF NodeReady, WorkerRuns, Produce, SourceEnds, LoopHead,
         ActivateFallback, KeepLatest, Publish, PublishEos, flow
    <3> QED BY <1>1, <1>8, <2>1, <3>1, <3>2, NothingDropped DEF WorkerStep
  <2>4. Latest(n)' = Latest(n)
    <3>1. ~Produce(n) BY <1>2 DEF Produce, IsSource
    <3>2. UNCHANGED <<seen, produced>>
      BY <1>1, <1>8, <2>1, <3>1, NothingDropped DEF WorkerStep, NodeReady,
         WorkerRuns, SourceEnds, LoopHead, ActivateFallback, Receive, KeepLatest,
         Publish, PublishEos, flow
    <3> QED BY <1>1, <3>2, LatestKept
  <2>5. LastTaken(e)' = LastTaken(e) BY <2>3, <2>4 DEF LastTaken
  <2> QED BY <1>3, <1>4, <2>2, <2>5 DEF Contents, Ended
<1> QED BY <1>5, <1>6, <1>7, <1>8

LEMMA ContentsStep ==
  ASSUME ShapeInv, OrderInv, CleanInv, Clean, Clean', NEW n \in Nodes,
         WorkerStep(n) \/ WorkerFails(n), NEW e \in config.edges, ~Ended(e[2])'
  PROVE  Contents(e)'
<1>1. CASE e[1] = n BY <1>1, ContentsProducer
<1>2. CASE e[2] = n BY <1>2, ContentsConsumer
<1>3. CASE e[1] # n /\ e[2] # n
  <2>1. /\ TypeOK /\ config' = config /\ e[1] \in Nodes /\ e[2] \in Nodes
    BY CleanWorker, ConfigFacts DEF ShapeInv, CleanInv
  <2>2. ~Publish(n, e) /\ ~PublishEos(n, e) /\ e \notin Inputs(n)
    BY <1>3, <2>1 DEF Publish, PublishEos, First, TypeOK, Outputs, Inputs
  <2>3. queue'[e] = queue[e] /\ Offered(e)' = Offered(e)
    BY <2>1, <2>2, QueueMoves, OfferedExactly
  <2>4. LastTaken(e)' = LastTaken(e)
    BY <1>3, <2>1, OthersKept, LatestKept DEF LastTaken
  <2>5. Contents(e) BY <1>3, <2>1, OthersKept DEF CleanInv, Ended
  <2> QED BY <1>3, <2>1, <2>3, <2>4, <2>5, OthersKept DEF Contents, Ended
<1> QED BY <1>1, <1>2, <1>3

LEMMA UndisturbedStep ==
  ASSUME TypeOK, Clean, Clean', Undisturbed, Next PROVE Undisturbed'
<1>1. CASE \E n \in Nodes : WorkerStep(n) \/ WorkerFails(n)
  BY <1>1, CleanWorker DEF Undisturbed
<1>2. CASE MainStarts \/ MainSetsDeadline \/ MainEnds \/ JoinGivesUp
  BY <1>2 DEF MainStarts, MainSetsDeadline, MainEnds, JoinGivesUp, Undisturbed,
     AllDone, control
<1>3. ~DeadlinePasses /\ ~RequestStop /\ \A n \in Nodes : ~WatchdogStops(n)
  BY Bounds DEF DeadlinePasses, RequestStop, WatchdogStops, RecordError, Clean
<1> QED BY <1>1, <1>2, <1>3 DEF Next

LEMMA CleanElsewhere ==
  ASSUME TypeOK, CleanInv, UNCHANGED <<config, flow, worker>>, Undisturbed'
  PROVE  CleanInv'
<1>1. \A n \in Nodes : /\ Latest(n)' = Latest(n) /\ (Ended(n)' <=> Ended(n))
                       /\ Inputs(n)' = Inputs(n) /\ Trigger(n)' = Trigger(n)
  BY StaticGraph DEF Latest, Ended, flow
<1>2. \A e \in config.edges : e[1] \in Nodes /\ e[2] \in Nodes
  BY ConfigFacts
<1>3. \A n \in Nodes : NoGap(n)' BY <1>1 DEF CleanInv, NoGap, flow
<1>4. ASSUME NEW n \in Nodes, ~Ended(n)', NEW e \in Inputs(n)' PROVE InHand(n, e)'
  <2>1. InHand(n, e) BY <1>1, <1>4 DEF CleanInv
  <2> QED BY <1>1, <2>1 DEF InHand, flow
<1>5. ASSUME NEW e \in config.edges, ~Ended(e[2])' PROVE Contents(e)'
  <2>1. Contents(e) BY <1>1, <1>2, <1>5 DEF CleanInv
  <2>2. Offered(e)' = Offered(e) /\ LastTaken(e)' = LastTaken(e)
        /\ (Ended(e[1])' <=> Ended(e[1]))
    BY <1>1, <1>2 DEF Offered, LastTaken, flow
  <2> QED BY <2>1, <2>2 DEF Contents, flow
<1> QED BY <1>3, <1>4, <1>5 DEF CleanInv

LEMMA CleanNext ==
  ASSUME ShapeInv, OrderInv, Clean => CleanInv, [Next]_vars, Clean'
  PROVE  CleanInv'
<1>1. TypeOK BY DEF ShapeInv
<1>2. CASE UNCHANGED vars
  <2>1. Clean BY <1>2 DEF Clean, vars, control
  <2>2. Undisturbed'
    BY <1>2, <2>1 DEF CleanInv, Undisturbed, AllDone, vars, control
  <2> QED BY <1>1, <1>2, <2>1, <2>2, CleanElsewhere DEF vars
<1>3. CASE Next
  <2>1. Clean /\ CleanInv BY <1>1, <1>3, CleanBefore
  <2>2. Undisturbed' BY <1>1, <1>3, <2>1, UndisturbedStep DEF CleanInv
  <2>3. CASE UNCHANGED <<config, flow, worker>>
    BY <1>1, <2>1, <2>2, <2>3, CleanElsewhere
  <2>4. CASE \E n \in Nodes : WorkerStep(n) \/ WorkerFails(n)
    <3>1. PICK n \in Nodes : WorkerStep(n) \/ WorkerFails(n) BY <2>4
    <3>2. config' = config BY <1>1, <1>3, StaticConfig
    <3>3. \A m \in Nodes : NoGap(m)' BY <2>1, <3>1, NoGapStep
    <3>4. \A m \in Nodes : ~Ended(m)' => \A e \in Inputs(m)' : InHand(m, e)'
      <4>1. \A m \in Nodes : Inputs(m)' = Inputs(m) BY <3>2, StaticGraph
      <4> QED BY <2>1, <3>1, <4>1, InHandStep
    <3>5. \A e \in config.edges : ~Ended(e[2])' => Contents(e)'
      BY <2>1, <3>1, ContentsStep
    <3> QED BY <2>2, <3>2, <3>3, <3>4, <3>5 DEF CleanInv
  <2>5. CASE \/ MainStarts \/ MainSetsDeadline \/ MainEnds
             \/ DeadlinePasses \/ JoinGivesUp \/ RequestStop
             \/ \E n \in Nodes : WatchdogStops(n)
    BY <2>3, <2>5 DEF MainStarts, MainSetsDeadline, MainEnds, DeadlinePasses,
       JoinGivesUp, RequestStop, WatchdogStops
  <2> QED BY <1>3, <2>4, <2>5 DEF Next
<1> QED BY <1>2, <1>3

LEMMA CleanInit == ASSUME Init PROVE CleanInv
<1>1. TypeOK BY ShapeInit DEF ShapeInv
<1>2. /\ \A n \in Nodes : seen[n] = <<>> /\ worker[n] = "starting"
                          /\ produced[n] = 0
      /\ \A n \in Nodes : \A e \in Inputs(n) : held[n][e] = None
      /\ \A e \in config.edges : queue[e] = <<>>
      /\ main = "readiness" /\ stop = FALSE
  BY DEF Init
<1>3. \A n \in Nodes : Latest(n) = 0 BY <1>2 DEF Latest
<1>4. \A e \in config.edges : /\ e[1] \in Nodes /\ e[2] \in Nodes
                              /\ e \in Inputs(e[2])
  BY <1>1, ConfigFacts DEF Inputs
<1>5. Len(<<>>) = 0 OBVIOUS
<1>6. \A e \in config.edges : Offered(e) = 0 /\ LastTaken(e) = 0
  BY <1>2, <1>3, <1>4 DEF Offered, LastTaken
<1>7. \A e \in config.edges : Contents(e)
  BY <1>2, <1>5, <1>6 DEF Contents
<1>8. \A n \in Nodes : NoGap(n) BY <1>2, <1>5 DEF NoGap, Ended
<1>9. \A n \in Nodes : \A e \in Inputs(n) : InHand(n, e)
  BY <1>2, <1>3 DEF InHand
<1> QED BY <1>2, <1>7, <1>8, <1>9 DEF CleanInv, Undisturbed

LEMMA EndIsComplete ==
  ASSUME TypeOK, Clean, CleanInv, main = "ended", NEW n \in Nodes
  PROVE  IsSource(n) \/ seen[n] = [i \in 1..Count |-> i]
<1> SUFFICES ASSUME ~IsSource(n) PROVE seen[n] = [i \in 1..Count |-> i]
  OBVIOUS
<1>1. NoGap(n) /\ worker[n] = "done" BY DEF CleanInv, Undisturbed, AllDone
<1>2. Latest(n) = Count BY <1>1 DEF NoGap, Ended
<1>3. seen[n] \in Seq(1..Count) BY DEF TypeOK
<1>4. Len(seen[n]) = Count
  <2>1. CASE seen[n] = <<>> BY <1>2, <2>1 DEF Latest
  <2>2. CASE seen[n] # <<>>
    <3>1. Len(seen[n]) \in 1..Len(seen[n]) BY <1>3, <2>2
    <3> QED BY <1>1, <1>2, <2>2, <3>1 DEF Latest, NoGap
  <2> QED BY <2>1, <2>2
<1>5. DOMAIN seen[n] = 1..Count /\ seen[n] = [i \in DOMAIN seen[n] |-> seen[n][i]]
  BY <1>3, <1>4
<1>6. \A i \in 1..Count : seen[n][i] = i BY <1>1, <1>4 DEF NoGap
<1> QED BY <1>5, <1>6

\* A run reported completed has lost nothing, in every graph and under every
\* join, if its edges are lossless and no node is told to skip: an edge holds
\* exactly what was offered and not yet taken, and EOS after the last of all.
THEOREM CompletedLosesNothing == Spec => []CompletedIsComplete
<1>1. Init => ShapeInv /\ OrderInv /\ (Clean => CleanInv)
  BY ShapeInit, OrderInit, CleanInit
<1>2. ShapeInv /\ OrderInv /\ (Clean => CleanInv) /\ [Next]_vars
      => (ShapeInv /\ OrderInv /\ (Clean => CleanInv))'
  BY ShapeNext, OrderNext, CleanNext
<1>3. ShapeInv /\ (Clean => CleanInv) => CompletedIsComplete
  BY EndIsComplete DEF ShapeInv, Clean, CompletedIsComplete
<1> QED BY <1>1, <1>2, <1>3, PTL DEF Spec
=============================================================================
