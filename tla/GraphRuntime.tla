------------------------------ MODULE GraphRuntime -----------------------------
(***************************************************************************)
(* One run of a node graph: a worker thread per node (hybrid_runtime.py,   *)
(* runtime_workers.py) connected by bounded edge queues, and the thread of *)
(* run_sync that starts and ends them (runtime_execution.py).  The queues  *)
(* are those of BoundedQueue, seen from outside; waiting in one is a step  *)
(* that is not enabled.  request_stop and _record_error set _stop and      *)
(* _start and close every edge; here that is one step.                     *)
(***************************************************************************)
EXTENDS Integers, Sequences, FiniteSets

CONSTANTS
    Nodes,      \* the nodes of the graph
    Rank,       \* Rank[n]: declaration order, the order of ports and edges
    Configs,    \* the graphs that may be run, see Config
    Capacity,   \* capacity of every edge
    Count,      \* bound: messages each source produces
    None        \* no message held, no error

EdgePolicies == {"block", "latest", "drop_oldest", "drop_newest"}
FailurePolicies == {"stop", "fallback", "skip", "isolate"}
\* How a node with several inputs joins them: one of each, the last of each at
\* every message of the trigger, or messages no more than tolerance apart
\* (exact_sequence with 0, approximate_timestamp otherwise).
JoinPolicies == {"zip", "latest", "matching"}
Edges == Nodes \X Nodes
Config == [edges: SUBSET Edges,
           policy: [Edges -> EdgePolicies],
           sync: JoinPolicies,
           tolerance: Nat,
           trigger: SUBSET Edges,   \* synchronization_trigger_port, where given
           failure: [Nodes -> FailurePolicies],
           watched: SUBSET Nodes,   \* health.on_timeout: stop_pipeline
           faulty: SUBSET Nodes,    \* bound: the nodes whose code may raise
           stoppable: BOOLEAN]      \* bound: whether somebody may ask for a stop

ASSUME GraphAssumption ==
    /\ Rank \in [Nodes -> Nat]
    /\ \A m, n \in Nodes : Rank[m] = Rank[n] => m = n
    /\ Capacity \in Nat \ {0} /\ Count \in Nat
    /\ Configs \subseteq Config
    /\ \A c \in Configs : \A e \in c.edges : Rank[e[1]] < Rank[e[2]]
    /\ None \notin Nat \cup Nodes \cup {"runtime"}

VARIABLES
    config,     \* the graph that is run, never changed
    queue,      \* the items of each edge: message numbers and EOS
    worker,     \* what each worker thread is doing
    held,       \* the messages a worker has received for its next call
    unread,     \* the inputs it has still to read for it
    out,        \* the message a worker is publishing
    todo,       \* the edges it has still to publish it to
    produced,   \* messages produced by each source
    fallback,   \* fallback_active
    start,      \* _start
    stop,       \* _stop; the edges are closed
    error,      \* the node of the first error, or "runtime", or None
    main,       \* what the thread of run_sync is doing
    requested,  \* history: somebody asked for a stop
    isolated,   \* history: nodes that closed their branch
    seen        \* history: messages each processor has processed

flow == <<queue, held, unread, out, todo, produced, seen>>
control == <<start, stop, error>>
vars == <<config, flow, control, worker, fallback, main, requested, isolated>>

EOS == 0    \* _EOS; messages are numbered from one

Inputs(n) == {e \in config.edges : e[2] = n}
Outputs(n) == {e \in config.edges : e[1] = n}
IsSource(n) == Inputs(n) = {}
First(edges, e) ==
    /\ e \in edges
    /\ \A f \in edges : Rank[e[1]] <= Rank[f[1]] /\ Rank[e[2]] <= Rank[f[2]]
AllDone == \A n \in Nodes : worker[n] = "done"

Init ==
    /\ config \in Configs
    /\ queue = [e \in config.edges |-> <<>>]
    /\ worker = [n \in Nodes |-> "starting"]
    /\ held = [n \in Nodes |-> [e \in Inputs(n) |-> None]]
    /\ unread = [n \in Nodes |-> {}]
    /\ out = [n \in Nodes |-> None] /\ todo = [n \in Nodes |-> {}]
    /\ produced = [n \in Nodes |-> 0]
    /\ fallback = [n \in Nodes |-> FALSE]
    /\ start = FALSE /\ stop = FALSE /\ error = None
    /\ main = "readiness" /\ requested = FALSE /\ isolated = {}
    /\ seen = [n \in Nodes |-> <<>>]

-----------------------------------------------------------------------------
(* Helpers.                                                                *)

GoTo(n, state) == worker' = [worker EXCEPT ![n] = state]

StopEverything == stop' = TRUE /\ start' = TRUE

\* _record_error: only the first error is kept.
RecordError(who) ==
    /\ error' = IF error = None THEN who ELSE error
    /\ StopEverything

\* A message for every output; a node without outputs goes on at once.
BeginPublish(n, message) ==
    IF Outputs(n) = {}
    THEN GoTo(n, "head") /\ UNCHANGED <<out, todo>>
    ELSE /\ out' = [out EXCEPT ![n] = message]
         /\ todo' = [todo EXCEPT ![n] = Outputs(n)]
         /\ GoTo(n, "publish")

\* _publish_eos puts the end of the stream on every output.
BeginEos(n) ==
    /\ GoTo(n, IF Outputs(n) = {} THEN "done" ELSE "eos")
    /\ todo' = [todo EXCEPT ![n] = Outputs(n)]

\* After the last of the outputs the worker goes on with the given state.
Done(n, e, state) ==
    /\ todo' = [todo EXCEPT ![n] = @ \ {e}]
    /\ GoTo(n, IF todo[n] = {e} THEN state ELSE worker[n])

\* An exception reaches _node_worker.
Escape(n) ==
    IF config.failure[n] = "isolate"
    THEN /\ BeginEos(n)
         /\ isolated' = isolated \cup {n}
         /\ UNCHANGED control
    ELSE /\ RecordError(n)
         /\ GoTo(n, "done")
         /\ UNCHANGED <<todo, isolated>>

Unheld(n) == [held EXCEPT ![n] = [e \in Inputs(n) |-> None]]

\* After a call of process: latest_inputs outlives it.
Consumed(n) == IF config.sync = "latest" THEN held ELSE Unheld(n)

-----------------------------------------------------------------------------
(* A worker: configure, start, and the readiness barrier.                  *)

NodeReady(n) ==
    /\ worker[n] = "starting"
    /\ GoTo(n, "ready")
    /\ UNCHANGED <<config, flow, control, fallback, main, requested, isolated>>

NodeStartFails(n) ==
    /\ worker[n] = "starting" /\ n \in config.faulty
    /\ Escape(n)
    /\ UNCHANGED <<config, queue, held, unread, out, produced, seen, fallback, main,
                   requested>>

WorkerRuns(n) ==
    /\ worker[n] = "ready" /\ start
    /\ GoTo(n, IF stop THEN "done" ELSE "head")
    /\ UNCHANGED <<config, flow, control, fallback, main, requested, isolated>>

-----------------------------------------------------------------------------
(* Sources.                                                                *)

Produce(n) ==
    /\ worker[n] = "head" /\ IsSource(n)
    /\ produced[n] < Count /\ ~stop
    /\ produced' = [produced EXCEPT ![n] = @ + 1]
    /\ BeginPublish(n, produced[n] + 1)
    /\ UNCHANGED <<config, queue, held, unread, seen, control, fallback, main,
                   requested, isolated>>

SourceEnds(n) ==
    /\ worker[n] = "head" /\ IsSource(n)
    /\ produced[n] = Count \/ stop
    /\ BeginEos(n)
    /\ UNCHANGED <<config, queue, held, unread, out, produced, seen, control, fallback,
                   main, requested, isolated>>

SourceFails(n) ==
    /\ worker[n] = "head" /\ IsSource(n) /\ n \in config.faulty
    /\ Escape(n)
    /\ UNCHANGED <<config, queue, held, unread, out, produced, seen, fallback, main,
                   requested>>

-----------------------------------------------------------------------------
(* Processors: receive, process.                                           *)

LoopHead(n) ==
    /\ worker[n] = "head" /\ ~IsSource(n)
    /\ IF stop
       THEN BeginEos(n) /\ UNCHANGED unread
       ELSE /\ GoTo(n, "receive")
            /\ unread' = [unread EXCEPT ![n] = Inputs(n)]
            /\ UNCHANGED todo
    /\ UNCHANGED <<config, queue, held, out, produced, seen, control, fallback,
                   main, requested, isolated>>

\* The configured port, or else the first.
Trigger(n) ==
    CHOOSE e \in Inputs(n) :
        IF Inputs(n) \cap config.trigger = {}
        THEN First(Inputs(n), e) ELSE e \in config.trigger

\* Where the newest is taken until there is none: every port but the trigger.
Sampled(n, e) == config.sync = "latest" /\ e # Trigger(n)

NextInput(n, e) ==
    /\ worker[n] = "receive" /\ e \in unread[n]
    /\ IF config.sync = "latest" /\ Trigger(n) \in unread[n]
       THEN e = Trigger(n) ELSE First(unread[n], e)

\* The next port to read yields a message.
Receive(n, e) ==
    /\ NextInput(n, e)
    /\ queue[e] # <<>> /\ Head(queue[e]) # EOS
    /\ held' = [held EXCEPT ![n][e] = Head(queue[e])]
    /\ queue' = [queue EXCEPT ![e] = Tail(@)]
    /\ unread' = [unread EXCEPT ![n] = IF Sampled(n, e) THEN @ ELSE @ \ {e}]
    /\ UNCHANGED <<config, worker, out, todo, produced, seen, control, fallback,
                   main, requested, isolated>>

\* try_get finds no newer message, or takes the EOS nobody will see again.
KeepLatest(n, e) ==
    /\ NextInput(n, e)
    /\ Sampled(n, e) /\ held[n][e] # None
    /\ \/ queue[e] = <<>> /\ UNCHANGED queue
       \/ /\ queue[e] # <<>> /\ Head(queue[e]) = EOS
          /\ queue' = [queue EXCEPT ![e] = Tail(@)]
    /\ unread' = [unread EXCEPT ![n] = @ \ {e}]
    /\ UNCHANGED <<config, worker, held, out, todo, produced, seen, control,
                   fallback, main, requested, isolated>>

\* get yields EOS, or nothing because it is closed: what is held is dropped.
ReceiveEnds(n, e) ==
    /\ NextInput(n, e)
    /\ ~Sampled(n, e) \/ held[n][e] = None
    /\ \/ /\ queue[e] # <<>> /\ Head(queue[e]) = EOS
          /\ queue' = [queue EXCEPT ![e] = Tail(@)]
       \/ queue[e] = <<>> /\ stop /\ UNCHANGED queue
    /\ held' = Unheld(n)
    /\ BeginEos(n)
    /\ UNCHANGED <<config, unread, out, produced, seen, control, fallback, main,
                   requested, isolated>>

Matches(n) ==
    \A e, f \in Inputs(n) : held[n][e] - held[n][f] <= config.tolerance

\* _receive_matching with messages too far apart: the oldest is dropped.
DropOldest(n, e) ==
    /\ worker[n] = "receive" /\ unread[n] = {}
    /\ config.sync = "matching" /\ ~Matches(n)
    /\ e \in Inputs(n) /\ \A f \in Inputs(n) : held[n][e] <= held[n][f]
    /\ IF stop
       THEN /\ held' = Unheld(n) /\ BeginEos(n)
            /\ UNCHANGED unread
       ELSE /\ held' = [held EXCEPT ![n][e] = None]
            /\ unread' = [unread EXCEPT ![n] = {e}]
            /\ UNCHANGED <<worker, todo>>
    /\ UNCHANGED <<config, queue, out, produced, seen, control, fallback, main,
                   requested, isolated>>

\* The inputs of one call of process are complete.
Received(n) ==
    /\ worker[n] = "receive" /\ unread[n] = {}
    /\ config.sync = "matching" => Matches(n)

\* What a node makes of its inputs carries the number of its trigger.
Message(n) == held[n][Trigger(n)]

\* node.process returns.
Process(n) ==
    /\ Received(n)
    /\ seen' = [seen EXCEPT ![n] = Append(@, Message(n))]
    /\ held' = Consumed(n)
    /\ BeginPublish(n, Message(n))
    /\ UNCHANGED <<config, queue, unread, produced, control, fallback, main,
                   requested, isolated>>

\* Failure policy fallback_node: the fallback gets the same inputs.
ActivateFallback(n) ==
    /\ Received(n) /\ n \in config.faulty
    /\ config.failure[n] = "fallback" /\ ~fallback[n]
    /\ fallback' = [fallback EXCEPT ![n] = TRUE]
    /\ UNCHANGED <<config, flow, control, worker, main, requested, isolated>>

SkipMessage(n) ==
    /\ Received(n) /\ n \in config.faulty /\ config.failure[n] = "skip"
    /\ held' = Consumed(n)
    /\ GoTo(n, "head")
    /\ UNCHANGED <<config, queue, unread, out, todo, produced, seen, control,
                   fallback, main, requested, isolated>>

\* Mutant: every failure of process is treated as skip_message.
ProcessFailsSkipping(n) ==
    /\ Received(n) /\ n \in config.faulty /\ config.failure[n] # "skip"
    /\ held' = Unheld(n)
    /\ GoTo(n, "head")
    /\ UNCHANGED <<config, queue, unread, out, todo, produced, seen, control,
                   fallback, main, requested, isolated>>

\* Every other failure of process, the failure of a fallback, and the failure
\* to activate one.
ProcessFails(n) ==
    /\ Received(n) /\ n \in config.faulty /\ config.failure[n] # "skip"
    /\ held' = Unheld(n)
    /\ Escape(n)
    /\ UNCHANGED <<config, queue, unread, out, produced, seen, fallback, main,
                   requested>>

-----------------------------------------------------------------------------
(* Publishing.                                                             *)

Full(e) == Len(queue[e]) >= Capacity
PutItems(e, item) ==
    IF config.policy[e] = "latest" THEN <<item>>
    ELSE IF ~Full(e) THEN Append(queue[e], item)
    ELSE IF config.policy[e] = "drop_oldest" THEN Append(Tail(queue[e]), item)
    ELSE queue[e]

\* Mutant: publishing goes on behind the back of a full queue.
PublishOvertaking(n, e) ==
    /\ worker[n] = "publish" /\ First(todo[n], e)
    /\ stop \/ config.policy[e] # "block" \/ ~Full(e)
    /\ queue' = IF stop THEN queue
                ELSE [queue EXCEPT ![e] = <<out[n]>> \o @]
    /\ Done(n, e, "head")
    /\ out' = [out EXCEPT ![n] = IF todo[n] = {e} THEN None ELSE @]
    /\ UNCHANGED <<config, held, unread, produced, seen, control, fallback, main,
                   requested, isolated>>

\* Mutant: closing an edge wakes the readers only.
PublishUnwoken(n, e) ==
    /\ worker[n] = "publish" /\ First(todo[n], e)
    /\ config.policy[e] # "block" \/ ~Full(e)
    /\ queue' = IF stop THEN queue
                ELSE [queue EXCEPT ![e] = PutItems(e, out[n])]
    /\ Done(n, e, "head")
    /\ out' = [out EXCEPT ![n] = IF todo[n] = {e} THEN None ELSE @]
    /\ UNCHANGED <<config, held, unread, produced, seen, control, fallback, main,
                   requested, isolated>>

\* edge.put: a closed edge refuses the message, and nobody looks.
Publish(n, e) ==
    /\ worker[n] = "publish" /\ First(todo[n], e)
    /\ stop \/ config.policy[e] # "block" \/ ~Full(e)
    /\ queue' = IF stop THEN queue
                ELSE [queue EXCEPT ![e] = PutItems(e, out[n])]
    /\ Done(n, e, "head")
    /\ out' = [out EXCEPT ![n] = IF todo[n] = {e} THEN None ELSE @]
    /\ UNCHANGED <<config, held, unread, produced, seen, control, fallback, main,
                   requested, isolated>>

\* A type or size check of _publish, the recording or a stream raises.
PublishFails(n) ==
    /\ worker[n] = "publish" /\ n \in config.faulty
    /\ out' = [out EXCEPT ![n] = None]
    /\ IF config.failure[n] = "isolate"
       THEN Escape(n)
       ELSE /\ RecordError(n) /\ GoTo(n, "done")
            /\ todo' = [todo EXCEPT ![n] = {}] /\ UNCHANGED isolated
    /\ UNCHANGED <<config, queue, held, unread, produced, seen, fallback, main,
                   requested>>

\* Mutant: EOS is put like a message and may be dropped.
PublishEosAsMessage(n, e) ==
    /\ worker[n] = "eos" /\ First(todo[n], e)
    /\ stop \/ config.policy[e] # "block" \/ ~Full(e)
    /\ queue' = IF stop THEN queue ELSE [queue EXCEPT ![e] = PutItems(e, EOS)]
    /\ Done(n, e, "done")
    /\ UNCHANGED <<config, held, unread, out, produced, seen, control, fallback, main,
                   requested, isolated>>

\* Mutant: a control item does not count against the capacity.
PublishEosUncounted(n, e) ==
    /\ worker[n] = "eos" /\ First(todo[n], e)
    /\ queue' = IF stop THEN queue ELSE [queue EXCEPT ![e] = Append(@, EOS)]
    /\ Done(n, e, "done")
    /\ UNCHANGED <<config, held, unread, out, produced, seen, control, fallback, main,
                   requested, isolated>>

\* edge.put_control waits for room under every policy.
PublishEos(n, e) ==
    /\ worker[n] = "eos" /\ First(todo[n], e)
    /\ stop \/ ~Full(e)
    /\ queue' = IF stop THEN queue ELSE [queue EXCEPT ![e] = Append(@, EOS)]
    /\ Done(n, e, "done")
    /\ UNCHANGED <<config, held, unread, out, produced, seen, control, fallback, main,
                   requested, isolated>>

-----------------------------------------------------------------------------
(* run_sync.                                                               *)

\* loaded.ready is set when start has returned, or when the worker ends.
Ready(n) == worker[n] # "starting" /\ (worker[n] = "eos" => start)
MainStarts ==
    /\ main = "readiness"
    /\ error # None \/ \A n \in Nodes : Ready(n)
    /\ start' = TRUE
    /\ main' = "running"
    /\ UNCHANGED <<config, flow, stop, error, worker, fallback, requested,
                   isolated>>

MainSetsDeadline ==
    /\ main = "running" /\ ~AllDone
    /\ \/ error # None \/ stop
       \/ \A n \in Nodes : IsSource(n) => worker[n] = "done"
    /\ main' = "draining"
    /\ UNCHANGED <<config, flow, control, worker, fallback, requested, isolated>>

\* The shutdown timeout runs out before the workers have ended.
DeadlinePasses ==
    /\ main = "draining" /\ ~AllDone
    /\ RecordError("runtime")
    /\ main' = "joining"
    /\ UNCHANGED <<config, flow, worker, fallback, requested, isolated>>

\* The last joins take two seconds each, then the nodes are closed anyway.
JoinGivesUp ==
    /\ main = "joining" /\ ~AllDone
    /\ main' = "ended"
    /\ UNCHANGED <<config, flow, control, worker, fallback, requested, isolated>>

\* Every thread has ended: the nodes are closed and the report is written.
MainEnds ==
    /\ main \in {"running", "draining", "joining"} /\ AllDone
    /\ stop' = TRUE
    /\ main' = "ended"
    /\ UNCHANGED <<config, flow, start, error, worker, fallback, requested,
                   isolated>>

\* request_stop, from another thread or at a KeyboardInterrupt.
RequestStop ==
    /\ main \in {"readiness", "running", "draining"} /\ ~requested
    /\ config.stoppable
    /\ StopEverything
    /\ requested' = TRUE
    /\ UNCHANGED <<config, flow, error, worker, fallback, main, isolated>>

\* _watchdog_loop: a node that was handed a message, and then nothing for the
\* health timeout, stops the run, even when it waits or has come to its end.
WatchdogStops(n) ==
    /\ main \in {"running", "draining", "joining"} /\ ~stop
    /\ n \in config.watched
    /\ produced[n] > 0 \/ seen[n] # <<>>
    /\ RecordError(n)
    /\ UNCHANGED <<config, flow, worker, fallback, main, requested, isolated>>

-----------------------------------------------------------------------------
WorkerStep(n) ==
    \/ NodeReady(n) \/ WorkerRuns(n)
    \/ Produce(n) \/ SourceEnds(n)
    \/ LoopHead(n)
    \/ \E e \in config.edges : Receive(n, e)
    \/ \E e \in config.edges : KeepLatest(n, e)
    \/ \E e \in config.edges : ReceiveEnds(n, e)
    \/ \E e \in config.edges : DropOldest(n, e)
    \/ Process(n)
    \/ \E e \in config.edges : Publish(n, e)
    \/ \E e \in config.edges : PublishEos(n, e)

\* Node code raises, or a publication is refused.
WorkerFails(n) ==
    \/ NodeStartFails(n) \/ SourceFails(n)
    \/ ActivateFallback(n) \/ SkipMessage(n) \/ ProcessFails(n)
    \/ PublishFails(n)

Next ==
    \/ \E n \in Nodes : WorkerStep(n) \/ WorkerFails(n)
    \/ MainStarts \/ MainSetsDeadline \/ MainEnds
    \/ DeadlinePasses \/ JoinGivesUp
    \/ RequestStop \/ \E n \in Nodes : WatchdogStops(n)

Spec == Init /\ [][Next]_vars
\* Every thread is scheduled and node code returns.  Neither failures nor the
\* timeouts are counted on.
FairSpec ==
    /\ Spec
    /\ \A n \in Nodes : WF_vars(WorkerStep(n))
    /\ WF_vars(MainStarts) /\ WF_vars(MainEnds)

-----------------------------------------------------------------------------
(* Properties.                                                             *)

Item == 0..Count
\* The shape of the graph's state.
TypeOK ==
    /\ config \in Configs
    /\ queue \in [config.edges -> Seq(Item)]
    /\ \A e \in config.edges : Len(queue[e]) <= Capacity
    /\ worker \in [Nodes -> {"starting", "ready", "head", "receive",
                             "publish", "eos", "done"}]
    /\ DOMAIN held = Nodes
    /\ \A n \in Nodes : held[n] \in [Inputs(n) -> (1..Count) \cup {None}]
    /\ unread \in [Nodes -> SUBSET config.edges]
    /\ \A n \in Nodes : unread[n] \subseteq Inputs(n)
    /\ out \in [Nodes -> (1..Count) \cup {None}]
    /\ todo \in [Nodes -> SUBSET config.edges]
    /\ \A n \in Nodes : todo[n] \subseteq Outputs(n)
    /\ produced \in [Nodes -> 0..Count]
    /\ fallback \in [Nodes -> BOOLEAN]
    /\ start \in BOOLEAN /\ stop \in BOOLEAN
    /\ error \in Nodes \cup {"runtime", None}
    /\ main \in {"readiness", "running", "draining", "joining", "ended"}
    /\ requested \in BOOLEAN /\ isolated \subseteq Nodes
    /\ seen \in [Nodes -> Seq(1..Count)]

\* Whatever the edges drop, a node processes messages in the order they were
\* produced, and none of them twice.
OrderPreserved ==
    \A n \in Nodes : \A i, j \in 1..Len(seen[n]) :
        i < j => seen[n][i] < seen[n][j]

\* A run reported completed has lost nothing: with lossless edges and no node
\* told to skip messages, every processor has processed every message.
CompletedIsComplete ==
    /\ main = "ended" /\ error = None
    /\ ~requested /\ isolated = {}
    /\ \A e \in config.edges : config.policy[e] = "block"
    /\ \A n \in Nodes : config.failure[n] # "skip"
    => \A n \in Nodes : IsSource(n) \/ seen[n] = [i \in 1..Count |-> i]

\* A producer that waits for room on an edge whose consumer has left.
Abandoned(e) ==
    /\ worker[e[1]] \in {"publish", "eos"} /\ First(todo[e[1]], e)
    /\ Full(e) /\ worker[e[2]] = "done"
Lossless ==
    /\ \A e \in config.edges : config.policy[e] = "block"
    /\ config.sync # "latest"
    /\ \A n \in Nodes : config.failure[n] \in {"stop", "fallback"}

\* The workers end by themselves, without the help of the shutdown timeout,
\* whatever fails.  Where messages may be lost there is one way to hang: a
\* consumer ends at the EOS of one input and leaves another one full.
EndByThemselves ==
    <>(AllDone \/ (~Lossless /\ \E e \in config.edges : Abandoned(e)))

\* A stop ends every worker, wherever it waits: at the readiness barrier, in a
\* get on an empty edge, or in a put on a full one nobody empties any more.
StopEndsWorkers == stop ~> AllDone

\* Whether somebody stops the run or not, every worker comes to its end.
WorkersEnd == EndByThemselves /\ StopEndsWorkers

-----------------------------------------------------------------------------
(* What the documentation says and the code does not keep.                 *)

\* "isolate_branch: close only the failed branch with EOS"
\* (docs/PRODUCTION_RUNTIME.md): nodes that cannot be reached from an isolated
\* node end their work.
Downstream(n) == {m \in Nodes : <<n, m>> \in config.edges}
BranchOf(n) == {n} \cup Downstream(n) \cup UNION {Downstream(m) : m \in Downstream(n)}
OtherBranchesGoOn ==
    \A n \in Nodes : <>(worker[n] = "done" \/ \E m \in isolated : n \in BranchOf(m))
=============================================================================
