------------------------------ MODULE ProcessNode ------------------------------
(***************************************************************************)
(* A node in a process of its own (process_host.py): the worker thread of  *)
(* the graph that calls it through ProcessNodeProxy, the child process at  *)
(* the other end of the pipe, the watchdog that interrupts a silent node,  *)
(* and the main thread that closes the node when the run is over.  Worker, *)
(* watchdog and main share the connection and the process of the proxy;    *)
(* the restart lock orders the first two only.                             *)
(*                                                                         *)
(* A node has one output port, so a call reserves one slot of the output   *)
(* pool.  Input leases, which a call takes and gives back itself, and the  *)
(* metric pipe are left out; a message on the pipe is read as a whole.     *)
(***************************************************************************)
EXTENDS Integers, Sequences

CONSTANTS
    Setups,       \* the nodes that may run, see Setup
    Slots,        \* blocks of the output pool
    Calls,        \* bound: messages for a processor, items a source makes
    MaxRestarts,  \* max_restarts
    MaxFaults,    \* bound: faults of child and node
    None          \* no connection, no process, no slot

Setup == [policy: {"restart", "skip", "stop"},  \* failure_policy
          source: BOOLEAN,      \* ProcessSourceProxy
          watched: BOOLEAN,     \* health.on_timeout is restart
          stoppable: BOOLEAN]   \* bound: whether somebody may ask for a stop

ASSUME NodeAssumption ==
    /\ Setups \subseteq Setup
    /\ Slots # {}
    /\ Calls \in Nat \ {0} /\ MaxRestarts \in Nat /\ MaxFaults \in Nat
    /\ None \notin Nat \cup Slots

VARIABLES
    setup,      \* the node that runs, never changed
    worker,     \* what the worker thread is doing
    call,       \* the call it is on; the last one of a processor is flush
    slot,       \* the output slot of the call
    reading,    \* the child whose pipe it is blocked on
    restarts,   \* restarts; restarts + 1 is _generation
    conn, proc, \* _connection and _process: the child they belong to
    lock,       \* _restart_lock
    watchdog,   \* what the watchdog is doing with this node
    ready,      \* health.ready
    seen,       \* whether last_message_ns is set
    triggered,  \* watchdog_triggered
    main,       \* what the main thread is doing with this node
    stop,       \* _stop of the runtime
    child,      \* the child processes
    requests,   \* what the proxy has written to each child, unread
    replies,    \* what each child has written, unread
    free,       \* free slots of the output pool
    open,       \* the pool is not closed
    downstream, \* slots that delivered messages live in
    left,       \* the consumers are gone and keep what they hold
    faults,     \* history: faults so far
    interrupts, \* history: interrupts so far
    strange,    \* history: a call took the answer to another one
    late        \* history: a child was started after main began to close

proxy == <<call, slot, reading, restarts, conn, proc, lock>>
health == <<watchdog, ready, seen, triggered>>
pipes == <<child, requests, replies>>
pool == <<free, open, downstream, left>>
ends == <<main, stop>>
history == <<faults, interrupts, strange, late>>
vars == <<setup, worker, proxy, health, pipes, pool, ends, history>>

Children == 1..(MaxRestarts + 1)
Flush == Calls + 1
Unborn == [state |-> "unborn", call |-> 0, slot |-> None, made |-> 0]
Alive(g) == child[g].state \notin {"unborn", "dead"}
PipeUp == IF conn = None THEN FALSE ELSE Alive(conn)
ProcessAlive == IF proc = None THEN FALSE ELSE Alive(proc)
Finished == worker \in {"ended", "failed"}

Init ==
    /\ setup \in Setups
    /\ worker = "opening" /\ call = 0 /\ slot = None /\ reading = None
    /\ restarts = 0 /\ conn = 1 /\ proc = 1 /\ lock = "free"
    /\ watchdog = "watching" /\ ready = FALSE /\ seen = FALSE /\ triggered = FALSE
    /\ main = "running" /\ stop = FALSE
    /\ child = [g \in Children |->
                   IF g = 1 THEN [Unborn EXCEPT !.state = "starting"] ELSE Unborn]
    /\ requests = [g \in Children |-> <<>>] /\ replies = [g \in Children |-> <<>>]
    /\ free = Slots /\ open = TRUE /\ downstream = {} /\ left = FALSE
    /\ faults = 0 /\ interrupts = 0 /\ strange = FALSE
    /\ late = FALSE

-----------------------------------------------------------------------------
(* How a call ends. *)

\* SharedBufferPool._release: a closed pool takes nothing back.
Release(s) == free' = IF open /\ s # None THEN free \cup {s} ELSE free

\* The finally clause of _call for an attempt whose slot no message took.
GiveBack ==
    /\ Release(slot) /\ slot' = None /\ reading' = None
    /\ UNCHANGED <<open, downstream, left>>

\* _record_error: the run stops.
NodeFails == worker' = "failed" /\ stop' = TRUE /\ ready' = FALSE

\* _call returns no message.  A source asks again without looking at _stop.
ReturnNothing ==
    /\ GiveBack
    /\ worker' = IF call = Flush /\ ~setup.source THEN "ended" ELSE "between"
    /\ call' = IF setup.source THEN call - 1 ELSE call

\* An exception that is not in the except clause of _call leaves it;
\* _run_processor skips the message when the policy says so, but not in drain.
Escape ==
    /\ GiveBack
    /\ IF setup.policy = "skip" /\ ~setup.source /\ call # Flush
       THEN worker' = "between" /\ ready' = TRUE /\ UNCHANGED stop
       ELSE NodeFails

\* An exception the except clause catches.
Caught == worker' = "excepting"

-----------------------------------------------------------------------------
(* The worker: ProcessNodeProxy._call, statement by statement. *)

Begin ==
    /\ worker = "between"
    /\ worker' = "checking"
    /\ IF setup.source
       THEN call' = call + 1 /\ UNCHANGED <<seen, triggered>>
       ELSE IF stop \/ call = Calls
            THEN call' = Flush /\ UNCHANGED <<seen, triggered>>
            ELSE call' = call + 1 /\ seen' = TRUE /\ triggered' = FALSE
    /\ UNCHANGED <<setup, slot, reading, restarts, conn, proc, lock, watchdog,
                   ready, pipes, pool, ends, history>>

Check ==
    /\ worker = "checking"
    /\ IF conn = None \/ ~ProcessAlive
       THEN Caught
       ELSE worker' = "reserving"
    /\ UNCHANGED <<setup, proxy, health, pipes, pool, ends, history>>

\* Whoever waits in acquire holds neither the lock nor a deadline.
Reserve ==
    /\ worker = "reserving" /\ open
    /\ \E s \in free : slot' = s /\ free' = free \ {s}
    /\ worker' = "sending"
    /\ UNCHANGED <<setup, call, reading, restarts, conn, proc, lock, health, pipes,
                   open, downstream, left, ends, history>>

ReserveFails ==
    /\ worker = "reserving" /\ ~open
    /\ Escape
    /\ UNCHANGED <<setup, call, restarts, conn, proc, lock, watchdog, seen,
                   triggered, pipes, main, history>>

Send ==
    /\ worker = "sending" /\ PipeUp
    /\ requests' = [requests EXCEPT ![conn] =
                       Append(@, [op |-> "call", call |-> call, slot |-> slot])]
    /\ worker' = "sent"
    /\ UNCHANGED <<setup, proxy, health, child, replies, pool, ends, history>>

Listen ==
    /\ worker = "sent" /\ conn # None
    /\ worker' = "receiving" /\ reading' = conn
    /\ UNCHANGED <<setup, call, slot, restarts, conn, proc, lock, health, pipes,
                   pool, ends, history>>

\* The connection is broken, or another thread has just closed it, also under a
\* blocked recv that an answer then reaches.
PipeBroken ==
    /\ \/ worker \in {"sending", "acking"} /\ ~PipeUp
       \/ worker = "sent" /\ conn = None
       \/ worker = "receiving" /\ reading # conn /\ replies[reading] # <<>>
       \/ worker = "receiving" /\ ~Alive(reading) /\ replies[reading] = <<>>
    /\ Caught
    /\ UNCHANGED <<setup, proxy, health, pipes, pool, ends, history>>

\* Another thread has set _connection to None: an AttributeError.  Or it has
\* closed the connection under a blocked recv, which reads the rest of an answer
\* from the handle None: a TypeError.  Nobody catches either.
ConnectionGone ==
    /\ \/ worker \in {"sending", "sent", "acking"} /\ conn = None
       \/ worker = "receiving" /\ reading # conn /\ replies[reading] # <<>>
    /\ Escape
    /\ UNCHANGED <<setup, call, restarts, conn, proc, lock, watchdog, seen,
                   triggered, pipes, main, history>>

Answered == worker = "receiving" /\ reading = conn /\ replies[reading] # <<>>
Reply == Head(replies[conn])
TakeAnswer == replies' = [replies EXCEPT ![conn] = Tail(@)]

ReceiveError ==
    /\ Answered /\ Reply.kind = "error"
    /\ TakeAnswer /\ Caught
    /\ UNCHANGED <<setup, proxy, health, child, requests, pool, ends, history>>

\* Mutant: used_slots is not filled, so the finally clause gives all slots back.
DeliverGivingBack(used, eos) ==
    /\ slot' = None /\ reading' = None /\ Release(slot)
    /\ IF setup.source /\ (eos \/ stop)
       THEN worker' = "ended" /\ UNCHANGED <<downstream, seen>>
       ELSE /\ worker' = IF call = Flush /\ ~setup.source THEN "ended" ELSE "between"
            /\ downstream' = IF used THEN downstream \cup {slot} ELSE downstream
            /\ seen' = (seen \/ setup.source)
    /\ UNCHANGED <<open, left>>

\* The messages of the answer leave _call: the slot one of them lives in goes
\* downstream.  A source that finds the run stopped drops them.
Deliver(used, eos) ==
    /\ slot' = None /\ reading' = None
    /\ IF setup.source /\ (eos \/ stop)
       THEN worker' = "ended" /\ Release(slot) /\ UNCHANGED <<downstream, seen>>
       ELSE /\ worker' = IF call = Flush /\ ~setup.source THEN "ended" ELSE "between"
            /\ IF used
               THEN downstream' = downstream \cup {slot} /\ UNCHANGED free
               ELSE Release(slot) /\ UNCHANGED downstream
            /\ seen' = (seen \/ setup.source)
    /\ UNCHANGED <<open, left>>

ReceiveAnswer ==
    /\ Answered /\ Reply.kind # "error"
    /\ TakeAnswer
    /\ strange' = (strange \/ Reply.call # call)
    /\ IF Reply.ack
       THEN worker' = "acking" /\ UNCHANGED <<slot, reading, seen, pool>>
       ELSE Deliver(Reply.slot # None, Reply.kind = "eos")
    /\ UNCHANGED <<setup, call, restarts, conn, proc, lock, watchdog, ready,
                   triggered, child, requests, ends, faults, interrupts, late>>

\* _decode_ipc_message raises an OSError when the block is gone, and something
\* else for the rest; nothing is acknowledged.
DecodeFails ==
    /\ Answered /\ Reply.kind = "ok" /\ faults < MaxFaults
    /\ faults' = faults + 1
    /\ TakeAnswer
    /\ Escape \/ (Caught /\ UNCHANGED <<slot, reading, ready, pool, stop>>)
    /\ UNCHANGED <<setup, call, restarts, conn, proc, lock, watchdog, seen,
                   triggered, child, requests, main, interrupts, strange, late>>

Acknowledge ==
    /\ worker = "acking" /\ PipeUp
    /\ requests' = [requests EXCEPT ![conn] =
                       Append(@, [op |-> "ack", call |-> call, slot |-> None])]
    /\ Deliver(FALSE, FALSE)
    /\ UNCHANGED <<setup, call, restarts, conn, proc, lock, watchdog, ready,
                   triggered, child, replies, ends, history>>

Skip ==
    /\ worker = "excepting" /\ setup.policy = "skip"
    /\ ReturnNothing
    /\ UNCHANGED <<setup, restarts, conn, proc, lock, health, pipes, ends, history>>

\* Mutant: max_restarts is not asked.
RecoverUnbounded ==
    /\ worker = "excepting" /\ setup.policy = "restart" /\ lock = "free"
    /\ lock' = "worker" /\ worker' = "closing"
    /\ UNCHANGED <<setup, call, slot, reading, restarts, conn, proc, health, pipes,
                   pool, ends, history>>

\* _generation changes in _restart alone, so a call never finds that somebody
\* else has restarted the child; and it has made one attempt per restart, so
\* the bound on its attempts is the bound on restarts.
Recover ==
    /\ worker = "excepting" /\ setup.policy = "restart"
    /\ lock = "free" /\ restarts < MaxRestarts
    /\ lock' = "worker" /\ worker' = "closing"
    /\ UNCHANGED <<setup, call, slot, reading, restarts, conn, proc, health, pipes,
                   pool, ends, history>>

GiveUp ==
    /\ worker = "excepting" /\ setup.policy # "skip"
    /\ setup.policy = "restart" => lock = "free" /\ restarts = MaxRestarts
    /\ GiveBack /\ NodeFails
    /\ UNCHANGED <<setup, call, restarts, conn, proc, lock, watchdog, seen,
                   triggered, pipes, main, history>>

-----------------------------------------------------------------------------
(* _terminate, run by one of three threads: close the connection, end the  *)
(* process, forget it.                                                     *)

EndProcess == child' = [child EXCEPT ![proc].state = "dead"]

WorkerCloses ==
    /\ worker = "closing"
    /\ conn' = None /\ worker' = "killing"
    /\ UNCHANGED <<setup, call, slot, reading, restarts, proc, lock, health, pipes,
                   pool, ends, history>>

\* Mutant: a process that is still alive is not terminated.
WorkerOnlyJoins ==
    /\ worker = "killing"
    /\ worker' = IF proc = None THEN "starting" ELSE "reaping"
    /\ UNCHANGED <<setup, proxy, health, pipes, pool, ends, history>>

WorkerKills ==
    /\ worker = "killing"
    /\ IF proc = None
       THEN worker' = "starting" /\ UNCHANGED child
       ELSE worker' = "reaping" /\ EndProcess
    /\ UNCHANGED <<setup, proxy, health, requests, replies, pool, ends, history>>

\* Another thread may have set _process to None: an AttributeError.
WorkerReaps ==
    /\ worker = "reaping"
    /\ IF proc # None
       THEN worker' = "starting" /\ proc' = None
            /\ UNCHANGED <<slot, reading, lock, ready, stop, pool>>
       ELSE GiveBack /\ NodeFails /\ lock' = "free" /\ UNCHANGED proc
    /\ UNCHANGED <<setup, call, restarts, conn, watchdog, seen, triggered, pipes,
                   main, history>>

StartChild ==
    /\ worker = "starting"
    /\ restarts' = restarts + 1
    /\ conn' = restarts + 2 /\ proc' = restarts + 2
    /\ child' = [child EXCEPT ![restarts + 2].state = "starting"]
    /\ worker' = "awaiting" /\ late' = (late \/ main # "running")
    /\ UNCHANGED <<setup, call, slot, reading, lock, health, requests, replies,
                   pool, ends, faults, interrupts, strange>>

Newborn == restarts + 1
AwaitsChild == worker \in {"opening", "awaiting"}

\* The attempt that failed gives its slot back only now, and the next begins.
ChildIsReady ==
    /\ AwaitsChild /\ conn = Newborn /\ replies[conn] # <<>>
    /\ TakeAnswer
    /\ IF worker = "opening"
       THEN worker' = "between" /\ ready' = TRUE /\ UNCHANGED <<slot, reading, lock, pool>>
       ELSE worker' = "checking" /\ lock' = "free" /\ GiveBack /\ UNCHANGED ready
    /\ UNCHANGED <<setup, call, restarts, conn, proc, watchdog, seen, triggered,
                   child, requests, ends, history>>

\* The child has died, or its pipe was closed by another thread.
StartFails ==
    /\ AwaitsChild
    /\ conn # Newborn \/ (~Alive(Newborn) /\ replies[Newborn] = <<>>)
    /\ GiveBack /\ NodeFails /\ lock' = "free"
    /\ UNCHANGED <<setup, call, restarts, conn, proc, watchdog, seen, triggered,
                   pipes, main, history>>

\* It is not ready after 15 s.
StartTimesOut ==
    /\ AwaitsChild /\ conn = Newborn /\ proc = Newborn /\ replies[conn] = <<>>
    /\ faults < MaxFaults /\ faults' = faults + 1
    /\ EndProcess /\ conn' = None /\ proc' = None
    /\ GiveBack /\ NodeFails /\ lock' = "free"
    /\ UNCHANGED <<setup, call, restarts, watchdog, seen, triggered, requests,
                   replies, main, interrupts, strange, late>>

WorkerStep ==
    \/ Begin \/ Check \/ Reserve \/ ReserveFails \/ Send \/ Listen
    \/ PipeBroken \/ ConnectionGone \/ ReceiveError \/ ReceiveAnswer
    \/ Acknowledge \/ Skip \/ Recover \/ GiveUp \/ WorkerCloses \/ WorkerKills
    \/ WorkerReaps \/ StartChild \/ ChildIsReady \/ StartFails

-----------------------------------------------------------------------------
(* The watchdog: _watchdog_loop for this node, and interrupt. *)

\* Nothing sets health.ready again after mark_restart, except a skipped
\* message: a node is interrupted once.
WatchdogFires ==
    /\ watchdog = "watching" /\ setup.watched
    /\ ~stop /\ ready /\ seen /\ ~triggered
    /\ triggered' = TRUE /\ ready' = FALSE
    /\ interrupts' = interrupts + 1
    /\ watchdog' = "locking"
    /\ UNCHANGED <<setup, worker, proxy, seen, pipes, pool, ends, faults, strange,
                   late>>

Interrupt ==
    /\ watchdog = "locking" /\ lock = "free"
    /\ lock' = "watchdog" /\ watchdog' = "killing" /\ conn' = None
    /\ UNCHANGED <<setup, worker, call, slot, reading, restarts, proc, ready, seen,
                   triggered, pipes, pool, ends, history>>

\* Mutant: interrupt closes the connection only.
WatchdogSpares ==
    /\ watchdog = "killing"
    /\ watchdog' = "watching" /\ lock' = "free"
    /\ UNCHANGED <<setup, worker, call, slot, reading, restarts, conn, proc, ready,
                   seen, triggered, pipes, pool, ends, history>>

WatchdogKills ==
    /\ watchdog = "killing"
    /\ IF proc = None
       THEN watchdog' = "watching" /\ lock' = "free" /\ UNCHANGED child
       ELSE watchdog' = "reaping" /\ EndProcess /\ UNCHANGED lock
    /\ UNCHANGED <<setup, worker, call, slot, reading, restarts, conn, proc, ready,
                   seen, triggered, requests, replies, pool, ends, history>>

\* An AttributeError here ends the watchdog's thread.
WatchdogReaps ==
    /\ watchdog = "reaping"
    /\ watchdog' = IF proc = None THEN "dead" ELSE "watching"
    /\ proc' = None /\ lock' = "free"
    /\ UNCHANGED <<setup, worker, call, slot, reading, restarts, conn, ready, seen,
                   triggered, pipes, pool, ends, history>>

WatchdogStep == WatchdogFires \/ Interrupt \/ WatchdogKills \/ WatchdogReaps

-----------------------------------------------------------------------------
(* The main thread: run_sync until the workers are done or the deadline of *)
(* a stop has passed, then close.                                          *)

RequestStop ==
    /\ setup.stoppable /\ ~stop /\ main = "running" /\ worker # "opening"
    /\ stop' = TRUE
    /\ UNCHANGED <<setup, worker, proxy, health, pipes, pool, main, history>>

MainCloses ==
    /\ main = "running" /\ (Finished \/ stop) /\ worker # "opening"
    /\ stop' = TRUE
    /\ IF conn # None /\ ProcessAlive
       THEN /\ main' = "polling"
            /\ requests' = [requests EXCEPT ![conn] =
                               Append(@, [op |-> "close", call |-> 0, slot |-> None])]
       ELSE main' = "closing" /\ UNCHANGED requests
    /\ UNCHANGED <<setup, worker, proxy, health, child, replies, pool, history>>

\* It takes whatever is there, the worker's answer too, or waits for 3 s.
MainPolls ==
    /\ main = "polling"
    /\ main' = "closing"
    /\ IF conn # None /\ replies[conn] # <<>> THEN TakeAnswer ELSE UNCHANGED replies
    /\ UNCHANGED <<setup, worker, proxy, health, child, requests, pool, stop, history>>

MainClosesPipe ==
    /\ main = "closing"
    /\ conn' = None /\ main' = "killing"
    /\ UNCHANGED <<setup, worker, call, slot, reading, restarts, proc, lock, health,
                   pipes, pool, stop, history>>

MainKills ==
    /\ main = "killing"
    /\ IF proc = None
       THEN main' = "releasing" /\ UNCHANGED child
       ELSE main' = "reaping" /\ EndProcess
    /\ UNCHANGED <<setup, worker, proxy, health, requests, replies, pool, stop, history>>

MainReaps ==
    /\ main = "reaping"
    /\ main' = IF proc = None THEN "broken" ELSE "releasing"
    /\ proc' = None
    /\ UNCHANGED <<setup, worker, call, slot, reading, restarts, conn, lock, health,
                   pipes, pool, stop, history>>

\* Another thread set _connection to None before poll: an AttributeError, and
\* neither the process nor the pool is closed.
MainBreaks ==
    /\ main = "polling" /\ conn = None
    /\ main' = "broken"
    /\ UNCHANGED <<setup, worker, proxy, health, pipes, pool, stop, history>>

ClosePool ==
    /\ main = "releasing"
    /\ main' = "closed" /\ open' = FALSE
    /\ UNCHANGED <<setup, worker, proxy, health, pipes, free, downstream, left, stop,
                   history>>

MainStep ==
    \/ MainCloses \/ MainPolls \/ MainClosesPipe \/ MainKills \/ MainReaps
    \/ MainBreaks \/ ClosePool

-----------------------------------------------------------------------------
(* The consumers of the messages. *)

Consume ==
    /\ ~left
    /\ \E s \in downstream : downstream' = downstream \ {s} /\ Release(s)
    /\ UNCHANGED <<setup, worker, proxy, health, pipes, open, left, ends, history>>

\* Once the run stops they leave the messages in their queues.
ConsumersLeave ==
    /\ stop /\ ~Finished /\ ~left /\ left' = TRUE
    /\ UNCHANGED <<setup, worker, proxy, health, pipes, free, open, downstream, ends,
                   history>>

-----------------------------------------------------------------------------
(* The child process: _child_main. *)


\* A thread that is blocked on the pipe keeps it open although it was closed.
Connected(g) == conn = g \/ (worker = "receiving" /\ reading = g)

\* Writing to a pipe nobody holds ends the child.
Say(g, kind, s, ack, state, made) ==
    IF Connected(g)
    THEN /\ replies' = [replies EXCEPT ![g] =
                Append(@, [kind |-> kind, call |-> child[g].call, slot |-> s, ack |-> ack])]
         /\ child' = [child EXCEPT ![g].state = state, ![g].made = made]
    ELSE /\ child' = [child EXCEPT ![g].state = "dead"]
         /\ UNCHANGED replies

ChildStarts(g) ==
    /\ child[g].state = "starting"
    /\ Say(g, "ready", None, FALSE, "idle", 0)
    /\ UNCHANGED requests

Request(g) == Head(requests[g])
TakeRequest(g) == requests' = [requests EXCEPT ![g] = Tail(@)]

ChildTakesCall(g) ==
    /\ child[g].state = "idle" /\ requests[g] # <<>> /\ Request(g).op = "call"
    /\ TakeRequest(g)
    /\ child' = [child EXCEPT ![g].state = "working", ![g].call = Request(g).call,
                              ![g].slot = Request(g).slot]
    /\ UNCHANGED replies

ChildCloses(g) ==
    /\ child[g].state = "idle" /\ requests[g] # <<>> /\ Request(g).op = "close"
    /\ TakeRequest(g)
    /\ Say(g, "closed", None, FALSE, "dead", child[g].made)

\* An acknowledgement that comes late is an unknown operation.
ChildHearsStray(g) ==
    /\ child[g].state = "idle" /\ requests[g] # <<>> /\ Request(g).op = "ack"
    /\ TakeRequest(g)
    /\ Say(g, "error", None, FALSE, "idle", child[g].made)

\* The message is in the slot, in a block of its own that waits for the
\* acknowledgement, or in the answer itself.
Shapes(g) == {[slot |-> child[g].slot, ack |-> FALSE], [slot |-> None, ack |-> TRUE],
              [slot |-> None, ack |-> FALSE]}

ChildAnswers(g) ==
    /\ child[g].state = "working"
    /\ IF setup.source /\ child[g].made = Calls
       THEN Say(g, "eos", None, FALSE, "idle", Calls)
       ELSE \E shape \in Shapes(g) :
                Say(g, "ok", shape.slot, shape.ack,
                    IF shape.ack THEN "acking" ELSE "idle",
                    IF setup.source THEN child[g].made + 1 ELSE 0)
    /\ UNCHANGED requests

\* Mutant: the request that came instead of it is also served.
ChildHearsAckAndServes(g) ==
    /\ child[g].state = "acking" /\ requests[g] # <<>>
    /\ TakeRequest(g)
    /\ IF Request(g).op = "ack"
       THEN child' = [child EXCEPT ![g].state = "idle"] /\ UNCHANGED replies
       ELSE /\ child' = [child EXCEPT ![g].state = "working", ![g].call = Request(g).call,
                                      ![g].slot = Request(g).slot]
            /\ replies' = [replies EXCEPT ![g] = Append(@,
                  [kind |-> "error", call |-> child[g].call, slot |-> None, ack |-> FALSE])]

\* Whatever comes instead of the acknowledgement is answered with an error.
ChildHearsAck(g) ==
    /\ child[g].state = "acking" /\ requests[g] # <<>>
    /\ TakeRequest(g)
    /\ IF Request(g).op = "ack"
       THEN child' = [child EXCEPT ![g].state = "idle"] /\ UNCHANGED replies
       ELSE Say(g, "error", None, FALSE, "idle", child[g].made)

\* It reads the end of the pipe.
ChildIsLeft(g) ==
    /\ child[g].state \in {"idle", "acking"} /\ requests[g] = <<>> /\ ~Connected(g)
    /\ child' = [child EXCEPT ![g].state = "dead"]
    /\ UNCHANGED <<requests, replies>>

ChildStep(g) ==
    /\ \/ ChildStarts(g) \/ ChildTakesCall(g) \/ ChildCloses(g)
       \/ ChildHearsStray(g) \/ ChildAnswers(g) \/ ChildHearsAck(g) \/ ChildIsLeft(g)
    /\ UNCHANGED <<setup, worker, proxy, health, pool, ends, history>>

\* The node raises; a generator that has raised makes nothing more.
NodeRaises(g) ==
    /\ child[g].state = "working"
    /\ Say(g, "error", None, FALSE, "idle", IF setup.source THEN Calls ELSE 0)

NodeHangs(g) ==
    /\ child[g].state = "working"
    /\ child' = [child EXCEPT ![g].state = "hung"] /\ UNCHANGED replies

ChildDies(g) ==
    /\ Alive(g)
    /\ child' = [child EXCEPT ![g].state = "dead"] /\ UNCHANGED replies

Fault(g) ==
    /\ faults < MaxFaults /\ faults' = faults + 1
    /\ NodeRaises(g) \/ NodeHangs(g) \/ ChildDies(g)
    /\ UNCHANGED <<setup, worker, proxy, health, requests, pool, ends, interrupts,
                   strange, late>>

-----------------------------------------------------------------------------
Next ==
    \/ WorkerStep \/ DecodeFails \/ StartTimesOut
    \/ WatchdogStep
    \/ RequestStop \/ MainStep
    \/ Consume \/ ConsumersLeave
    \/ \E g \in Children : ChildStep(g) \/ Fault(g)

\* Every thread and every child that can go on does; the watchdog's clock and
\* the deadline of a stop run out.
Fairness ==
    /\ WF_vars(WorkerStep) /\ WF_vars(WatchdogStep) /\ WF_vars(MainStep)
    /\ WF_vars(Consume)
    /\ \A g \in Children : WF_vars(ChildStep(g))

Spec == Init /\ [][Next]_vars /\ Fairness

-----------------------------------------------------------------------------
States == {"unborn", "starting", "idle", "working", "acking", "hung", "dead"}

\* What the pipes carry.
Questions == [op: {"call", "ack", "close"}, call: Nat, slot: Slots \cup {None}]
Answers == [kind: {"ready", "ok", "eos", "error", "closed"}, call: Nat,
            slot: Slots \cup {None}, ack: BOOLEAN]

\* Types of the shared attributes of the proxy, and of the pipes; until main
\* closes the node a pipe holds at most an acknowledgement and the next request
\* one way, and one answer the other.
TypeOK ==
    /\ setup \in Setups
    /\ worker \in {"opening", "between", "checking", "reserving", "sending", "sent",
                   "receiving", "acking", "excepting", "closing", "killing",
                   "reaping", "starting", "awaiting", "ended", "failed"}
    /\ call \in Nat /\ slot \in Slots \cup {None}
    /\ reading \in Children \cup {None}
    /\ restarts \in 0..MaxRestarts
    /\ conn \in Children \cup {None} /\ proc \in Children \cup {None}
    /\ lock \in {"free", "worker", "watchdog"}
    /\ watchdog \in {"watching", "locking", "killing", "reaping", "dead"}
    /\ main \in {"running", "polling", "closing", "killing", "reaping", "releasing",
                 "closed", "broken"}
    /\ ready \in BOOLEAN /\ seen \in BOOLEAN /\ triggered \in BOOLEAN
    /\ stop \in BOOLEAN /\ open \in BOOLEAN /\ left \in BOOLEAN /\ strange \in BOOLEAN
    /\ late \in BOOLEAN
    /\ child \in [Children -> [state: States, call: Nat, slot: Slots \cup {None},
                              made: Nat]]
    /\ requests \in [Children -> Seq(Questions)]
    /\ replies \in [Children -> Seq(Answers)]
    /\ main = "running" => \A g \in Children :
          Len(requests[g]) <= 2 /\ Len(replies[g]) <= 1
    /\ free \subseteq Slots /\ downstream \subseteq Slots
    /\ faults \in 0..MaxFaults /\ interrupts \in Nat

\* A call returns the answer to its own request, in spite of restarts, errors,
\* answers that cannot be decoded and acknowledgements that were not sent.
OwnAnswers == main = "running" => ~strange

\* A slot is free, reserved by the call, or in a message, never two of them,
\* and none is lost.
SlotsAccounted ==
    open => /\ free \cap downstream = {} /\ slot \notin free \cup downstream
            /\ Slots \subseteq free \cup downstream \cup {slot}

\* No child writes into a slot that a delivered message lives in, until the
\* main thread uses the connection to close the node under the worker, which
\* then may take the answer to an earlier call.
MessagesIntact ==
    main = "running" => \A g \in Children :
        child[g].state \in {"working", "hung"} => child[g].slot \notin downstream

SafeExchange == OwnAnswers /\ SlotsAccounted /\ MessagesIntact

\* One crash, error or interrupt costs at most one restart or the node, until
\* the main thread closes it under the worker.
TroublePaid ==
    main = "running" => restarts + (IF worker = "failed" THEN 1 ELSE 0)
                            <= faults + interrupts

\* When node and worker are done no child is left, unless the worker started
\* one after the main thread had stopped waiting for it.
ChildrenReaped ==
    main = "closed" /\ Finished /\ ~late => \A g \in Children : ~Alive(g)

Lifetimes == TroublePaid /\ ChildrenReaped

\* The worker comes to its end, unless its node hangs and the watchdog does not
\* or no longer look at it, or it is a source under skip_message without child,
\* or the consumers keep every slot and closing the pool has failed.
Unrescued ==
    /\ worker = "receiving" /\ conn = reading /\ child[reading].state = "hung"
    /\ ~setup.watched \/ ~seen \/ ~ready \/ triggered \/ late
Spinning ==
    /\ setup.source /\ setup.policy = "skip"
    /\ \A g \in Children : ~Alive(g)
Starved ==
    worker = "reserving" /\ open /\ free = {} /\ left /\ main = "broken"
CallsEnd == <>Finished \/ <>[](Unrescued \/ Spinning \/ Starved)
=============================================================================
