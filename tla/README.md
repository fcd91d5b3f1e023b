# Nodrix: models and proofs

TLA+ modules for the parts of Nodrix that coordinate several actors or several
files: starting a composed System, keeping the files of a persistent Run
truthful, moving messages between threads, processes and machines, keeping what
is stored and recorded intact, and ending all of it. TLC
checks each module on a small instance; TLAPS proves the most important results
for every value of the constants. Line numbers are those of the sources under
`src/`; `PROJECT.json` maps every definition to the lines it stands for.

## The system

| component | state it keeps | operations | what is hard |
| --- | --- | --- | --- |
| System orchestrator (`system/orchestration.py`) | scopes started, child Systems running, satisfied dependencies, deadlines, the status cache of a pass | `prepare`, `start`, `inspect`, `stop` | readiness waits and deadlines over several children, rollback when any step fails, interrupts |
| Canonical Run (`system/canonical_runtime.py`, `run_events.py`, `run_status.py`, `run_record.py`) | event journal, status cache, final record, provenance documents, the handle | start, inspect, stop | each write may fail or be the last one before a crash; failures are swallowed in some places and raised in others |
| Run recovery (`run_recovery.py`) | none | classify a Run directory | must tell the truth about files left half-way |
| Benchmark runner (`benchmark_system_runner.py`) | the samples of one run | poll until terminal | letting go of an execution that still lives |
| Local backend (`system/local_backend.py`) | one worker thread and a state per execution | prepare, start, inspect, stop | stop racing the worker's own state writes |
| Graph runtime (`hybrid_runtime.py`, `runtime_workers.py`, `runtime_execution.py`) | a thread per node, `_start`, `_stop`, `_errors`, the shutdown deadline | run, request_stop | back-pressure, EOS, failing nodes, a stop at any moment |
| Bounded edge queue (`queueing.py`, `runtime_primitives.py`) | items, closed, counters, one condition | put, put_control, get, try_get, close, discard_pending | wake-ups, four overflow policies |
| Process isolation (`process_host.py`, `shared_memory.py`) | child process, generation, leases and slots | call, restart, interrupt, close | a child that dies in a call, a retry, a watchdog's interrupt |
| Streams (`streams.py`, `wire.py`) | subscriptions, client limits; the client's socket, budget and state | publish, subscribe, connect, receive, close | reconnection racing close |
| Materialized storage (`materialized_storage.py`) | revision directories, descriptors, lifecycle documents | materialize, verify, pin, delete, prune | crash and concurrency around renames |
| NDRX recording (`recording.py`) | chunks, summary, writer thread | write, checkpoint, close, read | reading what a crash left |
| Workflow execution (`workflow_execution.py`) | step results | execute | failed and reused steps |

The rest (planning, validation, manifests, packages, discovery, command line,
media, statistics) computes values from values or does plain I/O; it is listed
in `PROJECT.json` with the reason it has no model.

How they interact: the command line and the benchmark runner call the Canonical
Run; it writes the Run's files and calls the orchestrator; the orchestrator
calls one backend per scope and itself for child Systems; the local backend runs
one graph runtime in a thread; the graph runtime's node threads meet only at the
edge queues and at the `_start` and `_stop` flags. A node that is isolated is called
by its worker through a pipe to its own process. Whatever the workers publish
may also be recorded, through one more queue and one more thread that the
execution's thread closes, and exported to subscribers on other machines.
Recovery, the reader of a recording and the clients of the materialized storage
read the files later, or meanwhile, from other processes.

What makes each component correct:

* orchestrator: nothing starts before what it depends on, independent branches
  do not hold each other up, a failed start leaves nothing behind, a returned
  handle owns everything, the call ends;
* Canonical Run: evidence exists before execution, no execution is left without
  a handle, and whatever recovery concludes from the files is true of the
  execution;
* queue: bounded, FIFO, every item accounted for, nobody asleep who could go on;
* graph runtime: order is kept, a run reported completed has lost nothing, the
  threads end;
* process isolation: a call gets its own answer, a shared block has one owner,
  trouble costs no more than its restart, nobody waits for a dead child;
* streams: subscribers receive in order, a slow viewer hurts only itself, no
  client is listed without a thread that will remove it, `close` ends everything;
* materialized storage: a revision appears whole, never changes, and is removed
  only if it may be;
* recording: readable from its first flush on, and complete when the execution
  has ended.

## Modules

| module | models | notes |
| --- | --- | --- |
| `SystemStates` | `BackendExecutionState`, `_aggregate_state` | shared definitions |
| `SystemStartup` | `SystemOrchestrator.start` | scheduler, deadlines, events, rollback, interrupt |
| `SystemStartupProofs` | | theorems about `SystemStartup` |
| `RunRecovery` | `inspect_run_directory`'s verdict | operators over the files |
| `CanonicalRun` | start, inspect, stop of a persistent Run; crash; benchmark runner | uses `RunRecovery`, `SystemStates` |
| `CanonicalRunProofs` | | theorems about `CanonicalRun` |
| `FifoChannel` | the promise of an edge | abstract specification |
| `BoundedQueue` | `PythonBoundedQueue` | implements `FifoChannel` |
| `BoundedQueueProofs` | | theorems about `BoundedQueue` |
| `GraphRuntime` | node threads, edges seen from outside, `run_sync` | a `put` or `get` that would sleep is a step not enabled |
| `GraphRuntimeProofs` | | theorems about `GraphRuntime` |
| `ProcessNode` | `ProcessNodeProxy`, the child process, the watchdog, the node's close | one node of a graph |
| `ProcessNodeProofs` | | theorems about `ProcessNode` |
| `RevisionStore` | the promise of materialized storage | abstract specification |
| `MaterializedStorage` | materialize, set lifecycle, delete, prune | implements `RevisionStore` |
| `MaterializedStorageProofs` | | theorems about `MaterializedStorage` |
| `Recording` | `NdrxWriter`, `AsyncNdrxWriter`, the recovering `NdrxReader` | extended by `LocalBackend` |
| `RecordingReader` | an `NdrxReader` while the file is written | extends `Recording` |
| `LocalBackend` | the execution's thread, recorded workers, a caller of stop | composes `Recording`, `SystemStates` |
| `LocalBackendProofs` | | theorems about `LocalBackend` and `Recording` |
| `StreamServer` | one exported stream | extended by `Streams` |
| `Streams` | the subscribers' `StreamClient`s with it | composes `StreamServer` |
| `StreamsProofs` | | theorems about `Streams` |
| `MC*` | instances for TLC | |

### SystemStartup

One action per statement that can be told apart from outside. `StartScope` and
`ScopeStartFails` are the loop over direct scopes; `NewPass`, `PickChild`,
`ExamineDependency`, `SkipChild`, `LaunchChild` and `NextPass` are the scheduler
loop with `status_cache` (`cache`), `unresolved_deadlines` (`deadlines`) and the
latched set; `WaitForDependencies` is the wait for the poll interval or the
nearest deadline; `RollbackStop` and `StartFails` are `rollback` and the
re-raise. The clock is an explicit variable that advances inside backend calls
(`delay`, at most `MaxDelay` ticks in all) and in waits, so that an observation
can fall before, on and after a deadline. A child's own start is the same
procedure one level down; the parent sees it enter, then return or raise. Its
statuses are the observations in `Statuses`: the combinations of state, readiness
and health that the three conditions and their five error codes tell apart.

### CanonicalRun and RunRecovery

`pc` is the position in the current call, `files` which provenance documents
exist, `events` and `nextSeq` the journal on disk and in memory, `status` and
`final` the two documents, `unit` what each unit of the System really does. Every
write is a step with its failure, handled as the code does: `_write_run_status`
swallows it, the journal raises, an event inside `inspect` is swallowed. `Crash`
may follow any step. A line is one raw write, whose count the code ignores, so
that a part of it may be all that is stored (`Parts`: the beginning of a
line, or the whole of it without its newline) while the append returns or raises, and
`CrashWriting` is a kill within it; the next line is then joined to what is there
(`InvalidLine`). `MaxTorn` bounds these writes. A rollback whose stop raises leaves
a unit executing (`leftover` in `doubts`). `Classify` is what `inspect_run_directory`
would then report, `Legible` and `Contiguous` its checks of the journal. `Faults` names the failures an instance allows. The orchestrator's
`inspect` and `stop` are what their caller can see: the aggregate of one
observation per unit, some possibly FAILED because the inspection raised.

### BoundedQueue

Each call is a `Begin` and one or more steps under the lock: `Wait` releases it
and sleeps, every other step finishes the call and, like the code, wakes
everybody where `notify_all` is called. `asleep` is the set of threads waiting on
the condition; a woken thread tests its condition again. `puts`, `rejected` and
`last` are history. `FifoChannel` knows three things: an item is accepted,
the oldest is received, the oldest are discarded unless the edge is lossless.
`IsFifo` maps `items` to what is pending and the counters to what was accepted
and received.

### GraphRuntime

`worker` is where a node's thread is (`starting`, `ready` at the barrier, `head`
of its loop, `receive`, `publish`, `eos`, `done`), `held` what it has received
for its next call (or, under `latest_available`, what it received last: its
`latest_inputs`), `unread` the inputs it has still to read for it, `todo` the
edges it has still to publish to. Edges are the queues of `BoundedQueue` with the
sleep left out: a step that would sleep is not enabled, and `close` (folded with `_stop`, as in `request_stop` and
`_record_error`) enables it. `isolated` and `seen` are history. `main` is the
thread of `run_sync`: the readiness barrier, the wait with its drain deadline,
the last joins. The process-wide shutdown timeout may pass at any moment once it
is set. A message is its number, which stands for its sequence and for its
timestamp, so `exact_sequence` is `approximate_timestamp` with a tolerance of
zero. The watchdog acts where its node is told to stop the pipeline. Not
modelled: `restart_node` and the watchdog's restart (both are in `ProcessNode`,
for one node), optional inputs, nodes that emit nothing for an input or messages
when they drain, and an exception between the barrier and
`_start.set()`.

### ProcessNode

`worker` is the place in `ProcessNodeProxy._call` of the graph worker that calls
the node; one action per statement that touches what other threads touch:
`_connection` (`conn`), `_process` (`proc`), the restart lock, the health record.
Children are numbered by generation and have a pipe in each direction;
`ChildStep` is the loop of `_child_main`, with `ChildHearsStray` for a child that
waits for an acknowledgement and is sent something else. `WorkerCloses`, `WorkerKills` and
`WorkerReaps` are `_terminate` inside `_restart`, `Interrupt` to `WatchdogReaps`
the same inside `interrupt`, `MainClosesPipe` to `MainReaps` inside `close`: the
lock orders the first two and not the third. An attribute that another thread has
set to None raises an AttributeError, and one that is closed under a `recv` that
has begun to read a TypeError; neither is caught by the `except` clause of `_call`
(`Escape`). A slot of the output pool goes from `free` to `slot` to
`downstream` and back when the consumers release the message. The faults of an
instance are a node that raises, a node that hangs, a child that dies, an answer
that cannot be decoded and a child that is not ready in time.
Not modelled: several output ports, input leases, the metric pipe, a message read
in two halves by two threads, and `restart()`, which has no caller.

### RevisionStore and MaterializedStorage

Each client is a process; `pc` is its place in the call, `dir` the canonical
directory of each revision with its payload, descriptor, lifecycle document and
temporary files, `staging` and `tombstone` the directories only their owner
uses. Every step reads or changes one path, as the code does: there is no lock.
`Publish` is the rename of a staged directory, which loses to one that exists;
`Adopt` writes the descriptor that the winner lacks; `Install` is the rename of a
temporary document; `Remove` renames a revision out of sight before `Clear`
removes it. `Die` may come between any two steps. `Observe` keeps what the
properties must remember of a call while it runs. `IsRevisionStore` maps the
canonical directories to what a reader sees and forgets the rest. Not modelled:
symbolic links, other entities, `fsync`, and failures of the cleanup itself: the
removal of a staged copy (`materialized_storage.py:1141`) and of a tombstone (`:1891`)
succeeds, so that `NothingLeftBehind` is about the calls that come to it.

### Recording, RecordingReader and LocalBackend

The file begins with its head, the file header and the metadata, which
`NdrxWriter.__init__` writes into a buffer of 4 MiB: `head` says whether it is still
there (`held`), in the file (`whole`), or lost. Behind it the file is a sequence of parts (chunk header, the two halves of each record,
index, summary), some of them still in the `buffer`. The header of an open chunk
has the value 0 and is overwritten at the checkpoint (`Seal`). `Cuts` are the
places where a flush may break off; `Killed` keeps any of them, `PowerFails`
keeps any beginning that includes what was synchronised, perhaps with one hole
and with the header in either form. `Scan` is `_scan_v2` with recovery, `Reading`
the same behind a whole head. The queue is that of `BoundedQueue` with `put` as one
step.

`Reading` is what the bytes of one moment say. `RecordingReader` has a reader that
takes its time: it takes the size (`Stat`), reads the head and fills its buffer with
some of what follows (`ReadHead`), and goes on section by section, each action one
turn of `_scan_v2`'s loop, while the writer flushes part by part (`FlushPart`),
seals headers, fails, closes or is killed. A size that falls inside a part is
`ragged`. The records themselves, read after the scan, are not read again.

`LocalBackend` adds the thread started by `_start`, the workers reduced to what
they record, `run_sync`'s loop, the joins that give up after two seconds, closing
of the recording and the report, and a caller of `_stop`. The workers check
`_closed` and the writer's error (`CheckWrite`) and put afterwards (`PutMessage`),
so that a close can come in between. Not modelled: writing in the caller's thread
(`NdrxWriter` alone), several recordings, and reading without recovery.

### StreamServer and Streams

The broadcast thread takes a message from the stream's queue and puts it into the
queue of each client it found (`targets`). A connection has two ends (`near`,
`far`), the server's answer to the handshake (`reply`) and the messages on the
wire. Its thread on the server first runs the handshake (`hello`, `listed`), then
sends. `close` sets `_stop`, waits for the accept thread, closes the stream's
queue and then the clients it found. Sockets that are closed wake whoever reads
or writes them at the other end, not a thread at the same end.

A subscriber's `reader` dials, waits for the answer, receives; a failure takes it
to its reconnection loop with its two limits, attempts per series (`tried`) and in
the time window (`spent`). `Close` is called by another thread at any moment. A
subscriber in `Stuck` has connected and reads no more. Not modelled:
authentication and TLS beyond their failure, the HTTP viewer page, several streams
on one server, and the backoff's length.

## Runs

| run | instance | what it shows |
| --- | --- | --- |
| `SystemStartup` | one scope, three children, four plans (chain with a shared prerequisite, two dependents of one prerequisite, none, a cycle), seven observations, deadlines of 2 and 3, poll interval 2, 3 ticks of delay | start order, deadlines, rollback, the returned handle, termination |
| `SystemStartupInterrupt` | the same | finding 1 |
| `CanonicalRun` | two units, six kinds of failure, one partial write, one startup event, two calls after start | recovery's verdicts are sound, corruption has a named cause, one outcome is published |
| `CanonicalRunLeak` | nothing fails but a unit | finding 2 |
| `BoundedQueue` | three threads, capacity 2, four policies, four puts | capacity, accounting, wake-ups, release by close, refinement of `FifoChannel` |
| `GraphRuntime` | three threads, capacity 1, two messages, eight graphs | order, completeness, termination |
| `GraphRuntimeIsolate` | two branches of one source, three messages | finding 3 |
| `ProcessNode` | seven nodes: processors and sources under each policy, most of them watched in one of the two roles, one source and two processors that may be stopped, two calls, one restart, one slot, two faults | own answers, slots, one restart for one trouble, no child left, the ways to hang |
| `MaterializedStorage` | two revisions in any of six conditions, three clients with one call of five, one of which may die | refinement of `RevisionStore`, deletions take only what was free, no failure without a cause, nothing left behind |
| `LocalBackend` | two workers, three messages, a queue of one, checkpoints of two, seven kinds of trouble | what is in the file at any moment can be read, but for named exceptions, an ended execution has recorded what it accepted, every execution ends |
| `RecordingReader` | three messages, a queue of one, checkpoints of two, four kinds of trouble, a reader that starts at any time | a reader of a file in the making gives what was recorded, and refuses only because of the moment |
| `Streams` | a subscriber that stopped reading and one that reconnects, three pairings of policies, three messages, one failure | order, the client list, who may hold whom back, the end of every thread |

### Why the bounds are enough

*SystemStartup.* Two is the least number of branches that can hold each other
up, and the third child gives both a chain and a shared prerequisite. Timeouts
shorter and longer than the poll interval, and delays as long as a timeout, put
observations on both sides of a deadline and on it. The theorems remove the
bounds for everything but `StartEnds`.

*CanonicalRun.* Two units are needed for an aggregate that hides a live one.
Two calls after start cover an inspection that closes the Run followed by any
call that contradicts it. Every kind of failure may occur at every place where
it can occur, any number of times. One partial write is followed by whole lines, which are
joined to it or stand behind it, and by the repeated numbers of a failed fsync.

*BoundedQueue.* Three threads make two sleepers and one that wakes them; four
puts fill a queue of two twice. The theorems hold for every capacity, set of
threads and number of calls.

*GraphRuntime.* A triangle (source to relay, source and relay to sink) is the
smallest graph in which one stream reaches a join by two paths of different
length; a fan is the smallest with two independent branches. With a capacity of
one, two messages and EOS overfill an edge. Capacity 2 with three messages gave
the same results in a longer run. Each graph names the nodes that may fail, and a
failing node may do so at start, while producing, processing or publishing. Three
of the graphs are there for the joins: one samples a stream whose edge overwrites,
one has the shorter stream as its trigger and a watchdog, one matches messages
that are one apart.

*ProcessNode.* Two calls make a first one whose leftovers (an answer, an
acknowledgement, a slot) the second can meet; two faults make a fault in the
recovery from a fault. Runs with two slots and one fault (3.0 M states) and with
two restarts (5.6 M) also pass.

*MaterializedStorage.* Three clients are a writer, one that takes its revision
away, and one that depends on it; the symmetric instance has 1.3 M states. Each
call may be any of five, so that every pair of calls races.

*LocalBackend.* Three messages are a full checkpoint and half of another; two
workers make one that is between check and put while the other fails, finishes
or is left behind. With a queue of one every put can meet a full queue.

*RecordingReader.* Two checkpoints and the summary give every section a
successor that may appear between two steps of the reader. With checkpoints of
one record (521 544 states) it passes as well.

*Streams.* Three connections are the stuck one, one that breaks and its
replacement. Three messages fill the wire and the queue of a client and leave one
to be held back or dropped. A run with two failures (1.02 M states) also passes
for the first setup.

### Fairness

*SystemStartup*: weak fairness of the call's own steps; backend and sink calls
return. *CanonicalRun*: none, everything checked is a safety property.
*BoundedQueue*: weak fairness of each thread inside a call, which is what a
lock that is always released gives; no thread is required to make another call.
*GraphRuntime*: weak fairness of each worker's ordinary steps and of
`run_sync`'s; node code returns. Failures, stops and the shutdown timeout are
never assumed to happen. *ProcessNode*: weak fairness of each thread, of each
child and of the consumers; a node that hangs takes no step. The watchdog's clock
and the deadline of a stop run out. *LocalBackend*: weak fairness of the
writer, of each worker and of the execution's thread; failures, outages and
timeouts are not counted on. *Streams*: weak fairness of the publisher, of each
server thread and of each reader; the accept thread and `close` only once a stop
has been asked for. *MaterializedStorage*: none, a process may die at any point.

### The properties that are not obvious

* `LatchInTime`, an action property of startup: a dependency is recorded as
  satisfied only by a clock reading within its deadline, although statuses are
  shared by all dependents in a pass and the code compares with `>` in one place
  and `>=` in another.
* `WaitsOnlyForUnmet`: the scheduler sleeps only when every pending child has an
  unmet dependency of its own.
* `VerdictSound`: whatever recovery concludes from the files after a crash is
  true: of a Run called failed-before-start nobody got a handle, no STARTED was
  journalled, and nothing executes but what the rollback could not stop; a
  healthy terminal record states how the System ended, unless an inspection had
  failed and FAILED was published for it.
  Its second part, `CorruptionExplained`: recovery calls a Run corrupted only for
  a line that was stored in part, numbers that repeat after an append that raised
  behind its write, or documents that disagree after a lost status write or a
  failed inspection, or while a closed Run is being stopped again.
* `NoUntrackedExecution`: whoever holds a handle has a durable STARTED event
  unless a line was stored in part, a start that raised after the System had started has asked it to stop, and a stop
  call that has come back was issued, whatever storage did.
* `NoLostWakeup`: nobody sleeps on the queue's only condition who could go on.
* `CompletedIsComplete`: a report `completed`, on lossless edges and without
  skipped messages, means that every processor processed every message.
* `WorkersEnd`: the graph ends without its shutdown timeout; where messages may
  be lost (see below) it may also hang, but only with a producer that waits for
  room on an edge whose consumer has ended. `StopEndsWorkers`, its second part:
  after a stop every worker ends.
* `SafeExchange`: in spite of restarts, answers that come late and
  acknowledgements that are never sent, a call returns the answer to its own
  request, a shared block is free, reserved or in a message and never two of
  these, and no child writes into a block a delivered message lives in. The first
  and the last hold until `close` uses the pipe under a worker that has not ended
  (see below).
* `Lifetimes`: one crash, error or interrupt costs at most one restart or the
  node, and when worker and close have finished no child is left, unless the
  worker started one after the main thread had given it up.
* `CallsEnd`: the worker ends, but for three situations it names: a hanging node
  that the watchdog does not or no longer look at, a source under `skip_message`
  whose child is dead, consumers that keep every block after a failed close. It
  says that there are no others, and would not notice if these were mended; what
  the documentation promises of the first is quoted below.
* `NoSpuriousFailure`: a storage call raises a conflict or a file error only if
  there was damage, the source changed, or the revision was taken away meanwhile:
  to lose a race against another writer is no error.
* `DeletesOnlyFree`: what a deletion takes away was unpinned (for prune, and
  ephemeral) at some moment of the call. That it still is at the rename is not true
  of this code, see below.
* `Readable`: what is in the file at any moment, also after a kill or a power
  failure, reads as a prefix of what was accepted with every completed checkpoint;
  it is unreadable only if its head is not whole, and then no checkpoint was
  completed (or the power failed and checkpoints are not synchronised), if it ends
  inside a chunk header or the summary or, after a power failure, in a checkpoint
  that had not been synchronised.
* `LiveReading`: the same of a reader that goes by a size it took earlier, for the
  checkpoints complete at that time, and what it calls final is complete
  (`GivesWhatWasRecorded`); it refuses a file only if that had no head yet, ended
  inside a part, or has grown past the size (`RefusesOnlyInBetween`): a chunk sealed
  since then is taken for truncated (`recording.py:533`). A file at rest that ends
  with a part is never refused.
* `EndedIsRecorded`: who sees the execution ended may use its recording: the
  writer is gone, and unless it failed the file is final and holds every message
  accepted from workers that were not left behind. With `ExecutionEnds` it is about
  workers reduced to what they record; that the graph itself may hang (finding 3)
  is a matter of `GraphRuntime`.
* `SlowViewerHarmless`: a viewer that stopped reading holds back the broadcast
  only if it asked for `block`, and the publisher only if the stream has that
  policy too.
* `ClientsAccounted`: who is listed has a thread that will take it off the list,
  unless its handshake failed after it was listed.

## Findings

1. `SystemOrchestrator.start` rolls back on `except Exception`. A
   `KeyboardInterrupt` leaves the started scopes executing and loses the handle;
   the command line prints "Interrupted before execution started.".
2. The benchmark runner stops polling at a FAILED record and does not stop the
   System, although FAILED is the aggregate as soon as one unit failed.
3. `isolate_branch` ends the failed node but neither drains nor closes its
   inputs. A producer that feeds it blocks; if it is a source, no deadline is
   ever set, the other branches starve and the run does not end.

Met while modelling, with no run of its own:

* *Journal of a Run.* `RunEventJournal.append` writes its line, then calls `fsync`.
  When that raises, the sequence number is not advanced and the next line repeats
  it (`run_events.py:363`), against the module's "strictly increasing sequence
  number" (`:5`). It writes with a raw stream and ignores the count that `write`
  returns (`:360`): a write that stores a part of the line lets the append return with
  its event lost, and the next line is joined to it, against "Durably append one
  versioned domain event" (`:303`) and "Every successful append is flushed and
  fsynced" (`:143`). Both are in the model, and `CorruptionExplained` names both.
* The cause of finding 3 is more general: a join ends at the EOS of one input
  and leaves its other inputs as they are. Under `skip_message`, or with lossy
  edges, before a join of streams the producer of the other input may wait for
  ever. `WorkersEnd` names the situation (`Abandoned`) instead of excluding the
  graphs. Under
  `latest_available` it needs no loss at all: when the trigger's stream is the
  shorter one, the join ends and the producer of another input is left with a
  full edge, lossless as it is.
* Under `latest_available` the `try_get` that looks for a newer message may take
  the EOS of that input, which nobody sees again: the node goes on with the last
  message until the trigger ends. `KeepLatest` does the same.
* The watchdog measures the time since a node's last message and does not ask
  whether the node has come to its end, so that a run whose last stages outlast
  the health timeout of a finished node fails; `WatchdogStops` may therefore
  happen at a node that is `done`.
* `run_sync` reports `completed` after `request_stop` from another thread that
  did not set `_interrupted`; `CompletedIsComplete` therefore speaks of runs
  nobody asked to stop.
* A failed append of STARTED stops the System but leaves status PREPARED and no
  ERROR event; opening the metric journal may raise before any of this is
  guarded.
* status.json is written before the FINISHED event, while ADR 0001 calls the
  status reconstructible from the history.
* `_close_nodes` says it runs after every worker has stopped; the last join
  gives up after two seconds.
* *Process isolation.* `mark_restart` (`lifecycle.py:119`) clears `ready`, and only the
  start of the graph or, for a processor, a skipped message sets it: the watchdog
  interrupts a node under `restart` once in a run, however many restarts are left,
  against `docs/LIFECYCLE_HEALTH.md:22` and `docs/PRODUCTION_RUNTIME.md:19`. Checked as
  "a watched node under `restart` with restarts left does not hang for ever", this
  fails when a node hangs for the second time. `watchdog_triggered` is reset by the
  next message of a processor and never for a source; a source that hangs before
  its first item is never watched.
* `interrupt` sets `_connection` to None under a running `_call`: at some
  statements that is an AttributeError, which fails the node whatever its policy;
  and an interrupt that waits for the lock kills the child that was just started.
* Under `skip_message` a dead child is not restarted: a processor then drops
  every message, a source asks for ever without looking at `_stop`.
* `close` takes no lock; racing with a restart it may raise an AttributeError
  and leave pool and child, and a worker that outlives the deadline of a stop may
  start a child after it. The generation test at `process_host.py:845` is never
  true as the class is used.
* After an answer that could not be decoded the child still waits for its
  acknowledgement. If `close` then uses the same pipe under the worker, its request
  is taken for that acknowledgement, the child answers with an error nobody reads,
  and from there on each request gets the answer to the one before: the block of
  an earlier call is delivered while the child writes into it. Only a worker that
  outlives the deadline of a stop can see it; `MessagesIntact` therefore speaks of
  the time before the main thread closes the node.
* *Materialized storage.* A deletion reads the retention of a revision and then
  renames its directory, without a lock: a pin whose call has returned in between
  is deleted with it (`docs/CANONICAL_STORAGE_STANDARD.md:238`: "Pinned revisions cannot
  be removed until explicitly unpinned"). `prune` looks again at the pin and not at
  the retention. Two concurrent changes of the lifecycle may lose one. Section 9 has the
  descriptor written after the installation; the code writes it into the staged
  directory, which is the safer order.
* *Recording.* `docs/RECORD_PLAY.md:33` says that an interrupted file is still
  readable, the complete records of its unfinished chunk included. The head of the
  file is in a buffer of 4 MiB (`recording.py:120`) until the first checkpoint, by
  default after 1024 records, or until it overflows: a process killed before leaves
  a file that no reader opens. A file that ends inside a chunk header or inside the
  summary is refused as a whole, as is one whose last checkpoint the power cut short; nor is the
  directory entry ever synchronised. `Readable` names these cases.
* *Local backend.* A stop before the thread has written RUNNING answers STOPPING
  and a later inspection says RUNNING. `_interrupted` is not set by this backend,
  so that a stopped execution reports `completed` and STOPPED is never reached.
* *Streams.* A client whose handshake reply cannot be sent stays listed for
  ever: it counts against `max_clients`, and with policy `block` its full queue
  stalls the broadcast. The accept loop ends for good at any OSError. `connect`
  may publish its socket after a `close`. After the budget is exhausted the next
  `receive` connects again, outside any budget.

## Proofs

TLAPS checks every theorem below for all values of the constants that satisfy
the named assumptions, and for runs of any length.

**SystemStartupProofs** (assumptions: scopes are distinct, ranks are injective,
dependency ordinals identify, `None` is no value). The invariants are layered, each with its own
`Init => Inv` and `Inv /\ [Next]_vars => Inv'`, one step per action:

* `TypeInv` is `TypeOK` and that every child that left `pending` has a start
  time, without which a deadline would not be a number; gives `TypeOK`.
* `OrderInv` adds that what left `pending` is in `running`, that a latched
  dependency's prerequisite has started, and `Examining`: while a child looks
  eligible, each of its dependencies is latched or still to be examined. The last
  is what makes `DependenciesFirst` inductive. `LatchInTime`, an action property,
  follows from it by looking at the two actions that latch.
* `PassInv` adds that every pending child the pass has examined without starting
  anybody is blocked by a dependency of its own and held by a deadline or by a
  pending prerequisite. It gives `WaitsOnlyForUnmet` at the end of a pass, and,
  with a least pending child in the compiled order (by well-foundedness),
  `TopologyProgresses`: a plan whose order puts prerequisites first never ends in
  ORCH305.
* `HandleInv` adds to `OrderInv` what is running, live and stopped in every
  phase. `HandleOwnsEverything` and `RollbackComplete`, the parts of
  `NothingUnowned`, follow; neither is inductive alone, since they say nothing of the calls under way.

**BoundedQueueProofs** (assumptions: positive capacity, known policies, `None` is no method). The
inductive invariant adds to `TypeOK`, `Bookkeeping` (its parts `WithinCapacity`
and `Accounted`) and `NoLostWakeup` that the items are in the order of their puts and after the last
one taken (`InOrder`). The refinement shows that each put that accepts is `Send`
(after a discard, where the policy makes room), each take is `Receive`,
`discard_pending` is `Discard`, and every other step leaves the channel alone.

**CanonicalRunProofs** (assumption `NoneAssumption`: `None` is neither a state nor
a status document). The inductive invariant `RunInv` adds to `TypeOK` what the
owner of the Run holds at the place it is at (`PlaceInv`), that nothing runs
before the start (`QuietInv`), that the evidence is on disk from the step that
wrote it (`EvidenceInv`), that sequence numbers count the lines of the journal
(`LinesInv`, for a journal that is legible; `WholeInv`: it is, while no write was
partial), that a start without handle has journalled no STARTED and left nothing
but what its rollback could not stop (`NoHandleInv`), and what makes the verdicts true: unless one of the named failures is
in `doubts`, what was reported, journalled or recorded is what an inspection of
the units would report now (`TruthInv`), which no longer changes once it is
terminal, because units that have ended stay ended; and status.json agrees with
it unless its last write was lost (`StatusInv`). `VerdictSound` and `OneOutcome`
are read off these; neither is inductive, since they speak of files only.

**GraphRuntimeProofs** (assumption `GraphAssumption`: ranks are injective and edges
ascend in them, which makes the graph acyclic; the capacity is positive; `None` is
no message and no node). Three layers:

* `ShapeInv` is `TypeOK` and that a worker has at hand what it needs where it is
  (`HandsInv`); it gives `TypeOK`.
* `OrderInv` says of every edge that its messages rise and that none exceeds what
  its producer has offered it (`Ordered`), and of everything that was taken from
  an edge, held or seen, that all that is still to come on it is greater
  (`Taken`). A put under any policy and a take keep that, because what is offered
  next is greater than everything offered before; `OrderPreserved` follows.
* `CleanInv` holds as long as nothing has gone wrong (`Clean`): the edges are open
  until every worker has ended, an edge holds exactly the numbers between the last
  one taken and the last one offered, followed by EOS if its producer has ended
  (`Contents`), a worker holds the next number on every port it has read
  (`InHand`), and it ends only at the last number (`NoGap`). `CompletedIsComplete`
  is what it says at the end.

**MaterializedStorageProofs** (assumption `StorageAssumption`: `None` is no
value and the name of no exception, what is on disk at first has no temporary files). The inductive invariant
`StorageInv` adds to `TypeOK`, for each process, what it has in its hands at the
place it is at: the call and the revision that place needs (`Equipped`), a staged
copy or a tombstone exactly between the step that makes it and the one that
publishes, drops or removes it (`Staged`), that what it looked at is still as it
saw it, or has been deleted and perhaps published whole again (`Examined`), that
a removal under way was free to be removed (`Allowed`), and that the temporary
lifecycle files belong to calls under way (`TempsOwned`). A step of one process is
shown to keep its own part by one lemma per action, and the parts of all the
others by one lemma for all (`OthersKeepInv`), since what another process may do
to a revision is one of the few things `StepOf` names. `TypeOK`,
`NothingLeftBehind`, `DeletesOnlyFree` and the refinement `IsRevisionStore`
follow for any number of processes, calls and revisions.

`NoSpuriousFailure` needs a second invariant, `SoundInv`, on top of that one: a call
that nothing has disturbed has no exception on its way (`Undisturbed`), its revisions
are not damaged, and what its last look found is still there (`Known`: the directory,
its descriptor, its lifecycle, its own temporary file, and a right descriptor once it
cleans up). Every step of a call that could raise contradicts `Known` unless the call
is disturbed (`GoesOnSoundly`, `ReturnsSoundly`, `FaultsSoundly`, one lemma for each way
a step can end); a step of another process either takes the revision away, which
disturbs the call, or leaves in it what the call knows (`Enriches`). `TypeOK`
says neither, and `StorageInv` alone cannot: it lets a revision go at any moment, which
is right for what readers see and says nothing of why a call fails.

**ProcessNodeProofs** (assumption `NodeAssumption`: one slot at least,
`None` is no slot and no child). The inductive invariant `NodeInv` is in two parts.
One holds always: `TypeOK` but for the lengths of the pipes, that connection and
process are those of the newest child or nobody's and later children are unborn
(`NewestInv`), who holds the lock where (`LockInv`), which places of the worker
have a slot (`PoolInv`), and that an older child, or a newest one that was ended or
forgotten, is dead unless the worker started it `late` (`DeathsInv`). The other
holds until the main thread closes the node, because from then on two threads
read one pipe:

* `Protocol` says for each place of the worker what the newest child's pipe
  holds: nothing, the unanswered call, its answer, a child that waits for the
  acknowledgement, or a greeting. An acknowledgement not sent
  after an answer that could not be decoded is the case in which request and
  answer could get one apart; there the next request is taken for it, and the
  invariant shows that this is put right within one call.
* `Intact`: no slot named to the newest child is in a delivered message.
* `Paid`: restarts, a failed worker, a trouble the worker will run into and an
  interrupt under way are together at most the faults and the interrupts there
  were. `TroublePaid` alone is not inductive: a broken pipe is noticed later than it
  breaks. `OrphanInv` says who may leave a child in want of its acknowledgement,
  and that it has been paid for.

`SafeExchange` and `Lifetimes` are read off it.

**StreamsProofs** (assumptions: `StreamAssumption`, and `SubscriberAssumption`: each
connection has one owner, the connections made before the start are at most
`MaxClients` and one for each owner). `StreamInv` adds to the types and to
`ClientsAccounted` that a connection nobody has accepted or greeted was sent nothing
and is none the broadcast is about to serve (`Idleness`, `Untargeted`), and `Order`:
along the way to a subscriber (its wire, its queue on the server, the
message in the hands of the broadcast if it is still to be put there, the
stream's queue) messages rise, none is newer than the last one published, and all
of them are newer than what the subscriber has received. Every policy of the queues keeps that, since
a drop only removes an element; a reconnection keeps it because the old
connection's end is closed, and the new one carries only what comes later.
`InOrder` is the part `stale = {}`.

**LocalBackendProofs** (assumptions: `RecordingAssumption`, a queue and a checkpoint
hold at least one message; `BackendAssumption`, workers publish messages;
`EosAssumption`, the sentinel object that ends the queue is no message). Two
halves:

* *The file, as a value.* `File(w, acc, s, b, K, n, kind)` says that `w` is a file as it
  should be: `K` complete chunks, the `k`-th from place `s[k - 1]` to `s[k]` with the
  messages `b[k - 1] + 1` to `b[k]` of `acc`, and an end of some `kind` (nothing, an
  open chunk of `n` records, one with its index, the summary). One lemma each for
  opening, recording, indexing, sealing, ending and for taking a header back
  (`FileOpens` to `FileUnseals`) says what it becomes. The other lemmas say what a
  reader gets from a file of which something is missing or damaged:
  `DamagedReads` that reading goes through all chunks that are intact, at most into
  the first that is not, and from there either gives a prefix of what follows or
  fails; `BeginningReads`, `SyncedReads` and `WholeReads` are its consequences for a
  file that breaks off, for one of which only what was synchronised is sure, and
  for a whole one. `Scan` is a recursive function; `TableExists` shows, by
  well-foundedness of the places, that the equation it is defined by has a solution.
* *The run.* `FileInv` says that while it goes on there is such a file `w`, namely what
  is on the disk followed by what is in the buffer (or, after an error, of which the
  disk has a beginning), whose complete chunks are the completed checkpoints (`Plain`)
  or one more, sealed and not yet synchronised (`OneMore`); how far it has been
  synchronised (`Synced`); and where the writer is in it (`Place`). `HeadInv` says
  where the head is as long as the process lives: held only while nothing of the
  body is in the file and nothing was sealed or synchronised. `RunInv` says which
  modes of the writer go together (`Modes`), how the execution's thread comes to its
  end (`Course`), and that the accepted messages are those recorded, the one in hand
  and those in the queue up to EOS, in this order (`Delivery`). Neither `Readable` nor
  `EndedIsRecorded` is inductive: they look at the disk only.

Only model-checked, on the instances above:

* liveness: `StartEnds`, `CloseReleases`, `WorkersEnd`, `CallsEnd`,
  `ExecutionEnds`, `SlowViewerHarmless` and `CloseEndsAll` depend on fairness and
  on `ENABLED`, which the prover does not handle.

* `LiveReading`: the theorem
  `RecordingIsReadable` is about the bytes of one moment, and the reader that reads
  them over several moments is checked on its instance.

Every other property of a passing run is a theorem.

## Not modelled

The parts with status `not_modelled` in `PROJECT.json`, each with its reason
there. They fall into three groups: functions of their input without a state of
their own (validation, planning, manifests, definitions, presentation, comparison
of Runs), in which nothing interleaves and whose hard cases are a matter of
wording or of large tables; code whose behaviour is that of a library or a
device (media, vision, discovery over the network, the C++ queue, of which the
Python code uses only the protocol that `BoundedQueue` gives); and extension
packages and examples outside the runtime.

## Plan

Done: start and rollback of a System, the canonical Run with its recovery, the
edge queue, the graph runtime, the local backend with recording, the process
host, the stream server and client, and materialized storage; the proofs above.

Left, in the order of importance: the cache and retries of workflow execution, and
the publisher of metrics, whose queue is another `BoundedQueue`.
