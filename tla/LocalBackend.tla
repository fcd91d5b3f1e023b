------------------------------ MODULE LocalBackend ------------------------------
(***************************************************************************)
(* One execution of the local System backend (system/local_backend.py):    *)
(* the thread that runs run_sync (runtime_execution.py), whose graph       *)
(* workers record what they publish, the recording's own writer thread,    *)
(* and a caller that stops the execution.  The workers are those of        *)
(* GraphRuntime, reduced to what they record.                              *)
(***************************************************************************)
EXTENDS Recording, SystemStates

CONSTANTS
    Workers,    \* the graph's worker threads
    Output      \* Output[w]: the messages w publishes on recorded streams

ASSUME BackendAssumption == Output \in [Workers -> Seq(Messages)]

VARIABLES
    state,      \* execution.state
    main,       \* what the execution's thread is doing
    raised,     \* an exception is passing through run_sync
    stop,       \* _stop, set by request_stop and by the first error
    failed,     \* _errors is not empty
    worker,     \* what each worker is doing
    published,  \* how many of its messages it has published
    late,       \* history: workers that outlived the last join
    stopper,    \* what the caller of stop is doing
    answer      \* the state it was told

bvars == <<state, main, raised, stop, failed, worker, published, late, stopper,
           answer>>
vars == <<rvars, bvars>>

Init ==
    /\ RecordingInit
    /\ state = "prepared" /\ main = "created" /\ raised = FALSE
    /\ stop = FALSE /\ failed = FALSE
    /\ worker = [w \in Workers |-> "created"]
    /\ published = [w \in Workers |-> 0] /\ late = {}
    /\ stopper = "idle" /\ answer = None

AllDone == \A w \in Workers : worker[w] = "done"
MainGoes(place) == main' = place

-----------------------------------------------------------------------------
(* Graph workers: _publish records before it puts on the edges.            *)

WorkerGoes(w, place) == worker' = [worker EXCEPT ![w] = place]
Published(w) == published' = [published EXCEPT ![w] = @ + 1] /\ WorkerGoes(w, "loop")

\* _record_error, and the worker leaves.
WorkerRaises(w) ==
    /\ failed' = TRUE /\ stop' = TRUE
    /\ WorkerGoes(w, "done")

WorkerLoop(w) ==
    /\ worker[w] = "loop"
    /\ WorkerGoes(w, IF stop \/ published[w] = Len(Output[w]) THEN "done" ELSE "write")
    /\ UNCHANGED <<rvars, state, main, raised, stop, failed, published, late,
                   stopper, answer>>
NodeFails(w) ==
    /\ worker[w] = "loop" /\ "node" \in Troubles
    /\ WorkerRaises(w)
    /\ UNCHANGED <<rvars, state, main, raised, published, late, stopper, answer>>

\* The checks at the head of write.  Once run_sync has dropped the recording
\* nothing is recorded.
CheckWrite(w) ==
    /\ worker[w] = "write"
    /\ \/ /\ main \in {"report", "ended"}
          /\ Published(w)
          /\ UNCHANGED <<stop, failed>>
       \/ /\ main \notin {"report", "ended"} /\ Refuses
          /\ WorkerRaises(w)
          /\ UNCHANGED published
       \/ /\ main \notin {"report", "ended"} /\ ~Refuses
          /\ WorkerGoes(w, "put")
          /\ UNCHANGED <<stop, failed, published>>
    /\ UNCHANGED <<rvars, state, main, raised, late, stopper, answer>>

\* put returns; a closed queue is an error.
PutMessage(w) ==
    /\ worker[w] = "put"
    /\ Put(Output[w][published[w] + 1])
    /\ IF qclosed THEN WorkerRaises(w) /\ UNCHANGED published
       ELSE Published(w) /\ UNCHANGED <<stop, failed>>
    /\ UNCHANGED <<state, main, raised, late, stopper, answer>>

-----------------------------------------------------------------------------
(* The thread of the execution: _start's worker and run_sync.              *)

Begin ==
    /\ main = "created"
    /\ state' = "running"
    /\ MainGoes("setup")
    /\ UNCHANGED <<rvars, raised, stop, failed, worker, published, late, stopper,
                   answer>>

\* The recording is open and the workers are started.
StartWorkers ==
    /\ main = "setup"
    /\ worker' = [w \in Workers |-> "loop"]
    /\ MainGoes("loop")
    /\ UNCHANGED <<rvars, state, raised, stop, failed, published, late, stopper,
                   answer>>

\* Writing a plan or the report raises: _emergency_cleanup.
RunRaises ==
    /\ main \in {"loop", "report"} /\ "run" \in Troubles
    /\ raised' = TRUE /\ stop' = TRUE
    /\ MainGoes(IF main = "loop" THEN "leave" ELSE "return")
    /\ UNCHANGED <<rvars, state, failed, worker, published, late, stopper, answer>>

\* Mutant: the recording is closed as soon as the loop is left.
WorkersLeftEarly ==
    /\ main \in {"loop", "leave"}
    /\ \E w \in Workers : worker[w] = "done"
    /\ stop' = TRUE
    /\ MainGoes("close")
    /\ UNCHANGED <<rvars, state, raised, failed, worker, published, late, stopper,
                   answer>>

WorkersLeft ==
    /\ main \in {"loop", "leave"} /\ AllDone
    /\ stop' = TRUE
    /\ MainGoes("close")
    /\ UNCHANGED <<rvars, state, raised, failed, worker, published, late, stopper,
                   answer>>

\* The shutdown timeout, which is an error.
DeadlinePasses ==
    /\ main = "loop" /\ ~AllDone
    /\ stop \/ \E w \in Workers : worker[w] = "done"
    /\ failed' = TRUE /\ stop' = TRUE
    /\ MainGoes("leave")
    /\ UNCHANGED <<rvars, state, raised, worker, published, late, stopper, answer>>

\* The last joins have a timeout of two seconds.
JoinGivesUp ==
    /\ main = "leave" /\ ~AllDone
    /\ late' = {w \in Workers : worker[w] # "done"}
    /\ MainGoes("close")
    /\ UNCHANGED <<rvars, state, raised, stop, failed, worker, published, stopper,
                   answer>>

\* AsyncNdrxWriter.close.
CloseRecording ==
    /\ main = "close" /\ SetClosed
    /\ MainGoes("eos")
    /\ UNCHANGED <<state, raised, stop, failed, worker, published, late, stopper,
                   answer>>
EndRecording ==
    /\ main = "eos" /\ PutEos
    /\ MainGoes("join")
    /\ UNCHANGED <<state, raised, stop, failed, worker, published, late, stopper,
                   answer>>
JoinWriter ==
    /\ main = "join" /\ writer = "done"
    /\ failed' = (failed \/ error)
    /\ MainGoes(IF raised THEN "return" ELSE "report")
    /\ UNCHANGED <<rvars, state, raised, stop, worker, published, late, stopper,
                   answer>>

\* The report is written; with an error run_sync raises it.
Report ==
    /\ main = "report"
    /\ raised' = failed
    /\ MainGoes("return")
    /\ UNCHANGED <<rvars, state, stop, failed, worker, published, late, stopper,
                   answer>>

\* Nobody sets _interrupted here, so that no report says "stopped".
Return ==
    /\ main = "return"
    /\ state' = IF raised THEN "failed" ELSE "completed"
    /\ MainGoes("ended")
    /\ UNCHANGED <<rvars, raised, stop, failed, worker, published, late, stopper,
                   answer>>

-----------------------------------------------------------------------------
(* stop, called by another thread at any time.                             *)

RequestStop ==
    /\ stopper = "idle"
    /\ stop' = TRUE
    /\ stopper' = "mark"
    /\ UNCHANGED <<rvars, state, main, raised, failed, worker, published, late,
                   answer>>
MarkStopping ==
    /\ stopper = "mark"
    /\ state' = IF state = "running" THEN "stopping" ELSE state
    /\ stopper' = "join"
    /\ UNCHANGED <<rvars, main, raised, stop, failed, worker, published, late,
                   answer>>
\* The join ends, or its timeout does.
AnswerStop ==
    /\ stopper = "join"
    /\ answer' \in (IF main = "ended" THEN {state} ELSE {"stopping"})
    /\ stopper' = "answered"
    /\ UNCHANGED <<rvars, state, main, raised, stop, failed, worker, published,
                   late>>

WorkerStep(w) == WorkerLoop(w) \/ CheckWrite(w) \/ PutMessage(w)
MainStep ==
    \/ Begin \/ StartWorkers \/ WorkersLeft \/ CloseRecording \/ EndRecording
    \/ JoinWriter \/ Report \/ Return
StopStep == RequestStop \/ MarkStopping \/ AnswerStop

\* Nothing of the execution survives its process.
ExecutionGone ==
    /\ state' = None /\ main' = "gone" /\ raised' = FALSE /\ stop' = FALSE
    /\ failed' = FALSE /\ worker' = [w \in Workers |-> "gone"]
    /\ published' = [w \in Workers |-> 0] /\ late' = {}
    /\ stopper' = "gone" /\ answer' = None

Next ==
    \/ (WriterStep \/ WriterFails) /\ UNCHANGED bvars
    \/ Outage /\ ExecutionGone
    \/ \E w \in Workers : WorkerStep(w) \/ NodeFails(w)
    \/ MainStep \/ RunRaises \/ DeadlinePasses \/ JoinGivesUp
    \/ StopStep

Spec == Init /\ [][Next]_vars
\* Every thread is scheduled and node code returns.  Failures, outages and the
\* timeouts are not counted on.
FairSpec ==
    /\ Spec
    /\ WF_vars(WriterStep /\ UNCHANGED bvars)
    /\ \A w \in Workers : WF_vars(WorkerStep(w))
    /\ WF_vars(MainStep)

-----------------------------------------------------------------------------
(* Properties.                                                             *)

\* The shape of the state.
TypeOK ==
    /\ RecordingTypeOK
    /\ state \in ExecutionStates \cup {None} /\ raised \in BOOLEAN
    /\ main \in {"created", "setup", "loop", "leave", "close", "eos", "join",
                 "report", "return", "ended", "gone"}
    /\ stop \in BOOLEAN /\ failed \in BOOLEAN
    /\ worker \in [Workers -> {"created", "loop", "write", "put", "done", "gone"}]
    /\ \A w \in Workers : published[w] \in 0..Len(Output[w])
    /\ late \subseteq Workers
    /\ stopper \in {"idle", "mark", "join", "answered", "gone"}
    /\ answer \in ExecutionStates \cup {None}

\* Whoever sees the execution ended may use its recording: nobody writes to it
\* any more, and unless the writer failed it is final and holds every message
\* that was accepted from workers the run did not leave behind.  An execution
\* called completed left nobody behind and lost nothing.
EndedIsRecorded ==
    LET read == Reading IN
    state \in TerminalStates =>
        /\ writer = "done"
        /\ ~error /\ late = {} => read.final /\ read.messages = accepted
        /\ state = "completed" => ~error /\ late = {}

\* Every execution ends, stopped or not: no worker sleeps for ever in front of
\* a recording that failed, and nobody waits for a writer that cannot go on.
ExecutionEnds == <>(state \in TerminalStates \/ outage # "no")
=============================================================================
