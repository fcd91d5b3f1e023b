------------------------------ MODULE CanonicalRun ----------------------------
(***************************************************************************)
(* One persistent Run of a System: start_, inspect_ and                    *)
(* stop_canonical_system_execution (system/canonical_runtime.py) with the  *)
(* stores they write: the journal events.jsonl (run_events.py), the cache  *)
(* status.json (run_status.py) and the final record run.json               *)
(* (run_record.py).  One owner process runs the calls one at a time; every *)
(* file operation is a step of its own and may fail, a journal line may be *)
(* written in part, and the process may be killed between any two steps or *)
(* within the write of a line.  The units of the System (its scopes and    *)
(* children) go on by themselves meanwhile.                                *)
(***************************************************************************)
EXTENDS RunRecovery

CONSTANTS
    Units,      \* the scopes and children of the System
    Faults,     \* which operations may fail, see AllFaults
    MaxTorn,    \* bound: journal writes that store a part of their line
    MaxEvents,  \* bound: events the startup sink journals
    MaxCalls    \* bound: inspect and stop calls made by the owner

\* "append": a journal append raises before writing; "fsync": it raises after
\* the write; "status" and "record": writing status.json or run.json raises
\* (and is swallowed); "inspect" and "stop": a unit's backend raises.
AllFaults == {"append", "fsync", "status", "record", "inspect", "stop"}

ASSUME CallsAssumption ==
    /\ Units # {} /\ Faults \subseteq AllFaults
    /\ MaxTorn \in Nat /\ MaxEvents \in Nat /\ MaxCalls \in Nat
ASSUME NoneAssumption == None \notin RunStates /\ None \notin StatusDocument

VARIABLES
    pc,         \* where the owner is, or how it ended
    files,      \* provenance files on disk
    events,     \* the lines of events.jsonl
    opened,     \* events.jsonl exists
    nextSeq,    \* RunEventJournal._next_sequence
    torn,       \* history: journal writes that stored a part of their line
    status,     \* status.json, or None
    final,      \* state in run.json, or None
    unit,       \* what each unit really does
    handle,     \* orchestrator.start returned a handle
    seen,       \* the status under report
    finished,   \* terminal_event_recorded
    recorded,   \* final_run_recorded
    stop,       \* history: a stop was "requested" or "issued" to the System
    doubts,     \* history: "status" while the last write of status.json was
                \* lost, "journal" once a line was written by an append that
                \* raised, "observation" once FAILED was reported of a System
                \* none of whose units had failed, "leftover" once the rollback
                \* of a failed start has left a unit executing
    calls       \* inspect and stop calls made

journal == <<events, opened, nextSeq, torn>>
execution == <<handle, seen, finished, recorded>>
world == <<unit, stop>>
vars == <<pc, files, journal, status, final, world, execution,
          doubts, calls>>

Ended == {"raised", "crashed", "released"}
Executing == {"prepared", "running", "stopping"}
Live == \E u \in Units : unit[u] \in Executing

Init ==
    /\ pc = "create" /\ files = {}
    /\ events = <<>> /\ opened = FALSE /\ nextSeq = 1 /\ torn = 0
    /\ status = None /\ final = None
    /\ unit = [u \in Units |-> "absent"] /\ stop = "none"
    /\ handle = FALSE /\ seen = None /\ finished = FALSE /\ recorded = FALSE
    /\ doubts = {} /\ calls = 0

-----------------------------------------------------------------------------
(* The stores.                                                             *)

LineFor(kind, state) ==
    [seq |-> nextSeq, kind |-> kind, state |-> state, ended |-> TRUE]
InvalidLine(ended) ==
    [seq |-> 0, kind |-> "invalid", state |-> None, ended |-> ended]

\* What one raw write, whose count nobody looks at, may store of a line: all
\* of it, all but the end of line, or less.
Parts(kind, state) ==
    {InvalidLine(FALSE), [LineFor(kind, state) EXCEPT !.ended = FALSE]}
Writes(kind, state) ==
    {LineFor(kind, state)}
    \cup (IF torn < MaxTorn THEN Parts(kind, state) ELSE {})

\* It goes to the end of the file: a line that was not ended and what is
\* written after it are one line, which is no JSON object.
Store(line) ==
    LET n == Len(events) IN
    /\ events' = IF n > 0 /\ ~events[n].ended
                 THEN [events EXCEPT ![n] = InvalidLine(line.ended)]
                 ELSE Append(events, line)
    /\ opened' = TRUE
    /\ torn' = IF line.ended THEN torn ELSE torn + 1

\* RunEventJournal.append returns: the sequence advances.
Journal(kind, state) ==
    /\ \E line \in Writes(kind, state) : Store(line)
    /\ nextSeq' = nextSeq + 1
    /\ UNCHANGED doubts

\* It raises, and the sequence does not advance, written or not.
JournalFails(kind, state) ==
    /\ \/ /\ "append" \in Faults
          /\ UNCHANGED <<events, torn, doubts>> /\ opened' \in {opened, TRUE}
       \/ /\ "fsync" \in Faults
          /\ \E line \in Writes(kind, state) : Store(line)
          /\ doubts' = doubts \cup {"journal"}
    /\ nextSeq' = nextSeq

\* _write_run_status: a failure is swallowed and status.json stays as it was;
\* a status that has not changed is not written at all.
WriteStatus(state, known) ==
    \/ /\ status' = [state |-> state, execution |-> known]
       /\ doubts' = doubts \ {"status"}
    \/ /\ "status" \in Faults
       /\ status # [state |-> state, execution |-> known]
       /\ status' = status
       /\ doubts' = doubts \cup {"status"}

-----------------------------------------------------------------------------
(* start_canonical_system_execution.                                       *)

CreateSession ==
    /\ pc = "create"
    /\ pc' \in {"status_created", "raised"}
    /\ UNCHANGED <<files, journal, status, final, world, execution,
                   doubts, calls>>

StatusCreated ==
    /\ pc = "status_created"
    /\ WriteStatus("created", FALSE)
    /\ pc' = "capture"
    /\ UNCHANGED <<files, journal, final, world, execution, calls>>

\* The snapshots, the policy and the environment, in this order.
Capture(f) ==
    /\ pc = "capture"
    /\ Cardinality(files) < Len(Provenance)
    /\ f = Provenance[Cardinality(files) + 1]
    /\ files' = files \cup {f}
    /\ UNCHANGED <<pc, journal, status, final, world, execution,
                   doubts, calls>>

CaptureFails ==
    /\ pc = "capture" /\ files # ProvenanceSet
    /\ pc' = "event_error"
    /\ UNCHANGED <<files, journal, status, final, world, execution,
                   doubts, calls>>

\* Opening the metric journal is not guarded: it raises straight away.
MetricsFail ==
    /\ pc = "capture" /\ files = ProvenanceSet
    /\ pc' = "raised"
    /\ UNCHANGED <<files, journal, status, final, world, execution,
                   doubts, calls>>

\* Mutant: preparation does not wait for the provenance files.
PrepareEarly ==
    /\ pc = "capture"
    /\ pc' \in {"event_prepared", "event_error"}
    /\ UNCHANGED <<files, journal, status, final, world, execution,
                   doubts, calls>>

\* orchestrator.prepare_plan returns or raises.
Prepare ==
    /\ pc = "capture" /\ files = ProvenanceSet
    /\ pc' \in {"event_prepared", "event_error"}
    /\ UNCHANGED <<files, journal, status, final, world, execution,
                   doubts, calls>>

EventPrepared ==
    /\ pc = "event_prepared"
    /\ \/ Journal("prepared", None) /\ pc' = "status_prepared"
       \/ JournalFails("prepared", None) /\ pc' = "raised"
    /\ UNCHANGED <<files, status, final, world, execution, calls>>

StatusPrepared ==
    /\ pc = "status_prepared"
    /\ WriteStatus("prepared", FALSE)
    /\ pc' = "starting"
    /\ UNCHANGED <<files, journal, final, world, execution, calls>>

\* The rollback of a failed start stops what had started, one unit after the
\* other.  A unit may be stopping when its stop returns, and goes on executing
\* when its stop raises, which is noted and otherwise ignored.
RollBack ==
    unit' \in [Units -> {"absent", "stopped", "completed", "failed",
                         "stopping"}
                        \cup (IF "stop" \in Faults THEN {"running"} ELSE {})]
Leftover ==
    IF \E u \in Units : unit'[u] \in Executing THEN {"leftover"} ELSE {}

\* orchestrator.start journals through the startup sink; when the sink
\* raises, start rolls back and raises.
StartupEvent ==
    /\ pc = "starting"
    /\ \A i \in 1..Len(events) : events[i].kind # "startup"
    /\ Journal("startup", None)
    /\ UNCHANGED <<pc, files, status, final, world, execution, calls>>

StartupEventFails ==
    /\ pc = "starting"
    /\ JournalFails("startup", None)
    /\ pc' = "start_fails"
    /\ UNCHANGED <<files, status, final, world, execution, calls>>

SystemStarts ==
    /\ pc = "starting"
    /\ unit' = [u \in Units |-> "prepared"]
    /\ handle' = TRUE
    /\ pc' = "event_started"
    /\ UNCHANGED <<files, journal, status, final, stop, seen,
                   finished, recorded, doubts, calls>>

SystemStartFails ==
    /\ pc \in {"starting", "start_fails"}
    /\ RollBack
    /\ doubts' = doubts \cup Leftover
    /\ pc' = "event_error"
    /\ UNCHANGED <<files, journal, status, final, stop, execution, calls>>

\* Mutant: a STARTED event that cannot be persisted counts as a failed start.
EventStartedAsStartFailure ==
    /\ pc = "event_started"
    /\ \/ Journal("started", None) /\ pc' = "status_running"
       \/ JournalFails("started", None) /\ pc' = "event_error"
    /\ UNCHANGED <<files, status, final, world, execution, calls>>

\* Mutant: a STARTED event that cannot be persisted raises at once.
EventStartedRaises ==
    /\ pc = "event_started"
    /\ \/ Journal("started", None) /\ pc' = "status_running"
       \/ JournalFails("started", None) /\ pc' = "raised"
    /\ UNCHANGED <<files, status, final, world, execution, calls>>

EventStarted ==
    /\ pc = "event_started"
    /\ \/ Journal("started", None) /\ pc' = "status_running"
       \/ JournalFails("started", None) /\ pc' = "stop_untracked"
    /\ UNCHANGED <<files, status, final, world, execution, calls>>

\* persist_error, then the FAILED status, then the exception.
EventError ==
    /\ pc = "event_error"
    /\ \/ Journal("error", None)
       \/ JournalFails("error", None)
    /\ pc' = "status_failed"
    /\ UNCHANGED <<files, status, final, world, execution, calls>>

StatusFailed ==
    /\ pc = "status_failed"
    /\ WriteStatus("failed", FALSE)
    /\ pc' = "raised"
    /\ UNCHANGED <<files, journal, final, world, execution, calls>>

StatusRunning ==
    /\ pc = "status_running"
    /\ WriteStatus("running", TRUE)
    /\ pc' = "idle"
    /\ UNCHANGED <<files, journal, final, world, execution, calls>>

-----------------------------------------------------------------------------
(* The orchestrator, as its callers see it.                                *)

\* inspect: a backend that raises counts as a failed unit.
Report(shown) == AggregateState({shown[u] : u \in Units})
Observations ==
    {shown \in [Units -> ExecutionStates] :
        \A u \in Units : \/ shown[u] = unit[u]
                         \/ "inspect" \in Faults /\ shown[u] = "failed"}

\* stop of one unit: what it then does, and what is reported of it.
StopOutcomes(u) ==
    IF unit[u] \in Executing
    THEN {<<s, s>> : s \in {"stopped", "completed", "stopping"}}
         \cup (IF "stop" \in Faults THEN {<<unit[u], "failed">>} ELSE {})
    ELSE {<<unit[u], unit[u]>>}

StopUnits(reported) ==
    /\ unit' \in [Units -> ExecutionStates]
    /\ \A u \in Units : <<unit'[u], reported[u]>> \in StopOutcomes(u)
    /\ stop' = "issued"

\* The execution of a caller that gets no handle is stopped again.
StopUntracked ==
    /\ pc = "stop_untracked"
    /\ \E reported \in [Units -> ExecutionStates] : StopUnits(reported)
    /\ pc' = "raised"
    /\ UNCHANGED <<files, journal, status, final, execution, doubts,
                   calls>>

-----------------------------------------------------------------------------
(* inspect_canonical_system_execution.                                     *)

\* An observation of FAILED that does not come from a failed unit is a doubt.
Doubt(state) ==
    IF state = "failed" /\ \A u \in Units : unit'[u] # "failed"
    THEN doubts \cup {"observation"} ELSE doubts

Inspect ==
    /\ pc = "idle" /\ calls < MaxCalls
    /\ UNCHANGED unit
    /\ \E shown \in Observations :
        /\ seen' = Report(shown)
        /\ doubts' = Doubt(Report(shown))
    /\ calls' = calls + 1
    /\ pc' = "report_status"
    /\ UNCHANGED <<files, journal, status, final, stop, handle,
                   finished, recorded>>

ReportStatus ==
    /\ pc = "report_status"
    /\ WriteStatus(seen, TRUE)
    /\ pc' = "report_event"
    /\ UNCHANGED <<files, journal, final, world, execution, calls>>

\* Mutant: FINISHED is appended on every terminal report.
ReportEventAgain ==
    /\ pc = "report_event"
    /\ \/ /\ seen \in TerminalStates
          /\ \/ Journal("finished", seen) /\ finished' = TRUE
             \/ JournalFails("finished", seen) /\ finished' = finished
       \/ seen \notin TerminalStates /\ UNCHANGED <<journal, finished, doubts>>
    /\ pc' = "report_record"
    /\ UNCHANGED <<files, status, final, world, handle, seen,
                   recorded, calls>>

ReportEvent ==
    /\ pc = "report_event"
    /\ \/ /\ seen \in TerminalStates /\ ~finished
          /\ \/ Journal("finished", seen) /\ finished' = TRUE
             \/ JournalFails("finished", seen) /\ finished' = finished
       \/ /\ seen \notin TerminalStates \/ finished
          /\ UNCHANGED <<journal, finished, doubts>>
    /\ pc' = "report_record"
    /\ UNCHANGED <<files, status, final, world, handle, seen,
                   recorded, calls>>

\* Mutant: a report of STOPPING closes the Run as well.
ReportRecordEarly ==
    /\ pc = "report_record"
    /\ \/ /\ seen \in TerminalStates \cup {"stopping"} /\ ~recorded
          /\ final' = seen /\ recorded' = TRUE
       \/ /\ \/ recorded
             \/ seen \notin TerminalStates \cup {"stopping"}
             \/ "record" \in Faults
          /\ UNCHANGED <<final, recorded>>
    /\ pc' = "idle"
    /\ UNCHANGED <<files, journal, status, world, handle, seen,
                   finished, doubts, calls>>

\* _finalize_run_record, then the record is returned to the caller.
ReportRecord ==
    /\ pc = "report_record"
    /\ \/ /\ seen \in TerminalStates /\ ~recorded
          /\ final' = seen /\ recorded' = TRUE
       \/ /\ recorded \/ seen \notin TerminalStates \/ "record" \in Faults
          /\ UNCHANGED <<final, recorded>>
    /\ pc' = "idle"
    /\ UNCHANGED <<files, journal, status, world, handle, seen,
                   finished, doubts, calls>>

-----------------------------------------------------------------------------
(* stop_canonical_system_execution.                                        *)

\* A stop of a Run already closed rewrites its status.
Stop ==
    /\ pc = "idle" /\ calls < MaxCalls
    /\ calls' = calls + 1
    /\ stop' = "requested"
    /\ pc' = "stop_status"
    /\ UNCHANGED <<files, journal, status, final, unit, execution, doubts>>

StopStatus ==
    /\ pc = "stop_status"
    /\ WriteStatus("stopping", TRUE)
    /\ pc' = "stop_event"
    /\ UNCHANGED <<files, journal, final, world, execution, calls>>

\* Mutant: a STOPPING event that cannot be persisted ends the call.
StopEventRaises ==
    /\ pc = "stop_event"
    /\ \/ Journal("stopping", None) /\ pc' = "stop_system"
       \/ JournalFails("stopping", None) /\ pc' = "idle"
    /\ UNCHANGED <<files, status, final, world, execution, calls>>

StopEvent ==
    /\ pc = "stop_event"
    /\ \/ Journal("stopping", None)
       \/ JournalFails("stopping", None)
    /\ pc' = "stop_system"
    /\ UNCHANGED <<files, status, final, world, execution, calls>>

StopSystem ==
    /\ pc = "stop_system"
    /\ \E reported \in [Units -> ExecutionStates] :
        /\ StopUnits(reported)
        /\ seen' = Report(reported)
        /\ doubts' = Doubt(Report(reported))
    /\ pc' = "report_status"
    /\ UNCHANGED <<files, journal, status, final, handle, finished,
                   recorded, calls>>

\* A negative timeout is refused by the orchestrator before it stops anything.
StopRejected ==
    /\ pc = "stop_system"
    /\ \/ Journal("error", None)
       \/ JournalFails("error", None)
    /\ stop' = "none"
    /\ pc' = "idle"
    /\ UNCHANGED <<files, status, final, unit, execution, calls>>

\* The benchmark runner (benchmark_system_runner.py) polls until a report is
\* terminal, then lets go of the execution.  When it is interrupted, or the
\* inspection raises, it stops the execution instead.
BenchmarkReturns ==
    /\ pc = "idle" /\ seen \in TerminalStates
    /\ pc' = "released"
    /\ UNCHANGED <<files, journal, status, final, world, execution,
                   doubts, calls>>

-----------------------------------------------------------------------------
(* The System and the death of the owner.                                  *)

UnitMoves(u) ==
    /\ pc \notin Ended
    /\ \/ unit[u] = "prepared" /\ unit' = [unit EXCEPT ![u] = "running"]
       \/ /\ unit[u] \in {"prepared", "running"}
          /\ \E s \in {"completed", "failed"} : unit' = [unit EXCEPT ![u] = s]
       \/ unit[u] = "stopping" /\ unit' = [unit EXCEPT ![u] = "stopped"]
    /\ UNCHANGED <<pc, files, journal, status, final, stop,
                   execution, doubts, calls>>

\* What the owner knew is lost; a temporary file may stay behind, which
\* recovery reports and otherwise ignores.
Crash ==
    /\ pc \notin Ended
    /\ pc' = "crashed"
    /\ seen' = None /\ finished' = FALSE /\ recorded' = FALSE
    /\ UNCHANGED <<files, journal, status, final, world, handle, doubts,
                   calls>>

\* The event the owner is about to append, at the places where it appends one.
Appending ==
    {<<"event_prepared", "prepared">>, <<"starting", "startup">>,
     <<"event_error", "error">>, <<"event_started", "started">>,
     <<"report_event", "finished">>, <<"stop_event", "stopping">>,
     <<"stop_system", "error">>}

\* Killed within the write of a line, a part of which is stored.
CrashWriting ==
    /\ torn < MaxTorn
    /\ \E kind \in EventKinds :
        /\ <<pc, kind>> \in Appending
        /\ kind = "finished" => seen \in TerminalStates /\ ~finished
        /\ \E line \in Parts(kind, IF kind = "finished" THEN seen ELSE None) :
              Store(line)
    /\ pc' = "crashed"
    /\ seen' = None /\ finished' = FALSE /\ recorded' = FALSE
    /\ UNCHANGED <<files, nextSeq, status, final, world, handle, doubts, calls>>

-----------------------------------------------------------------------------
Start ==
    \/ CreateSession \/ StatusCreated
    \/ \E f \in ProvenanceSet : Capture(f)
    \/ CaptureFails \/ MetricsFail \/ Prepare
    \/ EventPrepared \/ StatusPrepared
    \/ StartupEvent \/ StartupEventFails \/ SystemStarts \/ SystemStartFails
    \/ EventStarted \/ StopUntracked \/ StatusRunning
    \/ EventError \/ StatusFailed

Reporting == ReportStatus \/ ReportEvent \/ ReportRecord
Stopping == StopStatus \/ StopEvent \/ StopSystem \/ StopRejected
Work == Start \/ Reporting \/ Stopping
Calls == Inspect \/ Stop \/ BenchmarkReturns

Next == Work \/ Calls \/ (\E u \in Units : UnitMoves(u))
        \/ Crash \/ CrashWriting

Spec == Init /\ [][Next]_vars

-----------------------------------------------------------------------------
(* Properties.                                                             *)

Steps == {"create", "status_created", "capture", "event_prepared",
          "status_prepared", "starting", "start_fails", "event_started",
          "stop_untracked",
          "status_running", "event_error", "status_failed", "idle",
          "report_status", "report_event", "report_record",
          "stop_status", "stop_event", "stop_system"}

AllDoubts == {"status", "journal", "observation", "leftover"}
JournalOK ==
    /\ events \in Seq(Line) /\ opened \in BOOLEAN
    /\ nextSeq \in Nat \ {0} /\ torn \in 0..MaxTorn
    /\ doubts \subseteq AllDoubts

\* The shape of the Run's files and of the owner's bookkeeping.
TypeOK ==
    /\ JournalOK
    /\ pc \in Steps \cup Ended
    /\ files \subseteq ProvenanceSet
    /\ status \in StatusDocument \cup {None}
    /\ final \in TerminalStates \cup {None}
    /\ unit \in [Units -> ExecutionStates \cup {"absent"}]
    /\ handle \in BOOLEAN /\ stop \in {"none", "requested", "issued"}
    /\ finished \in BOOLEAN /\ recorded \in BOOLEAN
    /\ seen \in ExecutionStates \cup {None}
    /\ calls \in 0..MaxCalls

Journalled(kind) == \E i \in 1..Len(events) : events[i].kind = kind

\* No unit is ever started before the mandatory provenance of the Run is on
\* disk, and its PREPARED event unless a line was written in part
\* (docs/adr/0001).
EvidenceFirst ==
    (\E u \in Units : unit[u] # "absent") =>
        /\ files = ProvenanceSet
        /\ torn = 0 => Journalled("prepared")

\* Nobody gets an untracked live execution: whoever holds a handle has a
\* STARTED event in the journal, unless a line was written in part; a start
\* that raised after the System had started has asked it to stop; and "a
\* storage failure must never prevent an explicit stop request": a stop call
\* that has come back has been issued.
NoUntrackedExecution ==
    /\ /\ handle /\ torn = 0
       /\ pc \notin {"event_started", "stop_untracked"} \cup Ended
       => Journalled("started")
    /\ handle /\ pc = "raised" => stop = "issued"
    /\ pc \in {"idle", "released"} => stop # "requested"

Recovered(assumeInactive) ==
    Classify(files \cup (IF opened THEN {"events"} ELSE {}), events, status,
             final, assumeInactive)

\* Each way recovery calls a Run corrupted has its cause: an illegible line
\* that a write, or a kill within it, left a part of; sequence numbers that
\* repeat because an append raised after writing; a final record and a status
\* that disagree because a write of the status was lost, because FAILED was
\* reported of a System that had not failed, or while a Run already closed is
\* being stopped again.
CorruptionExplained ==
    Recovered(FALSE) = "corrupted" =>
        \/ ~Legible(events) /\ torn > 0
        \/ Legible(events) /\ ~Contiguous(events) /\ "journal" \in doubts
        \/ /\ ~RecordAgrees(status, final)
           /\ \/ {"status", "observation"} \cap doubts # {}
              \/ status.state = "stopping"

\* What recovery says of the files after a crash, or at any other moment, is
\* true of the execution: of a Run called failed-before-start nobody has got a
\* handle, no STARTED event was journalled, and nothing executes but what the
\* rollback of that start could not stop; a healthy terminal record states how
\* the System ended; and a corrupted one has its explanation.
VerdictSound ==
    LET verdict == Recovered(TRUE) IN
    /\ verdict = "failed-before-start" =>
          /\ ~handle /\ ~Journalled("started")
          /\ Live => "leftover" \in doubts
    /\ verdict = "healthy-terminal" /\ "observation" \notin doubts =>
          final = Report(unit)
    /\ CorruptionExplained

\* The journal tells one end of the execution, the one in run.json.
OneOutcome ==
    "journal" \notin doubts => \A i, j \in 1..Len(events) :
        events[i].kind = "finished" /\ events[j].kind = "finished" =>
            /\ i = j
            /\ final # None /\ "observation" \notin doubts =>
                  events[i].state = final

-----------------------------------------------------------------------------
(* What the documentation says and the code does not keep.                 *)

\* "Do not leak a live System when benchmark coordination is interrupted or
\* inspection fails" (benchmark_system_runner.py).
NoLiveSystemLeft == pc = "released" => stop = "issued" \/ ~Live
=============================================================================
