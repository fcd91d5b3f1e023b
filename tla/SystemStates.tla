---------------------------- MODULE SystemStates ----------------------------
(***************************************************************************)
(* The execution states every backend reports and the rule by which the    *)
(* orchestrator folds the states of scopes and child Systems into the      *)
(* state of the System that owns them (system/backend.py,                  *)
(* system/orchestration.py).                                               *)
(***************************************************************************)
EXTENDS FiniteSets

\* BackendExecutionState.
ExecutionStates ==
    {"prepared", "running", "stopping", "stopped", "completed", "failed"}

\* SystemExecutionStatus.terminal.
TerminalStates == {"stopped", "completed", "failed"}

\* _aggregate_state: the state of a System whose scopes and children are in
\* exactly the given set of states.
AggregateState(states) ==
    IF states = {} THEN "completed"
    ELSE IF "failed" \in states THEN "failed"
    ELSE IF states = {"completed"} THEN "completed"
    ELSE IF states \subseteq {"stopped", "completed"} THEN "stopped"
    ELSE IF "stopping" \in states THEN "stopping"
    ELSE IF "running" \in states THEN "running"
    ELSE "prepared"
=============================================================================
