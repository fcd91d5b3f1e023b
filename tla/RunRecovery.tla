------------------------------ MODULE RunRecovery -----------------------------
(***************************************************************************)
(* What inspect_run_directory (run_recovery.py) concludes from the durable *)
(* files of one Run: journal lines, the status cache, the final record and *)
(* the provenance files.  Documents are reduced to the fields the checks   *)
(* compare.  status.json and run.json are replaced as a whole; a journal   *)
(* line may have been written in part.                                     *)
(***************************************************************************)
EXTENDS SystemStates, Integers, Sequences

CONSTANT None   \* absent file, absent identity, no state

Provenance == <<"definition", "plan", "policy", "environment">>
ProvenanceSet == {Provenance[i] : i \in 1..Len(Provenance)}

RunStates == {"created", "prepared", "running", "stopping",
              "stopped", "completed", "failed"}
\* "startup" stands for the four events of the startup sink (child_started and
\* dependency_*).
EventKinds == {"prepared", "startup", "started", "stopping", "finished",
               "error"}
\* A line is "invalid" when its text is not one JSON object; the last one may
\* lack the end of line.
Line == [seq: Nat, kind: EventKinds \cup {"invalid"},
         state: RunStates \cup {None}, ended: BOOLEAN]
StatusDocument == [state: RunStates, execution: BOOLEAN]

\* No REC302.  A last record without its end of line is accepted here.
Legible(lines) == \A i \in 1..Len(lines) : lines[i].kind # "invalid"

\* REC305: each sequence number is the successor of the one read before it;
\* invalid lines are passed over.
Contiguous(lines) ==
    \A i, j \in 1..Len(lines) :
        /\ i < j /\ lines[i].kind # "invalid" /\ lines[j].kind # "invalid"
        /\ \A k \in (i + 1)..(j - 1) : lines[k].kind = "invalid"
        => lines[j].seq = lines[i].seq + 1

\* REC607 and REC608.
RecordAgrees(status, record) ==
    record = None \/ status = None \/ status.state = record

\* REC101..REC107; a journal counts as there once the file exists.
Incomplete(files, status, record) ==
    \/ files # ProvenanceSet \cup {"events"}
    \/ status = None
    \/ record = None /\ status.state \in TerminalStates /\ status.execution

Classify(files, lines, status, record, assumeInactive) ==
    CASE \/ ~Legible(lines) \/ ~Contiguous(lines)
         \/ ~RecordAgrees(status, record) ->
            "corrupted"
      [] record # None ->
            IF Incomplete(files, status, record)
            THEN "incomplete" ELSE "healthy-terminal"
      [] status = None -> "incomplete"
      [] status.state = "failed" /\ ~status.execution ->
            IF Incomplete(files, status, record)
            THEN "incomplete" ELSE "failed-before-start"
      [] status.state \in TerminalStates -> "incomplete"
      [] assumeInactive -> "interrupted"
      [] OTHER ->
            IF Incomplete(files, status, record)
            THEN "incomplete" ELSE "active-or-unknown"
=============================================================================
