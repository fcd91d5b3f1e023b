--------------------------- MODULE CanonicalRunProofs -------------------------
(***************************************************************************)
(* Theorems about CanonicalRun.  The invariant relates the place the owner *)
(* is at to what it holds and what is on disk, and what was reported, is   *)
(* journalled or recorded to what the units really do, as long as nothing  *)
(* happened that "doubts" remembers.                                       *)
(***************************************************************************)
EXTENDS CanonicalRun, TLAPS

\* Before the System runs; when it has just started; while calls are served.
Early == {"create", "status_created", "capture", "event_prepared",
          "status_prepared", "starting", "start_fails", "event_error",
          "status_failed"}
Launched == {"event_started", "stop_untracked", "status_running"}
Reported == {"report_status", "report_event", "report_record"}
Serving == {"idle", "stop_status", "stop_event", "stop_system"} \cup Reported

FinishedAt(i) == i \in 1..Len(events) /\ events[i].kind = "finished"

\* What the owner has at each place.
PlaceInv ==
    /\ pc \in Early => ~handle
    /\ pc \in Launched \cup Serving \cup {"released"} => handle
    /\ pc \in Reported => seen # None
    /\ stop = "requested" =>
          pc \in {"stop_status", "stop_event", "stop_system", "crashed"}
    /\ status = [state |-> "failed", execution |-> FALSE] =>
          pc = "raised" /\ ~handle
    /\ pc = "raised" /\ handle => stop = "issued"

\* Nothing is said of an end of the execution before calls are served.
QuietInv ==
    \/ final # None \/ seen # None \/ finished \/ (\E i \in Nat : FinishedAt(i))
    => handle /\ pc \in Serving \cup {"released", "crashed"}

\* What is on disk at each place.
EvidenceInv ==
    /\ EvidenceFirst
    /\ pc \in {"event_prepared", "status_prepared", "starting", "start_fails"}
              \cup Launched \cup Serving
       => files = ProvenanceSet
    /\ /\ torn = 0
       /\ pc \in {"status_prepared", "starting", "start_fails"}
                 \cup Launched \cup Serving
       => Journalled("prepared")
    /\ /\ handle /\ torn = 0
       /\ pc \notin {"event_started", "stop_untracked"} \cup Ended
       => Journalled("started")

\* A start that gave no handle has journalled no STARTED event and has left
\* nothing executing but what its rollback could not stop.
NoHandleInv ==
    ~handle => /\ ~Journalled("started")
               /\ Live => "leftover" \in doubts

\* As long as no write was partial, every line is whole.
WholeInv ==
    torn = 0 => \A i \in 1..Len(events) :
                    events[i].ended /\ events[i].kind # "invalid"

\* The sequence numbers of a legible journal count its lines, and the execution
\* ends once.
LinesInv ==
    "journal" \notin doubts =>
        /\ Legible(events) =>
              /\ nextSeq = Len(events) + 1 \/ pc = "crashed"
              /\ \A i \in 1..Len(events) : events[i].seq = i
        /\ \A i, j \in Nat : FinishedAt(i) /\ FinishedAt(j) => i = j
        /\ (\E i \in Nat : FinishedAt(i)) => finished \/ pc = "crashed"

\* What was told of the end of the execution is how the units ended.
TruthInv ==
    "observation" \notin doubts =>
        /\ \A i \in Nat : FinishedAt(i) =>
              events[i].state = Report(unit) /\ Report(unit) \in TerminalStates
        /\ final # None => final = Report(unit)
        /\ pc \in Reported /\ (seen \in TerminalStates \/ final # None) =>
              seen = Report(unit)

\* status.json says what was reported last, unless its write was lost.
StatusInv ==
    "status" \notin doubts =>
        /\ pc \in {"report_event", "report_record"} =>
              status = [state |-> seen, execution |-> TRUE]
        /\ final # None /\ "observation" \notin doubts =>
              status.state \in {final, "stopping"}

RunInv == TypeOK /\ PlaceInv /\ QuietInv /\ EvidenceInv /\ NoHandleInv
          /\ WholeInv /\ LinesInv /\ TruthInv /\ StatusInv

-----------------------------------------------------------------------------
(* What the helpers do.                                                    *)

LEMMA StatesKnown ==
    /\ TerminalStates \subseteq ExecutionStates
    /\ ExecutionStates \subseteq RunStates
    /\ None \notin ExecutionStates
  BY NoneAssumption DEF TerminalStates, ExecutionStates, RunStates

LEMMA ReportKnown == ASSUME NEW shown PROVE Report(shown) \in ExecutionStates
  BY DEF Report, AggregateState, ExecutionStates

\* Only ReportEvent tells the end of the execution; what is doubted stays so.
DoubtsKept ==
    \A d \in {"journal", "observation", "leftover"} :
        d \in doubts => d \in doubts'

\* A write adds at most one line, at the end, and may spoil the line before it
\* when that one was not ended.
LineAt(i, kind, state) ==
    \/ events'[i].kind = "invalid"
    \/ /\ events'[i].kind = kind /\ events'[i].state = state
       /\ events'[i].seq = nextSeq
Appended(kind, state) ==
    /\ Len(events') \in {Len(events), Len(events) + 1}
    /\ \A i \in 1..Len(events) :
          /\ i \in 1..Len(events')
          /\ \/ events'[i] = events[i]
             \/ ~events[i].ended /\ events'[i].kind = "invalid"
    /\ \A i \in 1..Len(events') :
          \/ i \in 1..Len(events)
          \/ i = Len(events) + 1 /\ LineAt(i, kind, state)
    /\ torn' >= torn
    /\ torn' = 0 => \A i \in 1..Len(events') :
          \/ i \in 1..Len(events)
          \/ events'[i].ended /\ events'[i].kind # "invalid"
    /\ DoubtsKept

\* An append that does not raise after writing counts the line it adds.
Counted ==
    "journal" \notin doubts' /\ Legible(events') =>
        nextSeq' = nextSeq + (Len(events') - Len(events))

\* What a write may store.
Fits(line, kind, state) ==
    /\ line \in Line
    /\ \/ line.kind = "invalid" /\ ~line.ended
       \/ line.kind = kind /\ line.state = state /\ line.seq = nextSeq

LEMMA PartsFit ==
  ASSUME TypeOK, NEW kind \in EventKinds, NEW state \in RunStates \cup {None},
         NEW line \in Parts(kind, state)
  PROVE  Fits(line, kind, state) /\ ~line.ended
<1>1. nextSeq \in Nat BY DEF TypeOK, JournalOK
<1>2. CASE line = InvalidLine(FALSE)
  BY <1>2 DEF InvalidLine, Fits, Line
<1>3. CASE line = [LineFor(kind, state) EXCEPT !.ended = FALSE]
  BY <1>1, <1>3 DEF LineFor, Fits, Line
<1> QED BY <1>2, <1>3 DEF Parts

LEMMA WritesFit ==
  ASSUME TypeOK, NEW kind \in EventKinds, NEW state \in RunStates \cup {None},
         NEW line \in Writes(kind, state)
  PROVE  Fits(line, kind, state) /\ (line.ended \/ torn < MaxTorn)
<1>1. CASE line = LineFor(kind, state)
  <2>1. nextSeq \in Nat BY DEF TypeOK, JournalOK
  <2> QED BY <1>1, <2>1 DEF LineFor, Fits, Line
<1>2. CASE line \in Parts(kind, state) /\ torn < MaxTorn
  BY <1>2, PartsFit
<1> QED BY <1>1, <1>2 DEF Writes

LEMMA StoreAdds ==
  ASSUME TypeOK, NEW kind \in EventKinds, NEW state, NEW line,
         Fits(line, kind, state), line.ended \/ torn < MaxTorn,
         Store(line), DoubtsKept
  PROVE  /\ events' \in Seq(Line) /\ opened' \in BOOLEAN
         /\ torn' \in 0..MaxTorn
         /\ Appended(kind, state)
         /\ Legible(events') => Len(events') = Len(events) + 1
<1> DEFINE n == Len(events)
<1>1. /\ events \in Seq(Line) /\ n \in Nat /\ torn \in Nat /\ torn <= MaxTorn
      /\ MaxTorn \in Nat
  BY CallsAssumption DEF TypeOK, JournalOK
<1>2. line \in Line /\ line.ended \in BOOLEAN BY DEF Fits, Line
<1>3. /\ opened' \in BOOLEAN /\ torn' \in 0..MaxTorn /\ torn' >= torn
      /\ torn' = 0 => line.ended
  BY <1>1, <1>2 DEF Store
<1>4. CASE n > 0 /\ ~events[n].ended
  <2>1. /\ InvalidLine(line.ended) \in Line
        /\ InvalidLine(line.ended).kind = "invalid"
    BY <1>2 DEF InvalidLine, Line
  <2>2. events' = [events EXCEPT ![n] = InvalidLine(line.ended)]
    BY <1>4 DEF Store
  <2>3. events' \in Seq(Line) /\ Len(events') = n /\ n \in 1..n
    BY <1>1, <1>4, <2>1, <2>2
  <2>4. \A i \in 1..n :
            \/ events'[i] = events[i]
            \/ ~events[i].ended /\ events'[i].kind = "invalid"
    BY <1>1, <1>4, <2>1, <2>2
  <2>5. events'[n].kind = "invalid" BY <1>1, <2>1, <2>2, <2>3
  <2> QED BY <1>1, <1>3, <2>3, <2>4, <2>5 DEF Appended, Legible
<1>5. CASE ~(n > 0 /\ ~events[n].ended)
  <2>1. events' = Append(events, line) BY <1>5 DEF Store
  <2>2. /\ events' \in Seq(Line) /\ Len(events') = n + 1
        /\ events'[n + 1] = line
        /\ \A i \in 1..n : i \in 1..(n + 1) /\ events'[i] = events[i]
    BY <1>1, <1>2, <2>1
  <2>3. LineAt(n + 1, kind, state) BY <2>2 DEF LineAt, Fits
  <2>4. torn' = 0 => events'[n + 1].ended /\ events'[n + 1].kind # "invalid"
    BY <1>3, <2>2 DEF Fits, EventKinds
  <2>5. \A i \in 1..(n + 1) : i \in 1..n \/ i = n + 1 BY <1>1
  <2> QED BY <1>1, <1>3, <2>2, <2>3, <2>4, <2>5 DEF Appended
<1> QED BY <1>4, <1>5

LEMMA JournalAppends ==
  ASSUME TypeOK, NEW kind \in EventKinds, NEW state \in RunStates \cup {None},
         Journal(kind, state) \/ JournalFails(kind, state)
  PROVE  JournalOK' /\ Appended(kind, state) /\ Counted
<1>1. /\ events \in Seq(Line) /\ Len(events) \in Nat /\ nextSeq \in Nat \ {0}
      /\ torn \in 0..MaxTorn /\ torn \in Nat /\ opened \in BOOLEAN
      /\ doubts \subseteq AllDoubts
  BY CallsAssumption DEF TypeOK, JournalOK
<1>2. CASE Journal(kind, state)
  <2>1. PICK line \in Writes(kind, state) : Store(line) BY <1>2 DEF Journal
  <2>2. nextSeq' = nextSeq + 1 /\ doubts' = doubts BY <1>2 DEF Journal
  <2>3. DoubtsKept BY <2>2 DEF DoubtsKept
  <2>4. Fits(line, kind, state) /\ (line.ended \/ torn < MaxTorn)
    BY WritesFit
  <2>5. /\ events' \in Seq(Line) /\ opened' \in BOOLEAN
        /\ torn' \in 0..MaxTorn
        /\ Appended(kind, state)
        /\ Legible(events') => Len(events') = Len(events) + 1
    BY <2>1, <2>3, <2>4, StoreAdds
  <2>6. Counted BY <1>1, <2>2, <2>5 DEF Counted
  <2> QED BY <1>1, <2>2, <2>5, <2>6 DEF JournalOK
<1>3. CASE JournalFails(kind, state)
  <2>1. nextSeq' = nextSeq BY <1>3 DEF JournalFails
  <2>2. CASE UNCHANGED <<events, torn, doubts>> /\ opened' \in {opened, TRUE}
    <3>1. /\ events' = events /\ torn' = torn /\ doubts' = doubts
          /\ opened' \in BOOLEAN
      BY <1>1, <2>2
    <3>2. DoubtsKept BY <3>1 DEF DoubtsKept
    <3>3. Appended(kind, state) BY <1>1, <3>1, <3>2 DEF Appended
    <3>4. Counted BY <1>1, <2>1, <3>1 DEF Counted
    <3> QED BY <1>1, <2>1, <3>1, <3>3, <3>4 DEF JournalOK
  <2>3. CASE /\ \E line \in Writes(kind, state) : Store(line)
             /\ doubts' = doubts \cup {"journal"}
    <3>1. PICK line \in Writes(kind, state) : Store(line) BY <2>3
    <3>2. DoubtsKept BY <2>3 DEF DoubtsKept
    <3>3. Fits(line, kind, state) /\ (line.ended \/ torn < MaxTorn)
      BY WritesFit
    <3>4. /\ events' \in Seq(Line) /\ opened' \in BOOLEAN
          /\ torn' \in 0..MaxTorn
          /\ Appended(kind, state)
      BY <3>1, <3>2, <3>3, StoreAdds
    <3>5. Counted BY <2>3 DEF Counted
    <3>6. doubts' \subseteq AllDoubts BY <1>1, <2>3 DEF AllDoubts
    <3> QED BY <1>1, <2>1, <3>4, <3>5, <3>6 DEF JournalOK
  <2> QED BY <1>3, <2>2, <2>3 DEF JournalFails
<1> QED BY <1>2, <1>3

\* A kill within a write adds what a write adds.
LEMMA CrashWrites ==
  ASSUME TypeOK, CrashWriting
  PROVE  /\ JournalOK'
         /\ \E kind \in EventKinds :
               /\ <<pc, kind>> \in Appending
               /\ kind = "finished" => seen \in TerminalStates /\ ~finished
               /\ Appended(kind, IF kind = "finished" THEN seen ELSE None)
<1>1. PICK kind \in EventKinds :
        /\ <<pc, kind>> \in Appending
        /\ kind = "finished" => seen \in TerminalStates /\ ~finished
        /\ \E line \in Parts(kind, IF kind = "finished" THEN seen ELSE None) :
              Store(line)
  BY DEF CrashWriting
<1> DEFINE state == IF kind = "finished" THEN seen ELSE None
<1>2. PICK line \in Parts(kind, state) : Store(line) BY <1>1
<1>3. state \in RunStates \cup {None} BY StatesKnown DEF TypeOK
<1> HIDE DEF state
<1>4. Fits(line, kind, state) BY <1>2, <1>3, PartsFit
<1>5. torn < MaxTorn /\ UNCHANGED <<nextSeq, doubts>> BY DEF CrashWriting
<1>6. DoubtsKept BY <1>5 DEF DoubtsKept
<1>7. /\ events' \in Seq(Line) /\ opened' \in BOOLEAN
      /\ torn' \in 0..MaxTorn
      /\ Appended(kind, state)
  BY <1>2, <1>4, <1>5, <1>6, StoreAdds
<1>8. JournalOK' BY <1>5, <1>7 DEF TypeOK, JournalOK
<1> QED BY <1>1, <1>7, <1>8 DEF state

\* Without partial writes nothing that was journalled is lost.
LEMMA JournalledStays ==
  ASSUME WholeInv, TypeOK, TypeOK', torn' = 0,
         NEW kind, NEW state, Appended(kind, state),
         NEW k, Journalled(k)
  PROVE  Journalled(k)'
<1>1. torn = 0
  BY CallsAssumption DEF Appended, TypeOK, JournalOK
<1>2. \A i \in 1..Len(events) : i \in 1..Len(events') /\ events'[i] = events[i]
  BY <1>1 DEF Appended, WholeInv
<1> QED BY <1>2 DEF Journalled

\* What is new in the journal is of the kind written.
LEMMA JournalledNew ==
  ASSUME NEW kind, NEW state, Appended(kind, state),
         NEW k, k # kind, k # "invalid", Journalled(k)'
  PROVE  Journalled(k)
<1>1. PICK i \in 1..Len(events') : events'[i].kind = k BY DEF Journalled
<1>2. i \in 1..Len(events) BY <1>1 DEF Appended, LineAt
<1>3. events'[i] = events[i] BY <1>1, <1>2 DEF Appended
<1> QED BY <1>1, <1>2, <1>3 DEF Journalled

\* A returned append whose write was whole is in the journal.
LEMMA JournalJournals ==
  ASSUME TypeOK, WholeInv, torn' = 0, NEW kind, NEW state, Journal(kind, state)
  PROVE  Journalled(kind)'
<1>1. /\ events \in Seq(Line) /\ Len(events) \in Nat /\ torn \in Nat
  BY CallsAssumption DEF TypeOK, JournalOK
<1>2. PICK line \in Writes(kind, state) : Store(line) BY DEF Journal
<1>3. line.ended /\ torn = 0 BY <1>1, <1>2 DEF Store
<1>4. line = LineFor(kind, state)
  BY <1>3 DEF Writes, Parts, InvalidLine, LineFor
<1>5. ~(Len(events) > 0 /\ ~events[Len(events)].ended)
  BY <1>1, <1>3 DEF WholeInv
<1>6. events' = Append(events, line) BY <1>2, <1>5 DEF Store
<1>7. Len(events) + 1 \in 1..Len(events')
      /\ events'[Len(events) + 1] = LineFor(kind, state)
  BY <1>1, <1>4, <1>6
<1> QED BY <1>7 DEF Journalled, LineFor

LEMMA WriteStatusTypes ==
  ASSUME TypeOK, NEW state \in RunStates, NEW known \in BOOLEAN,
         WriteStatus(state, known)
  PROVE  /\ status' \in StatusDocument \cup {None}
         /\ doubts' \subseteq AllDoubts
         /\ doubts' \ {"status"} = doubts \ {"status"}
         /\ \/ status' = [state |-> state, execution |-> known]
            \/ status' = status /\ "status" \in doubts'
<1>1. /\ status \in StatusDocument \cup {None}
      /\ doubts \subseteq AllDoubts
  BY DEF TypeOK, JournalOK
<1>2. [state |-> state, execution |-> known] \in StatusDocument
  BY DEF StatusDocument
<1>3. CASE /\ status' = [state |-> state, execution |-> known]
           /\ doubts' = doubts \ {"status"}
  BY <1>1, <1>2, <1>3
<1>4. CASE status' = status /\ doubts' = doubts \cup {"status"}
  BY <1>1, <1>4 DEF AllDoubts
<1> QED BY <1>3, <1>4 DEF WriteStatus

\* Observing the units: what is reported of one is true or a failure.
Observes(shown, units) ==
    \A u \in Units : shown[u] = units[u] \/ shown[u] = "failed"

LEMMA ReportTrue ==
  ASSUME NEW shown, NEW units, Observes(shown, units),
         Report(shown) # "failed" \/ \E u \in Units : units[u] = "failed"
  PROVE  Report(shown) = Report(units)
<1> DEFINE S == {shown[u] : u \in Units}
           T == {units[u] : u \in Units}
<1>1. CASE "failed" \in T
  <2>1. "failed" \in S BY <1>1 DEF Observes
  <2> QED BY <1>1, <2>1 DEF Report, AggregateState
<1>2. CASE "failed" \notin T
  <2>1. Report(shown) # "failed" BY <1>2
  <2>2. "failed" \notin S BY <2>1 DEF Report, AggregateState
  <2>3. S = T BY <2>2 DEF Observes
  <2> QED BY <2>3 DEF Report
<1> QED BY <1>1, <1>2

\* A unit that has ended stays as it is.
EndsKept == \A u \in Units : unit[u] \in TerminalStates => unit'[u] = unit[u]

LEMMA ReportLasts ==
  ASSUME EndsKept, Report(unit) \in TerminalStates
  PROVE  Report(unit)' = Report(unit)
<1> DEFINE S == {unit[u] : u \in Units}
           T == {unit'[u] : u \in Units}
<1>1. Report(unit) = AggregateState(S) /\ Report(unit)' = AggregateState(T)
  BY DEF Report
<1>2. CASE "failed" \in S
  <2>1. "failed" \in T BY <1>2 DEF EndsKept, TerminalStates
  <2> QED BY <1>1, <1>2, <2>1 DEF AggregateState
<1>3. CASE "failed" \notin S
  <2>1. S \subseteq {"stopped", "completed"}
    BY <1>1, <1>3 DEF AggregateState, TerminalStates
  <2>2. S = T BY <2>1 DEF EndsKept, TerminalStates
  <2> QED BY <1>1, <2>2
<1> QED BY <1>2, <1>3

-----------------------------------------------------------------------------
(* The shape of the state.                                                 *)

LEMMA DoubtTypes ==
  ASSUME TypeOK, NEW state
  PROVE  Doubt(state) \subseteq AllDoubts
  BY DEF Doubt, TypeOK, JournalOK, AllDoubts

LEMMA TypeInit == ASSUME Init PROVE TypeOK
<1>1. <<>> \in Seq(Line) OBVIOUS
<1>2. 0 \in 0..MaxCalls /\ 0 \in 0..MaxTorn /\ 1 \in Nat \ {0}
  BY CallsAssumption
<1>3. unit \in [Units -> ExecutionStates \cup {"absent"}] BY DEF Init
<1>4. pc \in Steps BY DEF Init, Steps
<1> QED BY <1>1, <1>2, <1>3, <1>4 DEF Init, TypeOK, JournalOK

LEMMA TypeStart == ASSUME TypeOK, PlaceInv, Start PROVE TypeOK'
<1> USE DEF journal, world, execution, Ended, Steps, JournalOK
<1>1. CASE CreateSession
  BY <1>1 DEF CreateSession, TypeOK
<1>2. CASE StatusCreated
  <2>1. WriteStatus("created", FALSE) BY <1>2 DEF StatusCreated
  <2>2. /\ status' \in StatusDocument \cup {None}
        /\ doubts' \subseteq AllDoubts
    BY <2>1, WriteStatusTypes DEF RunStates
  <2> QED BY <1>2, <2>2 DEF StatusCreated, TypeOK
<1>3. CASE \E f \in ProvenanceSet : Capture(f)
  BY <1>3 DEF Capture, TypeOK
<1>4. CASE CaptureFails \/ MetricsFail \/ Prepare
  BY <1>4 DEF CaptureFails, MetricsFail, Prepare, TypeOK
<1>5. CASE EventPrepared
  <2>1. JournalOK'
    BY <1>5, JournalAppends DEF EventPrepared, EventKinds
  <2> QED BY <1>5, <2>1 DEF EventPrepared, TypeOK
<1>6. CASE StatusPrepared
  <2>1. /\ status' \in StatusDocument \cup {None}
        /\ doubts' \subseteq AllDoubts
    BY <1>6, WriteStatusTypes DEF StatusPrepared, RunStates
  <2> QED BY <1>6, <2>1 DEF StatusPrepared, TypeOK
<1>7. CASE StartupEvent \/ StartupEventFails
  <2>1. JournalOK'
    BY <1>7, JournalAppends DEF StartupEvent, StartupEventFails, EventKinds
  <2>2. pc' \in Steps BY <1>7 DEF StartupEvent, StartupEventFails
  <2> QED BY <1>7, <2>1, <2>2 DEF StartupEvent, StartupEventFails, TypeOK
<1>8. CASE SystemStarts \/ SystemStartFails
  <2>1. unit' \in [Units -> ExecutionStates \cup {"absent"}]
    BY <1>8 DEF SystemStarts, SystemStartFails, RollBack, ExecutionStates
  <2>2. doubts' \subseteq AllDoubts
    BY <1>8 DEF SystemStarts, SystemStartFails, Leftover, TypeOK, AllDoubts
  <2> QED BY <1>8, <2>1, <2>2 DEF SystemStarts, SystemStartFails, TypeOK
<1>9. CASE EventStarted
  <2>1. JournalOK'
    BY <1>9, JournalAppends DEF EventStarted, EventKinds
  <2> QED BY <1>9, <2>1 DEF EventStarted, TypeOK
<1>10. CASE StopUntracked
  <2>1. unit' \in [Units -> ExecutionStates \cup {"absent"}]
        /\ stop' = "issued"
    BY <1>10 DEF StopUntracked, StopUnits
  <2> QED BY <1>10, <2>1 DEF StopUntracked, TypeOK
<1>11. CASE StatusRunning
  <2>1. /\ status' \in StatusDocument \cup {None}
        /\ doubts' \subseteq AllDoubts
    BY <1>11, WriteStatusTypes DEF StatusRunning, RunStates
  <2> QED BY <1>11, <2>1 DEF StatusRunning, TypeOK
<1>12. CASE EventError
  <2>1. JournalOK'
    BY <1>12, JournalAppends DEF EventError, EventKinds
  <2> QED BY <1>12, <2>1 DEF EventError, TypeOK
<1>13. CASE StatusFailed
  <2>1. /\ status' \in StatusDocument \cup {None}
        /\ doubts' \subseteq AllDoubts
    BY <1>13, WriteStatusTypes DEF StatusFailed, RunStates
  <2> QED BY <1>13, <2>1 DEF StatusFailed, TypeOK
<1> QED
  BY <1>1, <1>2, <1>3, <1>4, <1>5, <1>6, <1>7, <1>8, <1>9, <1>10, <1>11,
     <1>12, <1>13 DEF Start

LEMMA TypeServe ==
  ASSUME TypeOK, PlaceInv, Reporting \/ Stopping \/ Calls PROVE TypeOK'
<1> USE DEF journal, world, execution, Ended, Steps, JournalOK
<1>1. CASE ReportStatus
  <2>1. seen \in RunStates
    BY <1>1, StatesKnown DEF ReportStatus, PlaceInv, Reported, TypeOK
  <2>2. /\ status' \in StatusDocument \cup {None}
        /\ doubts' \subseteq AllDoubts
    BY <1>1, <2>1, WriteStatusTypes DEF ReportStatus
  <2> QED BY <1>1, <2>2 DEF ReportStatus, TypeOK
<1>2. CASE ReportEvent
  <2>1. CASE UNCHANGED <<journal, finished, doubts>>
    BY <1>2, <2>1 DEF ReportEvent, TypeOK
  <2>2. CASE Journal("finished", seen) \/ JournalFails("finished", seen)
    <3>1. seen \in RunStates \cup {None} BY StatesKnown DEF TypeOK
    <3>2. JournalOK'
      BY <2>2, <3>1, JournalAppends DEF EventKinds
    <3>3. finished' \in BOOLEAN BY <1>2 DEF ReportEvent, TypeOK
    <3> QED BY <1>2, <3>2, <3>3 DEF ReportEvent, TypeOK
  <2> QED BY <1>2, <2>1, <2>2 DEF ReportEvent
<1>3. CASE ReportRecord
  BY <1>3 DEF ReportRecord, TypeOK
<1>4. CASE StopStatus
  <2>1. /\ status' \in StatusDocument \cup {None}
        /\ doubts' \subseteq AllDoubts
    BY <1>4, WriteStatusTypes DEF StopStatus, RunStates
  <2> QED BY <1>4, <2>1 DEF StopStatus, TypeOK
<1>5. CASE StopEvent
  <2>1. JournalOK'
    BY <1>5, JournalAppends DEF StopEvent, EventKinds
  <2> QED BY <1>5, <2>1 DEF StopEvent, TypeOK
<1>6. CASE StopSystem
  <2>1. PICK reported \in [Units -> ExecutionStates] :
            /\ StopUnits(reported)
            /\ seen' = Report(reported)
            /\ doubts' = Doubt(Report(reported))
    BY <1>6 DEF StopSystem
  <2>2. doubts' \subseteq AllDoubts
    BY <2>1, DoubtTypes
  <2>3. seen' \in ExecutionStates BY <2>1, ReportKnown
  <2>4. unit' \in [Units -> ExecutionStates \cup {"absent"}]
        /\ stop' = "issued"
    BY <2>1 DEF StopUnits
  <2> QED BY <1>6, <2>2, <2>3, <2>4 DEF StopSystem, TypeOK
<1>7. CASE StopRejected
  <2>1. JournalOK'
    BY <1>7, JournalAppends DEF StopRejected, EventKinds
  <2> QED BY <1>7, <2>1 DEF StopRejected, TypeOK
<1>8. CASE Inspect
  <2>1. PICK shown \in Observations : /\ seen' = Report(shown)
                                      /\ doubts' = Doubt(Report(shown))
    BY <1>8 DEF Inspect
  <2>2. doubts' \subseteq AllDoubts
    BY <2>1, DoubtTypes
  <2>3. seen' \in ExecutionStates BY <2>1, ReportKnown
  <2>4. calls' \in 0..MaxCalls
    BY <1>8, CallsAssumption DEF Inspect, TypeOK
  <2> QED BY <1>8, <2>2, <2>3, <2>4 DEF Inspect, TypeOK
<1>9. CASE Stop
  <2>1. calls' \in 0..MaxCalls
    BY <1>9, CallsAssumption DEF Stop, TypeOK
  <2> QED BY <1>9, <2>1 DEF Stop, TypeOK
<1>10. CASE BenchmarkReturns
  BY <1>10 DEF BenchmarkReturns, TypeOK
<1> QED
  BY <1>1, <1>2, <1>3, <1>4, <1>5, <1>6, <1>7, <1>8, <1>9, <1>10
     DEF Reporting, Stopping, Calls

LEMMA TypeWorld ==
  ASSUME TypeOK, (\E u \in Units : UnitMoves(u)) \/ Crash \/ CrashWriting
  PROVE  TypeOK'
<1>1. CASE \E u \in Units : UnitMoves(u)
  <2>1. unit' \in [Units -> ExecutionStates \cup {"absent"}]
    BY <1>1 DEF UnitMoves, TypeOK, ExecutionStates
  <2> QED BY <1>1, <2>1 DEF UnitMoves, TypeOK, JournalOK, journal, execution
<1>2. CASE Crash
  BY <1>2 DEF Crash, TypeOK, JournalOK, Ended, journal, world
<1>3. CASE CrashWriting
  BY <1>3, CrashWrites DEF CrashWriting, TypeOK, Ended, world
<1> QED BY <1>1, <1>2, <1>3

-----------------------------------------------------------------------------
(* What the owner has at each place.                                       *)

LEMMA PlaceStart == ASSUME TypeOK, PlaceInv, Start PROVE PlaceInv'
<1> USE DEF PlaceInv, journal, world, execution, Ended, Early, Launched,
            Reported, Serving
<1>1. CASE CreateSession BY <1>1 DEF CreateSession
<1>2. CASE StatusCreated BY <1>2 DEF StatusCreated, WriteStatus
<1>3. CASE \E f \in ProvenanceSet : Capture(f) BY <1>3 DEF Capture
<1>4. CASE CaptureFails \/ MetricsFail \/ Prepare
  BY <1>4 DEF CaptureFails, MetricsFail, Prepare
<1>5. CASE EventPrepared BY <1>5 DEF EventPrepared
<1>6. CASE StatusPrepared BY <1>6 DEF StatusPrepared, WriteStatus
<1>7. CASE StartupEvent \/ StartupEventFails
  BY <1>7 DEF StartupEvent, StartupEventFails
<1>8. CASE SystemStarts \/ SystemStartFails
  BY <1>8 DEF SystemStarts, SystemStartFails
<1>9. CASE EventStarted BY <1>9 DEF EventStarted
<1>10. CASE StopUntracked BY <1>10 DEF StopUntracked, StopUnits
<1>11. CASE StatusRunning BY <1>11 DEF StatusRunning, WriteStatus
<1>12. CASE EventError BY <1>12 DEF EventError
<1>13. CASE StatusFailed BY <1>13 DEF StatusFailed, WriteStatus
<1> QED
  BY <1>1, <1>2, <1>3, <1>4, <1>5, <1>6, <1>7, <1>8, <1>9, <1>10, <1>11,
     <1>12, <1>13 DEF Start

LEMMA PlaceServe ==
  ASSUME TypeOK, PlaceInv, Reporting \/ Stopping \/ Calls PROVE PlaceInv'
<1> USE DEF PlaceInv, journal, world, execution, Ended, Early, Launched,
            Reported, Serving
<1>1. CASE ReportStatus
  <2>1. \/ status' = status
        \/ status'.execution = TRUE
    BY <1>1 DEF ReportStatus, WriteStatus
  <2>2. status' = [state |-> "failed", execution |-> FALSE] =>
            status = [state |-> "failed", execution |-> FALSE]
    BY <2>1
  <2> QED BY <1>1, <2>2 DEF ReportStatus
<1>2. CASE ReportEvent BY <1>2 DEF ReportEvent
<1>3. CASE ReportRecord BY <1>3 DEF ReportRecord
<1>4. CASE StopStatus BY <1>4 DEF StopStatus, WriteStatus
<1>5. CASE StopEvent BY <1>5 DEF StopEvent
<1>6. CASE StopSystem
  <2>1. seen' # None /\ stop' = "issued"
    BY <1>6, ReportKnown, StatesKnown DEF StopSystem, StopUnits
  <2> QED BY <1>6, <2>1 DEF StopSystem
<1>7. CASE StopRejected BY <1>7 DEF StopRejected
<1>8. CASE Inspect
  <2>1. seen' # None BY <1>8, ReportKnown, StatesKnown DEF Inspect
  <2> QED BY <1>8, <2>1 DEF Inspect
<1>9. CASE Stop BY <1>9 DEF Stop
<1>10. CASE BenchmarkReturns BY <1>10 DEF BenchmarkReturns
<1> QED
  BY <1>1, <1>2, <1>3, <1>4, <1>5, <1>6, <1>7, <1>8, <1>9, <1>10
     DEF Reporting, Stopping, Calls

LEMMA PlaceWorld ==
  ASSUME TypeOK, PlaceInv,
         (\E u \in Units : UnitMoves(u)) \/ Crash \/ CrashWriting
  PROVE  PlaceInv'
<1> USE DEF PlaceInv, journal, world, execution, Ended, Early, Launched,
            Reported, Serving
<1>1. CASE \E u \in Units : UnitMoves(u) BY <1>1 DEF UnitMoves
<1>2. CASE Crash BY <1>2 DEF Crash
<1>3. CASE CrashWriting
  <2>1. pc \notin Ended BY <1>3 DEF CrashWriting, Appending
  <2> QED BY <1>3, <2>1 DEF CrashWriting
<1> QED BY <1>1, <1>2, <1>3

-----------------------------------------------------------------------------
(* What the journal gains.                                                 *)

OtherLine ==
    \/ UNCHANGED <<events, torn>> /\ DoubtsKept
    \/ \E kind \in EventKinds \ {"finished"} : Appended(kind, None)

\* Every step but a kill within a write keeps count of the lines.
Tallied == UNCHANGED <<events, nextSeq>> \/ Counted \/ pc' = "crashed"

LEMMA OtherJournals ==
  ASSUME TypeOK, NEW kind \in EventKinds \ {"finished"},
         Journal(kind, None) \/ JournalFails(kind, None)
  PROVE  OtherLine /\ Tallied
<1>1. Appended(kind, None) /\ Counted BY JournalAppends
<1> QED BY <1>1 DEF OtherLine, Tallied

LEMMA StatusWritten ==
  ASSUME NEW state, NEW known, WriteStatus(state, known), UNCHANGED journal
  PROVE  OtherLine /\ Tallied
  BY DEF WriteStatus, OtherLine, DoubtsKept, Tallied, journal

LEMMA LinesStart == ASSUME TypeOK, Start PROVE OtherLine /\ Tallied
<1> USE DEF journal, Tallied
<1>1. CASE \/ CreateSession \/ CaptureFails \/ MetricsFail \/ Prepare
           \/ \E f \in ProvenanceSet : Capture(f)
  BY <1>1 DEF CreateSession, CaptureFails, MetricsFail, Prepare, Capture,
              OtherLine, DoubtsKept
<1>2. CASE StatusCreated BY <1>2, StatusWritten DEF StatusCreated
<1>3. CASE EventPrepared
  BY <1>3, OtherJournals DEF EventPrepared, EventKinds
<1>4. CASE StatusPrepared BY <1>4, StatusWritten DEF StatusPrepared
<1>5. CASE StartupEvent \/ StartupEventFails
  BY <1>5, OtherJournals DEF StartupEvent, StartupEventFails, EventKinds
<1>6. CASE SystemStarts \/ SystemStartFails \/ StopUntracked
  BY <1>6 DEF SystemStarts, SystemStartFails, StopUntracked, OtherLine,
              DoubtsKept
<1>7. CASE EventStarted BY <1>7, OtherJournals DEF EventStarted, EventKinds
<1>8. CASE StatusRunning BY <1>8, StatusWritten DEF StatusRunning
<1>9. CASE EventError BY <1>9, OtherJournals DEF EventError, EventKinds
<1>10. CASE StatusFailed BY <1>10, StatusWritten DEF StatusFailed
<1> QED
  BY <1>1, <1>2, <1>3, <1>4, <1>5, <1>6, <1>7, <1>8, <1>9, <1>10 DEF Start

LEMMA LinesElsewhere ==
  ASSUME TypeOK, Next
  PROVE  ReportEvent \/ CrashWriting \/ (OtherLine /\ Tallied)
<1> USE DEF journal, Tallied
<1>1. CASE Start BY <1>1, LinesStart
<1>2. CASE ReportStatus BY <1>2, StatusWritten DEF ReportStatus
<1>3. CASE ReportRecord BY <1>3 DEF ReportRecord, OtherLine, DoubtsKept
<1>4. CASE StopStatus BY <1>4, StatusWritten DEF StopStatus
<1>5. CASE StopEvent BY <1>5, OtherJournals DEF StopEvent, EventKinds
<1>6. CASE StopSystem
  BY <1>6 DEF StopSystem, Doubt, OtherLine, DoubtsKept
<1>7. CASE StopRejected BY <1>7, OtherJournals DEF StopRejected, EventKinds
<1>8. CASE Inspect BY <1>8 DEF Inspect, Doubt, OtherLine, DoubtsKept
<1>9. CASE Stop \/ BenchmarkReturns
  BY <1>9 DEF Stop, BenchmarkReturns, OtherLine, DoubtsKept
<1>10. CASE (\E u \in Units : UnitMoves(u)) \/ Crash
  BY <1>10 DEF UnitMoves, Crash, OtherLine, DoubtsKept
<1> QED
  BY <1>1, <1>2, <1>3, <1>4, <1>5, <1>6, <1>7, <1>8, <1>9, <1>10
     DEF Next, Work, Reporting, Stopping, Calls

\* The lines that tell the end are the same after a line of another kind, as
\* long as they are not spoilt.
SameEnds ==
    \A i \in Nat : FinishedAt(i)' => FinishedAt(i) /\ events'[i] = events[i]

LEMMA OtherSameEnds == ASSUME TypeOK, OtherLine PROVE SameEnds
<1>1. CASE UNCHANGED events BY <1>1 DEF SameEnds, FinishedAt
<1>2. CASE \E kind \in EventKinds \ {"finished"} : Appended(kind, None)
  <2>1. PICK kind \in EventKinds \ {"finished"} : Appended(kind, None)
    BY <1>2
  <2> SUFFICES ASSUME NEW i \in Nat, FinishedAt(i)'
               PROVE  FinishedAt(i) /\ events'[i] = events[i]
    BY DEF SameEnds
  <2>2. i \in 1..Len(events') /\ events'[i].kind = "finished"
    BY DEF FinishedAt
  <2>3. i \in 1..Len(events) BY <2>1, <2>2 DEF Appended, LineAt
  <2>4. events'[i] = events[i] BY <2>1, <2>2, <2>3 DEF Appended
  <2> QED BY <2>2, <2>3, <2>4 DEF FinishedAt
<1> QED BY <1>1, <1>2 DEF OtherLine

LEMMA JournalledGrows ==
  ASSUME TypeOK, TypeOK', WholeInv, torn' = 0, OtherLine,
         NEW kind, Journalled(kind)
  PROVE  Journalled(kind)'
<1>1. CASE UNCHANGED events BY <1>1 DEF Journalled
<1>2. CASE \E k \in EventKinds \ {"finished"} : Appended(k, None)
  BY <1>2, JournalledStays
<1> QED BY <1>1, <1>2 DEF OtherLine

\* The end of the execution is told by a report, once its state is terminal.
TellsEnd == /\ seen \in TerminalStates /\ ~finished /\ pc = "report_event"
            /\ Appended("finished", seen)
            /\ \/ finished' = TRUE \/ "journal" \in doubts'
               \/ events' = events \/ pc' = "crashed"

LEMMA LinesReport ==
  ASSUME TypeOK, ReportEvent
  PROVE  /\ (OtherLine /\ UNCHANGED finished) \/ TellsEnd
         /\ Tallied
<1>1. CASE UNCHANGED <<journal, finished, doubts>>
  BY <1>1 DEF OtherLine, DoubtsKept, Tallied, journal
<1>2. CASE /\ seen \in TerminalStates /\ ~finished
           /\ \/ Journal("finished", seen) /\ finished' = TRUE
              \/ JournalFails("finished", seen) /\ finished' = finished
  <2>1. Appended("finished", seen) /\ Counted
    BY <1>2, StatesKnown, JournalAppends DEF EventKinds
  <2> QED BY <1>2, <2>1 DEF TellsEnd, ReportEvent, JournalFails, Tallied
<1> QED BY <1>1, <1>2 DEF ReportEvent

LEMMA LinesCrash ==
  ASSUME TypeOK, CrashWriting PROVE (OtherLine \/ TellsEnd) /\ pc' = "crashed"
<1>1. PICK kind \in EventKinds :
         /\ <<pc, kind>> \in Appending
         /\ kind = "finished" => seen \in TerminalStates /\ ~finished
         /\ Appended(kind, IF kind = "finished" THEN seen ELSE None)
  BY CrashWrites
<1>2. pc' = "crashed" BY DEF CrashWriting
<1>3. CASE kind = "finished"
  <2>1. pc = "report_event" BY <1>1, <1>3 DEF Appending
  <2> QED BY <1>1, <1>2, <1>3, <2>1 DEF TellsEnd
<1>4. CASE kind # "finished" BY <1>1, <1>2, <1>4 DEF OtherLine
<1> QED BY <1>3, <1>4

-----------------------------------------------------------------------------
(* Nothing is told of an end before calls are served.                      *)

LEMMA QuietKept ==
  ASSUME TypeOK, PlaceInv, QuietInv, Next PROVE QuietInv'
<1> USE DEF QuietInv, journal, world, execution, Ended, Early, Launched,
            Reported, Serving
<1> DEFINE Told == \E i \in Nat : FinishedAt(i)
<1>1. CASE Start
  <2>1. pc \in Early \cup Launched
    BY <1>1 DEF Start, CreateSession, StatusCreated, Capture, CaptureFails,
                MetricsFail, Prepare, EventPrepared, StatusPrepared,
                StartupEvent, StartupEventFails, SystemStarts, SystemStartFails,
                EventStarted, StopUntracked, StatusRunning, EventError,
                StatusFailed
  <2>2. final = None /\ seen = None /\ ~finished /\ ~Told BY <2>1
  <2>3. UNCHANGED <<final, seen, finished>>
    BY <1>1 DEF Start, CreateSession, StatusCreated, Capture, CaptureFails,
                MetricsFail, Prepare, EventPrepared, StatusPrepared,
                StartupEvent, StartupEventFails, SystemStarts, SystemStartFails,
                EventStarted, StopUntracked, StatusRunning, EventError,
                StatusFailed
  <2>4. ~Told' BY <1>1, <2>2, LinesStart, OtherSameEnds DEF SameEnds
  <2> QED BY <2>2, <2>3, <2>4
<1>2. CASE Reporting \/ Stopping \/ Inspect \/ Stop
  <2>1. pc \in Serving /\ pc' \in Serving /\ UNCHANGED handle
    BY <1>2 DEF Reporting, Stopping, ReportStatus, ReportEvent, ReportRecord,
                StopStatus, StopEvent, StopSystem, StopRejected, Inspect, Stop
  <2> QED BY <2>1 DEF PlaceInv
<1>3. CASE BenchmarkReturns
  BY <1>3 DEF BenchmarkReturns, PlaceInv
<1>4. CASE \E u \in Units : UnitMoves(u)
  BY <1>4 DEF UnitMoves, FinishedAt
<1>5. CASE Crash
  BY <1>5 DEF Crash, FinishedAt
<1>6. CASE CrashWriting
  <2>1. UNCHANGED <<final, handle>> /\ seen' = None /\ finished' = FALSE
        /\ pc' = "crashed"
    BY <1>6 DEF CrashWriting
  <2>2. CASE OtherLine
    <3>1. Told' => Told BY <2>2, OtherSameEnds DEF SameEnds
    <3> QED BY <2>1, <3>1
  <2>3. CASE TellsEnd
    <3>1. handle BY <2>3 DEF TellsEnd, PlaceInv
    <3> QED BY <2>1, <3>1
  <2> QED BY <1>6, <2>2, <2>3, LinesCrash
<1> QED BY <1>1, <1>2, <1>3, <1>4, <1>5, <1>6 DEF Next, Work, Calls

-----------------------------------------------------------------------------
(* What is on disk at each place.                                          *)

LEMMA LinesCome ==
  ASSUME TypeOK, Next
  PROVE  (OtherLine \/ TellsEnd) /\ (Tallied \/ pc' = "crashed")
  BY LinesElsewhere, LinesReport, LinesCrash

LEMMA TornStays == ASSUME TypeOK, TypeOK', Next, torn' = 0 PROVE torn = 0
<1>1. torn' >= torn /\ torn \in Nat
  <2>1. torn \in Nat BY CallsAssumption DEF TypeOK, JournalOK
  <2>2. CASE torn' = torn BY <2>1, <2>2
  <2>3. CASE \E kind, state : Appended(kind, state) BY <2>1, <2>3 DEF Appended
  <2> QED BY <2>2, <2>3, LinesCome DEF OtherLine, TellsEnd
<1> QED BY <1>1

LEMMA JournalledNext ==
  ASSUME TypeOK, TypeOK', WholeInv, Next, torn' = 0, NEW kind, Journalled(kind)
  PROVE  Journalled(kind)'
<1>1. CASE OtherLine BY <1>1, JournalledGrows
<1>2. CASE TellsEnd BY <1>2, JournalledStays DEF TellsEnd
<1> QED BY <1>1, <1>2, LinesCome

\* As long as no write was partial, every line is whole.
LEMMA WholeKept == ASSUME TypeOK, TypeOK', WholeInv, Next PROVE WholeInv'
<1> SUFFICES ASSUME torn' = 0, NEW i \in 1..Len(events')
             PROVE  events'[i].ended /\ events'[i].kind # "invalid"
  BY DEF WholeInv
<1>1. torn = 0 BY TornStays
<1>2. CASE UNCHANGED events BY <1>1, <1>2 DEF WholeInv
<1>3. CASE \E kind, state : Appended(kind, state)
  <2>1. PICK kind, state : Appended(kind, state) BY <1>3
  <2>2. CASE i \in 1..Len(events)
    <3>1. events'[i] = events[i] BY <1>1, <2>1, <2>2 DEF Appended, WholeInv
    <3> QED BY <1>1, <2>2, <3>1 DEF WholeInv
  <2>3. CASE i \notin 1..Len(events) BY <2>1, <2>3 DEF Appended
  <2> QED BY <2>2, <2>3
<1> QED BY <1>2, <1>3, LinesCome DEF OtherLine, TellsEnd

LEMMA EvidenceKept ==
  ASSUME TypeOK, TypeOK', PlaceInv, EvidenceInv, WholeInv, Next
  PROVE  EvidenceInv'
<1> USE DEF EvidenceInv, EvidenceFirst, journal, world, execution, Ended,
            Early, Launched, Reported, Serving
<1>1. torn' = 0 =>
        /\ torn = 0
        /\ Journalled("prepared") => Journalled("prepared")'
        /\ Journalled("started") => Journalled("started")'
  BY TornStays, JournalledNext
<1>2. CASE CreateSession BY <1>1, <1>2 DEF CreateSession, PlaceInv
<1>3. CASE StatusCreated BY <1>1, <1>3 DEF StatusCreated, PlaceInv
<1>4. CASE \E f \in ProvenanceSet : Capture(f)
  BY <1>1, <1>4 DEF Capture, PlaceInv
<1>5. CASE CaptureFails \/ MetricsFail
  BY <1>1, <1>5 DEF CaptureFails, MetricsFail, PlaceInv
<1>6. CASE Prepare BY <1>1, <1>6 DEF Prepare, PlaceInv
<1>7. CASE EventPrepared
  BY <1>1, <1>7, JournalJournals DEF EventPrepared, PlaceInv
<1>8. CASE StatusPrepared BY <1>1, <1>8 DEF StatusPrepared, PlaceInv
<1>9. CASE StartupEvent \/ StartupEventFails
  BY <1>1, <1>9 DEF StartupEvent, StartupEventFails, PlaceInv
<1>10. CASE SystemStarts \/ SystemStartFails
  BY <1>1, <1>10 DEF SystemStarts, SystemStartFails, PlaceInv
<1>11. CASE EventStarted
  BY <1>1, <1>11, JournalJournals DEF EventStarted
<1>12. CASE StopUntracked BY <1>1, <1>12 DEF StopUntracked
<1>13. CASE StatusRunning BY <1>1, <1>13 DEF StatusRunning
<1>14. CASE EventError BY <1>1, <1>14 DEF EventError, PlaceInv
<1>15. CASE StatusFailed BY <1>1, <1>15 DEF StatusFailed, PlaceInv
<1>16. CASE ReportStatus BY <1>1, <1>16 DEF ReportStatus
<1>17. CASE ReportEvent BY <1>1, <1>17 DEF ReportEvent
<1>18. CASE ReportRecord BY <1>1, <1>18 DEF ReportRecord
<1>19. CASE StopStatus BY <1>1, <1>19 DEF StopStatus
<1>20. CASE StopEvent BY <1>1, <1>20 DEF StopEvent
<1>21. CASE StopSystem BY <1>1, <1>21 DEF StopSystem
<1>22. CASE StopRejected BY <1>1, <1>22 DEF StopRejected
<1>23. CASE Calls
  BY <1>1, <1>23 DEF Calls, Inspect, Stop, BenchmarkReturns
<1>24. CASE \E u \in Units : UnitMoves(u)
  BY <1>1, <1>24 DEF UnitMoves
<1>25. CASE Crash \/ CrashWriting BY <1>1, <1>25 DEF Crash, CrashWriting
<1> QED
  BY <1>2, <1>3, <1>4, <1>5, <1>6, <1>7, <1>8, <1>9, <1>10, <1>11, <1>12,
     <1>13, <1>14, <1>15, <1>16, <1>17, <1>18, <1>19, <1>20, <1>21, <1>22,
     <1>23, <1>24, <1>25 DEF Next, Work, Start, Reporting, Stopping

-----------------------------------------------------------------------------
(* What a start that gave no handle leaves.                                *)

\* The steps of an owner that has no handle.
Unheld ==
    \/ UNCHANGED <<events, unit>> /\ DoubtsKept
    \/ /\ UNCHANGED unit
       /\ \E kind \in {"prepared", "startup", "error"} : Appended(kind, None)
    \/ SystemStartFails
    \/ \E u \in Units : UnitMoves(u)

LEMMA UnheldSteps == ASSUME TypeOK, PlaceInv, Next, ~handle' PROVE Unheld
<1> USE DEF journal, world, execution
<1>1. CASE StatusCreated \/ StatusPrepared \/ StatusFailed
  BY <1>1 DEF StatusCreated, StatusPrepared, StatusFailed, WriteStatus, Unheld,
              DoubtsKept
<1>2. CASE \/ CreateSession \/ CaptureFails \/ MetricsFail \/ Prepare \/ Crash
           \/ \E f \in ProvenanceSet : Capture(f)
  BY <1>2 DEF CreateSession, CaptureFails, MetricsFail, Prepare, Crash, Capture,
              Unheld, DoubtsKept
<1>3. CASE EventPrepared
  <2>1. Appended("prepared", None)
    BY <1>3, JournalAppends DEF EventPrepared, EventKinds
  <2> QED BY <1>3, <2>1 DEF EventPrepared, Unheld
<1>4. CASE StartupEvent \/ StartupEventFails
  <2>1. Appended("startup", None)
    BY <1>4, JournalAppends DEF StartupEvent, StartupEventFails, EventKinds
  <2> QED BY <1>4, <2>1 DEF StartupEvent, StartupEventFails, Unheld
<1>5. CASE EventError
  <2>1. Appended("error", None)
    BY <1>5, JournalAppends DEF EventError, EventKinds
  <2> QED BY <1>5, <2>1 DEF EventError, Unheld
<1>6. CASE SystemStarts BY <1>6 DEF SystemStarts
<1>7. CASE SystemStartFails \/ (\E u \in Units : UnitMoves(u))
  BY <1>7 DEF Unheld
<1>8. CASE CrashWriting
  <2>1. PICK kind \in EventKinds :
            /\ <<pc, kind>> \in Appending
            /\ Appended(kind, IF kind = "finished" THEN seen ELSE None)
    BY <1>8, CrashWrites
  <2>2. ~handle /\ UNCHANGED unit BY <1>8 DEF CrashWriting
  <2>3. kind \in {"prepared", "startup", "error"}
    BY <2>1, <2>2 DEF Appending, PlaceInv, Launched, Serving, Reported
  <2> QED BY <2>1, <2>2, <2>3 DEF Unheld
<1>9. CASE EventStarted \/ StopUntracked \/ StatusRunning
  BY <1>9 DEF EventStarted, StopUntracked, StatusRunning, PlaceInv, Launched
<1>10. CASE Reporting \/ Stopping \/ Calls
  <2>1. pc \in Serving /\ UNCHANGED handle
    BY <1>10 DEF Reporting, ReportStatus, ReportEvent, ReportRecord,
                 Stopping, StopStatus, StopEvent, StopSystem, StopRejected,
                 Calls, Inspect, Stop, BenchmarkReturns, Serving, Reported
  <2> QED BY <2>1 DEF PlaceInv
<1> QED
  BY <1>1, <1>2, <1>3, <1>4, <1>5, <1>6, <1>7, <1>8, <1>9, <1>10
     DEF Next, Work, Start

LEMMA NoHandleKept ==
  ASSUME TypeOK, PlaceInv, NoHandleInv, Next PROVE NoHandleInv'
<1> SUFFICES ASSUME ~handle'
             PROVE  /\ ~Journalled("started")'
                    /\ Live' => "leftover" \in doubts'
  BY DEF NoHandleInv
<1>1. Unheld BY UnheldSteps
<1>2. ~handle
  <2>1. ~handle \/ UNCHANGED handle
    BY DEF Next, Work, Start, CreateSession, StatusCreated, Capture,
           CaptureFails, MetricsFail, Prepare, EventPrepared, StatusPrepared,
           StartupEvent, StartupEventFails, SystemStarts, SystemStartFails,
           EventStarted, StopUntracked, StatusRunning, EventError,
           StatusFailed, Reporting, ReportStatus, ReportEvent, ReportRecord,
           Stopping, StopStatus, StopEvent, StopSystem, StopRejected,
           Calls, Inspect, Stop, BenchmarkReturns, UnitMoves, Crash,
           CrashWriting, execution
  <2> QED BY <2>1
<1>3. ~Journalled("started") /\ (Live => "leftover" \in doubts)
  BY <1>2 DEF NoHandleInv
<1>4. CASE UNCHANGED <<events, unit>> /\ DoubtsKept
  BY <1>3, <1>4 DEF Journalled, Live, DoubtsKept
<1>5. CASE /\ UNCHANGED unit
           /\ \E kind \in {"prepared", "startup", "error"} : Appended(kind, None)
  <2>1. ~Journalled("started")' BY <1>3, <1>5, JournalledNew
  <2>2. DoubtsKept BY <1>5 DEF Appended
  <2> QED BY <1>3, <1>5, <2>1, <2>2 DEF Live, DoubtsKept
<1>6. CASE SystemStartFails
  BY <1>3, <1>6 DEF SystemStartFails, Leftover, Live, Journalled, journal
<1>7. CASE \E u \in Units : UnitMoves(u)
  <2>1. Live' => Live
    BY <1>7 DEF UnitMoves, Live, Executing, TypeOK
  <2> QED BY <1>3, <1>7, <2>1 DEF UnitMoves, Journalled, journal
<1> QED BY <1>1, <1>4, <1>5, <1>6, <1>7 DEF Unheld

-----------------------------------------------------------------------------
(* The sequence numbers count the lines, and the execution ends once.      *)

\* Nothing makes an illegible journal legible again.
LEMMA LegibleBefore ==
  ASSUME NEW kind, NEW state, Appended(kind, state), Legible(events')
  PROVE  /\ Legible(events)
         /\ \A i \in 1..Len(events) : i \in 1..Len(events') /\ events'[i] = events[i]
<1>1. \A i \in 1..Len(events) : i \in 1..Len(events') /\ events'[i] = events[i]
  BY DEF Appended, Legible
<1> QED BY <1>1 DEF Legible

LEMMA Numbered ==
  ASSUME TypeOK, TypeOK', "journal" \notin doubts', LinesInv, pc # "crashed",
         "journal" \notin doubts, NEW kind, NEW state, Appended(kind, state),
         Counted \/ pc' = "crashed", Legible(events')
  PROVE  /\ nextSeq' = Len(events') + 1 \/ pc' = "crashed"
         /\ \A i \in 1..Len(events') : events'[i].seq = i
<1>1. /\ Len(events) \in Nat /\ nextSeq \in Nat
      /\ Len(events') \in Nat /\ nextSeq' \in Nat
  BY DEF TypeOK, JournalOK
<1>2. /\ Legible(events)
      /\ \A i \in 1..Len(events) : i \in 1..Len(events') /\ events'[i] = events[i]
  BY LegibleBefore
<1>3. nextSeq = Len(events) + 1 /\ \A i \in 1..Len(events) : events[i].seq = i
  BY <1>2 DEF LinesInv
<1>4. nextSeq' = Len(events') + 1 \/ pc' = "crashed"
  BY <1>1, <1>3 DEF Counted
<1>5. \A i \in 1..Len(events') : events'[i].seq = i
  <2> SUFFICES ASSUME NEW i \in 1..Len(events') PROVE events'[i].seq = i
    OBVIOUS
  <2>1. CASE i \in 1..Len(events) BY <1>2, <1>3, <2>1
  <2>2. CASE i \notin 1..Len(events)
    <3>1. i = Len(events) + 1 /\ LineAt(i, kind, state)
      BY <2>2 DEF Appended
    <3>2. events'[i].kind # "invalid" BY DEF Legible
    <3> QED BY <1>3, <3>1, <3>2 DEF LineAt
  <2> QED BY <2>1, <2>2
<1> QED BY <1>4, <1>5

\* Nothing is forgotten of the end, except in a crash.
LEMMA EndRemembered ==
  ASSUME Next, ~ReportEvent
  PROVE  /\ pc # "crashed"
         /\ finished => finished' \/ pc' = "crashed"
<1> USE DEF Ended, world, execution
<1>1. CASE Start
  <2>1. pc # "crashed" /\ UNCHANGED finished
    BY <1>1 DEF Start, CreateSession, StatusCreated, Capture, CaptureFails,
                MetricsFail, Prepare, EventPrepared, StatusPrepared,
                StartupEvent, StartupEventFails, SystemStarts, SystemStartFails,
                EventStarted, StopUntracked, StatusRunning, EventError,
                StatusFailed
  <2> QED BY <2>1
<1>2. CASE ReportStatus \/ ReportRecord
  <2>1. pc # "crashed" /\ UNCHANGED finished
    BY <1>2 DEF ReportStatus, ReportRecord
  <2> QED BY <2>1
<1>3. CASE Stopping
  <2>1. pc # "crashed" /\ UNCHANGED finished
    BY <1>3 DEF Stopping, StopStatus, StopEvent, StopSystem, StopRejected
  <2> QED BY <2>1
<1>4. CASE Calls
  BY <1>4 DEF Calls, Inspect, Stop, BenchmarkReturns
<1>5. CASE (\E u \in Units : UnitMoves(u)) \/ Crash \/ CrashWriting
  BY <1>5 DEF UnitMoves, Crash, CrashWriting, Appending
<1> QED BY <1>1, <1>2, <1>3, <1>4, <1>5 DEF Next, Work, Reporting

LEMMA LinesOther ==
  ASSUME TypeOK, TypeOK', LinesInv, OtherLine, Tallied \/ pc' = "crashed",
         finished => finished' \/ pc' = "crashed", pc # "crashed"
  PROVE  LinesInv'
<1> SUFFICES ASSUME "journal" \notin doubts' PROVE LinesInv' BY DEF LinesInv
<1>1. "journal" \notin doubts BY DEF OtherLine, Appended, DoubtsKept
<1>2. ASSUME Legible(events')
      PROVE  /\ nextSeq' = Len(events') + 1 \/ pc' = "crashed"
             /\ \A i \in 1..Len(events') : events'[i].seq = i
  <2>1. CASE UNCHANGED events
    <3>1. nextSeq = Len(events) + 1 /\ \A i \in 1..Len(events) : events[i].seq = i
      BY <1>1, <1>2, <2>1 DEF LinesInv
    <3>2. /\ nextSeq \in Nat /\ nextSeq' \in Nat /\ Len(events) \in Nat
      BY DEF TypeOK, JournalOK
    <3>3. nextSeq' = nextSeq \/ pc' = "crashed"
      <4>1. CASE Counted
        <5>1. nextSeq' = nextSeq + (Len(events') - Len(events))
          BY <1>2, <4>1 DEF Counted
        <5>2. Len(events') = Len(events) BY <2>1
        <5>3. Len(events') - Len(events) = 0 BY <3>2, <5>2
        <5>4. nextSeq' = nextSeq BY <3>2, <5>1, <5>3
        <5> QED BY <5>4
      <4> QED BY <4>1 DEF Tallied
    <3> QED BY <2>1, <3>1, <3>3
  <2>2. CASE \E kind \in EventKinds \ {"finished"} : Appended(kind, None)
    <3>1. PICK kind \in EventKinds \ {"finished"} : Appended(kind, None)
      BY <2>2
    <3>2. CASE Counted \/ pc' = "crashed"
      BY <1>1, <1>2, <3>1, <3>2, Numbered
    <3>3. CASE UNCHANGED <<events, nextSeq>>
      BY <1>1, <1>2, <3>3 DEF LinesInv
    <3> QED BY <3>2, <3>3 DEF Tallied
  <2> QED BY <2>1, <2>2 DEF OtherLine
<1>3. SameEnds BY OtherSameEnds
<1>4. \A i, j \in Nat : FinishedAt(i)' /\ FinishedAt(j)' => i = j
  BY <1>1, <1>3 DEF SameEnds, LinesInv
<1>5. (\E i \in Nat : FinishedAt(i)') => finished' \/ pc' = "crashed"
  BY <1>1, <1>3 DEF SameEnds, LinesInv
<1> QED BY <1>2, <1>4, <1>5 DEF LinesInv

LEMMA LinesEnd ==
  ASSUME TypeOK, TypeOK', LinesInv, TellsEnd, Tallied \/ pc' = "crashed"
  PROVE  LinesInv'
<1> SUFFICES ASSUME "journal" \notin doubts' PROVE LinesInv' BY DEF LinesInv
<1>1. "journal" \notin doubts BY DEF TellsEnd, Appended, DoubtsKept
<1>2. ASSUME Legible(events')
      PROVE  /\ nextSeq' = Len(events') + 1 \/ pc' = "crashed"
             /\ \A i \in 1..Len(events') : events'[i].seq = i
  <2>1. CASE Counted \/ pc' = "crashed"
    BY <1>1, <1>2, <2>1, Numbered DEF TellsEnd
  <2>2. CASE UNCHANGED <<events, nextSeq>>
    BY <1>1, <1>2, <2>2 DEF LinesInv, TellsEnd
  <2> QED BY <2>1, <2>2 DEF Tallied
<1>3. \A i \in Nat : ~FinishedAt(i)
  BY <1>1 DEF TellsEnd, LinesInv
<1>4. \A i \in Nat : FinishedAt(i)' => i = Len(events) + 1
  <2> SUFFICES ASSUME NEW i \in Nat, FinishedAt(i)' PROVE i = Len(events) + 1
    OBVIOUS
  <2>1. i \in 1..Len(events') /\ events'[i].kind = "finished"
    BY DEF FinishedAt
  <2>2. CASE i \in 1..Len(events)
    <3>1. events'[i] = events[i] BY <2>1, <2>2 DEF TellsEnd, Appended
    <3> QED BY <1>3, <2>1, <2>2, <3>1 DEF FinishedAt
  <2>3. CASE i \notin 1..Len(events) BY <2>1, <2>3 DEF TellsEnd, Appended
  <2> QED BY <2>2, <2>3
<1>5. \A i, j \in Nat : FinishedAt(i)' /\ FinishedAt(j)' => i = j
  BY <1>4
<1>6. (\E i \in Nat : FinishedAt(i)') => finished' \/ pc' = "crashed"
  BY <1>3 DEF TellsEnd, FinishedAt
<1> QED BY <1>2, <1>5, <1>6 DEF LinesInv

LEMMA LinesKept ==
  ASSUME TypeOK, TypeOK', LinesInv, Next PROVE LinesInv'
<1>1. Tallied \/ pc' = "crashed" BY LinesCome
<1>2. CASE TellsEnd BY <1>1, <1>2, LinesEnd
<1>3. CASE ~ReportEvent /\ OtherLine
  BY <1>1, <1>3, EndRemembered, LinesOther
<1>4. CASE ReportEvent /\ OtherLine /\ UNCHANGED finished
  <2>1. pc # "crashed" BY <1>4 DEF ReportEvent
  <2>2. finished => finished' \/ pc' = "crashed" BY <1>4
  <2> QED BY <1>1, <1>4, <2>1, <2>2, LinesOther
<1> QED BY <1>2, <1>3, <1>4, LinesCome, LinesReport

-----------------------------------------------------------------------------
(* What was told of the end of the execution is how the units ended.       *)

LEMMA StopsKeepEnds ==
  ASSUME NEW reported, StopUnits(reported)
  PROVE  EndsKept /\ Observes(reported, unit')
<1> SUFFICES ASSUME NEW u \in Units
             PROVE  /\ unit[u] \in TerminalStates => unit'[u] = unit[u]
                    /\ reported[u] = unit'[u] \/ reported[u] = "failed"
  BY DEF EndsKept, Observes
<1>1. <<unit'[u], reported[u]>> \in StopOutcomes(u) BY DEF StopUnits
<1>2. CASE unit[u] \in Executing
  <2>1. unit[u] \notin TerminalStates
    BY <1>2 DEF Executing, TerminalStates
  <2> QED BY <1>1, <1>2, <2>1 DEF StopOutcomes
<1>3. CASE unit[u] \notin Executing
  BY <1>1, <1>3 DEF StopOutcomes
<1> QED BY <1>2, <1>3

LEMMA UnitsLast == ASSUME TypeOK, PlaceInv, Next, handle PROVE EndsKept
<1> USE DEF world
<1>1. CASE Start
  <2>1. pc \notin Early BY DEF PlaceInv
  <2>2. EventStarted \/ StopUntracked \/ StatusRunning
    BY <1>1, <2>1
       DEF Start, CreateSession, StatusCreated, Capture, CaptureFails,
           MetricsFail, Prepare, EventPrepared, StatusPrepared, StartupEvent,
           StartupEventFails, SystemStarts, SystemStartFails, EventError, StatusFailed, Early
  <2> QED
    BY <2>2, StopsKeepEnds DEF EventStarted, StopUntracked, StatusRunning,
                               EndsKept
<1>2. CASE Reporting
  BY <1>2 DEF Reporting, ReportStatus, ReportEvent, ReportRecord, EndsKept
<1>3. CASE StopStatus \/ StopEvent \/ StopRejected
  BY <1>3 DEF StopStatus, StopEvent, StopRejected, EndsKept
<1>4. CASE StopSystem BY <1>4, StopsKeepEnds DEF StopSystem
<1>5. CASE Calls BY <1>5 DEF Calls, Inspect, Stop, BenchmarkReturns, EndsKept
<1>6. CASE \E u \in Units : UnitMoves(u)
  BY <1>6 DEF UnitMoves, TypeOK, EndsKept, TerminalStates
<1>7. CASE Crash \/ CrashWriting
  BY <1>7 DEF Crash, CrashWriting, EndsKept
<1> QED
  BY <1>1, <1>2, <1>3, <1>4, <1>5, <1>6, <1>7 DEF Next, Work, Stopping

LEMMA HandleComes ==
  ASSUME PlaceInv, Next, ~handle PROVE ~handle' \/ pc' = "event_started"
<1> USE DEF execution
<1>1. CASE Start
  BY <1>1 DEF Start, CreateSession, StatusCreated, Capture, CaptureFails,
              MetricsFail, Prepare, EventPrepared, StatusPrepared,
              StartupEvent, StartupEventFails, SystemStarts, SystemStartFails,
              EventStarted, StopUntracked, StatusRunning, EventError,
                StatusFailed
<1>2. CASE Reporting
  BY <1>2 DEF Reporting, ReportStatus, ReportEvent, ReportRecord
<1>3. CASE Stopping
  BY <1>3 DEF Stopping, StopStatus, StopEvent, StopSystem, StopRejected
<1>4. CASE Calls BY <1>4 DEF Calls, Inspect, Stop, BenchmarkReturns
<1>5. CASE (\E u \in Units : UnitMoves(u)) \/ Crash \/ CrashWriting
  BY <1>5 DEF UnitMoves, Crash, CrashWriting
<1> QED BY <1>1, <1>2, <1>3, <1>4, <1>5 DEF Next, Work

\* Reports made while nothing was told are told of nothing.
LEMMA TruthBefore ==
  ASSUME PlaceInv, Next, ~handle, QuietInv' PROVE TruthInv'
<1>1. pc' \in Serving \cup {"released", "crashed"} => ~handle'
  BY HandleComes DEF Serving, Reported
<1>2. final' = None /\ ~(\E i \in Nat : FinishedAt(i)') /\ seen' = None
  BY <1>1 DEF QuietInv
<1>3. seen' \notin TerminalStates BY <1>2, StatesKnown
<1> QED BY <1>2, <1>3 DEF TruthInv

\* Where the report under way comes from, and what a step does to the record.
LEMMA ReportComes ==
  ASSUME TypeOK, Next, handle, "observation" \notin doubts', pc' \in Reported
  PROVE  seen' = Report(unit)' \/ (pc \in Reported /\ seen' = seen)
<1> USE DEF world, execution, Reported
<1>1. CASE Start
  BY <1>1 DEF Start, CreateSession, StatusCreated, Capture, CaptureFails,
              MetricsFail, Prepare, EventPrepared, StatusPrepared,
              StartupEvent, StartupEventFails, SystemStarts, SystemStartFails,
              EventStarted, StopUntracked, StatusRunning, EventError,
                StatusFailed
<1>2. CASE Reporting
  BY <1>2 DEF Reporting, ReportStatus, ReportEvent, ReportRecord
<1>3. CASE StopStatus \/ StopEvent \/ StopRejected
  BY <1>3 DEF StopStatus, StopEvent, StopRejected
<1>4. CASE StopSystem
  <2>1. PICK reported : /\ StopUnits(reported)
                        /\ seen' = Report(reported)
                        /\ doubts' = Doubt(Report(reported))
    BY <1>4 DEF StopSystem
  <2>2. Report(reported) # "failed" \/ \E u \in Units : unit'[u] = "failed"
    BY <2>1 DEF Doubt
  <2>3. Report(reported) = Report(unit')
    BY <2>1, <2>2, StopsKeepEnds, ReportTrue
  <2> QED BY <2>1, <2>3 DEF Report
<1>5. CASE Inspect
  <2>1. PICK shown \in Observations : /\ seen' = Report(shown)
                                      /\ doubts' = Doubt(Report(shown))
    BY <1>5 DEF Inspect
  <2>2. Observes(shown, unit) BY <2>1 DEF Observations, Observes
  <2>3. unit' = unit BY <1>5 DEF Inspect
  <2>4. Report(shown) # "failed" \/ \E u \in Units : unit[u] = "failed"
    BY <2>1, <2>3 DEF Doubt
  <2>5. Report(shown) = Report(unit) BY <2>2, <2>4, ReportTrue
  <2> QED BY <2>1, <2>3, <2>5 DEF Report
<1>6. CASE Stop \/ BenchmarkReturns BY <1>6 DEF Stop, BenchmarkReturns
<1>7. CASE (\E u \in Units : UnitMoves(u)) \/ Crash \/ CrashWriting
  BY <1>7 DEF UnitMoves, Crash, CrashWriting
<1> QED
  BY <1>1, <1>2, <1>3, <1>4, <1>5, <1>6, <1>7 DEF Next, Work, Stopping, Calls

LEMMA RecordComes ==
  ASSUME Next
  PROVE  \/ final' = final
         \/ /\ pc = "report_record" /\ seen \in TerminalStates
            /\ final' = seen /\ UNCHANGED <<unit, status, doubts>>
            /\ pc' = "idle"
<1> USE DEF world
<1>1. CASE Start
  BY <1>1 DEF Start, CreateSession, StatusCreated, Capture, CaptureFails,
              MetricsFail, Prepare, EventPrepared, StatusPrepared,
              StartupEvent, StartupEventFails, SystemStarts, SystemStartFails,
              EventStarted, StopUntracked, StatusRunning, EventError,
                StatusFailed
<1>2. CASE Reporting
  BY <1>2 DEF Reporting, ReportStatus, ReportEvent, ReportRecord
<1>3. CASE Stopping
  BY <1>3 DEF Stopping, StopStatus, StopEvent, StopSystem, StopRejected
<1>4. CASE Calls BY <1>4 DEF Calls, Inspect, Stop, BenchmarkReturns
<1>5. CASE (\E u \in Units : UnitMoves(u)) \/ Crash \/ CrashWriting
  BY <1>5 DEF UnitMoves, Crash, CrashWriting
<1> QED BY <1>1, <1>2, <1>3, <1>4, <1>5 DEF Next, Work

LEMMA EndComes ==
  ASSUME TypeOK, Next, TruthInv, "observation" \notin doubts,
         NEW i \in Nat, FinishedAt(i)'
  PROVE  \/ FinishedAt(i) /\ events'[i].state = events[i].state
         \/ /\ events'[i].state = seen /\ UNCHANGED unit
            /\ pc = "report_event" /\ seen \in TerminalStates
<1>1. CASE OtherLine BY <1>1, OtherSameEnds DEF SameEnds
<1>2. CASE (ReportEvent \/ CrashWriting) /\ TellsEnd
  <2>1. UNCHANGED unit BY <1>2 DEF ReportEvent, CrashWriting, world
  <2>2. i \in 1..Len(events') /\ events'[i].kind = "finished"
    BY DEF FinishedAt
  <2>3. \/ i \in 1..Len(events) /\ events'[i] = events[i]
        \/ events'[i].state = seen
    BY <1>2, <2>2 DEF TellsEnd, Appended, LineAt
  <2> QED BY <1>2, <2>1, <2>2, <2>3 DEF TellsEnd, FinishedAt
<1> QED BY <1>1, <1>2, LinesElsewhere, LinesReport, LinesCrash

LEMMA DoubtsLast == ASSUME TypeOK, Next PROVE DoubtsKept
  BY LinesCome DEF OtherLine, TellsEnd, Appended

LEMMA TruthKept ==
  ASSUME TypeOK, PlaceInv, QuietInv', TruthInv, Next PROVE TruthInv'
<1>1. CASE ~handle BY <1>1, TruthBefore
<1>2. CASE handle /\ "observation" \notin doubts'
  <2> DEFINE R == Report(unit)
  <2>1. "observation" \notin doubts BY <1>2, DoubtsLast DEF DoubtsKept
  <2>2. R \in TerminalStates => R' = R BY <1>2, UnitsLast, ReportLasts
  <2>3. pc \in Reported /\ seen \in TerminalStates => seen = R
    BY <2>1 DEF TruthInv
  <2>4. final # None => final = R /\ R \in TerminalStates
    BY <2>1 DEF TruthInv, TypeOK
  <2>5. \A i \in Nat : FinishedAt(i)' =>
            events'[i].state = R' /\ R' \in TerminalStates
    <3> SUFFICES ASSUME NEW i \in Nat, FinishedAt(i)'
                 PROVE  events'[i].state = R' /\ R' \in TerminalStates
      OBVIOUS
    <3>1. CASE FinishedAt(i) /\ events'[i].state = events[i].state
      BY <2>1, <2>2, <3>1 DEF TruthInv
    <3>2. CASE /\ events'[i].state = seen
               /\ pc = "report_event" /\ seen \in TerminalStates
      BY <2>2, <2>3, <3>2 DEF Reported
    <3> QED BY <2>1, <3>1, <3>2, EndComes
  <2>6. final' # None => final' = R'
    <3>1. CASE final' = final BY <2>2, <2>4, <3>1
    <3>2. CASE /\ pc = "report_record" /\ seen \in TerminalStates
               /\ final' = seen
      BY <2>2, <2>3, <3>2 DEF Reported
    <3> QED BY <3>1, <3>2, RecordComes
  <2>7. pc' \in Reported /\ (seen' \in TerminalStates \/ final' # None)
            => seen' = R'
    <3> SUFFICES ASSUME pc' \in Reported,
                        seen' \in TerminalStates \/ final' # None,
                        pc \in Reported /\ seen' = seen
                 PROVE  seen' = R'
      BY <1>2, ReportComes
    <3>1. final' = final BY RecordComes DEF Reported
    <3>2. seen = R /\ R \in TerminalStates
      BY <2>1, <2>4, <3>1 DEF TruthInv
    <3> QED BY <2>2, <3>2
  <2> QED BY <2>5, <2>6, <2>7 DEF TruthInv
<1>3. CASE "observation" \in doubts' BY <1>3 DEF TruthInv
<1> QED BY <1>1, <1>2, <1>3

-----------------------------------------------------------------------------
(* status.json says what was reported last, unless its write was lost.     *)

\* What a step does to status.json: it is left alone, or somebody writes it.
StatusComes ==
    \/ UNCHANGED status /\ ("status" \in doubts => "status" \in doubts')
    \/ pc \in Early \cup Launched
    \/ "status" \in doubts'
    \/ /\ pc = "report_status" /\ UNCHANGED <<seen, final>>
       /\ status' = [state |-> seen, execution |-> TRUE]
    \/ /\ pc = "stop_status" /\ pc' = "stop_event" /\ UNCHANGED final
       /\ status' = [state |-> "stopping", execution |-> TRUE]

LEMMA StatusSteps == ASSUME TypeOK, Next PROVE StatusComes
<1> USE DEF StatusComes, world, execution
<1>1. CASE Start
  BY <1>1 DEF Start, CreateSession, StatusCreated, Capture, CaptureFails,
              MetricsFail, Prepare, EventPrepared, StatusPrepared,
              StartupEvent, StartupEventFails, SystemStarts, SystemStartFails,
              EventStarted, StopUntracked, StatusRunning, EventError, StatusFailed,
              Early, Launched
<1>2. CASE ReportStatus BY <1>2 DEF ReportStatus, WriteStatus
<1>3. CASE ReportEvent
  <2>1. "status" \in doubts => "status" \in doubts'
    BY <1>3 DEF ReportEvent, Journal, JournalFails
  <2> QED BY <1>3, <2>1 DEF ReportEvent
<1>4. CASE ReportRecord BY <1>4 DEF ReportRecord
<1>5. CASE StopStatus BY <1>5 DEF StopStatus, WriteStatus
<1>6. CASE StopEvent \/ StopRejected
  BY <1>6 DEF StopEvent, StopRejected, Journal, JournalFails
<1>7. CASE StopSystem BY <1>7 DEF StopSystem, Doubt
<1>8. CASE Inspect BY <1>8 DEF Inspect, Doubt
<1>9. CASE Stop \/ BenchmarkReturns BY <1>9 DEF Stop, BenchmarkReturns
<1>10. CASE (\E u \in Units : UnitMoves(u)) \/ Crash \/ CrashWriting
  BY <1>10 DEF UnitMoves, Crash, CrashWriting
<1> QED
  BY <1>1, <1>2, <1>3, <1>4, <1>5, <1>6, <1>7, <1>8, <1>9, <1>10
     DEF Next, Work, Reporting, Stopping, Calls

\* The two last steps of a report follow the writing of its status.
LEMMA ReportSteps ==
  ASSUME Next, pc' \in {"report_event", "report_record"}
  PROVE  \/ pc = "report_status" /\ ReportStatus
         \/ pc \in {"report_event", "report_record"} /\ UNCHANGED <<status, seen>>
<1> USE DEF world, execution
<1>1. CASE Start
  BY <1>1 DEF Start, CreateSession, StatusCreated, Capture, CaptureFails,
              MetricsFail, Prepare, EventPrepared, StatusPrepared,
              StartupEvent, StartupEventFails, SystemStarts, SystemStartFails,
              EventStarted, StopUntracked, StatusRunning, EventError,
                StatusFailed
<1>2. CASE ReportStatus BY <1>2 DEF ReportStatus
<1>3. CASE ReportEvent \/ ReportRecord BY <1>3 DEF ReportEvent, ReportRecord
<1>4. CASE Stopping
  BY <1>4 DEF Stopping, StopStatus, StopEvent, StopSystem, StopRejected
<1>5. CASE Calls BY <1>5 DEF Calls, Inspect, Stop, BenchmarkReturns
<1>6. CASE (\E u \in Units : UnitMoves(u)) \/ Crash \/ CrashWriting
  BY <1>6 DEF UnitMoves, Crash, CrashWriting
<1> QED BY <1>1, <1>2, <1>3, <1>4, <1>5, <1>6 DEF Next, Work, Reporting

LEMMA StatusKept ==
  ASSUME TypeOK, PlaceInv, QuietInv, QuietInv', TruthInv, StatusInv, Next
  PROVE  StatusInv'
<1> SUFFICES ASSUME "status" \notin doubts' PROVE StatusInv' BY DEF StatusInv
<1>1. pc' \in {"report_event", "report_record"} =>
          status' = [state |-> seen', execution |-> TRUE]
  <2>1. CASE ReportStatus
    BY <2>1 DEF ReportStatus, WriteStatus, execution
  <2>2. CASE /\ pc \in {"report_event", "report_record"}
             /\ UNCHANGED <<status, seen>> /\ ~ReportStatus
    <3>1. "status" \notin doubts
      BY <2>2, StatusSteps DEF StatusComes, Early, Launched
    <3> QED BY <2>2, <3>1 DEF StatusInv
  <2> QED BY <2>1, <2>2, ReportSteps
<1>2. ASSUME final' # None, "observation" \notin doubts'
      PROVE  status'.state \in {final', "stopping"}
  <2>1. "observation" \notin doubts
    BY <1>2, DoubtsLast DEF DoubtsKept
  <2>2. CASE final' # final
    <3>1. /\ pc = "report_record" /\ final' = seen
          /\ UNCHANGED <<status, doubts>>
      BY <2>2, RecordComes
    <3>2. status = [state |-> seen, execution |-> TRUE]
      BY <3>1 DEF StatusInv
    <3> QED BY <3>1, <3>2
  <2>3. CASE final' = final
    <3>1. pc \notin Early \cup Launched
      BY <1>2, <2>3 DEF QuietInv, Serving, Reported, Early, Launched
    <3>2. CASE UNCHANGED status /\ "status" \notin doubts
      BY <1>2, <2>1, <2>3, <3>2 DEF StatusInv
    <3>3. CASE /\ pc = "report_status"
               /\ status' = [state |-> seen, execution |-> TRUE]
      <4>1. seen = final
        BY <1>2, <2>1, <2>3, <3>3 DEF TruthInv, Reported
      <4> QED BY <2>3, <3>3, <4>1
    <3>4. CASE status' = [state |-> "stopping", execution |-> TRUE]
      BY <3>4
    <3> QED BY <3>1, <3>2, <3>3, <3>4, StatusSteps DEF StatusComes
  <2> QED BY <2>2, <2>3
<1> QED BY <1>1, <1>2 DEF StatusInv

-----------------------------------------------------------------------------
(* The theorems.                                                           *)

LEMMA RunInit == ASSUME Init PROVE RunInv
<1>1. TypeOK BY TypeInit
<1>2. PlaceInv
  <2>1. [state |-> "failed", execution |-> FALSE] \in StatusDocument
    BY DEF StatusDocument, RunStates
  <2>2. status # [state |-> "failed", execution |-> FALSE]
    BY <2>1, NoneAssumption DEF Init
  <2> QED BY <2>2 DEF Init, PlaceInv, Early, Launched, Serving, Reported
<1>3. \A i \in Nat : ~FinishedAt(i) BY DEF Init, FinishedAt
<1>4. QuietInv BY <1>3 DEF Init, QuietInv
<1>5. EvidenceInv
  BY DEF Init, EvidenceInv, EvidenceFirst, Launched, Serving, Reported
<1>6. LinesInv /\ WholeInv /\ NoHandleInv
  <2>1. Len(events) = 0 /\ nextSeq = 1 BY DEF Init
  <2>2. ~Live BY DEF Init, Live, Executing
  <2> QED BY <1>3, <2>1, <2>2 DEF Init, LinesInv, WholeInv, NoHandleInv, Journalled
<1>7. TruthInv BY <1>3 DEF Init, TruthInv, Reported
<1>8. StatusInv BY DEF Init, StatusInv
<1> QED BY <1>1, <1>2, <1>4, <1>5, <1>6, <1>7, <1>8 DEF RunInv

LEMMA RunStep == ASSUME RunInv, [Next]_vars PROVE RunInv'
<1>1. CASE Next
  <2>1. TypeOK'
    BY <1>1, TypeStart, TypeServe, TypeWorld DEF RunInv, Next, Work, Calls
  <2>2. PlaceInv'
    BY <1>1, PlaceStart, PlaceServe, PlaceWorld DEF RunInv, Next, Work, Calls
  <2>3. QuietInv' BY <1>1, QuietKept DEF RunInv
  <2>4. EvidenceInv' BY <1>1, <2>1, EvidenceKept DEF RunInv
  <2>8. WholeInv' BY <1>1, <2>1, WholeKept DEF RunInv
  <2>9. NoHandleInv' BY <1>1, NoHandleKept DEF RunInv
  <2>5. LinesInv' BY <1>1, <2>1, LinesKept DEF RunInv
  <2>6. TruthInv' BY <1>1, <2>3, TruthKept DEF RunInv
  <2>7. StatusInv' BY <1>1, <2>3, StatusKept DEF RunInv
  <2> QED
    BY <2>1, <2>2, <2>3, <2>4, <2>5, <2>6, <2>7, <2>8, <2>9 DEF RunInv
<1>2. CASE UNCHANGED vars
  BY <1>2 DEF vars, journal, world, execution, RunInv, TypeOK, JournalOK,
              PlaceInv, QuietInv, EvidenceInv, EvidenceFirst, LinesInv,
              WholeInv, NoHandleInv, Live, Legible, TruthInv, StatusInv,
              FinishedAt, Journalled, Report
<1> QED BY <1>1, <1>2

LEMMA RunInvHolds == Spec => []RunInv
<1>1. Init => RunInv BY RunInit
<1>2. RunInv /\ [Next]_vars => RunInv' BY RunStep
<1> QED BY <1>1, <1>2, PTL DEF Spec

\* Every reachable state has the shape TypeOK gives, for any number of units
\* and calls and any set of faults.
THEOREM RunTypeCorrect == Spec => []TypeOK
<1>1. RunInv => TypeOK BY DEF RunInv
<1> QED BY <1>1, RunInvHolds, PTL

\* No unit is started before the provenance of the Run and its PREPARED event
\* are on disk, whatever fails or dies.
THEOREM EvidenceBeforeUnits == Spec => []EvidenceFirst
<1>1. RunInv => EvidenceFirst BY DEF RunInv, EvidenceInv
<1> QED BY <1>1, RunInvHolds, PTL

\* Nobody gets an execution without a durable STARTED event, a start that
\* raised has stopped what it had started, and a stop that came back was
\* issued to the System.
THEOREM ExecutionsAreTracked == Spec => []NoUntrackedExecution
<1>1. RunInv => NoUntrackedExecution
  BY DEF RunInv, PlaceInv, EvidenceInv, NoUntrackedExecution
<1> QED BY <1>1, RunInvHolds, PTL

\* The journal tells one end of the execution, the one in run.json.
THEOREM OneEndIsTold == Spec => []OneOutcome
<1>1. RunInv => OneOutcome
  BY DEF RunInv, LinesInv, TruthInv, OneOutcome, FinishedAt
<1> QED BY <1>1, RunInvHolds, PTL

LEMMA CorruptionHasCause == ASSUME RunInv PROVE CorruptionExplained
<1> SUFFICES ASSUME Recovered(FALSE) = "corrupted"
             PROVE  \/ ~Legible(events) /\ torn > 0
                    \/ Legible(events) /\ ~Contiguous(events) /\ "journal" \in doubts
                    \/ /\ ~RecordAgrees(status, final)
                       /\ \/ {"status", "observation"} \cap doubts # {}
                          \/ status.state = "stopping"
  BY DEF CorruptionExplained
<1>1. \/ ~Legible(events)
      \/ Legible(events) /\ ~Contiguous(events)
      \/ ~RecordAgrees(status, final)
  BY DEF Recovered, Classify
<1>2. CASE ~Legible(events)
  <2>1. torn # 0 BY <1>2 DEF RunInv, WholeInv, Legible
  <2>2. torn \in Nat BY CallsAssumption DEF RunInv, TypeOK, JournalOK
  <2> QED BY <1>2, <2>1, <2>2
<1>3. CASE Legible(events) /\ ~Contiguous(events)
  <2>1. SUFFICES ASSUME "journal" \notin doubts PROVE Contiguous(events)
    BY <1>3
  <2>2. \A i \in 1..Len(events) : events[i].seq = i
    BY <1>3, <2>1 DEF RunInv, LinesInv
  <2> SUFFICES ASSUME NEW i \in 1..Len(events), NEW j \in 1..Len(events), i < j,
                      \A k \in (i + 1)..(j - 1) : events[k].kind = "invalid"
               PROVE  events[j].seq = events[i].seq + 1
    BY DEF Contiguous
  <2>3. Len(events) \in Nat BY DEF RunInv, TypeOK, JournalOK
  <2>4. CASE j = i + 1 BY <2>2, <2>4
  <2>5. CASE j # i + 1
    <3>1. i + 1 \in (i + 1)..(j - 1) /\ i + 1 \in 1..Len(events)
      BY <2>3, <2>5
    <3> QED BY <1>3, <3>1 DEF Legible
  <2> QED BY <2>4, <2>5
<1>4. CASE ~RecordAgrees(status, final)
  <2>1. final # None /\ status.state # final
    BY <1>4 DEF RecordAgrees
  <2> QED BY <1>4, <2>1 DEF RunInv, StatusInv
<1> QED BY <1>1, <1>2, <1>3, <1>4

\* What recovery concludes from the files, at any moment, is true of the
\* execution: of a Run called failed-before-start nobody has a handle, no
\* STARTED event was journalled and nothing executes but what the rollback could
\* not stop; a healthy terminal record states how the System ended; and a Run it
\* calls corrupted has the cause of what recovery found wrong.
THEOREM VerdictsAreSound == Spec => []VerdictSound
<1>1. ASSUME RunInv PROVE VerdictSound
  <2> DEFINE verdict == Recovered(TRUE)
  <2>1. ASSUME verdict = "failed-before-start"
        PROVE  /\ ~handle /\ ~Journalled("started")
               /\ Live => "leftover" \in doubts
    <3>1. final = None /\ status # None
          /\ status.state = "failed" /\ ~status.execution
      BY <2>1 DEF Recovered, Classify
    <3>2. status \in StatusDocument BY <1>1, <3>1 DEF RunInv, TypeOK
    <3>3. status = [state |-> "failed", execution |-> FALSE]
      BY <3>1, <3>2 DEF StatusDocument
    <3>4. ~handle BY <1>1, <3>3 DEF RunInv, PlaceInv
    <3> QED BY <1>1, <3>4 DEF RunInv, NoHandleInv
  <2>2. ASSUME verdict = "healthy-terminal", "observation" \notin doubts
        PROVE  final = Report(unit)
    <3>1. final # None BY <2>2 DEF Recovered, Classify
    <3> QED BY <1>1, <2>2, <3>1 DEF RunInv, TruthInv
  <2>3. CorruptionExplained BY <1>1, CorruptionHasCause
  <2> QED BY <2>1, <2>2, <2>3 DEF VerdictSound
<1> QED BY <1>1, RunInvHolds, PTL
=============================================================================
