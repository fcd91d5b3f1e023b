-------------------------------- MODULE Recording -------------------------------
(***************************************************************************)
(* An NDRX2 recording (recording.py): the file, its writer thread behind a *)
(* bounded queue, what producers and the closer do to that queue, and what *)
(* a reader makes of the file at any moment, a crash included.             *)
(*                                                                         *)
(* A file begins with its head, the file header and the metadata; behind   *)
(* it is a sequence of parts: the header of a chunk, whose value is 0      *)
(* until the chunk is checkpointed and then its number of records, the two *)
(* halves of each record, the index of a chunk, and the final summary.     *)
(* What BufferedWriter still holds is in the buffer; it holds the head     *)
(* until the first flush.                                                  *)
(***************************************************************************)
EXTENDS Integers, Sequences, SequencesExt

CONSTANTS
    Messages,           \* what is recorded
    QueueCapacity,      \* queue_capacity
    CheckpointRecords,  \* checkpoint_records
    Durable,            \* durable: checkpoints are synchronised with the disk
    Troubles            \* bound: what may go wrong, see Trouble

Trouble == {"message", "disk", "sync", "kill", "power", "node", "run"}

ASSUME RecordingAssumption ==
    /\ QueueCapacity \in Nat \ {0} /\ CheckpointRecords \in Nat \ {0}
    /\ Durable \in BOOLEAN /\ Troubles \subseteq Trouble

VARIABLES
    head,       \* the file's head: "held" in the buffer, wholly or its end,
                \* "whole" in the file, or "lost" before it was
    disk,       \* what the operating system has of the file behind its head
    buffer,     \* parts written but not yet handed to it
    synced,     \* how many parts have been synchronised
    chunk,      \* place of the open chunk's header in the file, 0 if none
    records,    \* records of the open chunk
    writer,     \* what the writer thread is doing
    item,       \* the message it has taken
    finishing,  \* it has left its loop to close the file
    error,      \* _error is set
    queue,      \* the messages in the queue, and EOS
    qclosed,    \* the queue is closed
    closed,     \* _closed: close has been called
    outage,     \* the process or the machine has gone: "no" while it runs
    accepted,   \* history: the messages put into the queue
    sealed      \* history: records in completed checkpoints

file == <<head, disk, buffer, synced, chunk, records, sealed>>
rvars == <<file, writer, item, finishing, error, queue, qclosed, closed, outage,
           accepted>>

EOS == "eos"
ASSUME EosAssumption == EOS \notin Messages
None == "none"
Header(n) == <<"chunk", n>>
Record(m) == <<<<"head", m>>, <<"body", m>>>>
Index(n) == <<"index", n>>
Summary(n) == <<"summary", n>>
Torn(part) == <<"torn", part[1]>>   \* the beginning of a part
Hole(part) == <<"hole", part[1]>>   \* its place, never written

RecordingInit ==
    /\ head = "held" /\ disk = <<>> /\ buffer = <<>> /\ synced = 0
    /\ chunk = 0 /\ records = 0
    /\ writer = "get" /\ item = None /\ finishing = FALSE /\ error = FALSE
    /\ queue = <<>> /\ qclosed = FALSE /\ closed = FALSE /\ outage = "no"
    /\ accepted = <<>> /\ sealed = 0

-----------------------------------------------------------------------------
(* NdrxReader: _scan_v2 with recover=True.                                 *)

IsRecord(f, i) ==
    /\ i + 1 <= Len(f) /\ f[i][1] = "head" /\ f[i + 1] = <<"body", f[i][2]>>

\* _recover_tail: complete records up to the first thing that is not one.
RecoverTail(f, start) ==
    LET ends == {n \in 0..Len(f) : \A k \in 0..n - 1 : IsRecord(f, start + 2 * k)}
        n == CHOOSE n \in ends : \A k \in ends : k <= n
    IN [k \in 1..n |-> f[start + 2 * k - 2][2]]

\* _read_chunk of a checkpointed chunk: its checksum covers every part.
ChunkValid(f, i) ==
    LET n == f[i][2] IN
    /\ i + 2 * n + 1 <= Len(f) /\ f[i + 2 * n + 1] = Index(n)
    /\ \A k \in 0..n - 1 : IsRecord(f, i + 1 + 2 * k)

Read(ok, final, messages) == [ok |-> ok, final |-> final, messages |-> messages]

\* What is read from place i on, if rest[j] is what is read from a later j on.
ReadFrom(f, rest, i) ==
    IF i > Len(f) THEN Read(TRUE, FALSE, <<>>)
    ELSE IF f[i] = Header(0)
    THEN Read(TRUE, FALSE, RecoverTail(f, i + 1))
    ELSE IF f[i][1] = "chunk" /\ ChunkValid(f, i)
    THEN LET later == rest[i + 2 * f[i][2] + 2]
             here == [k \in 1..f[i][2] |-> f[i + 2 * k - 1][2]]
         IN Read(later.ok, later.final, here \o later.messages)
    ELSE Read(f[i][1] = "summary" /\ i = Len(f), TRUE, <<>>)
Scan(f) ==
    LET from[i \in 1..Len(f) + 1] == ReadFrom(f, from, i)
        all == from[1]
    IN IF all.ok /\ all.final /\ Last(f) # Summary(Len(all.messages))
       THEN Read(FALSE, FALSE, <<>>)
       ELSE all

\* NdrxReader.__init__ refuses a file without its whole head.
Reading == IF head = "whole" THEN Scan(disk) ELSE Read(FALSE, FALSE, <<>>)

-----------------------------------------------------------------------------
(* Helpers.                                                                *)

WriterGoes(place) == writer' = place
Written(parts) == disk' = disk \o parts
Cut(parts, j) == SubSeq(parts, 1, j)
\* Where a flush of these parts may break off.
Cuts(parts) ==
    {Cut(parts, j) : j \in 0..Len(parts)}
    \cup {Append(Cut(parts, j), Torn(parts[j + 1])) : j \in 0..Len(parts) - 1}

\* The head if a flush that was pending breaks off behind these parts.
HeadAfter(pending, written) ==
    IF head # "held" THEN {head}
    ELSE {h \in {"lost", "whole"} :
            IF h = "lost" THEN written = <<>> ELSE pending # <<>>}

\* An exception in _run: the loop closes the queue at once, and in either
\* case the file is aborted.
WriterRaises ==
    /\ error' = TRUE
    /\ qclosed' = (qclosed \/ ~finishing)
    /\ WriterGoes("abort")

-----------------------------------------------------------------------------
(* The writer thread.                                                      *)

\* queue.get yields a message, EOS, or None once closed and empty.
Take ==
    /\ writer = "get"
    /\ queue # <<>> \/ qclosed
    /\ IF queue # <<>> /\ Head(queue) # EOS
       THEN item' = Head(queue) /\ WriterGoes("record") /\ UNCHANGED finishing
       ELSE finishing' = TRUE /\ WriterGoes("finish") /\ UNCHANGED item
    /\ queue' = IF queue = <<>> THEN queue ELSE Tail(queue)
    /\ UNCHANGED <<file, error, qclosed, closed, outage, accepted>>

\* _start_chunk and write put these parts behind what the buffer holds; it is
\* flushed, the head with it, whenever the next piece has no room.
NewParts == (IF chunk = 0 THEN <<Header(0)>> ELSE <<>>) \o Record(item)
WriteRecord ==
    /\ writer = "record"
    /\ LET pending == buffer \o NewParts IN
       \E j \in {0} \cup Len(buffer)..Len(pending) :
        /\ Written(Cut(pending, j))
        /\ buffer' = SubSeq(pending, j + 1, Len(pending))
        /\ head' \in {h \in {head, "whole"} :
                        IF h = "whole" THEN j >= Len(buffer) ELSE j = 0}
    /\ chunk' = IF chunk = 0 THEN Len(disk) + Len(buffer) + 1 ELSE chunk
    /\ records' = records + 1
    /\ item' = None
    /\ WriterGoes(IF records + 1 >= CheckpointRecords THEN "index" ELSE "get")
    /\ UNCHANGED <<synced, sealed, finishing, error, queue, qclosed, closed,
                   outage, accepted>>

\* encode_message raises: the chunk has been opened.
RecordRaises ==
    /\ writer = "record" /\ "message" \in Troubles
    /\ buffer' = IF chunk = 0 THEN Append(buffer, Header(0)) ELSE buffer
    /\ chunk' = IF chunk = 0 THEN Len(disk) + Len(buffer) + 1 ELSE chunk
    /\ item' = None
    /\ WriterRaises
    /\ UNCHANGED <<head, disk, synced, records, sealed, finishing, queue,
                   closed, outage, accepted>>

\* The thread has left its loop: close begins with a checkpoint.
Finish ==
    /\ writer = "finish"
    /\ WriterGoes(IF chunk # 0 THEN "index" ELSE "summary")
    /\ UNCHANGED <<file, item, finishing, error, queue, qclosed, closed, outage,
                   accepted>>

\* Mutant: the index stays in the buffer while the header is written.
WriteIndexUnflushed ==
    /\ writer = "index"
    /\ Written(buffer) /\ buffer' = <<Index(records)>> /\ head' = "whole"
    /\ WriterGoes("seal")
    /\ UNCHANGED <<synced, chunk, records, sealed, item, finishing, error, queue,
                   qclosed, closed, outage, accepted>>

\* checkpoint: the index, then the seek flushes the buffer.
WriteIndex ==
    /\ writer = "index"
    /\ Written(Append(buffer, Index(records))) /\ buffer' = <<>>
    /\ head' = "whole"
    /\ WriterGoes("seal")
    /\ UNCHANGED <<synced, chunk, records, sealed, item, finishing, error, queue,
                   qclosed, closed, outage, accepted>>

\* The header is written again, in its place.
Seal ==
    /\ writer = "seal"
    /\ disk' = [disk EXCEPT ![chunk] = Header(records)]
    /\ WriterGoes("sync")
    /\ UNCHANGED <<head, buffer, synced, chunk, records, sealed, item, finishing,
                   error, queue, qclosed, closed, outage, accepted>>
Sync ==
    /\ writer = "sync"
    /\ synced' = IF Durable THEN Len(disk) ELSE synced
    /\ sealed' = sealed + records
    /\ chunk' = 0 /\ records' = 0
    /\ WriterGoes(IF finishing THEN "summary" ELSE "get")
    /\ UNCHANGED <<head, disk, buffer, item, finishing, error, queue, qclosed,
                   closed, outage, accepted>>

WriteSummary ==
    /\ writer = "summary"
    /\ Written(<<Summary(sealed)>>) /\ head' = "whole"
    /\ WriterGoes("sync_end")
    /\ UNCHANGED <<buffer, synced, chunk, records, sealed, item, finishing, error,
                   queue, qclosed, closed, outage, accepted>>
SyncEnd ==
    /\ writer = "sync_end"
    /\ synced' = IF Durable THEN Len(disk) ELSE synced
    /\ WriterGoes("release")
    /\ UNCHANGED <<head, disk, buffer, chunk, records, sealed, item, finishing,
                   error, queue, qclosed, closed, outage, accepted>>

\* What the step at hand is handing to the operating system.
Pending ==
    CASE writer = "record" -> buffer \o NewParts
      [] writer = "index" -> Append(buffer, Index(records))
      [] writer = "summary" -> <<Summary(sealed)>>
      [] writer = "abort" -> buffer
      [] OTHER -> <<>>

\* The disk is full; it stays full, and what is left of the buffer is lost.
DiskFull ==
    /\ writer \in {"record", "index", "summary", "abort"}
    /\ "disk" \in Troubles
    /\ \E written \in Cuts(Pending) :
        /\ written # Pending /\ Written(written)
        /\ head' \in HeadAfter(Pending, written)
    /\ buffer' = <<>> /\ item' = None
    /\ WriterRaises
    /\ UNCHANGED <<synced, chunk, records, sealed, finishing, queue, closed,
                   outage, accepted>>
SyncFails ==
    /\ writer \in {"sync", "sync_end"} /\ "sync" \in Troubles
    /\ WriterRaises
    /\ UNCHANGED <<file, item, finishing, queue, closed, outage, accepted>>

\* abort: what the buffer holds is flushed and the file closed; its fsync, whose
\* failure nobody hears of, is not counted on.
Abort ==
    /\ writer = "abort"
    /\ Written(buffer) /\ buffer' = <<>>
    /\ head' = IF head = "held" THEN "whole" ELSE head
    /\ WriterGoes("release")
    /\ UNCHANGED <<synced, chunk, records, sealed, item, finishing, error, queue,
                   qclosed, closed, outage, accepted>>

\* The queue is closed; only a failed writer empties it.
Release ==
    /\ writer = "release"
    /\ qclosed' = TRUE
    /\ queue' = IF error THEN <<>> ELSE queue
    /\ WriterGoes("done")
    /\ UNCHANGED <<file, item, finishing, error, closed, outage, accepted>>

-----------------------------------------------------------------------------
(* AsyncNdrxWriter.write and close, in the threads that call them.         *)

\* write: nothing is recorded any more.
Refuses == error \/ closed
\* The put has room, or finds the queue closed.
CanPut == qclosed \/ Len(queue) < QueueCapacity
Put(m) ==
    /\ CanPut
    /\ queue' = IF qclosed THEN queue ELSE Append(queue, m)
    /\ accepted' = IF qclosed THEN accepted ELSE Append(accepted, m)
    /\ UNCHANGED <<file, writer, item, finishing, error, qclosed, closed, outage>>

SetClosed ==
    /\ closed' = TRUE
    /\ UNCHANGED <<file, writer, item, finishing, error, queue, qclosed, outage,
                   accepted>>
\* Mutant: EOS does not wait for room.
PutEosAtOnce ==
    /\ queue' = IF qclosed THEN queue ELSE Append(queue, EOS)
    /\ UNCHANGED <<file, writer, item, finishing, error, qclosed, closed, outage,
                   accepted>>
\* Mutant: EOS is dropped when the queue is full.
PutEosIfRoom ==
    /\ queue' = IF CanPut /\ ~qclosed THEN Append(queue, EOS) ELSE queue
    /\ UNCHANGED <<file, writer, item, finishing, error, qclosed, closed, outage,
                   accepted>>
PutEos ==
    /\ CanPut
    /\ queue' = IF qclosed THEN queue ELSE Append(queue, EOS)
    /\ UNCHANGED <<file, writer, item, finishing, error, qclosed, closed, outage,
                   accepted>>

-----------------------------------------------------------------------------
(* Outages, after which only the file is left.  The process is killed: a   *)
(* flush under way may break off.  The power fails: of what was not         *)
(* synchronised any beginning remains, without one part perhaps, and the    *)
(* last header in either form.                                             *)

MemoryGone ==
    /\ writer' = "gone" /\ buffer' = <<>> /\ chunk' = 0 /\ records' = 0
    /\ item' = None /\ finishing' = FALSE /\ error' = FALSE
    /\ queue' = <<>> /\ qclosed' = FALSE /\ closed' = FALSE
    /\ UNCHANGED <<synced, sealed, accepted>>

Killed ==
    /\ outage = "no" /\ "kill" \in Troubles
    /\ outage' = "kill"
    /\ \E written \in Cuts(Pending) :
        Written(written) /\ head' \in HeadAfter(Pending, written)
    /\ MemoryGone

Unsealed == IF chunk \in 1..Len(disk) THEN [disk EXCEPT ![chunk] = Header(0)] ELSE disk
PowerFails ==
    /\ outage = "no" /\ "power" \in Troubles
    /\ outage' = "power"
    /\ \E f \in {disk, Unsealed} : \E n \in synced..Len(disk) :
        \E lost \in {0} \cup synced + 1..n :
            disk' = [i \in 1..n |-> IF i = lost THEN Hole(f[i]) ELSE f[i]]
    /\ head' \in {head, "lost"} \ (IF synced > 0 THEN {"lost"} ELSE {"held"})
    /\ MemoryGone

WriterStep ==
    \/ Take \/ WriteRecord \/ Finish \/ WriteIndex \/ Seal \/ Sync
    \/ WriteSummary \/ SyncEnd \/ Abort \/ Release
WriterFails == RecordRaises \/ DiskFull \/ SyncFails
Outage == Killed \/ PowerFails

-----------------------------------------------------------------------------
(* Properties of the file.                                                 *)

Parts == {"chunk", "head", "body", "index", "summary", "torn", "hole"}
RecordingTypeOK ==
    /\ \A i \in 1..Len(disk) : disk[i][1] \in Parts /\ Len(disk[i]) = 2
    /\ head \in {"held", "whole", "lost"}
    /\ synced \in 0..Len(disk) /\ chunk \in Nat /\ records \in 0..CheckpointRecords
    /\ writer \in {"get", "record", "finish", "index", "seal", "sync", "summary",
                   "sync_end", "abort", "release", "done", "gone"}
    /\ item \in Messages \cup {None} /\ finishing \in BOOLEAN /\ error \in BOOLEAN
    /\ queue \in Seq(Messages \cup {EOS}) /\ Len(queue) <= QueueCapacity
    /\ qclosed \in BOOLEAN /\ closed \in BOOLEAN
    /\ outage \in {"no", "kill", "power"}
    /\ accepted \in Seq(Messages) /\ sealed \in Nat

\* The parts of which a beginning makes the whole file unreadable.
EndsTorn == disk # <<>> /\ Last(disk) \in {<<"torn", "chunk">>, <<"torn", "summary">>}
\* A checkpoint that had not been synchronised when the power failed.
HalfSynced == outage = "power" /\ Len(disk) > synced

\* The file has not got its whole head: nothing was flushed yet, so that no
\* checkpoint was completed, or the power failed and checkpoints are not durable.
Headless == head # "whole" /\ (sealed = 0 \/ (outage = "power" /\ ~Durable))

\* Whatever is in the file at one moment, while it is written or after an outage,
\* reads as the messages in the order they were accepted, none invented, with
\* every completed checkpoint.  Unreadable is only a file without its whole head,
\* one that ends in the middle of a chunk's header or of the summary, or one whose
\* last checkpoint the power cut short.
Readable ==
    LET read == Reading IN
    IF read.ok
    THEN /\ IsPrefix(read.messages, accepted)
         /\ outage # "power" \/ Durable => sealed <= Len(read.messages)
    ELSE Headless \/ EndsTorn \/ HalfSynced
=============================================================================
