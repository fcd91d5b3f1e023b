---------------------------- MODULE RecordingReader ----------------------------
(***************************************************************************)
(* An NdrxReader (recording.py) at work on a file that is being recorded:  *)
(* it takes the size of the file, then reads its head, then one section    *)
(* after the other, while the writer goes on, fails or is killed.  One     *)
(* thread writes messages and closes the recording.                        *)
(***************************************************************************)
EXTENDS Recording

CONSTANT Input      \* the messages that are written, in this order

ASSUME ReaderAssumption == Input \in Seq(Messages)

VARIABLES
    caller,     \* what the thread that records is doing
    reader,     \* what the reader is doing
    size,       \* file_size: how many whole parts the file had behind its head
    ragged,     \* and it ended inside the next part
    cache,      \* the parts that came into its buffer with the head
    place,      \* the section it is at
    got,        \* the messages read
    final,      \* finalized
    known       \* history: records in completed checkpoints as it took the size

readerVars == <<reader, size, ragged, cache, place, got, final, known>>
vars == <<rvars, caller, readerVars>>

Init ==
    /\ RecordingInit
    /\ caller = "writes" /\ reader = "stat"
    /\ size = 0 /\ ragged = FALSE /\ cache = <<>> /\ place = 1 /\ got = <<>>
    /\ final = FALSE /\ known = 0

-----------------------------------------------------------------------------
(* The thread that records.                                                *)

WriteNext ==
    /\ caller = "writes" /\ outage = "no" /\ ~Refuses
    /\ Len(accepted) < Len(Input) /\ Put(Input[Len(accepted) + 1])
    /\ UNCHANGED <<caller, readerVars>>
CallClose ==
    /\ caller = "writes" /\ outage = "no" /\ SetClosed
    /\ caller' = "eos"
    /\ UNCHANGED readerVars
CallEos ==
    /\ caller = "eos" /\ outage = "no" /\ PutEos
    /\ caller' = "join"
    /\ UNCHANGED readerVars

\* A flush is several writes: the first part of the buffer goes ahead.
FlushPart ==
    /\ writer \in {"record", "index", "abort"} /\ buffer # <<>>
    /\ Written(<<Head(buffer)>>) /\ buffer' = Tail(buffer) /\ head' = "whole"
    /\ UNCHANGED <<synced, chunk, records, sealed, writer, item, finishing, error,
                   queue, qclosed, closed, outage, accepted, caller, readerVars>>

-----------------------------------------------------------------------------
(* The reader.                                                             *)

Whole(f) == SelectSeq(f, LAMBDA part : part[1] # "torn")
ReaderGoes(step) == reader' = step

\* path.stat: the size may fall inside a part that is torn or being flushed.
Stat ==
    /\ reader = "stat"
    /\ size' = Len(Whole(disk)) /\ known' = sealed
    /\ ragged' \in (IF Pending = <<>> THEN {} ELSE BOOLEAN)
                   \cup {Whole(disk) # disk}
    /\ ReaderGoes("head")
    /\ UNCHANGED <<rvars, caller, cache, place, got, final>>

\* Mutant: the size is taken when the head has been read.
StatBehindHead ==
    /\ reader = "head"
    /\ \/ cache = <<>> /\ cache' = disk /\ UNCHANGED <<size, known, reader>>
       \/ cache # <<>> /\ size' = Len(Whole(disk)) /\ known' = sealed
          /\ ReaderGoes("section") /\ UNCHANGED cache
    /\ UNCHANGED <<rvars, caller, ragged, place, got, final>>

\* The file header and the metadata.  The reader's buffer is filled beyond them,
\* by a part of the file or all there is of it.
ReadHead ==
    /\ reader = "head"
    /\ IF head = "whole"
       THEN /\ cache' \in {SubSeq(disk, 1, n) : n \in 0..Len(disk)}
            /\ ReaderGoes("section")
       ELSE ReaderGoes("headless") /\ UNCHANGED cache
    /\ UNCHANGED <<rvars, caller, size, ragged, place, got, final, known>>

\* _scan_v2: one turn of its loop, which finds something or refuses the file.
HasSection == place <= size \/ (place = size + 1 /\ ragged)
InFile == place <= Len(disk) /\ disk[place][1] # "torn"
Section == IF place <= Len(cache) THEN cache[place] ELSE disk[place]
EndOf(n) == place + 2 * n + 1
FindsTail == InFile /\ Section = Header(0)
FindsCheckpoint ==
    /\ InFile /\ Section[1] = "chunk" /\ Section # Header(0)
    /\ EndOf(Section[2]) <= size /\ ChunkValid(disk, place)
FindsSummary ==
    /\ InFile /\ Section = Summary(Len(got))
    /\ place = size /\ ~ragged
Gives(messages) == got' = got \o messages

\* Nothing is left of the size: the file is not final.
EndOfFile ==
    /\ reader = "section" /\ ~HasSection
    /\ ReaderGoes("done")
    /\ UNCHANGED <<rvars, caller, size, ragged, cache, place, got, final, known>>
\* A chunk without a checkpoint: the records that lie within the size.
ReadTail ==
    /\ reader = "section" /\ HasSection /\ FindsTail
    /\ Gives(RecoverTail(SubSeq(disk, 1, size), place + 1))
    /\ ReaderGoes("done")
    /\ UNCHANGED <<rvars, caller, size, ragged, cache, place, final, known>>
ReadCheckpoint ==
    /\ reader = "section" /\ HasSection /\ FindsCheckpoint
    /\ Gives([k \in 1..Section[2] |-> disk[place + 2 * k - 1][2]])
    /\ place' = EndOf(Section[2]) + 1
    /\ UNCHANGED <<rvars, caller, reader, size, ragged, cache, final, known>>
ReadSummary ==
    /\ reader = "section" /\ HasSection /\ FindsSummary
    /\ final' = TRUE
    /\ ReaderGoes("done")
    /\ UNCHANGED <<rvars, caller, size, ragged, cache, place, got, known>>
\* RecordingError: truncated, trailing or invalid.
Refuse ==
    /\ reader = "section" /\ HasSection
    /\ ~FindsTail /\ ~FindsCheckpoint /\ ~FindsSummary
    /\ ReaderGoes("refused")
    /\ UNCHANGED <<rvars, caller, size, ragged, cache, place, got, final, known>>

Next ==
    \/ (WriterStep \/ WriterFails \/ Killed) /\ UNCHANGED <<caller, readerVars>>
    \/ FlushPart \/ WriteNext \/ CallClose \/ CallEos
    \/ Stat \/ ReadHead
    \/ EndOfFile \/ ReadTail \/ ReadCheckpoint \/ ReadSummary \/ Refuse

Spec == Init /\ [][Next]_vars

-----------------------------------------------------------------------------
(* Properties.                                                             *)

\* What a reader gives of a file in the making is the beginning of what was
\* accepted, with every checkpoint that was complete when it took the size; and
\* what it calls final is all that was recorded.
GivesWhatWasRecorded ==
    reader = "done" =>
        /\ IsPrefix(got, accepted) /\ known <= Len(got)
        /\ final => Len(got) = sealed

\* A reader refuses a file only because of the moment: it has no head yet, and
\* then no checkpoint, it ended inside a part, or it has grown past the size the
\* reader goes by.  One that is at rest, and whole, is never refused.
RefusesOnlyInBetween ==
    /\ reader = "headless" => known = 0
    /\ reader = "refused" => ragged \/ Len(disk) > size

\* Whoever reads a file while it is written learns what was recorded, or is told
\* that the moment was wrong.
LiveReading == GivesWhatWasRecorded /\ RefusesOnlyInBetween
=============================================================================
