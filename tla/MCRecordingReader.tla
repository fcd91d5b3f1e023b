--------------------------- MODULE MCRecordingReader ---------------------------
(***************************************************************************)
(* Three messages, in checkpoints of one or two: several chunks, the last  *)
(* of them open, full or missing, under a reader that starts at any time.  *)
(***************************************************************************)
EXTENDS RecordingReader

CONSTANTS m1, m2, m3

MCInput == <<m1, m2, m3>>
=============================================================================
