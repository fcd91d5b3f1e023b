----------------------------- MODULE MCBoundedQueue ----------------------------
(***************************************************************************)
(* Three threads on a queue of capacity two, under every policy: two may   *)
(* wait for room while the third takes, and four puts pass the capacity    *)
(* twice over.                                                             *)
(***************************************************************************)
EXTENDS BoundedQueue, TLC

CONSTANTS t1, t2, t3

MCThreads == {t1, t2, t3}
=============================================================================
