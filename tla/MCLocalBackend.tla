----------------------------- MODULE MCLocalBackend -----------------------------
(***************************************************************************)
(* Two workers, one of which publishes twice: a full checkpoint and a part *)
(* of another through a queue of one message.                              *)
(***************************************************************************)
EXTENDS LocalBackend

CONSTANTS w1, w2, m1, m2, m3

MCWorkers == {w1, w2}
MCOutput == [w \in MCWorkers |-> IF w = w1 THEN <<m1, m2>> ELSE <<m3>>]
=============================================================================
