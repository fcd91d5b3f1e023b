------------------------------ MODULE FifoChannel ------------------------------
(***************************************************************************)
(* What a queue of queueing.py promises, without locks, waits or counters: *)
(* messages are numbered as they are accepted; a receive yields the oldest *)
(* message still there; a lossless channel loses nothing but what a        *)
(* discard throws away, and an ordered control message never displaces     *)
(* another one.                                                            *)
(***************************************************************************)
EXTENDS Integers

VARIABLES
    lossless,   \* whether a send may displace messages
    accepted,   \* number of messages accepted
    pending,    \* the numbers of those neither received nor lost
    received    \* number of the last message received, 0 at first

channel == <<lossless, accepted, pending, received>>

Init ==
    /\ lossless \in BOOLEAN
    /\ accepted = 0 /\ pending = {} /\ received = 0

\* A message is accepted and may displace older ones.
Send ==
    \E lost \in SUBSET pending :
        /\ lossless => lost = {}
        /\ accepted' = accepted + 1
        /\ pending' = (pending \ lost) \cup {accepted + 1}
        /\ UNCHANGED <<lossless, received>>

Receive ==
    \E n \in pending :
        /\ \A m \in pending : n <= m
        /\ received' = n
        /\ pending' = pending \ {n}
        /\ UNCHANGED <<lossless, accepted>>

Discard ==
    /\ pending' = {}
    /\ UNCHANGED <<lossless, accepted, received>>

Next == Send \/ Receive \/ Discard

Spec == Init /\ [][Next]_channel
=============================================================================
