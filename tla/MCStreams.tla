------------------------------- MODULE MCStreams -------------------------------
(***************************************************************************)
(* A recorder has stopped reading; a viewer goes on, and reconnects.  The  *)
(* recorder asked for `block` on a stream of policy `latest`, for `latest` *)
(* on one of policy `block`, or for `block` on one of policy `block`.      *)
(***************************************************************************)
EXTENDS Streams

CONSTANTS recorder, viewer

MCSubscribers == {recorder, viewer}
MCAttempts == [u \in MCSubscribers |-> IF u = recorder THEN 0 ELSE 1]
MCConns == 1..3
MCOwner == [c \in MCConns |-> IF c = 1 THEN recorder ELSE viewer]
MCSetup(export, record, view, early) ==
    [export |-> export, early |-> early,
     ask |-> [u \in MCSubscribers |-> IF u = recorder THEN record ELSE view]]
MCSetups == {MCSetup("latest", "block", "latest", {1}),
             MCSetup("block", "latest", "block", {1, 2}),
             MCSetup("block", "block", "drop_newest", {1, 2})}
=============================================================================
