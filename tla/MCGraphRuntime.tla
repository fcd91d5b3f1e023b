----------------------------- MODULE MCGraphRuntime ----------------------------
(***************************************************************************)
(* Three nodes: a triangle, whose sink joins the source's stream with the  *)
(* relay's, and a fan, whose two branches share nothing but the source.    *)
(* Edges hold one item, so that two messages and EOS overfill them.        *)
(***************************************************************************)
EXTENDS GraphRuntime

CONSTANTS source, relay, sink

MCNodes == {source, relay, sink}
MCRank == [n \in MCNodes |-> CASE n = source -> 1 [] n = relay -> 2 [] OTHER -> 3]
Triangle == {<<source, relay>>, <<source, sink>>, <<relay, sink>>}
Fan == {<<source, relay>>, <<source, sink>>}

Everywhere(policy) == [e \in MCNodes \X MCNodes |-> policy]
Failing(relayPolicy) ==
    [n \in MCNodes |-> IF n = relay THEN relayPolicy ELSE "stop"]
Graph(edges, policy, sync, relayPolicy, faulty) ==
    [edges |-> edges, policy |-> Everywhere(policy), sync |-> sync,
     tolerance |-> 0, trigger |-> {}, failure |-> Failing(relayPolicy),
     watched |-> {}, faulty |-> faulty, stoppable |-> TRUE]

\* The relay's stream is the trigger, and the source's may be overwritten.
Sampling ==
    [Graph(Triangle, "block", "latest", "skip", {relay}) EXCEPT
        !.policy[<<source, sink>>] = "latest",
        !.trigger = {<<relay, sink>>}]
\* The source's stream is the trigger, nothing is lost, and a watchdog looks on.
Watching ==
    [Graph(Triangle, "block", "latest", "stop", {}) EXCEPT
        !.watched = {relay}, !.stoppable = FALSE]
\* Messages that are one apart match, and the relay's may be dropped.
Nearly ==
    [Graph(Triangle, "block", "matching", "stop", {}) EXCEPT
        !.policy[<<relay, sink>>] = "drop_oldest", !.tolerance = 1]
MCConfigs ==
    {Graph(Triangle, "block", "zip", "stop", {source, relay}),
     Graph(Triangle, "block", "matching", "fallback", {relay}),
     Graph(Triangle, "drop_newest", "matching", "isolate", {relay}),
     Graph(Triangle, "latest", "matching", "skip", {relay}),
     Graph(Fan, "drop_oldest", "matching", "stop", {sink}),
     Sampling, Watching, Nearly}
MCIsolating ==
    {[Graph(Fan, "block", "matching", "isolate", {relay}) EXCEPT
        !.stoppable = FALSE]}
=============================================================================
