--------------------------- MODULE MCSystemStartup --------------------------
(***************************************************************************)
(* One direct scope, three children and four plans: a chain with a shared  *)
(* prerequisite, two dependents of one prerequisite (they share the status *)
(* of a pass), no dependency at all, and a cyclic plan.                    *)
(***************************************************************************)
EXTENDS SystemStartup

CONSTANTS driver, sensor, localization, mapping

MCScopes == <<driver>>
MCChildren == {sensor, localization, mapping}
MCRank == [c \in MCChildren |->
             IF c = sensor THEN 1 ELSE IF c = localization THEN 2 ELSE 3]

Dep(ordinal, system, requires, condition, timeout) ==
    [ordinal |-> ordinal, system |-> system, requires |-> requires,
     condition |-> condition, timeout |-> timeout]
MCChain == {Dep(0, localization, sensor, "ready", 2),
            Dep(1, mapping, localization, "healthy", 3),
            Dep(2, mapping, sensor, "started", 3)}
MCFan == {Dep(0, localization, sensor, "ready", 2),
          Dep(1, mapping, sensor, "healthy", 3)}
MCCycle == {Dep(0, localization, mapping, "ready", 2),
            Dep(1, mapping, localization, "started", 2),
            Dep(2, mapping, sensor, "ready", 2)}
MCPlans == {MCChain, MCFan, {}, MCCycle}

Status(state, supported, ready, health) ==
    [state |-> state, supported |-> supported, ready |-> ready,
     health |-> health]
MCStatuses ==
    {Status("running", TRUE, TRUE, "healthy"),
     Status("running", TRUE, TRUE, "degraded"),
     Status("running", TRUE, FALSE, "healthy"),
     Status("running", TRUE, FALSE, "unhealthy"),
     Status("running", FALSE, FALSE, "unknown"),
     Status("completed", TRUE, FALSE, "unknown"),
     Status("failed", TRUE, FALSE, "unhealthy")}
=============================================================================
