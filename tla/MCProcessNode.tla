----------------------------- MODULE MCProcessNode -----------------------------
(***************************************************************************)
(* Processors and sources under restart, skip_message and stop_pipeline,   *)
(* watched or not; for a stop, one source and two processors.              *)
(***************************************************************************)
EXTENDS ProcessNode

MCSetup(policy, source, watched, stoppable) ==
    [policy |-> policy, source |-> source, watched |-> watched, stoppable |-> stoppable]
MCSetups == {MCSetup("restart", FALSE, TRUE, FALSE),
             MCSetup("restart", FALSE, FALSE, TRUE),
             MCSetup("skip", FALSE, TRUE, TRUE),
             MCSetup("stop", FALSE, FALSE, FALSE),
             MCSetup("restart", TRUE, TRUE, FALSE),
             MCSetup("stop", TRUE, TRUE, TRUE),
             MCSetup("skip", TRUE, FALSE, FALSE)}
=============================================================================
