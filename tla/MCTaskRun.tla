----------------------------- MODULE MCTaskRun -----------------------------
(***************************************************************************)
(* Model-checking instance of TaskRun: the kinds of faults a run of TLC    *)
(* lets a POST to n8n meet.                                                *)
(***************************************************************************)
EXTENDS TaskRun

MCNoFaults == {}
MCNetworkFaults == {"lost", "unanswered"}
MCAllFaults == {"lost", "unanswered", "raises"}
=============================================================================
