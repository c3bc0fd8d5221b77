-------------------------- MODULE MCWorkflowTimers --------------------------
(***************************************************************************)
(* TLC instance of WorkflowTimers: two schedules and a date trigger.         *)
(***************************************************************************)
EXTENDS WorkflowTimers, TLC

CONSTANTS hourly, nightly, onDay

TwoCrons == hourly :> 0..(MaxTime + 1) @@ nightly :> {MaxTime + 1}
OneOffset == onDay :> 0
=============================================================================
