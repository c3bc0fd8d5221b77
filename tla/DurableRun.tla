----------------------------- MODULE DurableRun -----------------------------
(***************************************************************************)
(* What the automation engine promises about one workflow run, with every  *)
(* mechanism (queue, workers, timers, retries, crashes) left out: the run's *)
(* steps finish one after the other and never unfinish, the run completes   *)
(* only after its last step, a completed run is over for good, and a failed *)
(* run moves again only when somebody retries it.                           *)
(*                                                                          *)
(* RunEngine implements this specification when one worker serves one       *)
(* instance, crashes, lost writes and duplicate queue entries included (run *)
(* engine, theorem EngineImplementsDurableRun).                             *)
(***************************************************************************)
EXTENDS Naturals

CONSTANTS
    Runs,       \* the workflow runs
    Steps       \* the steps whose completion is recorded: numbers, in plan order

VARIABLES
    state,      \* [Runs -> {"absent", "live", "completed", "failed"}]
    finished    \* [Runs -> SUBSET Steps]: the steps whose success is recorded

vars == <<state, finished>>

Init ==
    /\ state = [r \in Runs |-> "absent"]
    /\ finished = [r \in Runs |-> {}]

\* A trigger, an enrollment or "run now" creates the run.
Create(r) ==
    /\ state[r] = "absent"
    /\ state' = [state EXCEPT ![r] = "live"]
    /\ UNCHANGED finished

\* The next step of the plan succeeds: every earlier one already has.
Advance(r, k) ==
    /\ state[r] = "live"
    /\ k \notin finished[r]
    /\ \A j \in Steps : j < k => j \in finished[r]
    /\ finished' = [finished EXCEPT ![r] = @ \cup {k}]
    /\ UNCHANGED state

Complete(r) ==
    /\ state[r] = "live"
    /\ Steps \subseteq finished[r]
    /\ state' = [state EXCEPT ![r] = "completed"]
    /\ UNCHANGED finished

Fail(r) ==
    /\ state[r] = "live"
    /\ state' = [state EXCEPT ![r] = "failed"]
    /\ UNCHANGED finished

Retry(r) ==
    /\ state[r] = "failed"
    /\ state' = [state EXCEPT ![r] = "live"]
    /\ UNCHANGED finished

Next ==
    \E r \in Runs :
        \/ Create(r)
        \/ \E k \in Steps : Advance(r, k)
        \/ Complete(r)
        \/ Fail(r)
        \/ Retry(r)

Spec == Init /\ [][Next]_vars
=============================================================================
