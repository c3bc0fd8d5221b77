---------------------------- MODULE MCRunEngine ----------------------------
(***************************************************************************)
(* TLC instances of RunEngine: a plan with every kind of step, and one with *)
(* nothing but an action.                                                   *)
(***************************************************************************)
EXTENDS RunEngine, TLC

EveryKind == <<"due", "action", "delay">>
OneAction == <<"action">>

\* 30s, 2m, 10m: each attempt waits longer than the one before.
RisingBackoff == [n \in 1..MaxRetries |-> n]

=============================================================================
