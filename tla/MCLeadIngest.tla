---------------------------- MODULE MCLeadIngest ----------------------------
(***************************************************************************)
(* Instances of the lead ledger: a lead and a key of the same person.        *)
(***************************************************************************)
EXTENDS LeadIngest, TLC
CONSTANTS p1
OnePerson == [d \in Deliveries |-> p1]
=============================================================================
