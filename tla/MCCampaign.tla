----------------------------- MODULE MCCampaign -----------------------------
(***************************************************************************)
(* TLC instances of CampaignLane.                                           *)
(***************************************************************************)
EXTENDS CampaignLane, TLC

Symmetry == Permutations(Addresses) \cup Permutations(Senders) \cup Permutations(Requests)

=============================================================================
