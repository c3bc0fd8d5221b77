--------------------------- MODULE MCSequenceFeed ---------------------------
(***************************************************************************)
(* TLC instances of SequenceFeed: symmetry of jobs and feeders. Contacts    *)
(* are ordered and stay apart.                                              *)
(***************************************************************************)
EXTENDS SequenceFeed, TLC

Symmetry == Permutations(Jobs) \cup Permutations(Feeders)

=============================================================================
