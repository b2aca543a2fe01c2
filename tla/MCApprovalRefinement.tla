------------------------ MODULE MCApprovalRefinement -------------------------
(* Small instances of ApprovalRefinement for TLC. *)
EXTENDS ApprovalRefinement, TLC

Symmetry == Permutations(Approval) \cup Permutations(Client)
=============================================================================
