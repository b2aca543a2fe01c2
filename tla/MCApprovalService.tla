-------------------------- MODULE MCApprovalService --------------------------
(* Small instances of ApprovalService for TLC. *)
EXTENDS ApprovalService, TLC

Symmetry == Permutations(Approval) \cup Permutations(Client)
=============================================================================
