---------------------------- MODULE MCDiagnosisRun ----------------------------
(* Small instances of DiagnosisRun for TLC. *)
EXTENDS DiagnosisRun, TLC

Symmetry == Permutations(Approval) \cup Permutations(Client)
=============================================================================
