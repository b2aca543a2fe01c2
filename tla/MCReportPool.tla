----------------------------- MODULE MCReportPool -----------------------------
(* Small instances of ReportPool for TLC. *)
EXTENDS ReportPool
=============================================================================
