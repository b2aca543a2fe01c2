----------------------------- MODULE TraceStore -----------------------------
(***************************************************************************)
(* The SQLite tables of one diagnosis run and the transactions the program *)
(* runs on them (trace/store.py).  TraceStore.transaction() opens every    *)
(* write with BEGIN IMMEDIATE, so a transaction is one atomic step.        *)
(*                                                                         *)
(* A row of action_results is a record: `by` stands for created_at, which  *)
(* separates two executions of one action in the result_key.  A final      *)
(* report is abstracted to what its two dynamic sections display: the      *)
(* approval rows and the action results at the time they were rendered.    *)
(***************************************************************************)
EXTENDS FiniteSets

CONSTANTS
  Approval,   \* the approvals the diagnosis created for the run
  Client,     \* the requests (API calls, CLI commands) that act on them
  NoReport    \* diagnosis_runs.final_report is NULL

ApprovalStatus == {"pending", "approved", "rejected", "executed"}
RunStatus      == {"running", "waiting_approval", "completed", "failed"}
ReportStatus   == {"not_started", "generating", "ready", "fallback", "failed"}
TodoStatus     == {"none", "running", "approval_detected", "waiting_approval",
                   "completed", "failed", "skipped"}

Row        == [approval : Approval, mode : {"dry_run", "real"}, ok : BOOLEAN,
               by : Client]
ReportText == [approvals : [Approval -> ApprovalStatus], results : SUBSET Row]

ASSUME NoReportAssumption == NoReport \notin ReportText

VARIABLES
  status,         \* approvals.status
  results,        \* the rows of action_results
  runStatus,      \* diagnosis_runs.status
  approvalPhase,  \* todo: the Approval phase
  approvalTask,   \* todo: one task per approval
  actionPhase,    \* todo: the Action execution phase
  actionTask,     \* todo: one task per executed action, "none" before
  reportPhase,    \* todo: the Report phase
  reportStatus,   \* diagnosis_runs.report_status
  finalReport     \* diagnosis_runs.final_report

approvalTodos == <<approvalPhase, approvalTask>>
actionTodos   == <<actionPhase, actionTask>>
reportVars    == <<reportPhase, reportStatus, finalReport>>
storeVars     == <<status, results, runStatus, approvalTodos, actionTodos,
                   reportVars>>

StoreTypeOK ==
  /\ status \in [Approval -> ApprovalStatus]
  /\ results \subseteq Row
  /\ runStatus \in RunStatus
  /\ approvalPhase \in TodoStatus
  /\ approvalTask \in [Approval -> TodoStatus]
  /\ actionPhase \in TodoStatus
  /\ actionTask \in [Approval -> TodoStatus]
  /\ reportPhase \in TodoStatus
  /\ reportStatus \in ReportStatus
  /\ finalReport \in ReportText \cup {NoReport}

Render(st, rs) == [approvals |-> st, results |-> rs]

-----------------------------------------------------------------------------
(* The rows a diagnosis leaves behind.                                     *)

AllPending == [a \in Approval |-> "pending"]

NoApprovalYet ==
  /\ status = AllPending
  /\ results = {}
  /\ actionPhase = "skipped"
  /\ actionTask = [a \in Approval |-> "none"]

\* collect_and_detect followed by save_diagnosis_snapshot: the report is
\* still to be written.  POST /diagnose stores "generating", the
\* interactive CLI leaves "not_started".
DiagnosisSnapshotSaved(reportState) ==
  /\ NoApprovalYet
  /\ runStatus = IF Approval = {} THEN "running" ELSE "waiting_approval"
  /\ approvalPhase = IF Approval = {} THEN "completed" ELSE "approval_detected"
  /\ approvalTask = [a \in Approval |-> "approval_detected"]
  /\ reportPhase = "running"
  /\ reportStatus = reportState
  /\ finalReport = NoReport

\* ResourceAgent.diagnose followed by save_agent_result (the plain CLI): one
\* transaction stores the run with its report.
AgentResultSaved ==
  /\ NoApprovalYet
  /\ runStatus = IF Approval = {} THEN "completed" ELSE "waiting_approval"
  /\ approvalPhase = IF Approval = {} THEN "completed" ELSE "waiting_approval"
  /\ approvalTask = [a \in Approval |-> "waiting_approval"]
  /\ reportPhase = "completed"
  /\ reportStatus \in {"ready", "fallback"}
  /\ finalReport = Render(AllPending, {})

-----------------------------------------------------------------------------
(* Derived state, recomputed inside the transactions.  `st` is the         *)
(* approvals table and `rs` the action_results the transaction reads back. *)

SomePending(st) == \E a \in Approval : st[a] = "pending"

TaskOf(s) ==
  CASE s = "pending"  -> "waiting_approval"
    [] s = "executed" -> "completed"
    [] OTHER          -> "skipped"

SyncApprovalTodos(st) ==
  /\ approvalPhase' = IF SomePending(st) THEN "waiting_approval" ELSE "completed"
  /\ approvalTask' = [a \in Approval |-> TaskOf(st[a])]

Outcome(ok) == IF ok THEN "completed" ELSE "failed"

SyncActionTodos(row) ==
  /\ actionPhase' = Outcome(row.ok)
  /\ actionTask' = [actionTask EXCEPT ![row.approval] = Outcome(row.ok)]

\* Mutation: the pending check is dropped, the last decision ends the run.
UpdateRunStatusAlways(st, ok) ==
  runStatus' = Outcome(ok)

UpdateRunStatusFromApprovals(st, ok) ==
  runStatus' = IF SomePending(st) THEN runStatus ELSE Outcome(ok)

ReconcileRunReport(st, rs) ==
  /\ finalReport' = IF finalReport = NoReport THEN NoReport ELSE Render(st, rs)
  /\ UNCHANGED <<reportPhase, reportStatus>>

RefreshDerived(st, rs, ok) ==
  /\ SyncApprovalTodos(st)
  /\ UpdateRunStatusFromApprovals(st, ok)
  /\ ReconcileRunReport(st, rs)

-----------------------------------------------------------------------------
(* Approval transactions.                                                  *)

ClaimApprovalForDryRun(a) ==
  /\ status[a] = "pending"
  /\ status' = [status EXCEPT ![a] = "approved"]
  /\ UNCHANGED <<results, runStatus, approvalTodos, actionTodos, reportVars>>

\* Mutation: the compare-and-swap forgets to compare.
RestoreApprovalClaimBlindly(a) ==
  /\ status' = [status EXCEPT ![a] = "pending"]
  /\ UNCHANGED <<results, runStatus, approvalTodos, actionTodos, reportVars>>

RestoreApprovalClaim(a) ==
  /\ status[a] = "approved"
  /\ status' = [status EXCEPT ![a] = "pending"]
  /\ UNCHANGED <<results, runStatus, approvalTodos, actionTodos, reportVars>>

\* Mutation: EXECUTED is written whatever the action returned.
StatusAfterActionAlwaysExecuted(current, ok) == "executed"

\* Mutation: a todo status is written into approvals.status.
StatusAfterActionAsTodo(current, ok) == IF ok THEN "completed" ELSE current

StatusAfterAction(current, ok) == IF ok THEN "executed" ELSE current

FinalizeApprovalAction(row, expected) ==
  LET a  == row.approval
      st == [status EXCEPT ![a] = StatusAfterAction(status[a], row.ok)]
      rs == results \cup {row}
  IN /\ status[a] \in expected
     /\ status' = st
     /\ results' = rs
     /\ SyncActionTodos(row)
     /\ RefreshDerived(st, rs, row.ok)

\* Mutation: a rejection ends the run as failed.
RejectPendingApprovalFails(a) ==
  LET st == [status EXCEPT ![a] = "rejected"]
  IN /\ status[a] = "pending"
     /\ status' = st
     /\ RefreshDerived(st, results, FALSE)
     /\ UNCHANGED <<results, actionTodos>>

RejectPendingApproval(a) ==
  LET st == [status EXCEPT ![a] = "rejected"]
  IN /\ status[a] = "pending"
     /\ status' = st
     /\ RefreshDerived(st, results, TRUE)
     /\ UNCHANGED <<results, actionTodos>>

\* Mutation: the upsert loses its WHERE clause.
SavedApprovalUnguarded(current, copy) == copy

\* save_approval's upsert: WHERE approvals.status IN ('pending', 'approved').
SavedApproval(current, copy) ==
  IF current \in {"pending", "approved"} THEN copy ELSE current

\* apply_approval_transition writes the caller's copy of the approval and,
\* in `rows`, the action result the caller holds, if it holds one.
ApplyApprovalTransition(a, copy, rows) ==
  LET st == [status EXCEPT ![a] = SavedApproval(status[a], copy)]
      rs == results \cup rows
  IN /\ status' = st
     /\ results' = rs
     /\ \/ /\ rows = {}
           /\ RefreshDerived(st, rs, TRUE)
           /\ UNCHANGED actionTodos
        \/ \E row \in rows : /\ SyncActionTodos(row)
                             /\ RefreshDerived(st, rs, row.ok)

-----------------------------------------------------------------------------
(* Report transactions.                                                    *)

\* get_trace: one read transaction over every table.
GetTrace ==
  [status |-> status, results |-> results, runStatus |-> runStatus,
   approvalPhase |-> approvalPhase, approvalTask |-> approvalTask,
   actionPhase |-> actionPhase, actionTask |-> actionTask]

Trace ==
  [status : [Approval -> ApprovalStatus], results : SUBSET Row,
   runStatus : RunStatus, approvalPhase : TodoStatus,
   approvalTask : [Approval -> TodoStatus], actionPhase : TodoStatus,
   actionTask : [Approval -> TodoStatus]]

\* should_preserve_todo_state, which save applies to the Approval and Action
\* groups: a settled todo survives the copy carried by a report.
Preserved == {"completed", "failed", "skipped"}

\* Mutation: the report's copy of a todo always wins.
MergedTodoReportWins(current, fromReport) == fromReport

MergedTodo(current, fromReport) ==
  IF current \in Preserved THEN current ELSE fromReport

RunStatusAfterReport(current, fromReport) ==
  IF current \in {"completed", "failed"} THEN current ELSE fromReport

\* `report` is a ReportSnapshot reconciled with a trace: apart from its text
\* and the Report phase, everything it carries is that trace.
FinalizeReportSnapshot(report, reportState) ==
  /\ approvalPhase' = MergedTodo(approvalPhase, report.approvalPhase)
  /\ approvalTask' = [a \in Approval |->
                        MergedTodo(approvalTask[a], report.approvalTask[a])]
  /\ actionPhase' = MergedTodo(actionPhase, report.actionPhase)
  /\ actionTask' = [a \in Approval |->
                      MergedTodo(actionTask[a], report.actionTask[a])]
  /\ reportPhase' = "completed"
  /\ runStatus' = RunStatusAfterReport(runStatus, report.runStatus)
  /\ finalReport' = Render(report.status, report.results)
  /\ reportStatus' = reportState
  /\ UNCHANGED <<status, results>>

UpdateReportStatus(reportState) ==
  /\ reportStatus' = reportState
  /\ UNCHANGED <<status, results, runStatus, approvalTodos, actionTodos,
                 reportPhase, finalReport>>

FailGeneratingReports ==
  UpdateReportStatus(IF reportStatus = "generating" THEN "failed" ELSE reportStatus)

=============================================================================
