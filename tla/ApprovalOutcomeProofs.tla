------------------------- MODULE ApprovalOutcomeProofs -------------------------
(***************************************************************************)
(* What requests leave behind, for any approvals and requests: results     *)
(* that stay, a verdict on the run, and, as long as executors do not raise,*)
(* derived rows that settle and real operations that are all granted and   *)
(* recorded.                                                               *)
(*                                                                         *)
(* Executors that raise are excluded by a hypothesis of the theorems that  *)
(* need it: what they break is shown by RejectedButExecuted and            *)
(* RestoredRunSettles.                                                     *)
(***************************************************************************)
EXTENDS ApprovalServiceProofs

NoRaise == "raise" \notin Faults

-----------------------------------------------------------------------------
(* Every fault: what a request does to results, verdict and report.        *)

\* Rows are never deleted; a request leaves the report alone, or brings the
\* text that is there up to date; and it closes the run as failed only with a
\* result at hand that says so.
TablesFollow ==
  /\ results \subseteq results'
  /\ UNCHANGED <<reportPhase, reportStatus>>
  /\ \/ UNCHANGED finalReport
     \/ finalReport # NoReport /\ finalReport' = Render(status', results')
  /\ runStatus' \in {runStatus, "completed"} \/ \E row \in results' : ~row.ok

\* TablesFollow, action by action.
LEMMA TablesStep ==
  ASSUME [Next]_vars
  PROVE  TablesFollow
<1>a. ASSUME NEW st, NEW rs, NEW ok, RefreshDerived(st, rs, ok), status' = st,
             results' = rs, results \subseteq rs, ok \/ \E row \in rs : ~row.ok
      PROVE  TablesFollow
  BY <1>a DEF RefreshDerived, ReconcileRunReport, UpdateRunStatusFromApprovals, Outcome,
              TablesFollow
<1>b. ASSUME UNCHANGED <<results, runStatus, reportVars>>
      PROVE  TablesFollow
  BY <1>b DEF reportVars, TablesFollow
<1>c. ASSUME UNCHANGED storeVars
      PROVE  TablesFollow
  BY <1>b, <1>c DEF storeVars
<1>d. ASSUME NEW c \in Client, Refuse(c)
      PROVE  TablesFollow
  BY <1>c, <1>d DEF Refuse, Locally
<1>1. ASSUME NEW c \in Client, Approve(c)
      PROVE  TablesFollow
  BY <1>1, <1>b, <1>d DEF Approve, ClaimApprovalForDryRun
<1>2. ASSUME NEW c \in Client, Reject(c)
      PROVE  TablesFollow
  BY <1>2, <1>a, <1>d DEF Reject, RejectPendingApproval
<1>3. ASSUME NEW c \in Client, RestoreClaim(c)
      PROVE  TablesFollow
  BY <1>3, <1>b, <1>d DEF RestoreClaim, RestoreApprovalClaim
<1>4. ASSUME NEW c \in Client, NEW from, NEW expected, Finalize(c, from, expected)
      PROVE  TablesFollow
  <2>1. ASSUME NEW row, FinalizeApprovalAction(row, expected)
        PROVE  TablesFollow
    BY <2>1, <1>a DEF FinalizeApprovalAction
  <2>. QED BY <1>4, <1>d, <2>1 DEF Finalize
<1>5. ASSUME NEW c \in Client, SyncApprovalTrace(c)
      PROVE  TablesFollow
  <2>1. ApplyApprovalTransition(req[c], copy[c], outcome[c])
    BY <1>5 DEF SyncApprovalTrace
  <2>. QED BY <2>1, <1>a DEF ApplyApprovalTransition
<1>6. ASSUME NEW c \in Client, BeginReal(c)
      PROVE  TablesFollow
  BY <1>6, <1>c, <1>d DEF BeginReal
<1>7. ASSUME NEW c \in Client, DryRunReturns(c) \/ DryRunRaises(c) \/ RealReturns(c)
                               \/ RealRaises(c) \/ Answer(c) \/ Crash(c)
      PROVE  TablesFollow
  BY <1>7, <1>c, <1>d
     DEF DryRunReturns, DryRunRaises, RealReturns, RealRaises, Answer, Crash, Locally
<1>8. CASE UNCHANGED vars
  BY <1>8, <1>c DEF vars
<1>. QED
  BY <1>1, <1>2, <1>3, <1>4, <1>5, <1>6, <1>7, <1>8
     DEF Next, Request, ExecuteReal, ThenExecuteReal, FinalizeDryRun, FinalizeReal

\* A run is failed only if one of its actions did not succeed.
THEOREM FailedRunsFailed == Spec => []FailedRunHasFailure
<1>1. Init => FailedRunHasFailure
  BY DEF Init, DiagnosisSnapshotSaved, AgentResultSaved, FailedRunHasFailure
<1>2. FailedRunHasFailure /\ [Next]_vars => FailedRunHasFailure'
  BY TablesStep DEF TablesFollow, FailedRunHasFailure
<1>. QED BY <1>1, <1>2, PTL DEF Spec

-----------------------------------------------------------------------------
(* Executors that return: the steps a request can take.                    *)

\* What a request relies on between its check of an approval and its use of it.
OrdinaryInv ==
  \A c \in Client :
    /\ pc[c] # "raised"
    /\ pc[c] \in {"real", "realDone"} => status[req[c]] \in {"approved", "executed"}
    /\ pc[c] = "sync" => status[req[c]] # "pending"

DerivedStay == UNCHANGED <<runStatus, approvalTodos>>

\* Run, phase and tasks are recomputed from the approvals as they now are.
DerivedRefresh ==
  /\ SyncApprovalTodos(status')
  /\ IF SomePending(status') THEN runStatus' = runStatus
                             ELSE runStatus' \in {"completed", "failed"}

Claims(c) ==
  /\ pc[c] = "idle" /\ Goto(c, "dryRun")
  /\ status[req[c]] = "pending"
  /\ status' = [status EXCEPT ![req[c]] = "approved"]
  /\ UNCHANGED <<results, req, outcome, effects>> /\ DerivedStay

\* The request ends without a result: before it has one, after it has stored
\* it, or because a real execution was faster; or it dies.
Ends(c) ==
  /\ \/ Goto(c, "done") /\ pc[c] \in {"idle", "synced"}
     \/ Goto(c, "done") /\ pc[c] = "dryDone" /\ status[req[c]] # "approved"
     \/ Goto(c, "crashed") /\ pc[c] \notin {"idle", "done", "crashed"}
  /\ UNCHANGED <<status, results, req, outcome, effects>> /\ DerivedStay

DryRuns(c) ==
  /\ pc[c] = "dryRun" /\ Goto(c, "dryDone")
  /\ \E ok \in BOOLEAN : outcome' = [outcome EXCEPT ![c] = {ResultRow(c, "dry_run", ok)}]
  /\ UNCHANGED <<status, results, req, effects>> /\ DerivedStay

BeginsReal(c) ==
  /\ pc[c] = "idle" \/ (pc[c] = "synced" /\ \E row \in outcome[c] : row.mode = "dry_run")
  /\ Goto(c, "real")
  /\ status[req[c]] \in {"approved", "executed"}
  /\ UNCHANGED <<status, results, req, outcome, effects>> /\ DerivedStay

RunsReal(c) ==
  /\ pc[c] = "real" /\ Goto(c, "realDone")
  /\ \E ok \in BOOLEAN : outcome' = [outcome EXCEPT ![c] = {ResultRow(c, "real", ok)}]
  /\ effects' \in {effects, effects \cup {<<req[c], c>>}}
  /\ UNCHANGED <<status, results, req>> /\ DerivedStay

Finalizes(c) ==
  /\ pc[c] \in {"dryDone", "realDone"} /\ Goto(c, "sync")
  /\ status[req[c]] \in {"approved", "executed"}
  /\ status' \in {status, [status EXCEPT ![req[c]] = "executed"]}
  /\ \E row \in outcome[c] : results' = results \cup {row}
  /\ UNCHANGED <<req, outcome, effects>> /\ DerivedRefresh

Rejects(c) ==
  /\ pc[c] = "idle" /\ Goto(c, "sync")
  /\ status[req[c]] = "pending"
  /\ status' = [status EXCEPT ![req[c]] = "rejected"]
  /\ UNCHANGED <<results, req, outcome, effects>> /\ DerivedRefresh

Syncs(c) ==
  /\ pc[c] = "sync" /\ Goto(c, "synced")
  /\ UNCHANGED <<status, results, req, outcome, effects>> /\ DerivedRefresh

OrdinaryStep(c) ==
  \/ Claims(c) \/ Ends(c) \/ DryRuns(c) \/ BeginsReal(c) \/ RunsReal(c)
  \/ Finalizes(c) \/ Rejects(c) \/ Syncs(c)

\* Every refresh recomputes run, phase and tasks.
LEMMA RefreshStep ==
  ASSUME NEW rs, NEW ok, RefreshDerived(status', rs, ok)
  PROVE  DerivedRefresh
BY DEF RefreshDerived, UpdateRunStatusFromApprovals, Outcome, DerivedRefresh

\* The request ends before its claim, or when it has answered.
LEMMA RefuseEnds ==
  ASSUME NEW c \in Client, Refuse(c), pc[c] \in {"idle", "synced"}
  PROVE  Ends(c)
BY DEF Refuse, Locally, storeVars, Ends, DerivedStay

\* A result is finalized, or a dry run's result comes too late.
LEMMA FinalizeKind ==
  ASSUME IInv, OrdinaryInv, NEW c \in Client, FinalizeDryRun(c) \/ FinalizeReal(c)
  PROVE  Finalizes(c) \/ Ends(c)
<1>. USE DEF IInv, TypeOK
<1>1. ASSUME NEW expected \in SUBSET {"approved", "executed"}, NEW row \in outcome[c],
             FinalizeApprovalAction(row, expected), pc[c] \in {"dryDone", "realDone"},
             Goto(c, "sync"), UNCHANGED <<req, outcome, effects>>
      PROVE  Finalizes(c)
  <2>1. row \in Row /\ row.approval = req[c]
    BY DEF RequestInv
  <2>2. /\ status[req[c]] \in {"approved", "executed"}
        /\ status' = [status EXCEPT ![req[c]] = IF row.ok THEN "executed" ELSE status[req[c]]]
        /\ results' = results \cup {row}
    BY <1>1, <2>1 DEF FinalizeApprovalAction, StatusAfterAction
  <2>3. status' \in {status, [status EXCEPT ![req[c]] = "executed"]}
    BY <2>2 DEF StoreTypeOK
  <2>4. RefreshDerived(status', results', row.ok)
    BY <1>1 DEF FinalizeApprovalAction
  <2>5. DerivedRefresh
    BY <2>4, RefreshStep
  <2>. QED BY <1>1, <2>2, <2>3, <2>5 DEF Finalizes
<1>2. CASE FinalizeDryRun(c)
  <2>1. CASE Refuse(c) /\ status[req[c]] # "approved" /\ pc[c] = "dryDone"
    BY <2>1 DEF Ends, Refuse, Locally, storeVars, DerivedStay
  <2>. QED BY <1>1, <1>2, <2>1 DEF FinalizeDryRun, Finalize
<1>3. CASE FinalizeReal(c)
  BY <1>1, <1>3 DEF FinalizeReal, Finalize, OrdinaryInv
<1>. QED BY <1>2, <1>3

\* Without a claim to restore, a late sync writes what the table holds.
LEMMA SyncKind ==
  ASSUME IInv, OrdinaryInv, NEW c \in Client, SyncApprovalTrace(c)
  PROVE  Syncs(c)
<1>. USE DEF IInv, TypeOK
<1>1. /\ pc[c] = "sync" /\ Goto(c, "synced") /\ UNCHANGED <<req, copy, outcome, effects>>
      /\ ApplyApprovalTransition(req[c], copy[c], outcome[c])
  BY DEF SyncApprovalTrace
<1>2. results' = results
  BY <1>1 DEF RequestInv, ApplyApprovalTransition
<1>3. SavedApproval(status[req[c]], copy[c]) = status[req[c]]
  <2>1. copy[c] \in {"approved", "executed", "rejected"} /\ status[req[c]] # "pending"
    BY <1>1 DEF RequestInv, OrdinaryInv, ApprovalStatus
  <2>2. copy[c] \in {"executed", "rejected"} => status[req[c]] = copy[c]
    BY <1>1 DEF RequestInv
  <2>. QED BY <2>1, <2>2 DEF SavedApproval
<1>4. status' = status
  BY <1>1, <1>3 DEF ApplyApprovalTransition, StoreTypeOK
<1>5. \E ok : RefreshDerived(status', results', ok)
  BY <1>1 DEF ApplyApprovalTransition
<1>6. DerivedRefresh
  BY <1>5, RefreshStep
<1>. QED BY <1>1, <1>2, <1>4, <1>6 DEF Syncs

\* Every step is one of the eight.
LEMMA StepKind ==
  ASSUME NoRaise, IInv, OrdinaryInv, Next
  PROVE  \E c \in Client : OrdinaryStep(c)
<1>1. ASSUME NEW c \in Client, Approve(c)
      PROVE  OrdinaryStep(c)
  BY <1>1, RefuseEnds
     DEF Approve, ClaimApprovalForDryRun, Claims, DerivedStay, OrdinaryStep
<1>2. ASSUME NEW c \in Client, Reject(c)
      PROVE  OrdinaryStep(c)
  <2>1. CASE RejectPendingApproval(req[c]) /\ Goto(c, "sync") /\ pc[c] = "idle"
             /\ UNCHANGED <<req, outcome, effects>>
    <3>1. RefreshDerived(status', results, TRUE)
      BY <2>1 DEF RejectPendingApproval
    <3>. QED BY <2>1, <3>1, RefreshStep DEF RejectPendingApproval, Rejects, OrdinaryStep
  <2>. QED BY <1>2, <2>1, RefuseEnds DEF Reject, OrdinaryStep
<1>3. ASSUME NEW c \in Client, DryRunReturns(c)
      PROVE  OrdinaryStep(c)
  BY <1>3 DEF DryRunReturns, storeVars, DryRuns, DerivedStay, OrdinaryStep
<1>4. ASSUME NEW c \in Client, RealReturns(c)
      PROVE  OrdinaryStep(c)
  BY <1>4 DEF RealReturns, storeVars, RunsReal, DerivedStay, OrdinaryStep
<1>5. ASSUME NEW c \in Client, BeginReal(c),
             pc[c] = "idle" \/ (pc[c] = "synced" /\ \E row \in outcome[c] : row.mode = "dry_run")
      PROVE  OrdinaryStep(c)
  <2>1. CASE Refuse(c)
    BY <1>5, <2>1, RefuseEnds DEF OrdinaryStep
  <2>2. CASE ~Refuse(c)
    <3>1. /\ status[req[c]] \in {"approved", "executed"} /\ Goto(c, "real")
          /\ UNCHANGED <<storeVars, req, outcome, effects>>
      BY <1>5, <2>2 DEF BeginReal, MayExecuteReal
    <3>. QED BY <1>5, <3>1 DEF storeVars, BeginsReal, DerivedStay, OrdinaryStep
  <2>. QED BY <2>1, <2>2
<1>6. ASSUME NEW c \in Client, FinalizeDryRun(c) \/ FinalizeReal(c)
      PROVE  OrdinaryStep(c)
  BY <1>6, FinalizeKind DEF OrdinaryStep
<1>7. ASSUME NEW c \in Client, SyncApprovalTrace(c)
      PROVE  OrdinaryStep(c)
  BY <1>7, SyncKind DEF OrdinaryStep
<1>8. ASSUME NEW c \in Client, Answer(c)
      PROVE  OrdinaryStep(c)
  BY <1>8, RefuseEnds DEF Answer, OrdinaryStep
<1>9. ASSUME NEW c \in Client, Crash(c)
      PROVE  OrdinaryStep(c)
  BY <1>9 DEF Crash, Locally, storeVars, Ends, DerivedStay, OrdinaryStep
<1>10. ASSUME NEW c \in Client, DryRunRaises(c) \/ RestoreClaim(c) \/ RealRaises(c)
       PROVE  FALSE
  BY <1>10 DEF NoRaise, DryRunRaises, RestoreClaim, RealRaises, OrdinaryInv
<1>11. ASSUME NEW c \in Client, ExecuteReal(c) \/ ThenExecuteReal(c)
       PROVE  OrdinaryStep(c)
  <2>1. BeginReal(c)
    BY <1>11 DEF ExecuteReal, ThenExecuteReal
  <2>2. pc[c] = "idle" \/ (pc[c] = "synced" /\ \E row \in outcome[c] : row.mode = "dry_run")
    BY <1>11 DEF ExecuteReal, ThenExecuteReal
  <2>. QED BY <1>5, <2>1, <2>2
<1>. QED
  BY <1>1, <1>2, <1>3, <1>4, <1>6, <1>7, <1>8, <1>9, <1>10, <1>11 DEF Next, Request

-----------------------------------------------------------------------------
(* What an ordinary step preserves.                                        *)

\* Nothing but a rejection or a claim takes an approval out of pending, and
\* nothing takes it back.
LEMMA GrantsStay ==
  ASSUME TypeOK, NEW c \in Client, OrdinaryStep(c), NEW a \in Approval
  PROVE  /\ status[a] # "pending" => status'[a] # "pending"
         /\ status[a] \in {"approved", "executed"} => status'[a] \in {"approved", "executed"}
         /\ status'[a] # status[a] => a = req[c]
BY DEF OrdinaryStep, Claims, Ends, DryRuns, BeginsReal, RunsReal, Finalizes, Rejects, Syncs,
   TypeOK, StoreTypeOK

\* What a request has checked stays true until it has used it.
LEMMA OrdinaryInvStep ==
  ASSUME TypeOK, OrdinaryInv, NEW c \in Client, OrdinaryStep(c)
  PROVE  OrdinaryInv'
<1>. SUFFICES ASSUME NEW d \in Client
              PROVE  /\ pc'[d] # "raised"
                     /\ pc'[d] \in {"real", "realDone"} => status'[req'[d]] \in {"approved", "executed"}
                     /\ pc'[d] = "sync" => status'[req'[d]] # "pending"
  BY DEF OrdinaryInv
<1>1. req' = req /\ req[d] \in Approval
  BY DEF OrdinaryStep, Claims, Ends, DryRuns, BeginsReal, RunsReal, Finalizes, Rejects, Syncs,
     TypeOK
<1>2. CASE d # c
  <2>1. pc'[d] = pc[d]
    BY <1>2 DEF OrdinaryStep, Claims, Ends, DryRuns, BeginsReal, RunsReal, Finalizes, Rejects,
       Syncs, Goto, TypeOK
  <2>. QED BY <1>1, <2>1, GrantsStay DEF OrdinaryInv
<1>3. CASE d = c
  BY <1>1, <1>3, GrantsStay DEF OrdinaryInv, OrdinaryStep, Claims, Ends, DryRuns, BeginsReal,
     RunsReal, Finalizes, Rejects, Syncs, Goto, TypeOK, StoreTypeOK
<1>. QED BY <1>2, <1>3

\* A request that has reached the system is past its execution and holds the
\* result of it, or has died.
AuditInv ==
  /\ \A c \in Client : \A row \in outcome[c] :
       row.by = c /\ (pc[c] = "realDone" => row.mode = "real")
  /\ \A a \in Approval, c \in Client : <<a, c>> \in effects =>
       /\ pc[c] \in {"realDone", "sync", "synced", "done", "crashed"}
       /\ a = req[c]
       /\ \A row \in outcome[c] : row.mode = "real"
       /\ pc[c] \in {"sync", "synced", "done"} =>
            \E row \in results : row.approval = a /\ row.mode = "real" /\ row.by = c

\* Only a result that is stored lets a request with an effect answer.
LEMMA AuditInvStep ==
  ASSUME TypeOK, RequestInv, OrdinaryInv, AuditInv, NEW c \in Client, OrdinaryStep(c),
         results \subseteq results'
  PROVE  AuditInv'
<1>. USE DEF TypeOK, Goto
<1>1. CASE Claims(c) \/ Rejects(c) \/ Syncs(c)
  BY <1>1 DEF Claims, Rejects, Syncs, AuditInv
<1>2. CASE Ends(c)
  BY <1>2 DEF Ends, AuditInv
<1>3. CASE BeginsReal(c)
  BY <1>3 DEF BeginsReal, AuditInv
<1>4. CASE DryRuns(c)
  BY <1>4 DEF DryRuns, AuditInv, ResultRow
<1>5. CASE RunsReal(c)
  BY <1>5 DEF RunsReal, AuditInv, ResultRow
<1>6. CASE Finalizes(c)
  <2>1. PICK row \in outcome[c] : results' = results \cup {row}
    BY <1>6 DEF Finalizes
  <2>2. row.approval = req[c] /\ row.by = c
    BY DEF RequestInv, AuditInv
  <2>. QED BY <1>6, <2>1, <2>2 DEF Finalizes, AuditInv
<1>. QED BY <1>1, <1>2, <1>3, <1>4, <1>5, <1>6 DEF OrdinaryStep

\* Approval a is claimed, and the result of its dry run will be finalized.
InFlight(a) ==
  \E c \in Client : pc[c] \in {"dryRun", "dryDone"} /\ req[c] = a /\ status[a] = "approved"

SomeCrash == \E c \in Client : pc[c] = "crashed"

Waiting == {"approval_detected", "waiting_approval"}

\* Run, phase and tasks lag behind the approvals only while the request that
\* will bring them up to date is on its way, or has died.
DerivedInv ==
  /\ SomePending(status) => runStatus = "waiting_approval" /\ approvalPhase \in Waiting
  /\ ~SomePending(status) =>
       \/ runStatus \in {"completed", "failed"} /\ approvalPhase = "completed"
       \/ SomeCrash \/ \E a \in Approval : InFlight(a)
  /\ \A a \in Approval :
       IF status[a] = "pending" THEN approvalTask[a] \in Waiting
       ELSE approvalTask[a] = TaskOf(status[a]) \/ SomeCrash \/ InFlight(a)

\* A refresh makes the derived rows true.
LEMMA RefreshDerives ==
  ASSUME DerivedInv, DerivedRefresh, SomePending(status') => SomePending(status)
  PROVE  DerivedInv'
<1>1. \A a \in Approval : approvalTask'[a] = TaskOf(status'[a])
  BY DEF DerivedRefresh, SyncApprovalTodos
<1>2. approvalPhase' = IF SomePending(status') THEN "waiting_approval" ELSE "completed"
  BY DEF DerivedRefresh, SyncApprovalTodos
<1>3. IF SomePending(status') THEN runStatus' = "waiting_approval"
                              ELSE runStatus' \in {"completed", "failed"}
  BY DEF DerivedRefresh, DerivedInv
<1>4. TaskOf("pending") \in Waiting
  BY DEF TaskOf, Waiting
<1>. QED BY <1>1, <1>2, <1>3, <1>4 DEF DerivedInv, Waiting

\* A step that refreshes nothing leaves somebody who will, or nothing to do.
LEMMA StaysDerived ==
  ASSUME TypeOK, DerivedInv, NEW c \in Client, DerivedStay,
         Claims(c) \/ Ends(c) \/ DryRuns(c) \/ BeginsReal(c) \/ RunsReal(c)
  PROVE  DerivedInv'
<1>. USE DEF TypeOK, StoreTypeOK, Goto
<1>1. UNCHANGED <<runStatus, approvalPhase, approvalTask>>
  BY DEF DerivedStay, approvalTodos
<1>2. SomeCrash => SomeCrash'
  BY DEF SomeCrash, Claims, Ends, DryRuns, BeginsReal, RunsReal
<1>3. ASSUME NEW a \in Approval, InFlight(a)
      PROVE  SomeCrash' \/ InFlight(a)'
  BY <1>3 DEF SomeCrash, InFlight, Claims, Ends, DryRuns, BeginsReal, RunsReal
<1>4. CASE Claims(c)
  <2>1. InFlight(req[c])'
    BY <1>4 DEF Claims, InFlight
  <2>2. req[c] \in Approval /\ SomePending(status)
    BY <1>4 DEF Claims, SomePending
  <2>3. \A a \in Approval \ {req[c]} : status'[a] = status[a]
    BY <1>4 DEF Claims
  <2>. QED BY <1>1, <1>2, <1>3, <1>4, <2>1, <2>2, <2>3 DEF DerivedInv, Claims, SomePending
<1>5. CASE status' = status
  BY <1>1, <1>2, <1>3, <1>5 DEF DerivedInv, SomePending
<1>. QED BY <1>4, <1>5 DEF Ends, DryRuns, BeginsReal, RunsReal

\* Every ordinary step preserves the truth of the derived rows.
LEMMA DerivedInvStep ==
  ASSUME TypeOK, DerivedInv, NEW c \in Client, OrdinaryStep(c)
  PROVE  DerivedInv'
<1>1. SomePending(status') => SomePending(status)
  BY GrantsStay DEF SomePending
<1>2. CASE Finalizes(c) \/ Rejects(c) \/ Syncs(c)
  BY <1>1, <1>2, RefreshDerives DEF Finalizes, Rejects, Syncs
<1>3. CASE Claims(c) \/ Ends(c) \/ DryRuns(c) \/ BeginsReal(c) \/ RunsReal(c)
  BY <1>3, StaysDerived DEF Claims, Ends, DryRuns, BeginsReal, RunsReal
<1>. QED BY <1>2, <1>3 DEF OrdinaryStep

\* Where every request has ended, nobody is on the way.
LEMMA DerivedAtRest ==
  ASSUME DerivedInv
  PROVE  DerivedStateSettles
<1>. SUFFICES ASSUME AtRest
              PROVE  /\ IF SomePending(status)
                          THEN runStatus = "waiting_approval" /\ approvalPhase \in Waiting
                          ELSE /\ runStatus \in {"completed", "failed"}
                               /\ approvalPhase = "completed"
                     /\ \A a \in Approval :
                          \/ approvalTask[a] = TaskOf(status[a])
                          \/ status[a] = "pending" /\ approvalTask[a] = "approval_detected"
  BY DEF DerivedStateSettles, Waiting
<1>1. ~SomeCrash /\ \A a \in Approval : ~InFlight(a)
  BY DEF AtRest, SomeCrash, InFlight
<1>2. TaskOf("pending") = "waiting_approval"
  BY DEF TaskOf
<1>. QED BY <1>1, <1>2 DEF DerivedInv, Waiting

-----------------------------------------------------------------------------
(* The theorems.                                                           *)

\* The inductive invariant of a service whose executors return.
GrantedInv == IInv /\ OrdinaryInv /\ AuditInv /\ DerivedInv

\* Every step of a request preserves the whole invariant.
LEMMA GrantedStep ==
  ASSUME NoRaise, GrantedInv, [Next]_vars
  PROVE  GrantedInv'
<1>1. IInv'
  BY InvariantStep DEF GrantedInv
<1>2. results \subseteq results'
  BY TablesStep DEF TablesFollow
<1>3. ASSUME NEW c \in Client, OrdinaryStep(c)
      PROVE  OrdinaryInv' /\ AuditInv' /\ DerivedInv'
  BY <1>2, <1>3, OrdinaryInvStep, AuditInvStep, DerivedInvStep DEF GrantedInv, IInv
<1>4. CASE UNCHANGED vars
  <2>1. OrdinaryInv'
    BY <1>4 DEF GrantedInv, OrdinaryInv, vars, storeVars, requestVars
  <2>2. AuditInv'
    BY <1>4 DEF GrantedInv, AuditInv, vars, storeVars, requestVars
  <2>3. DerivedInv'
    BY <1>4 DEF GrantedInv, DerivedInv, SomePending, SomeCrash, InFlight, vars, storeVars,
       requestVars, approvalTodos
  <2>. QED BY <1>1, <2>1, <2>2, <2>3 DEF GrantedInv
<1>5. CASE Next
  <2>1. PICK c \in Client : OrdinaryStep(c)
    BY <1>5, StepKind DEF GrantedInv
  <2>. QED BY <1>1, <1>3, <2>1 DEF GrantedInv
<1>. QED BY <1>4, <1>5

\* A diagnosis leaves derived rows that agree with its pending approvals.
LEMMA GrantedInit ==
  ASSUME Approval # {}, Init
  PROVE  GrantedInv
<1>1. IInv
  BY InitialInvariant
<1>2. status = AllPending /\ SomePending(status)
  BY DEF Init, DiagnosisSnapshotSaved, AgentResultSaved, NoApprovalYet, AllPending, SomePending
<1>3. DerivedInv
  BY <1>2 DEF Init, DiagnosisSnapshotSaved, AgentResultSaved, AllPending, DerivedInv, Waiting
<1>4. OrdinaryInv /\ AuditInv
  BY DEF Init, RequestsIdle, OrdinaryInv, AuditInv
<1>. QED BY <1>1, <1>3, <1>4 DEF GrantedInv

\* With executors that return, what requests rely on holds throughout.
THEOREM GrantsHold ==
  ASSUME NoRaise, Approval # {}
  PROVE  Spec => []GrantedInv
<1>1. Init => GrantedInv
  BY GrantedInit
<1>2. GrantedInv /\ [Next]_vars => GrantedInv'
  BY GrantedStep
<1>. QED BY <1>1, <1>2, PTL DEF Spec

\* Every real operation of a request that has answered is in the audit trail.
THEOREM EffectsRecorded ==
  ASSUME NoRaise, Approval # {}
  PROVE  Spec => []EffectsAreAudited
<1>1. GrantedInv => EffectsAreAudited
  <2>. SUFFICES ASSUME GrantedInv, NEW e \in effects,
                       pc[e[2]] \in {"sync", "synced", "done"}
                PROVE  \E row \in results :
                         row.approval = e[1] /\ row.mode = "real" /\ row.by = e[2]
    BY DEF EffectsAreAudited
  <2>1. PICK a \in Approval, c \in Client : e = <<a, c>>
    BY DEF GrantedInv, IInv, TypeOK
  <2>. QED BY <2>1 DEF GrantedInv, AuditInv
<1>. QED BY <1>1, GrantsHold, PTL

\* Between requests run, phase and tasks tell the truth about the approvals.
THEOREM DerivedStateTrue ==
  ASSUME NoRaise, Approval # {}
  PROVE  Spec => []DerivedStateSettles
<1>1. GrantedInv => DerivedStateSettles
  BY DerivedAtRest DEF GrantedInv
<1>. QED BY <1>1, GrantsHold, PTL

\* A real operation reaches the system only under a grant that still holds.
THEOREM EffectsGranted ==
  ASSUME NoRaise, Approval # {}
  PROVE  Spec => EffectsNeedApproval
<1>1. GrantedInv /\ [Next]_vars =>
        [\A a \in Approval, c \in Client :
           <<a, c>> \in effects' \ effects => status[a] \in {"approved", "executed"}]_vars
  <2>. SUFFICES ASSUME GrantedInv, Next, NEW a \in Approval, NEW c \in Client,
                       <<a, c>> \in effects' \ effects
                PROVE  status[a] \in {"approved", "executed"}
    OBVIOUS
  <2>1. PICK d \in Client : OrdinaryStep(d)
    BY StepKind DEF GrantedInv
  <2>2. RunsReal(d) /\ <<a, c>> = <<req[d], d>>
    BY <2>1 DEF OrdinaryStep, Claims, Ends, DryRuns, BeginsReal, RunsReal, Finalizes, Rejects,
       Syncs
  <2>. QED BY <2>2 DEF RunsReal, GrantedInv, OrdinaryInv
<1>. QED BY <1>1, GrantsHold, PTL DEF Spec, EffectsNeedApproval
=============================================================================
