------------------------- MODULE ApprovalServiceProofs -------------------------
(***************************************************************************)
(* What TLC checks of ApprovalService on small instances, proved for any   *)
(* set of approvals, any set of requests and any faults.                   *)
(*                                                                         *)
(* The invariants are not inductive as they stand.  A late                 *)
(* sync_approval_trace writes a copy of the approval that was made earlier;*)
(* RequestInv says how far such a copy may lag behind the table: a copy    *)
(* that holds a decision is never stale, because decisions are final.      *)
(***************************************************************************)
EXTENDS ApprovalService, TLAPS

RequestInv ==
  \A c \in Client :
    /\ \A row \in outcome[c] : row.approval = req[c] /\ outcome[c] = {row}
    /\ pc[c] = "idle" => outcome[c] = {}
    /\ pc[c] = "sync" =>
         /\ outcome[c] \subseteq results
         /\ copy[c] # "pending"
         /\ copy[c] \in {"executed", "rejected"} => status[req[c]] = copy[c]

IInv == TypeOK /\ RequestInv /\ ClaimIsExclusive /\ ExecutedIffSucceeded

-----------------------------------------------------------------------------
(* Type correctness.                                                       *)

\* The task of an approval gets a todo status, whatever the approval's status.
LEMMA TaskOfType == \A s : TaskOf(s) \in TodoStatus
BY DEF TaskOf, TodoStatus

\* Recomputing the derived rows from well-typed tables yields well-typed rows.
LEMMA RefreshDerivedType ==
  ASSUME StoreTypeOK,
         NEW st \in [Approval -> ApprovalStatus], NEW rs \in SUBSET Row,
         NEW ok \in BOOLEAN,
         RefreshDerived(st, rs, ok)
  PROVE  /\ runStatus' \in RunStatus
         /\ approvalPhase' \in TodoStatus
         /\ approvalTask' \in [Approval -> TodoStatus]
         /\ reportPhase' \in TodoStatus
         /\ reportStatus' \in ReportStatus
         /\ finalReport' \in ReportText \cup {NoReport}
<1>1. approvalPhase' \in TodoStatus /\ approvalTask' \in [Approval -> TodoStatus]
  BY TaskOfType DEF RefreshDerived, SyncApprovalTodos, TodoStatus
<1>2. runStatus' \in RunStatus
  BY DEF RefreshDerived, UpdateRunStatusFromApprovals, Outcome, RunStatus, StoreTypeOK
<1>3. Render(st, rs) \in ReportText
  BY DEF Render, ReportText
<1>4. finalReport' \in ReportText \cup {NoReport}
  BY <1>3 DEF RefreshDerived, ReconcileRunReport
<1>5. reportPhase' \in TodoStatus /\ reportStatus' \in ReportStatus
  BY DEF RefreshDerived, ReconcileRunReport, StoreTypeOK
<1>. QED BY <1>1, <1>2, <1>4, <1>5

\* The todos of an action result are well typed.
LEMMA SyncActionTodosType ==
  ASSUME StoreTypeOK, NEW row \in Row, SyncActionTodos(row)
  PROVE  actionPhase' \in TodoStatus /\ actionTask' \in [Approval -> TodoStatus]
BY DEF StoreTypeOK, SyncActionTodos, Outcome, TodoStatus, Row

\* finalize_approval_action keeps the tables well typed.
LEMMA FinalizeApprovalActionType ==
  ASSUME StoreTypeOK, NEW row \in Row, NEW expected,
         FinalizeApprovalAction(row, expected)
  PROVE  StoreTypeOK'
<1>. DEFINE st == [status EXCEPT ![row.approval] =
                     StatusAfterAction(status[row.approval], row.ok)]
            rs == results \cup {row}
<1>1. row.approval \in Approval /\ row.ok \in BOOLEAN
  BY DEF Row
<1>2. st \in [Approval -> ApprovalStatus]
  BY <1>1 DEF StoreTypeOK, StatusAfterAction, ApprovalStatus
<1>3. rs \in SUBSET Row
  BY DEF StoreTypeOK
<1>4. /\ status' = st /\ results' = rs
      /\ SyncActionTodos(row) /\ RefreshDerived(st, rs, row.ok)
  BY DEF FinalizeApprovalAction
<1>. HIDE DEF st, rs
<1>. QED BY <1>1, <1>2, <1>3, <1>4, RefreshDerivedType, SyncActionTodosType
         DEF StoreTypeOK

\* reject_pending_approval keeps the tables well typed.
LEMMA RejectPendingApprovalType ==
  ASSUME StoreTypeOK, NEW a \in Approval, RejectPendingApproval(a)
  PROVE  StoreTypeOK'
<1>. DEFINE st == [status EXCEPT ![a] = "rejected"]
<1>1. st \in [Approval -> ApprovalStatus]
  BY DEF StoreTypeOK, ApprovalStatus
<1>2. status' = st /\ RefreshDerived(st, results, TRUE) /\ UNCHANGED <<results, actionTodos>>
  BY DEF RejectPendingApproval
<1>3. results \in SUBSET Row
  BY DEF StoreTypeOK
<1>. HIDE DEF st
<1>. QED BY <1>1, <1>2, <1>3, RefreshDerivedType DEF StoreTypeOK, actionTodos

\* apply_approval_transition keeps the tables well typed.
LEMMA ApplyApprovalTransitionType ==
  ASSUME StoreTypeOK, NEW a \in Approval, NEW held \in ApprovalStatus,
         NEW rows \in SUBSET Row, ApplyApprovalTransition(a, held, rows)
  PROVE  StoreTypeOK'
<1>. DEFINE st == [status EXCEPT ![a] = SavedApproval(status[a], held)]
            rs == results \cup rows
<1>1. st \in [Approval -> ApprovalStatus]
  BY DEF StoreTypeOK, SavedApproval
<1>2. rs \in SUBSET Row
  BY DEF StoreTypeOK
<1>3. /\ status' = st /\ results' = rs
      /\ \/ RefreshDerived(st, rs, TRUE) /\ UNCHANGED actionTodos
         \/ \E row \in rows : SyncActionTodos(row) /\ RefreshDerived(st, rs, row.ok)
  BY DEF ApplyApprovalTransition
<1>. HIDE DEF st, rs
<1>4. CASE RefreshDerived(st, rs, TRUE) /\ UNCHANGED actionTodos
  BY <1>1, <1>2, <1>3, <1>4, RefreshDerivedType DEF StoreTypeOK, actionTodos
<1>5. ASSUME NEW row \in rows, SyncActionTodos(row), RefreshDerived(st, rs, row.ok)
      PROVE  StoreTypeOK'
  <2>1. row \in Row /\ row.ok \in BOOLEAN
    BY <1>5 DEF Row
  <2>. QED BY <1>1, <1>2, <1>3, <1>5, <2>1, RefreshDerivedType, SyncActionTodosType
           DEF StoreTypeOK
<1>. QED BY <1>3, <1>4, <1>5

\* The initial tables are well typed, whichever path saved the diagnosis.
LEMMA InitialTablesType ==
  ASSUME Init
  PROVE  StoreTypeOK
<1>1. NoApprovalYet => /\ status \in [Approval -> ApprovalStatus]
                       /\ results \subseteq Row
                       /\ actionPhase \in TodoStatus
                       /\ actionTask \in [Approval -> TodoStatus]
  BY DEF NoApprovalYet, AllPending, ApprovalStatus, TodoStatus
<1>2. ASSUME NEW s \in {"generating", "not_started"}, DiagnosisSnapshotSaved(s)
      PROVE  StoreTypeOK
  BY <1>1, <1>2 DEF DiagnosisSnapshotSaved, StoreTypeOK, RunStatus, TodoStatus, ReportStatus
<1>3. CASE AgentResultSaved
  <2>1. Render(AllPending, {}) \in ReportText
    BY DEF Render, AllPending, ReportText, ApprovalStatus
  <2>. QED
    BY <1>1, <1>3, <2>1 DEF AgentResultSaved, StoreTypeOK, RunStatus, TodoStatus, ReportStatus
<1>. QED BY <1>2, <1>3 DEF Init

\* A result an executor returns is a row of action_results.
LEMMA ResultRowType ==
  ASSUME TypeOK, NEW c \in Client, NEW mode \in {"dry_run", "real"}, NEW ok \in BOOLEAN
  PROVE  ResultRow(c, mode, ok) \in Row
BY DEF TypeOK, ResultRow, Row

\* Every step of a request keeps tables and requests well typed.
LEMMA TypeStep ==
  ASSUME TypeOK, [Next]_vars
  PROVE  TypeOK'
<1>. USE DEF TypeOK
<1>a. ASSUME UNCHANGED storeVars
      PROVE  StoreTypeOK'
  BY <1>a DEF StoreTypeOK, storeVars, approvalTodos, actionTodos, reportVars
<1>b. ASSUME NEW c \in Client, NEW label \in PC, Goto(c, label)
      PROVE  pc' \in [Client -> PC]
  BY <1>b DEF Goto
<1>c. ASSUME NEW c \in Client, NEW label \in PC, Goto(c, label), Locally
      PROVE  TypeOK'
  BY <1>a, <1>b, <1>c DEF Locally
<1>d. ASSUME NEW c \in Client, Refuse(c)
      PROVE  TypeOK'
  BY <1>c, <1>d DEF Refuse, PC
<1>e. ASSUME NEW c \in Client, BeginReal(c)
      PROVE  TypeOK'
  <2>1. CASE Refuse(c)
    BY <2>1, <1>d
  <2>2. CASE Goto(c, "real") /\ copy' = [copy EXCEPT ![c] = status[req[c]]]
             /\ UNCHANGED <<storeVars, req, outcome, effects>>
    <3>1. StoreTypeOK' /\ pc' \in [Client -> PC]
      BY <2>2, <1>a, <1>b DEF PC
    <3>. QED BY <2>2, <3>1 DEF StoreTypeOK
  <2>. QED BY <1>e, <2>1, <2>2 DEF BeginReal
<1>f. ASSUME NEW c \in Client, NEW from, NEW expected, Finalize(c, from, expected)
      PROVE  TypeOK'
  <2>1. CASE Refuse(c)
    BY <2>1, <1>d
  <2>2. ASSUME NEW row \in outcome[c], FinalizeApprovalAction(row, expected),
               copy' = [copy EXCEPT ![c] = status'[req[c]]], Goto(c, "sync"),
               UNCHANGED <<req, outcome, effects>>
        PROVE  TypeOK'
    <3>1. StoreTypeOK'
      BY <2>2, FinalizeApprovalActionType
    <3>2. pc' \in [Client -> PC]
      BY <2>2, <1>b DEF PC
    <3>. QED BY <2>2, <3>1, <3>2 DEF StoreTypeOK
  <2>. QED BY <1>f, <2>1, <2>2 DEF Finalize
<1>g. ASSUME NEW c \in Client, NEW mode \in {"dry_run", "real"}, NEW ok \in BOOLEAN,
             outcome' = [outcome EXCEPT ![c] = {ResultRow(c, mode, ok)}]
      PROVE  outcome' \in [Client -> SUBSET Row]
  BY <1>g, ResultRowType
<1>1. ASSUME NEW c \in Client, Approve(c)
      PROVE  TypeOK'
  <2>1. CASE Refuse(c)
    BY <2>1, <1>d
  <2>2. CASE ClaimApprovalForDryRun(req[c]) /\ Goto(c, "dryRun")
             /\ copy' = [copy EXCEPT ![c] = "approved"] /\ UNCHANGED <<req, outcome, effects>>
    <3>1. pc' \in [Client -> PC]
      BY <2>2, <1>b DEF PC
    <3>2. StoreTypeOK'
      BY <2>2 DEF ClaimApprovalForDryRun, StoreTypeOK, approvalTodos, actionTodos,
                  reportVars, ApprovalStatus
    <3>. QED BY <2>2, <3>1, <3>2 DEF ApprovalStatus
  <2>. QED BY <1>1, <2>1, <2>2 DEF Approve
<1>2. ASSUME NEW c \in Client, Reject(c)
      PROVE  TypeOK'
  <2>1. CASE Refuse(c)
    BY <2>1, <1>d
  <2>2. CASE RejectPendingApproval(req[c]) /\ copy' = [copy EXCEPT ![c] = "rejected"]
             /\ Goto(c, "sync") /\ UNCHANGED <<req, outcome, effects>>
    <3>1. pc' \in [Client -> PC]
      BY <2>2, <1>b DEF PC
    <3>2. StoreTypeOK'
      BY <2>2, RejectPendingApprovalType
    <3>. QED BY <2>2, <3>1, <3>2 DEF ApprovalStatus
  <2>. QED BY <1>2, <2>1, <2>2 DEF Reject
<1>3. ASSUME NEW c \in Client, DryRunReturns(c)
      PROVE  TypeOK'
  BY <1>3, <1>a, <1>b, <1>g DEF DryRunReturns, PC
<1>4. ASSUME NEW c \in Client, RealReturns(c)
      PROVE  TypeOK'
  <2>1. StoreTypeOK' /\ pc' \in [Client -> PC]
    BY <1>4, <1>a, <1>b DEF RealReturns, PC
  <2>2. outcome' \in [Client -> SUBSET Row]
    BY <1>4, <1>g DEF RealReturns
  <2>3. effects' \subseteq Approval \X Client
    <3>1. <<req[c], c>> \in Approval \X Client
      OBVIOUS
    <3>. QED BY <1>4, <3>1 DEF RealReturns
  <2>. QED BY <1>4, <2>1, <2>2, <2>3 DEF RealReturns
<1>5. ASSUME NEW c \in Client, RestoreClaim(c)
      PROVE  TypeOK'
  <2>1. CASE Refuse(c)
    BY <2>1, <1>d
  <2>2. CASE RestoreApprovalClaim(req[c]) /\ Goto(c, "done")
             /\ UNCHANGED <<req, copy, outcome, effects>>
    <3>1. pc' \in [Client -> PC]
      BY <2>2, <1>b DEF PC
    <3>2. StoreTypeOK'
      BY <2>2 DEF RestoreApprovalClaim, StoreTypeOK, approvalTodos, actionTodos,
                  reportVars, ApprovalStatus
    <3>. QED BY <2>2, <3>1, <3>2
  <2>. QED BY <1>5, <2>1, <2>2 DEF RestoreClaim
<1>6. ASSUME NEW c \in Client, SyncApprovalTrace(c)
      PROVE  TypeOK'
  <2>1. StoreTypeOK'
    BY <1>6, ApplyApprovalTransitionType DEF SyncApprovalTrace
  <2>2. pc' \in [Client -> PC]
    BY <1>6, <1>b DEF SyncApprovalTrace, PC
  <2>. QED BY <1>6, <2>1, <2>2 DEF SyncApprovalTrace
<1>7. ASSUME NEW c \in Client, Crash(c) \/ DryRunRaises(c)
      PROVE  TypeOK'
  BY <1>7, <1>c DEF Crash, DryRunRaises, PC
<1>8. ASSUME NEW c \in Client, RealRaises(c) \/ Answer(c)
      PROVE  TypeOK'
  BY <1>8, <1>d DEF RealRaises, Answer
<1>9. CASE UNCHANGED vars
  BY <1>9, <1>a DEF vars, requestVars
<1>. QED
  BY <1>1, <1>2, <1>3, <1>4, <1>5, <1>6, <1>7, <1>8, <1>9, <1>e, <1>f
     DEF Next, Request, ExecuteReal, ThenExecuteReal, FinalizeDryRun, FinalizeReal

\* Tables, requests and effects keep their types, for any instance.
THEOREM TypeCorrect == Spec => []TypeOK
<1>1. Init => TypeOK
  BY InitialTablesType DEF Init, RequestsIdle, TypeOK, PC, ApprovalStatus
<1>2. TypeOK /\ [Next]_vars => TypeOK'
  BY TypeStep
<1>. QED BY <1>1, <1>2, PTL DEF Spec

-----------------------------------------------------------------------------
(* What the three transactions that end a request do to the approvals      *)
(* table and to action_results.                                            *)

\* A result is recorded, and it decides its approval if it is a success.
LEMMA FinalizeApprovalActionStep ==
  ASSUME StoreTypeOK, NEW row \in Row, NEW a \in Approval, row.approval = a,
         NEW expected, FinalizeApprovalAction(row, expected)
  PROVE  /\ status[a] \in expected
         /\ results' = results \cup {row}
         /\ \A b \in Approval \ {a} : status'[b] = status[b]
         /\ status'[a] = IF row.ok THEN "executed" ELSE status[a]
BY DEF FinalizeApprovalAction, StatusAfterAction, StoreTypeOK, Row

\* Only a pending approval is rejected, and nothing else changes.
LEMMA RejectPendingApprovalStep ==
  ASSUME StoreTypeOK, NEW a \in Approval, RejectPendingApproval(a)
  PROVE  /\ status[a] = "pending"
         /\ status'[a] = "rejected"
         /\ \A b \in Approval \ {a} : status'[b] = status[b]
         /\ results' = results
BY DEF RejectPendingApproval, StoreTypeOK

\* The copy of an approval is written unless its row holds a decision.
LEMMA ApplyApprovalTransitionStep ==
  ASSUME StoreTypeOK, NEW a \in Approval, NEW held, NEW rows,
         ApplyApprovalTransition(a, held, rows)
  PROVE  /\ status'[a] = SavedApproval(status[a], held)
         /\ \A b \in Approval \ {a} : status'[b] = status[b]
         /\ results' = results \cup rows
BY DEF ApplyApprovalTransition, StoreTypeOK

-----------------------------------------------------------------------------
(* Decisions are final.                                                    *)

\* No step takes back a rejection or an execution.
LEMMA DecisionStep ==
  ASSUME TypeOK, [Next]_vars, NEW a \in Approval,
         status[a] \in {"rejected", "executed"}
  PROVE  status'[a] = status[a]
<1>. USE DEF TypeOK
<1>a. CASE UNCHANGED storeVars
  BY <1>a DEF storeVars
<1>b. ASSUME NEW c \in Client, Refuse(c)
      PROVE  status'[a] = status[a]
  BY <1>a, <1>b DEF Refuse, Locally
<1>1. ASSUME NEW c \in Client, Approve(c)
      PROVE  status'[a] = status[a]
  BY <1>1, <1>b DEF Approve, ClaimApprovalForDryRun, StoreTypeOK
<1>2. ASSUME NEW c \in Client, Reject(c)
      PROVE  status'[a] = status[a]
  BY <1>2, <1>b, RejectPendingApprovalStep DEF Reject
<1>3. ASSUME NEW c \in Client, RestoreClaim(c)
      PROVE  status'[a] = status[a]
  BY <1>3, <1>b DEF RestoreClaim, RestoreApprovalClaim, StoreTypeOK
<1>4. ASSUME NEW c \in Client, NEW from, Finalize(c, from, {"approved", "executed"})
      PROVE  status'[a] = status[a]
  <2>1. ASSUME NEW row \in outcome[c], FinalizeApprovalAction(row, {"approved", "executed"})
        PROVE  status'[a] = status[a]
    <3>1. row \in Row /\ row.approval \in Approval
      BY DEF Row
    <3>. QED BY <2>1, <3>1, FinalizeApprovalActionStep
  <2>. QED BY <1>4, <1>b, <2>1 DEF Finalize
<1>5. ASSUME NEW c \in Client, FinalizeDryRun(c)
      PROVE  status'[a] = status[a]
  <2>1. ASSUME NEW row \in outcome[c], FinalizeApprovalAction(row, {"approved"})
        PROVE  status'[a] = status[a]
    <3>1. row \in Row /\ row.approval \in Approval
      BY DEF Row
    <3>. QED BY <2>1, <3>1, FinalizeApprovalActionStep
  <2>. QED BY <1>5, <1>b, <2>1 DEF FinalizeDryRun, Finalize
<1>6. ASSUME NEW c \in Client, SyncApprovalTrace(c)
      PROVE  status'[a] = status[a]
  BY <1>6, ApplyApprovalTransitionStep DEF SyncApprovalTrace, SavedApproval
<1>7. ASSUME NEW c \in Client, BeginReal(c)
      PROVE  status'[a] = status[a]
  BY <1>7, <1>a, <1>b DEF BeginReal
<1>8. ASSUME NEW c \in Client,
             \/ DryRunReturns(c) \/ DryRunRaises(c) \/ RealReturns(c)
             \/ RealRaises(c) \/ Answer(c) \/ Crash(c)
      PROVE  status'[a] = status[a]
  BY <1>8, <1>a, <1>b
     DEF DryRunReturns, DryRunRaises, RealReturns, RealRaises, Answer, Crash, Locally
<1>9. CASE UNCHANGED vars
  BY <1>9, <1>a DEF vars
<1>. QED
  BY <1>1, <1>2, <1>3, <1>4, <1>5, <1>6, <1>7, <1>8, <1>9
     DEF Next, Request, ExecuteReal, ThenExecuteReal, FinalizeReal

\* No request, late sync or restored claim ever reopens a decided approval.
THEOREM DecisionsAreFinal == Spec => DecisionIsFinal
<1>1. TypeOK /\ [Next]_vars =>
        [\A a \in Approval : status[a] \in {"rejected", "executed"}
                               => status'[a] = status[a]]_vars
  BY DecisionStep
<1>. QED BY <1>1, TypeCorrect, PTL DEF Spec, DecisionIsFinal

-----------------------------------------------------------------------------
(* The inductive invariant, action by action.                              *)

\* A request that only moves on, to any state but "sync", disturbs nothing.
LEMMA MoveStep ==
  ASSUME IInv, NEW c \in Client, NEW label \in PC \ {"idle", "sync"},
         Holds(c, req[c]) \/ label \notin {"dryRun", "dryDone", "raised"},
         Goto(c, label), UNCHANGED <<status, results, req, outcome>>,
         \A d \in Client \ {c} : copy'[d] = copy[d]
  PROVE  (RequestInv /\ ClaimIsExclusive /\ ExecutedIffSucceeded)'
<1>. USE DEF IInv, TypeOK
<1>1. \A d \in Client : pc'[d] = IF d = c THEN label ELSE pc[d]
  BY DEF Goto
<1>2. RequestInv'
  BY <1>1 DEF RequestInv
<1>3. ClaimIsExclusive'
  BY <1>1 DEF ClaimIsExclusive, Holds
<1>4. ExecutedIffSucceeded'
  BY DEF ExecutedIffSucceeded
<1>. QED BY <1>2, <1>3, <1>4

\* A refused request disturbs nothing.
LEMMA RefuseStep ==
  ASSUME IInv, NEW c \in Client, Refuse(c)
  PROVE  (RequestInv /\ ClaimIsExclusive /\ ExecutedIffSucceeded)'
BY MoveStep DEF Refuse, Locally, storeVars, PC

\* A successful claim makes the request the only holder.
LEMMA ClaimStep ==
  ASSUME IInv, NEW c \in Client, ClaimApprovalForDryRun(req[c]), Goto(c, "dryRun"),
         pc[c] = "idle", copy' = [copy EXCEPT ![c] = "approved"],
         UNCHANGED <<req, outcome, effects>>
  PROVE  (RequestInv /\ ClaimIsExclusive /\ ExecutedIffSucceeded)'
<1>. USE DEF IInv, TypeOK, StoreTypeOK
<1>1. /\ \A d \in Client : pc'[d] = IF d = c THEN "dryRun" ELSE pc[d]
      /\ \A a \in Approval : status'[a] = IF a = req[c] THEN "approved" ELSE status[a]
      /\ status[req[c]] = "pending"
      /\ UNCHANGED results
  BY DEF Goto, ClaimApprovalForDryRun
<1>2. RequestInv'
  BY <1>1 DEF RequestInv
<1>3. ClaimIsExclusive'
  BY <1>1 DEF ClaimIsExclusive, Holds
<1>4. ExecutedIffSucceeded'
  BY <1>1 DEF ExecutedIffSucceeded
<1>. QED BY <1>2, <1>3, <1>4

\* A result that is held already, of a dry run or a real execution, replaces
\* the one the request held before.
LEMMA ReturnStep ==
  ASSUME IInv, NEW c \in Client, NEW mode, NEW ok, NEW label \in {"dryDone", "realDone"},
         pc[c] = IF label = "dryDone" THEN "dryRun" ELSE "real",
         outcome' = [outcome EXCEPT ![c] = {ResultRow(c, mode, ok)}],
         Goto(c, label), UNCHANGED <<storeVars, req, copy>>
  PROVE  (RequestInv /\ ClaimIsExclusive /\ ExecutedIffSucceeded)'
<1>. USE DEF IInv, TypeOK
<1>1. \A d \in Client : pc'[d] = IF d = c THEN label ELSE pc[d]
  BY DEF Goto
<1>2. UNCHANGED <<status, results, req, copy>>
  BY DEF storeVars
<1>3. RequestInv'
  BY <1>1, <1>2 DEF RequestInv, ResultRow
<1>4. ClaimIsExclusive'
  BY <1>1, <1>2 DEF ClaimIsExclusive, Holds
<1>5. ExecutedIffSucceeded'
  BY <1>2 DEF ExecutedIffSucceeded
<1>. QED BY <1>3, <1>4, <1>5

\* A holder that gives its approval back no longer holds it.
LEMMA RestoreStep ==
  ASSUME IInv, NEW c \in Client, pc[c] = "raised", RestoreApprovalClaim(req[c]),
         Goto(c, "done"), UNCHANGED <<req, copy, outcome, effects>>
  PROVE  (RequestInv /\ ClaimIsExclusive /\ ExecutedIffSucceeded)'
<1>. USE DEF IInv, TypeOK, StoreTypeOK
<1>1. /\ \A d \in Client : pc'[d] = IF d = c THEN "done" ELSE pc[d]
      /\ \A a \in Approval : status'[a] = IF a = req[c] THEN "pending" ELSE status[a]
      /\ status[req[c]] = "approved"
      /\ UNCHANGED results
  BY DEF Goto, RestoreApprovalClaim
<1>2. RequestInv'
  BY <1>1 DEF RequestInv
<1>3. ClaimIsExclusive'
  <2>1. Holds(c, req[c])
    BY DEF Holds
  <2>. QED BY <1>1, <2>1 DEF ClaimIsExclusive, Holds
<1>4. ExecutedIffSucceeded'
  BY <1>1 DEF ExecutedIffSucceeded
<1>. QED BY <1>2, <1>3, <1>4

\* A result that is finalized executes its approval exactly if it succeeded,
\* and the request goes on with a copy that agrees with the table.
LEMMA FinalizeStep ==
  ASSUME IInv, NEW c \in Client, NEW expected \in SUBSET {"approved", "executed"},
         NEW row \in outcome[c], FinalizeApprovalAction(row, expected),
         copy' = [copy EXCEPT ![c] = status'[req[c]]], Goto(c, "sync"),
         UNCHANGED <<req, outcome, effects>>
  PROVE  (RequestInv /\ ClaimIsExclusive /\ ExecutedIffSucceeded)'
<1>. USE DEF IInv, TypeOK
<1>1. row.approval = req[c] /\ row \in Row /\ outcome[c] = {row}
  BY DEF RequestInv
<1>2. /\ status[req[c]] \in {"approved", "executed"}
      /\ results' = results \cup {row}
      /\ \A a \in Approval \ {req[c]} : status'[a] = status[a]
      /\ status'[req[c]] = IF row.ok THEN "executed" ELSE status[req[c]]
  BY <1>1, FinalizeApprovalActionStep
<1>3. \A d \in Client : /\ pc'[d] = IF d = c THEN "sync" ELSE pc[d]
                        /\ copy'[d] = IF d = c THEN status'[req[c]] ELSE copy[d]
  BY DEF Goto
<1>4. RequestInv'
  BY <1>2, <1>3 DEF RequestInv
<1>5. ClaimIsExclusive'
  BY <1>2, <1>3 DEF ClaimIsExclusive, Holds
<1>6. ExecutedIffSucceeded'
  BY <1>1, <1>2 DEF ExecutedIffSucceeded
<1>. QED BY <1>4, <1>5, <1>6

\* A rejection takes a pending approval, which nobody holds.
LEMMA RejectStep ==
  ASSUME IInv, NEW c \in Client, pc[c] = "idle", RejectPendingApproval(req[c]),
         copy' = [copy EXCEPT ![c] = "rejected"], Goto(c, "sync"),
         UNCHANGED <<req, outcome, effects>>
  PROVE  (RequestInv /\ ClaimIsExclusive /\ ExecutedIffSucceeded)'
<1>. USE DEF IInv, TypeOK
<1>1. /\ status[req[c]] = "pending"
      /\ \A a \in Approval : status'[a] = IF a = req[c] THEN "rejected" ELSE status[a]
      /\ results' = results
  BY RejectPendingApprovalStep
<1>2. \A d \in Client : /\ pc'[d] = IF d = c THEN "sync" ELSE pc[d]
                        /\ copy'[d] = IF d = c THEN "rejected" ELSE copy[d]
  BY DEF Goto
<1>3. RequestInv'
  BY <1>1, <1>2 DEF RequestInv
<1>4. ClaimIsExclusive'
  BY <1>1, <1>2 DEF ClaimIsExclusive, Holds
<1>5. ExecutedIffSucceeded'
  BY <1>1 DEF ExecutedIffSucceeded
<1>. QED BY <1>3, <1>4, <1>5

\* A late sync writes no decision the table does not hold already.
LEMMA SyncStep ==
  ASSUME IInv, NEW c \in Client, SyncApprovalTrace(c)
  PROVE  (RequestInv /\ ClaimIsExclusive /\ ExecutedIffSucceeded)'
<1>. USE DEF IInv, TypeOK
<1>1. /\ pc[c] = "sync"
      /\ UNCHANGED <<req, copy, outcome>>
      /\ status'[req[c]] = SavedApproval(status[req[c]], copy[c])
      /\ \A a \in Approval \ {req[c]} : status'[a] = status[a]
      /\ results' = results \cup outcome[c]
      /\ \A d \in Client : pc'[d] = IF d = c THEN "synced" ELSE pc[d]
  BY ApplyApprovalTransitionStep DEF SyncApprovalTrace, Goto
<1>2. results' = results
  BY <1>1 DEF RequestInv
<1>3. \/ status'[req[c]] = status[req[c]]
      \/ status[req[c]] \in {"pending", "approved"} /\ status'[req[c]] = "approved"
  <2>1. copy[c] \in {"approved", "executed", "rejected"}
    BY <1>1 DEF RequestInv, ApprovalStatus
  <2>2. copy[c] \in {"executed", "rejected"} => status[req[c]] = copy[c]
    BY <1>1 DEF RequestInv
  <2>. QED BY <1>1, <2>1, <2>2 DEF SavedApproval
<1>4. RequestInv'
  BY <1>1, <1>2, <1>3 DEF RequestInv
<1>5. ClaimIsExclusive'
  BY <1>1, <1>3 DEF ClaimIsExclusive, Holds
<1>6. ExecutedIffSucceeded'
  BY <1>1, <1>2, <1>3 DEF ExecutedIffSucceeded
<1>. QED BY <1>4, <1>5, <1>6

\* Every step preserves the inductive invariant.
LEMMA InvariantStep ==
  ASSUME IInv, [Next]_vars
  PROVE  IInv'
<1>. DEFINE Core == RequestInv /\ ClaimIsExclusive /\ ExecutedIffSucceeded
<1>1. ASSUME NEW c \in Client, Approve(c)
      PROVE  Core'
  BY <1>1, ClaimStep, RefuseStep DEF Approve
<1>2. ASSUME NEW c \in Client, Reject(c)
      PROVE  Core'
  BY <1>2, RejectStep, RefuseStep DEF Reject
<1>3. ASSUME NEW c \in Client, DryRunReturns(c)
      PROVE  Core'
  BY <1>3, ReturnStep DEF DryRunReturns
<1>4. ASSUME NEW c \in Client, RealReturns(c)
      PROVE  Core'
  BY <1>4, ReturnStep DEF RealReturns
<1>5. ASSUME NEW c \in Client, RestoreClaim(c)
      PROVE  Core'
  BY <1>5, RestoreStep, RefuseStep DEF RestoreClaim
<1>6. ASSUME NEW c \in Client, FinalizeDryRun(c) \/ FinalizeReal(c)
      PROVE  Core'
  BY <1>6, FinalizeStep, RefuseStep DEF FinalizeDryRun, FinalizeReal, Finalize
<1>7. ASSUME NEW c \in Client, SyncApprovalTrace(c)
      PROVE  Core'
  BY <1>7, SyncStep
<1>8. ASSUME NEW c \in Client, BeginReal(c)
      PROVE  Core'
  <2>1. CASE Refuse(c)
    BY <2>1, RefuseStep
  <2>2. CASE Goto(c, "real") /\ copy' = [copy EXCEPT ![c] = status[req[c]]]
             /\ UNCHANGED <<storeVars, req, outcome, effects>>
    BY <2>2, MoveStep DEF storeVars, PC, IInv, TypeOK
  <2>. QED BY <1>8, <2>1, <2>2 DEF BeginReal
<1>9. ASSUME NEW c \in Client, DryRunRaises(c)
      PROVE  Core'
  BY <1>9, MoveStep DEF DryRunRaises, Holds, Locally, storeVars, PC
<1>10. ASSUME NEW c \in Client, Crash(c)
       PROVE  Core'
  BY <1>10, MoveStep DEF Crash, Locally, storeVars, PC
<1>11. ASSUME NEW c \in Client, RealRaises(c) \/ Answer(c)
       PROVE  Core'
  BY <1>11, RefuseStep DEF RealRaises, Answer
<1>12. ASSUME UNCHANGED vars
       PROVE  Core'
  BY <1>12 DEF vars, storeVars, requestVars, IInv, RequestInv, ClaimIsExclusive, Holds,
               ExecutedIffSucceeded
<1>13. Core'
  BY <1>1, <1>2, <1>3, <1>4, <1>5, <1>6, <1>7, <1>8, <1>9, <1>10, <1>11, <1>12
     DEF Next, Request, ExecuteReal, ThenExecuteReal
<1>. QED BY <1>13, TypeStep DEF IInv

\* The inductive invariant holds of whatever a diagnosis has saved.
LEMMA InitialInvariant ==
  ASSUME Init
  PROVE  IInv
<1>1. TypeOK
  BY InitialTablesType DEF Init, RequestsIdle, TypeOK, PC, ApprovalStatus
<1>2. status = AllPending /\ results = {}
  BY DEF Init, DiagnosisSnapshotSaved, AgentResultSaved, NoApprovalYet
<1>3. RequestInv /\ ClaimIsExclusive
  BY DEF Init, RequestsIdle, RequestInv, ClaimIsExclusive, Holds
<1>4. ExecutedIffSucceeded
  BY <1>2 DEF ExecutedIffSucceeded, AllPending
<1>. QED BY <1>1, <1>3, <1>4 DEF IInv

\* The inductive invariant holds throughout.
THEOREM InductiveInvariant == Spec => []IInv
<1>1. Init => IInv
  BY InitialInvariant
<1>2. IInv /\ [Next]_vars => IInv'
  BY InvariantStep
<1>. QED BY <1>1, <1>2, PTL DEF Spec

\* However many requests compete for an approval and however many of them
\* fail or die, at most one holds it, and nobody rejects what is held.
THEOREM ClaimsAreExclusive == Spec => []ClaimIsExclusive
BY InductiveInvariant, PTL DEF IInv

\* An approval is executed exactly when the audit trail holds a success.
THEOREM ExecutionsAreRecorded == Spec => []ExecutedIffSucceeded
BY InductiveInvariant, PTL DEF IInv
=============================================================================
