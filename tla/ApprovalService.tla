--------------------------- MODULE ApprovalService --------------------------
(***************************************************************************)
(* The requests that approve, reject or really execute the approvals of a  *)
(* run: ApprovalService (approval/service.py) with the callers that drive  *)
(* it, the API handlers and the CLI commands.  A request is a thread or a  *)
(* process of its own: it runs ActionExecutor and its transactions one     *)
(* after the other, and every other request may step in between.           *)
(*                                                                         *)
(* pc[c] is where request c stands:                                        *)
(*   idle -> dryRun -> dryDone -> sync -> synced -> done    approve        *)
(*           dryRun -> raised -> done                       approve, raise *)
(*   idle -> real -> realDone -> sync -> synced -> done     execute-real   *)
(*   idle -> sync -> synced -> done                         reject         *)
(***************************************************************************)
EXTENDS TraceStore

CONSTANT Faults     \* what may go wrong around a request

ASSUME FaultsAssumption == Faults \subseteq {"raise", "crash"}

VARIABLES
  pc,        \* control state of a request
  req,       \* the approval a request acts on
  copy,      \* the status in the Approval object a request holds
  outcome,   \* the ActionResult a request holds, as a set of at most one row
  effects    \* <<approval, request>>: a real operation reached the system

requestVars == <<pc, req, copy, outcome>>
vars        == <<storeVars, requestVars, effects>>

PC       == {"idle", "dryRun", "dryDone", "raised", "real", "realDone",
             "sync", "synced", "done", "crashed"}

TypeOK ==
  /\ StoreTypeOK
  /\ pc \in [Client -> PC]
  /\ req \in [Client -> Approval]
  /\ copy \in [Client -> ApprovalStatus]
  /\ outcome \in [Client -> SUBSET Row]
  /\ effects \subseteq Approval \X Client

\* The approval a request names is part of the request.
RequestsIdle ==
  /\ pc = [c \in Client |-> "idle"]
  /\ req \in [Client -> Approval]
  /\ copy = [c \in Client |-> "pending"]
  /\ outcome = [c \in Client |-> {}]
  /\ effects = {}

Init ==
  /\ \/ \E s \in {"generating", "not_started"} : DiagnosisSnapshotSaved(s)
     \/ AgentResultSaved
  /\ RequestsIdle

Goto(c, label) == pc' = [pc EXCEPT ![c] = label]

\* A step of the request alone: the tables keep their value.
Locally == UNCHANGED <<storeVars, req, copy, outcome, effects>>

\* The request ends with an error answer (404, 409, 400).
Refuse(c) == Goto(c, "done") /\ Locally

-----------------------------------------------------------------------------
(* approve_with_action_result                                              *)

\* Mutation: the claim no longer looks at the current status.
ApproveWithoutClaim(c) ==
  /\ pc[c] = "idle"
  /\ status' = [status EXCEPT ![req[c]] = "approved"]
  /\ Goto(c, "dryRun")
  /\ copy' = [copy EXCEPT ![c] = "approved"]
  /\ UNCHANGED <<results, runStatus, approvalTodos, actionTodos, reportVars,
                 req, outcome, effects>>

\* The claim is a transaction of its own, before the executor runs.
Approve(c) ==
  /\ pc[c] = "idle"
  /\ \/ /\ ClaimApprovalForDryRun(req[c])
        /\ Goto(c, "dryRun")
        /\ copy' = [copy EXCEPT ![c] = "approved"]
        /\ UNCHANGED <<req, outcome, effects>>
     \/ status[req[c]] # "pending" /\ Refuse(c)

ResultRow(c, mode, ok) ==
  [approval |-> req[c], mode |-> mode, ok |-> ok, by |-> c]

\* ActionExecutor.execute(DRY_RUN) returns: success, or failed or blocked.
DryRunReturns(c) ==
  /\ pc[c] = "dryRun"
  /\ \E ok \in BOOLEAN : outcome' = [outcome EXCEPT ![c] = {ResultRow(c, "dry_run", ok)}]
  /\ Goto(c, "dryDone")
  /\ UNCHANGED <<storeVars, req, copy, effects>>

DryRunRaises(c) ==
  /\ "raise" \in Faults
  /\ pc[c] = "dryRun"
  /\ Goto(c, "raised")
  /\ Locally

\* except Exception: restore_claim, whose own conflict also ends the request.
RestoreClaim(c) ==
  /\ pc[c] = "raised"
  /\ \/ /\ RestoreApprovalClaim(req[c])
        /\ Goto(c, "done")
        /\ UNCHANGED <<req, copy, outcome, effects>>
     \/ status[req[c]] # "approved" /\ Refuse(c)

\* Mutation: a conflict is tried again instead of being answered.
FinalizeRetries(c, from, expected) ==
  /\ pc[c] = from
  /\ \E row \in outcome[c] : FinalizeApprovalAction(row, expected)
  /\ copy' = [copy EXCEPT ![c] = status'[req[c]]]
  /\ Goto(c, "sync")
  /\ UNCHANGED <<req, outcome, effects>>

\* finalize_action: one transaction, or a conflict when the status moved on.
Finalize(c, from, expected) ==
  /\ pc[c] = from
  /\ \/ /\ \E row \in outcome[c] : FinalizeApprovalAction(row, expected)
        /\ copy' = [copy EXCEPT ![c] = status'[req[c]]]
        /\ Goto(c, "sync")
        /\ UNCHANGED <<req, outcome, effects>>
     \/ status[req[c]] \notin expected /\ Refuse(c)

FinalizeDryRun(c) == Finalize(c, "dryDone", {"approved"})

-----------------------------------------------------------------------------
(* execute_real_approved_action                                            *)

\* Mutation: execute-real forgets to look at the approval's status.
MayExecuteRealAny(s) == TRUE

MayExecuteReal(s) == s \in {"approved", "executed"}

\* A plain read: the status is checked, nothing is claimed.
BeginReal(c) ==
  \/ /\ MayExecuteReal(status[req[c]])
     /\ Goto(c, "real")
     /\ copy' = [copy EXCEPT ![c] = status[req[c]]]
     /\ UNCHANGED <<storeVars, req, outcome, effects>>
  \/ ~MayExecuteReal(status[req[c]]) /\ Refuse(c)

ExecuteReal(c) == pc[c] = "idle" /\ BeginReal(c)

\* The interactive CLI's "r": approve, sync, then execute-real.
ThenExecuteReal(c) ==
  /\ pc[c] = "synced"
  /\ \E row \in outcome[c] : row.mode = "dry_run"
  /\ BeginReal(c)

\* ActionExecutor.execute(REAL) returns.  SIGTERM may have been sent by a
\* call that fails (the wait times out), and a success may have found
\* nothing to do (the process was gone).
RealReturns(c) ==
  /\ pc[c] = "real"
  /\ \E ok \in BOOLEAN : outcome' = [outcome EXCEPT ![c] = {ResultRow(c, "real", ok)}]
  /\ \/ effects' = effects \cup {<<req[c], c>>}
     \/ effects' = effects
  /\ Goto(c, "realDone")
  /\ UNCHANGED <<storeVars, req, copy>>

RealRaises(c) ==
  /\ "raise" \in Faults
  /\ pc[c] = "real"
  /\ Refuse(c)

\* Mutation: only a freshly approved action may be finalized.
FinalizeRealOnce(c) == Finalize(c, "realDone", {"approved"})

FinalizeReal(c) == Finalize(c, "realDone", {"approved", "executed"})

-----------------------------------------------------------------------------
(* reject, and what every caller does after the service has answered       *)

Reject(c) ==
  /\ pc[c] = "idle"
  /\ \/ /\ RejectPendingApproval(req[c])
        /\ copy' = [copy EXCEPT ![c] = "rejected"]
        /\ Goto(c, "sync")
        /\ UNCHANGED <<req, outcome, effects>>
     \/ status[req[c]] # "pending" /\ Refuse(c)

\* sync_approval_trace, with the approval the service returned.
SyncApprovalTrace(c) ==
  /\ pc[c] = "sync"
  /\ ApplyApprovalTransition(req[c], copy[c], outcome[c])
  /\ Goto(c, "synced")
  /\ UNCHANGED <<req, copy, outcome, effects>>

Answer(c) ==
  /\ pc[c] = "synced"
  /\ Refuse(c)

\* The process that serves the request dies between two of its steps, or a
\* store call raises (a locked database) and the request ends where it stood.
Crash(c) ==
  /\ "crash" \in Faults
  /\ pc[c] \notin {"idle", "done", "crashed"}
  /\ Goto(c, "crashed")
  /\ Locally

-----------------------------------------------------------------------------
Request(c) ==
  \/ DryRunReturns(c) \/ DryRunRaises(c) \/ RestoreClaim(c) \/ FinalizeDryRun(c)
  \/ RealReturns(c) \/ RealRaises(c) \/ FinalizeReal(c)
  \/ SyncApprovalTrace(c) \/ Answer(c) \/ ThenExecuteReal(c)

Next ==
  \E c \in Client :
    \/ Approve(c) \/ ExecuteReal(c) \/ Reject(c)
    \/ Request(c) \/ Crash(c)

\* Nobody has to send a request; one that runs goes on until it answers,
\* since every step of it is straight-line code without a lock or a wait.
Fairness == \A c \in Client : WF_vars(Request(c))

Spec == Init /\ [][Next]_vars /\ Fairness

-----------------------------------------------------------------------------
(* Properties *)

\* Request c holds the dry-run claim on approval a.
Holds(c, a) == pc[c] \in {"dryRun", "dryDone", "raised"} /\ req[c] = a

AtRest == \A c \in Client : pc[c] \in {"idle", "done"}

\* The compare-and-swap of claim_approval_for_dry_run gives an approval to one
\* request at a time, however requests, restored claims and late syncs
\* interleave, and what a request has claimed cannot be rejected or be
\* offered to another one while its dry run is under way.
ClaimIsExclusive ==
  \A c \in Client, a \in Approval :
    Holds(c, a) => /\ status[a] \in {"approved", "executed"}
                   /\ \A d \in Client : Holds(d, a) => d = c

\* A decision is final: no stale copy written back by sync_approval_trace,
\* no restored claim and no late result ever reopens a rejected or executed
\* approval.
DecisionIsFinal ==
  [][\A a \in Approval : status[a] \in {"rejected", "executed"}
                            => status'[a] = status[a]]_vars

\* The audit trail and the approval table agree: an approval is executed
\* exactly when action_results holds a successful execution of it.
ExecutedIffSucceeded ==
  \A a \in Approval :
    status[a] = "executed" <=> \E row \in results : row.approval = a /\ row.ok

\* What the final report says of a decision has happened: it never shows a
\* rejection, an execution or an action result that is not in the tables.
ReportNeverInvents ==
  finalReport # NoReport =>
    /\ finalReport.results \subseteq results
    /\ \A a \in Approval :
         finalReport.approvals[a] \in {"rejected", "executed"}
           => status[a] = finalReport.approvals[a]

\* A run is failed only if one of its actions did not succeed.
FailedRunHasFailure ==
  runStatus = "failed" => \E row \in results : ~row.ok

\* Between requests the derived rows tell the truth about the approvals: the
\* run waits exactly while an approval is pending, and phase and tasks agree.
DerivedStateSettles ==
  AtRest =>
    /\ IF SomePending(status)
         THEN /\ runStatus = "waiting_approval"
              /\ approvalPhase \in {"approval_detected", "waiting_approval"}
         ELSE /\ runStatus \in {"completed", "failed"}
              /\ approvalPhase = "completed"
    /\ \A a \in Approval :
         \/ approvalTask[a] = TaskOf(status[a])
         \/ status[a] = "pending" /\ approvalTask[a] = "approval_detected"

\* Every real operation is accounted for: once its request has answered, the
\* operation has a row in action_results.
EffectsAreAudited ==
  \A e \in effects :
    pc[e[2]] \in {"sync", "synced", "done"} =>
      \E row \in results : /\ row.approval = e[1]
                           /\ row.mode = "real"
                           /\ row.by = e[2]

\* Real operations only ever hit approvals that are approved or executed at
\* that moment, although execute-real checks the status long before it acts.
EffectsNeedApproval ==
  [][\A a \in Approval, c \in Client :
       <<a, c>> \in effects' \ effects => status[a] \in {"approved", "executed"}]_vars
=============================================================================
