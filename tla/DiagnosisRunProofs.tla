-------------------------- MODULE DiagnosisRunProofs --------------------------
(***************************************************************************)
(* The report of a run, for any approvals, requests and faults and however *)
(* often the API stops: who writes its columns, and what its text says.    *)
(*                                                                         *)
(* The job and the startup hook write the status of the report, requests   *)
(* rewrite its text, and the job writes a text from a trace it read two    *)
(* steps earlier.  JobInv ties the columns to the control state of the     *)
(* job, HeldInv ties what the job holds to the tables of now.              *)
(***************************************************************************)
EXTENDS DiagnosisRun, ApprovalOutcomeProofs

Writing == {"queued", "generating", "reconciling", "finalizing"}

\* There is no text before the job has written it, and a job that ends in
\* order has left a status that is not "generating".  The CLI's job never
\* says "generating" and needs no recovery.
JobInv ==
  /\ job \in Writing => finalReport = NoReport
  /\ job = "publishing" => reportStatus \in {"ready", "fallback"}
  /\ driver = "cli" => job # "queued" /\ reportStatus # "generating"

\* What the tables hold is at least what an earlier trace held: rows are
\* never deleted and decisions are final.
Covered(sts, rows) ==
  /\ rows \subseteq results
  /\ \A a \in Approval : sts[a] \in {"rejected", "executed"} => status[a] = sts[a]

HeldInv == \A held \in report : Covered(held.status, held.results)

RunInv ==
  /\ RunTypeOK
  /\ JobInv
  /\ ReportStatusAgrees
  /\ GeneratingHasAJob
  /\ HeldInv
  /\ ReportNeverInvents

-----------------------------------------------------------------------------
(* What the requests do to the report and to the tables it shows.          *)

\* What the tables covered they still cover.
LEMMA CoveredStep ==
  ASSUME TypeOK, [Next]_vars, NEW sts, NEW rows, Covered(sts, rows)
  PROVE  Covered(sts, rows)'
<1>1. \A a \in Approval : status[a] \in {"rejected", "executed"} => status'[a] = status[a]
  BY DecisionStep
<1>2. results \subseteq results'
  BY TablesStep DEF TablesFollow
<1>. QED BY <1>1, <1>2 DEF Covered

\* A text made of well-typed tables is a text, and shows what they hold.
LEMMA RenderIsText ==
  ASSUME NEW sts \in [Approval -> ApprovalStatus], NEW rows \in SUBSET Row
  PROVE  /\ Render(sts, rows) \in ReportText
         /\ Render(sts, rows) # NoReport
         /\ Render(sts, rows).approvals = sts
         /\ Render(sts, rows).results = rows
BY NoReportAssumption DEF Render, ReportText

\* Requests preserve the invariant of the run.
LEMMA RequestPreserves ==
  ASSUME RunInv, [Next]_vars, UNCHANGED jobVars
  PROVE  RunInv'
<1>1. TypeOK'
  BY TypeStep DEF RunInv, RunTypeOK
<1>2. RunTypeOK'
  BY <1>1 DEF RunInv, RunTypeOK, jobVars
<1>3. TablesFollow
  BY TablesStep
<1>4. Render(status', results') # NoReport
  BY <1>1, RenderIsText DEF TypeOK, StoreTypeOK
<1>5. finalReport' = NoReport <=> finalReport = NoReport
  BY <1>3, <1>4 DEF TablesFollow
<1>6. JobInv' /\ ReportStatusAgrees' /\ GeneratingHasAJob'
  BY <1>3, <1>5
  DEF RunInv, TablesFollow, JobInv, ReportStatusAgrees, GeneratingHasAJob, jobVars
<1>7. HeldInv'
  BY CoveredStep DEF RunInv, RunTypeOK, HeldInv, jobVars, Covered
<1>8. ReportNeverInvents'
  <2>1. CASE finalReport' = finalReport
    BY <2>1, CoveredStep DEF RunInv, RunTypeOK, ReportNeverInvents, Covered
  <2>2. CASE finalReport' = Render(status', results')
    BY <2>2 DEF ReportNeverInvents, Render
  <2>. QED BY <1>3, <2>1, <2>2 DEF TablesFollow
<1>. QED BY <1>2, <1>6, <1>7, <1>8 DEF RunInv

-----------------------------------------------------------------------------
(* What the job and the processes do.                                      *)

\* A step that keeps the approvals and their results, and the text.
LEMMA TextIsKept ==
  ASSUME RunInv, UNCHANGED <<status, results, finalReport>>,
         report' \in {{}, report, {GetTrace}}
  PROVE  HeldInv' /\ ReportNeverInvents'
<1>1. ASSUME NEW held \in report'
      PROVE  Covered(held.status, held.results)'
  <2>1. CASE held \in report
    BY <2>1 DEF RunInv, HeldInv, Covered
  <2>2. CASE held = GetTrace
    BY <2>2 DEF GetTrace, Covered
  <2>. QED BY <1>1, <2>1, <2>2
<1>2. HeldInv'
  BY <1>1 DEF HeldInv, Covered
<1>. QED BY <1>2 DEF RunInv, ReportNeverInvents

\* A status written alone keeps the tables well typed.
LEMMA UpdateReportStatusType ==
  ASSUME StoreTypeOK, NEW s \in ReportStatus, UpdateReportStatus(s)
  PROVE  StoreTypeOK'
BY DEF UpdateReportStatus, StoreTypeOK, approvalTodos, actionTodos

\* The requests of a run do not notice its job.
LEMMA JobGoesType ==
  ASSUME RunInv, NEW from \in Job, NEW to \in Job, JobGoes(from, to), StoreTypeOK'
  PROVE  RunTypeOK'
<1>1. TypeOK'
  BY DEF JobGoes, RunInv, RunTypeOK, TypeOK, requestVars
<1>2. GetTrace \in Trace
  BY DEF RunInv, RunTypeOK, TypeOK, StoreTypeOK, GetTrace, Trace
<1>. QED BY <1>1, <1>2 DEF JobGoes, RunInv, RunTypeOK

\* A step of the job that leaves the tables alone.
LEMMA JobMoves ==
  ASSUME RunInv, NEW from \in Job, NEW to \in Job \ {"queued", "publishing", "lost"},
         JobGoes(from, to), UNCHANGED storeVars,
         from \in Writing \/ to \notin Writing,
         to = "done" => reportStatus # "generating"
  PROVE  RunInv'
<1>1. RunTypeOK'
  BY JobGoesType DEF RunInv, RunTypeOK, TypeOK, StoreTypeOK, storeVars,
     approvalTodos, actionTodos, reportVars
<1>2. JobInv' /\ ReportStatusAgrees' /\ GeneratingHasAJob'
  BY DEF RunInv, JobInv, ReportStatusAgrees, GeneratingHasAJob, JobGoes, Writing,
     storeVars, reportVars
<1>3. HeldInv' /\ ReportNeverInvents'
  BY TextIsKept DEF JobGoes, storeVars, reportVars
<1>. QED BY <1>1, <1>2, <1>3 DEF RunInv

\* The job's own writes of the status: before it starts, and when it failed.
LEMMA StatusWritten ==
  ASSUME RunInv,
         \/ JobGoes("queued", "generating") /\ UpdateReportStatus("generating")
         \/ JobGoes("failing", "done") /\ UpdateReportStatus("failed")
  PROVE  RunInv'
<1>1. StoreTypeOK'
  BY UpdateReportStatusType DEF RunInv, RunTypeOK, TypeOK, ReportStatus
<1>2. RunTypeOK'
  BY <1>1, JobGoesType DEF Job
<1>3. JobInv' /\ ReportStatusAgrees' /\ GeneratingHasAJob'
  BY DEF RunInv, JobInv, ReportStatusAgrees, GeneratingHasAJob, JobGoes, Writing,
     UpdateReportStatus
<1>4. HeldInv' /\ ReportNeverInvents'
  BY TextIsKept DEF JobGoes, UpdateReportStatus
<1>. QED BY <1>2, <1>3, <1>4 DEF RunInv

\* The job writes the text of the trace it holds.
LEMMA ReportFinalized ==
  ASSUME RunInv, FinalizeReport
  PROVE  RunInv'
<1>1. PICK held \in report, reportState \in {"ready", "fallback"} :
        FinalizeReportSnapshot(held, reportState)
  BY DEF FinalizeReport
<1>2. held \in Trace /\ Covered(held.status, held.results)
  BY DEF RunInv, RunTypeOK, HeldInv
<1>3. /\ finalReport' \in ReportText /\ finalReport' # NoReport
      /\ finalReport'.approvals = held.status /\ finalReport'.results = held.results
  BY <1>1, <1>2, RenderIsText DEF FinalizeReportSnapshot, Trace
<1>4. StoreTypeOK'
  <2>1. \A s, t \in TodoStatus : MergedTodo(s, t) \in TodoStatus
    BY DEF MergedTodo
  <2>2. \A s, t \in RunStatus : RunStatusAfterReport(s, t) \in RunStatus
    BY DEF RunStatusAfterReport
  <2>3. /\ approvalPhase' \in TodoStatus /\ actionPhase' \in TodoStatus
        /\ approvalTask' \in [Approval -> TodoStatus]
        /\ actionTask' \in [Approval -> TodoStatus]
        /\ runStatus' \in RunStatus
    BY <1>1, <1>2, <2>1, <2>2
    DEF FinalizeReportSnapshot, Trace, RunInv, RunTypeOK, TypeOK, StoreTypeOK
  <2>. QED
    BY <1>1, <1>3, <2>3 DEF FinalizeReportSnapshot, RunInv, RunTypeOK, TypeOK, StoreTypeOK,
       ReportStatus, TodoStatus
<1>5. RunTypeOK'
  BY <1>4, JobGoesType DEF FinalizeReport, Job
<1>6. JobInv' /\ ReportStatusAgrees' /\ GeneratingHasAJob'
  BY <1>1, <1>3 DEF RunInv, JobInv, ReportStatusAgrees, GeneratingHasAJob, JobGoes, Writing,
     FinalizeReport, FinalizeReportSnapshot
<1>7. HeldInv'
  BY DEF FinalizeReport, JobGoes, HeldInv
<1>8. ReportNeverInvents'
  BY <1>1, <1>2, <1>3 DEF ReportNeverInvents, Covered, FinalizeReportSnapshot
<1>. QED BY <1>5, <1>6, <1>7, <1>8 DEF RunInv

\* Every step of the job preserves the invariant.
LEMMA JobPreserves ==
  ASSUME RunInv, JobStep
  PROVE  RunInv'
<1>1. CASE StartReport
  BY <1>1, StatusWritten, JobMoves DEF StartReport, Job, Writing
<1>2. CASE GenerateReport \/ ReconcileReport
  BY <1>2, JobMoves DEF GenerateReport, ReconcileReport, Job, Writing
<1>3. CASE FinalizeReport
  BY <1>3, ReportFinalized
<1>4. CASE PublishReport
  <2>1. reportStatus # "generating"
    BY <1>4 DEF PublishReport, JobGoes, RunInv, JobInv
  <2>. QED BY <1>4, <2>1, JobMoves DEF PublishReport, Job, Writing
<1>5. CASE ReportRaises
  <2>1. PICK from \in {"generating", "reconciling", "finalizing", "publishing"} :
          JobGoes(from, IF driver = "api" THEN "failing" ELSE "abandoned")
    BY <1>5 DEF ReportRaises
  <2>. QED BY <1>5, <2>1, JobMoves DEF ReportRaises, Job, Writing
<1>6. CASE MarkReportFailed
  BY <1>6, StatusWritten, JobMoves DEF MarkReportFailed, Job, Writing
<1>. QED BY <1>1, <1>2, <1>3, <1>4, <1>5, <1>6 DEF JobStep

\* A process that stops leaves the tables alone: a job of the API's that was
\* under way is lost with the API down, the CLI's never said "generating".
LEMMA StopPreserves ==
  ASSUME RunInv, ApiStops \/ CliStops
  PROVE  RunInv'
<1>1. UNCHANGED <<vars, driver>> /\ report' \in {{}, report}
  BY DEF ApiStops, CliStops, JobIsLost
<1>2. TypeOK'
  BY <1>1 DEF RunInv, RunTypeOK, TypeOK, StoreTypeOK, vars, storeVars, requestVars,
     approvalTodos, actionTodos, reportVars
<1>3. RunTypeOK'
  BY <1>1, <1>2, MaxStopsAssumption
  DEF RunInv, RunTypeOK, ApiStops, CliStops, JobIsLost, Job
<1>4. JobInv' /\ ReportStatusAgrees' /\ GeneratingHasAJob'
  BY <1>1 DEF RunInv, RunTypeOK, JobInv, ReportStatusAgrees, GeneratingHasAJob, ApiStops,
     CliStops, JobIsLost, Writing, vars, storeVars, reportVars
<1>5. HeldInv' /\ ReportNeverInvents'
  BY <1>1, TextIsKept DEF vars, storeVars, reportVars
<1>. QED BY <1>3, <1>4, <1>5 DEF RunInv

\* The startup hook takes every report out of "generating".
LEMMA StartPreserves ==
  ASSUME RunInv, ApiStarts
  PROVE  RunInv'
<1>1. PICK s \in ReportStatus \ {"generating"} :
        /\ UpdateReportStatus(s)
        /\ s = IF reportStatus = "generating" THEN "failed" ELSE reportStatus
  BY DEF ApiStarts, FailGeneratingReports, ReportStatus, RunInv, RunTypeOK, TypeOK, StoreTypeOK
<1>2. StoreTypeOK'
  BY <1>1, UpdateReportStatusType DEF RunInv, RunTypeOK, TypeOK
<1>3. RunTypeOK'
  BY <1>2 DEF ApiStarts, RunInv, RunTypeOK, TypeOK, requestVars
<1>4. JobInv' /\ ReportStatusAgrees' /\ GeneratingHasAJob'
  BY <1>1 DEF ApiStarts, RunInv, JobInv, ReportStatusAgrees, GeneratingHasAJob, Writing,
     UpdateReportStatus
<1>5. HeldInv' /\ ReportNeverInvents'
  BY <1>1, TextIsKept DEF ApiStarts, UpdateReportStatus
<1>. QED BY <1>3, <1>4, <1>5 DEF RunInv

-----------------------------------------------------------------------------
(* The theorems.                                                           *)

\* The invariant of the run holds whatever requests, job and processes do.
THEOREM RunInvariant == RunSpec => []RunInv
<1>1. RunInit => RunInv
  <2> SUFFICES ASSUME RunInit PROVE RunInv
    OBVIOUS
  <2>1. Init
    BY DEF RunInit, Init
  <2>2. TypeOK
    BY <2>1, InitialTablesType DEF Init, RequestsIdle, TypeOK, PC, ApprovalStatus
  <2>3. RunTypeOK
    BY <2>2, MaxStopsAssumption DEF RunInit, RunTypeOK, Job
  <2>4. JobInv /\ ReportStatusAgrees /\ GeneratingHasAJob /\ HeldInv /\ ReportNeverInvents
    BY DEF RunInit, DiagnosisSnapshotSaved, JobInv, Writing, ReportStatusAgrees,
       GeneratingHasAJob, HeldInv, ReportNeverInvents
  <2>. QED BY <2>3, <2>4 DEF RunInv
<1>2. RunInv /\ [RunNext]_runVars => RunInv'
  BY RequestPreserves, JobPreserves, StopPreserves, StartPreserves DEF RunNext, runVars
<1>. QED BY <1>1, <1>2, PTL DEF RunSpec

\* Tables, requests, job and API keep their types.
THEOREM RunTypeCorrect == RunSpec => []RunTypeOK
BY RunInvariant, PTL DEF RunInv

\* The status of a report and its text agree.
THEOREM ReportStatusesAgree == RunSpec => []ReportStatusAgrees
BY RunInvariant, PTL DEF RunInv

\* A report that is "generating" has a job at it, or recovery ahead of it.
THEOREM NobodyPollsInVain == RunSpec => []GeneratingHasAJob
BY RunInvariant, PTL DEF RunInv

\* A report shows no decision and no result that the tables do not hold,
\* although its text is written from a trace that was read before.
THEOREM ReportsInventNothing == RunSpec => []ReportNeverInvents
BY RunInvariant, PTL DEF RunInv

\* A published report stays published.
THEOREM PublishedReportsStay == RunSpec => PublishedStaysServed
<1>1. RunInv /\ RunInv' /\ [RunNext]_runVars =>
        [finalReport # NoReport
           => /\ finalReport' # NoReport
              /\ reportStatus' \in {"ready", "fallback", "failed"}]_runVars
  <2> SUFFICES ASSUME RunInv, RunInv', [RunNext]_runVars, finalReport # NoReport
               PROVE  finalReport' # NoReport
    BY DEF RunInv, RunTypeOK, TypeOK, StoreTypeOK, ReportStatus, ReportStatusAgrees
  <2>1. CASE [Next]_vars
    <3>1. Render(status', results') # NoReport
      BY RenderIsText DEF RunInv, RunTypeOK, TypeOK, StoreTypeOK
    <3>. QED BY <2>1, <3>1, TablesStep DEF TablesFollow
  <2>2. CASE JobStep
    <3>1. job \notin Writing
      BY DEF RunInv, JobInv
    <3>. QED
      BY <2>2, <3>1 DEF JobStep, StartReport, GenerateReport, ReconcileReport,
         FinalizeReport, PublishReport, ReportRaises, MarkReportFailed, JobGoes, Writing,
         UpdateReportStatus, storeVars, reportVars
  <2>3. CASE ApiStops \/ ApiStarts \/ CliStops
    BY <2>3 DEF ApiStops, ApiStarts, CliStops, FailGeneratingReports, UpdateReportStatus,
       vars, storeVars, reportVars
  <2>. QED BY <2>1, <2>2, <2>3 DEF RunNext, runVars
<1>. QED BY <1>1, RunInvariant, PTL DEF RunSpec, PublishedStaysServed

-----------------------------------------------------------------------------
(* Executors that return: the report does not undo what the requests did.  *)

\* What a trace says of the approvals it holds as pending; the others are
\* still decided.
HeldTrue(held) ==
  /\ SomePending(held.status) =>
       held.runStatus = "waiting_approval" /\ held.approvalPhase \in Waiting
  /\ \A a \in Approval :
       IF held.status[a] = "pending" THEN held.approvalTask[a] \in Waiting
                                     ELSE status[a] # "pending"

HeldDerivedInv == \A held \in report : HeldTrue(held)

\* RunInv says what the text of the report shows, GrantedInv what the requests
\* keep true, HeldDerivedInv what the job may write over it.
RunGrantedInv == RunInv /\ GrantedInv /\ HeldDerivedInv

\* A step of a request keeps what the held trace says.
LEMMA RequestGrants ==
  ASSUME NoRaise, RunGrantedInv, [Next]_vars, UNCHANGED jobVars
  PROVE  RunGrantedInv'
<1>1. RunInv' /\ GrantedInv'
  BY RequestPreserves, GrantedStep DEF RunGrantedInv
<1>2. ASSUME NEW a \in Approval, status[a] # "pending"
      PROVE  status'[a] # "pending"
  <2>1. CASE Next
    <3>1. PICK c \in Client : OrdinaryStep(c)
      BY <2>1, StepKind DEF RunGrantedInv, GrantedInv
    <3>. QED BY <1>2, <3>1, GrantsStay DEF RunGrantedInv, RunInv, RunTypeOK
  <2>2. CASE UNCHANGED vars
    BY <1>2, <2>2 DEF vars, storeVars
  <2>. QED BY <2>1, <2>2
<1>3. HeldDerivedInv'
  BY <1>2 DEF RunGrantedInv, HeldDerivedInv, HeldTrue, SomePending, jobVars
<1>. QED BY <1>1, <1>3 DEF RunGrantedInv

\* Job and processes touch no approval, no result and no request, and of the
\* derived rows only what the report carries.
LEMMA OthersTouch ==
  ASSUME RunInv, JobStep \/ ApiStops \/ ApiStarts \/ CliStops
  PROVE  /\ UNCHANGED <<status, results, requestVars, effects>>
         /\ FinalizeReport \/ UNCHANGED <<runStatus, approvalTodos>>
         /\ report' \in {{}, report, {GetTrace}}
<1>1. CASE JobStep
  <2>1. CASE FinalizeReport
    BY <2>1 DEF FinalizeReport, FinalizeReportSnapshot, JobGoes
  <2>2. CASE StartReport \/ MarkReportFailed
    BY <2>2 DEF StartReport, MarkReportFailed, JobGoes, UpdateReportStatus, storeVars
  <2>3. CASE GenerateReport \/ ReconcileReport \/ PublishReport \/ ReportRaises
    BY <2>3 DEF GenerateReport, ReconcileReport, PublishReport, ReportRaises, JobGoes, storeVars
  <2>. QED BY <1>1, <2>1, <2>2, <2>3 DEF JobStep
<1>2. CASE ApiStops \/ CliStops
  BY <1>2 DEF ApiStops, CliStops, JobIsLost, vars, storeVars
<1>3. CASE ApiStarts
  BY <1>3 DEF ApiStarts, FailGeneratingReports, UpdateReportStatus
<1>. QED BY <1>1, <1>2, <1>3

\* The report's copy of run, phase and tasks is merged so that it reopens
\* nothing, and what it brings back is still waited for.
LEMMA ReportKeepsDerived ==
  ASSUME RunGrantedInv, FinalizeReport
  PROVE  DerivedInv'
<1>1. PICK held \in report, reportState \in {"ready", "fallback"} :
        FinalizeReportSnapshot(held, reportState)
  BY DEF FinalizeReport
<1>2. /\ UNCHANGED <<status, pc, req>>
      /\ runStatus' = RunStatusAfterReport(runStatus, held.runStatus)
      /\ approvalPhase' = MergedTodo(approvalPhase, held.approvalPhase)
      /\ \A a \in Approval :
           approvalTask'[a] = MergedTodo(approvalTask[a], held.approvalTask[a])
  BY <1>1 DEF FinalizeReport, FinalizeReportSnapshot, JobGoes, requestVars
<1>3. HeldTrue(held)
  BY DEF RunGrantedInv, HeldDerivedInv
<1>4. SomeCrash' = SomeCrash /\ \A a \in Approval : InFlight(a)' = InFlight(a)
  BY <1>2 DEF SomeCrash, InFlight
<1>5. SomePending(status) => runStatus' = "waiting_approval" /\ approvalPhase' \in Waiting
  <2>. SUFFICES ASSUME SomePending(status)
                PROVE  runStatus' = "waiting_approval" /\ approvalPhase' \in Waiting
    OBVIOUS
  <2>1. SomePending(held.status)
    BY <1>3 DEF HeldTrue, SomePending
  <2>. QED BY <1>2, <1>3, <2>1
       DEF HeldTrue, RunGrantedInv, GrantedInv, DerivedInv, RunStatusAfterReport, MergedTodo
<1>6. ASSUME ~SomePending(status)
      PROVE  \/ runStatus' \in {"completed", "failed"} /\ approvalPhase' = "completed"
             \/ SomeCrash \/ \E a \in Approval : InFlight(a)
  BY <1>2, <1>6 DEF RunGrantedInv, GrantedInv, DerivedInv, RunStatusAfterReport, MergedTodo,
     Preserved
<1>7. ASSUME NEW a \in Approval, status[a] = "pending"
      PROVE  approvalTask'[a] \in Waiting
  BY <1>2, <1>3, <1>7 DEF HeldTrue, RunGrantedInv, GrantedInv, DerivedInv, MergedTodo
<1>8. ASSUME NEW a \in Approval, status[a] # "pending"
      PROVE  approvalTask'[a] = TaskOf(status[a]) \/ SomeCrash \/ InFlight(a)
  <2>1. TaskOf(status[a]) \in Preserved
    BY <1>8 DEF TaskOf, Preserved
  <2>. QED BY <1>2, <1>8, <2>1 DEF RunGrantedInv, GrantedInv, DerivedInv, MergedTodo
<1>. QED BY <1>2, <1>4, <1>5, <1>6, <1>7, <1>8 DEF DerivedInv

\* Job and processes preserve the invariant of the requests.
LEMMA OthersGrant ==
  ASSUME RunGrantedInv, RunInv', JobStep \/ ApiStops \/ ApiStarts \/ CliStops
  PROVE  RunGrantedInv'
<1>1. /\ UNCHANGED <<status, results, pc, req, copy, outcome, effects>>
      /\ FinalizeReport \/ UNCHANGED <<runStatus, approvalPhase, approvalTask>>
      /\ report' \in {{}, report, {GetTrace}}
  BY OthersTouch DEF RunGrantedInv, requestVars, approvalTodos
<1>2. TypeOK'
  BY DEF RunInv, RunTypeOK
<1>3. IInv'
  BY <1>1, <1>2 DEF RunGrantedInv, GrantedInv, IInv, RequestInv, ClaimIsExclusive, Holds,
     ExecutedIffSucceeded
<1>4. OrdinaryInv' /\ AuditInv'
  BY <1>1 DEF RunGrantedInv, GrantedInv, OrdinaryInv, AuditInv
<1>5. DerivedInv'
  <2>1. CASE UNCHANGED <<runStatus, approvalPhase, approvalTask>>
    BY <1>1, <2>1 DEF RunGrantedInv, GrantedInv, DerivedInv, SomePending, SomeCrash, InFlight
  <2>. QED BY <1>1, <2>1, ReportKeepsDerived
<1>6. ASSUME NEW held \in report'
      PROVE  HeldTrue(held)'
  <2>1. CASE held \in report
    BY <1>1, <2>1 DEF RunGrantedInv, HeldDerivedInv, HeldTrue, SomePending
  <2>2. CASE held = GetTrace
    BY <1>1, <2>2 DEF GetTrace, RunGrantedInv, GrantedInv, DerivedInv, HeldTrue, SomePending
  <2>. QED BY <1>1, <1>6, <2>1, <2>2
<1>7. HeldDerivedInv'
  BY <1>6 DEF HeldDerivedInv
<1>. QED BY <1>3, <1>4, <1>5, <1>7 DEF RunGrantedInv, GrantedInv

\* What the requests keep true holds next to the job and the restarts.
THEOREM RunGrantsHold ==
  ASSUME NoRaise, Approval # {}
  PROVE  RunSpec => []RunGrantedInv
<1>1. RunInit => GrantedInv /\ HeldDerivedInv
  <2> SUFFICES ASSUME RunInit PROVE GrantedInv /\ HeldDerivedInv
    OBVIOUS
  <2>1. Init
    BY DEF RunInit, Init
  <2>. QED BY <2>1, GrantedInit DEF RunInit, HeldDerivedInv
<1>2. RunInv' /\ RunGrantedInv /\ [RunNext]_runVars => RunGrantedInv'
  BY RequestGrants, OthersGrant DEF RunNext, runVars
<1>3. RunGrantedInv <=> RunInv /\ GrantedInv /\ HeldDerivedInv
  BY DEF RunGrantedInv
<1>. QED BY <1>1, <1>2, <1>3, RunInvariant, PTL DEF RunSpec

\* Next to a report job and restarts, too, run, phase and tasks tell the truth
\* between requests.
THEOREM DerivedStateOfRunTrue ==
  ASSUME NoRaise, Approval # {}
  PROVE  RunSpec => []DerivedStateSettles
<1>1. RunGrantedInv => DerivedStateSettles
  BY DerivedAtRest DEF RunGrantedInv, GrantedInv
<1>. QED BY <1>1, RunGrantsHold, PTL
=============================================================================
