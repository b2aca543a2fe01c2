----------------------------- MODULE DiagnosisRun -----------------------------
(***************************************************************************)
(* A diagnosis run after its snapshot has been saved: the job that writes  *)
(* the final report (app/report_jobs.py, or the interactive CLI), the API  *)
(* process that may stop and start again, and, all the while, the requests *)
(* of ApprovalService.                                                     *)
(*                                                                         *)
(*   queued -> generating -> reconciling -> finalizing -> publishing       *)
(*                                                          -> done        *)
(* An exception leads from `generating' and the later states to `failing', *)
(* where the job marks the report as failed; an exception nobody catches   *)
(* leaves the job `abandoned', and a job whose process stops is `lost'.    *)
(***************************************************************************)
EXTENDS ApprovalService, Naturals

CONSTANT MaxStops   \* how often the API process stops

ASSUME MaxStopsAssumption == MaxStops \in Nat

VARIABLES
  driver,        \* who runs the job: the API's thread pool or the CLI
  job,           \* its control state
  report,        \* the trace its ReportSnapshot is reconciled with, as a set
                 \* of at most one
  api,           \* the API process
  stops          \* how often the API process has stopped

jobVars == <<driver, job, report, api, stops>>
runVars == <<vars, jobVars>>

Job == {"queued", "generating", "reconciling", "finalizing", "publishing",
        "failing", "done", "abandoned", "lost"}

RunTypeOK ==
  /\ TypeOK
  /\ driver \in {"api", "cli"}
  /\ job \in Job
  /\ report \subseteq Trace
  /\ api \in {"up", "down"}
  /\ stops \in 0..MaxStops

\* POST /diagnose saves the snapshot and submits the job; the interactive CLI
\* saves it and starts to generate the report on a thread of its own.
RunInit ==
  /\ \/ driver = "api" /\ job = "queued" /\ DiagnosisSnapshotSaved("generating")
     \/ driver = "cli" /\ job = "generating" /\ DiagnosisSnapshotSaved("not_started")
  /\ RequestsIdle
  /\ report = {}
  /\ api = "up"
  /\ stops = 0

-----------------------------------------------------------------------------
(* The job.  `from' and `to' are its control states; it holds a reconciled  *)
(* ReportSnapshot from its read of the trace to its write of the report.    *)

JobGoes(from, to) ==
  /\ job = from
  /\ job' = to
  /\ report' = IF to = "finalizing" THEN {GetTrace} ELSE {}
  /\ UNCHANGED <<requestVars, effects, driver, api, stops>>

\* Outside the try block: when this first write raises, nobody marks the report.
StartReport ==
  \/ /\ JobGoes("queued", "generating")
     /\ UpdateReportStatus("generating")
  \/ /\ JobGoes("queued", "abandoned")
     /\ UNCHANGED storeVars

GenerateReport ==
  /\ JobGoes("generating", "reconciling")
  /\ UNCHANGED storeVars

\* Mutation: the report is called ready before its text is stored.
ReconcileReportReadyEarly ==
  /\ JobGoes("reconciling", "finalizing")
  /\ UpdateReportStatus("ready")

ReconcileReport ==
  /\ JobGoes("reconciling", "finalizing")
  /\ UNCHANGED storeVars

\* Mutation: the status of the ReportSnapshot is stored as it is.
FinalizeReportRaw ==
  /\ JobGoes("finalizing", "publishing")
  /\ \E held \in report, reportState \in {"success", "fallback"} :
       FinalizeReportSnapshot(held, reportState)

\* "fallback" when the LLM failed and the deterministic text stands in.
FinalizeReport ==
  /\ JobGoes("finalizing", "publishing")
  /\ \E held \in report, reportState \in {"ready", "fallback"} :
       FinalizeReportSnapshot(held, reportState)

\* Mutation: a workspace that cannot be written makes the job start over.
PublishReportRetries ==
  /\ \/ JobGoes("publishing", "done")
     \/ JobGoes("publishing", "queued")
  /\ UNCHANGED storeVars

\* apply_report_snapshot: an OSError is logged and forgotten.
PublishReport ==
  /\ JobGoes("publishing", "done")
  /\ UNCHANGED storeVars

\* Any step of the try block may raise.  Only the API's job catches it.
ReportRaises ==
  /\ \E from \in {"generating", "reconciling", "finalizing", "publishing"} :
       JobGoes(from, IF driver = "api" THEN "failing" ELSE "abandoned")
  /\ UNCHANGED storeVars

\* except Exception: mark_report_failed, which may raise in its turn.
MarkReportFailed ==
  \/ /\ JobGoes("failing", "done")
     /\ UpdateReportStatus("failed")
  \/ /\ JobGoes("failing", "abandoned")
     /\ UNCHANGED storeVars

JobStep ==
  \/ StartReport \/ GenerateReport \/ ReconcileReport \/ FinalizeReport
  \/ PublishReport \/ ReportRaises \/ MarkReportFailed

-----------------------------------------------------------------------------
(* Processes that stop and start.                                          *)

JobIsLost ==
  /\ job' = IF job \in {"done", "abandoned"} THEN job ELSE "lost"
  /\ report' = {}

ApiStops ==
  /\ api = "up"
  /\ stops < MaxStops
  /\ api' = "down"
  /\ stops' = stops + 1
  /\ \/ driver = "api" /\ JobIsLost
     \/ driver = "cli" /\ UNCHANGED <<job, report>>
  /\ UNCHANGED <<vars, driver>>

\* Mutation: the startup hook recovers nothing.
ApiStartsWithoutRecovery ==
  /\ api = "down"
  /\ api' = "up"
  /\ UNCHANGED <<vars, driver, job, report, stops>>

\* The startup hook: recover_interrupted_report_jobs.
ApiStarts ==
  /\ api = "down"
  /\ api' = "up"
  /\ FailGeneratingReports
  /\ UNCHANGED <<requestVars, effects, driver, job, report, stops>>

CliStops ==
  /\ driver = "cli"
  /\ job \notin {"done", "abandoned", "lost"}
  /\ JobIsLost
  /\ UNCHANGED <<vars, driver, api, stops>>

RunNext ==
  \/ Next /\ UNCHANGED jobVars
  \/ JobStep
  \/ ApiStops \/ ApiStarts \/ CliStops

\* A submitted job is run by the pool and goes on until it ends.  Nothing
\* makes the API start again, and nobody has to send a request.
RunSpec ==
  RunInit /\ [][RunNext]_runVars /\ Fairness /\ WF_runVars(JobStep)

-----------------------------------------------------------------------------
(* Properties *)

\* What GET /runs/{id}/report has once served it always serves: no late job
\* step and no restart takes a published report back to "generating".
PublishedStaysServed ==
  [][finalReport # NoReport
       => /\ finalReport' # NoReport
          /\ reportStatus' \in {"ready", "fallback", "failed"}]_runVars

\* A report whose status says there is a text has one, the Report phase is
\* closed exactly then, and a report that is not yet served has none.
ReportStatusAgrees ==
  /\ reportStatus \in {"ready", "fallback"} => finalReport # NoReport
  /\ reportStatus \in {"not_started", "generating"} => finalReport = NoReport
  /\ reportPhase = "completed" <=> finalReport # NoReport

\* Nobody polls GET /runs/{id}/report in vain: a report that is "generating"
\* has a job that is still at it, or the API is down and will mark the report
\* as failed when it starts, unless a write of the job's own status raised.
GeneratingHasAJob ==
  reportStatus = "generating" =>
    \/ job \notin {"done", "lost"}
    \/ job = "lost" /\ api = "down"

\* The final report takes approval state from the trace (report_reconcile.py:
\* "the final report must take it from trace"): once job and requests have
\* ended, it displays the approvals and results the tables hold.
ReportMatchesTrace ==
  (job = "done" /\ AtRest /\ finalReport # NoReport)
    => finalReport = Render(status, results)

\* A run whose report is published and that waits for nobody is completed or
\* failed, as the run of the synchronous ResourceAgent.diagnose is.
PublishedRunSettles ==
  (job = "done" /\ AtRest /\ finalReport # NoReport)
    => (SomePending(status) \/ runStatus \in {"completed", "failed"})
=============================================================================
