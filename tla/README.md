# ResourceOps Agent: a TLA+ verification development

ResourceOps Agent diagnoses a machine (CPU, memory, GPU, processes), proposes
dangerous actions (`kill_process`, `renice_process`), lets people approve,
reject or really execute them, and has an LLM write the report meanwhile. All
state lives in one SQLite file and in a directory of files per run. What can go
wrong is concurrency (API threads, CLI processes, a report job and restarts work
on the same rows and files, the host's processes come and go under the
executor's hands) and failure (tools that raise or hang, an LLM that answers
anything or nothing, a connection that breaks). That is what the modules here
model. Everything is translated from the code; line references for every
definition are in `PROJECT.json`.

## The system

| Component | State | Operations | Hard behaviour |
|---|---|---|---|
| Trace store (`trace/store.py`) | `approvals`, `action_results`, `diagnosis_runs`, `diagnosis_todos` and the write-once tables | transactions (`BEGIN IMMEDIATE`) that change an approval and recompute phase, tasks, run status and report | order of transactions, derived rows going stale |
| Approval service (`approval/`) | none of its own; an `Approval` copy and an `ActionResult` per request | approve = claim, dry run, finalize; execute-real = check, act, finalize; reject; then `sync_approval_trace` | several steps per request, competing requests, raising executors, dying processes |
| API and CLI (`app/api.py`, `app/cli.py`) | none | the sequences of service calls | every handler calls the "idempotent" sync after the service |
| Report job (`app/report_jobs.py`, `agent/report_reconcile.py`) | control state, the reconciled `ReportSnapshot` | generate, reconcile, finalize, write to the workspace, mark as failed, recover at startup | read and write in different transactions, restarts |
| Report pool (`app/report_jobs.py`) | thread pool, `REPORT_JOBS`, its lock, done-callbacks | submit, run, remove | lock held while a callback is attached |
| Diagnosis (`agent/resource_agent.py`, `agent/todos.py`) | phases and todos of one run, its snapshot | plan, run the tools, detect, create approvals, report | waits for the LLM and for tools on threads of their own; any of them may fail |
| Action executor (`actions/executor.py`) | the operating system | dry run, gates, pre-check, act, post-check | the world changes between check and act |
| Workspace (`workspace/writer.py`) | files of one run | write, update from trace | several writers, no lock; files are written in place, so a write that fails leaves them empty or half written |
| LLM client (`agent/llm_client.py`) | the attempt under way | post with retries, stream | failures before, between and after the lines of a stream |
| Planner and validator (`agent/planner.py`, `llm_planner.py`, `plan_validator.py`, `tool_catalog.py`) | none | fixed plans, a plan of the LLM's, validation, fallback | the LLM may answer anything |
| Tools (`tools/`) | the operating system | read, with a timeout and retries | commands that are missing, hang or are denied give empty data |
| Detectors (`agent/detectors.py`) | none | nine threshold rules | rules that need several tools, of which some failed |
| Report writer (`agent/report_context.py`, `llm_report.py`, `report.py`) | none | select for the prompt, check the answer, fall back | what is selected is less than what is checked |
| Trace views, schemas, eval | none | pure or read-only | - |

What makes them correct, in short:

* an approval is held by one request at a time; decisions are final; the
  approvals table agrees with the audit trail (`action_results`);
* real operations hit approved approvals only, and each one is recorded;
* between requests, run status, phase and tasks say what the approvals say;
* a report is published once, never withdrawn, shows nothing that did not
  happen, and every run's report stops being "generating";
* `POST /diagnose` is always answered and every job runs;
* what the executor touches is what it vetted and what was granted, though pids
  are used again, and what it calls a success is one;
* a refresh of the workspace repairs what earlier writers left stale or damaged,
  and `report.md` never goes back to saying that the report is to come;
* whatever the LLM, the tools and the connection do, a diagnosis runs a valid
  plan, its findings go back to tools that ran, and it ends with a report that
  calls every approval pending where it first names it.

## Modules

| Module | What it is |
|---|---|
| `TraceStore` | the rows of one run and the transactions on them, as operators |
| `ApprovalService` | the requests: one action per step between transactions |
| `ApprovalLedger` | abstract specification: the state machine of an approval and the exclusive claim |
| `ApprovalRefinement` | the refinement mapping from `ApprovalService` to `ApprovalLedger` |
| `DiagnosisRun` | composes `ApprovalService` with the report job and API restarts |
| `ReportPool` | the process-wide job registry, its lock and its threads |
| `ActionExecutor` | executions as sequences of system calls on a host whose pids are used again |
| `Workspace` | the files of a run and their three kinds of writer |
| `ToolPlans` | operators: fixed plans, catalog, validation, fallback |
| `ToolReadings` | operators: what the tools report of a machine |
| `Detectors` | operators: the nine rules |
| `ReportContext` | operators: the selection for the prompt, the check of the answer |
| `LlmClient` | one call of the LLM: retries, backoff, streaming |
| `DiagnosisAgent` | composes the five modules above into one diagnosis |
| `ApprovalServiceProofs`, `ApprovalOutcomeProofs`, `ApprovalRefinementProofs` | theorems about the service, its effects and the ledger, checked by TLAPS |
| `DiagnosisRunProofs`, `ReportPoolProofs`, `ActionExecutorProofs`, `WorkspaceProofs`, `DiagnosisAgentProofs` | theorems about the module they are named after |
| `MC*` | instances for TLC |

### Correspondence with the code

* **Tables.** `status` is `approvals.status`; `results` the rows of
  `action_results`, where `by` stands for the `created_at` in the result key;
  `runStatus`, `reportStatus`, `finalReport` are columns of `diagnosis_runs`;
  `approvalPhase`, `approvalTask`, `actionPhase`, `actionTask`, `reportPhase`
  are the rows of `diagnosis_todos` that change after the diagnosis. Every
  write opens with `BEGIN IMMEDIATE`, and so does `get_trace`, so each is one
  atomic step. `cancelled` approvals and `pending` runs are never written.
* **Report text.** `reconcile_report_text_with_trace` replaces the two dynamic
  sections of the text. A report is abstracted to the approvals and results
  these were rendered from; the static text is left out.
* **Requests.** `pc[c]` is a request's position between transactions, `copy[c]`
  the status in the `Approval` object it holds, `outcome[c]` the `ActionResult`
  it holds. The claim's transaction and the read that follows it are one step:
  nothing looks at what that read adds. `Approve`, `ExecuteReal`, `Reject` start
  a request; `ThenExecuteReal` is the interactive CLI's "r", which goes on to
  execute-real. Conflicts (409), refusals (400) and unknown ids (404) end a
  request without a change. An executor's work is abstracted to its outcome:
  success or not, and for a real execution also whether the system was touched,
  independently of each other, as a timeout after `SIGTERM` reports failure and
  a process that has gone reports success.
* **Faults.** `"raise"`: `ActionExecutor.execute` raises. `"crash"`: the process
  dies, or a store call raises and the request ends where it stands.
* **Report job.** `job` is the position in `run_report_job`; `report` the trace
  its `ReportSnapshot` was reconciled with, held between the read and the write.
  The status of the snapshot is chosen where it is first used. `driver` says
  whether the API's pool or the interactive CLI runs the job: the CLI stores
  `not_started` and catches nothing. `ApiStops` loses a job of the API;
  `ApiStarts` is the startup hook. There is one API process, as README.md:221
  and :283 advise.
* **Pool.** One action per statement of `submit_report_job`. A pool thread
  takes a queued future, ends the job, then runs the callback if one was
  attached by then. `submit_report_job` is called once per run id, so its branch
  for an existing job is not reachable and not modelled.
* **Executor.** The gates read nothing but the request and the environment and
  are one step (`Execute`); each system call after them is a step of its own,
  between which `ProcessStarts` and `ProcessExits` change the host. A
  `psutil.Process` keeps the identity of its process: `terminate()` and
  `nice(value)` refuse a pid that has passed to another, while `username()`,
  `nice()`, `wait()` and `pid_exists` go by the pid. `touched` is a history
  variable. A request is a record of what the gates look at.
* **Workspace.** `trace` is reduced to a number of decisions and the state of
  the report; a file to the part of the trace it was written from. `todo` is the
  set of files a writer has still to write (`RefreshFiles` after a decision,
  `PublishFiles` and then `ApplyFiles` for the job); both go through theirs in
  the order of `Place`, the diagnosis before them in that of `SnapshotOrder`.
  `Path.write_text` empties a file and then fills it, so it is two steps
  (`OpenFile`, `WriteFile`), and `open` is the file in between. Where a write
  breaks off (`BreaksOff`) the file stays `Empty` or `Partial`; where two overlap
  it may end up `Partial` as well, which stands for any text that is not one
  view. The snapshot of the diagnosis may break off the same way, so that any
  file it writes may be there, missing, empty or in part when the others begin.
  A writer that raises repairs nothing. After an `OSError` its caller goes on
  (`Raises`, `BreaksOff`); any other error reaches the caller of a request, and
  makes the job mark its stored report as failed (`Disown`).
  `compact/report_context.json` must hold JSON, if it is there, for
  `metadata.json` to be written (`Writable`), and an empty `report.md` is read as
  readily as a full one. A part of a file that differs from the whole only in
  the white space at its end counts as the whole. Left out are the files written
  once, the hash of `report.md` in `metadata.json`, and decisions
  taken before the diagnosis has written its snapshot. Ends clear
  `seen`, which nothing reads any more.
* **Diagnosis.** What runs between two waits for the outside world is one step:
  `Start`, `PlannerAnswers`, one step per end of a tool's handler, `Detect` (the
  rest of `collect_and_detect` and `generate_report` up to its LLM call),
  `FinishReport`. A machine is a record of how its commands behave and what they
  would report; `ToolReadings` says what the tools make of it, `Detectors` what
  the rules make of that, `ReportContext` what reaches the prompt. Percentages
  and sizes are natural numbers; `MachineType` is the set of all machines. The
  LLM's plan is any of a set of candidates (sequences of `PlanStep`, which may
  name an `UnknownTool`), or an answer that cannot be parsed;
  its report to whether it has all sections (`sections`), the approvals it names
  (`named`), which claims it makes within 500 characters of the first mention of
  each (`near`: a word for pending, a structured executed status), and the
  approvals it calls executed elsewhere (`later`). `LlmText` is every such report
  about approvals of the prompt: ids end in random digits, so no others can be
  named. `Acceptable` looks at `near` alone, as
  `validate_llm_report` does.
* **LLM client.** One call at a time. `Post` is a request with all its outcomes:
  an answer, a status that is tried again (429, 502, 503, 504) or not, a timeout,
  a transport error, a body that is not the expected JSON. In a stream, a retry
  is left only before the first line.

## Runs

| Run | Instance | Shows |
|---|---|---|
| `ApprovalFaults` | 2 approvals, 3 requests, both faults, symmetry | `ClaimIsExclusive`, `DecisionIsFinal`, `ExecutedIffSucceeded`, `FailedRunHasFailure` |
| `ApprovalOrdinary` | 2 approvals, 2 requests, crashes | `DerivedStateSettles`, `EffectsAreAudited`, `EffectsNeedApproval`, the refinement of the abstract specification's steps (`ImplementsLedger`) and of its fairness (`ClaimsAreSettled`) |
| `Diagnosis` | 2 approvals, 2 requests, the job, 1 API stop, symmetry | `ReportNeverInvents`, `ReportStatusAgrees`, `DerivedStateSettles` under the report's late write, `GeneratingHasAJob`, `PublishedStaysServed` |
| `Pool` | 4 runs, 2 threads, no job faster than its submission | `DiagnoseIsAnswered`, `JobsAreForgotten`, `LiveJobsAreRegistered` |
| `Actions` | 2 executions, 2 processes (one root's), 2 pids (one protected), 3 settings, 14 requests | `OnlyAuthorisedEffects`, `SuccessIsReal`, `ExecutionsAnswer` while pids are used again between any two system calls |
| `WorkspaceFiles` | 2 requests, the job, 4 of the files, any write may break off | `RefreshIsExact`, `ReportIsNotRecalled`, `StoredReportIsWritten` |
| `Agent` | 7 machines, 9 setups, 9 plans, any report, 2 flaky tools, 1 retry of a tool and of a request, 2 chunks | `OnlyValidPlansRun`, `FindingsAreTraceable`, `PlanTreeSettles`, `EveryApprovalIsReported`, `MatchedIsFound`, `RequestsAreBounded`, `ShownTextIsOneAnswer`, `EveryDiagnosisReports` |
| `RejectedButExecuted` | 1 approval, 3 requests, raising executors | `EffectsNeedApproval` is violated |
| `RestoredRunSettles` | 2 approvals, 3 requests, raising executors | `DerivedStateSettles` is violated |
| `StaleReport` | 1 approval, 2 requests | `ReportMatchesTrace` is violated |
| `NothingToApprove` | no approval | `PublishedRunSettles` is violated |
| `PoolDeadlock` | 2 runs, one fast job | `DiagnoseIsAnswered` is violated |

The last five are disagreements between the code and its documentation or tests;
`findings` in `PROJECT.json` quotes both sides. Several properties hold only
without raising executors: the passing run says so by its `Faults`, and the
violated run with `"raise"` is the other half of the statement.

**Bounds.** A request acts once and ends, so a run of a model is finite and the
number of requests is the bound. Two requests are enough for a race on an
approval and three for the races that need a claim, its restoration and a third
party; two approvals are the least for which one decision leaves the run
waiting, and rows of different approvals meet only in "is any pending". One API
stop (`MaxStops`) suffices: a job is lost at most once. Four jobs on two threads
make jobs queue behind busy threads. Two processes and two pids let either
process take the other's pid, a guarded one that of a process vetted before. Of
the files, one stands for each hard way a file is written: `report.md` (guarded),
`metadata.json` (reads two others), `compact/report_context.json` (read by all
refreshes and written by none), the remediation summary (not in the snapshot,
and removed when there is nothing to tell). `steps.json`, the job's only, and
those everybody writes behave like parts of these; the proofs cover all of them.
The machines of `Agent` make each rule match and not match, and each
reading fail, at least once; among them are two processes to kill, a CPU between
the two thresholds the program has for it, and more findings than the prompt
takes. The setups leave out one part each. The candidate plans break one rule of
the validator each. `MaxChunks` bounds the chunks of a stream, `ProcessLimit`
the process lists; no other counter needs a bound.

**Fairness.** `WF(Request(c))`: a request that has started is straight-line code
without a wait on another request, so it goes on unless it crashes; nobody is
obliged to start one, and crashes are not fair. `WF(JobStep)` likewise for the job. In the pool, threads
are scheduled and jobs end (the LLM call has a timeout); weak fairness of
`AcquireLock` is enough because each run takes the lock a bounded number of
times. Restarting the API is not assumed (`docker-compose.yml` has no restart
policy), so `GeneratingHasAJob` is an invariant that names who will settle the
report, not a promise that it is settled. An execution has no wait without a
timeout, so `WF(Step(c))`; the host is not fair: no process has to end, or to
leave a pid alone. In the workspace, a writer that has begun goes on; nobody has
to decide. In `DiagnosisAgent`, the agent's thread goes on, a request to the LLM
is answered or times out (`timeout_seconds`), and a stream ends, since
`report_max_tokens` bounds it; `ReceiveLine` needs no fairness. `LateToolEnds`
is fair because the handlers bound themselves: `nvidia-smi`, `journalctl` and
`dmesg` are run with timeouts and psutil reads `/proc`. The registry's own
timeout does not give this (see below).

**The pool's assumption.** `Fast` is the set of runs whose job may end before
`add_done_callback` is called. In `Pool` it is empty; that is a timing the code
hopes for and does not enforce, and `PoolDeadlock` shows what happens otherwise.

## Deviations without a run

Met while modelling, visible in the modules, and not the subject of a run:

* `agent/report_context.py:239` keeps one approval per action. With two
  processes to kill the prompt names the second approval twice, and rule 6 of
  the prompt, enforced at `llm_report.py:298`, refuses every report that follows
  it: such a run always gets the fixed report. `EveryApprovalIsReported` says so:
  a report of the LLM's is one whose prompt named every approval.
* `agent/report_context.py:208` calls the CPU saturated from 90%, the detector
  above 85% or by load: one prompt may list `cpu_saturation` as a root cause and
  as not matched. `MatchedIsFound` is the direction that holds.
* `agent/report_context.py:212` declares GPU pressure and OOM not matched also
  when the tool failed or was denied access.
* `workspace/writer.py:90` writes `compact/report_context.json` as "report has
  not been generated yet", and the report job never rewrites it.
* Two calls of `update_from_trace` that overlap may leave the older view behind,
  or a file with parts of both; `RefreshIsExact` therefore speaks of a refresh
  that nobody interferes with.
* A refresh that fails in `report.md` (a full disk, say) has emptied it before
  (`workspace/writer.py:148`, `:318`), and the callers swallow the `OSError`: the
  file has lost the report the tables hold, until another decision or the job
  refreshes it. After the last request on an approval nothing does. `ReportIsNotRecalled` says
  only what holds in spite of this.
* A `compact/report_context.json` left empty or half written by the diagnosis is
  read by every later refresh (`workspace/writer.py:235`). `JSONDecodeError` is no
  `OSError`, so nobody expects it: `POST /approvals/{id}/approve` answers 500
  after the decision has been stored, and the job marks the report it has just
  published as failed.
* `agent/llm_report.py:314` looks for an approval's status around the first
  mention of its id only. A report that calls an approval pending there and
  executed further on is accepted, and `EveryApprovalIsReported` does not deny it.
* `tools/registry.py:171` cannot give up a handler: `future.cancel` has no
  effect on one that runs, and leaving the `with` block waits for it.
* After `SIGTERM`, a timeout of `wait` (`actions/executor.py:300`) is reported
  with `changed_system_state` False.
* `sync_approval_trace` may move a restored approval from pending to approved
  without a claim, from the copy of the request whose claim was restored.

## Proofs

`ApprovalServiceProofs` proves, for any sets of approvals and requests and any
faults:

* `TypeCorrect`: `Spec => []TypeOK`;
* `DecisionsAreFinal`: `Spec => DecisionIsFinal`;
* `InductiveInvariant`: `Spec => []IInv`, and from it `ClaimsAreExclusive` and
  `ExecutionsAreRecorded`.

`ClaimIsExclusive` and `ExecutedIffSucceeded` are not inductive: a step of
`SyncApprovalTrace` from an arbitrary state could write "rejected" over a held
approval, or "executed" without a result. `RequestInv` excludes those states: a
request holds at most one result, for its own approval; when it syncs, that
result is stored already; its copy is not pending; and a copy that holds a
decision agrees with the table. The last part is kept because decisions are
final. The proof has one lemma per kind of step (`MoveStep`, `ClaimStep`,
`ReturnStep`, `RestoreStep`, `FinalizeStep`, `RejectStep`, `SyncStep`), each
with one step per conjunct, and lemmas that say what the transactions do to the
two tables. The only assumptions are those on the constants (`NoReport` is no
report, `Faults` are faults), and none of the theorems needs them.

`ApprovalOutcomeProofs` goes on to what requests leave behind. `FailedRunsFailed`
(`FailedRunHasFailure`) holds for all faults. The others assume `NoRaise`, that
executors return, and at least one approval:

* `GrantsHold`: `Spec => []GrantedInv`, and from it `EffectsRecorded`
  (`EffectsAreAudited`), `EffectsGranted` (`EffectsNeedApproval`) and
  `DerivedStateTrue` (`DerivedStateSettles`).

Both hypotheses are needed: with raising executors the statements are false
(`RejectedButExecuted`, `RestoredRunSettles`), and a run without approvals is
never closed (`NothingToApprove`). Dying processes are not excluded.
`GrantedInv` adds three parts to `IInv`. `OrdinaryInv`: an approval a request
has found granted stays so until the request is done with it, hence
`finalize_action` refuses no result. `AuditInv`: a request that has touched the
system holds the result of a real execution until it is stored. `DerivedInv`:
run, phase and tasks lag behind the approvals only while a request is on its way
that will bring them up to date, or after one has died. `OrdinaryStep` lists
what a request can do to the tables when nothing raises, so that each part needs
a case for each kind of step and not for each action.

`ApprovalRefinementProofs` proves under the same hypotheses `LedgerImplemented`:
`Spec => ImplementsLedger`, that is, initial states map to initial states of
`ApprovalLedger` and every step to one of its steps or to a stutter. The holder
of an approval is a `CHOOSE` in the refinement mapping; `HolderIsRight` says
that it finds the request that holds the claim, which needs `ClaimIsExclusive`.

`DiagnosisRunProofs` proves, for any approvals, requests and faults and any
number of API stops, `RunInvariant`: `RunSpec => []RunInv`, and from it
`RunTypeCorrect` (`RunTypeOK`), `ReportStatusesAgree` (`ReportStatusAgrees`),
`NobodyPollsInVain` (`GeneratingHasAJob`), `ReportsInventNothing`
(`ReportNeverInvents`) and `PublishedReportsStay` (`PublishedStaysServed`).
`DerivedStateOfRunTrue` (`RunSpec => []DerivedStateSettles`) carries `GrantedInv`
over to the composed run, under the hypotheses above: no step of the job
disturbs it, the report's late write included.

Two parts of `RunInv` make it inductive. `JobInv`: there is no text before the
job has written it, so `StartReport` takes back no published report; a
publishing job has left "generating"; and the CLI's run never says
"generating", so that its death needs no recovery. `HeldInv`: what the job
holds of an older trace the tables still hold, because rows are never deleted
(`TablesStep` of
`ApprovalOutcomeProofs`) and decisions are final (`DecisionStep` of
`ApprovalServiceProofs`); without it a report finalized late could show a
decision nobody took. The other half, that the report is also up to date, is
false (`StaleReport`). The assumptions used are `NoReportAssumption` and
`MaxStopsAssumption`.

`ReportPoolProofs` proves, for any finite set of runs and 1 to 4 workers,
`InductiveInvariant`: `PoolSpec => []PoolInv`, and from it `TypeCorrect`
(`PoolTypeOK`, with the bound on the jobs that run) and `LiveJobsRegistered`
(`LiveJobsAreRegistered`). The strengthening says that a work item waits once
and its job has not started (`QueueIsFresh`), that a run has no future before
its submission (`SubmittedInOrder`), and that the Lock is held exactly inside
its block (`LockIsHeld`). It assumes `PoolAssumption`. Nothing in it excludes
the deadlock of `PoolDeadlock`: a stuck thread has not answered.

`ActionExecutorProofs` proves, for any host (processes, pids, guarded and
protected ones), any calls, requests and settings:

* `InductiveInvariant`: `Spec => []IInv`, and from it `TypeCorrect`,
  `EffectsAreAuthorised` (`OnlyAuthorisedEffects`) and `SuccessesAreReal`
  (`SuccessIsReal`).

The executor vets whatever bears the pid and acts on the process it looked up
before, and the two may differ. `OnlyAuthorisedEffects` is true because the
process looked up still bears its pid or has ended (`StillThere`), what was
vetted is what was looked up unless that has ended (`Vetted`), and what has
ended bears no pid again (`HostInv`). The same three facts make a free pid mean
that the process has ended. `TypeOK` alone is not inductive either: that
`renice` sets a value in range rests on the gates (`Admitted`). The proof has
one lemma per action, on top of `Returns` (a call may return when what it claims
is true), `Advances` (from one stage to the next) and `OneCall` (the other calls
are not disturbed). It assumes `HostAssumption`, the types of the constants.

`WorkspaceProofs` proves, for any finite set of requests and any choice of files
that has `report.md`, `metadata.json` and `compact/report_context.json`,
`WorkspaceInvariant`: `Spec => []WorkspaceInv`, and from it `WorkspaceTypeCorrect`
(`TypeOK`), `RefreshesAreExact` (`RefreshIsExact`) and `ReportsAreNotRecalled`
(`ReportIsNotRecalled`). Any write may break off, and so may the snapshot before
them; no file is assumed to be whole. `RefreshIsExact` speaks of a writer that
has finished; `AloneInv` says how far it has come: each file of an undisturbed
writer is exact, or is still on its list, or is not its own, and the file it has
open is still empty, so that what it writes is all there is in it.
`ReportIsNotRecalled` needs `ControlInv`, which relates what a writer holds to
where it is: who has `report.md` to write has seen a report, so that what it
writes, or leaves of it, is not the placeholder (`ReportWrites`, `TextStays`).
`CountInv`, decisions are at most as many as requests, is for the types. It
assumes `WriterAssumption`, `FileAssumption` and `ContentAssumption`.

`DiagnosisAgentProofs` proves, for any machines of `MachineType`, any requests
and environments, any plans of known and unknown tools, any flaky tools and any
number of retries and chunks, `AgentInvariant`: `Spec => []AgentInv`, and from it

* `AgentTypeCorrect` (`AgentTypeOK`) and `ValidPlansRun` (`OnlyValidPlansRun`),
  by `ToolInv`: once planning is over the plan is valid, and in scope if it is
  the LLM's (`GoodPlan`), and its tools are settled up to the one that runs. The
  fixed plans are valid too (`BuiltPlansAreValid`), one lemma for the four;
* `RequestsBounded` (`RequestsAreBounded`), by `RequestInv`, which counts the
  attempts of the two calls separately;
* `OneAnswerShown` (`ShownTextIsOneAnswer`), by `ShownInv`: nothing has been
  shown as long as there may be another attempt;
* `FindingsTraced` (`FindingsAreTraceable`), `PlanTreeSettled`
  (`PlanTreeSettles`), `ApprovalsReported` (`EveryApprovalIsReported`) and
  `MatchedFound` (`MatchedIsFound`), by `OutcomeInv`, which keeps what the
  detectors made of the tools' readings equal to what they would make of them
  now, and by lemmas on the operators: each of the nine rules bases its finding
  on tools that have not failed (`RulesAreSound`), there is an approval for every
  finding that asks for one, and every report, the LLM's or the fixed one, calls
  them all pending where it first names them. That no report of the LLM's comes
  of a prompt that left one out (`GoodReport`) follows because the LLM cannot
  name an id it was not given; what a report says after the first mention is not
  claimed.

The operators flatten sequences and add up numbers of any length, by recursive
functions. Induction is replaced by the smallest counterexample: a non-empty set
of natural numbers has a least member (`Smallest`, from `WFMin` of
`WellFoundedInduction`), so what a step from one element to the next preserves
holds of all (`FlattenProperties`, `TotalIsNatural`). The assumptions used are
`AgentAssumption` and `ClientAssumption`, the types of the constants.

Left to TLC is liveness, which is out of the prover's reach: `ClaimsAreSettled`,
`DiagnoseIsAnswered`, `JobsAreForgotten`, `ExecutionsAnswer`,
`StoredReportIsWritten` and `EveryDiagnosisReports`. Every other property of a
passing run is stated by a theorem.

## Not modelled

* Trace views (`trace/summary.py`, `replay.py`, `llm_calls.py`, `models.py`) and
  the reading endpoints and commands: they change nothing.
* `app/schemas.py` and `agent/events.py` hold data and console callbacks; the
  enumerations and records appear as the value sets of the modules.
* `eval/` and `scripts/`: offline tools around the program.
* Wording: report text beyond the parts named above, redaction and the system
  summary of the prompt, messages of evidence, CLI output and its parser, the
  reports of earlier stages in `agent/report.py`, which have no caller.
* Workspace: files that are written once, and `create_bundle`, which reads.
* Trace store: steps, tool calls, evidence and findings, which are written once
  with the diagnosis; `save_report_snapshot` and `update_approval_status`, which
  have no caller in the modelled paths. `get_report_job` and
  `cleanup_finished_jobs` have none at all.
* Tools: the fields no rule reads (`tools/system.py` is empty).

## Plan

1. The trace store's write-once tables and the views that join them.
2. What a run without the hypothesis `NoRaise` still guarantees of its effects:
   an operation on the system has been approved at some time.
