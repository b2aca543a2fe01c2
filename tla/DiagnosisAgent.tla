---------------------------- MODULE DiagnosisAgent ----------------------------
(***************************************************************************)
(* One diagnosis (agent/resource_agent.py): plan, run the tools, detect,   *)
(* create approvals, write the report.  It composes the planner, the tool  *)
(* registry, the detectors and the report writer with the LLM client; what *)
(* runs between two waits for the outside world is one step:               *)
(*                                                                         *)
(*   start -> planning -> tools -> reporting -> done                       *)
(***************************************************************************)
EXTENDS ToolPlans, ToolReadings, ReportContext, LlmClient

CONSTANTS
  Machine,     \* what the machine may look like
  Setup,       \* the request and the environment
  Candidate,   \* the plans the LLM may answer with
  UnknownTool, \* names in them that no tool has
  FlakyTool,   \* the tools whose handler may raise or take too long
  Retry        \* ToolSpec.retry

Phase == {"planning", "tools", "report", "approval", "actions"}
TodoStatus == {"pending", "running", "completed", "failed", "skipped",
               "approval_detected", "waiting_approval"}

\* A request: its scope, stated or mentioned, its modes, whether an LLM is configured, whether the
\* report streams to a console, and whether approvals can be stored.
SetupType ==
  [explicit : Scope \cup {"none"}, mentions : SUBSET {"gpu", "cpu", "memory"},
   llmPlanner : BOOLEAN, llmReport : BOOLEAN, client : BOOLEAN,
   console : BOOLEAN, service : BOOLEAN]

\* A step an LLM plans, as it is parsed.
PlanStep == [tool : Tool \cup UnknownTool, fits : BOOLEAN]

ASSUME AgentAssumption ==
  /\ Machine \subseteq MachineType
  /\ Setup \subseteq SetupType
  /\ Candidate \subseteq Seq(PlanStep)
  /\ UnknownTool \cap Tool = {}
  /\ FlakyTool \subseteq Tool
  /\ Retry \in Nat

VARIABLES
  machine, setup,
  pc,           \* where the diagnosis is
  plan,         \* the plan selected: its source and steps
  toolTodos,    \* the status of the todo of every step of the plan
  exec,         \* the execution of the current tool
  tries,        \* how often it has been tried
  phases,       \* the status of the phase todos
  detected,     \* the evidence and findings
  approvals,    \* the pending approvals created
  approvalTodo, \* the status of their todos
  report        \* the ReportSnapshot, as a set of at most one

agentVars == <<machine, setup, pc, plan, toolTodos, exec, tries, phases, detected,
               approvals, approvalTodo, report>>
vars == <<agentVars, clientVars>>

ReportSource == {"deterministic", "llm"}

AgentTypeOK ==
  /\ ClientTypeOK
  /\ machine \in Machine /\ setup \in Setup
  /\ pc \in {"start", "planning", "tools", "reporting", "done"}
  /\ plan.source \in {"none", "deterministic", "llm", "fallback"}
  /\ toolTodos \in Seq(TodoStatus) /\ Len(toolTodos) = Len(plan.steps)
  /\ exec \in {"none", "running", "late"}
  /\ tries \in 0..Retry
  /\ phases \in [Phase -> TodoStatus]
  /\ approvals \in Seq({Kill})
  /\ approvalTodo \in TodoStatus
  /\ \A r \in report : r.source \in ReportSource /\ r.status \in {"success", "fallback"}

Init ==
  /\ machine \in Machine
  /\ setup \in Setup
  /\ pc = "start"
  /\ plan = [source |-> "none", steps |-> <<>>]
  /\ toolTodos = <<>>
  /\ exec = "none"
  /\ tries = 0
  /\ phases = [p \in Phase |-> "pending"]
  /\ detected = Nothing
  /\ approvals = <<>>
  /\ approvalTodo = "pending"
  /\ report = {}
  /\ ClientInit

Requested == InferResourceType(setup.mentions, setup.explicit)

\* The tools of the plan, and those whose result carries data.
Ran == {plan.steps[i].tool : i \in DOMAIN plan.steps}
Ok == {plan.steps[i].tool : i \in {k \in DOMAIN toolTodos : toolTodos[k] = "completed"}}

-----------------------------------------------------------------------------
(* Planning                                                                *)

\* The plan is ready: its todos are made and the first tool is started.
Adopt(selected) ==
  /\ plan' = selected
  /\ toolTodos' = [i \in DOMAIN selected.steps |-> IF i = 1 THEN "running" ELSE "pending"]
  /\ exec' = "running"
  /\ tries' = 0
  /\ phases' = [phases EXCEPT !["planning"] = "completed", !["tools"] = "running"]
  /\ pc' = "tools"
  /\ UNCHANGED <<machine, setup, detected, approvals, approvalTodo, report>>

\* The fixed plan, or a call of the planner.
Start ==
  /\ pc = "start"
  /\ \/ /\ setup.llmPlanner /\ setup.client
        /\ StartCall(FALSE)
        /\ pc' = "planning"
        /\ phases' = [phases EXCEPT !["planning"] = "running"]
        /\ UNCHANGED <<machine, setup, plan, toolTodos, exec, tries, detected, approvals,
                       approvalTodo, report>>
     \/ /\ ~(setup.llmPlanner /\ setup.client)
        /\ Adopt([source |-> IF setup.llmPlanner THEN "fallback" ELSE "deterministic",
                  steps |-> BuildPlan(Requested)])
        /\ UNCHANGED clientVars

\* Mutation: an exception of the client is not caught.
PlannerAnswersOnly ==
  /\ pc = "planning"
  /\ stage = "answered"
  /\ \E steps \in Candidate : Adopt(SelectPlan(steps, Requested))
  /\ UNCHANGED clientVars

\* Mutation: a plan that fails its validation is asked for again.
PlannerAsksAgain ==
  /\ pc = "planning"
  /\ \/ /\ stage = "answered"
        /\ \E steps \in Candidate :
             LET selected == SelectPlan(steps, Requested)
             IN IF selected.source = "llm"
                  THEN Adopt(selected) /\ UNCHANGED clientVars
                  ELSE StartCall(FALSE) /\ UNCHANGED agentVars
     \/ /\ stage = "raised"
        /\ Adopt(SelectPlan(Unparsable, Requested))
        /\ UNCHANGED clientVars

\* An exception of the client is as good as an answer that cannot be parsed.
PlannerAnswers ==
  /\ pc = "planning"
  /\ \/ stage = "answered" /\ \E steps \in Candidate : Adopt(SelectPlan(steps, Requested))
     \/ stage = "raised" /\ Adopt(SelectPlan(Unparsable, Requested))
  /\ UNCHANGED clientVars

-----------------------------------------------------------------------------
(* ToolRegistry.execute, on a thread of its own and with a timeout         *)

Current == CHOOSE i \in DOMAIN toolTodos : toolTodos[i] = "running"

\* The result of the current tool is in, and the next one starts.
Conclude(status) ==
  /\ toolTodos' = [i \in DOMAIN toolTodos |->
                     IF i = Current THEN status
                     ELSE IF i = Current + 1 THEN "running" ELSE toolTodos[i]]
  /\ exec' = IF Current = Len(toolTodos) THEN "none" ELSE "running"
  /\ tries' = 0

\* Mutation: a failed tool is tried once more than its retries allow.
TryAgainOrFailOnceMore ==
  \/ /\ tries <= Retry
     /\ tries' = tries + 1
     /\ exec' = "running"
     /\ UNCHANGED toolTodos
  \/ /\ tries > Retry
     /\ Conclude("failed")

TryAgainOrFail ==
  \/ /\ tries < Retry
     /\ tries' = tries + 1
     /\ exec' = "running"
     /\ UNCHANGED toolTodos
  \/ /\ tries = Retry
     /\ Conclude("failed")

ToolReturns ==
  /\ exec = "running"
  /\ ~Raises(machine, plan.steps[Current].tool)
  /\ Conclude("completed")
  /\ UNCHANGED <<machine, setup, pc, plan, phases, detected, approvals, approvalTodo,
                 report, clientVars>>

\* The handler raises.
ToolRaises ==
  /\ exec = "running"
  /\ \/ plan.steps[Current].tool \in FlakyTool
     \/ Raises(machine, plan.steps[Current].tool)
  /\ TryAgainOrFail
  /\ UNCHANGED <<machine, setup, pc, plan, phases, detected, approvals, approvalTodo,
                 report, clientVars>>

\* future.result times out, future.cancel has no effect on a running handler,
\* and leaving the `with' block waits for its thread.
ToolTimesOut ==
  /\ exec = "running"
  /\ plan.steps[Current].tool \in FlakyTool
  /\ exec' = "late"
  /\ UNCHANGED <<machine, setup, pc, plan, toolTodos, tries, phases, detected, approvals,
                 approvalTodo, report, clientVars>>

LateToolEnds ==
  /\ exec = "late"
  /\ TryAgainOrFail
  /\ UNCHANGED <<machine, setup, pc, plan, phases, detected, approvals, approvalTodo,
                 report, clientVars>>

-----------------------------------------------------------------------------
(* Detecting and reporting                                                 *)

ToolPhase == IF \E i \in DOMAIN toolTodos : toolTodos[i] = "failed" THEN "failed" ELSE "completed"

\* The rest of collect_and_detect, and generate_report up to its LLM call.
Detect ==
  /\ pc = "tools"
  /\ exec = "none"
  /\ \E data \in {Readings(machine)}, ok \in {Ok} : detected' = RunDetectors(data, ok)
  /\ approvals' = IF setup.service THEN ApprovalsFor(detected'.findings) ELSE <<>>
  /\ approvalTodo' = IF approvals' # <<>> THEN "approval_detected" ELSE "pending"
  /\ phases' = [phases EXCEPT
       !["tools"] = ToolPhase,
       !["report"] = "running",
       !["approval"] = IF approvals' # <<>> THEN "approval_detected" ELSE "completed",
       !["actions"] = "skipped"]
  /\ pc' = "reporting"
  /\ IF setup.llmReport /\ setup.client THEN StartCall(setup.console) ELSE UNCHANGED clientVars
  /\ UNCHANGED <<machine, setup, plan, toolTodos, exec, tries, report>>

\* Mutation: only the phases are brought up to date, not the tasks.
ReportLeavesTasks(source, status, text) ==
  /\ report' = {[source |-> source, status |-> status, text |-> text]}
  /\ phases' = [phases EXCEPT
       !["report"] = "completed",
       !["approval"] = IF approvals # <<>> THEN "waiting_approval" ELSE "completed"]
  /\ pc' = "done"
  /\ UNCHANGED <<machine, setup, plan, toolTodos, exec, tries, detected, approvals, approvalTodo,
                 clientVars>>

\* The rest of generate_report.
Report(source, status, text) ==
  /\ report' = {[source |-> source, status |-> status, text |-> text]}
  /\ phases' = [phases EXCEPT
       !["report"] = "completed",
       !["approval"] = IF approvals # <<>> THEN "waiting_approval" ELSE "completed"]
  /\ approvalTodo' = IF approvals # <<>> THEN "waiting_approval" ELSE approvalTodo
  /\ pc' = "done"
  /\ UNCHANGED <<machine, setup, plan, toolTodos, exec, tries, detected, approvals, clientVars>>

\* build_p4_report lists every approval with its status.
FixedText ==
  [sections |-> TRUE, named |-> DOMAIN approvals,
   near |-> [a \in DOMAIN approvals |-> {"pending"}], later |-> {}]

Context == BuildReportContext(Readings(machine), Ok, Ran, detected, approvals)

\* Reports the LLM may write, which knows the approvals ids of its prompt: cut
\* off or not, and naming any of them with any claim, at first or later.
LlmText(ids) ==
  {text \in [sections : BOOLEAN, named : SUBSET ids, near : [ids -> SUBSET Claim],
             later : SUBSET ids] :
     /\ text.later \subseteq text.named
     /\ \A a \in ids \ text.named : text.near[a] = {}}

\* The fixed report, or what becomes of the LLM's.
FinishReport ==
  /\ pc = "reporting"
  /\ \/ /\ ~setup.llmReport
        /\ Report("deterministic", "success", FixedText)
     \/ /\ setup.llmReport
        /\ ~setup.client \/ stage = "raised"
        /\ Report("deterministic", "fallback", FixedText)
     \/ /\ setup.llmReport /\ setup.client /\ stage = "answered"
        /\ \E ids \in {PromptApprovals(Context)} : \E text \in LlmText(ids) :
             IF Acceptable(text, DOMAIN approvals)
               THEN Report("llm", "success", text)
               ELSE Report("deterministic", "fallback", FixedText)

-----------------------------------------------------------------------------
ToolStep == ToolReturns \/ ToolRaises \/ ToolTimesOut

AgentStep == Start \/ PlannerAnswers \/ Detect \/ FinishReport

Next ==
  \/ AgentStep
  \/ ToolStep
  \/ LateToolEnds
  \/ ClientStep /\ UNCHANGED agentVars

\* The agent's thread goes on, an HTTP request is answered or times out, and
\* a stream ends: its lines are few (report_max_tokens).
Progress ==
  /\ WF_vars(AgentStep)
  /\ WF_vars(ToolStep)
  /\ WF_vars((Post \/ Backoff \/ EndStream \/ BreakStream) /\ UNCHANGED agentVars)

\* The tools bound themselves: nvidia-smi, journalctl and dmesg are given
\* timeouts, psutil reads /proc.
Spec == Init /\ [][Next]_vars /\ Progress /\ WF_vars(LateToolEnds)

-----------------------------------------------------------------------------
(* Properties                                                              *)

\* README "Bounded LLM Planning": whatever the LLM answers, the tools that are
\* started are safe, called with fitting arguments, each at most once and at
\* most eight, and an LLM's plan stays within the scope of the request.
OnlyValidPlansRun ==
  LET started == {i \in DOMAIN toolTodos : toolTodos[i] # "pending"}
  IN /\ Cardinality(started) <= MaxSteps
     /\ \A i \in started :
          /\ plan.steps[i].tool \in SafeTool /\ plan.steps[i].fits
          /\ plan.source = "llm" /\ Requested \notin {"mixed", "unknown"} =>
               Requested \in ResourceTypes(plan.steps[i].tool)
          /\ \A j \in started : plan.steps[i].tool = plan.steps[j].tool => i = j

\* README "Evidence-backed Resource Diagnosis": a finding rests on evidence of
\* this run, and that on the output of tools that ran and did not fail, however
\* the failures fall and whatever plan was chosen.
FindingsAreTraceable ==
  pc \in {"reporting", "done"} =>
    \A i \in DOMAIN detected.findings :
      LET own == ToSet(detected.findings[i].evidence)
      IN /\ own # {}
         /\ own \subseteq ToSet(detected.evidence)
         /\ \A e \in own : e.source \in Ok

\* The plan tree of a finished diagnosis has nothing left to run, the tool
\* phase has failed exactly if one of its tools has, and approvals, their
\* tasks and the approval phase agree on whether somebody must decide.
PlanTreeSettles ==
  pc = "done" =>
    /\ \A p \in Phase : phases[p] \notin {"pending", "running"}
    /\ \A i \in DOMAIN toolTodos : toolTodos[i] \in {"completed", "failed"}
    /\ phases["tools"] = "failed" <=> \E i \in DOMAIN toolTodos : toolTodos[i] = "failed"
    /\ phases["approval"] = "waiting_approval" <=> approvals # <<>>
    /\ approvals # <<>> => approvalTodo = "waiting_approval"

\* The report calls every approval of the run pending where it first names it,
\* whoever wrote it, though it may say something else later; it
\* is the LLM's only if the prompt had named all of them and no other, though
\* the selection for the prompt may drop some; and an approval exists for every
\* recommendation that asks for one.
EveryApprovalIsReported ==
  pc = "done" =>
    /\ \A r \in report :
         /\ \A a \in DOMAIN approvals : a \in r.text.named /\ "pending" \in r.text.near[a]
         /\ r.source = "llm" => PromptApprovals(Context) = DOMAIN approvals
    /\ setup.service =>
         Len(approvals) = Cardinality({i \in DOMAIN detected.findings :
                                         Kill \in ToSet(detected.findings[i].actions)})

\* docs/P14_REAL_WORLD_VALIDATION.md:45: a diagnosis makes one call for the
\* plan and one for the report, only transport failures are tried again, and
\* a plan or a report that fails its validation is not asked for a second time.
RequestsAreBounded ==
  LET calls == (IF setup.llmPlanner THEN 1 ELSE 0) + (IF setup.llmReport THEN 1 ELSE 0)
  IN sent <= IF setup.client THEN (MaxRetries + 1) * calls ELSE 0

\* Every diagnosis ends with a report, whatever the tools, the LLM and the
\* connection to it do.
EveryDiagnosisReports == <>(pc = "done")

\* Detectors and prompt decide with thresholds of their own whether the CPU is
\* saturated or memory ran out: what the prompt declares matched was measured,
\* and is a finding of the run as well.
MatchedIsFound ==
  pc = "reporting" /\ setup.llmReport =>
    \A r \in Context.ruledOut : r.matched =>
      LET found == {detected.findings[i].type : i \in DOMAIN detected.findings}
      IN /\ RuledOutBy[r.condition] \in Ok
         /\ r.condition = "cpu_saturation" => "cpu_saturation" \in found
         /\ r.condition = "recent_oom" => "oom_event" \in found
=============================================================================
