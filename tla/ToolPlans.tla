------------------------------ MODULE ToolPlans ------------------------------
(***************************************************************************)
(* Which tools a diagnosis runs: the fixed plans (agent/planner.py), the   *)
(* catalog (agent/tool_catalog.py), and what becomes of the plan an LLM    *)
(* proposes (agent/llm_planner.py, agent/plan_validator.py).  A step is a  *)
(* tool and arguments that fit its input model or do not.                  *)
(***************************************************************************)
EXTENDS Naturals, Sequences, FiniteSets, SequencesExt

CONSTANT DangerousTool   \* what a registry may offer beyond the default tools

Scope == {"cpu", "memory", "gpu", "mixed", "unknown"}

\* infer_resource_type: what the user has said explicitly, else the one
\* resource the question mentions.
InferResourceType(mentions, explicit) ==
  IF explicit # "none" THEN explicit
  ELSE IF Cardinality(mentions) = 1 THEN CHOOSE r \in mentions : TRUE
  ELSE "mixed"

\* default_registry: every tool it registers is safe.
DefaultTags ==
  [get_cpu_snapshot |-> {"cpu", "snapshot"},
   list_top_cpu_processes |-> {"cpu", "process"},
   get_memory_snapshot |-> {"memory", "snapshot"},
   list_top_memory_processes |-> {"memory", "process"},
   check_oom_events |-> {"memory", "oom", "system"},
   get_gpu_snapshot |-> {"gpu", "snapshot"},
   list_gpu_processes |-> {"gpu", "process"},
   inspect_process |-> {"process"}]

SafeTool == DOMAIN DefaultTags
Tool == SafeTool \cup DangerousTool

ASSUME DangerousToolAssumption == DangerousTool \cap SafeTool = {}

\* resource_types_for_tags: the scopes the catalog lists a tool for.
ResourceTypes(tool) ==
  LET tags == IF tool \in SafeTool THEN DefaultTags[tool] ELSE {"process"}
      own == (IF "cpu" \in tags THEN {"cpu"} ELSE {})
             \cup (IF tags \cap {"memory", "oom"} # {} THEN {"memory"} ELSE {})
             \cup (IF "gpu" \in tags THEN {"gpu"} ELSE {})
  IN IF own = {} \/ "process" \in tags \/ Cardinality(own) > 1
       THEN own \cup {"mixed"} ELSE own

-----------------------------------------------------------------------------
Call(tool) == [tool |-> tool, fits |-> TRUE]
Calls(tools) == [i \in DOMAIN tools |-> Call(tools[i])]

GpuPlan ==
  Calls(<<"get_gpu_snapshot", "list_gpu_processes", "get_cpu_snapshot",
          "get_memory_snapshot", "list_top_cpu_processes", "list_top_memory_processes">>)

CpuPlan ==
  Calls(<<"get_cpu_snapshot", "list_top_cpu_processes", "get_memory_snapshot",
          "get_gpu_snapshot">>)

MemoryPlan ==
  Calls(<<"get_memory_snapshot", "list_top_memory_processes", "check_oom_events",
          "get_cpu_snapshot", "get_gpu_snapshot">>)

MixedPlan ==
  Calls(<<"get_gpu_snapshot", "get_cpu_snapshot", "get_memory_snapshot",
          "list_gpu_processes", "list_top_cpu_processes", "list_top_memory_processes",
          "check_oom_events">>)

BuildPlan(scope) ==
  CASE scope = "gpu" -> GpuPlan
    [] scope = "cpu" -> CpuPlan
    [] scope = "memory" -> MemoryPlan
    [] OTHER -> MixedPlan

-----------------------------------------------------------------------------
\* The plans an LLM may send back; "unparsable" has no JSON with a steps array.
Unparsable == <<[tool |-> "unparsable", fits |-> FALSE]>>

MaxSteps == 8

\* Mutation: a tool may be planned twice.
ValidIfRepeated(steps) ==
  /\ Len(steps) \in 1..MaxSteps
  /\ \A i \in DOMAIN steps : steps[i].tool \in SafeTool /\ steps[i].fits

\* PlanValidator.validate: known tools, each once, safe, with arguments that
\* fit.  The steps are numbered as they come, and the resource type is copied
\* from the request, so neither is ever refused.
Valid(steps) ==
  /\ Len(steps) \in 1..MaxSteps
  /\ \A i, j \in DOMAIN steps : steps[i].tool = steps[j].tool => i = j
  /\ \A i \in DOMAIN steps : steps[i].tool \in SafeTool /\ steps[i].fits

\* plan_resource_scope_errors
InScope(steps, scope) ==
  scope \in {"mixed", "unknown"} \/ \A i \in DOMAIN steps :
    steps[i].tool \in Tool => scope \in ResourceTypes(steps[i].tool)

\* build_llm_tool_plan_result, given what the model has answered.
SelectPlan(steps, scope) ==
  IF steps # Unparsable /\ Valid(steps) /\ InScope(steps, scope)
    THEN [source |-> "llm", steps |-> steps]
    ELSE [source |-> "fallback", steps |-> BuildPlan(scope)]
=============================================================================
