--------------------------- MODULE MCDiagnosisAgent ---------------------------
(* Small instances of DiagnosisAgent for TLC. *)
EXTENDS DiagnosisAgent

Gpu(util, used) == [util |-> util, used |-> used, total |-> 100]
Cpu(load, percent, processes) ==
  [count |-> 2, load |-> load, perCpu |-> <<percent, percent>>, processes |-> processes]
Mem(used, swapUsed, processes) ==
  [used |-> used, available |-> 8192, total |-> 16384, swapTotal |-> 100,
   swapUsed |-> swapUsed, processes |-> processes]
Log(state, events) == [state |-> state, events |-> events]

\* Nothing to find.
Healthy ==
  [nvidia |-> "answers", gpus |-> <<Gpu(40, 50)>>, gpuProcesses |-> 1,
   cpu |-> Cpu(1, 10, {10}), mem |-> Mem(40, 0, {100}),
   log |-> [dmesg |-> Log("read", 0), journalctl |-> Log("read", 0)]]

\* Nothing to read but CPU and memory.
Blind ==
  [Healthy EXCEPT !.nvidia = "missing",
     !.log = [dmesg |-> Log("denied", 0), journalctl |-> Log("missing", 0)]]

Hanging == [Healthy EXCEPT !.nvidia = "hangs"]

\* A CPU between the threshold of the detector and that of the report.
BusyCpu == [Healthy EXCEPT !.cpu = Cpu(1, 87, {160}), !.nvidia = "fails"]

\* An input pipeline that cannot feed its GPU.
IdleGpu == [Healthy EXCEPT !.gpus = <<Gpu(5, 20)>>, !.cpu = Cpu(3, 95, {160, 20, 10})]

\* Two full GPUs, and a process that holds half of the memory: two processes
\* to kill.
TwoHogs ==
  [Healthy EXCEPT !.gpus = <<Gpu(50, 95), Gpu(60, 91)>>, !.mem = Mem(60, 0, {9000, 200, 100})]

\* Out of memory in every respect: more findings than the prompt takes.
OutOfMemory ==
  [Healthy EXCEPT !.nvidia = "missing", !.mem = Mem(96, 50, {9000}),
     !.log = [dmesg |-> Log("hangs", 0), journalctl |-> Log("read", 1)]]

Machines == {Healthy, Blind, Hanging, BusyCpu, IdleGpu, TwoHogs, OutOfMemory}

\* Everything on, for each scope; and what is left when a part is missing.
Full(explicit, mentions) ==
  [explicit |-> explicit, mentions |-> mentions, llmPlanner |-> TRUE, llmReport |-> TRUE,
   client |-> TRUE, console |-> TRUE, service |-> TRUE]

Setups ==
  {Full("none", {"memory"}), Full("none", {"gpu"}), Full("cpu", {"gpu"}),
   Full("none", {"gpu", "cpu"}), Full("unknown", {"memory"}),
   [Full("memory", {}) EXCEPT !.client = FALSE],
   [Full("none", {}) EXCEPT !.service = FALSE],
   [Full("memory", {}) EXCEPT !.llmPlanner = FALSE, !.console = FALSE],
   [Full("none", {}) EXCEPT !.llmPlanner = FALSE, !.llmReport = FALSE]}

\* Good plans, and plans wrong in one respect each.
Candidates ==
  {Unparsable, <<>>,
   Calls(<<"get_memory_snapshot", "list_top_memory_processes">>),
   Calls(<<"get_gpu_snapshot", "check_oom_events">>),
   Calls(<<"get_cpu_snapshot", "get_cpu_snapshot">>),
   Calls(<<"get_cpu_snapshot", "kill_process">>),
   Calls(<<"get_cpu_snapshot", "unknown">>),
   <<[tool |-> "inspect_process", fits |-> FALSE]>>,
   Calls([i \in 1..9 |-> "get_cpu_snapshot"])}

Dangerous == {"kill_process"}
Unknown == {"unknown", "unparsable"}
Flaky == {"list_top_memory_processes", "check_oom_events"}
=============================================================================
