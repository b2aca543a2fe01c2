----------------------------- MODULE ToolReadings -----------------------------
(***************************************************************************)
(* What the tools make of the machine (tools/gpu.py, memory.py, cpu.py):   *)
(* the commands they run may be missing, hang, fail or be denied, and a    *)
(* tool answers such a failure with empty data more often than it raises.  *)
(* A process is represented by its reading, CPU percent or RSS.            *)
(***************************************************************************)
EXTENDS Naturals, Sequences, FiniteSets, SequencesExt

CONSTANT ProcessLimit   \* args.limit of the process lists

ASSUME LimitAssumption == ProcessLimit \in Nat \ {0}

NvidiaState == {"missing", "hangs", "fails", "answers"}
LogState == {"missing", "hangs", "denied", "read"}

LogType == [state : LogState, events : Nat]

\* How nvidia-smi and the two logs behave, and what there is to read.
MachineType ==
  [nvidia : NvidiaState,
   gpus : Seq([util : Nat, used : Nat, total : Nat]),
   gpuProcesses : Nat,
   log : [dmesg : LogType, journalctl : LogType],
   cpu : [count : Nat, load : Nat, perCpu : Seq(Nat), processes : SUBSET Nat],
   mem : [used : Nat, available : Nat, total : Nat, swapTotal : Nat, swapUsed : Nat,
          processes : SUBSET Nat]]

\* rows.sort(reverse=True)[:limit]
TopProcesses(readings) ==
  {p \in readings : Cardinality({q \in readings : q > p}) < ProcessLimit}

GetGpuSnapshot(machine) ==
  LET Percent(g) == IF g.total = 0 THEN 0 ELSE (100 * g.used) \div g.total
      gpus == machine.gpus
  IN IF machine.nvidia = "answers"
       THEN [available |-> TRUE,
             gpus |-> [i \in DOMAIN gpus |-> [util |-> gpus[i].util, memory |-> Percent(gpus[i])]]]
       ELSE [available |-> FALSE, gpus |-> <<>>]

ListGpuProcesses(machine) == IF machine.nvidia = "answers" THEN machine.gpuProcesses ELSE 0

\* The first of the two logs that can be read.
CheckOomEvents(machine) ==
  LET readable == SelectSeq(<<"dmesg", "journalctl">>, LAMBDA l : machine.log[l].state = "read")
  IN IF readable = <<>>
       THEN [available |-> FALSE, events |-> 0]
       ELSE [available |-> TRUE, events |-> machine.log[readable[1]].events]

Total(s) ==
  LET sum[i \in 0..Len(s)] == IF i = 0 THEN 0 ELSE sum[i-1] + s[i]
  IN sum[Len(s)]

GetCpuSnapshot(machine) ==
  LET perCpu == machine.cpu.perCpu
  IN [count |-> machine.cpu.count, load |-> machine.cpu.load,
      overall |-> IF perCpu = <<>> THEN 0 ELSE Total(perCpu) \div Len(perCpu)]

\* Everything the tools would report of a machine.
Readings(machine) ==
  LET gpu == GetGpuSnapshot(machine)
      cpu == GetCpuSnapshot(machine)
  IN [gpu |-> [available |-> gpu.available, gpus |-> gpu.gpus,
               processes |-> ListGpuProcesses(machine)],
      cpu |-> [count |-> cpu.count, load |-> cpu.load, overall |-> cpu.overall,
               processes |-> TopProcesses(machine.cpu.processes)],
      mem |-> [machine.mem EXCEPT !.processes = TopProcesses(@)],
      oom |-> CheckOomEvents(machine)]

\* list_gpu_processes is the one that does not catch the timeout of its
\* command.
Raises(machine, tool) == tool = "list_gpu_processes" /\ machine.nvidia = "hangs"
=============================================================================
