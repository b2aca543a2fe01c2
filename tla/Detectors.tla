------------------------------ MODULE Detectors ------------------------------
(***************************************************************************)
(* run_detectors and its nine rules (agent/detectors.py).  `h' is what the *)
(* tools read, `ok' the set of tools whose result carries data.            *)
(* Percentages, megabytes and load are natural numbers; a value nvidia-smi *)
(* or psutil did not report counts as 0, as number() makes it.             *)
(*                                                                         *)
(*   h.gpu  [available, gpus: Seq([util, memory]), processes: Nat]         *)
(*   h.cpu  [count, load, overall, processes: SUBSET Nat]                  *)
(*   h.mem  [used, available, total, swapTotal, swapUsed,                  *)
(*           processes: SUBSET Nat]                                        *)
(*   h.oom  [available, events: Nat]                                       *)
(***************************************************************************)
EXTENDS Naturals, Sequences, SequencesExt

(* An evidence item is named by its tool and its number among those a rule  *)
(* makes; a recommendation by its action and reason.                       *)

EvidenceItem(tool, n, level, confidence) ==
  [source |-> tool, item |-> n, level |-> level, confidence |-> confidence]

Safe(action, reason) == [action |-> action, reason |-> reason, approval |-> FALSE]
Kill == [action |-> "kill_process", reason |-> "destructive", approval |-> TRUE]

Nothing == [evidence |-> <<>>, findings |-> <<>>]

Found(type, confidence, evidence, actions) ==
  [evidence |-> evidence,
   findings |-> <<[type |-> type, confidence |-> confidence,
                   evidence |-> evidence, actions |-> actions]>>]

-----------------------------------------------------------------------------
DetectGpuUnavailable(h, ok) ==
  IF "get_gpu_snapshot" \in ok /\ ~h.gpu.available
    THEN Found("gpu_unavailable", 90, <<EvidenceItem("get_gpu_snapshot", 0, "warning", 90)>>,
               <<Safe("check_nvidia_smi", "unavailable")>>)
    ELSE Nothing

HasGpus(h, ok) == "get_gpu_snapshot" \in ok /\ h.gpu.available /\ h.gpu.gpus # <<>>

\* One item for every GPU that is nearly full, and one for its largest process.
DetectGpuMemoryPressure(h, ok) ==
  LET full == FlattenSeq([i \in DOMAIN h.gpu.gpus |->
                IF h.gpu.gpus[i].memory >= 90
                  THEN <<EvidenceItem("get_gpu_snapshot", i, "critical", 95)>> ELSE <<>>])
      owner == IF "list_gpu_processes" \in ok /\ h.gpu.processes > 0
                 THEN <<EvidenceItem("list_gpu_processes", 0, "warning", 85)>> ELSE <<>>
  IN IF HasGpus(h, ok) /\ full # <<>>
       THEN Found("gpu_memory_pressure", 92, full \o owner,
                  <<Safe("inspect_gpu_processes", "attribute"), Kill>>)
       ELSE Nothing

\* The GPUs idle, less than 20% on average, while the CPU is overloaded.
DetectCpuBottleneck(h, ok) ==
  LET util == FoldLeft(LAMBDA sum, g : sum + g.util, 0, h.gpu.gpus)
  IN IF /\ HasGpus(h, ok) /\ "get_cpu_snapshot" \in ok
        /\ util < 20 * Len(h.gpu.gpus)
        /\ h.cpu.count > 0 /\ h.cpu.load > h.cpu.count
       THEN Found("cpu_bottleneck_for_gpu", 85,
                  <<EvidenceItem("get_gpu_snapshot", 0, "warning", 85),
                    EvidenceItem("get_cpu_snapshot", 0, "warning", 85)>>,
                  <<Safe("tune_dataloader_workers", "input pipeline")>>)
       ELSE Nothing

DetectCpuSaturation(h, ok) ==
  IF /\ "get_cpu_snapshot" \in ok
     /\ \/ h.cpu.count > 0 /\ 10 * h.cpu.load > 12 * h.cpu.count
        \/ h.cpu.overall > 85
    THEN Found("cpu_saturation", 90, <<EvidenceItem("get_cpu_snapshot", 1, "warning", 90)>>,
               <<Safe("inspect_top_cpu_processes", "attribute")>>)
    ELSE Nothing

DetectSingleProcessCpuHot(h, ok) ==
  IF "list_top_cpu_processes" \in ok /\ \E p \in h.cpu.processes : p > 150
    THEN Found("cpu_single_process_hot", 85,
               <<EvidenceItem("list_top_cpu_processes", 0, "warning", 85)>>,
               <<Safe("inspect_process", "hot")>>)
    ELSE Nothing

DetectMemoryPressure(h, ok) ==
  IF "get_memory_snapshot" \in ok /\ (h.mem.used > 85 \/ h.mem.available < 1024)
    THEN Found("memory_pressure", 90,
               <<EvidenceItem("get_memory_snapshot", 0,
                              IF h.mem.used < 95 THEN "warning" ELSE "critical", 90)>>,
               <<Safe("inspect_top_memory_processes", "attribute")>>)
    ELSE Nothing

DetectSwapPressure(h, ok) ==
  IF "get_memory_snapshot" \in ok /\ h.mem.swapTotal > 0 /\ h.mem.swapUsed > 30
    THEN Found("swap_pressure", 85, <<EvidenceItem("get_memory_snapshot", 1, "warning", 85)>>,
               <<Safe("reduce_memory_pressure", "swap")>>)
    ELSE Nothing

\* Mutation: a single event is taken for noise.
DetectOomEventRepeated(h, ok) ==
  IF "check_oom_events" \in ok /\ h.oom.events > 1
    THEN Found("oom_event", 90, <<EvidenceItem("check_oom_events", 0, "critical", 90)>>,
               <<Safe("review_oom_process", "oom")>>)
    ELSE Nothing

DetectOomEvent(h, ok) ==
  IF "check_oom_events" \in ok /\ h.oom.events > 0
    THEN Found("oom_event", 90, <<EvidenceItem("check_oom_events", 0, "critical", 90)>>,
               <<Safe("review_oom_process", "oom")>>)
    ELSE Nothing

\* Mutation: the process list of the snapshot is thought to come with it.
DetectMemoryHogBySnapshot(h, ok) ==
  IF /\ "get_memory_snapshot" \in ok
     /\ h.mem.total > 0 /\ \E p \in h.mem.processes : 10 * p > 4 * h.mem.total
    THEN Found("memory_process_hogging", 85,
               <<EvidenceItem("list_top_memory_processes", 0, "warning", 85)>>,
               <<Safe("inspect_process", "rss"), Kill>>)
    ELSE Nothing

DetectMemoryHog(h, ok) ==
  IF /\ {"get_memory_snapshot", "list_top_memory_processes"} \subseteq ok
     /\ h.mem.total > 0 /\ \E p \in h.mem.processes : 10 * p > 4 * h.mem.total
    THEN Found("memory_process_hogging", 85,
               <<EvidenceItem("list_top_memory_processes", 0, "warning", 85)>>,
               <<Safe("inspect_process", "rss"), Kill>>)
    ELSE Nothing

-----------------------------------------------------------------------------
\* What each rule finds.
Outcomes(h, ok) ==
  <<DetectGpuUnavailable(h, ok), DetectGpuMemoryPressure(h, ok), DetectCpuBottleneck(h, ok),
    DetectCpuSaturation(h, ok), DetectSingleProcessCpuHot(h, ok), DetectMemoryPressure(h, ok),
    DetectSwapPressure(h, ok), DetectOomEvent(h, ok), DetectMemoryHog(h, ok)>>

RunDetectors(h, ok) ==
  LET outcomes == Outcomes(h, ok)
  IN [evidence |-> FlattenSeq([i \in DOMAIN outcomes |-> outcomes[i].evidence]),
      findings |-> FlattenSeq([i \in DOMAIN outcomes |-> outcomes[i].findings])]

\* The recommendations that need an approval.
Asking(actions) ==
  FlattenSeq([j \in DOMAIN actions |-> IF actions[j].approval THEN <<actions[j]>> ELSE <<>>])

\* _create_approvals
ApprovalsFor(findings) == FlattenSeq([i \in DOMAIN findings |-> Asking(findings[i].actions)])
=============================================================================
