---------------------------- MODULE ReportContext ----------------------------
(***************************************************************************)
(* What the report's prompt is made of (agent/report_context.py), and the  *)
(* check of the report that comes back (agent/llm_report.py).  A selection *)
(* is kept as the sequence it yields; texts, facts and the summary of the  *)
(* system are left out.  An approval is named by its position among those  *)
(* of the run.                                                             *)
(***************************************************************************)
EXTENDS Detectors, FiniteSets

MaxFindings == 3
MaxEvidence == 5

First(n, s) == SubSeq(s, 1, IF n < Len(s) THEN n ELSE Len(s))

\* sorted(..., key=confidence, reverse=True), which is stable.
ByConfidence(s) ==
  LET Before(j, i) == \/ s[j].confidence > s[i].confidence
                      \/ s[j].confidence = s[i].confidence /\ j < i
      place == [i \in DOMAIN s |-> 1 + Cardinality({j \in DOMAIN s : Before(j, i)})]
  IN [k \in DOMAIN s |-> s[CHOOSE i \in DOMAIN s : place[i] = k]]

SelectKeyFindings(findings) == First(MaxFindings, ByConfidence(findings))

\* The evidence of the findings selected, and what is left by confidence.
SelectKeyEvidence(findings, evidence) ==
  LET own == FlattenSeq([i \in DOMAIN findings |-> findings[i].evidence])
      rest == SelectSeq(ByConfidence(evidence), LAMBDA e : ~Contains(own, e))
  IN First(MaxEvidence, own \o rest)

\* A root cause takes its severity from the first of its evidence selected.
BuildRootCauses(findings, evidence) ==
  LET Severity(f) ==
        LET shown == SelectSeq(f.evidence, LAMBDA e : Contains(evidence, e))
        IN IF shown = <<>> THEN "warning" ELSE shown[1].level
  IN [i \in DOMAIN findings |-> [type |-> findings[i].type, severity |-> Severity(findings[i])]]

\* The tool each condition is read from.
RuledOutBy ==
  [cpu_saturation |-> "get_cpu_snapshot",
   gpu_pressure |-> "get_gpu_snapshot",
   recent_oom |-> "check_oom_events"]

\* The conditions the prompt declares matched or ruled out.  The results of
\* all tools that ran are read; what a failed tool did not report is empty.
BuildRuledOut(h, ok, ran) ==
  LET gpus == IF "get_gpu_snapshot" \in ok /\ h.gpu.available THEN ToSet(h.gpu.gpus) ELSE {}
      matched ==
        [cpu_saturation |-> h.cpu.overall >= 90,
         gpu_pressure |-> \E g \in gpus : g.util >= 90 \/ g.memory >= 90,
         recent_oom |-> "check_oom_events" \in ok /\ h.oom.events > 0]
      listed == {c \in DOMAIN matched : RuledOutBy[c] \in IF c = "cpu_saturation" THEN ok ELSE ran}
  IN {[condition |-> c, matched |-> matched[c]] : c \in listed}

\* approval_by_action keeps the last approval of an action; a recommendation
\* is named once for its action and reason.  0 stands for no approval.
BuildRecommendations(findings, approvals) ==
  LET LastOf(action) ==
        LET own == {i \in DOMAIN approvals : approvals[i].action = action}
        IN IF own = {} THEN 0 ELSE CHOOSE i \in own : \A j \in own : j <= i
  IN {[action |-> a.action, reason |-> a.reason, approval |-> LastOf(a.action)] :
        a \in UNION {ToSet(findings[i].actions) : i \in DOMAIN findings}}

BuildReportContext(h, ok, ran, detected, approvals) ==
  LET findings == SelectKeyFindings(detected.findings)
      evidence == SelectKeyEvidence(findings, detected.evidence)
  IN [rootCauses |-> BuildRootCauses(findings, evidence),
      keyEvidence |-> evidence,
      ruledOut |-> BuildRuledOut(h, ok, ran),
      recommendations |-> BuildRecommendations(findings, approvals)]

\* The approvals the prompt names.
PromptApprovals(context) == {r.approval : r \in context.recommendations} \ {0}

-----------------------------------------------------------------------------
(* validate_llm_report.  A report is abstracted to whether it has all the   *)
(* sections, the approvals it names, what it says of each within 500        *)
(* characters of the first mention (near), and the approvals it calls       *)
(* executed elsewhere (later).                                              *)

\* A word for pending, and the status executed.
Claim == {"pending", "executed"}

\* Mutation: a pending approval may be left unmentioned.
AcceptableIfSilent(text, pendingApprovals) ==
  /\ text.sections
  /\ \A a \in pendingApprovals \cap text.named : "executed" \notin text.near[a]

\* Nobody looks at the later mentions of an approval.
Acceptable(text, pendingApprovals) ==
  /\ text.sections
  /\ \A a \in pendingApprovals :
       a \in text.named /\ "pending" \in text.near[a] /\ "executed" \notin text.near[a]
=============================================================================
