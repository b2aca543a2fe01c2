------------------------------ MODULE Workspace ------------------------------
(***************************************************************************)
(* The workspace of a run (workspace/writer.py): the files under           *)
(* var/runs/<run_id> that repeat what the trace holds.  Every request that *)
(* has decided an approval rewrites them from the trace                    *)
(* (update_from_trace), the report job does once when its report is stored *)
(* (apply_report_snapshot), and nothing orders these writers:              *)
(*                                                                         *)
(*   request:  idle -> reading -> writing -> done                          *)
(*   job:      generating -> storing -> publishing -> writing -> done      *)
(*                                                                         *)
(* A writer holds the set of files it has still to write; they all write   *)
(* theirs in the order of Place, in place: opening a file empties it, and  *)
(* what is in it afterwards is up to everybody who has it open.  A writer  *)
(* that raises or dies ends (`stopped') and repairs nothing.  A file is    *)
(* abstracted to the parts of the trace it was written from.               *)
(***************************************************************************)
EXTENDS Naturals, FiniteSets

CONSTANTS
  Client,    \* requests on approvals of the run
  Job,       \* the report job
  Nobody,
  File,      \* the files to follow
  Missing,   \* a file that does not exist
  Empty,     \* a file that has been opened for writing, and no more
  Partial    \* a file with a part of some text, or with parts of several

\* `context' is compact/report_context.json, which only the diagnosis writes.
Files == {"report", "metadata", "todos", "context", "steps", "approvals",
          "action_results", "llm_calls", "summary", "remediation"}

ASSUME WriterAssumption ==
  IsFiniteSet(Client) /\ Job \notin Client /\ Nobody \notin Client \cup {Job}
ASSUME FileAssumption == File \subseteq Files /\ {"report", "metadata", "context"} \subseteq File

Writer == Client \cup {Job}

\* The order in which a writer goes through its files.
Place ==
  [report |-> 1, metadata |-> 2, todos |-> 3, steps |-> 4, approvals |-> 5,
   action_results |-> 6, llm_calls |-> 7, summary |-> 8, remediation |-> 9]

VARIABLES
  trace,    \* how many decisions the tables hold, and the state of the report
  file,     \* what every file was written from
  pc,       \* control state of every writer
  seen,     \* the trace a writer has read
  todo,     \* the files it has still to write
  open,     \* the one of them it has emptied and not yet written, or "none"
  alone     \* history: the writer whose reading of the trace is up to date
            \* and whose files no other has touched since, or Nobody

vars == <<trace, file, pc, seen, todo, open, alone>>

\* "disowned": the report was stored, and its job is marked as failed since.
ReportState == {"generating", "published", "failed", "disowned"}
Decisions == 0..Cardinality(Client)
Trace == [decided : Decisions, report : ReportState]

ASSUME ContentAssumption ==
  /\ Missing # Empty /\ Missing # Partial /\ Empty # Partial
  /\ Missing \notin [decided : Nat, report : ReportState]
  /\ Empty \notin [decided : Nat, report : ReportState]
  /\ Partial \notin [decided : Nat, report : ReportState]

\* The tables hold the text of a report.
HasText(t) == t.report \in {"published", "disowned"}

\* What a file shows of trace t: metadata.json how the report job stands, the
\* others at most that there is a text.
ShowsDecisions(f, t) ==
  \/ f \in {"metadata", "todos", "approvals", "action_results", "summary", "remediation"}
  \/ f = "report" /\ HasText(t)

ReportShown(f, t) ==
  IF f = "metadata"
    THEN t.report
    ELSE IF f \in {"report", "todos", "steps", "llm_calls", "summary"} /\ HasText(t)
           THEN "published" ELSE "generating"

View(f, t) ==
  IF f = "remediation" /\ t.decided = 0
    THEN Missing
    ELSE [decided |-> IF ShowsDecisions(f, t) THEN t.decided ELSE 0,
          report |-> ReportShown(f, t)]

TypeOK ==
  /\ trace \in Trace
  /\ file \in [File -> Trace \cup {Missing, Empty, Partial}]
  /\ pc \in [Writer -> {"idle", "generating", "storing", "publishing", "reading",
                        "writing", "stopped", "done"}]
  /\ seen \in [Writer -> Trace]
  /\ todo \in [Writer -> SUBSET File]
  /\ open \in [Writer -> File \cup {"none"}]
  /\ alone \in Writer \cup {Nobody}

NewTrace == [decided |-> 0, report |-> "generating"]
ReportedTrace == [decided |-> 0, report |-> "published"]

SnapshotOrder ==
  <<"metadata", "todos", "report", "context", "steps", "approvals",
    "action_results", "llm_calls", "summary">>

\* write_diagnosis_snapshot and write_agent_result end at the first file that
\* cannot be written, or with their process: that file may be there by then,
\* empty or in part, and the ones after it are not.
WriteSnapshot(t) ==
  \E n \in 0..9 : \E torn \in {Missing, Empty, Partial} :
    file = [f \in File |->
              IF \E i \in 1..n : SnapshotOrder[i] = f THEN View(f, t)
              ELSE IF n < 9 /\ f = SnapshotOrder[n + 1] THEN torn ELSE Missing]

\* The report is a job's, or was made together with the diagnosis.  The job
\* runs after the snapshot, but for a process that has ended before.
Init ==
  /\ \E job \in {"generating", "stopped", "done"} :
       /\ pc = [w \in Writer |-> IF w = Job THEN job ELSE "idle"]
       /\ trace = IF job = "done" THEN ReportedTrace ELSE NewTrace
  /\ WriteSnapshot(trace)
  /\ seen = [w \in Writer |-> NewTrace]
  /\ todo = [w \in Writer |-> {}]
  /\ open = [w \in Writer |-> "none"]
  /\ alone = Nobody

-----------------------------------------------------------------------------
Goto(w, from, to) ==
  /\ pc[w] = from
  /\ pc' = [pc EXCEPT ![w] = to]

\* A writer that ends has no use for what it has read.
End(w, from, to) ==
  /\ Goto(w, from, to)
  /\ seen' = [seen EXCEPT ![w] = NewTrace]

Overwrites(w) == alone' = IF alone = w THEN w ELSE Nobody

(* The request: its decision, and then update_from_trace                   *)

\* The transaction that stores what the request decided.
Decide(c) ==
  /\ Goto(c, "idle", "reading")
  /\ trace' = [trace EXCEPT !.decided = @ + 1]
  /\ alone' = Nobody
  /\ UNCHANGED <<file, seen, todo, open>>

\* Mutation: only the job writes remediation_summary.md.
RefreshFilesWithoutResults(t) ==
  File \ ({"steps", "context", "remediation"} \cup IF HasText(t) THEN {} ELSE {"report"})

\* Mutation: report.md is refreshed whether or not the trace has a report.
RefreshFilesUnguarded(t) == File \ {"steps", "context"}

\* report.md only once the trace has a report.
RefreshFiles(t) ==
  File \ ({"steps", "context"} \cup IF HasText(t) THEN {} ELSE {"report"})

ReadForRefresh(c) ==
  /\ c \in Client
  /\ Goto(c, "reading", "writing")
  /\ seen' = [seen EXCEPT ![c] = trace]
  /\ todo' = [todo EXCEPT ![c] = RefreshFiles(trace)]
  /\ alone' = c
  /\ UNCHANGED <<trace, file, open>>

-----------------------------------------------------------------------------
(* The job: reconcile, store, apply_report_snapshot                        *)

\* Mutation: the report keeps the status of the ReportSnapshot.
ReconcileRaw ==
  /\ Goto(Job, "generating", "storing")
  /\ seen' = [seen EXCEPT ![Job] = [trace EXCEPT !.report = "success"]]
  /\ alone' = Job
  /\ UNCHANGED <<trace, file, todo, open>>

\* The report is reconciled with the trace.
Reconcile ==
  /\ Goto(Job, "generating", "storing")
  /\ seen' = [seen EXCEPT ![Job] = [trace EXCEPT !.report = "published"]]
  /\ alone' = Job
  /\ UNCHANGED <<trace, file, todo, open>>

\* Mutation: only a report.md that is there is replaced.
PublishFilesIfThere == IF file["report"] = Missing THEN {} ELSE {"report"}

\* report.md comes first, from the report the job holds.
PublishFiles == {"report"}

\* finalize_report_snapshot
StoreReport ==
  /\ Goto(Job, "storing", "publishing")
  /\ trace' = [trace EXCEPT !.report = "published"]
  /\ todo' = [todo EXCEPT ![Job] = PublishFiles]
  /\ Overwrites(Job)
  /\ UNCHANGED <<file, seen, open>>

\* mark_report_failed: nobody tells the workspace.
ReportFails ==
  /\ \E from \in {"generating", "storing"} : End(Job, from, "stopped")
  /\ trace' = [trace EXCEPT !.report = "failed"]
  /\ alone' = Nobody
  /\ UNCHANGED <<file, todo, open>>

ApplyFiles == File \ {"report", "context"}

\* The other files, from a trace read anew.
ReadForReport ==
  /\ Goto(Job, "publishing", "writing")
  /\ todo[Job] = {}
  /\ seen' = [seen EXCEPT ![Job] = trace]
  /\ todo' = [todo EXCEPT ![Job] = ApplyFiles]
  /\ Overwrites(Job)
  /\ UNCHANGED <<trace, file, open>>

-----------------------------------------------------------------------------
(* Writing a file                                                          *)

\* metadata.json is made from two files of the workspace: from
\* compact/report_context.json, which must hold JSON if it is there, and from
\* report.md as long as the trace has no report.
Writable(w, f) ==
  f = "metadata" =>
    /\ file["context"] \notin {Empty, Partial}
    /\ HasText(seen[w]) \/ file["report"] # Missing

Due(w, f) ==
  /\ open[w] = "none"
  /\ f \in todo[w]
  /\ \A g \in todo[w] : Place[f] <= Place[g]
  /\ Writable(w, f)

OpenFile(w) ==
  /\ \E f \in todo[w] :
       /\ Due(w, f) /\ View(f, seen[w]) # Missing
       /\ file' = [file EXCEPT ![f] = Empty]
       /\ open' = [open EXCEPT ![w] = f]
  /\ Overwrites(w)
  /\ UNCHANGED <<trace, pc, seen, todo>>

\* Over what another writer has put into the file since, from the beginning:
\* of a longer text the end remains.
WriteFile(w) ==
  /\ open[w] # "none"
  /\ LET f == open[w] text == View(f, seen[w]) IN
       /\ \E left \in IF file[f] \in {Empty, text} THEN {text} ELSE {text, Partial} :
            file' = [file EXCEPT ![f] = left]
       /\ todo' = [todo EXCEPT ![w] = @ \ {f}]
  /\ open' = [open EXCEPT ![w] = "none"]
  /\ Overwrites(w)
  /\ UNCHANGED <<trace, pc, seen>>

\* remediation_summary.md goes if there is nothing to tell.  Who has it open
\* writes to a file that has no name any more.
RemoveFile(w) ==
  /\ \E f \in todo[w] :
       /\ Due(w, f) /\ View(f, seen[w]) = Missing
       /\ file' = [file EXCEPT ![f] = Missing]
       /\ todo' = [x \in Writer |-> IF x = w \/ open[x] = f THEN todo[x] \ {f} ELSE todo[x]]
       /\ open' = [x \in Writer |-> IF open[x] = f THEN "none" ELSE open[x]]
  /\ Overwrites(w)
  /\ UNCHANGED <<trace, pc, seen>>

\* An error between two files, or the end of the process: the files left are
\* not written.  After a decision the API and the CLI swallow an OSError, the
\* API's job logs it; any other error of a request goes to its caller.
Raises(w) ==
  /\ open[w] = "none"
  /\ \E from \in {"reading", "publishing", "writing"} : End(w, from, "stopped")
  /\ todo' = [todo EXCEPT ![w] = {}]
  /\ UNCHANGED <<trace, file, open, alone>>

\* The same in the middle of a file, which keeps what has been written of it.
BreaksOff(w) ==
  /\ open[w] # "none"
  /\ \E left \in {file[open[w]], Partial} : file' = [file EXCEPT ![open[w]] = left]
  /\ \E from \in {"publishing", "writing"} : End(w, from, "stopped")
  /\ todo' = [todo EXCEPT ![w] = {}]
  /\ open' = [open EXCEPT ![w] = "none"]
  /\ Overwrites(w)
  /\ UNCHANGED trace

\* Any other error ends the API's job with mark_report_failed, although its
\* report is stored.
Disown ==
  /\ open[Job] = "none"
  /\ \E from \in {"publishing", "writing"} : End(Job, from, "stopped")
  /\ trace' = [trace EXCEPT !.report = "disowned"]
  /\ todo' = [todo EXCEPT ![Job] = {}]
  /\ alone' = Nobody
  /\ UNCHANGED <<file, open>>

Finish(w) ==
  /\ End(w, "writing", "done")
  /\ todo[w] = {}
  /\ UNCHANGED <<trace, file, todo, open, alone>>

Write(w) ==
  OpenFile(w) \/ WriteFile(w) \/ RemoveFile(w) \/ Raises(w) \/ BreaksOff(w) \/ Finish(w)

Next ==
  \/ Reconcile \/ StoreReport \/ ReportFails \/ ReadForReport \/ Disown
  \/ \E c \in Client : Decide(c) \/ ReadForRefresh(c)
  \/ \E w \in Writer : Write(w)

\* A thread that has begun to write goes on, and so does the job; nobody has
\* to decide anything.
Spec ==
  /\ Init /\ [][Next]_vars
  /\ WF_vars(Reconcile \/ StoreReport \/ ReportFails \/ ReadForReport \/ Disown)
  /\ \A c \in Client : WF_vars(ReadForRefresh(c))
  /\ \A w \in Writer : WF_vars(Write(w))

-----------------------------------------------------------------------------
(* Properties *)

\* A refresh nobody interferes with brings the workspace up to date, whatever
\* earlier writers have left out, left empty or left half written: every file
\* it is responsible for shows the trace as it is, and nothing else.  A
\* request is responsible for report.md only once a report is stored.
RefreshIsExact ==
  \A w \in Writer : (alone = w /\ pc[w] = "done") =>
    \A f \in File \ {"context"} :
      (f = "steps" => w = Job) /\ (f = "report" => HasText(trace))
        => file[f] = View(f, trace)

\* What report.md says before there is a report.
Placeholder == [decided |-> 0, report |-> "generating"]

Told == HasText(trace) /\ file["report"] \notin {Missing, Placeholder}

\* Once a report is stored and report.md no longer says that it is to come,
\* it never says so again and never goes away, though a request that has read
\* the trace before the report was stored may write after the job.  It may be
\* damaged, by a write that breaks off or by two at once, until the next
\* refresh.
ReportIsNotRecalled == [][Told => Told']_vars

HasReport == file["report"] \in [decided : Nat, report : {"published"}]

\* A report that is stored reaches report.md although the diagnosis could not
\* write its own files, unless the job stops before, or a request breaks off
\* in report.md while the job has it open.
StoredReportIsWritten ==
  pc[Job] = "storing" ~>
    \/ HasReport
    \/ pc[Job] = "stopped"
    \/ open[Job] = "report" /\ file["report"] = Partial
=============================================================================
