---------------------------- MODULE WorkspaceProofs ----------------------------
(***************************************************************************)
(* What the writers of a workspace leave behind, for any number of         *)
(* requests and any choice of files to follow.                             *)
(*                                                                         *)
(* RefreshIsExact speaks of a writer that has finished.  AloneInv says how *)
(* far it has come before: which files already show the trace, and that    *)
(* the file it has open is still as empty as opening has left it.  Nothing *)
(* is assumed of the files it has not come to: they may be missing, empty  *)
(* or half written.                                                        *)
(***************************************************************************)
EXTENDS Workspace, FiniteSetTheorems, TLAPS

\* The requests that have decided.
Decided == {c \in Client : pc[c] # "idle"}

\* Every request decides once.
CountInv == trace.decided = Cardinality(Decided)

\* Where writers can be, and what they hold: only those that write have files
\* to write, report.md is for who has seen a report, and an open file is one
\* of those to write.
ControlInv ==
  /\ \A c \in Client : pc[c] \in {"idle", "reading", "writing", "stopped", "done"}
  /\ pc[Job] \in {"generating", "storing"} => trace.report = "generating"
  /\ pc[Job] \in {"storing", "publishing"} => seen[Job].report = "published"
  /\ \A w \in Writer : todo[w] # {} => pc[w] \in {"publishing", "writing"}
  /\ \A w \in Writer : "report" \in todo[w] => HasText(seen[w])
  /\ \A w \in Writer : open[w] # "none" => open[w] \in todo[w]

\* File f is as w is to leave it, or w still has to write it, or it is not
\* for w to write.
Covered(w, f) ==
  \/ file[f] = View(f, trace)
  \/ f \in todo[w]
  \/ f = "steps" /\ w # Job
  \/ f = "report" /\ ~HasText(trace)

AloneInv ==
  \A w \in Writer : alone = w =>
    /\ pc[w] = "storing" => seen[w] = [trace EXCEPT !.report = "published"]
    /\ pc[w] \in {"publishing", "writing"} => seen[w] = trace
    /\ pc[w] = "publishing" => Covered(w, "report")
    /\ pc[w] \in {"writing", "done"} => \A f \in File \ {"context"} : Covered(w, f)
    /\ open[w] # "none" => file[open[w]] = Empty

WorkspaceInv == TypeOK /\ CountInv /\ ControlInv /\ AloneInv

-----------------------------------------------------------------------------
(* Lemmas on the operators.                                                *)

\* Decisions are counted from 0, and there are finitely many requests.
LEMMA DecisionsAreNaturals ==
  Cardinality(Client) \in Nat /\ 0 \in Decisions /\ Decisions \subseteq Nat
<1>1. Cardinality(Client) \in Nat
  BY FS_CardinalityType, WriterAssumption
<1>. QED BY <1>1 DEF Decisions

\* What a file shows of a trace is a trace, or the file is not there.
LEMMA ViewType ==
  ASSUME NEW f, NEW t \in Trace
  PROVE  View(f, t) \in Trace \cup {Missing}
BY DecisionsAreNaturals DEF View, ReportShown, Trace, ReportState

\* A new trace is one, and so is one of a reported diagnosis.
LEMMA FirstTraces == NewTrace \in Trace /\ ReportedTrace \in Trace
BY DecisionsAreNaturals DEF NewTrace, ReportedTrace, Trace, ReportState

\* Of a trace with a report, report.md shows the report.
LEMMA ReportView ==
  ASSUME NEW t \in Trace, HasText(t)
  PROVE  View("report", t) \notin {Missing, Placeholder}
<1>1. View("report", t) = [decided |-> t.decided, report |-> "published"]
  BY DEF View, ReportShown, ShowsDecisions
<1>2. View("report", t) \in [decided : Nat, report : ReportState]
  <2>1. t.decided \in Nat
    BY DecisionsAreNaturals DEF Trace
  <2>. QED BY <1>1, <2>1 DEF ReportState
<1>3. View("report", t).report = "published" /\ Placeholder.report = "generating"
  BY <1>1 DEF Placeholder
<1>. QED BY <1>2, <1>3, ContentAssumption

\* A trace as the job reconciles, stores and disowns it.
LEMMA PublishedTrace ==
  ASSUME NEW t \in Trace, NEW s \in ReportState
  PROVE  /\ [t EXCEPT !.report = s] \in Trace
         /\ [t EXCEPT !.report = s].report = s
         /\ [t EXCEPT !.report = s].decided = t.decided
BY DEF Trace

\* Report and metadata are among the files, and a writer is a request or the job.
LEMMA FilesAndWriters ==
  /\ "report" \in File /\ "metadata" \in File
  /\ Job \in Writer /\ Client \subseteq Writer /\ Job \notin Client /\ Nobody \notin Writer
  /\ \A w \in Writer : w # Job => w \in Client
  /\ "none" \notin File
BY FileAssumption, WriterAssumption DEF Writer, Files

\* The types of what is written into a file.
LEMMA ContentType ==
  ASSUME TypeOK, NEW f \in File, NEW left \in Trace \cup {Missing, Empty, Partial}
  PROVE  /\ [file EXCEPT ![f] = left] \in [File -> Trace \cup {Missing, Empty, Partial}]
         /\ [file EXCEPT ![f] = left][f] = left
         /\ \A g \in File \ {f} : [file EXCEPT ![f] = left][g] = file[g]
BY DEF TypeOK

-----------------------------------------------------------------------------
(* The decisions are counted.                                              *)

\* A step that lets nobody decide.
LEMMA CountStays ==
  ASSUME TypeOK, CountInv, NEW w \in Writer, NEW from, NEW to, Goto(w, from, to),
         w \in Client => from # "idle" /\ to # "idle",
         trace'.decided = trace.decided
  PROVE  CountInv'
<1>1. \A c \in Client : pc'[c] # "idle" <=> pc[c] # "idle"
  BY FilesAndWriters DEF Goto, TypeOK
<1>2. Decided' = Decided
  BY <1>1 DEF Decided
<1>. QED BY <1>2 DEF CountInv

\* A decision is one of at most as many as there are requests.
LEMMA DecideCounts ==
  ASSUME TypeOK, CountInv, NEW c \in Client, Decide(c)
  PROVE  CountInv' /\ trace' \in Trace
<1>1. Decided' = Decided \cup {c} /\ c \notin Decided
  BY FilesAndWriters DEF Decide, Goto, TypeOK, Decided
<1>2. IsFiniteSet(Decided)
  BY FS_Subset, WriterAssumption DEF Decided
<1>3. Cardinality(Decided') = Cardinality(Decided) + 1
  BY <1>1, <1>2, FS_AddElement
<1>4. Cardinality(Decided') <= Cardinality(Client)
  BY FS_Subset, WriterAssumption DEF Decided
<1>5. trace.decided + 1 \in Decisions
  BY <1>3, <1>4, DecisionsAreNaturals DEF CountInv, TypeOK, Trace, Decisions
<1>6. trace' = [trace EXCEPT !.decided = trace.decided + 1]
  BY DEF Decide
<1>7. trace' \in Trace /\ trace'.decided = trace.decided + 1
  BY <1>5, <1>6 DEF TypeOK, Trace
<1>. QED BY <1>3, <1>7 DEF CountInv

-----------------------------------------------------------------------------
(* Types.                                                                  *)

\* Every step keeps the types; that the count stays in range is DecideCounts.
LEMMA TypeStep ==
  ASSUME TypeOK, CountInv, ControlInv, [Next]_vars
  PROVE  TypeOK'
<1>. USE FilesAndWriters, FirstTraces DEF TypeOK
<1>1. ASSUME NEW w \in Writer, NEW from,
             NEW to \in {"reading", "writing", "storing", "publishing", "stopped", "done"},
             Goto(w, from, to)
      PROVE  pc' \in [Writer -> {"idle", "generating", "storing", "publishing", "reading",
                                 "writing", "stopped", "done"}]
  BY <1>1 DEF Goto
<1>2. "published" \in ReportState /\ "failed" \in ReportState /\ "disowned" \in ReportState
  BY DEF ReportState
<1>3. CASE Reconcile \/ StoreReport
  BY <1>1, <1>2, <1>3, PublishedTrace DEF Reconcile, StoreReport, PublishFiles, Overwrites
<1>4. CASE ReportFails \/ Disown
  BY <1>1, <1>2, <1>4, PublishedTrace DEF ReportFails, Disown, End
<1>5. CASE ReadForReport
  BY <1>1, <1>5 DEF ReadForReport, ApplyFiles, Overwrites
<1>6. ASSUME NEW c \in Client, Decide(c)
      PROVE  TypeOK'
  BY <1>1, <1>6, DecideCounts DEF Decide
<1>7. ASSUME NEW c \in Client, ReadForRefresh(c)
      PROVE  TypeOK'
  BY <1>1, <1>7 DEF ReadForRefresh, RefreshFiles
<1>8. ASSUME NEW w \in Writer, OpenFile(w)
      PROVE  TypeOK'
  BY <1>8 DEF OpenFile, Overwrites
<1>9. ASSUME NEW w \in Writer, WriteFile(w)
      PROVE  TypeOK'
  <2>1. open[w] \in File
    BY <1>9 DEF WriteFile
  <2>2. View(open[w], seen[w]) \in Trace \cup {Missing}
    BY ViewType
  <2>3. file' \in [File -> Trace \cup {Missing, Empty, Partial}]
    BY <1>9, <2>1, <2>2, ContentType DEF WriteFile
  <2>. QED BY <1>9, <2>3 DEF WriteFile, Overwrites
<1>10. ASSUME NEW w \in Writer, RemoveFile(w)
       PROVE  TypeOK'
  <2>1. todo' \in [Writer -> SUBSET File] /\ open' \in [Writer -> File \cup {"none"}]
    BY <1>10 DEF RemoveFile
  <2>. QED BY <1>10, <2>1 DEF RemoveFile, Overwrites
<1>11. ASSUME NEW w \in Writer, Raises(w) \/ Finish(w)
       PROVE  TypeOK'
  BY <1>1, <1>11 DEF Raises, Finish, End
<1>12. ASSUME NEW w \in Writer, BreaksOff(w)
       PROVE  TypeOK'
  BY <1>1, <1>12 DEF BreaksOff, End, Overwrites
<1>13. CASE UNCHANGED vars
  BY <1>13 DEF vars
<1>. QED BY <1>3, <1>4, <1>5, <1>6, <1>7, <1>8, <1>9, <1>10, <1>11, <1>12, <1>13 DEF Next, Write

\* Every step keeps the count of the requests that have decided.
LEMMA CountStep ==
  ASSUME TypeOK, CountInv, [Next]_vars
  PROVE  CountInv'
<1>. USE FilesAndWriters
<1>1. CASE Reconcile \/ ReadForReport
  BY <1>1, CountStays DEF Reconcile, ReadForReport
<1>2. CASE StoreReport \/ ReportFails \/ Disown
  <2>1. trace'.decided = trace.decided
    BY <1>2, PublishedTrace DEF StoreReport, ReportFails, Disown, TypeOK, ReportState
  <2>. QED BY <1>2, <2>1, CountStays DEF StoreReport, ReportFails, Disown, End
<1>3. ASSUME NEW c \in Client, Decide(c)
      PROVE  CountInv'
  BY <1>3, DecideCounts
<1>4. ASSUME NEW c \in Client, ReadForRefresh(c)
      PROVE  CountInv'
  BY <1>4, CountStays DEF ReadForRefresh
<1>5. ASSUME NEW w \in Writer, OpenFile(w) \/ WriteFile(w) \/ RemoveFile(w)
      PROVE  CountInv'
  BY <1>5 DEF OpenFile, WriteFile, RemoveFile, CountInv, Decided
<1>6. ASSUME NEW w \in Writer, Raises(w) \/ BreaksOff(w) \/ Finish(w)
      PROVE  CountInv'
  BY <1>6, CountStays DEF Raises, BreaksOff, Finish, End
<1>7. CASE UNCHANGED vars
  BY <1>7 DEF vars, CountInv, Decided
<1>. QED BY <1>1, <1>2, <1>3, <1>4, <1>5, <1>6, <1>7 DEF Next, Write

-----------------------------------------------------------------------------
(* Where the writers are, and what they hold.                              *)

\* Every step keeps what a writer holds in step with where it is.
LEMMA ControlStep ==
  ASSUME TypeOK, ControlInv, [Next]_vars
  PROVE  ControlInv'
<1>. USE FilesAndWriters DEF TypeOK, ControlInv
<1>1. CASE Reconcile
  <2>1. seen'[Job].report = "published" /\ \A c \in Client : seen'[c] = seen[c]
    BY <1>1, PublishedTrace DEF Reconcile, ReportState
  <2>. QED BY <1>1, <2>1 DEF Reconcile, Goto
<1>2. CASE StoreReport
  BY <1>2 DEF StoreReport, Goto, PublishFiles, HasText
<1>3. CASE ReportFails
  BY <1>3 DEF ReportFails, End, Goto
<1>4. CASE Disown
  BY <1>4 DEF Disown, End, Goto
<1>5. CASE ReadForReport
  BY <1>5 DEF ReadForReport, Goto, ApplyFiles
<1>6. ASSUME NEW c \in Client, Decide(c)
      PROVE  ControlInv'
  <2>1. trace'.report = trace.report
    BY <1>6 DEF Decide, Trace
  <2>. QED BY <1>6, <2>1 DEF Decide, Goto
<1>7. ASSUME NEW c \in Client, ReadForRefresh(c)
      PROVE  ControlInv'
  BY <1>7 DEF ReadForRefresh, Goto, RefreshFiles
<1>8. ASSUME NEW w \in Writer, OpenFile(w)
      PROVE  ControlInv'
  BY <1>8 DEF OpenFile
<1>9. ASSUME NEW w \in Writer, WriteFile(w)
      PROVE  ControlInv'
  BY <1>9 DEF WriteFile
<1>10. ASSUME NEW w \in Writer, RemoveFile(w)
       PROVE  ControlInv'
  <2>1. \A x \in Writer : todo'[x] \subseteq todo[x]
    BY <1>10 DEF RemoveFile
  <2>2. \A x \in Writer : open'[x] # "none" => open'[x] \in todo'[x]
    BY <1>10 DEF RemoveFile, Due
  <2>. QED BY <1>10, <2>1, <2>2 DEF RemoveFile
<1>11. ASSUME NEW w \in Writer, Raises(w) \/ BreaksOff(w) \/ Finish(w)
       PROVE  ControlInv'
  BY <1>11 DEF Raises, BreaksOff, Finish, End, Goto
<1>12. CASE UNCHANGED vars
  BY <1>12 DEF vars
<1>. QED BY <1>1, <1>2, <1>3, <1>4, <1>5, <1>6, <1>7, <1>8, <1>9, <1>10, <1>11, <1>12 DEF Next, Write

-----------------------------------------------------------------------------
(* How far the writer has come with whom nobody interferes.                *)

\* The undisturbed writer opens a file, completes it or removes it.
LEMMA AloneWrites ==
  ASSUME TypeOK, ControlInv, AloneInv, NEW w \in Writer, alone = w,
         OpenFile(w) \/ WriteFile(w) \/ RemoveFile(w)
  PROVE  /\ \A g \in File : Covered(w, g) => Covered(w, g)'
         /\ open'[w] # "none" => file'[open'[w]] = Empty
<1>. USE FilesAndWriters DEF TypeOK, ControlInv
<1>1. todo[w] # {} /\ seen[w] = trace /\ trace' = trace
  BY DEF OpenFile, WriteFile, RemoveFile, AloneInv
<1>2. CASE OpenFile(w)
  <2>1. PICK f \in todo[w] : file' = [file EXCEPT ![f] = Empty] /\ open' = [open EXCEPT ![w] = f]
    BY <1>2 DEF OpenFile
  <2>2. file'[f] = Empty /\ open'[w] = f /\ todo' = todo /\ \A g \in File \ {f} : file'[g] = file[g]
    BY <1>2, <2>1 DEF OpenFile
  <2>. QED BY <1>1, <2>1, <2>2 DEF Covered
<1>3. CASE WriteFile(w)
  <2>1. open[w] \in File /\ file[open[w]] = Empty
    BY <1>3 DEF WriteFile, AloneInv
  <2>2. file' = [file EXCEPT ![open[w]] = View(open[w], trace)]
    BY <1>1, <1>3, <2>1 DEF WriteFile
  <2>3. todo'[w] = todo[w] \ {open[w]} /\ open'[w] = "none"
    BY <1>3 DEF WriteFile
  <2>4. file'[open[w]] = View(open[w], trace) /\ \A g \in File \ {open[w]} : file'[g] = file[g]
    BY <2>1, <2>2
  <2>. QED BY <1>1, <2>1, <2>3, <2>4 DEF Covered
<1>4. CASE RemoveFile(w)
  <2>1. PICK f \in todo[w] :
          /\ Due(w, f) /\ View(f, seen[w]) = Missing
          /\ file' = [file EXCEPT ![f] = Missing]
          /\ todo' = [x \in Writer |-> IF x = w \/ open[x] = f THEN todo[x] \ {f} ELSE todo[x]]
          /\ open' = [x \in Writer |-> IF open[x] = f THEN "none" ELSE open[x]]
    BY <1>4 DEF RemoveFile
  <2>2. file'[f] = View(f, trace) /\ \A g \in File \ {f} : file'[g] = file[g]
    BY <1>1, <2>1
  <2>3. todo'[w] = todo[w] \ {f} /\ open'[w] = "none"
    BY <2>1 DEF Due
  <2>. QED BY <1>1, <2>1, <2>2, <2>3 DEF Covered
<1>. QED BY <1>2, <1>3, <1>4

\* Every step keeps the account of the undisturbed writer, or disturbs it.
LEMMA AloneStep ==
  ASSUME TypeOK, ControlInv, AloneInv, [Next]_vars
  PROVE  AloneInv'
<1>. USE FilesAndWriters DEF TypeOK
<1>1. CASE Reconcile
  BY <1>1 DEF Reconcile, Goto, AloneInv, ControlInv
<1>2. CASE StoreReport
  <2>1. ASSUME alone = Job
        PROVE  seen'[Job] = trace' /\ Covered(Job, "report")' /\ open'[Job] = "none"
    <3>1. open[Job] = "none"
      BY <1>2 DEF StoreReport, Goto, ControlInv
    <3>. QED BY <1>2, <2>1, <3>1 DEF StoreReport, Goto, AloneInv, Covered, PublishFiles
  <2>. QED BY <1>2, <2>1 DEF StoreReport, Goto, Overwrites, AloneInv
<1>3. CASE ReportFails \/ Disown
  BY <1>3 DEF ReportFails, Disown, AloneInv
<1>4. CASE ReadForReport
  <2>1. ASSUME alone = Job
        PROVE  /\ \A f \in File \ {"context"} : Covered(Job, f)'
               /\ open'[Job] = "none"
    <3>1. Covered(Job, "report") /\ todo[Job] = {} /\ open[Job] = "none"
      BY <1>4, <2>1 DEF ReadForReport, Goto, AloneInv, ControlInv
    <3>2. trace' = trace /\ file' = file /\ todo'[Job] = File \ {"report", "context"} /\ open' = open
      BY <1>4 DEF ReadForReport, ApplyFiles
    <3>. QED BY <3>1, <3>2 DEF Covered
  <2>. QED BY <1>4, <2>1 DEF ReadForReport, Goto, Overwrites, AloneInv
<1>5. ASSUME NEW c \in Client, Decide(c)
      PROVE  AloneInv'
  BY <1>5 DEF Decide, AloneInv
<1>6. ASSUME NEW c \in Client, ReadForRefresh(c)
      PROVE  AloneInv'
  <2>1. ASSUME NEW f \in File \ {"context"}
        PROVE  Covered(c, f)'
    <3>1. trace' = trace /\ todo'[c] = RefreshFiles(trace)
      BY <1>6 DEF ReadForRefresh
    <3>. QED BY <2>1, <3>1 DEF Covered, RefreshFiles
  <2>2. open'[c] = "none"
    BY <1>6 DEF ReadForRefresh, Goto, ControlInv
  <2>. QED BY <1>6, <2>1, <2>2 DEF ReadForRefresh, Goto, AloneInv
<1>7. ASSUME NEW w \in Writer, OpenFile(w) \/ WriteFile(w) \/ RemoveFile(w)
      PROVE  AloneInv'
  <2>1. trace' = trace /\ pc' = pc /\ seen' = seen /\ alone' = IF alone = w THEN w ELSE Nobody
    BY <1>7 DEF OpenFile, WriteFile, RemoveFile, Overwrites
  <2>2. CASE alone = w
    BY <1>7, <2>1, <2>2, AloneWrites DEF AloneInv
  <2>3. CASE alone # w
    BY <2>1, <2>3 DEF AloneInv
  <2>. QED BY <2>2, <2>3
<1>8. ASSUME NEW w \in Writer, Raises(w) \/ Finish(w)
      PROVE  AloneInv'
  <2>1. UNCHANGED <<trace, file, open, alone>>
    BY <1>8 DEF Raises, Finish
  <2>2. \A x \in Writer \ {w} : pc'[x] = pc[x] /\ todo'[x] = todo[x] /\ seen'[x] = seen[x]
    BY <1>8 DEF Raises, Finish, End, Goto
  <2>3. \/ pc'[w] = "stopped" /\ open[w] = "none"
        \/ pc[w] = "writing" /\ pc'[w] = "done" /\ todo' = todo
    BY <1>8 DEF Raises, Finish, End, Goto
  <2>. QED BY <2>1, <2>2, <2>3 DEF AloneInv, Covered
<1>9. ASSUME NEW w \in Writer, BreaksOff(w)
      PROVE  AloneInv'
  <2>1. pc'[w] = "stopped" /\ open'[w] = "none"
    BY <1>9 DEF BreaksOff, End, Goto
  <2>2. alone' \in {w, Nobody}
    BY <1>9 DEF BreaksOff, Overwrites
  <2>. QED BY <2>1, <2>2 DEF AloneInv
<1>10. CASE UNCHANGED vars
  BY <1>10 DEF vars, AloneInv, Covered
<1>. QED BY <1>1, <1>2, <1>3, <1>4, <1>5, <1>6, <1>7, <1>8, <1>9, <1>10 DEF Next, Write

-----------------------------------------------------------------------------
(* The theorems.                                                           *)

\* A diagnosis has written a prefix of its files, the last of them perhaps in
\* part, and nobody has begun to rewrite them.
LEMMA InitialWorkspace == Init => WorkspaceInv
<1>. SUFFICES ASSUME Init
              PROVE  WorkspaceInv
  OBVIOUS
<1>. USE FilesAndWriters, FirstTraces
<1>1. TypeOK
  <2>1. trace \in Trace
    BY DEF Init
  <2>2. file \in [File -> Trace \cup {Missing, Empty, Partial}]
    BY <2>1, ViewType DEF Init, WriteSnapshot
  <2>. QED BY <2>1, <2>2 DEF Init, TypeOK
<1>2. Decided = {}
  BY DEF Init, Decided
<1>3. CountInv
  BY <1>2, FS_EmptySet DEF Init, CountInv, NewTrace, ReportedTrace
<1>4. ControlInv
  BY DEF Init, ControlInv, NewTrace, ReportedTrace
<1>5. AloneInv
  BY DEF Init, AloneInv
<1>. QED BY <1>1, <1>3, <1>4, <1>5 DEF WorkspaceInv

\* The invariant holds however requests and job interleave, break off and die.
THEOREM WorkspaceInvariant == Spec => []WorkspaceInv
<1>1. Init => WorkspaceInv
  BY InitialWorkspace
<1>2. WorkspaceInv /\ [Next]_vars => WorkspaceInv'
  BY TypeStep, CountStep, ControlStep, AloneStep DEF WorkspaceInv
<1>. QED BY <1>1, <1>2, PTL DEF Spec

\* Tables, files and writers keep their types; no more is decided than there
\* are requests.
THEOREM WorkspaceTypeCorrect == Spec => []TypeOK
BY WorkspaceInvariant, PTL DEF WorkspaceInv

\* A refresh nobody interferes with leaves every file it writes exact, also
\* those that earlier writers have left empty or half written.
THEOREM RefreshesAreExact == Spec => []RefreshIsExact
<1>1. WorkspaceInv => RefreshIsExact
  <2>. SUFFICES ASSUME WorkspaceInv, NEW w \in Writer, alone = w, pc[w] = "done",
                       NEW f \in File \ {"context"},
                       f = "steps" => w = Job, f = "report" => HasText(trace)
                PROVE  file[f] = View(f, trace)
    BY DEF RefreshIsExact
  <2>1. Covered(w, f) /\ todo[w] = {}
    BY DEF WorkspaceInv, AloneInv, ControlInv
  <2>. QED BY <2>1 DEF Covered
<1>. QED BY <1>1, WorkspaceInvariant, PTL

\* A step leaves report.md alone, empties it, writes a report into it, or
\* leaves it damaged: none of them puts the placeholder back.
LEMMA ReportWrites ==
  ASSUME TypeOK, ControlInv, [Next]_vars
  PROVE  file'["report"] = file["report"] \/ file'["report"] \notin {Missing, Placeholder}
<1>. USE FilesAndWriters DEF TypeOK, ControlInv
<1>1. Empty \notin {Missing, Placeholder} /\ Partial \notin {Missing, Placeholder}
  BY ContentAssumption DEF Placeholder, ReportState
<1>2. CASE Reconcile \/ StoreReport \/ ReportFails \/ ReadForReport \/ Disown
  BY <1>2 DEF Reconcile, StoreReport, ReportFails, ReadForReport, Disown
<1>3. ASSUME NEW c \in Client, Decide(c) \/ ReadForRefresh(c)
      PROVE  file'["report"] = file["report"]
  BY <1>3 DEF Decide, ReadForRefresh
<1>4. ASSUME NEW w \in Writer, OpenFile(w)
      PROVE  file'["report"] \in {file["report"], Empty}
  BY <1>4 DEF OpenFile
<1>5. ASSUME NEW w \in Writer, WriteFile(w)
      PROVE  file'["report"] = file["report"] \/ file'["report"] \notin {Missing, Placeholder}
  <2>1. CASE open[w] = "report"
    <3>1. HasText(seen[w])
      BY <2>1
    <3>2. View("report", seen[w]) \notin {Missing, Placeholder}
      BY <3>1, ReportView
    <3>3. file'["report"] \in {View("report", seen[w]), Partial}
      BY <1>5, <2>1 DEF WriteFile
    <3>. QED BY <1>1, <3>2, <3>3
  <2>2. CASE open[w] # "report"
    BY <1>5, <2>2 DEF WriteFile
  <2>. QED BY <2>1, <2>2
<1>6. ASSUME NEW w \in Writer, RemoveFile(w)
      PROVE  file'["report"] = file["report"]
  <2>1. PICK f \in todo[w] : View(f, seen[w]) = Missing /\ file' = [file EXCEPT ![f] = Missing]
    BY <1>6 DEF RemoveFile
  <2>2. f # "report"
    BY <2>1, ReportView
  <2>. QED BY <2>1, <2>2
<1>7. ASSUME NEW w \in Writer, Raises(w) \/ BreaksOff(w) \/ Finish(w)
      PROVE  file'["report"] \in {file["report"], Partial}
  BY <1>7 DEF Raises, BreaksOff, Finish
<1>8. CASE UNCHANGED vars
  BY <1>8 DEF vars
<1>. QED BY <1>1, <1>2, <1>3, <1>4, <1>5, <1>6, <1>7, <1>8 DEF Next, Write

\* No step takes the text of a report out of the tables.
LEMMA TextStays ==
  ASSUME TypeOK, ControlInv, [Next]_vars, HasText(trace)
  PROVE  HasText(trace')
<1>. USE FilesAndWriters DEF TypeOK, ControlInv, HasText
<1>1. ~ReportFails
  BY DEF ReportFails, End, Goto
<1>2. CASE StoreReport \/ Disown
  <2>1. PICK s \in {"published", "disowned"} : trace' = [trace EXCEPT !.report = s]
    BY <1>2 DEF StoreReport, Disown
  <2>2. trace'.report = s
    BY <2>1 DEF Trace
  <2>. QED BY <2>2
<1>3. ASSUME NEW c \in Client, Decide(c)
      PROVE  trace'.report = trace.report
  BY <1>3 DEF Decide, Trace
<1>4. CASE Reconcile \/ ReadForReport
  BY <1>4 DEF Reconcile, ReadForReport
<1>5. ASSUME NEW c \in Client, ReadForRefresh(c)
      PROVE  trace' = trace
  BY <1>5 DEF ReadForRefresh
<1>6. ASSUME NEW w \in Writer, Write(w)
      PROVE  trace' = trace
  BY <1>6 DEF Write, OpenFile, WriteFile, RemoveFile, Raises, BreaksOff, Finish
<1>7. CASE UNCHANGED vars
  BY <1>7 DEF vars
<1>8. trace' = trace \/ trace'.report = trace.report \/ HasText(trace')
  BY <1>1, <1>2, <1>3, <1>4, <1>5, <1>6, <1>7 DEF Next
<1>. QED BY <1>8

\* Once report.md has stopped saying that the report is to come, it never says
\* so again, however late a writer is.
THEOREM ReportsAreNotRecalled == Spec => ReportIsNotRecalled
<1>1. WorkspaceInv /\ [Next]_vars => [Told => Told']_vars
  <2>. SUFFICES ASSUME WorkspaceInv, [Next]_vars, Told
                PROVE  Told'
    OBVIOUS
  <2>1. HasText(trace')
    BY TextStays DEF WorkspaceInv, Told
  <2>2. file'["report"] \notin {Missing, Placeholder}
    BY ReportWrites DEF WorkspaceInv, Told
  <2>. QED BY <2>1, <2>2 DEF Told, Placeholder
<1>. QED BY <1>1, WorkspaceInvariant, PTL DEF Spec, ReportIsNotRecalled
=============================================================================
