-------------------------- MODULE ActionExecutorProofs --------------------------
(***************************************************************************)
(* What TLC checks of ActionExecutor on a small host, proved for any       *)
(* processes, pids, calls, requests and settings.                          *)
(*                                                                         *)
(* The executor vets whatever bears a pid and acts on the process it found *)
(* there before.  The two may differ, and the argument is that it does no  *)
(* harm: a process that has lost its pid has ended (StillThere), and one   *)
(* that has ended bears no pid again (HostInv), so that nothing is sent to *)
(* it any more.                                                            *)
(***************************************************************************)
EXTENDS ActionExecutor, TLAPS

\* Of the processes that have not ended, none shares a pid or has two.
HostInv ==
  /\ \A i \in Pid : owner[i] \notin gone
  /\ \A i, j \in Pid : owner[i] = owner[j] /\ owner[i] # NoProcess => i = j

\* A call has one request, its gates are passed while it is under way, and
\* its control state tells what it is asked for.
Admitted(c) ==
  /\ \A r, s \in req[c] : r = s
  /\ pc[c] \notin {"idle", "done"} => \A r \in req[c] : Verdict(r) = "proceed"
  /\ pc[c] \notin {"idle", "done"} => result[c] = {}
  /\ pc[c] = "idle" => result[c] = {}
  /\ \A r \in req[c] :
       /\ pc[c] = "inspect" => r.action = "inspect_process"
       /\ pc[c] \in {"lookup", "vet"} => r.action \in {"kill_process", "renice_process"}
       /\ pc[c] \in {"terminate", "wait", "postCheck"} => r.action = "kill_process"
       /\ pc[c] \in {"readNice", "setNice", "checkNice"} => r.action = "renice_process"

\* The process looked up still has its pid, or has ended.
StillThere(c) ==
  pc[c] \notin {"idle", "inspect", "lookup", "done"} =>
    /\ proc[c] \in Process
    /\ \A r \in req[c] :
         /\ r.pid \notin ProtectedPid
         /\ owner[r.pid] = proc[c] \/ proc[c] \in gone

\* What was vetted is what was looked up, unless that has ended.
Vetted(c) ==
  pc[c] \in {"terminate", "wait", "postCheck", "readNice", "setNice", "checkNice"} =>
    proc[c] \notin Guarded \/ proc[c] \in gone

\* A call touches a process last.
Touched(c) ==
  /\ pc[c] \notin {"wait", "postCheck", "checkNice", "done"} =>
       \A p \in Process : <<c, p>> \notin touched
  /\ pc[c] = "checkNice" => <<c, proc[c]>> \in touched

AuthorisedEffects(c) ==
  \A p \in Process : <<c, p>> \in touched =>
    /\ p \notin Guarded
    /\ p = proc[c]
    /\ \A r \in req[c] :
         /\ r.mode = "real" /\ r.confirmReal
         /\ r.pid \notin ProtectedPid
         /\ r.approval \in {"approved", "executed"} /\ r.approvedFor = r.action
         /\ settings.enabled /\ r.action \in settings.allowlist

RealSuccess(c) ==
  \A r \in req[c], a \in result[c] :
    (a.status = "success" /\ ~a.simulated) =>
      /\ r.action = "kill_process" => proc[c] \in gone
      /\ r.action = "renice_process" => <<c, proc[c]>> \in touched

CallInv(c) ==
  Admitted(c) /\ StillThere(c) /\ Vetted(c) /\ Touched(c) /\ AuthorisedEffects(c) /\ RealSuccess(c)

IInv == TypeOK /\ HostInv /\ \A c \in Call : CallInv(c)

-----------------------------------------------------------------------------
(* The gates.                                                              *)

\* A verdict is one of four, and "proceed" is none of the statuses.
LEMMA VerdictType ==
  \A r : Verdict(r) \in {"blocked", "failed", "success", "proceed"}
BY DEF Verdict

\* What has passed the gates has been granted, enabled, allowlisted and
\* confirmed, and its arguments are in range.
LEMMA ProceedIsAuthorised ==
  ASSUME NEW r \in Request, Verdict(r) = "proceed"
  PROVE  /\ r.pid \in Pid
         /\ r.action = "renice_process" => r.nice \in Nice
         /\ r.mode = "real"
         /\ r.action # "other"
         /\ r.action \in {"kill_process", "renice_process"} =>
              /\ r.confirmReal
              /\ r.approval \in {"approved", "executed"} /\ r.approvedFor = r.action
              /\ settings.enabled /\ r.action \in settings.allowlist
<1>1. r \in RequestType
  BY HostAssumption
<1>2. r.pid \in Pid \cup {NoPid} /\ r.mode \in {"dry_run", "real"}
  BY <1>1 DEF RequestType
<1>3. ~ApprovalError(r) /\ ~ArgsError(r) /\ r.mode # "dry_run" /\ ~RealExecutionError(r)
      /\ r.action # "other"
  BY DEF Verdict
<1>. QED BY <1>2, <1>3 DEF ApprovalError, ArgsError, RealExecutionError

\* The result of a call is well typed.
LEMMA ReturnType ==
  ASSUME TypeOK, NEW c \in Call, NEW status \in {"success", "failed", "blocked"},
         NEW simulated \in BOOLEAN, NEW changed \in BOOLEAN,
         Return(c, status, simulated, changed)
  PROVE  result' \in [Call -> SUBSET Result] /\ pc' \in [Call -> Control]
<1>1. [status |-> status, simulated |-> simulated, changed |-> changed] \in Result
  BY DEF Result
<1>. QED BY <1>1 DEF TypeOK, Return, Goto, Control

-----------------------------------------------------------------------------
(* What a step leaves of a call.                                           *)

\* The state a call's invariant speaks of, its own as well as the pids'.
OwnState(c) == <<pc[c], req[c], proc[c], result[c]>>

\* A call whose own state is left alone keeps its invariant while others touch
\* processes, as long as no process starts or ends.
LEMMA OtherCall ==
  ASSUME NEW d \in Call, CallInv(d), OwnState(d)' = OwnState(d),
         UNCHANGED <<settings, owner, gone>>,
         \A p : <<d, p>> \in touched' <=> <<d, p>> \in touched
  PROVE  CallInv(d)'
<1>1. pc'[d] = pc[d] /\ req'[d] = req[d] /\ proc'[d] = proc[d] /\ result'[d] = result[d]
  BY DEF OwnState
<1>2. Admitted(d)'
  BY <1>1 DEF CallInv, Admitted, Verdict, ApprovalError, ArgsError, RealExecutionError
<1>3. StillThere(d)' /\ Vetted(d)'
  BY <1>1 DEF CallInv, StillThere, Vetted
<1>4. Touched(d)'
  BY <1>1 DEF CallInv, StillThere, Touched
<1>5. AuthorisedEffects(d)'
  BY <1>1 DEF CallInv, AuthorisedEffects
<1>6. RealSuccess(d)'
  <2>1. SUFFICES ASSUME NEW r \in req[d], NEW a \in result[d],
                        a.status = "success" /\ ~a.simulated
                 PROVE  /\ r.action = "kill_process" => proc[d] \in gone
                        /\ r.action = "renice_process" => <<d, proc[d]>> \in touched'
    BY <1>1 DEF RealSuccess
  <2>. QED BY <1>1, <2>1 DEF CallInv, RealSuccess
<1>. QED BY <1>2, <1>3, <1>4, <1>5, <1>6 DEF CallInv

\* A step of one call, given what it makes of that call.
LEMMA OneCall ==
  ASSUME IInv, NEW c \in Call, TypeOK', CallInv(c)',
         UNCHANGED <<settings, owner, gone>>,
         \A d \in Call \ {c} : /\ OwnState(d)' = OwnState(d)
                               /\ \A p : <<d, p>> \in touched' <=> <<d, p>> \in touched
  PROVE  IInv'
<1>1. HostInv'
  BY DEF IInv, HostInv
<1>2. ASSUME NEW d \in Call PROVE CallInv(d)'
  <2>1. CASE d = c
    BY <2>1
  <2>2. CASE d # c
    <3>1. CallInv(d) /\ d \in Call \ {c}
      BY <2>2 DEF IInv
    <3>. QED BY <3>1, OtherCall
  <2>. QED BY <2>1, <2>2
<1>. QED BY <1>1, <1>2 DEF IInv

\* A call may return whenever what it claims is true.
LEMMA Returns ==
  ASSUME IInv, NEW c \in Call, NEW status \in {"success", "failed", "blocked"},
         NEW simulated \in BOOLEAN, NEW changed \in BOOLEAN,
         Return(c, status, simulated, changed),
         UNCHANGED <<settings, host, req, proc, before, touched>>,
         status = "success" => \A r \in req[c] :
           /\ r.action = "kill_process" => proc[c] \in gone
           /\ r.action = "renice_process" => <<c, proc[c]>> \in touched
  PROVE  IInv'
<1>. DEFINE answer == [status |-> status, simulated |-> simulated, changed |-> changed]
<1>1. TypeOK /\ CallInv(c)
  BY DEF IInv
<1>2. TypeOK'
  BY <1>1, ReturnType DEF TypeOK, host
<1>3. pc' = [pc EXCEPT ![c] = "done"] /\ result' = [result EXCEPT ![c] = {answer}]
  BY DEF Return, Goto
<1>4. pc'[c] = "done" /\ result'[c] = {answer}
  BY <1>1, <1>3 DEF TypeOK
<1>5. Admitted(c)' /\ StillThere(c)' /\ Vetted(c)' /\ Touched(c)'
  BY <1>1, <1>4 DEF CallInv, Admitted, StillThere, Vetted, Touched
<1>6. AuthorisedEffects(c)'
  BY <1>1 DEF CallInv, AuthorisedEffects
<1>7. RealSuccess(c)'
  <2>1. answer.status = status
    OBVIOUS
  <2>2. \A r \in req[c], a \in result'[c] : a.status = "success" =>
           /\ r.action = "kill_process" => proc[c] \in gone
           /\ r.action = "renice_process" => <<c, proc[c]>> \in touched
    BY <1>4, <2>1
  <2>. QED BY <2>2 DEF RealSuccess, host
<1>8. \A d \in Call \ {c} : OwnState(d)' = OwnState(d)
  BY <1>1, <1>3 DEF OwnState, TypeOK
<1>9. CallInv(c)'
  BY <1>5, <1>6, <1>7 DEF CallInv
<1>. QED BY <1>2, <1>8, <1>9, OneCall DEF host

-----------------------------------------------------------------------------
(* The steps.                                                              *)

\* Execute: what the gates refuse or simulate ends here, the rest begins.
LEMMA ExecuteStep ==
  ASSUME IInv, NEW c \in Call, Execute(c)
  PROVE  IInv'
<1>1. TypeOK /\ CallInv(c) /\ pc[c] = "idle"
  BY DEF IInv, Execute
<1>2. PICK r \in Request :
        /\ req' = [req EXCEPT ![c] = {r}]
        /\ \/ /\ Verdict(r) = "proceed"
              /\ Goto(c, IF r.action = "inspect_process" THEN "inspect" ELSE "lookup")
              /\ UNCHANGED result
           \/ /\ Verdict(r) # "proceed"
              /\ Return(c, Verdict(r), Verdict(r) = "success", FALSE)
  BY DEF Execute
<1>3. UNCHANGED <<settings, owner, gone, prio, proc, before, touched>>
  BY DEF Execute, host
<1>4. req' \in [Call -> SUBSET Request] /\ req'[c] = {r}
  BY <1>1, <1>2 DEF TypeOK
<1>5. AuthorisedEffects(c)'
  BY <1>1, <1>3 DEF CallInv, Touched, AuthorisedEffects
<1>6. Verdict(r)' = Verdict(r)
  BY <1>3 DEF Verdict, ApprovalError, ArgsError, RealExecutionError
<1>7. CASE Verdict(r) = "proceed"
  <2>. DEFINE to == IF r.action = "inspect_process" THEN "inspect" ELSE "lookup"
  <2>1. pc' = [pc EXCEPT ![c] = to] /\ result' = result
    BY <1>2, <1>7 DEF Goto
  <2>2. pc'[c] = to /\ to \in {"inspect", "lookup"} /\ pc' \in [Call -> Control]
    BY <1>1, <2>1 DEF TypeOK, Control
  <2>3. r.action # "other" /\ r.action \in Action \cup {"other"}
    BY <1>7, ProceedIsAuthorised, HostAssumption DEF RequestType
  <2>4. result'[c] = {}
    BY <1>1, <2>1 DEF CallInv, Admitted
  <2>5. Admitted(c)'
    BY <1>4, <1>6, <1>7, <2>2, <2>3, <2>4 DEF Admitted, Action
  <2>6. StillThere(c)' /\ Vetted(c)'
    BY <2>2 DEF StillThere, Vetted
  <2>7. Touched(c)'
    BY <1>1, <1>3, <2>2 DEF CallInv, Touched
  <2>8. RealSuccess(c)'
    BY <2>4 DEF RealSuccess
  <2>9. TypeOK'
    BY <1>1, <1>3, <1>4, <2>1, <2>2 DEF TypeOK
  <2>10. \A d \in Call \ {c} : OwnState(d)' = OwnState(d)
    BY <1>1, <1>2, <1>3, <2>1 DEF OwnState, TypeOK
  <2>11. CallInv(c)'
    BY <1>5, <2>5, <2>6, <2>7, <2>8 DEF CallInv
  <2>. QED BY <1>3, <2>9, <2>10, <2>11, OneCall
<1>8. CASE Verdict(r) # "proceed"
  <2>. DEFINE status == Verdict(r)
              answer == [status |-> status, simulated |-> (status = "success"), changed |-> FALSE]
  <2>1. Return(c, status, status = "success", FALSE)
    BY <1>2, <1>8
  <2>2. status \in {"success", "failed", "blocked"}
    BY <1>8, VerdictType
  <2>3. result' \in [Call -> SUBSET Result] /\ pc' \in [Call -> Control]
    BY <1>1, <2>1, <2>2, ReturnType
  <2>4. pc' = [pc EXCEPT ![c] = "done"] /\ result' = [result EXCEPT ![c] = {answer}]
    BY <2>1 DEF Return, Goto
  <2>. HIDE DEF status
  <2>5. pc'[c] = "done" /\ result'[c] = {answer}
    BY <1>1, <2>4 DEF TypeOK
  <2>6. Admitted(c)' /\ StillThere(c)' /\ Vetted(c)' /\ Touched(c)'
    BY <1>4, <2>5 DEF Admitted, StillThere, Vetted, Touched
  <2>7. RealSuccess(c)'
    <3>1. answer.status = status /\ answer.simulated = (status = "success")
      OBVIOUS
    <3>2. \A a \in result'[c] : ~(a.status = "success" /\ ~a.simulated)
      BY <2>5, <3>1
    <3>. QED BY <3>2 DEF RealSuccess
  <2>8. TypeOK'
    BY <1>1, <1>3, <1>4, <2>3 DEF TypeOK
  <2>9. \A d \in Call \ {c} : OwnState(d)' = OwnState(d)
    BY <1>1, <1>2, <1>3, <2>4 DEF OwnState, TypeOK
  <2>10. CallInv(c)'
    BY <1>5, <2>6, <2>7 DEF CallInv
  <2>. QED BY <1>3, <2>8, <2>9, <2>10, OneCall
<1>. QED BY <1>7, <1>8

\* Inspect returns, and touches nothing.
LEMMA InspectStep ==
  ASSUME IInv, NEW c \in Call, Inspect(c)
  PROVE  IInv'
<1>1. PICK r \in req[c], status \in {"success", "failed"} : Return(c, status, FALSE, FALSE)
  BY DEF Inspect
<1>2. \A s \in req[c] : s.action = "inspect_process"
  BY DEF Inspect, IInv, CallInv, Admitted
<1>3. status \in {"success", "failed", "blocked"}
  OBVIOUS
<1>. QED BY <1>1, <1>2, <1>3, Returns DEF Inspect

\* A step from one stage of an operation to the next keeps what has been
\* found out so far.
LEMMA Advances ==
  ASSUME IInv, NEW c \in Call, NEW to \in Control \ {"idle", "inspect", "done"},
         Goto(c, to), TypeOK',
         pc[c] \notin {"idle", "done"},
         UNCHANGED <<settings, owner, gone, req, result>>,
         \A d \in Call \ {c} : /\ proc'[d] = proc[d]
                               /\ \A p : <<d, p>> \in touched' <=> <<d, p>> \in touched,
         \A r \in req[c] :
           /\ to \in {"lookup", "vet"} => r.action \in {"kill_process", "renice_process"}
           /\ to \in {"terminate", "wait", "postCheck"} => r.action = "kill_process"
           /\ to \in {"readNice", "setNice", "checkNice"} => r.action = "renice_process",
         StillThere(c)', Vetted(c)', Touched(c)', AuthorisedEffects(c)'
  PROVE  IInv'
<1>1. TypeOK /\ CallInv(c)
  BY DEF IInv
<1>2. pc' = [pc EXCEPT ![c] = to] /\ pc'[c] = to
  BY <1>1 DEF Goto, TypeOK
<1>3. result[c] = {} /\ \A r, s \in req[c] : r = s
  BY <1>1 DEF CallInv, Admitted
<1>4. \A r \in req[c] : Verdict(r) = "proceed"
  BY <1>1 DEF CallInv, Admitted
<1>5. \A r \in req[c] : Verdict(r)' = Verdict(r)
  BY DEF Verdict, ApprovalError, ArgsError, RealExecutionError
<1>6. Admitted(c)'
  BY <1>2, <1>3, <1>4, <1>5 DEF Admitted
<1>7. RealSuccess(c)'
  BY <1>3 DEF RealSuccess
<1>8. CallInv(c)'
  BY <1>6, <1>7 DEF CallInv
<1>9. \A d \in Call \ {c} : OwnState(d)' = OwnState(d)
  BY <1>1, <1>2 DEF OwnState, TypeOK
<1>. QED BY <1>8, <1>9, OneCall

\* LookUp: the process found bears the pid, which is not protected.
LEMMA LookUpStep ==
  ASSUME IInv, NEW c \in Call, LookUp(c)
  PROVE  IInv'
<1>1. TypeOK /\ CallInv(c) /\ pc[c] = "lookup"
  BY DEF IInv, LookUp
<1>2. UNCHANGED <<settings, owner, gone, prio, req, before, touched>>
  BY DEF LookUp, host
<1>3. PICK r \in req[c] :
        IF r.pid \in ProtectedPid \/ owner[r.pid] = NoProcess
          THEN Return(c, "blocked", FALSE, FALSE) /\ UNCHANGED proc
          ELSE /\ proc' = [proc EXCEPT ![c] = owner[r.pid]]
               /\ Goto(c, "vet")
               /\ UNCHANGED result
  BY DEF LookUp
<1>4. CASE r.pid \in ProtectedPid \/ owner[r.pid] = NoProcess
  BY <1>2, <1>3, <1>4, Returns DEF host
<1>5. CASE ~(r.pid \in ProtectedPid \/ owner[r.pid] = NoProcess)
  <2>1. proc' = [proc EXCEPT ![c] = owner[r.pid]] /\ Goto(c, "vet") /\ UNCHANGED result
    BY <1>3, <1>5
  <2>2. r \in Request /\ Verdict(r) = "proceed" /\ \A q \in req[c] : q = r
    BY <1>1 DEF TypeOK, CallInv, Admitted
  <2>3. r.pid \in Pid
    BY <2>2, ProceedIsAuthorised
  <2>4. owner[r.pid] \in Process
    BY <1>1, <1>5, <2>3 DEF TypeOK
  <2>5. proc'[c] = owner[r.pid] /\ pc'[c] = "vet"
    BY <1>1, <2>1 DEF TypeOK, Goto
  <2>6. TypeOK'
    BY <1>1, <1>2, <2>1, <2>4 DEF TypeOK, Goto, Control
  <2>7. StillThere(c)'
    BY <1>2, <1>5, <2>2, <2>4, <2>5 DEF StillThere
  <2>8. Vetted(c)' /\ Touched(c)' /\ AuthorisedEffects(c)'
    BY <1>1, <1>2, <2>5 DEF CallInv, Touched, Vetted, AuthorisedEffects
  <2>9. \A q \in req[c] : q.action \in {"kill_process", "renice_process"}
    BY <1>1 DEF CallInv, Admitted
  <2>10. \A d \in Call \ {c} : proc'[d] = proc[d]
    BY <1>1, <2>1 DEF TypeOK
  <2>. QED BY <1>1, <1>2, <2>1, <2>6, <2>7, <2>8, <2>9, <2>10, Advances DEF Control
<1>. QED BY <1>4, <1>5

\* Vet: the owner of the pid is no guarded process; if it is not the process
\* looked up, that one has ended.
LEMMA VetStep ==
  ASSUME IInv, NEW c \in Call, Vet(c)
  PROVE  IInv'
<1>1. TypeOK /\ CallInv(c) /\ pc[c] = "vet"
  BY DEF IInv, Vet
<1>2. UNCHANGED <<settings, owner, gone, prio, req, proc, before, touched>>
  BY DEF Vet, host
<1>3. PICK r \in req[c] :
        \/ Return(c, "blocked", FALSE, FALSE)
        \/ /\ owner[r.pid] # NoProcess
           /\ owner[r.pid] \notin Guarded
           /\ Goto(c, IF r.action = "kill_process" THEN "terminate" ELSE "readNice")
           /\ UNCHANGED result
  BY DEF Vet
<1>4. CASE Return(c, "blocked", FALSE, FALSE)
  BY <1>2, <1>4, Returns DEF host
<1>5. CASE /\ owner[r.pid] # NoProcess
           /\ owner[r.pid] \notin Guarded
           /\ Goto(c, IF r.action = "kill_process" THEN "terminate" ELSE "readNice")
           /\ UNCHANGED result
  <2>. DEFINE to == IF r.action = "kill_process" THEN "terminate" ELSE "readNice"
  <2>1. r.action \in {"kill_process", "renice_process"} /\ \A q \in req[c] : q = r
    BY <1>1 DEF CallInv, Admitted
  <2>2. to \in {"terminate", "readNice"} /\ to \in Control \ {"idle", "inspect", "done"}
    BY DEF Control
  <2>3. pc'[c] = to /\ pc' \in [Call -> Control]
    BY <1>1, <1>5, <2>2 DEF TypeOK, Goto
  <2>4. TypeOK'
    BY <1>1, <1>2, <1>5, <2>3 DEF TypeOK
  <2>5. StillThere(c)
    BY <1>1 DEF CallInv
  <2>6. StillThere(c)'
    BY <1>1, <1>2, <2>3, <2>5 DEF StillThere
  <2>7. Vetted(c)'
    BY <1>1, <1>2, <1>5, <2>1, <2>5 DEF StillThere, Vetted
  <2>8. Touched(c)' /\ AuthorisedEffects(c)'
    BY <1>1, <1>2, <2>2, <2>3 DEF CallInv, Touched, AuthorisedEffects
  <2>9. \A q \in req[c] : /\ to = "terminate" => q.action = "kill_process"
                          /\ to = "readNice" => q.action = "renice_process"
    BY <2>1
  <2>. QED BY <1>1, <1>2, <1>5, <2>2, <2>4, <2>6, <2>7, <2>8, <2>9, Advances
<1>. QED BY <1>3, <1>4, <1>5

\* A call that touches its process while that bears its pid may do so.
LEMMA TouchIsAuthorised ==
  ASSUME IInv, NEW c \in Call, pc[c] \in {"terminate", "setNice"},
         NEW r \in req[c], owner[r.pid] = proc[c],
         touched' = touched \cup {<<c, proc[c]>>},
         UNCHANGED <<settings, req, proc>>
  PROVE  /\ AuthorisedEffects(c)'
         /\ proc[c] \in Process
         /\ r \in Request /\ Verdict(r) = "proceed"
         /\ \A d \in Call \ {c} : \A p : <<d, p>> \in touched' <=> <<d, p>> \in touched
<1>1. TypeOK /\ CallInv(c) /\ HostInv
  BY DEF IInv
<1>2. r \in Request /\ Verdict(r) = "proceed" /\ \A q \in req[c] : q = r
  BY <1>1 DEF TypeOK, CallInv, Admitted
<1>3. r.action \in {"kill_process", "renice_process"}
  BY <1>1 DEF CallInv, Admitted
<1>4. proc[c] \in Process /\ r.pid \notin ProtectedPid
  BY <1>1 DEF CallInv, StillThere
<1>5. r.pid \in Pid
  BY <1>2, ProceedIsAuthorised
<1>6. proc[c] \notin Guarded
  BY <1>1, <1>5 DEF CallInv, Vetted, HostInv
<1>7. \A p \in Process : <<c, p>> \in touched' => p = proc[c]
  BY <1>1 DEF CallInv, AuthorisedEffects
<1>8. AuthorisedEffects(c)'
  BY <1>2, <1>3, <1>4, <1>6, <1>7, ProceedIsAuthorised DEF AuthorisedEffects
<1>. QED BY <1>2, <1>4, <1>8

\* Terminate: the signal reaches the process looked up, or nobody.
LEMMA TerminateStep ==
  ASSUME IInv, NEW c \in Call, Terminate(c)
  PROVE  IInv'
<1>1. TypeOK /\ CallInv(c) /\ pc[c] = "terminate"
  BY DEF IInv, Terminate
<1>2. UNCHANGED <<settings, owner, gone, prio, req, proc, before>>
  BY DEF Terminate, host
<1>3. PICK r \in req[c] :
        IF owner[r.pid] = proc[c]
          THEN \/ /\ touched' = touched \cup {<<c, proc[c]>>}
                  /\ Goto(c, "wait")
                  /\ UNCHANGED result
               \/ Return(c, "failed", FALSE, FALSE) /\ UNCHANGED touched
          ELSE Return(c, "success", FALSE, TRUE) /\ UNCHANGED touched
  BY DEF Terminate
<1>4. r.action = "kill_process" /\ \A q \in req[c] : q = r
  BY <1>1 DEF CallInv, Admitted
<1>5. CASE Return(c, "failed", FALSE, FALSE) /\ UNCHANGED touched
  BY <1>2, <1>5, Returns DEF host
<1>6. CASE owner[r.pid] # proc[c]
  <2>1. proc[c] \in gone
    BY <1>1, <1>6 DEF CallInv, StillThere
  <2>2. \A q \in req[c] : q.action # "renice_process"
    BY <1>4
  <2>. QED BY <1>2, <1>3, <1>6, <2>1, <2>2, Returns DEF host
<1>7. CASE /\ owner[r.pid] = proc[c]
           /\ touched' = touched \cup {<<c, proc[c]>>}
           /\ Goto(c, "wait")
           /\ UNCHANGED result
  <2>1. /\ AuthorisedEffects(c)'
        /\ proc[c] \in Process
        /\ \A d \in Call \ {c} : \A p : <<d, p>> \in touched' <=> <<d, p>> \in touched
    BY <1>1, <1>2, <1>7, TouchIsAuthorised
  <2>2. pc'[c] = "wait" /\ pc' \in [Call -> Control]
    BY <1>1, <1>7 DEF TypeOK, Goto, Control
  <2>3. TypeOK'
    BY <1>1, <1>2, <1>7, <2>1, <2>2 DEF TypeOK
  <2>4. StillThere(c)' /\ Vetted(c)' /\ Touched(c)'
    BY <1>1, <1>2, <2>2 DEF CallInv, StillThere, Vetted, Touched
  <2>. QED BY <1>1, <1>2, <1>4, <1>7, <2>1, <2>3, <2>4, Advances DEF Control
<1>. QED BY <1>3, <1>5, <1>6, <1>7

\* Wait: the signal has been sent, and the call waits for the pid to be free.
LEMMA WaitStep ==
  ASSUME IInv, NEW c \in Call, Wait(c)
  PROVE  IInv'
<1>1. TypeOK /\ CallInv(c) /\ pc[c] = "wait"
  BY DEF IInv, Wait
<1>2. UNCHANGED <<settings, owner, gone, prio, req, proc, before, touched>>
  BY DEF Wait, host
<1>3. CASE Return(c, "failed", FALSE, FALSE)
  BY <1>2, <1>3, Returns DEF host
<1>4. CASE Goto(c, "postCheck") /\ UNCHANGED result
  <2>1. pc'[c] = "postCheck" /\ pc' \in [Call -> Control]
    BY <1>1, <1>4 DEF TypeOK, Goto, Control
  <2>2. TypeOK'
    BY <1>1, <1>2, <1>4, <2>1 DEF TypeOK
  <2>3. StillThere(c)' /\ Vetted(c)' /\ Touched(c)' /\ AuthorisedEffects(c)'
    BY <1>1, <1>2, <2>1 DEF CallInv, StillThere, Vetted, Touched, AuthorisedEffects
  <2>4. \A q \in req[c] : q.action = "kill_process"
    BY <1>1 DEF CallInv, Admitted
  <2>. QED BY <1>1, <1>2, <1>4, <2>2, <2>3, <2>4, Advances DEF Control
<1>. QED BY <1>3, <1>4 DEF Wait

\* PostCheck: a pid seen free has been left by the process looked up.
LEMMA PostCheckStep ==
  ASSUME IInv, NEW c \in Call, PostCheck(c)
  PROVE  IInv'
<1>1. TypeOK /\ CallInv(c) /\ pc[c] = "postCheck"
  BY DEF IInv, PostCheck
<1>2. PICK r \in req[c] : IF owner[r.pid] = NoProcess
                            THEN Return(c, "success", FALSE, TRUE)
                            ELSE Return(c, "failed", FALSE, FALSE)
  BY DEF PostCheck
<1>3. \A q \in req[c] : q.action = "kill_process"
  BY <1>1 DEF CallInv, Admitted
<1>4. owner[r.pid] = NoProcess => proc[c] \in gone
  BY <1>1, HostAssumption DEF CallInv, StillThere
<1>5. CASE owner[r.pid] = NoProcess
  BY <1>2, <1>3, <1>4, <1>5, Returns DEF PostCheck
<1>6. CASE owner[r.pid] # NoProcess
  BY <1>2, <1>6, Returns DEF PostCheck
<1>. QED BY <1>5, <1>6

\* ReadNice: what is read goes into the result only.
LEMMA ReadNiceStep ==
  ASSUME IInv, NEW c \in Call, ReadNice(c)
  PROVE  IInv'
<1>1. TypeOK /\ CallInv(c) /\ pc[c] = "readNice"
  BY DEF IInv, ReadNice
<1>2. /\ UNCHANGED <<settings, owner, gone, prio, req, proc, result, touched>>
      /\ Goto(c, "setNice")
  BY DEF ReadNice, host
<1>3. PICK r \in req[c] : /\ owner[r.pid] # NoProcess
                          /\ before' = [before EXCEPT ![c] = {prio[owner[r.pid]]}]
  BY DEF ReadNice
<1>4. r \in Request /\ Verdict(r) = "proceed"
  BY <1>1 DEF TypeOK, CallInv, Admitted
<1>5. r.pid \in Pid
  BY <1>4, ProceedIsAuthorised
<1>6. prio[owner[r.pid]] \in Nice
  BY <1>1, <1>3, <1>5 DEF TypeOK
<1>7. pc'[c] = "setNice" /\ pc' \in [Call -> Control]
  BY <1>1, <1>2 DEF TypeOK, Goto, Control
<1>8. TypeOK'
  BY <1>1, <1>2, <1>3, <1>6, <1>7 DEF TypeOK
<1>9. StillThere(c)' /\ Vetted(c)' /\ Touched(c)' /\ AuthorisedEffects(c)'
  BY <1>1, <1>2, <1>7 DEF CallInv, StillThere, Vetted, Touched, AuthorisedEffects
<1>10. \A q \in req[c] : q.action = "renice_process"
  BY <1>1 DEF CallInv, Admitted
<1>. QED BY <1>1, <1>2, <1>8, <1>9, <1>10, Advances DEF Control

\* SetNice: the process looked up, and nobody else, gets the value asked for.
LEMMA SetNiceStep ==
  ASSUME IInv, NEW c \in Call, SetNice(c)
  PROVE  IInv'
<1>1. TypeOK /\ CallInv(c) /\ pc[c] = "setNice"
  BY DEF IInv, SetNice
<1>2. /\ UNCHANGED <<settings, owner, gone, req, proc, before, result>>
      /\ touched' = touched \cup {<<c, proc[c]>>}
      /\ Goto(c, "checkNice")
  BY DEF SetNice
<1>3. PICK r \in req[c] : /\ owner[r.pid] = proc[c]
                          /\ prio' = [prio EXCEPT ![proc[c]] = r.nice]
  BY DEF SetNice
<1>4. /\ AuthorisedEffects(c)'
      /\ proc[c] \in Process
      /\ r \in Request /\ Verdict(r) = "proceed"
      /\ \A d \in Call \ {c} : \A p : <<d, p>> \in touched' <=> <<d, p>> \in touched
  BY <1>1, <1>2, <1>3, TouchIsAuthorised
<1>5. \A q \in req[c] : q.action = "renice_process"
  BY <1>1 DEF CallInv, Admitted
<1>6. r.nice \in Nice
  BY <1>4, <1>5, ProceedIsAuthorised
<1>7. pc'[c] = "checkNice" /\ pc' \in [Call -> Control]
  BY <1>1, <1>2 DEF TypeOK, Goto, Control
<1>8. TypeOK'
  BY <1>1, <1>2, <1>3, <1>4, <1>6, <1>7 DEF TypeOK
<1>9. StillThere(c)' /\ Vetted(c)' /\ Touched(c)'
  BY <1>1, <1>2, <1>7 DEF CallInv, StillThere, Vetted, Touched
<1>. QED BY <1>1, <1>2, <1>4, <1>5, <1>8, <1>9, Advances DEF Control

\* CheckNice: whatever nice value is read back, the process has been reniced.
LEMMA CheckNiceStep ==
  ASSUME IInv, NEW c \in Call, CheckNice(c)
  PROVE  IInv'
<1>1. TypeOK /\ CallInv(c) /\ pc[c] = "checkNice"
  BY DEF IInv, CheckNice
<1>2. PICK status \in {"success", "failed"}, changed \in BOOLEAN : Return(c, status, FALSE, changed)
  BY DEF CheckNice
<1>3. \A q \in req[c] : q.action = "renice_process"
  BY <1>1 DEF CallInv, Admitted
<1>4. <<c, proc[c]>> \in touched
  BY <1>1 DEF CallInv, Touched
<1>5. status \in {"success", "failed", "blocked"}
  OBVIOUS
<1>. QED BY <1>2, <1>3, <1>4, <1>5, Returns DEF CheckNice

\* Giving up is always open to a renice.
LEMMA ReniceFailsStep ==
  ASSUME IInv, NEW c \in Call, ReniceFails(c)
  PROVE  IInv'
BY Returns DEF ReniceFails, Fails

-----------------------------------------------------------------------------
(* The host.                                                               *)

\* A process starts on a free pid: what has ended stays so, and a process
\* that has been looked up has either kept its pid or ended.
LEMMA ProcessStartsStep ==
  ASSUME IInv, NEW p \in Process, NEW i \in Pid, ProcessStarts(p, i)
  PROVE  IInv'
<1>1. TypeOK /\ HostInv /\ p # NoProcess
  BY HostAssumption DEF IInv
<1>2. /\ p \notin gone /\ \A j \in Pid : owner[j] # p
      /\ owner[i] = NoProcess /\ owner' = [owner EXCEPT ![i] = p]
      /\ UNCHANGED <<settings, gone, prio, pc, req, proc, before, result, touched>>
  BY DEF ProcessStarts
<1>3. TypeOK'
  BY <1>1, <1>2 DEF TypeOK
<1>4. HostInv'
  BY <1>1, <1>2 DEF TypeOK, HostInv
<1>5. ASSUME NEW c \in Call PROVE CallInv(c)'
  <2>1. CallInv(c)
    BY DEF IInv
  <2>2. StillThere(c)'
    <3>1. SUFFICES ASSUME pc[c] \notin {"idle", "inspect", "lookup", "done"},
                          NEW r \in req[c]
                   PROVE  /\ proc[c] \in Process
                          /\ r.pid \notin ProtectedPid
                          /\ owner'[r.pid] = proc[c] \/ proc[c] \in gone
      BY <1>2, <2>1 DEF StillThere, CallInv
    <3>2. r \in Request /\ Verdict(r) = "proceed"
      BY <1>1, <2>1, <3>1 DEF TypeOK, CallInv, Admitted
    <3>3. r.pid \in Pid
      BY <3>2, ProceedIsAuthorised
    <3>4. /\ proc[c] \in Process /\ r.pid \notin ProtectedPid
          /\ owner[r.pid] = proc[c] \/ proc[c] \in gone
      BY <2>1, <3>1 DEF CallInv, StillThere
    <3>. QED BY <1>1, <1>2, <3>3, <3>4, HostAssumption DEF TypeOK
  <2>3. Admitted(c)'
    BY <1>2, <2>1
       DEF CallInv, Admitted, Verdict, ApprovalError, ArgsError, RealExecutionError
  <2>4. Vetted(c)' /\ Touched(c)' /\ AuthorisedEffects(c)'
    BY <1>2, <2>1 DEF CallInv, Vetted, Touched, AuthorisedEffects
  <2>5. RealSuccess(c)'
    BY <1>2, <2>1 DEF CallInv, RealSuccess
  <2>. QED BY <2>2, <2>3, <2>4, <2>5 DEF CallInv
<1>. QED BY <1>3, <1>4, <1>5 DEF IInv

\* A process ends: it has but one pid, and leaves it for good.
LEMMA ProcessExitsStep ==
  ASSUME IInv, NEW i \in Pid, ProcessExits(i)
  PROVE  IInv'
<1>1. TypeOK /\ HostInv
  BY DEF IInv
<1>2. /\ owner[i] # NoProcess /\ gone' = gone \cup {owner[i]}
      /\ owner' = [owner EXCEPT ![i] = NoProcess]
      /\ UNCHANGED <<settings, prio, pc, req, proc, before, result, touched>>
  BY DEF ProcessExits
<1>3. TypeOK'
  BY <1>1, <1>2 DEF TypeOK
<1>4. HostInv'
  BY <1>1, <1>2, HostAssumption DEF TypeOK, HostInv
<1>5. ASSUME NEW c \in Call PROVE CallInv(c)'
  <2>1. CallInv(c)
    BY DEF IInv
  <2>2. StillThere(c)'
    <3>1. SUFFICES ASSUME pc[c] \notin {"idle", "inspect", "lookup", "done"},
                          NEW r \in req[c]
                   PROVE  /\ proc[c] \in Process
                          /\ r.pid \notin ProtectedPid
                          /\ owner'[r.pid] = proc[c] \/ proc[c] \in gone'
      BY <1>2, <2>1 DEF StillThere, CallInv
    <3>2. r \in Request /\ Verdict(r) = "proceed"
      BY <1>1, <2>1, <3>1 DEF TypeOK, CallInv, Admitted
    <3>3. r.pid \in Pid
      BY <3>2, ProceedIsAuthorised
    <3>4. /\ proc[c] \in Process /\ r.pid \notin ProtectedPid
          /\ owner[r.pid] = proc[c] \/ proc[c] \in gone
      BY <2>1, <3>1 DEF CallInv, StillThere
    <3>. QED BY <1>1, <1>2, <3>3, <3>4 DEF TypeOK
  <2>3. Admitted(c)'
    BY <1>2, <2>1
       DEF CallInv, Admitted, Verdict, ApprovalError, ArgsError, RealExecutionError
  <2>4. Vetted(c)' /\ Touched(c)' /\ AuthorisedEffects(c)'
    BY <1>2, <2>1 DEF CallInv, Vetted, Touched, AuthorisedEffects
  <2>5. RealSuccess(c)'
    BY <1>2, <2>1 DEF CallInv, RealSuccess
  <2>. QED BY <2>2, <2>3, <2>4, <2>5 DEF CallInv
<1>. QED BY <1>3, <1>4, <1>5 DEF IInv

-----------------------------------------------------------------------------
(* The theorems.                                                           *)

\* A host without processes and calls that have not begun satisfy the
\* invariant.
LEMMA InitIInv == Init => IInv
<1>. SUFFICES ASSUME Init PROVE IInv
  OBVIOUS
<1>1. TypeOK
  BY DEF Init, TypeOK, Control
<1>2. HostInv
  BY HostAssumption DEF Init, HostInv
<1>3. ASSUME NEW c \in Call PROVE CallInv(c)
  BY DEF Init, CallInv, Admitted, StillThere, Vetted, Touched, AuthorisedEffects, RealSuccess
<1>. QED BY <1>1, <1>2, <1>3 DEF IInv

\* Every step of the executor and of the host preserves it.
LEMMA NextIInv == IInv /\ [Next]_vars => IInv'
<1>. SUFFICES ASSUME IInv, [Next]_vars PROVE IInv'
  OBVIOUS
<1>1. ASSUME NEW c \in Call, Execute(c) PROVE IInv'
  BY <1>1, ExecuteStep
<1>2. ASSUME NEW c \in Call, Step(c) PROVE IInv'
  BY <1>2, InspectStep, LookUpStep, VetStep, TerminateStep, WaitStep, PostCheckStep,
     ReadNiceStep, SetNiceStep, CheckNiceStep, ReniceFailsStep DEF Step
<1>3. ASSUME NEW i \in Pid, ProcessExits(i) PROVE IInv'
  BY <1>3, ProcessExitsStep
<1>4. ASSUME NEW i \in Pid, NEW p \in Process, ProcessStarts(p, i) PROVE IInv'
  BY <1>4, ProcessStartsStep
<1>5. CASE UNCHANGED vars
  <2>1. UNCHANGED <<settings, owner, gone, prio, pc, req, proc, before, result, touched>>
    BY <1>5 DEF vars, host
  <2>2. TypeOK' /\ HostInv'
    BY <2>1 DEF IInv, TypeOK, HostInv
  <2>3. ASSUME NEW c \in Call PROVE CallInv(c)'
    BY <2>1, OtherCall DEF IInv, OwnState
  <2>. QED BY <2>2, <2>3 DEF IInv
<1>. QED BY <1>1, <1>2, <1>3, <1>4, <1>5 DEF Next

\* The inductive invariant: what a call may still do is tied to what its pid
\* and its process have become.
THEOREM InductiveInvariant == Spec => []IInv
BY InitIInv, NextIInv, PTL DEF Spec

\* Types: pids, processes, requests and results stay what they are, the nice
\* values the executor sets included.
THEOREM TypeCorrect == Spec => []TypeOK
<1>1. IInv => TypeOK
  BY DEF IInv
<1>. QED BY <1>1, InductiveInvariant, PTL

\* However pids are used again, only the process that was vetted is touched,
\* and only with a grant, the switch, the allowlist and a confirmation.
THEOREM EffectsAreAuthorised == Spec => []OnlyAuthorisedEffects
<1>1. IInv => OnlyAuthorisedEffects
  BY DEF IInv, CallInv, AuthorisedEffects, OnlyAuthorisedEffects
<1>. QED BY <1>1, InductiveInvariant, PTL

\* A real execution reports success only of a process that has ended or has
\* been reniced.
THEOREM SuccessesAreReal == Spec => []SuccessIsReal
<1>1. IInv => SuccessIsReal
  BY DEF IInv, CallInv, RealSuccess, SuccessIsReal
<1>. QED BY <1>1, InductiveInvariant, PTL
=============================================================================
