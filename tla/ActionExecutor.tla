---------------------------- MODULE ActionExecutor ----------------------------
(***************************************************************************)
(* ActionExecutor.execute (actions/executor.py) on a host whose processes  *)
(* come and go and whose pids are used again.  A call passes the gates in  *)
(* one step, and every system call after them is a step of its own:        *)
(*                                                                         *)
(*   idle -> lookup -> vet -> terminate -> wait -> postCheck -> done       *)
(*                         -> readNice -> setNice -> checkNice -> done     *)
(*        -> inspect -> done                                               *)
(*                                                                         *)
(* psutil is modelled by what the executor relies on: a psutil.Process     *)
(* keeps the identity of the process it was made for, terminate() and      *)
(* nice(value) refuse a pid that has passed to another process, and the    *)
(* reading calls and wait() go by the pid alone.                           *)
(***************************************************************************)
EXTENDS Naturals

CONSTANTS
  Call,          \* executions, each of one request
  Process,       \* the processes that ever run on the host
  Guarded,       \* those that belong to root or bear a protected name
  Pid,           \* their pids
  ProtectedPid,  \* 0, 1, and those of the agent and of its parent
  Nice,          \* the nice values in use
  Request,       \* what the executor is asked to do
  Setting,       \* the settings of the environment: switch and allowlist
  NoProcess, NoPid

Action == {"inspect_process", "kill_process", "renice_process"}
ApprovalState == {"none", "pending", "approved", "rejected", "executed"}

\* "other" is an action without a specification; NoPid and a nice value
\* outside Nice are arguments that are missing or out of range.
RequestType ==
  [action: Action \cup {"other"}, pid: Pid \cup {NoPid}, nice: Nat,
   mode: {"dry_run", "real"}, approvedFor: Action \cup {"other"},
   approval: ApprovalState, confirmReal: BOOLEAN]

ASSUME HostAssumption ==
  /\ Guarded \subseteq Process
  /\ ProtectedPid \subseteq Pid
  /\ Nice \subseteq Nat
  /\ NoProcess \notin Process
  /\ NoPid \notin Pid
  /\ Request \subseteq RequestType
  /\ Setting \subseteq [enabled: BOOLEAN, allowlist: SUBSET Action]

VARIABLES
  settings,    \* what __init__ found in the environment
  owner,       \* the process that has a pid now, or NoProcess
  gone,        \* the processes that have ended
  prio,        \* the nice value of every process
  pc,          \* control state of every call
  req,         \* the request of a call, once it has one
  proc,        \* the psutil.Process of a call's pre-check
  before,      \* before_nice
  result,      \* the ActionResult of a call, as a set of at most one
  touched      \* history: <<c, p>> where call c signalled or reniced p

host == <<owner, gone, prio>>
vars == <<settings, host, pc, req, proc, before, result, touched>>

Control == {"idle", "inspect", "lookup", "vet", "terminate", "wait", "postCheck",
            "readNice", "setNice", "checkNice", "done"}

Result == [status: {"success", "failed", "blocked"}, simulated: BOOLEAN, changed: BOOLEAN]

TypeOK ==
  /\ settings \in Setting
  /\ owner \in [Pid -> Process \cup {NoProcess}]
  /\ gone \subseteq Process
  /\ prio \in [Process -> Nice]
  /\ pc \in [Call -> Control]
  /\ req \in [Call -> SUBSET Request]
  /\ proc \in [Call -> Process \cup {NoProcess}]
  /\ before \in [Call -> SUBSET Nice]
  /\ result \in [Call -> SUBSET Result]
  /\ touched \subseteq Call \X Process

Init ==
  /\ settings \in Setting
  /\ owner = [i \in Pid |-> NoProcess]
  /\ gone = {}
  /\ prio \in [Process -> Nice]
  /\ pc = [c \in Call |-> "idle"]
  /\ req = [c \in Call |-> {}]
  /\ proc = [c \in Call |-> NoProcess]
  /\ before = [c \in Call |-> {}]
  /\ result = [c \in Call |-> {}]
  /\ touched = {}

-----------------------------------------------------------------------------
(* The host: the kernel gives the pid of a process that has ended to a new  *)
(* one.                                                                    *)

ProcessStarts(p, i) ==
  /\ p \notin gone
  /\ \A j \in Pid : owner[j] # p
  /\ owner[i] = NoProcess
  /\ owner' = [owner EXCEPT ![i] = p]
  /\ UNCHANGED <<settings, gone, prio, pc, req, proc, before, result, touched>>

ProcessExits(i) ==
  /\ owner[i] # NoProcess
  /\ gone' = gone \cup {owner[i]}
  /\ owner' = [owner EXCEPT ![i] = NoProcess]
  /\ UNCHANGED <<settings, prio, pc, req, proc, before, result, touched>>

-----------------------------------------------------------------------------
(* The gates, in the order of ActionExecutor.execute                       *)

ApprovalError(r) ==
  /\ r.action \in {"kill_process", "renice_process"}
  /\ \/ r.approval \notin {"approved", "executed"}
     \/ r.approvedFor # r.action

ArgsError(r) ==
  \/ r.pid = NoPid
  \/ r.action = "renice_process" /\ r.nice \notin Nice

RealExecutionError(r) ==
  /\ r.action # "inspect_process"
  /\ \/ ~settings.enabled
     \/ r.action \notin settings.allowlist
     \/ ~r.confirmReal

\* Mutation: a refusal is reported with the status ToolRegistry has for it.
VerdictOfRegistry(r) ==
  IF r.action = "other" \/ ApprovalError(r) THEN "blocked_for_approval"
  ELSE IF ArgsError(r) THEN "failed"
  ELSE IF r.mode = "dry_run" THEN "success"
  ELSE IF RealExecutionError(r) THEN "blocked"
  ELSE "proceed"

\* What the gates make of a request before any process is looked at.  The
\* dry run a real execution starts with meets the same gates again.
Verdict(r) ==
  IF r.action = "other" \/ ApprovalError(r) THEN "blocked"
  ELSE IF ArgsError(r) THEN "failed"
  ELSE IF r.mode = "dry_run" THEN "success"
  ELSE IF RealExecutionError(r) THEN "blocked"
  ELSE "proceed"

-----------------------------------------------------------------------------
Goto(c, to) == pc' = [pc EXCEPT ![c] = to]

Return(c, status, simulated, changed) ==
  /\ result' = [result EXCEPT ![c] =
                  {[status |-> status, simulated |-> simulated, changed |-> changed]}]
  /\ Goto(c, "done")

Execute(c) ==
  /\ pc[c] = "idle"
  /\ \E r \in Request :
       /\ req' = [req EXCEPT ![c] = {r}]
       /\ \/ /\ Verdict(r) = "proceed"
             /\ Goto(c, IF r.action = "inspect_process" THEN "inspect" ELSE "lookup")
             /\ UNCHANGED result
          \/ /\ Verdict(r) # "proceed"
             /\ Return(c, Verdict(r), Verdict(r) = "success", FALSE)
  /\ UNCHANGED <<settings, host, proc, before, touched>>

\* inspect_process reads one process; access may be denied at any moment.
Inspect(c) ==
  /\ pc[c] = "inspect"
  /\ \E r \in req[c], status \in {"success", "failed"} :
       /\ status = "success" => owner[r.pid] # NoProcess
       /\ Return(c, status, FALSE, FALSE)
  /\ UNCHANGED <<settings, host, req, proc, before, touched>>

\* _precheck_process: psutil.Process(pid) ...
LookUp(c) ==
  /\ pc[c] = "lookup"
  /\ \E r \in req[c] :
       /\ IF r.pid \in ProtectedPid \/ owner[r.pid] = NoProcess
            THEN Return(c, "blocked", FALSE, FALSE) /\ UNCHANGED proc
            ELSE /\ proc' = [proc EXCEPT ![c] = owner[r.pid]]
                 /\ Goto(c, "vet")
                 /\ UNCHANGED result
  /\ UNCHANGED <<settings, host, req, before, touched>>

\* ... and then username() and name(), of whatever has the pid by then.
Vet(c) ==
  /\ pc[c] = "vet"
  /\ \E r \in req[c] :
       /\ \/ Return(c, "blocked", FALSE, FALSE)   \* gone, denied or guarded
          \/ /\ owner[r.pid] # NoProcess
             /\ owner[r.pid] \notin Guarded
             /\ Goto(c, IF r.action = "kill_process" THEN "terminate" ELSE "readNice")
             /\ UNCHANGED result
  /\ UNCHANGED <<settings, host, req, proc, before, touched>>

-----------------------------------------------------------------------------
(* _real_kill_process                                                      *)

\* Mutation: the signal goes to the pid instead of the process looked up.
TerminateByPid(c) ==
  /\ pc[c] = "terminate"
  /\ \E r \in req[c] :
       /\ owner[r.pid] # NoProcess
       /\ touched' = touched \cup {<<c, owner[r.pid]>>}
       /\ Goto(c, "wait")
  /\ UNCHANGED <<settings, host, req, proc, before, result>>

\* proc.terminate(): the signal is sent, access is denied, or the process is
\* gone, which counts as a success.
Terminate(c) ==
  /\ pc[c] = "terminate"
  /\ \E r \in req[c] :
       /\ IF owner[r.pid] = proc[c]
            THEN \/ /\ touched' = touched \cup {<<c, proc[c]>>}
                    /\ Goto(c, "wait")
                    /\ UNCHANGED result
                 \/ Return(c, "failed", FALSE, FALSE) /\ UNCHANGED touched
            ELSE Return(c, "success", FALSE, TRUE) /\ UNCHANGED touched
  /\ UNCHANGED <<settings, host, req, proc, before>>

\* Mutation: the process is given all the time it takes.
WaitForever(c) ==
  /\ pc[c] = "wait"
  /\ \E r \in req[c] : owner[r.pid] = NoProcess
  /\ Goto(c, "postCheck")
  /\ UNCHANGED <<settings, host, req, proc, before, result, touched>>

\* Mutation: a timeout is no failure, the signal has been sent after all.
WaitOptimistically(c) ==
  /\ pc[c] = "wait"
  /\ Return(c, "success", FALSE, TRUE)
  /\ UNCHANGED <<settings, host, req, proc, before, touched>>

\* proc.wait(timeout=5) returns once the pid is free, or times out.
Wait(c) ==
  /\ pc[c] = "wait"
  /\ \E r \in req[c] :
       /\ IF owner[r.pid] = NoProcess
            THEN Goto(c, "postCheck") /\ UNCHANGED result
            ELSE Return(c, "failed", FALSE, FALSE)
  /\ UNCHANGED <<settings, host, req, proc, before, touched>>

\* psutil.pid_exists(pid): by now the pid may have a new owner.
PostCheck(c) ==
  /\ pc[c] = "postCheck"
  /\ \E r \in req[c] :
       /\ IF owner[r.pid] = NoProcess
            THEN Return(c, "success", FALSE, TRUE)
            ELSE Return(c, "failed", FALSE, FALSE)
  /\ UNCHANGED <<settings, host, req, proc, before, touched>>

-----------------------------------------------------------------------------
(* _real_renice_process; every step may be denied or find nobody           *)

Fails(c, from) ==
  /\ pc[c] = from
  /\ Return(c, "failed", FALSE, FALSE)
  /\ UNCHANGED <<settings, host, req, proc, before, touched>>

ReadNice(c) ==
  /\ pc[c] = "readNice"
  /\ \E r \in req[c] :
       /\ owner[r.pid] # NoProcess
       /\ before' = [before EXCEPT ![c] = {prio[owner[r.pid]]}]
  /\ Goto(c, "setNice")
  /\ UNCHANGED <<settings, host, req, proc, result, touched>>

SetNice(c) ==
  /\ pc[c] = "setNice"
  /\ \E r \in req[c] :
       /\ owner[r.pid] = proc[c]
       /\ prio' = [prio EXCEPT ![proc[c]] = r.nice]
  /\ touched' = touched \cup {<<c, proc[c]>>}
  /\ Goto(c, "checkNice")
  /\ UNCHANGED <<settings, owner, gone, req, proc, before, result>>

CheckNice(c) ==
  /\ pc[c] = "checkNice"
  /\ \E r \in req[c] :
       /\ owner[r.pid] # NoProcess
       /\ LET after == prio[owner[r.pid]] IN
            IF after = r.nice
              THEN Return(c, "success", FALSE, before[c] # {after})
              ELSE Return(c, "failed", FALSE, FALSE)
  /\ UNCHANGED <<settings, host, req, proc, before, touched>>

ReniceFails(c) == \E from \in {"readNice", "setNice", "checkNice"} : Fails(c, from)

-----------------------------------------------------------------------------
Step(c) ==
  \/ Inspect(c) \/ LookUp(c) \/ Vet(c)
  \/ Terminate(c) \/ Wait(c) \/ PostCheck(c)
  \/ ReadNice(c) \/ SetNice(c) \/ CheckNice(c) \/ ReniceFails(c)

Next ==
  \/ \E c \in Call : Execute(c) \/ Step(c)
  \/ \E i \in Pid : ProcessExits(i) \/ \E p \in Process : ProcessStarts(p, i)

\* A call that has begun runs on: its only wait has a timeout.  Processes owe
\* it nothing, not even to end when they are told to.
Spec == Init /\ [][Next]_vars /\ \A c \in Call : WF_vars(Step(c))

-----------------------------------------------------------------------------
(* Properties *)

\* README.md, "Human-in-the-loop Execution": whatever happens to the pids
\* meanwhile, the one process a call signals or renices is neither root's nor
\* protected nor behind a protected pid, and the call has been granted,
\* enabled, allowlisted and confirmed for that very action.
OnlyAuthorisedEffects ==
  \A c \in Call, p \in Process : <<c, p>> \in touched =>
    /\ p \notin Guarded
    /\ p = proc[c]
    /\ \A r \in req[c] :
         /\ r.mode = "real" /\ r.confirmReal
         /\ r.pid \notin ProtectedPid
         /\ r.approval \in {"approved", "executed"} /\ r.approvedFor = r.action
         /\ settings.enabled /\ r.action \in settings.allowlist

\* A real success is one: the process the pre-check found has ended for good
\* and its pid was seen free, or it has been given the nice value.
SuccessIsReal ==
  \A c \in Call : \A r \in req[c], a \in result[c] :
    (a.status = "success" /\ ~a.simulated) =>
      /\ r.action = "kill_process" => proc[c] \in gone
      /\ r.action = "renice_process" => <<c, proc[c]>> \in touched

\* Every execution answers, though the process ignores the signal or others
\* take its pid over and over.
ExecutionsAnswer == \A c \in Call : (pc[c] # "idle") ~> (pc[c] = "done")
=============================================================================
