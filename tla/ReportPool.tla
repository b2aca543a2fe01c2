------------------------------ MODULE ReportPool ------------------------------
(***************************************************************************)
(* The process-wide registry of report jobs (app/report_jobs.py): a thread *)
(* pool, a dictionary of futures, the plain Lock around it, and the        *)
(* callback by which a finished future takes itself out of the dictionary. *)
(* A run is submitted once, by the request thread that diagnosed it.       *)
(*                                                                         *)
(* The request thread:  idle -> locked -> submitted -> registered          *)
(*                           -> answered, or stuck                         *)
(* The future:          none -> queued -> running -> finishing -> finished *)
(***************************************************************************)
EXTENDS Naturals, FiniteSets, Sequences

CONSTANTS
  Run,       \* the runs that are diagnosed
  Workers,   \* report_worker_count()
  Fast,      \* the runs whose job may end before its callback is attached
  Nobody     \* the Lock is free

ASSUME PoolAssumption ==
  /\ IsFiniteSet(Run)
  /\ Workers \in 1..4
  /\ Fast \subseteq Run
  /\ Nobody \notin Run

VARIABLES
  thread,    \* control state of the request thread of a run
  future,    \* state of its future
  callback,  \* the futures with a done-callback attached
  queue,     \* work items no pool thread has taken yet
  jobs,      \* the keys of REPORT_JOBS
  lock       \* the request thread that holds REPORT_JOBS_LOCK

poolVars == <<thread, future, callback, queue, jobs, lock>>

\* The runs whose job occupies a pool thread.
Busy == {r \in Run : future[r] \in {"running", "finishing"}}

PoolTypeOK ==
  /\ thread \in [Run -> {"idle", "locked", "submitted", "registered",
                         "stuck", "answered"}]
  /\ future \in [Run -> {"none", "queued", "running", "finishing", "finished"}]
  /\ callback \subseteq Run
  /\ queue \in Seq(Run)
  /\ jobs \subseteq Run
  /\ lock \in Run \cup {Nobody}
  /\ Cardinality(Busy) <= Workers

PoolInit ==
  /\ thread = [r \in Run |-> "idle"]
  /\ future = [r \in Run |-> "none"]
  /\ callback = {}
  /\ queue = <<>>
  /\ jobs = {}
  /\ lock = Nobody

ThreadGoes(r, from, to) ==
  /\ thread[r] = from
  /\ thread' = [thread EXCEPT ![r] = to]

-----------------------------------------------------------------------------
(* submit_report_job, statement by statement.                              *)

AcquireLock(r) ==
  /\ lock = Nobody
  /\ ThreadGoes(r, "idle", "locked")
  /\ lock' = r
  /\ UNCHANGED <<future, callback, queue, jobs>>

\* Mutation: the job gets a thread of its own instead of one of the pool's.
SubmitJobUnpooled(r) ==
  /\ ThreadGoes(r, "locked", "submitted")
  /\ future' = [future EXCEPT ![r] = "running"]
  /\ UNCHANGED <<callback, queue, jobs, lock>>

\* The run is new to REPORT_JOBS: POST /diagnose makes up its run_id.
SubmitJob(r) ==
  /\ ThreadGoes(r, "locked", "submitted")
  /\ future' = [future EXCEPT ![r] = "queued"]
  /\ queue' = Append(queue, r)
  /\ UNCHANGED <<callback, jobs, lock>>

\* Mutation: only a job that has started is registered.
RegisterJobOnceStarted(r) ==
  /\ ThreadGoes(r, "submitted", "registered")
  /\ jobs' = IF future[r] = "queued" THEN jobs ELSE jobs \cup {r}
  /\ UNCHANGED <<future, callback, queue, lock>>

RegisterJob(r) ==
  /\ ThreadGoes(r, "submitted", "registered")
  /\ jobs' = jobs \cup {r}
  /\ UNCHANGED <<future, callback, queue, lock>>

\* Mutation: the lock is kept on the way out.
AddDoneCallbackKeepsLock(r) ==
  /\ future[r] # "finished"
  /\ ThreadGoes(r, "registered", "answered")
  /\ callback' = callback \cup {r}
  /\ UNCHANGED <<future, queue, jobs, lock>>

\* A future that is done already calls the callback at once, on this thread,
\* which then waits for the lock it holds itself.
AddDoneCallback(r) ==
  /\ \/ /\ future[r] # "finished"
        /\ ThreadGoes(r, "registered", "answered")
        /\ callback' = callback \cup {r}
        /\ lock' = Nobody
     \/ /\ future[r] = "finished"
        /\ ThreadGoes(r, "registered", "stuck")
        /\ UNCHANGED <<callback, lock>>
  /\ UNCHANGED <<future, queue, jobs>>

-----------------------------------------------------------------------------
(* The pool threads.                                                       *)

TakeJob ==
  /\ queue # <<>>
  /\ Cardinality(Busy) < Workers
  /\ future' = [future EXCEPT ![Head(queue)] = "running"]
  /\ queue' = Tail(queue)
  /\ UNCHANGED <<thread, callback, jobs, lock>>

MayEnd(r) == r \in Fast \/ thread[r] = "answered"

\* run_report_job returns or raises; the thread turns to the callbacks.
JobEnds(r) ==
  /\ future[r] = "running"
  /\ MayEnd(r)
  /\ future' = [future EXCEPT ![r] = IF r \in callback THEN "finishing" ELSE "finished"]
  /\ UNCHANGED <<thread, callback, queue, jobs, lock>>

\* Mutation: the callback is dropped, a finished job stays registered.
RemoveReportJobNever(r) ==
  /\ future[r] = "finishing"
  /\ lock = Nobody
  /\ future' = [future EXCEPT ![r] = "finished"]
  /\ UNCHANGED <<thread, callback, queue, jobs, lock>>

RemoveReportJob(r) ==
  /\ future[r] = "finishing"
  /\ lock = Nobody
  /\ future' = [future EXCEPT ![r] = "finished"]
  /\ jobs' = jobs \ {r}
  /\ UNCHANGED <<thread, callback, queue, lock>>

-----------------------------------------------------------------------------
Submission(r) == SubmitJob(r) \/ RegisterJob(r) \/ AddDoneCallback(r)

PoolNext ==
  \/ TakeJob
  \/ \E r \in Run :
       AcquireLock(r) \/ Submission(r) \/ JobEnds(r) \/ RemoveReportJob(r)

\* Threads run, jobs end (the report's LLM call has a timeout), and every
\* diagnosis that is under way submits its report.
PoolFairness ==
  /\ WF_poolVars(TakeJob)
  /\ \A r \in Run : /\ WF_poolVars(AcquireLock(r))
                    /\ WF_poolVars(Submission(r))
                    /\ WF_poolVars(JobEnds(r))
                    /\ WF_poolVars(RemoveReportJob(r))

PoolSpec == PoolInit /\ [][PoolNext]_poolVars /\ PoolFairness

-----------------------------------------------------------------------------
(* Properties *)

\* Every POST /diagnose is answered: however request threads and callbacks
\* contend for REPORT_JOBS_LOCK, none of them waits forever.
DiagnoseIsAnswered == \A r \in Run : <>(thread[r] = "answered")

\* Every submitted report job is run to its end, its pool thread becomes free
\* again and REPORT_JOBS forgets it for good.
JobsAreForgotten == \A r \in Run : <>[](future[r] = "finished" /\ r \notin jobs)

\* The registry tells which jobs are under way: get_report_job finds every
\* job of an answered request until the job has ended.
LiveJobsAreRegistered ==
  \A r \in Run :
    (thread[r] = "answered" /\ future[r] # "finished") => r \in jobs
=============================================================================
