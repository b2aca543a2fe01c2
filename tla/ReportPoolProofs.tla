--------------------------- MODULE ReportPoolProofs ---------------------------
(***************************************************************************)
(* What TLC checks of ReportPool on a few runs, proved for any number of   *)
(* runs, whichever of them end early.                                      *)
(*                                                                         *)
(* That a live job is registered does not follow from itself.  A job taken *)
(* from the queue could be one that has ended and been forgotten, and the  *)
(* statement that says it is not speaks of the queue: whatever waits there *)
(* waits once and has not started (QueueIsFresh).                          *)
(***************************************************************************)
EXTENDS ReportPool, FiniteSetTheorems, TLAPS

TypesInv ==
  /\ thread \in [Run -> {"idle", "locked", "submitted", "registered",
                         "stuck", "answered"}]
  /\ future \in [Run -> {"none", "queued", "running", "finishing", "finished"}]
  /\ callback \subseteq Run
  /\ queue \in Seq(Run)
  /\ jobs \subseteq Run
  /\ lock \in Run \cup {Nobody}

\* A work item waits once, and its job has not started.
QueueIsFresh ==
  /\ \A i \in 1..Len(queue) : future[queue[i]] = "queued"
  /\ \A i, j \in 1..Len(queue) : queue[i] = queue[j] => i = j

\* A run has a future from its submission on, and a future that is not done
\* is in REPORT_JOBS from its registration on.
SubmittedInOrder(r) ==
  /\ thread[r] \in {"idle", "locked"} => future[r] = "none"
  /\ thread[r] \in {"registered", "answered"} /\ future[r] # "finished" => r \in jobs

\* The Lock is held from `with REPORT_JOBS_LOCK' to the end of its block.
LockIsHeld(r) ==
  thread[r] \in {"locked", "submitted", "registered", "stuck"} <=> lock = r

PoolInv ==
  /\ TypesInv
  /\ Cardinality(Busy) <= Workers
  /\ QueueIsFresh
  /\ \A r \in Run : SubmittedInOrder(r) /\ LockIsHeld(r)

-----------------------------------------------------------------------------
(* The pool is never overcommitted.                                        *)

\* No step but TakeJob makes a run busy, and TakeJob does it to one run when
\* a pool thread is free.
LEMMA BusyIsBounded ==
  ASSUME PoolInv, [PoolNext]_poolVars
  PROVE  Cardinality(Busy') <= Workers
<1>1. IsFiniteSet(Run) /\ Workers \in Nat
  BY PoolAssumption
<1>2. Busy \subseteq Run /\ IsFiniteSet(Busy) /\ Cardinality(Busy) \in Nat
  BY <1>1, FS_Subset, FS_CardinalityType DEF Busy
<1>3. ASSUME Busy' \subseteq Busy  PROVE Cardinality(Busy') <= Workers
  <2>1. Cardinality(Busy') <= Cardinality(Busy) /\ Cardinality(Busy') \in Nat
    BY <1>2, <1>3, FS_Subset, FS_CardinalityType
  <2> QED  BY <2>1, <1>1, <1>2 DEF PoolInv
<1>4. CASE TakeJob
  <2> DEFINE h == Head(queue)
  <2>1. h \in Run
    BY <1>4 DEF TakeJob, PoolInv, TypesInv
  <2>2. Busy' = Busy \cup {h}
    BY <1>4, <2>1 DEF TakeJob, PoolInv, TypesInv, Busy
  <2>3. Cardinality(Busy') <= Cardinality(Busy) + 1
    BY <1>2, <2>2, FS_AddElement
  <2>4. Cardinality(Busy') \in Nat
    BY <1>2, <2>2, FS_AddElement, FS_CardinalityType
  <2> QED  BY <1>1, <1>2, <1>4, <2>3, <2>4 DEF TakeJob
<1>5. CASE \E r \in Run : AcquireLock(r) \/ RegisterJob(r) \/ AddDoneCallback(r)
  BY <1>3, <1>5 DEF AcquireLock, RegisterJob, AddDoneCallback, Busy
<1>6. CASE \E r \in Run : SubmitJob(r) \/ JobEnds(r) \/ RemoveReportJob(r)
  BY <1>3, <1>6
  DEF SubmitJob, JobEnds, RemoveReportJob, Busy, PoolInv, TypesInv
<1>7. CASE UNCHANGED poolVars
  BY <1>3, <1>7 DEF poolVars, Busy
<1> QED  BY <1>4, <1>5, <1>6, <1>7 DEF PoolNext, Submission

-----------------------------------------------------------------------------
(* The inductive invariant.                                                *)

\* A step of the request thread of a run, in submit_report_job.
LEMMA ThreadStep ==
  ASSUME PoolInv, NEW r \in Run, AcquireLock(r) \/ RegisterJob(r) \/ AddDoneCallback(r)
  PROVE  TypesInv' /\ QueueIsFresh' /\ \A s \in Run : SubmittedInOrder(s)' /\ LockIsHeld(s)'
<1> USE PoolAssumption DEF PoolInv, TypesInv, ThreadGoes
<1>1. CASE AcquireLock(r)
  BY <1>1 DEF AcquireLock, QueueIsFresh, SubmittedInOrder, LockIsHeld
<1>2. CASE RegisterJob(r)
  BY <1>2 DEF RegisterJob, QueueIsFresh, SubmittedInOrder, LockIsHeld
<1>3. CASE AddDoneCallback(r)
  <2>1. CASE future[r] # "finished"
    BY <1>3, <2>1 DEF AddDoneCallback, QueueIsFresh, SubmittedInOrder, LockIsHeld
  <2>2. CASE future[r] = "finished"
    BY <1>3, <2>2 DEF AddDoneCallback, QueueIsFresh, SubmittedInOrder, LockIsHeld
  <2> QED  BY <2>1, <2>2
<1> QED  BY <1>1, <1>2, <1>3

\* The new work item is at the end of the queue, and nothing else in the queue
\* is of its run, which had no future.
LEMMA SubmitStep ==
  ASSUME PoolInv, NEW r \in Run, SubmitJob(r)
  PROVE  TypesInv' /\ QueueIsFresh' /\ \A s \in Run : SubmittedInOrder(s)' /\ LockIsHeld(s)'
<1> USE DEF PoolInv, TypesInv, ThreadGoes, SubmitJob
<1>1. TypesInv'
  OBVIOUS
<1>2. \A s \in Run : SubmittedInOrder(s)' /\ LockIsHeld(s)'
  BY PoolAssumption DEF SubmittedInOrder, LockIsHeld
<1>3. \A i \in 1..Len(queue) : queue[i] # r
  BY DEF QueueIsFresh, SubmittedInOrder
<1>4. /\ Len(queue') = Len(queue) + 1
      /\ \A i \in 1..Len(queue) : queue'[i] = queue[i]
      /\ queue'[Len(queue) + 1] = r
  OBVIOUS
<1>5. QueueIsFresh'
  BY <1>3, <1>4 DEF QueueIsFresh
<1> QED  BY <1>1, <1>2, <1>5

\* A pool thread takes the oldest work item.
LEMMA TakeStep ==
  ASSUME PoolInv, TakeJob
  PROVE  TypesInv' /\ QueueIsFresh' /\ \A s \in Run : SubmittedInOrder(s)' /\ LockIsHeld(s)'
<1> USE DEF PoolInv, TypesInv, TakeJob
<1>1. /\ Head(queue) = queue[1] /\ 1 \in 1..Len(queue) /\ queue[1] \in Run
      /\ Len(queue') = Len(queue) - 1
      /\ \A i \in 1..Len(queue') : queue'[i] = queue[i + 1]
  OBVIOUS
<1>2. TypesInv'
  BY <1>1
<1>3. QueueIsFresh'
  BY <1>1 DEF QueueIsFresh
<1>4. future[queue[1]] = "queued"
  BY <1>1 DEF QueueIsFresh
<1>5. \A s \in Run : SubmittedInOrder(s)' /\ LockIsHeld(s)'
  BY <1>1, <1>4 DEF SubmittedInOrder, LockIsHeld
<1> QED  BY <1>2, <1>3, <1>5

\* A job that runs ends, its callback forgets it: neither waits in the queue.
LEMMA EndStep ==
  ASSUME PoolInv, NEW r \in Run, JobEnds(r) \/ RemoveReportJob(r)
  PROVE  TypesInv' /\ QueueIsFresh' /\ \A s \in Run : SubmittedInOrder(s)' /\ LockIsHeld(s)'
<1> USE DEF PoolInv, TypesInv
<1>1. CASE JobEnds(r)
  BY <1>1 DEF JobEnds, QueueIsFresh, SubmittedInOrder, LockIsHeld
<1>2. CASE RemoveReportJob(r)
  BY <1>2 DEF RemoveReportJob, QueueIsFresh, SubmittedInOrder, LockIsHeld
<1> QED  BY <1>1, <1>2

\* The registry, its queue and its Lock agree with the threads in every state.
THEOREM InductiveInvariant == PoolSpec => []PoolInv
<1>1. PoolInit => PoolInv
  <2> SUFFICES ASSUME PoolInit PROVE PoolInv
    OBVIOUS
  <2>1. Busy = {}
    BY DEF PoolInit, Busy
  <2>2. Cardinality(Busy) <= Workers
    BY <2>1, FS_EmptySet, PoolAssumption
  <2> QED
    BY <2>2, PoolAssumption
    DEF PoolInit, PoolInv, TypesInv, QueueIsFresh, SubmittedInOrder, LockIsHeld
<1>2. PoolInv /\ [PoolNext]_poolVars => PoolInv'
  <2> SUFFICES ASSUME PoolInv, [PoolNext]_poolVars PROVE PoolInv'
    OBVIOUS
  <2>1. (Cardinality(Busy) <= Workers)'
    BY BusyIsBounded
  <2>2. TypesInv' /\ QueueIsFresh' /\ \A s \in Run : SubmittedInOrder(s)' /\ LockIsHeld(s)'
    <3>1. CASE UNCHANGED poolVars
      BY <3>1
      DEF poolVars, PoolInv, TypesInv, QueueIsFresh, SubmittedInOrder, LockIsHeld
    <3>2. CASE PoolNext
      BY <3>2, ThreadStep, SubmitStep, TakeStep, EndStep DEF PoolNext, Submission
    <3> QED  BY <3>1, <3>2
  <2> QED  BY <2>1, <2>2 DEF PoolInv
<1> QED  BY <1>1, <1>2, PTL DEF PoolSpec

\* The state keeps its types, and no more jobs run than there are pool threads.
THEOREM TypeCorrect == PoolSpec => []PoolTypeOK
<1>1. PoolInv => PoolTypeOK
  BY DEF PoolInv, TypesInv, PoolTypeOK
<1> QED  BY <1>1, InductiveInvariant, PTL

\* get_report_job finds the job of every answered request until it has ended.
THEOREM LiveJobsRegistered == PoolSpec => []LiveJobsAreRegistered
<1>1. PoolInv => LiveJobsAreRegistered
  BY DEF PoolInv, SubmittedInOrder, LiveJobsAreRegistered
<1> QED  BY <1>1, InductiveInvariant, PTL
=============================================================================
