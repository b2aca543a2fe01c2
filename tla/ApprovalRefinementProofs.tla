------------------------ MODULE ApprovalRefinementProofs ------------------------
(***************************************************************************)
(* ApprovalService implements the steps of ApprovalLedger, for any         *)
(* approvals and requests: under the refinement mapping every step of a    *)
(* request is a step of the ledger or leaves decision and holder alone.    *)
(*                                                                         *)
(* Holder is a CHOOSE; HolderRight says what it chooses.  It needs the     *)
(* claim to be exclusive, and so holds in every reachable state.           *)
(***************************************************************************)
EXTENDS ApprovalRefinement, ApprovalOutcomeProofs

HolderRight ==
  /\ Holder \in [Approval -> Client \cup {NoClient}]
  /\ \A a \in Approval, c \in Client : Holder[a] = c <=> Holds(c, a)

\* An exclusive claim has one holder, and the mapping finds it.
LEMMA HolderIsRight == ClaimIsExclusive => HolderRight
<1>. SUFFICES ASSUME ClaimIsExclusive
              PROVE  HolderRight
  OBVIOUS
<1>1. ASSUME NEW a \in Approval, NEW c \in Client, Holds(c, a)
      PROVE  Holder[a] = c
  <2>1. (CHOOSE d \in Client : Holds(d, a)) \in Client
        /\ Holds(CHOOSE d \in Client : Holds(d, a), a)
    BY <1>1
  <2>. QED BY <1>1, <2>1 DEF Holder, ClaimIsExclusive
<1>2. ASSUME NEW a \in Approval, ~\E c \in Client : Holds(c, a)
      PROVE  Holder[a] = NoClient
  BY <1>2 DEF Holder
<1>3. Holder \in [Approval -> Client \cup {NoClient}]
  <2>1. Holder = [a \in Approval |-> Holder[a]]
    BY DEF Holder
  <2>. QED BY <1>1, <1>2, <2>1
<1>. QED BY <1>1, <1>2, <1>3, NoClientAssumption DEF HolderRight

\* Only the request that takes a step can come to hold its approval, or stop.
LEMMA HolderStep ==
  ASSUME TypeOK, HolderRight, HolderRight', NEW c \in Client, NEW label,
         Goto(c, label), req' = req
  PROVE  Holder' = IF label \in {"dryRun", "dryDone", "raised"}
                     THEN [Holder EXCEPT ![req[c]] = c]
                     ELSE IF pc[c] \in {"dryRun", "dryDone", "raised"}
                       THEN [Holder EXCEPT ![req[c]] = NoClient]
                       ELSE Holder
<1>1. \A d \in Client \ {c} : pc'[d] = pc[d]
  BY DEF Goto, TypeOK
<1>2. pc'[c] = label
  BY DEF Goto, TypeOK
<1>3. \A d \in Client \ {c}, a \in Approval : Holds(d, a)' <=> Holds(d, a)
  BY <1>1 DEF Holds
<1>4. \A a \in Approval : Holds(c, a)' <=> label \in {"dryRun", "dryDone", "raised"} /\ req[c] = a
  BY <1>2 DEF Holds
<1>5. \A a \in Approval :
        Holds(c, a) <=> pc[c] \in {"dryRun", "dryDone", "raised"} /\ req[c] = a
  BY DEF Holds
<1>6. req[c] \in Approval
  BY DEF TypeOK
<1>. DEFINE h  == Holder
            hh == Holder'
<1>7. /\ h \in [Approval -> Client \cup {NoClient}] /\ hh \in [Approval -> Client \cup {NoClient}]
      /\ \A a \in Approval, d \in Client : (h[a] = d <=> Holds(d, a)) /\ (hh[a] = d <=> Holds(d, a)')
  BY DEF HolderRight
<1>. HIDE DEF h, hh
<1>8. ASSUME NEW a \in Approval, a # req[c]
      PROVE  hh[a] = h[a]
  BY <1>3, <1>4, <1>5, <1>7, <1>8, NoClientAssumption
<1>9. hh[req[c]] = IF label \in {"dryRun", "dryDone", "raised"} THEN c
                   ELSE IF pc[c] \in {"dryRun", "dryDone", "raised"} THEN NoClient
                   ELSE h[req[c]]
  BY <1>3, <1>4, <1>5, <1>6, <1>7, NoClientAssumption
<1>10. hh = IF label \in {"dryRun", "dryDone", "raised"}
              THEN [h EXCEPT ![req[c]] = c]
              ELSE IF pc[c] \in {"dryRun", "dryDone", "raised"}
                THEN [h EXCEPT ![req[c]] = NoClient]
                ELSE h
  BY <1>6, <1>7, <1>8, <1>9
<1>. QED BY <1>10 DEF h, hh

\* An approval that a request holds has been taken from pending.
LEMMA PendingIsFree ==
  ASSUME TypeOK, ClaimIsExclusive, HolderRight, NEW a \in Approval, status[a] = "pending"
  PROVE  Holder[a] = NoClient
BY DEF ClaimIsExclusive, HolderRight

\* Every kind of step is a step of the ledger or a stutter.
LEMMA LedgerStep ==
  ASSUME TypeOK, ClaimIsExclusive, HolderRight, HolderRight', OrdinaryInv,
         NEW c \in Client, OrdinaryStep(c)
  PROVE  [Ledger!Next]_<<status, Holder>>
<1>. USE DEF TypeOK, StoreTypeOK
<1>1. req[c] \in Approval
  OBVIOUS
<1>2. ASSUME Ledger!Claim(req[c]) \/ Ledger!Settle(req[c]) \/ Ledger!Execute(req[c])
             \/ Ledger!Reject(req[c]) \/ UNCHANGED <<status, Holder>>
      PROVE  [Ledger!Next]_<<status, Holder>>
  BY <1>1, <1>2 DEF Ledger!Next
<1>3. CASE Claims(c)
  <2>1. Holder' = [Holder EXCEPT ![req[c]] = c]
    BY <1>3, HolderStep DEF Claims
  <2>2. Holder[req[c]] = NoClient
    BY <1>1, <1>3, PendingIsFree DEF Claims
  <2>3. Ledger!Claim(req[c])
    BY <1>3, <2>1, <2>2 DEF Claims, Ledger!Claim
  <2>. QED BY <1>2, <2>3
<1>4. CASE Rejects(c)
  <2>1. Holder' = Holder
    BY <1>4, HolderStep DEF Rejects
  <2>2. Ledger!Reject(req[c])
    BY <1>4, <2>1 DEF Rejects, Ledger!Reject
  <2>. QED BY <1>2, <2>2
<1>5. ASSUME pc[c] \in {"dryRun", "dryDone"}, NEW label, Goto(c, label), req' = req,
             label \notin {"dryRun", "dryDone", "raised"},
             status' = status \/ /\ status[req[c]] = "approved"
                                 /\ status' = [status EXCEPT ![req[c]] = "executed"]
      PROVE  Ledger!Settle(req[c])
  <2>1. Holder' = [Holder EXCEPT ![req[c]] = NoClient]
    BY <1>5, HolderStep
  <2>2. Holder[req[c]] = c
    BY <1>1, <1>5 DEF HolderRight, Holds
  <2>. QED BY <1>5, <2>1, <2>2, NoClientAssumption DEF Ledger!Settle
<1>6. CASE Ends(c)
  <2>1. CASE pc[c] \in {"dryRun", "dryDone"}
    BY <1>2, <1>5, <1>6, <2>1 DEF Ends
  <2>2. CASE pc[c] \notin {"dryRun", "dryDone"}
    <3>1. pc[c] # "raised"
      BY DEF OrdinaryInv
    <3>2. Holder' = Holder
      BY <1>6, <2>2, <3>1, HolderStep DEF Ends
    <3>. QED BY <1>2, <1>6, <3>2 DEF Ends
  <2>. QED BY <2>1, <2>2
<1>7. CASE DryRuns(c)
  <2>1. Holder' = [Holder EXCEPT ![req[c]] = c]
    BY <1>7, HolderStep DEF DryRuns
  <2>2. Holder[req[c]] = c
    BY <1>1, <1>7 DEF DryRuns, HolderRight, Holds
  <2>3. Holder' = Holder
    BY <2>1, <2>2 DEF HolderRight
  <2>. QED BY <1>2, <1>7, <2>3 DEF DryRuns
<1>8. CASE BeginsReal(c) \/ RunsReal(c) \/ Syncs(c)
  <2>1. Holder' = Holder
    BY <1>8, HolderStep DEF BeginsReal, RunsReal, Syncs
  <2>. QED BY <1>2, <1>8, <2>1 DEF BeginsReal, RunsReal, Syncs
<1>9. CASE Finalizes(c)
  <2>1. status' = status \/ /\ status[req[c]] = "approved"
                            /\ status' = [status EXCEPT ![req[c]] = "executed"]
    BY <1>9 DEF Finalizes
  <2>2. CASE pc[c] = "dryDone"
    BY <1>2, <1>5, <1>9, <2>1, <2>2 DEF Finalizes
  <2>3. CASE pc[c] = "realDone"
    <3>1. Holder' = Holder
      BY <1>9, <2>3, HolderStep DEF Finalizes
    <3>. QED BY <1>2, <2>1, <3>1 DEF Ledger!Execute
  <2>. QED BY <1>9, <2>2, <2>3 DEF Finalizes
<1>. QED
  BY <1>3, <1>4, <1>6, <1>7, <1>8, <1>9 DEF OrdinaryStep

\* With executors that return, approvals are claimed, settled and decided as
\* the ledger says, and in no other way.
THEOREM LedgerImplemented ==
  ASSUME NoRaise, Approval # {}
  PROVE  Spec => ImplementsLedger
<1>1. Init => Ledger!Init
  <2>. SUFFICES ASSUME Init
                PROVE  Ledger!Init
    OBVIOUS
  <2>1. status = [a \in Approval |-> "pending"]
    BY DEF Init, DiagnosisSnapshotSaved, AgentResultSaved, NoApprovalYet, AllPending
  <2>2. Holder = [a \in Approval |-> NoClient]
    BY DEF Init, RequestsIdle, Holder, Holds
  <2>. QED BY <2>1, <2>2 DEF Ledger!Init
<1>2. GrantedInv => HolderRight
  BY HolderIsRight DEF GrantedInv, IInv
<1>3. GrantedInv /\ HolderRight /\ HolderRight' /\ [Next]_vars
        => [Ledger!Next]_<<status, Holder>>
  <2>. SUFFICES ASSUME GrantedInv, HolderRight, HolderRight', [Next]_vars
                PROVE  [Ledger!Next]_<<status, Holder>>
    OBVIOUS
  <2>1. CASE Next
    <3>1. PICK c \in Client : OrdinaryStep(c)
      BY <2>1, StepKind DEF GrantedInv
    <3>. QED BY <3>1, LedgerStep DEF GrantedInv, IInv
  <2>2. CASE UNCHANGED vars
    <3>1. Holder' = Holder
      BY <2>2 DEF vars, requestVars, Holder, Holds
    <3>. QED BY <2>2, <3>1 DEF vars, storeVars
  <2>. QED BY <2>1, <2>2
<1>. QED
  BY <1>1, <1>2, <1>3, GrantsHold, PTL
     DEF Spec, ImplementsLedger, Ledger!Steps, Ledger!ledgerVars
=============================================================================
