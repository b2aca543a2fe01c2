---------------------------- MODULE ApprovalLedger ---------------------------
(***************************************************************************)
(* What the approval component promises, without tables, executors or      *)
(* requests' control state: the state machine of an approval                *)
(*                                                                         *)
(*            Claim            Settle, Execute                             *)
(*   pending ------> approved ----------------> executed                   *)
(*      |    <------                                                       *)
(*      |    Release                                                       *)
(*      +--> rejected                                                      *)
(*                                                                         *)
(* and the claim that lets one request at a time carry out its dry run.    *)
(* ApprovalService implements it under a refinement mapping, as long as    *)
(* action executors do not raise.                                          *)
(***************************************************************************)
CONSTANTS Approval, Client, NoClient   \* NoClient is no member of Client

VARIABLES
  status,   \* the decision on each approval
  holder    \* the request that has claimed it, or NoClient

ledgerVars == <<status, holder>>

Init ==
  /\ status = [a \in Approval |-> "pending"]
  /\ holder = [a \in Approval |-> NoClient]

\* A request takes a pending approval that nobody holds.
Claim(a) ==
  /\ status[a] = "pending"
  /\ holder[a] = NoClient
  /\ status' = [status EXCEPT ![a] = "approved"]
  /\ \E c \in Client : holder' = [holder EXCEPT ![a] = c]

\* The holder gives the claim up: its dry run succeeded, failed, came too
\* late, or its process died.
Settle(a) ==
  /\ holder[a] # NoClient
  /\ holder' = [holder EXCEPT ![a] = NoClient]
  /\ \/ status' = status
     \/ /\ status[a] = "approved"
        /\ status' = [status EXCEPT ![a] = "executed"]

\* The holder gives the approval back.
Release(a) ==
  /\ holder[a] # NoClient
  /\ status[a] = "approved"
  /\ status' = [status EXCEPT ![a] = "pending"]
  /\ holder' = [holder EXCEPT ![a] = NoClient]

\* A real execution succeeded; a dry run may still be under way.
Execute(a) ==
  /\ status[a] = "approved"
  /\ status' = [status EXCEPT ![a] = "executed"]
  /\ UNCHANGED holder

Reject(a) ==
  /\ status[a] = "pending"
  /\ status' = [status EXCEPT ![a] = "rejected"]
  /\ UNCHANGED holder

Next == \E a \in Approval :
  Claim(a) \/ Settle(a) \/ Release(a) \/ Execute(a) \/ Reject(a)

\* A claim never lasts forever.
Fairness == \A a \in Approval : WF_ledgerVars(Settle(a) \/ Release(a))

Steps == Init /\ [][Next]_ledgerVars

Spec == Steps /\ Fairness
=============================================================================
