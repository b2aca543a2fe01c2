-------------------------- MODULE ApprovalRefinement --------------------------
(***************************************************************************)
(* ApprovalService implements ApprovalLedger: the approvals table is the   *)
(* decision, and the holder of an approval is the request that stands      *)
(* between its claim and the end of its dry run.                           *)
(***************************************************************************)
EXTENDS ApprovalService

CONSTANT NoClient

ASSUME NoClientAssumption == NoClient \notin Client

Holder ==
  [a \in Approval |->
     IF \E c \in Client : Holds(c, a) THEN CHOOSE c \in Client : Holds(c, a)
                                      ELSE NoClient]

Ledger == INSTANCE ApprovalLedger WITH holder <- Holder

\* The claim, decision and settlement of approvals is that of the ledger, for
\* every interleaving of requests and every crash of one: no approval is ever
\* held twice, and none is decided while held except by an execution.
ImplementsLedger == Ledger!Steps

\* No claim stays held, whatever else happens to its approval meanwhile: with
\* ImplementsLedger, the service implements all of Ledger!Spec.
ClaimsAreSettled == Ledger!Fairness
=============================================================================
