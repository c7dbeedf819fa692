----------------------------- MODULE MCApprovals -----------------------------
(***************************************************************************)
(* What waits for the user, on small instances: the approval manager in    *)
(* the gateway (two requests, two concurrent handlers), the phone's        *)
(* approval screens, and the deadlines of a deal.  They share no state, so *)
(* each behaviour is one of them, the part chosen first.                   *)
(***************************************************************************)
EXTENDS ApprovalManager, ApprovalScreen, Deals

CONSTANTS p1, p2
\* The first approval has two cards, so that one can still wait for its prompt.
MCCards == [p \in Decks |-> IF p = p1 THEN 2 ELSE 1]

VARIABLE part
approvalVars == <<part, vars, screenVars, dealVars>>

ApprovalsInit ==
  part \in {"manager", "screens", "deals"} /\ Init /\ ScreenInit /\ DealInit
ApprovalsNext ==
  \/ part = "manager" /\ Next /\ UNCHANGED <<part, screenVars, dealVars>>
  \/ part = "screens" /\ ScreenNext /\ UNCHANGED <<part, vars, dealVars>>
  \/ part = "deals" /\ DealNext /\ UNCHANGED <<part, vars, screenVars>>

\* The manager's; where it stands still none of its actions is enabled.
ApprovalsSpec == ApprovalsInit /\ [][ApprovalsNext]_approvalVars /\ Fairness
==============================================================================
