------------------------------- MODULE MCPhone -------------------------------
(***************************************************************************)
(* What the phone keeps going with the gateway, on small instances: the    *)
(* offline queue of the chat, and the Gmail connection of its settings     *)
(* screen.  They share no state, so each behaviour is one of them, the     *)
(* part chosen first; the other stands still.                              *)
(***************************************************************************)
EXTENDS OfflineQueue, Connections

VARIABLE part
phoneVars == <<part, vars, connectionVars>>

PhoneInit == part \in {"queue", "connection"} /\ Init /\ ConnectionsInit
PhoneNext ==
  \/ part = "queue" /\ Next /\ UNCHANGED <<part, connectionVars>>
  \/ part = "connection" /\ ConnectionsNext /\ UNCHANGED <<part, vars>>

\* The queue's; where it stands still none of its actions is enabled.
PhoneSpec == PhoneInit /\ [][PhoneNext]_phoneVars /\ Fairness
==============================================================================
