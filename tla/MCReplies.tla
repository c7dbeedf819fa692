------------------------------- MODULE MCReplies -------------------------------
(***************************************************************************)
(* What a message meets at the gateway, on small instances: the            *)
(* coordinator of the replica it reaches, with its settings and approvals, *)
(* and the stream of the reply.  They share no state, so each behaviour is *)
(* one of them, the part chosen first.                                     *)
(***************************************************************************)
EXTENDS MCChatStream, TenantRegistry

CONSTANTS g1, g2, q1, p1, p2

\* Where the calls go, up to the names of the replicas and of the saves.
Assignments ==
  {f \in [GatewayCalls -> Replicas] : f[q1] = g1 /\ (f[p1] # f[p2] => f[p1] = g1)}

VARIABLE part
replyVars == <<part, vars, registryVars>>

RepliesInit ==
  /\ part \in {"chat", "registry"} /\ Init /\ RegistryInit
  /\ replicaOf \in Assignments
  /\ part = "chat" => replicaOf[p2] = g1 /\ ~eager /\ dbSettings = {}
RepliesNext ==
  \/ part = "chat" /\ Next /\ UNCHANGED <<part, registryVars>>
  \/ part = "registry" /\ RegistryNext /\ UNCHANGED <<part, vars>>

\* The chat's; where it stands still none of its fair actions is enabled.
RepliesSpec ==
  /\ RepliesInit /\ [][RepliesNext]_replyVars
  /\ \A r \in Requests : WF_vars(Gateway(r))
  /\ \A d \in Devices : WF_vars(Deliver(d))
================================================================================
