------------------------------ MODULE MCProgress -----------------------------
(***************************************************************************)
(* The parts in which something must happen in the end, on small           *)
(* instances: writes of one file, one message through the coordinator,     *)
(* showing days, and contacts that wait on the phone; beside them, for     *)
(* safety, the phone's inbox and its paywall. They share no state, so each *)
(* behaviour is one of them, the part chosen at the start; the others      *)
(* stand still at one initial state.                                       *)
(***************************************************************************)
EXTENDS MemoryManager, Coordinator, Showings, Contacts, Inbox, Paywall

CONSTANTS w1, w2, w3, m1, m2, t1, t2, contact, redis, house, condo, loft

\* Writes of one path, some through one manager and one through another, which
\* are replicas of one gateway.
LastThroughM2 == [w \in Writers |-> IF w = w3 THEN m2 ELSE m1]
SamePath      == [w \in Writers |-> contact]
AnyOperation  == [w \in Writers |-> Operations]
OneTenant     == [m \in Managers |-> t1]
BothRedis     == [m \in Managers |-> redis]

VARIABLE part
phoneVars == <<contactVars, dossierVars, inboxVars, paywallVars>>
progressVars == <<vars, inboundVars, showVars, phoneVars, part>>

MCListing ==
  [p \in Props |-> IF p = loft THEN [type |-> "contact_agent", contact |-> TRUE]
                   ELSE [type |-> "go_direct", contact |-> FALSE]]

ProgressInit ==
  /\ part \in {"memory", "inbound", "showings", "contacts", "dossier", "inbox", "paywall"}
  /\ Init /\ InboundInit /\ ShowInit /\ ContactInit /\ DossierInit
  /\ InboxInit /\ PaywallInit
  /\ part # "memory" => \A f \in DOMAIN file : ~file[f].there
  /\ part # "inbound" => autoTypes = {}

ProgressNext ==
  /\ UNCHANGED part
  /\ \/ part = "memory" /\ Next /\ UNCHANGED <<inboundVars, showVars, phoneVars>>
     \/ part = "inbound" /\ InboundNext /\ UNCHANGED <<vars, showVars, phoneVars>>
     \/ part = "showings" /\ ShowNext /\ UNCHANGED <<vars, inboundVars, phoneVars>>
     \/ /\ UNCHANGED <<vars, inboundVars, showVars>>
        /\ \/ /\ part = "contacts" /\ ContactNext
              /\ UNCHANGED <<dossierVars, inboxVars, paywallVars>>
           \/ /\ part = "dossier" /\ DossierNext
              /\ UNCHANGED <<contactVars, inboxVars, paywallVars>>
           \/ /\ part = "inbox" /\ InboxNext
              /\ UNCHANGED <<contactVars, dossierVars, paywallVars>>
           \/ /\ part = "paywall" /\ PaywallNext
              /\ UNCHANGED <<contactVars, dossierVars, inboxVars>>

\* The fairness of the parts, each while it is the one that runs.  Some step of a
\* write, of Redis or of its TTL is taken as long as there is one; withTimeout
\* settles every dispatch, of a task or of an item, whether or not the agent ever
\* returns, and the event loop does the rest: nothing makes the user answer.  The
\* handlers of the showings and the drains go on, and the phone reconnects again
\* and again.
WriteGoesOn ==
  \/ \E w \in Writers : Step(w)
  \/ \E m \in Managers : Reply(m)
  \/ \E k \in Stores \X Paths : Expire(k)
MessageGoesOn ==
  \/ \E a \in Agents : HandlerRejects(a) \/ ItemReturns(a) \/ RunEffects(a)
  \/ DispatchError \/ Collect \/ Offer \/ ReplyNow \/ EffectsDone \/ Execute \/ Close
ShowingsGoOn == EventHandler \/ \E s \in Slots : Handler(s)

ProgressFairness ==
  /\ WF_vars(part = "memory" /\ WriteGoesOn)
  /\ WF_inboundVars(part = "inbound" /\ MessageGoesOn)
  /\ WF_showVars(part = "showings" /\ ShowingsGoOn)
  /\ WF_contactVars(part = "contacts" /\ Disconnected)
  /\ WF_contactVars(part = "contacts" /\ \E d \in Drains : DrainPendingContacts(d))
  /\ WF_contactVars(part = "contacts" /\ \E d \in Drains : DrainStep(d))
  /\ WF_contactVars(part = "contacts" /\ \E d \in Drains : ServerStep(d))

ProgressSpec == ProgressInit /\ [][ProgressNext]_progressVars /\ ProgressFairness

\* What was begun ends: a lock that a dead or slow holder keeps is free again in the
\* end (distributed-lock.ts:52, memory-manager.ts:146), and a batch of decisions is
\* carried out to its end though dispatches fail or never return (coordinator.ts:123).
WorkEnds == LockIsFreed /\ DecisionsEnd
=============================================================================
