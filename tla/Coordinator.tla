------------------------------ MODULE Coordinator ------------------------------
(***************************************************************************)
(* src/coordinator: the way of one inbound message through the             *)
(* coordinator.  Agents are dispatched alone, in parallel or in a chain    *)
(* and time out; what they draft is split into items sent at once and      *)
(* items the user reviews on the phone; the user's decisions come back by  *)
(* item index and are executed one after another.                          *)
(*                                                                         *)
(* Agents are numbered in the order of `targets` (`chainOrder` in a chain).*)
(* The store behind the approval request is the module ApprovalManager.    *)
(***************************************************************************)
EXTENDS Naturals, Sequences, FiniteSets, Ranks

CONSTANTS
  N,              \* number of target agents
  ActionTypes,    \* action types a draft can have
  AlwaysRequire,  \* those that always require approval
  Decisions       \* what the phone can send for a card

ASSUME CoordinatorAssumption ==
  /\ N \in Nat \ {0}
  /\ AlwaysRequire \subseteq ActionTypes
  /\ Decisions \subseteq {"approve", "cancel", "edit", "shared"}

Agents == 1..N

VARIABLES
  stage,     \* where handleInbound, then the approval's onExecute, stands
  mode,      \* decision.dispatchMode
  autoTypes, \* action types the tenant's settings say "auto" for
  run,       \* the handler of each agent, as the dispatcher sees it
  output,    \* the TaskResult of each handler that returned
  results,   \* agents whose results the dispatcher hands back, in order
  auto,      \* agents whose drafts are dispatched without review
  cards,     \* reviewItems: [agent, index] of each card
  flying,    \* agents an approved item has been dispatched to and awaited
  submitted,   \* the decisions still to be executed
  decided,   \* history: what the user decided about the draft of an agent
  sent,      \* history: how often the draft of an agent was dispatched
  effects    \* agents whose side effects were dispatched

inputVars  == <<mode, autoTypes>>
agentVars  == <<run, output, results>>
reviewVars == <<auto, cards, flying, submitted, decided, sent>>
inboundVars == <<stage, inputVars, agentVars, reviewVars, effects>>

NoResult == [status |-> "failed", effects |-> FALSE]
Results  ==
  [status : {"success"}, effects : BOOLEAN]
    \cup [status : {"needs_approval"}, type : ActionTypes, effects : BOOLEAN]
    \cup {NoResult}

InboundInit ==
  /\ stage = "new" /\ mode = "single"
  /\ autoTypes \in SUBSET ActionTypes
  /\ run = [a \in Agents |-> "idle"]
  /\ output = [a \in Agents |-> NoResult]
  /\ results = <<>>
  /\ auto = {} /\ cards = <<>> /\ flying = {} /\ submitted = <<>>
  /\ decided = [a \in Agents |-> "nothing"]
  /\ sent = [a \in Agents |-> 0]
  /\ effects = {}

(***************************************************************************)
(* handleInbound up to the end of the dispatch.                            *)
(***************************************************************************)
Clarify ==
  /\ stage = "new"
  /\ stage' = "replied"
  /\ UNCHANGED <<inputVars, agentVars, reviewVars, effects>>

Dispatch(m) ==
  /\ stage = "new"
  /\ stage' = "dispatching" /\ mode' = m
  /\ run' = [a \in Agents |-> IF a = 1 \/ m = "parallel" THEN "running" ELSE "idle"]
  /\ UNCHANGED <<autoTypes, output, results, reviewVars, effects>>

UpdateAutoApprovalSettings(types) ==
  /\ stage = "dispatching"      \* later changes do not matter to this message
  /\ autoTypes' = types
  /\ UNCHANGED <<stage, mode, agentVars, reviewVars, effects>>

\* handleTask resolves in time.  In a chain the next agent runs unless this
\* one failed.
HandlerReturns(a, out) ==
  /\ run[a] = "running"
  /\ output' = [output EXCEPT ![a] = out]
  /\ run' = [b \in Agents |->
       IF b = a THEN "returned"
       ELSE IF mode = "chain" /\ b = a + 1 /\ out.status # "failed" THEN "running"
       ELSE run[b]]
  /\ UNCHANGED <<stage, inputVars, results, reviewVars, effects>>

\* withTimeout rejects, because the handler threw or took too long.
HandlerRejects(a) ==
  /\ run[a] = "running"
  /\ \E how \in {"failed", "abandoned"} : run' = [run EXCEPT ![a] = how]
  /\ UNCHANGED <<stage, inputVars, output, results, reviewVars, effects>>

\* An abandoned handler still runs to its end; its result goes nowhere.
LateReturn(a) ==
  /\ run[a] = "abandoned"
  /\ run' = [run EXCEPT ![a] = "late"]
  /\ UNCHANGED <<stage, inputVars, output, results, reviewVars, effects>>

Settled == \A a \in Agents : run[a] # "running"

\* dispatchSingle lets the rejection through; the user is told to try again.
DispatchError ==
  /\ stage = "dispatching" /\ mode = "single"
  /\ run[1] \in {"failed", "abandoned", "late"}
  /\ stage' = "replied"
  /\ UNCHANGED <<inputVars, agentVars, reviewVars, effects>>

ResultOf(a) == IF run[a] = "returned" THEN output[a] ELSE NoResult

ResultOrder ==
  CASE mode = "single"   -> <<1>>
    [] mode = "parallel" -> [i \in Agents |-> i]
    [] mode = "chain"    -> <<CHOOSE a \in Agents :
                               run[a] # "idle" /\ \A b \in Agents : run[b] # "idle" => b <= a>>

\* extractPendingApprovals: one item for each drafted action, numbered from 0.
Drafts(order) ==
  Selected(order, {i \in 1..Len(order) : ResultOf(order[i]).status = "needs_approval"})

Numbered(drafts) ==
  [i \in 1..Len(drafts) |-> [agent |-> drafts[i], index |-> i - 1]]

IsAuto(a) == output[a].type \in autoTypes \ AlwaysRequire

SplitUnfiltered(order) ==   \* mutant: what goes out by itself is reviewed, too
  LET drafts == Drafts(order)
  IN /\ auto' = {drafts[i] : i \in {j \in 1..Len(drafts) : IsAuto(drafts[j])}}
     /\ cards' = Numbered(drafts)
     /\ flying' = auto'
     /\ sent' = [a \in Agents |-> IF a \in auto' THEN sent[a] + 1 ELSE sent[a]]

Split(order) ==
  LET drafts == Drafts(order)
  IN /\ auto' = {drafts[i] : i \in {j \in 1..Len(drafts) : IsAuto(drafts[j])}}
     /\ cards' = Selected(Numbered(drafts), {i \in 1..Len(drafts) : ~IsAuto(drafts[i])})
     /\ flying' = auto'
     /\ sent' = [a \in Agents |-> IF a \in auto' THEN sent[a] + 1 ELSE sent[a]]

Collect ==
  /\ stage = "dispatching" /\ Settled
  /\ mode = "single" => run[1] = "returned"
  /\ results' = ResultOrder
  /\ Split(results')
  /\ stage' = "sending"
  /\ UNCHANGED <<inputVars, run, output, submitted, decided, effects>>

\* studio_generate and virtual_staging reply with the raw result instead.
CollectStudio ==
  /\ stage = "dispatching" /\ Settled
  /\ mode = "single" => run[1] = "returned"
  /\ results' = ResultOrder
  /\ stage' = "replied"
  /\ UNCHANGED <<inputVars, run, output, reviewVars, effects>>

\* A dispatch of an item ends, well or not: its failure is only logged.
ItemReturns(a) ==
  /\ a \in flying
  /\ flying' = flying \ {a}
  /\ UNCHANGED <<stage, inputVars, agentVars, auto, cards, submitted, decided, sent, effects>>

(***************************************************************************)
(* With cards to review the reply carries the approval request and         *)
(* handleInbound returns; otherwise it replies and runs the side effects.  *)
(***************************************************************************)
Offer ==
  /\ stage = "sending" /\ flying = {} /\ cards # <<>>
  /\ stage' = "offered"
  /\ UNCHANGED <<inputVars, agentVars, reviewVars, effects>>

ReplyNow ==
  /\ stage = "sending" /\ flying = {} /\ cards = <<>>
  /\ stage' = "effects"
  /\ UNCHANGED <<inputVars, agentVars, reviewVars, effects>>

WithEffects == {a \in Agents : ResultOf(a).effects /\ \E i \in 1..Len(results) : results[i] = a}

RunEffects(a) ==
  /\ stage = "effects" /\ a \in WithEffects \ effects
  /\ \A b \in WithEffects \ effects : a <= b      \* in the order of the results
  /\ effects' = effects \cup {a}
  /\ UNCHANGED <<stage, inputVars, agentVars, reviewVars>>

EffectsDone ==
  /\ stage = "effects" /\ WithEffects \subseteq effects
  /\ stage' = "replied"
  /\ UNCHANGED <<inputVars, agentVars, reviewVars, effects>>

(***************************************************************************)
(* The phone shows the cards one by one and submits a decision for each    *)
(* under the card's index; onExecute looks the index up in the batch.      *)
(***************************************************************************)
Answer ==
  /\ stage = "offered"
  /\ \E d \in [1..Len(cards) -> Decisions] :
       /\ submitted' = [i \in 1..Len(cards) |-> [index |-> cards[i].index, decision |-> d[i]]]
       /\ decided' = [a \in Agents |->
            IF \E i \in 1..Len(cards) : cards[i].agent = a
            THEN d[CHOOSE i \in 1..Len(cards) : cards[i].agent = a] ELSE decided[a]]
  /\ stage' = "executing"
  /\ UNCHANGED <<inputVars, agentVars, auto, cards, flying, sent, effects>>

ExecuteShared ==   \* mutant: only "cancel" is skipped
  /\ stage = "executing" /\ submitted # <<>> /\ flying = {}
  /\ LET d == Head(submitted)  i == d.index + 1
     IN IF d.decision # "cancel" /\ i <= Len(cards)
        THEN /\ flying' = {cards[i].agent}
             /\ sent' = [sent EXCEPT ![cards[i].agent] = @ + 1]
        ELSE UNCHANGED <<flying, sent>>
  /\ submitted' = Tail(submitted)
  /\ UNCHANGED <<stage, inputVars, agentVars, auto, cards, decided, effects>>

Execute ==
  /\ stage = "executing" /\ submitted # <<>> /\ flying = {}
  /\ LET d == Head(submitted)  i == d.index + 1
     IN IF d.decision = "approve" /\ i <= Len(cards)
        THEN /\ flying' = {cards[i].agent}
             /\ sent' = [sent EXCEPT ![cards[i].agent] = @ + 1]
        ELSE UNCHANGED <<flying, sent>>
  /\ submitted' = Tail(submitted)
  /\ UNCHANGED <<stage, inputVars, agentVars, auto, cards, decided, effects>>

Close ==
  /\ stage = "executing" /\ submitted = <<>> /\ flying = {}
  /\ stage' = "closed"
  /\ UNCHANGED <<inputVars, agentVars, reviewVars, effects>>

InboundNext ==
  \/ Clarify
  \/ \E m \in {"single", "parallel", "chain"} : Dispatch(m)
  \/ \E types \in SUBSET ActionTypes : UpdateAutoApprovalSettings(types)
  \/ \E a \in Agents :
       \/ \E out \in Results : HandlerReturns(a, out)
       \/ HandlerRejects(a)
       \/ LateReturn(a)
       \/ ItemReturns(a)
       \/ RunEffects(a)
  \/ DispatchError
  \/ Collect
  \/ CollectStudio
  \/ Offer
  \/ ReplyNow
  \/ EffectsDone
  \/ Answer
  \/ Execute
  \/ Close

InboundSpec == InboundInit /\ [][InboundNext]_inboundVars

--------------------------------------------------------------------------------
(***************************************************************************)
(* Properties.                                                             *)
(***************************************************************************)

\* Once the decisions are executed, a reviewed draft has gone out exactly if
\* the user approved it, provided no item of its message was automatic.
ReviewIsObeyed ==
  stage = "closed" /\ auto = {} =>
    \A i \in 1..Len(cards) :
      (sent[cards[i].agent] = 1) <=> (decided[cards[i].agent] = "approve")

\* Every draft of an agent that answered in time reaches the user or is sent,
\* in single and parallel dispatch.
NoDraftIsLost ==
  stage \in {"offered", "effects"} /\ mode # "chain" =>
    \A a \in Agents :
      ResultOf(a).status = "needs_approval" =>
        sent[a] = 1 \/ \E i \in 1..Len(cards) : cards[i].agent = a

\* No draft goes out twice, by itself and by a decision or by two decisions,
\* whichever cards the indices of the decisions lead to (coordinator.ts:79-88).
DispatchedOnce == \A a \in Agents : sent[a] <= 1

\* What the agents drafted and what the user decided agree: no draft passes the
\* review by or goes out twice, and the review is obeyed (coordinator.ts:80).
DraftsMeetTheirReview == NoDraftIsLost /\ ReviewIsObeyed /\ DispatchedOnce

\* Once the user has decided, the execution ends.
DecisionsEnd == stage = "executing" ~> stage = "closed"

\* "No content is posted without your approval."
NothingSentUnasked ==
  \A a \in Agents : sent[a] > 0 => a \in auto \/ decided[a] = "approve"
================================================================================
