---------------------------- MODULE ApprovalProofs ----------------------------
(***************************************************************************)
(* Theorems about ApprovalManager, for any sets of requests and handlers   *)
(* and any number of crashes and failing statements, about the phone's     *)
(* approval screens, and about the events that the agents exchange, for    *)
(* any finite sets of processes and attendees.                             *)
(***************************************************************************)
EXTENDS TLAPS, FiniteSetTheorems, ApprovalManager, ApprovalScreen, Agents

\* What a pass over the Map leaves behind: only ids of the Map are in flight.
LEMMA NextUpsertSends ==
  ASSUME TypeOK, NEW h \in Handlers, NEW mem \in SUBSET Approvals,
         NEW done \in SUBSET Approvals, NextUpsert(h, mem, done)
  PROVE  /\ visited' \in [Handlers -> SUBSET Approvals]
         /\ sent' \in [Handlers -> Approvals \cup {None}]
         /\ \A k \in Handlers : k # h => sent'[k] = sent[k]
         /\ sent'[h] \in mem \cup {None}
BY DEF NextUpsert, TypeOK

\* The inductive invariant is preserved by every step.
LEMMA SendInvStep == SendInv /\ [Next]_vars => SendInv'
<1> SUFFICES ASSUME SendInv, [Next]_vars PROVE SendInv'
  OBVIOUS
<1> USE ApprovalAssumption
        DEF SendInv, TypeOK, JobsHaveRequests, OnlyDrawnIds, UnspentSends,
            Statuses, Places, Verdicts, memVars, opVars, histVars
<1>1. ASSUME NEW h \in Handlers, CreateReturns(h) PROVE SendInv'
  BY <1>1 DEF CreateReturns, Goto
<1>2. ASSUME NEW h \in Handlers, Announce(h) PROVE SendInv'
  BY <1>2 DEF Announce, Goto
<1>3. ASSUME NEW h \in Handlers, ExecuteReturns(h) PROVE SendInv'
  BY <1>3 DEF ExecuteReturns, Goto
<1>4. ASSUME NEW h \in Handlers, MarkReply(h) PROVE SendInv'
  <2>1. /\ visited' \in [Handlers -> SUBSET Approvals]
        /\ sent' \in [Handlers -> Approvals \cup {None}]
        /\ \A k \in Handlers : k # h => sent'[k] = sent[k]
        /\ sent'[h] \in pending \cup {None}
    <3>1. NextUpsert(h, pending, {})
      BY <1>4 DEF MarkReply
    <3>2. QED
      BY <3>1, NextUpsertSends
  <2>2. TypeOK'
    <3>1. row' \in [Approvals -> Statuses] /\ faults' \in Nat
      BY <1>4 DEF MarkReply, Fault
    <3>2. closed' \subseteq Approvals
      BY <1>4 DEF MarkReply
    <3>3. pc' \in [Handlers -> Places] /\ job' \in [Handlers -> Approvals \cup {None}]
      BY <1>4 DEF MarkReply, Goto
    <3>4. UNCHANGED <<memVars, announced, verdict, sends, restarts>>
      BY <1>4 DEF MarkReply
    <3>5. QED
      BY <2>1, <3>1, <3>2, <3>3, <3>4
  <2>3. OnlyDrawnIds'
    BY <1>4, <2>1 DEF MarkReply, Goto, Fault
  <2>4. JobsHaveRequests' /\ UnspentSends'
    BY <1>4 DEF MarkReply, Goto
  <2>5. QED
    BY <2>2, <2>3, <2>4
<1>5. ASSUME NEW h \in Handlers, UpsertReply(h) PROVE SendInv'
  <2>1. /\ visited' \in [Handlers -> SUBSET Approvals]
        /\ sent' \in [Handlers -> Approvals \cup {None}]
        /\ \A k \in Handlers : k # h => sent'[k] = sent[k]
        /\ sent'[h] \in pending \cup {None}
    <3>1. NextUpsert(h, pending, visited[h] \cup {sent[h]}) /\ sent[h] # None
      BY <1>5 DEF UpsertReply
    <3>2. visited[h] \cup {sent[h]} \in SUBSET Approvals
      BY <3>1
    <3>3. QED
      BY <3>1, <3>2, NextUpsertSends
  <2>2. TypeOK'
    BY <1>5, <2>1 DEF UpsertReply, Fault
  <2>3. OnlyDrawnIds'
    BY <1>5, <2>1 DEF UpsertReply, Fault
  <2>4. JobsHaveRequests' /\ UnspentSends'
    BY <1>5 DEF UpsertReply
  <2>5. QED
    BY <2>2, <2>3, <2>4
<1>6. ASSUME NEW h \in Handlers, PersistReturns(h) PROVE SendInv'
  BY <1>6 DEF PersistReturns, Goto
<1>7. ASSUME NEW h \in Handlers, NEW a \in Approvals, Create(h, a) PROVE SendInv'
  <2>1. /\ visited' \in [Handlers -> SUBSET Approvals]
        /\ sent' \in [Handlers -> Approvals \cup {None}]
        /\ \A k \in Handlers : k # h => sent'[k] = sent[k]
        /\ sent'[h] \in (pending \cup {a}) \cup {None}
    <3>1. NextUpsert(h, pending \cup {a}, {})
      BY <1>7 DEF Create
    <3>2. pending \cup {a} \in SUBSET Approvals
      OBVIOUS
    <3>3. QED
      BY <3>1, <3>2, NextUpsertSends
  <2>2. TypeOK' /\ JobsHaveRequests'
    BY <1>7, <2>1 DEF Create, Goto
  <2>3. OnlyDrawnIds'
    BY <1>7, <2>1 DEF Create, Goto
  <2>4. UnspentSends'
    BY <1>7 DEF Create
  <2>5. QED
    BY <2>2, <2>3, <2>4
<1>8. ASSUME NEW h \in Handlers, NEW a \in Approvals, ExpiryTimer(h, a)
      PROVE SendInv'
  <2>1. /\ visited' \in [Handlers -> SUBSET Approvals]
        /\ sent' \in [Handlers -> Approvals \cup {None}]
        /\ \A k \in Handlers : k # h => sent'[k] = sent[k]
        /\ sent'[h] \in (pending \ {a}) \cup {None}
    <3>1. NextUpsert(h, pending \ {a}, {})
      BY <1>8 DEF ExpiryTimer, Cleanup
    <3>2. pending \ {a} \in SUBSET Approvals
      OBVIOUS
    <3>3. QED
      BY <3>1, <3>2, NextUpsertSends
  <2>2. TypeOK' /\ JobsHaveRequests'
    BY <1>8, <2>1 DEF ExpiryTimer, Cleanup, Goto
  <2>3. OnlyDrawnIds'
    BY <1>8, <2>1 DEF ExpiryTimer, Cleanup, Goto
  <2>4. UnspentSends'
    BY <1>8 DEF ExpiryTimer, Cleanup
  <2>5. QED
    BY <2>2, <2>3, <2>4
<1>9. ASSUME NEW h \in Handlers, NEW a \in Approvals, NEW v \in Verdicts,
             Respond(h, a, v)
      PROVE SendInv'
  BY <1>9 DEF Respond, Cleanup, Goto
<1>10. ASSUME NEW a \in Approvals, RespondUnknown(a) PROVE SendInv'
  BY <1>10 DEF RespondUnknown, vars
<1>11. ASSUME NEW a \in Approvals, RespondExpired(a) PROVE SendInv'
  BY <1>11 DEF RespondExpired, Cleanup
<1>12. ASSUME NEW a \in Approvals, Elapse(a) PROVE SendInv'
  BY <1>12 DEF Elapse
<1>13. CASE Crash
  <2>1. TypeOK' /\ JobsHaveRequests'
    <3>0. restarts' \in Nat
      BY <1>13 DEF Crash
    <3>1. up' \in BOOLEAN
      BY <1>13 DEF Crash
    <3>2. pc' \in [Handlers -> Places] /\ job' \in [Handlers -> Approvals \cup {None}]
      BY <1>13 DEF Crash
    <3>3. /\ visited' \in [Handlers -> SUBSET Approvals]
          /\ sent' \in [Handlers -> Approvals \cup {None}]
      BY <1>13 DEF Crash
    <3>4. \A h \in Handlers : pc'[h] = "idle"
      BY <1>13 DEF Crash
    <3>5. UNCHANGED <<created, elapsed, row, histVars, faults>> /\ pending' = {} /\ timers' = {}
      BY <1>13 DEF Crash
    <3>6. QED
      BY <3>0, <3>1, <3>2, <3>3, <3>4, <3>5
  <2>2. OnlyDrawnIds'
    BY <1>13 DEF Crash
  <2>3. UnspentSends'
    BY <1>13 DEF Crash
  <2>4. QED
    BY <2>1, <2>2, <2>3
<1>14. CASE LoadFromDb
  <2>1. TypeOK' /\ JobsHaveRequests'
    BY <1>14 DEF LoadFromDb, Fault
  <2>2. OnlyDrawnIds'
    BY <1>14 DEF LoadFromDb, Fault
  <2>3. UnspentSends'
    BY <1>14 DEF LoadFromDb
  <2>4. QED
    BY <2>1, <2>2, <2>3
<1>15. CASE UNCHANGED vars
  BY <1>15 DEF vars
<1>16. QED
  BY <1>1, <1>2, <1>3, <1>4, <1>5, <1>6, <1>7, <1>8, <1>9, <1>10, <1>11,
     <1>12, <1>13, <1>14, <1>15 DEF Next

LEMMA SendInvInit == Init => SendInv
<1>1. Init => TypeOK
  <2> SUFFICES ASSUME Init PROVE TypeOK
    OBVIOUS
  <2>1. up \in BOOLEAN
    BY DEF Init
  <2>2. /\ pending \subseteq Approvals /\ timers \subseteq Approvals
        /\ created \subseteq Approvals /\ elapsed \subseteq Approvals
        /\ announced \subseteq Approvals /\ closed \subseteq Approvals
    BY DEF Init
  <2>3. /\ row \in [Approvals -> Statuses]
        /\ verdict \in [Approvals -> Verdicts \cup {"none"}]
    BY DEF Init, Statuses, Verdicts
  <2>4. /\ pc \in [Handlers -> Places]
        /\ job \in [Handlers -> Approvals \cup {None}]
        /\ visited \in [Handlers -> SUBSET Approvals]
        /\ sent \in [Handlers -> Approvals \cup {None}]
    BY DEF Init, Places
  <2>5. sends \in [Approvals -> Nat] /\ restarts \in Nat /\ faults \in Nat
    BY DEF Init
  <2>6. QED
    BY <2>1, <2>2, <2>3, <2>4, <2>5 DEF TypeOK
<1>2. Init => JobsHaveRequests /\ OnlyDrawnIds
  BY DEF Init, JobsHaveRequests, OnlyDrawnIds
<1>3. Init => UnspentSends
  <2>1. Init => restarts = 0
    BY DEF Init
  <2>2. Init => \A a \in Approvals : sends[a] = 0
    BY DEF Init
  <2>3. QED
    BY <2>1, <2>2 DEF UnspentSends
<1>4. QED
  BY <1>1, <1>2, <1>3 DEF SendInv

LEMMA SendInvHolds == Spec => []SendInv
BY SendInvInit, SendInvStep, PTL DEF Spec

\* The variables of every reachable state have their types.
THEOREM TypeCorrect == Spec => []TypeOK
<1>1. SendInv => TypeOK
  BY DEF SendInv
<1>2. QED
  BY <1>1, SendInvHolds, PTL

\* A request answered or expired does not come back while the process lives.
THEOREM NoReopen == Spec => NoReopenWhileUp
<1>1. ASSUME SendInv, [Next]_vars PROVE [up /\ up' => (pending' \ pending) \cap created = {}]_vars
  <2>1. CASE \E h \in Handlers, a \in Approvals : Create(h, a)
    BY <2>1 DEF Create
  <2>2. CASE LoadFromDb \/ Crash
    BY <2>2 DEF LoadFromDb, Crash
  <2>3. CASE pending' \subseteq pending
    BY <2>3
  <2>4. pending' \subseteq pending \/ UNCHANGED pending \/ LoadFromDb \/ Crash
          \/ \E h \in Handlers, a \in Approvals : Create(h, a)
    BY <1>1 DEF Next, CreateReturns, Announce, RespondUnknown, RespondExpired, Respond,
         ExecuteReturns, MarkReply, UpsertReply, PersistReturns, Elapse, ExpiryTimer, Cleanup,
         vars, memVars
  <2>5. QED
    BY <2>1, <2>2, <2>3, <2>4
<1>2. QED
  BY <1>1, SendInvHolds, PTL DEF Spec, NoReopenWhileUp

\* processApprovalResponse sends the approved items of a request at most once
\* for each start of the process, whatever the phone retries.
THEOREM SentOnce == Spec => []SentOncePerStart
<1>1. SendInv => SentOncePerStart
  BY DEF SendInv, UnspentSends, SentOncePerStart
<1>2. QED
  BY <1>1, SendInvHolds, PTL

(***************************************************************************)
(* The manager implements the gate.  The invariant is needed at a crash    *)
(* and at the reload: only requests that were drawn can come back.         *)
(***************************************************************************)
LEMMA GateInit == Init => Gate!Init
BY DEF Init, Gate!Init, gateOf

LEMMA GateStep == SendInv /\ [Next]_vars => [Gate!Next]_(Gate!vars)
<1> SUFFICES ASSUME SendInv, [Next]_vars PROVE [Gate!Next]_(Gate!vars)
  OBVIOUS
<1> USE DEF SendInv, memVars, histVars, opVars
<1>0. ASSUME UNCHANGED <<up, pending, created, sends, restarts>>
      PROVE UNCHANGED Gate!vars
  BY <1>0 DEF Gate!vars, gateOf
<1>1. ASSUME NEW h \in Handlers, \/ CreateReturns(h) \/ Announce(h)
             \/ ExecuteReturns(h) \/ MarkReply(h) \/ UpsertReply(h) \/ PersistReturns(h)
      PROVE UNCHANGED Gate!vars
  BY <1>0, <1>1 DEF CreateReturns, Announce, ExecuteReturns, MarkReply, UpsertReply, PersistReturns
<1>2. ASSUME NEW a \in Approvals, RespondUnknown(a) \/ Elapse(a)
      PROVE UNCHANGED Gate!vars
  BY <1>0, <1>2 DEF RespondUnknown, Elapse, vars
<1>3. ASSUME NEW h \in Handlers, NEW a \in Approvals, Create(h, a) PROVE Gate!Open(a)
  <2>1. up /\ a \notin created /\ a \notin pending
    BY <1>3 DEF Create, OnlyDrawnIds
  <2>2. pending' = pending \cup {a} /\ created' = created \cup {a}
    BY <1>3 DEF Create
  <2>3. UNCHANGED <<up, sends, restarts>>
    BY <1>3 DEF Create
  <2>4. gateOf[a] = "new" /\ gateOf' = [gateOf EXCEPT ![a] = "open"]
    BY <2>1, <2>2 DEF gateOf
  <2>5. QED
    BY <2>1, <2>3, <2>4 DEF Gate!Open
<1>4. ASSUME NEW a \in Approvals, up, a \in pending, Cleanup(a),
             UNCHANGED <<up, created, restarts>>
      PROVE /\ gateOf[a] = "open"
            /\ gateOf' = [gateOf EXCEPT ![a] = "spent"]
  BY <1>4 DEF Cleanup, gateOf, OnlyDrawnIds, TypeOK
<1>5. ASSUME NEW a \in Approvals, RespondExpired(a) PROVE Gate!Spend(a)
  <2>1. up /\ a \in pending /\ Cleanup(a) /\ UNCHANGED <<up, created, sends, restarts>>
    BY <1>5 DEF RespondExpired
  <2>2. QED
    BY <1>4, <2>1 DEF Gate!Spend
<1>6. ASSUME NEW h \in Handlers, NEW a \in Approvals, ExpiryTimer(h, a)
      PROVE Gate!Spend(a) \/ UNCHANGED Gate!vars
  <2>1. Cleanup(a) /\ UNCHANGED <<up, created, sends, restarts>>
    BY <1>6 DEF ExpiryTimer
  <2>2. CASE a \in pending
    <3>1. up
      BY <2>2 DEF OnlyDrawnIds
    <3>2. QED
      BY <1>4, <2>1, <2>2, <3>1 DEF Gate!Spend
  <2>3. CASE a \notin pending
    <3>1. pending' = pending
      BY <2>1, <2>3 DEF Cleanup
    <3>2. QED
      BY <1>0, <2>1, <3>1
  <2>4. QED
    BY <2>2, <2>3
<1>7. ASSUME NEW h \in Handlers, NEW a \in Approvals, NEW v \in Verdicts, Respond(h, a, v)
      PROVE Gate!Spend(a) \/ Gate!Send(a)
  <2>1. up /\ a \in pending /\ Cleanup(a) /\ UNCHANGED <<up, created, restarts>>
    BY <1>7 DEF Respond
  <2>2. CASE v = "approve"
    <3>1. sends' = [sends EXCEPT ![a] = @ + 1]
      BY <1>7, <2>2 DEF Respond
    <3>2. QED
      BY <1>4, <2>1, <3>1 DEF Gate!Send
  <2>3. CASE v # "approve"
    <3>1. UNCHANGED sends
      BY <1>7, <2>3 DEF Respond, TypeOK
    <3>2. QED
      BY <1>4, <2>1, <3>1 DEF Gate!Spend
  <2>4. QED
    BY <2>2, <2>3
<1>8. CASE Crash
  <2>1. /\ up /\ up' = FALSE /\ pending' = {}
        /\ UNCHANGED <<created, sends>>
    BY <1>8 DEF Crash
  <2>2. restarts' = restarts + 1
    BY <1>8 DEF Crash
  <2>3. gateOf' = [a \in Approvals |-> IF gateOf[a] = "open" THEN "spent" ELSE gateOf[a]]
    BY <2>1 DEF gateOf, OnlyDrawnIds
  <2>4. Gate!Die
    BY <2>1, <2>2, <2>3 DEF Gate!Die
  <2>5. QED
    BY <2>4 DEF Gate!Next
<1>9. CASE LoadFromDb
  <2>1. ~up /\ up' = TRUE /\ UNCHANGED <<created, sends, restarts>> /\ pending = {}
    BY <1>9 DEF LoadFromDb, OnlyDrawnIds
  <2>2. pending' \subseteq created /\ pending' \subseteq Approvals
    BY <1>9, <2>1 DEF LoadFromDb, OnlyDrawnIds, TypeOK
  <2>3. pending' \in SUBSET {a \in Approvals : gateOf[a] = "spent"}
    BY <2>1, <2>2 DEF gateOf
  <2>4. gateOf' = [a \in Approvals |-> IF a \in pending' THEN "open" ELSE gateOf[a]]
    BY <2>1 DEF gateOf
  <2>5. Gate!Start
    BY <2>1, <2>3, <2>4 DEF Gate!Start
  <2>6. QED
    BY <2>5 DEF Gate!Next
<1>10. CASE UNCHANGED vars
  BY <1>0, <1>10 DEF vars
<1>11. QED
  BY <1>1, <1>2, <1>3, <1>5, <1>6, <1>7, <1>8, <1>9, <1>10 DEF Next, Gate!Next

\* Seen from outside, the manager only opens, spends, sends and restarts as
\* the gate allows.
THEOREM Implements == Spec => ImplementsGate
BY GateInit, GateStep, SendInvHolds, PTL DEF Spec, ImplementsGate, Gate!Spec

(***************************************************************************)
(* The approval screens.  In every deck - the one of the store, the one    *)
(* drawn when the alert came up, those on their way to the gateway - a     *)
(* decision to send is the swipe of the item it stands at, or one of       *)
(* another approval.                                                       *)
(***************************************************************************)
ScreenSpec == ScreenInit /\ [][ScreenNext]_screenVars

SwipesInPlace(id, decisions) ==
  \A k \in DOMAIN decisions :
    decisions[k] # NotSent => decisions[k] = <<id, k>> \/ decisions[k][1] # id
IsDeck(d) == d \in [id : {d.id}, decisions : {d.decisions}, index : {d.index}]
SoundDeck(d) == IsDeck(d) /\ SwipesInPlace(d.id, d.decisions)
ScreenInv ==
  /\ SoundDeck(deck)
  /\ \A w \in waiting : w = <<w[1], w[2]>>
  /\ \A k \in skip : SoundDeck(k[2])
  /\ \A post \in posting : SwipesInPlace(post.id, post.decisions)
  /\ ExecutedWasSwiped

LEMMA EmptyIsSound == SoundDeck(Empty) /\ \A id : SoundDeck(SetCarousel(id))
BY DEF SoundDeck, IsDeck, SwipesInPlace, Empty, SetCarousel, NoDecisions

LEMMA RecordIsSound ==
  ASSUME NEW d, SoundDeck(d), NEW item, NEW decision,
         decision = NotSent \/ decision = <<d.id, item>> \/ decision[1] # d.id
  PROVE  SoundDeck(Advance(RecordDecision(d, item, decision)))
<1> DEFINE map == Over([k \in {item} |-> decision], d.decisions)
           e == RecordDecision(d, item, decision)
<1>1. SwipesInPlace(d.id, map)
  BY DEF SoundDeck, SwipesInPlace, Over
<1>2. e \in [id : {d.id}, decisions : {map}, index : {d.index}]
  <2> HIDE DEF map
  <2> QED BY DEF RecordDecision, SoundDeck, IsDeck, map
<1> HIDE DEF map, e
<1>3. Advance(e) \in [id : {d.id}, decisions : {map},
                      index : {IF e.index > Size(e.id) THEN e.index ELSE e.index + 1}]
  BY <1>2 DEF Advance
<1> QED BY <1>1, <1>3 DEF SoundDeck, IsDeck, e

LEMMA CancelIsSound ==
  ASSUME NEW d, SoundDeck(d), NEW index, NEW id
  PROVE  SoundDeck(CancelFrom(d, index, id)) /\ CancelFrom(d, index, id).id = d.id
<1> DEFINE map == Over([k \in index..Size(id) |-> NotSent], d.decisions)
<1>1. SwipesInPlace(d.id, map)
  BY DEF SoundDeck, SwipesInPlace, Over
<1> HIDE DEF map
<1>2. CancelFrom(d, index, id) \in [id : {d.id}, decisions : {map}, index : {d.index}]
  BY DEF CancelFrom, SoundDeck, IsDeck, map
<1> QED BY <1>1, <1>2 DEF SoundDeck, IsDeck

LEMMA SubmitIsSound ==
  ASSUME NEW nr, NEW d, SoundDeck(d), NEW post \in Submit(nr, d)
  PROVE  SwipesInPlace(post.id, post.decisions)
BY DEF Submit, SoundDeck

LEMMA CompletedIsSound ==
  ASSUME NEW d, SoundDeck(d), NEW post \in Completed(d)
  PROVE  SwipesInPlace(post.id, post.decisions)
BY SubmitIsSound DEF Completed

LEMMA CommitIsSound ==
  ASSUME ScreenInv, NEW d, SoundDeck(d), Commit(d),
         waiting' \subseteq waiting, UNCHANGED <<skip, executed>>
  PROVE  ScreenInv'
BY CompletedIsSound DEF ScreenInv, Commit, ExecutedWasSwiped

\* A step that decides nothing.
LEMMA NothingDecided ==
  ASSUME ScreenInv, SoundDeck(deck'), waiting' \subseteq waiting, skip' \subseteq skip,
         posting' \subseteq posting, UNCHANGED executed
  PROVE  ScreenInv'
BY DEF ScreenInv, ExecutedWasSwiped

LEMMA ScreenStart == ScreenInit => ScreenInv
BY EmptyIsSound DEF ScreenInit, ScreenInv, ExecutedWasSwiped

LEMMA ScreenStep == ScreenInv /\ [ScreenNext]_screenVars => ScreenInv'
<1> SUFFICES ASSUME ScreenInv, [ScreenNext]_screenVars PROVE ScreenInv'
  OBVIOUS
<1>d. SoundDeck(deck)
  BY DEF ScreenInv
<1>1. CASE \/ \E id \in Decks : Ask(id, "document") \/ Ask(id, "item") \/ ItemApproved(id)
           \/ \E id \in Decks : PushScreen(id) \/ CarouselTimer(id)
           \/ \E a \in asked : AskFails(a)
           \/ LastItemGoes \/ PressReview
           \/ PromptRefused \/ HandleEdit \/ CancelEdit \/ KeepRemaining
           \/ \E post \in posting : SubmitFails(post)
           \/ UNCHANGED screenVars
  <2>1. UNCHANGED <<deck, executed>> /\ waiting' \subseteq waiting /\ skip' \subseteq skip
        /\ posting' \subseteq posting
    BY <1>1 DEF Ask, ItemApproved, PushScreen, CarouselTimer, AskFails, LastItemGoes, PressReview,
      PromptRefused, HandleEdit, CancelEdit, KeepRemaining, SubmitFails, screenVars
  <2>2. SoundDeck(deck')
    BY <1>d, <2>1
  <2> QED BY <2>1, <2>2, NothingDecided
<1>2. CASE Close \/ ShowNext \/ \E i \in DOMAIN stack : Fetched(i)
  <2>1. \/ deck' = Empty
        \/ \E i \in DOMAIN stack : deck' = SetCarousel(stack[i].id)
    BY <1>2 DEF Close, GoBack, ShowNext, Fetched
  <2>2. UNCHANGED <<waiting, skip, posting, executed>>
    BY <1>2 DEF Close, ShowNext, Fetched
  <2>3. SoundDeck(deck')
    BY <2>1, EmptyIsSound
  <2> QED BY <2>2, <2>3, NothingDecided
<1>3. CASE SwipeRight
  BY <1>3 DEF SwipeRight, ScreenInv, ExecutedWasSwiped
<1>4. CASE HandleApprove
  <2>1. PICK w \in waiting : Commit(Advance(RecordDecision(deck, ItemOf(w), w)))
    BY <1>4 DEF HandleApprove
  <2>2. w = <<w[1], w[2]>>
    BY DEF ScreenInv
  <2>3. w = <<deck.id, ItemOf(w)>> \/ w[1] # deck.id
    BY <2>2 DEF ItemOf
  <2>4. SoundDeck(Advance(RecordDecision(deck, ItemOf(w), w)))
    BY <1>d, <2>3, RecordIsSound
  <2>5. waiting' \subseteq waiting /\ UNCHANGED <<skip, executed>>
    BY <1>4 DEF HandleApprove
  <2> QED BY <2>1, <2>4, <2>5, CommitIsSound
<1>5. CASE HandleReject
  <2>1. SoundDeck(Advance(RecordDecision(deck, deck.index, NotSent)))
    BY <1>d, RecordIsSound
  <2> QED BY <1>5, <2>1, CommitIsSound DEF HandleReject
<1>6. CASE HandleEditSave
  <2>1. SoundDeck(Advance(RecordDecision(deck, Top.edit, NotSent)))
    BY <1>d, RecordIsSound
  <2> QED BY <1>6, <2>1, CommitIsSound DEF HandleEditSave
<1>7. CASE HandleSkipAll
  BY <1>7, <1>d DEF HandleSkipAll, ScreenInv, ExecutedWasSwiped
<1>8. CASE CancelRemaining
  <2>1. PICK k \in skip :
          /\ deck' = CancelFrom(deck, k[2].index, k[2].id)
          /\ posting' = posting \cup Completed(CancelFrom(deck, k[2].index, k[2].id))
                          \cup Submit(k[1], CancelFrom(k[2], k[2].index, k[2].id))
    BY <1>8 DEF CancelRemaining
  <2>2. SoundDeck(k[2])
    BY DEF ScreenInv
  <2> DEFINE kept == CancelFrom(deck, k[2].index, k[2].id)
             rest == CancelFrom(k[2], k[2].index, k[2].id)
  <2>3. SoundDeck(kept) /\ SoundDeck(rest)
    BY <1>d, <2>2, CancelIsSound
  <2>4. deck' = kept /\ posting' = posting \cup Completed(kept) \cup Submit(k[1], rest)
    BY <2>1
  <2>5. skip' = {} /\ UNCHANGED <<waiting, executed>>
    BY <1>8 DEF CancelRemaining
  <2> HIDE DEF kept, rest
  <2>6. \A post \in posting' : SwipesInPlace(post.id, post.decisions)
    BY <2>3, <2>4, CompletedIsSound, SubmitIsSound DEF ScreenInv
  <2> QED BY <2>3, <2>4, <2>5, <2>6 DEF ScreenInv, ExecutedWasSwiped
<1>9. ASSUME NEW post \in posting, Submitted(post) PROVE ScreenInv'
  <2>1. executed' \subseteq executed \cup ToExecute(post)
    BY <1>9 DEF Submitted, PostApproval
  <2>2. SwipesInPlace(post.id, post.decisions)
    BY DEF ScreenInv
  <2>3. \A e \in ToExecute(post) : e.card = e.item \/ e.card[1] # e.item[1]
    BY <2>2 DEF ToExecute, SwipesInPlace
  <2>4. ExecutedWasSwiped'
    BY <2>1, <2>3 DEF ScreenInv, ExecutedWasSwiped
  <2> QED BY <1>9, <1>d, <2>4 DEF Submitted, ScreenInv
<1> QED BY <1>1, <1>2, <1>3, <1>4, <1>5, <1>6, <1>7, <1>8, <1>9 DEF ScreenNext

\* The gateway executes an item only if the user swiped its own card, or a card of
\* another approval whose prompt was up when this deck replaced its own.
THEOREM OnlySwipedItemsGoOut == ScreenSpec => []ExecutedWasSwiped
<1>1. ScreenInv => ExecutedWasSwiped
  BY DEF ScreenInv
<1> QED BY <1>1, ScreenStart, ScreenStep, PTL DEF ScreenSpec

(***************************************************************************)
(* The agents' events. Those of a type that are on their way, counted:     *)
(* each handler takes one off, and what it sends, to each process, is of a *)
(* type that comes later.                                                  *)
(***************************************************************************)
AgentsSpec == AgentsInit /\ [][AgentsNext]_agentVars

\* The events of a type on their way, each with the process it is on its way to.
Signup == "open_house.signup"
Created == "contact.created"
On(boxes, type) ==
  {p \in AgentHosts \X UNION {boxes[h] : h \in AgentHosts} :
     p[2] \in boxes[p[1]] /\ p[2].type = type}
HostCount == Cardinality(AgentHosts)

EventsType ==
  /\ DOMAIN box = AgentHosts /\ searches \in Nat /\ attended \in Nat
  /\ \A type \in {Signup, Created} : IsFiniteSet(On(box, type))
\* What an event may go back to: nothing, or a sign-in if it tells of a new contact.
ShortCauses ==
  \A h \in AgentHosts : \A e \in box[h] :
    e.causes = {} \/ (e.type = Created /\ e.causes = {Signup})
\* A sign-in on its way may become one search in each process, a new contact one.
SearchBudget ==
  searches + Cardinality(On(box, Signup)) * HostCount + Cardinality(On(box, Created))
    <= attended * HostCount * HostCount
EventsInv == EventsType /\ ShortCauses /\ SearchBudget

\* What is on its way is with a process, which is a host of the agents.
LEMMA OnMeans ==
  ASSUME NEW boxes, NEW type
  PROVE  /\ \A p \in On(boxes, type) :
              /\ p = <<p[1], p[2]>> /\ p[1] \in AgentHosts
              /\ p[2] \in boxes[p[1]] /\ p[2].type = type
         /\ \A h \in AgentHosts : \A e \in boxes[h] : e.type = type => <<h, e>> \in On(boxes, type)
BY DEF On

\* The processes are finitely many.
LEMMA HostsCounted == IsFiniteSet(AgentHosts) /\ HostCount \in Nat
BY AgentsAssumption, FS_CardinalityType DEF HostCount

\* Fewer events: fewer on their way.
LEMMA OnFewer ==
  ASSUME NEW boxes, NEW less, NEW type, IsFiniteSet(On(boxes, type)),
         \A h \in AgentHosts : \A e \in less[h] : e.type = type => e \in boxes[h]
  PROVE  /\ IsFiniteSet(On(less, type)) /\ Cardinality(On(less, type)) \in Nat
         /\ Cardinality(On(boxes, type)) \in Nat
         /\ Cardinality(On(less, type)) <= Cardinality(On(boxes, type))
<1>1. \A p \in On(less, type) : p \in On(boxes, type)
  BY OnMeans
<1>2. On(less, type) \in SUBSET On(boxes, type)
  BY <1>1
<1>3. QED
  BY <1>2, FS_Subset, FS_CardinalityType

\* One that is taken is on its way no longer.
LEMMA OnTaken ==
  ASSUME NEW boxes, NEW less, NEW type, IsFiniteSet(On(boxes, type)),
         \A h \in AgentHosts : less[h] \subseteq boxes[h],
         NEW g \in AgentHosts, NEW e \in boxes[g], e \notin less[g], e.type = type
  PROVE  /\ IsFiniteSet(On(less, type)) /\ Cardinality(On(less, type)) \in Nat
         /\ Cardinality(On(boxes, type)) \in Nat
         /\ Cardinality(On(less, type)) <= Cardinality(On(boxes, type)) - 1
<1>1. \A p \in On(less, type) : p \in On(boxes, type) /\ p # <<g, e>>
  BY OnMeans
<1>2. On(less, type) \in SUBSET (On(boxes, type) \ {<<g, e>>})
  BY <1>1
<1>3. <<g, e>> \in On(boxes, type)
  BY OnMeans
<1>4. /\ IsFiniteSet(On(boxes, type) \ {<<g, e>>})
      /\ Cardinality(On(boxes, type) \ {<<g, e>>}) = Cardinality(On(boxes, type)) - 1
  BY <1>3, FS_RemoveElement
<1>5. QED
  BY <1>2, <1>4, FS_Subset, FS_CardinalityType

\* Events that are published are on their way to each process at most once.
LEMMA OnPublished ==
  ASSUME NEW boxes, NEW more, NEW type, NEW es, IsFiniteSet(On(boxes, type)), IsFiniteSet(es),
         \A h \in AgentHosts : more[h] \subseteq boxes[h] \cup es
  PROVE  /\ IsFiniteSet(On(more, type)) /\ Cardinality(On(more, type)) \in Nat
         /\ Cardinality(On(boxes, type)) \in Nat /\ Cardinality(es) \in Nat
         /\ Cardinality(On(more, type)) <= Cardinality(On(boxes, type)) + HostCount * Cardinality(es)
<1>1. \A p \in On(more, type) : p \in On(boxes, type) \/ p \in AgentHosts \X es
  BY OnMeans
<1>2. On(more, type) \in SUBSET (On(boxes, type) \cup (AgentHosts \X es))
  BY <1>1
<1>3. /\ IsFiniteSet(AgentHosts \X es)
      /\ Cardinality(AgentHosts \X es) = HostCount * Cardinality(es)
  BY HostsCounted, FS_Product DEF HostCount
<1>4. /\ IsFiniteSet(On(boxes, type) \cup (AgentHosts \X es))
      /\ Cardinality(On(boxes, type) \cup (AgentHosts \X es))
           = Cardinality(On(boxes, type)) + Cardinality(AgentHosts \X es)
              - Cardinality(On(boxes, type) \cap (AgentHosts \X es))
  BY <1>3, FS_Union
<1>5. /\ Cardinality(On(boxes, type)) \in Nat /\ Cardinality(es) \in Nat
      /\ Cardinality(AgentHosts \X es) \in Nat
      /\ Cardinality(On(boxes, type) \cap (AgentHosts \X es)) \in Nat
  <2>1. IsFiniteSet(On(boxes, type) \cap (AgentHosts \X es))
    BY FS_Intersection
  <2>2. QED
    BY <1>3, <2>1, FS_CardinalityType
<1>6. /\ IsFiniteSet(On(more, type)) /\ Cardinality(On(more, type)) \in Nat
      /\ Cardinality(On(more, type)) <= Cardinality(On(boxes, type) \cup (AgentHosts \X es))
  BY <1>2, <1>4, FS_Subset, FS_CardinalityType
<1>7. QED
  BY <1>3, <1>4, <1>5, <1>6

\* Products by the same number keep their order.
LEMMA TimesMonotone ==
  ASSUME NEW m \in Nat, NEW n \in Nat, NEW k \in Nat, m <= n
  PROVE  m * k <= n * k /\ m * k \in Nat /\ n * k \in Nat
OBVIOUS

\* A step that adds no sign-in and no new contact, and starts no search.
LEMMA FewerStep ==
  ASSUME EventsInv, DOMAIN box' = AgentHosts, UNCHANGED <<searches, attended>>,
         \A h \in AgentHosts : \A e \in box'[h] :
           e \in box[h] \/ (e.causes = {} /\ e.type \notin {Signup, Created})
  PROVE  EventsInv'
<1>1. ASSUME NEW type \in {Signup, Created}
      PROVE  /\ IsFiniteSet(On(box', type)) /\ Cardinality(On(box', type)) \in Nat
             /\ Cardinality(On(box, type)) \in Nat
             /\ Cardinality(On(box', type)) <= Cardinality(On(box, type))
  <2>1. IsFiniteSet(On(box, type))
    BY DEF EventsInv, EventsType
  <2>2. \A h \in AgentHosts : \A e \in box'[h] : e.type = type => e \in box[h]
    OBVIOUS
  <2>3. QED
    BY <2>1, <2>2, OnFewer
<1>2. EventsType'
  BY <1>1 DEF EventsInv, EventsType
<1>3. ShortCauses'
  BY DEF EventsInv, ShortCauses
<1>4. SearchBudget'
  <2>1. Cardinality(On(box', Signup)) * HostCount <= Cardinality(On(box, Signup)) * HostCount
    BY <1>1, HostsCounted, TimesMonotone
  <2>2. /\ Cardinality(On(box', Signup)) * HostCount \in Nat
        /\ Cardinality(On(box, Signup)) * HostCount \in Nat
    BY <1>1, HostsCounted, TimesMonotone
  <2>3. searches + Cardinality(On(box, Signup)) * HostCount + Cardinality(On(box, Created))
          <= attended * HostCount * HostCount
    BY DEF EventsInv, SearchBudget
  <2>4. searches \in Nat /\ attended * HostCount * HostCount \in Nat
    BY HostsCounted, TimesMonotone DEF EventsInv, EventsType
  <2> HIDE DEF HostCount
  <2>5. searches + Cardinality(On(box', Signup)) * HostCount + Cardinality(On(box', Created))
          <= attended * HostCount * HostCount
    <3>1. /\ Cardinality(On(box', Created)) <= Cardinality(On(box, Created))
          /\ Cardinality(On(box', Created)) \in Nat /\ Cardinality(On(box, Created)) \in Nat
      BY <1>1
    <3>2. \A a, b, c, d, s, t \in Nat : a <= b /\ c <= d /\ s + b + d <= t => s + a + c <= t
      OBVIOUS
    <3>3. QED
      BY <2>1, <2>2, <2>3, <2>4, <3>1, <3>2
  <2>6. QED
    BY <2>5 DEF SearchBudget
<1>5. QED
  BY <1>2, <1>3, <1>4 DEF EventsInv

\* An event of another type is published, or lost.
LEMMA OtherEventStep ==
  ASSUME EventsInv, NEW e, e.causes = {}, e.type \notin {Signup, Created}, Emit({e}),
         UNCHANGED <<searches, attended>>
  PROVE  EventsInv'
<1>1. DOMAIN box' = AgentHosts
  BY DEF Emit, EmitTo, Publish, PublishLost, Carry, EventsInv, EventsType
<1>2. \A h \in AgentHosts : box'[h] \subseteq box[h] \cup {e}
  BY DEF Emit, EmitTo, Publish, PublishLost, Carry
<1>3. QED
  BY <1>1, <1>2, FewerStep

\* The sign-ins of a list are published, or lost, and counted.
LEMMA SignupsStep ==
  ASSUME EventsInv, NEW guests \in SUBSET Attendees,
         Emit({EventOf("open_house.signup", p, {}) : p \in guests}),
         attended' = attended + Cardinality(guests), UNCHANGED searches
  PROVE  EventsInv'
<1> DEFINE es == {EventOf("open_house.signup", p, {}) : p \in guests}
<1>1. IsFiniteSet(guests) /\ Cardinality(guests) \in Nat
  BY AgentsAssumption, FS_Subset, FS_CardinalityType
<1>2. IsFiniteSet(es) /\ Cardinality(es) \in Nat /\ Cardinality(es) <= Cardinality(guests)
  <2> DEFINE f == [p \in guests |-> EventOf("open_house.signup", p, {})]
  <2>1. f \in Surjection(guests, es)
    BY DEF Surjection
  <2>2. QED
    BY <1>1, <2>1, FS_Surjection, FS_CardinalityType
<1>3. \A e \in es : e.type = Signup /\ e.causes = {}
  BY DEF EventOf, Signup
<1>4. DOMAIN box' = AgentHosts /\ \A h \in AgentHosts : box'[h] \subseteq box[h] \cup es
  <2>1. Emit(es)
    OBVIOUS
  <2> HIDE DEF es
  <2>2. QED
    BY <2>1 DEF Emit, EmitTo, Publish, PublishLost, Carry, EventsInv, EventsType
<1> HIDE DEF es
<1>5. /\ IsFiniteSet(On(box', Signup)) /\ Cardinality(On(box', Signup)) \in Nat
      /\ Cardinality(On(box, Signup)) \in Nat
      /\ Cardinality(On(box', Signup)) <= Cardinality(On(box, Signup)) + HostCount * Cardinality(es)
  BY <1>2, <1>4, OnPublished DEF EventsInv, EventsType
<1>6. /\ IsFiniteSet(On(box', Created)) /\ Cardinality(On(box', Created)) \in Nat
      /\ Cardinality(On(box, Created)) \in Nat
      /\ Cardinality(On(box', Created)) <= Cardinality(On(box, Created))
  <2>1. \A h \in AgentHosts : \A e \in box'[h] : e.type = Created => e \in box[h]
    BY <1>3, <1>4 DEF Signup, Created
  <2>2. IsFiniteSet(On(box, Created))
    BY DEF EventsInv, EventsType
  <2>3. QED
    BY <2>1, <2>2, OnFewer
<1>7. EventsType'
  BY <1>1, <1>4, <1>5, <1>6 DEF EventsInv, EventsType
<1>8. ShortCauses'
  BY <1>3, <1>4 DEF EventsInv, ShortCauses
<1>9. SearchBudget'
  <2>1. searches + Cardinality(On(box, Signup)) * HostCount + Cardinality(On(box, Created))
          <= attended * HostCount * HostCount
    BY DEF EventsInv, SearchBudget
  <2>2. HostCount \in Nat /\ searches \in Nat /\ attended \in Nat
    BY HostsCounted DEF EventsInv, EventsType
  <2> HIDE DEF HostCount
  <2>3. \A a, b, c, d, s, t, h, m, n \in Nat :
          s + b * h + d <= t * h * h /\ a <= b + h * m /\ m <= n /\ c <= d
            => s + a * h + c <= (t + n) * h * h
    <3> SUFFICES ASSUME NEW a \in Nat, NEW b \in Nat, NEW c \in Nat, NEW d \in Nat, NEW s \in Nat,
                        NEW t \in Nat, NEW h \in Nat, NEW m \in Nat, NEW n \in Nat,
                        s + b * h + d <= t * h * h, a <= b + h * m, m <= n, c <= d
                 PROVE  s + a * h + c <= (t + n) * h * h
      OBVIOUS
    <3>1. a * h <= (b + h * m) * h
      BY TimesMonotone
    <3>2. m * (h * h) <= n * (h * h)
      BY TimesMonotone
    <3>3. (b + h * m) * h = b * h + m * (h * h) /\ (t + n) * h * h = t * h * h + n * (h * h)
      OBVIOUS
    <3>4. QED
      BY <3>1, <3>2, <3>3
  <2>4. searches + Cardinality(On(box', Signup)) * HostCount + Cardinality(On(box', Created))
          <= (attended + Cardinality(guests)) * HostCount * HostCount
    BY <1>1, <1>2, <1>5, <1>6, <2>1, <2>2, <2>3
  <2>5. QED
    BY <2>4 DEF SearchBudget
<1>10. QED
  BY <1>7, <1>8, <1>9 DEF EventsInv

\* What an agent does with any event that reaches its process keeps the bound.
LEMMA MessageStep ==
  ASSUME EventsInv, NEW h \in AgentHosts, NEW e \in box[h], OnMessage(h, e)
  PROVE  EventsInv'
<1> DEFINE boxes == [box EXCEPT ![h] = @ \ {e}]
<1>1. /\ DOMAIN boxes = AgentHosts /\ e \notin boxes[h]
      /\ \A g \in AgentHosts : boxes[g] \subseteq box[g]
  BY DEF EventsInv, EventsType
<1>2. attended' = attended
  BY DEF OnMessage
<1>3. searches' = searches \/ (e.type = Created /\ searches' = searches + 1)
  BY DEF OnMessage, ShowingsEvent, Created
<1>4. \/ box' = boxes
      \/ e.type = Signup /\ Publish(boxes, ProcessSignup(e))
  <2>1. ASSUME RelationshipEvent(e, boxes)
        PROVE  box' = boxes \/ (e.type = Signup /\ Publish(boxes, ProcessSignup(e)))
    <3> HIDE DEF boxes
    <3>1. QED
      BY <2>1 DEF RelationshipEvent, EmitTo, PublishLost, Signup
  <2>2. RelationshipEvent(e, boxes) \/ box' = boxes
    BY Zenon DEF OnMessage
  <2>3. QED
    BY <2>1, <2>2
<1> HIDE DEF boxes
<1>5. ASSUME NEW type \in {Signup, Created}
      PROVE  /\ IsFiniteSet(On(boxes, type)) /\ Cardinality(On(boxes, type)) \in Nat
             /\ Cardinality(On(box, type)) \in Nat
             /\ Cardinality(On(boxes, type)) <= Cardinality(On(box, type))
             /\ e.type = type => Cardinality(On(boxes, type)) <= Cardinality(On(box, type)) - 1
  <2>1. IsFiniteSet(On(box, type))
    BY DEF EventsInv, EventsType
  <2>2. \A g \in AgentHosts : \A x \in boxes[g] : x.type = type => x \in box[g]
    BY <1>1
  <2>3. QED
    BY <1>1, <2>1, <2>2, OnFewer, OnTaken
<1>6. /\ HostCount \in Nat /\ searches \in Nat /\ attended \in Nat
      /\ searches + Cardinality(On(box, Signup)) * HostCount + Cardinality(On(box, Created))
          <= attended * HostCount * HostCount
  BY HostsCounted DEF EventsInv, EventsType, SearchBudget
<1>7. CASE box' = boxes
  <2>1. EventsType' /\ ShortCauses'
    BY <1>1, <1>2, <1>3, <1>5, <1>6, <1>7 DEF EventsInv, EventsType, ShortCauses
  <2>2. Cardinality(On(boxes, Signup)) * HostCount <= Cardinality(On(box, Signup)) * HostCount
    BY <1>5, <1>6, TimesMonotone
  <2>3. /\ Cardinality(On(boxes, Signup)) * HostCount \in Nat
        /\ Cardinality(On(box, Signup)) * HostCount \in Nat
        /\ attended * HostCount * HostCount \in Nat
    BY <1>5, <1>6, TimesMonotone
  <2>4. /\ Cardinality(On(boxes, Created)) \in Nat /\ Cardinality(On(box, Created)) \in Nat
        /\ searches' - searches + Cardinality(On(boxes, Created)) <= Cardinality(On(box, Created))
        /\ searches' \in Nat
    BY <1>3, <1>5, <1>6
  <2> HIDE DEF HostCount
  <2>5. \A a, b, c, d, s, r, t \in Nat : a <= b /\ r - s + c <= d /\ s + b + d <= t => r + a + c <= t
    OBVIOUS
  <2>6. searches' + Cardinality(On(boxes, Signup)) * HostCount + Cardinality(On(boxes, Created))
          <= attended * HostCount * HostCount
    BY <1>6, <2>2, <2>3, <2>4, <2>5
  <2>7. SearchBudget'
    BY <1>2, <1>7, <2>6 DEF SearchBudget
  <2>8. QED
    BY <2>1, <2>7 DEF EventsInv
<1>8. CASE e.type = Signup /\ Publish(boxes, ProcessSignup(e))
  <2> DEFINE told == EventOf("contact.created", e.who, e.causes \cup {e.type})
  <2>1. e.causes = {}
    BY <1>8 DEF EventsInv, ShortCauses, Signup, Created
  <2>2. told.type = Created /\ told.causes = {Signup}
    BY <1>8, <2>1 DEF EventOf, Created
  <2>3. ProcessSignup(e) = {told}
    BY DEF ProcessSignup
  <2> HIDE DEF told
  <2>4. DOMAIN box' = AgentHosts /\ \A g \in AgentHosts : box'[g] \subseteq boxes[g] \cup {told}
    BY <1>8, <2>3 DEF Publish, Carry
  <2>5. searches' = searches
    BY <1>3, <1>8 DEF Signup, Created
  <2>6. /\ IsFiniteSet(On(box', Signup)) /\ Cardinality(On(box', Signup)) \in Nat
        /\ Cardinality(On(box', Signup)) <= Cardinality(On(boxes, Signup))
    <3>1. \A g \in AgentHosts : \A x \in box'[g] : x.type = Signup => x \in boxes[g]
      BY <2>2, <2>4 DEF Signup, Created
    <3>2. QED
      BY <1>5, <3>1, OnFewer
  <2>7. /\ IsFiniteSet(On(box', Created)) /\ Cardinality(On(box', Created)) \in Nat
        /\ Cardinality(On(box', Created)) <= Cardinality(On(boxes, Created)) + HostCount * 1
    <3>1. IsFiniteSet({told}) /\ Cardinality({told}) = 1
      BY FS_Singleton
    <3>2. IsFiniteSet(On(boxes, Created))
      BY <1>5
    <3>3. QED
      BY <2>4, <3>1, <3>2, OnPublished
  <2>8. EventsType' /\ ShortCauses'
    <3>1. ShortCauses'
      BY <1>1, <2>2, <2>4 DEF EventsInv, ShortCauses
    <3>2. QED
      BY <1>2, <1>6, <2>4, <2>5, <2>6, <2>7, <3>1 DEF EventsType
  <2> HIDE DEF HostCount
  <2>9. \A a, b, c, d, s, t, k \in Nat :
          s + b * k + d <= t /\ a <= b - 1 /\ c <= d + k * 1 => s + a * k + c <= t
    <3> SUFFICES ASSUME NEW a \in Nat, NEW b \in Nat, NEW c \in Nat, NEW d \in Nat, NEW s \in Nat,
                        NEW t \in Nat, NEW k \in Nat,
                        s + b * k + d <= t, a <= b - 1, c <= d + k * 1
                 PROVE  s + a * k + c <= t
      OBVIOUS
    <3>1. (a + 1) * k <= b * k
      BY TimesMonotone
    <3>2. (a + 1) * k = a * k + k
      OBVIOUS
    <3>3. a * k \in Nat /\ b * k \in Nat
      BY TimesMonotone
    <3>4. QED
      BY <3>1, <3>2, <3>3
  <2>10. searches + Cardinality(On(box', Signup)) * HostCount + Cardinality(On(box', Created))
          <= attended * HostCount * HostCount
    <3>1. Cardinality(On(box', Signup)) <= Cardinality(On(box, Signup)) - 1
      BY <1>5, <1>8, <2>6
    <3>2. Cardinality(On(box', Created)) <= Cardinality(On(box, Created)) + HostCount * 1
      BY <1>5, <1>6, <2>7
    <3>3. attended * HostCount * HostCount \in Nat
      BY <1>6
    <3>4. Cardinality(On(box, Signup)) \in Nat /\ Cardinality(On(box, Created)) \in Nat
      BY <1>5
    <3>5. QED
      BY <1>6, <2>6, <2>7, <2>9, <3>1, <3>2, <3>3, <3>4
  <2>11. SearchBudget'
    BY <1>2, <2>5, <2>10 DEF SearchBudget
  <2>12. QED
    BY <2>8, <2>11 DEF EventsInv
<1>9. QED
  BY <1>4, <1>7, <1>8

\* So does every step of the agents.
LEMMA AgentsStep == EventsInv /\ [AgentsNext]_agentVars => EventsInv'
<1> SUFFICES ASSUME EventsInv, [AgentsNext]_agentVars PROVE EventsInv'
  OBVIOUS
<1>1. DOMAIN box = AgentHosts
  BY DEF EventsInv, EventsType
<1>2. CASE UNCHANGED <<box, searches, attended>>
  BY <1>1, <1>2, FewerStep
<1>3. ASSUME NEW h \in AgentHosts,
             Wake(h) \/ OpsTask(h) \/ KnowledgeTask(h) \/ ContentTask(h) \/ ComplianceTask(h)
      PROVE  EventsInv'
  <2>1. UNCHANGED <<box, searches, attended>>
    BY <1>3 DEF Wake, OpsTask, KnowledgeTask, ContentTask, ComplianceTask, Task, KeepEvents, Answers
  <2>2. QED
    BY <1>2, <2>1
<1>4. ASSUME NEW h \in AgentHosts, Sleep(h) PROVE EventsInv'
  <2>1. box' = [box EXCEPT ![h] = {}] /\ UNCHANGED <<searches, attended>>
    BY <1>4 DEF Sleep
  <2>2. DOMAIN box' = AgentHosts /\ \A g \in AgentHosts : box'[g] \subseteq box[g]
    BY <1>1, <2>1
  <2>3. QED
    BY <2>1, <2>2, FewerStep
<1>5. ASSUME NEW h \in AgentHosts,
             ResearchTask(h) \/ CalendarTask(h) \/ TransactionTask(h) \/ RelationshipTask(h)
      PROVE  EventsInv'
  <2>1. UNCHANGED <<searches, attended>>
    BY <1>5 DEF ResearchTask, CalendarTask, TransactionTask, RelationshipTask, Task
  <2>2. \/ UNCHANGED box
        \/ \E type \in {"listing.status_change", "calendar.event_added", "transaction.milestone",
                        "transaction.closed", "contact.updated"} :
             \E who : Emit({EventOf(type, who, {})})
    <3>1. ResearchTask(h) =>
            UNCHANGED box \/ Emit({EventOf("listing.status_change", NoContact, {})})
      BY DEF ResearchTask, KeepEvents
    <3>2. CalendarTask(h) =>
            UNCHANGED box \/ Emit({EventOf("calendar.event_added", NoContact, {})})
      BY DEF CalendarTask, KeepEvents
    <3>3. TransactionTask(h) =>
            \/ Emit({EventOf("transaction.milestone", NoContact, {})})
            \/ Emit({EventOf("transaction.closed", NoContact, {})})
      BY DEF TransactionTask
    <3>4. RelationshipTask(h) =>
            UNCHANGED box \/ \E p \in Attendees : Emit({EventOf("contact.updated", p, {})})
      BY DEF RelationshipTask, UpdateContactTask, KeepEvents
    <3>5. QED
      BY <1>5, <3>1, <3>2, <3>3, <3>4
  <2>3. CASE UNCHANGED box
    BY <1>2, <2>1, <2>3
  <2>4. ASSUME NEW type \in {"listing.status_change", "calendar.event_added",
                             "transaction.milestone", "transaction.closed", "contact.updated"},
               NEW who, Emit({EventOf(type, who, {})})
        PROVE  EventsInv'
    <3> DEFINE e == EventOf(type, who, {})
    <3>1. e.type \notin {Signup, Created} /\ e.causes = {}
      BY DEF EventOf, Signup, Created
    <3>2. Emit({e})
      BY <2>4
    <3> HIDE DEF e
    <3>3. QED
      BY <2>1, <3>1, <3>2, OtherEventStep
  <2>5. QED
    BY <2>2, <2>3, <2>4
<1>6. ASSUME NEW h \in AgentHosts, OpenHouseTask(h) PROVE EventsInv'
  <2>1. PICK guests \in SUBSET Attendees \ {{}} :
          /\ Emit({EventOf("open_house.signup", p, {}) : p \in guests})
          /\ attended' = attended + Cardinality(guests)
    BY <1>6 DEF OpenHouseTask
  <2>2. UNCHANGED searches
    BY <1>6 DEF OpenHouseTask, Task
  <2>3. QED
    BY <2>1, <2>2, SignupsStep
<1>7. ASSUME NEW h \in AgentHosts, NEW e \in box[h], OnMessage(h, e) PROVE EventsInv'
  BY <1>7, MessageStep
<1>8. CASE UNCHANGED agentVars
  BY <1>2, <1>8 DEF agentVars
<1>9. QED
  BY <1>3, <1>4, <1>5, <1>6, <1>7, <1>8 DEF AgentsNext

\* No event is on its way at the start.
LEMMA AgentsStart == AgentsInit => EventsInv
<1> SUFFICES ASSUME AgentsInit PROVE EventsInv
  OBVIOUS
<1>1. box = [h \in AgentHosts |-> {}] /\ searches = 0 /\ attended = 0
  BY DEF AgentsInit
<1>2. \A type : On(box, type) = {}
  BY <1>1 DEF On
<1>3. EventsType /\ ShortCauses
  BY <1>1, <1>2, FS_EmptySet DEF EventsType, ShortCauses
<1>4. Cardinality(On(box, Signup)) = 0 /\ Cardinality(On(box, Created)) = 0 /\ HostCount \in Nat
  BY <1>2, HostsCounted, FS_EmptySet
<1>5. SearchBudget
  BY <1>1, <1>4 DEF SearchBudget
<1>6. QED
  BY <1>3, <1>5 DEF EventsInv

\* Whatever the agents of however many processes do with an event, it comes to an end: no
\* event leads to one of its own type, and the searches that sign-ins start are bounded by
\* the pairs of processes (relationship.ts onEvent, showings-agent.ts onEvent).
THEOREM EventsEnd == AgentsSpec => []EventsDieOut
<1>1. EventsInv => EventsDieOut
  <2> SUFFICES ASSUME EventsInv PROVE EventsDieOut
    OBVIOUS
  <2>1. \A h \in AgentHosts : \A e \in box[h] : e.type \notin e.causes
    BY DEF EventsInv, ShortCauses, Signup, Created
  <2>2. searches <= attended * HostCount * HostCount
    <3>1. \A type \in {Signup, Created} : Cardinality(On(box, type)) \in Nat
      BY FS_CardinalityType DEF EventsInv, EventsType
    <3>2. /\ HostCount \in Nat /\ searches \in Nat /\ attended \in Nat
          /\ Cardinality(On(box, Signup)) * HostCount \in Nat
      BY <3>1, HostsCounted, TimesMonotone DEF EventsInv, EventsType
    <3>3. QED
      BY <3>1, <3>2 DEF EventsInv, SearchBudget
  <2>3. QED
    BY <2>1, <2>2 DEF EventsDieOut, HostCount
<1>2. QED
  BY <1>1, AgentsStart, AgentsStep, PTL DEF AgentsSpec
===============================================================================
