----------------------------- MODULE PhoneProofs ------------------------------
(***************************************************************************)
(* Theorems about what the phone keeps. OfflineQueue, for any number of    *)
(* messages, overlapping drains and kills, and any MAX_RETRY; Paywall, for *)
(* any number of overlapping loads; Inbox, for any number of contacts,     *)
(* texts, lists and threads, and any page size; Account, the session and   *)
(* the subscription behind it.                                             *)
(***************************************************************************)
EXTENDS TLAPS, FiniteSetTheorems, SequenceTheorems,
        OfflineQueue, Paywall, Inbox, Account

\* The retry counts, in the table and in the drains' snapshots, never exceed
\* the failures that really happened.
RetriesAreFailures ==
  /\ \A m \in Messages : retry[m] <= failed[m]
  /\ \A d \in Drains : \A item \in todo[d] : item.retry <= failed[item.msg]

\* A drain about to delete a row has had its message accepted.
RemovesAccepted ==
  \A d \in Drains :
    /\ dpc[d] \in {"remove", "bump"} => cur[d] \in Messages
    /\ dpc[d] = "remove" => accepted[cur[d]] > 0

QueueInv == TypeOK /\ RetriesAreFailures /\ RemovesAccepted /\ KeptUntilSent

\* The accepted count only grows, by the message that was posted.
LEMMA TakenCounts ==
  ASSUME TypeOK, NEW m \in Messages, NEW o \in Outcomes, Taken(m, o)
  PROVE  /\ accepted' \in [Messages -> Nat]
         /\ \A q \in Messages : accepted'[q] >= accepted[q]
         /\ o.taken => accepted'[m] > 0
BY DEF TypeOK, Taken, Outcomes

LEMMA QueueInvInit == Init => QueueInv
BY QueueAssumption
DEF Init, QueueInv, TypeOK, RetriesAreFailures, RemovesAccepted, KeptUntilSent

LEMMA ScreenStep ==
  ASSUME QueueInv, NEW m \in Messages, Tap(m) \/ Screen(m)
  PROVE  QueueInv'
<1> USE DEF QueueInv, TypeOK, RetriesAreFailures, RemovesAccepted, KeptUntilSent,
            sendVars, tableVars, drainVars
<1>1. CASE Tap(m)
  BY <1>1 DEF Tap
<1>2. CASE Saved(m)
  BY <1>2 DEF Saved
<1>3. CASE Enqueue(m)
  BY <1>3 DEF Enqueue
<1>4. CASE PostDirect(m)
  <2>1. PICK o \in Outcomes :
          /\ Taken(m, o)
          /\ told' = [told EXCEPT ![m] = IF o.ok THEN @ ELSE "failed"]
    BY <1>4 DEF PostDirect
  <2>2. /\ accepted' \in [Messages -> Nat]
        /\ \A q \in Messages : accepted'[q] >= accepted[q]
    BY <2>1, TakenCounts
  <2>3. TypeOK'
    <3>1. told' \in [Messages -> {"none", "sending", "queued", "failed"}]
      BY <2>1
    <3>2. sendPc' \in [Messages -> {"idle", "saving", "queueing", "posting", "ended"}]
      BY <1>4 DEF PostDirect
    <3>3. UNCHANGED <<up, shown, earlier, online, rows, retry, dpc, todo, cur, failed, kills>>
      BY <1>4 DEF PostDirect
    <3>4. kills' \in 0..MaxKills /\ failed' \in [Messages -> Nat]
      BY <3>3
    <3>5. /\ up' \in BOOLEAN /\ shown' \in BOOLEAN
          /\ earlier' \in [Messages -> SUBSET Messages]
          /\ online' \in [Messages -> BOOLEAN]
      BY <3>3
    <3>6. rows' \subseteq Messages /\ retry' \in [Messages -> Nat]
      BY <3>3
    <3>7. /\ dpc' \in [Drains -> {"idle", "reading", "next", "remove", "bump"}]
          /\ todo' \in [Drains -> SUBSET Items]
          /\ cur' \in [Drains -> Messages \union {NoMessage}]
      BY <3>3
    <3>8. QED
      BY <2>2, <3>1, <3>2, <3>4, <3>5, <3>6, <3>7
  <2>4. KeptUntilSent'
    <3>1. \A q \in Messages : told'[q] = "queued" => told[q] = "queued"
      BY <2>1
    <3>2. UNCHANGED <<rows, failed>>
      BY <1>4 DEF PostDirect
    <3>3. QED
      BY <2>2, <3>1, <3>2
  <2>5. QED
    BY <1>4, <2>2, <2>3, <2>4 DEF PostDirect
<1>5. QED
  BY <1>1, <1>2, <1>3, <1>4 DEF Screen

LEMMA DrainStep ==
  ASSUME QueueInv, NEW d \in Drains, Reconnect(d) \/ OpenScreen(d) \/ Drain(d)
  PROVE  QueueInv'
<1> USE DEF QueueInv, TypeOK, RetriesAreFailures, RemovesAccepted, KeptUntilSent,
            sendVars, tableVars, drainVars
<1>1. CASE Reconnect(d) \/ OpenScreen(d)
  BY <1>1 DEF Reconnect, OpenScreen, StartDrain
<1>2. CASE Read(d)
  <2>1. Snapshot \in SUBSET Items /\ \A item \in Snapshot : item.retry <= failed[item.msg]
    BY DEF Snapshot, Items
  <2>2. QED
    BY <1>2, <2>1 DEF Read
<1>3. CASE Leave(d)
  BY <1>3 DEF Leave
<1>4. CASE GiveUp(d)
  <2>1. PICK item \in todo[d] :
          Take(d, item) /\ Spent(item) /\ rows' = rows \ {item.msg}
    BY <1>4 DEF GiveUp
  <2>2. item.msg \in Messages /\ failed[item.msg] >= MaxRetry
    BY <2>1, QueueAssumption DEF Items, Spent
  <2>3. TypeOK' /\ RetriesAreFailures' /\ RemovesAccepted'
    BY <1>4, <2>1 DEF GiveUp, Take
  <2>4. KeptUntilSent'
    BY <1>4, <2>1, <2>2 DEF GiveUp
  <2>5. QED
    BY <2>3, <2>4
<1>5. CASE Post(d)
  <2>1. PICK item \in todo[d], o \in Outcomes :
          /\ Take(d, item)
          /\ Taken(item.msg, o)
          /\ cur' = [cur EXCEPT ![d] = item.msg]
          /\ dpc' = [dpc EXCEPT ![d] = AfterPost(o.ok)]
    BY <1>5 DEF Post
  <2>2. item.msg \in Messages
    BY <2>1 DEF Items
  <2>3. /\ accepted' \in [Messages -> Nat]
        /\ \A q \in Messages : accepted'[q] >= accepted[q]
        /\ o.taken => accepted'[item.msg] > 0
    BY <2>1, <2>2, TakenCounts
  <2>4. AfterPost(o.ok) \in {"remove", "bump"} /\ (AfterPost(o.ok) = "remove" => o.taken)
    BY DEF AfterPost, Outcomes
  <2>5. TypeOK'
    BY <1>5, <2>1, <2>2, <2>3, <2>4 DEF Post, Take
  <2>6. RetriesAreFailures'
    BY <1>5, <2>1 DEF Post, Take
  <2>7. RemovesAccepted'
    <3> SUFFICES ASSUME NEW e \in Drains, dpc'[e] \in {"remove", "bump"}
                 PROVE  cur'[e] \in Messages /\ (dpc'[e] = "remove" => accepted'[cur'[e]] > 0)
      OBVIOUS
    <3>1. CASE e = d
      BY <3>1, <2>1, <2>2, <2>3, <2>4
    <3>2. CASE e # d
      <4>1. dpc[e] = dpc'[e] /\ cur[e] = cur'[e]
        BY <3>2, <2>1
      <4>2. QED
        BY <4>1, <2>3
    <3>3. QED
      BY <3>1, <3>2
  <2>8. KeptUntilSent'
    BY <1>5, <2>3 DEF Post
  <2>9. QED
    BY <2>5, <2>6, <2>7, <2>8
<1>6. CASE RemoveFromQueue(d)
  BY <1>6 DEF RemoveFromQueue, GoOn
<1>7. CASE Bump(d)
  <2>1. cur[d] \in Messages
    BY <1>7 DEF Bump
  <2>2. TypeOK'
    BY <1>7, <2>1 DEF Bump, GoOn
  <2>3. \A m \in Messages : failed'[m] >= failed[m] /\ retry'[m] <= failed'[m]
    BY <1>7, <2>1 DEF Bump
  <2>4. RetriesAreFailures'
    <3>1. \A e \in Drains : \A item \in todo[e] : item.msg \in Messages /\ item.retry \in Nat
      BY DEF Items
    <3>2. QED
      BY <1>7, <2>2, <2>3, <3>1 DEF Bump
  <2>5. RemovesAccepted'
    BY <1>7 DEF Bump, GoOn
  <2>6. KeptUntilSent'
    BY <1>7, <2>2, <2>3, QueueAssumption DEF Bump
  <2>7. QED
    BY <2>2, <2>4, <2>5, <2>6
<1>8. QED
  BY <1>1, <1>2, <1>3, <1>4, <1>5, <1>6, <1>7 DEF Drain

LEMMA QueueInvStep == QueueInv /\ [Next]_vars => QueueInv'
<1> SUFFICES ASSUME QueueInv, [Next]_vars PROVE QueueInv'
  OBVIOUS
<1> USE DEF QueueInv, TypeOK, RetriesAreFailures, RemovesAccepted, KeptUntilSent,
            sendVars, tableVars, drainVars
<1>1. CASE \E m \in Messages : Tap(m) \/ Screen(m)
  BY <1>1, ScreenStep
<1>2. CASE \E d \in Drains : Reconnect(d) \/ OpenScreen(d) \/ Drain(d)
  BY <1>2, DrainStep
<1>3. CASE GoDown \/ ReconnectUnseen \/ OpenScreenOffline \/ LeaveScreen
  BY <1>3 DEF GoDown, ReconnectUnseen, OpenScreenOffline, LeaveScreen
<1>4. CASE Kill
  <2>1. sendPc' \in [Messages -> {"idle", "saving", "queueing", "posting", "ended"}]
    BY <1>4 DEF Kill
  <2>2. kills' \in 0..MaxKills
    BY <1>4, QueueAssumption DEF Kill
  <2>3. TypeOK'
    BY <1>4, <2>1, <2>2 DEF Kill
  <2>4. RetriesAreFailures' /\ RemovesAccepted'
    BY <1>4 DEF Kill
  <2>5. KeptUntilSent'
    BY <1>4 DEF Kill
  <2>6. QED
    BY <2>3, <2>4, <2>5
<1>5. CASE UNCHANGED vars
  BY <1>5 DEF vars
<1>6. QED
  BY <1>1, <1>2, <1>3, <1>4, <1>5 DEF Next

\* Every variable of the queue keeps its type.
THEOREM TypeCorrect == Spec => []TypeOK
<1>1. QueueInv => TypeOK
  BY DEF QueueInv
<1>2. QED
  BY <1>1, QueueInvInit, QueueInvStep, PTL DEF Spec

\* A queued message is in the table until the gateway has accepted it or
\* MAX_RETRY attempts have failed, however the drains overlap and whenever the
\* app is killed.
THEOREM NoQueuedMessageLost == Spec => []KeptUntilSent
<1>1. QueueInv => KeptUntilSent
  BY DEF QueueInv
<1>2. QED
  BY <1>1, QueueInvInit, QueueInvStep, PTL DEF Spec

-----------------------------------------------------------------------------
(* The paywall.                                                            *)

PaywallTypeOK ==
  /\ isProfessional \in BOOLEAN /\ verdicts \subseteq BOOLEAN
  /\ loads \in [Loads -> [at   : {"idle", "delayed", "asked", "answered", "checking"},
                          told : Plans \cup {"none"}]]
  /\ \A l \in Loads : loads[l].at = "answered" => loads[l].told # "none"

\* Loads whose answer has been taken and whose check is still to come.
Waits(l) == loads[l].at = "checking" /\ loads[l].told # "none"

\* Whatever the phone shows was said by a load that is done, or by one that has
\* taken its answer and is at its check.
ShownWasSaid ==
  \/ verdicts = {} /\ \A l \in Loads : ~Waits(l)
  \/ isProfessional
       /\ (TRUE \in verdicts \/ \E l \in Loads : Waits(l) /\ loads[l].told = "professional")
  \/ ~isProfessional
       /\ (FALSE \in verdicts \/ \E l \in Loads : Waits(l) /\ loads[l].told # "professional")

PaywallInv == PaywallTypeOK /\ ShownWasSaid

LEMMA PaywallInvInit == PaywallInit => PaywallInv
BY DEF PaywallInit, PaywallInv, PaywallTypeOK, ShownWasSaid, Waits, NotLoading, Standing

\* A step of loads that neither waited before nor wait after it.
LEMMA UnwaitingStep ==
  ASSUME PaywallInv, PaywallTypeOK', UNCHANGED <<isProfessional, verdicts>>,
         \A l \in Loads : (Waits(l) <=> Waits(l)') /\ (Waits(l) => UNCHANGED loads[l])
  PROVE  PaywallInv'
BY DEF PaywallInv, ShownWasSaid

LEMMA BeginStep ==
  ASSUME PaywallInv, NEW l \in Loads, loads[l].at \in {"idle", "delayed"}, Begin(l),
         UNCHANGED isProfessional
  PROVE  PaywallInv'
<1>1. loads' = [loads EXCEPT ![l] = [at |-> "asked", told |-> "none"]]
  BY DEF Begin, Moves, Standing
<1>2. PaywallTypeOK'
  BY <1>1 DEF PaywallInv, PaywallTypeOK, Begin
<1>3. \A k \in Loads : (Waits(k) <=> Waits(k)') /\ (Waits(k) => UNCHANGED loads[k])
  BY <1>1 DEF PaywallInv, PaywallTypeOK, Waits
<1>4. CASE Quiet
  <2>1. verdicts' = {} /\ \A k \in Loads : ~Waits(k)
    BY <1>4 DEF Begin, Quiet, Waits
  <2>2. QED
    BY <1>2, <1>3, <2>1 DEF PaywallInv, ShownWasSaid
<1>5. CASE ~Quiet
  <2>1. UNCHANGED verdicts
    BY <1>5 DEF Begin
  <2>2. QED
    BY <1>2, <1>3, <2>1, UnwaitingStep
<1>6. QED
  BY <1>4, <1>5

LEMMA SyncsStep ==
  ASSUME PaywallInv, NEW L \in SUBSET Spare, SyncsBegin(L),
         UNCHANGED <<isProfessional, verdicts>>
  PROVE  PaywallInv'
<1>1. loads' = [l \in Loads |-> IF l \in L THEN [at |-> "delayed", told |-> "none"] ELSE loads[l]]
  BY DEF SyncsBegin, Standing
<1>2. \A l \in L : l \in Loads /\ loads[l].at = "idle"
  BY DEF Spare
<1>3. PaywallTypeOK'
  BY <1>1 DEF PaywallInv, PaywallTypeOK
<1>4. \A k \in Loads : (Waits(k) <=> Waits(k)') /\ (Waits(k) => UNCHANGED loads[k])
  BY <1>1, <1>2 DEF PaywallInv, PaywallTypeOK, Waits
<1>5. QED
  BY <1>3, <1>4, UnwaitingStep

LEMMA AnswerStep ==
  ASSUME PaywallInv, NEW l \in Loads, GetSubscription(l) \/ TakeAnswer(l) \/ LoadFails(l)
  PROVE  PaywallInv'
<1> USE DEF Moves, Standing
<1>1. CASE GetSubscription(l)
  <2>1. PICK p \in Plans : loads' = [loads EXCEPT ![l] = [at |-> "answered", told |-> p]]
    BY <1>1 DEF GetSubscription
  <2>2. loads[l].at = "asked" /\ UNCHANGED <<isProfessional, verdicts>>
    BY <1>1 DEF GetSubscription
  <2>3. PaywallTypeOK'
    BY <2>1, <2>2 DEF PaywallInv, PaywallTypeOK, Plans
  <2>4. \A k \in Loads : (Waits(k) <=> Waits(k)') /\ (Waits(k) => UNCHANGED loads[k])
    BY <2>1, <2>2 DEF PaywallInv, PaywallTypeOK, Waits
  <2>5. QED
    BY <2>2, <2>3, <2>4, UnwaitingStep
<1>2. CASE TakeAnswer(l)
  <2>1. /\ loads[l].at = "answered"
        /\ loads' = [loads EXCEPT ![l] = [at |-> "checking", told |-> loads[l].told]]
        /\ isProfessional' = (loads[l].told = "professional") /\ UNCHANGED verdicts
    BY <1>2 DEF TakeAnswer, DeriveIsProfessional
  <2>2. PaywallTypeOK'
    BY <2>1 DEF PaywallInv, PaywallTypeOK
  <2>3. Waits(l)' /\ loads'[l].told = loads[l].told
    BY <2>1 DEF PaywallInv, PaywallTypeOK, Waits
  <2>4. QED
    BY <2>1, <2>2, <2>3 DEF PaywallInv, ShownWasSaid
<1>3. CASE LoadFails(l)
  <2>1. /\ loads[l].at \in {"asked", "answered"}
        /\ loads' = [loads EXCEPT ![l] = [at |-> "checking", told |-> "none"]]
        /\ UNCHANGED <<isProfessional, verdicts>>
    BY <1>3 DEF LoadFails
  <2>2. PaywallTypeOK'
    BY <2>1 DEF PaywallInv, PaywallTypeOK
  <2>3. \A k \in Loads : (Waits(k) <=> Waits(k)') /\ (Waits(k) => UNCHANGED loads[k])
    BY <2>1 DEF PaywallInv, PaywallTypeOK, Waits
  <2>4. QED
    BY <2>1, <2>2, <2>3, UnwaitingStep
<1>4. QED
  BY <1>1, <1>2, <1>3

LEMMA CheckStep ==
  ASSUME PaywallInv, NEW l \in Loads, CheckEntitlement(l)
  PROVE  PaywallInv'
<1>1. /\ loads[l].at = "checking"
      /\ loads' = [loads EXCEPT ![l] = [at |-> "idle", told |-> "none"]]
  BY DEF CheckEntitlement, Moves, NotLoading, Standing
<1>2. PICK entitledNow \in BOOLEAN :
        LET grants == entitledNow /\ ~DefinitivelyInactive(loads[l].told)
        IN /\ isProfessional' = (isProfessional \/ grants)
           /\ verdicts' = IF grants \/ loads[l].told # "none"
                          THEN verdicts \cup {Verdict(loads[l].told, entitledNow)} ELSE verdicts
  BY DEF CheckEntitlement, CustomerInfo
<1>3. PaywallTypeOK'
  <2>1. isProfessional' \in BOOLEAN
    BY <1>2 DEF PaywallInv, PaywallTypeOK, DefinitivelyInactive
  <2>2. verdicts' \subseteq BOOLEAN
    BY <1>2 DEF PaywallInv, PaywallTypeOK, Verdict
  <2>3. QED
    BY <1>1, <2>1, <2>2 DEF PaywallInv, PaywallTypeOK
<1>4. \A k \in Loads \ {l} : loads'[k] = loads[k]
  BY <1>1 DEF PaywallInv, PaywallTypeOK
<1>5. loads[l].told \in {"professional", "starter", "inactive", "none"}
  BY DEF PaywallInv, PaywallTypeOK, Plans
<1> DEFINE grants == entitledNow /\ loads[l].told # "inactive"
<1>6. /\ isProfessional' = (isProfessional \/ grants)
      /\ (grants \/ loads[l].told # "none") =>
            verdicts' = verdicts \cup {loads[l].told = "professional" \/ grants}
      /\ ~(grants \/ loads[l].told # "none") => verdicts' = verdicts
  BY <1>2 DEF DefinitivelyInactive, Verdict
<1>7. CASE grants
  <2>1. isProfessional' /\ TRUE \in verdicts'
    BY <1>6, <1>7
  <2>2. QED
    BY <1>3, <2>1 DEF PaywallInv, ShownWasSaid
<1>8. CASE ~grants /\ loads[l].told = "none"
  <2>1. UNCHANGED <<isProfessional, verdicts>>
    BY <1>6, <1>8 DEF PaywallInv, PaywallTypeOK
  <2>2. \A k \in Loads : (Waits(k) <=> Waits(k)') /\ (Waits(k) => UNCHANGED loads[k])
    BY <1>1, <1>4, <1>8 DEF Waits, PaywallInv, PaywallTypeOK
  <2>3. QED
    BY <1>3, <2>1, <2>2, UnwaitingStep
<1>9. CASE ~grants /\ loads[l].told # "none"
  <2>1. isProfessional' = isProfessional
    BY <1>6, <1>9 DEF PaywallInv, PaywallTypeOK
  <2>2. verdicts' = verdicts \cup {loads[l].told = "professional"}
    BY <1>6, <1>9
  <2>3. Waits(l)
    BY <1>1, <1>9 DEF Waits
  <2>4. \A k \in Loads \ {l} : Waits(k) => Waits(k)' /\ loads'[k].told = loads[k].told
    BY <1>4 DEF Waits
  <2>5. CASE isProfessional
    <3>1. TRUE \in verdicts' \/ \E k \in Loads : Waits(k)' /\ loads'[k].told = "professional"
      BY <2>2, <2>3, <2>4, <2>5 DEF PaywallInv, ShownWasSaid
    <3>2. QED
      BY <1>3, <2>1, <2>5, <3>1 DEF PaywallInv, ShownWasSaid
  <2>6. CASE ~isProfessional
    <3>1. FALSE \in verdicts' \/ \E k \in Loads : Waits(k)' /\ loads'[k].told # "professional"
      BY <2>2, <2>3, <2>4, <2>6 DEF PaywallInv, ShownWasSaid
    <3>2. QED
      BY <1>3, <2>1, <2>6, <3>1 DEF PaywallInv, ShownWasSaid
  <2>7. QED
    BY <2>5, <2>6
<1>10. QED
  BY <1>7, <1>8, <1>9

LEMMA PaywallInvNext == PaywallInv /\ [PaywallNext]_paywallVars => PaywallInv'
<1> SUFFICES ASSUME PaywallInv, [PaywallNext]_paywallVars PROVE PaywallInv'
  OBVIOUS
<1>1. ASSUME NEW l \in Loads, RootLayout(l) \/ SyncAfterPurchase(l) PROVE PaywallInv'
  <2>1. loads[l].at \in {"idle", "delayed"} /\ Begin(l) /\ UNCHANGED isProfessional
    BY <1>1 DEF RootLayout, SyncAfterPurchase, Spare
  <2>2. QED
    BY <2>1, BeginStep
<1>2. ASSUME NEW l \in Loads, GetSubscription(l) \/ TakeAnswer(l) \/ LoadFails(l) PROVE PaywallInv'
  BY <1>2, AnswerStep
<1>3. ASSUME NEW l \in Loads, CheckEntitlement(l) PROVE PaywallInv'
  BY <1>3, CheckStep
<1>4. CASE ListenersHear
  BY <1>4, SyncsStep DEF ListenersHear
<1>5. ASSUME NEW b \in Buttons, StoreCompletes(b) PROVE PaywallInv'
  BY <1>5, SyncsStep DEF StoreCompletes
<1>6. ASSUME UNCHANGED <<isProfessional, loads, verdicts>> PROVE PaywallInv'
  BY <1>6 DEF PaywallInv, PaywallTypeOK, ShownWasSaid, Waits
<1>7. ASSUME NEW b \in Buttons, Press(b) \/ StoreRefuses(b) PROVE PaywallInv'
  BY <1>6, <1>7 DEF Press, StoreRefuses
<1>8. CASE \/ EndOfSession \/ HandleCardPress \/ Upgrade \/ OnboardingPaywallStep
          \/ CloseSheet \/ UNCHANGED paywallVars
  BY <1>6, <1>8 DEF EndOfSession, HandleCardPress, Upgrade, OnboardingPaywallStep, ShowSheet,
                    CloseSheet, paywallVars
<1>9. CASE AppEnds
  BY <1>9 DEF AppEnds, PaywallInv, PaywallTypeOK, ShownWasSaid, Waits, NotLoading, Standing
<1>10. QED
  BY <1>1, <1>2, <1>3, <1>4, <1>5, <1>7, <1>8, <1>9 DEF PaywallNext

\* Once no load is under way, what the phone takes the plan to be is what one of
\* the loads since the last such moment came to on its own, for any number of
\* loads that overlap (subscription.ts:75).
THEOREM PlansAreNotMixed == PSpec => []PlanIsOneLoadsVerdict
<1>1. PaywallInv => PlanIsOneLoadsVerdict
  <2>1. PaywallInv /\ Quiet => \A l \in Loads : ~Waits(l)
    BY DEF Quiet, Waits
  <2>2. QED
    BY <2>1 DEF PaywallInv, ShownWasSaid, PlanIsOneLoadsVerdict, FeatureLocked, PaywallTypeOK
<1>2. QED
  BY <1>1, PaywallInvInit, PaywallInvNext, PTL DEF PSpec

-----------------------------------------------------------------------------
(* The inbox.                                                              *)

InboxTypeOK ==
  /\ stored \in [Persons -> SUBSET Arrivals]
  /\ unread \subseteq Arrivals /\ pushing \subseteq Arrivals
  /\ seen \subseteq Arrivals /\ slipped \subseteq Arrivals /\ muted \subseteq Persons
  /\ badge \in [Persons -> Nat]
  /\ listing \in [Lists -> [pc : {"idle", "answered"}, badges : [Persons -> Nat],
                            overtaken : SUBSET Persons]]
  /\ opening \in [Opens -> [pc : {"idle", "asked", "selected", "marked"},
                            of : Persons \cup {NoPerson}, rows : SUBSET Arrivals]]
  /\ \A o \in Opens : opening[o].pc # "idle" => opening[o].of \in Persons

\* A text is one contact's.
OneSender == \A p, q \in Persons : p # q => stored[p] \cap stored[q] = {}

\* What a GET is about to mark as read it has selected, or passed over.
MarksSelected ==
  \A o \in Opens : opening[o].pc = "selected" =>
    UnreadOf(opening[o].of) \subseteq opening[o].rows \cup slipped

Opened(p) == \E o \in Opens : opening[o].of = p /\ opening[o].pc \in {"asked", "selected"}
Arrived(p) == UnreadOf(p) \ pushing

\* An answer that is not yet set has a badge for what has arrived, or was overtaken.
ListsAnnounce ==
  \A l \in Lists : listing[l].pc = "answered" =>
    \A p \in Persons : Arrived(p) # {} =>
      listing[l].badges[p] > 0 \/ p \in listing[l].overtaken \/ Opened(p)

InboxInv ==
  /\ InboxTypeOK /\ OneSender /\ MarksSelected /\ ListsAnnounce
  /\ ReadWasShown /\ UnreadIsAnnounced

LEMMA InboxInvInit == InboxInit => InboxInv
<1> SUFFICES ASSUME InboxInit PROVE InboxInv
  OBVIOUS
<1>1. InboxTypeOK
  BY InboxAssumption DEF InboxInit, InboxTypeOK, NoList, NoThread
<1>2. OneSender /\ ReadWasShown
  BY DEF InboxInit, OneSender, ReadWasShown
<1>3. MarksSelected /\ ListsAnnounce
  BY DEF InboxInit, MarksSelected, ListsAnnounce, NoThread, NoList
<1>4. UnreadIsAnnounced
  BY DEF InboxInit, UnreadIsAnnounced, Announced, UnreadOf
<1>5. QED
  BY <1>1, <1>2, <1>3, <1>4 DEF InboxInv

\* What Overtake does to one list.
LEMMA Overtaken ==
  ASSUME InboxTypeOK, NEW P \in SUBSET Persons, listing' = Overtake(P)
  PROVE  /\ listing' \in [Lists -> [pc : {"idle", "answered"}, badges : [Persons -> Nat],
                                    overtaken : SUBSET Persons]]
         /\ \A l \in Lists :
              /\ listing'[l].pc = listing[l].pc /\ listing'[l].badges = listing[l].badges
              /\ listing'[l].pc = "answered" =>
                   listing'[l].overtaken = listing[l].overtaken \cup P
<1>1. \A l \in Lists : listing[l] \in [pc : {"idle", "answered"}, badges : [Persons -> Nat],
                                       overtaken : SUBSET Persons]
  BY DEF InboxTypeOK
<1>2. \A l \in Lists :
        /\ listing[l].pc = "answered" =>
             listing'[l] = [listing[l] EXCEPT !.overtaken = @ \cup P]
        /\ listing[l].pc # "answered" => listing'[l] = listing[l]
  BY DEF Overtake
<1>3. \A l \in Lists :
        /\ listing'[l] \in [pc : {"idle", "answered"}, badges : [Persons -> Nat],
                             overtaken : SUBSET Persons]
        /\ listing'[l].pc = listing[l].pc /\ listing'[l].badges = listing[l].badges
        /\ listing'[l].pc = "answered" =>
             listing'[l].overtaken = listing[l].overtaken \cup P
  <2> SUFFICES ASSUME NEW l \in Lists
               PROVE  /\ listing'[l] \in [pc : {"idle", "answered"}, badges : [Persons -> Nat],
                                           overtaken : SUBSET Persons]
                      /\ listing'[l].pc = listing[l].pc /\ listing'[l].badges = listing[l].badges
                      /\ listing'[l].pc = "answered" =>
                           listing'[l].overtaken = listing[l].overtaken \cup P
    OBVIOUS
  <2>1. CASE listing[l].pc = "answered"
    <3>1. /\ listing[l].badges \in [Persons -> Nat] /\ listing[l].overtaken \in SUBSET Persons
          /\ listing[l] = [pc |-> "answered", badges |-> listing[l].badges,
                           overtaken |-> listing[l].overtaken]
      BY <1>1, <2>1
    <3>2. listing'[l] = [pc |-> "answered", badges |-> listing[l].badges,
                         overtaken |-> listing[l].overtaken \cup P]
      BY <1>2, <2>1, <3>1
    <3>3. listing[l].overtaken \cup P \in SUBSET Persons
      BY <3>1
    <3>4. QED
      BY <2>1, <3>1, <3>2, <3>3
  <2>2. CASE listing[l].pc # "answered"
    BY <1>1, <1>2, <2>2
  <2>3. QED
    BY <2>1, <2>2
<1>4. listing' = [l \in Lists |-> listing'[l]]
  BY DEF Overtake
<1>5. QED
  BY <1>3, <1>4

\* The unread count of a contact is positive when a text is unread.
LEMMA UnreadCounted ==
  ASSUME InboxTypeOK, NEW p \in Persons
  PROVE  UnreadCount(p) \in Nat /\ (UnreadOf(p) # {} => UnreadCount(p) > 0)
<1>1. stored[p] \subseteq Arrivals /\ UnreadOf(p) \subseteq stored[p]
  BY DEF InboxTypeOK, UnreadOf
<1>2. IsFiniteSet(stored[p]) /\ IsFiniteSet(UnreadOf(p))
  BY <1>1, InboxAssumption, FS_Subset
<1>3. /\ Cardinality(stored[p]) \in Nat /\ Cardinality(UnreadOf(p)) \in Nat
      /\ UnreadOf(p) # {} => Cardinality(stored[p]) # 0 /\ Cardinality(UnreadOf(p)) # 0
  BY <1>1, <1>2, FS_CardinalityType, FS_EmptySet
<1> DEFINE m == Cardinality(stored[p])
           n == Cardinality(UnreadOf(p))
<1>4. \A i, j \in Nat : i * j \in Nat /\ (i # 0 /\ j # 0 => i * j > 0)
  OBVIOUS
<1>5. m * n \in Nat /\ (m # 0 /\ n # 0 => m * n > 0)
  BY <1>3, <1>4
<1>6. QED
  BY <1>3, <1>5 DEF UnreadCount

LEMMA InsertStep ==
  ASSUME InboxInv, NEW p \in Persons, NEW t \in Arrivals, InsertInbound(p, t)
  PROVE  InboxInv'
<1> USE DEF InboxInv
<1>1. /\ \A q \in Persons : t \notin stored[q]
      /\ stored' = [stored EXCEPT ![p] = @ \cup {t}]
      /\ unread' = unread \cup {t} /\ pushing' = pushing \cup {t}
      /\ UNCHANGED <<badge, listing, opening, seen, muted>>
  <2>1. t \in Nat /\ ~(t < t)
    BY InboxAssumption
  <2>2. ~ \E q \in Persons : t \in stored[q]
    BY <2>1 DEF InsertInbound
  <2>3. QED
    BY <2>2 DEF InsertInbound
<1>2. /\ slipped' \subseteq slipped \cup {t} /\ slipped \subseteq slipped'
      /\ \A o \in Opens : opening[o].pc = "selected" /\ opening[o].of = p => t \in slipped'
  BY DEF InsertInbound
<1>3. InboxTypeOK'
  BY <1>1, <1>2 DEF InboxTypeOK
<1>4. \A q \in Persons : /\ stored'[q] \subseteq stored[q] \cup {t}
                         /\ q # p => stored'[q] = stored[q]
  BY <1>1 DEF InboxTypeOK
<1>5. \A q \in Persons : /\ UnreadOf(q)' \subseteq UnreadOf(q) \cup {t}
                         /\ q # p => UnreadOf(q)' = UnreadOf(q)
                         /\ Arrived(q)' \subseteq Arrived(q)
  BY <1>1, <1>4 DEF UnreadOf, Arrived
<1>6. OneSender'
  BY <1>1, <1>4 DEF OneSender
<1>7. MarksSelected'
  <2> SUFFICES ASSUME NEW o \in Opens, opening'[o].pc = "selected"
               PROVE  (UnreadOf(opening[o].of) \subseteq opening[o].rows \cup slipped)'
    BY DEF MarksSelected
  <2>1. PICK q \in Persons : q = opening[o].of
    BY <1>1 DEF InboxTypeOK
  <2>2. UnreadOf(q) \subseteq opening[o].rows \cup slipped
    BY <1>1, <2>1 DEF MarksSelected
  <2>3. UnreadOf(q)' \subseteq opening'[o].rows \cup slipped'
    <3>1. CASE q = p
      BY <1>1, <1>2, <1>5, <2>1, <2>2, <3>1
    <3>2. CASE q # p
      BY <1>1, <1>2, <1>5, <2>2, <3>2
    <3>3. QED
      BY <3>1, <3>2
  <2>4. QED
    BY <1>1, <2>1, <2>3
<1>8. \A q \in Persons : Opened(q)' <=> Opened(q)
  BY <1>1 DEF Opened
<1>9. ListsAnnounce'
  BY <1>1, <1>5, <1>8 DEF ListsAnnounce
<1>10. UnreadIsAnnounced'
  BY <1>1, <1>5, <1>8 DEF UnreadIsAnnounced, Announced, Opened, Arrived
<1>11. ReadWasShown'
  BY <1>1, <1>2, <1>4 DEF ReadWasShown
<1>12. QED
  BY <1>3, <1>6, <1>7, <1>9, <1>10, <1>11

\* A push that arrives, or is lost: the text is no longer on its way.
LEMMA PushStep ==
  ASSUME InboxInv, NEW p \in Persons, NEW t \in Arrivals, SmsReceived(p, t) \/ PushLost(p, t)
  PROVE  InboxInv'
<1> USE DEF InboxInv
<1>1. /\ t \in stored[p] /\ pushing' = pushing \ {t} /\ listing' = Overtake({p})
      /\ UNCHANGED <<stored, unread, opening, slipped>>
  BY DEF SmsReceived, PushLost
<1>2. /\ badge' \in [Persons -> Nat] /\ seen \subseteq seen' /\ seen' \subseteq Arrivals
      /\ muted' \subseteq Persons
      /\ badge'[p] > 0 \/ p \in muted'
      /\ \A q \in Persons \ {p} : badge'[q] = badge[q] /\ (q \in muted <=> q \in muted')
  <2>1. CASE SmsReceived(p, t)
    BY <2>1 DEF SmsReceived, UpsertConversation, InboxTypeOK
  <2>2. CASE PushLost(p, t)
    BY <2>2 DEF PushLost, InboxTypeOK
  <2>3. QED
    BY <2>1, <2>2
<1>3. /\ listing' \in [Lists -> [pc : {"idle", "answered"}, badges : [Persons -> Nat],
                                 overtaken : SUBSET Persons]]
      /\ \A l \in Lists :
           /\ listing'[l].pc = listing[l].pc /\ listing'[l].badges = listing[l].badges
           /\ listing'[l].pc = "answered" =>
                listing'[l].overtaken = listing[l].overtaken \cup {p}
  BY <1>1, Overtaken
<1>4. InboxTypeOK'
  BY <1>1, <1>2, <1>3 DEF InboxTypeOK
<1>5. \A q \in Persons : UnreadOf(q)' = UnreadOf(q) /\ (Opened(q)' <=> Opened(q))
  BY <1>1 DEF UnreadOf, Opened
<1>6. \A q \in Persons \ {p} : Arrived(q)' \subseteq Arrived(q)
  BY <1>1 DEF OneSender, Arrived, UnreadOf
<1>7. OneSender' /\ MarksSelected' /\ ReadWasShown'
  BY <1>1, <1>2 DEF OneSender, MarksSelected, ReadWasShown, UnreadOf
<1>8. ListsAnnounce'
  BY <1>3, <1>5, <1>6 DEF ListsAnnounce
<1>9. UnreadIsAnnounced'
  <2> SUFFICES ASSUME NEW q \in Persons, Arrived(q)' # {}
               PROVE  badge'[q] > 0 \/ q \in muted' \/ Opened(q)'
    BY DEF UnreadIsAnnounced, Announced, Arrived, Opened
  <2>1. CASE q = p
    BY <1>2, <2>1
  <2>2. CASE q # p
    <3>1. badge[q] > 0 \/ q \in muted \/ Opened(q)
      BY <1>6, <2>2 DEF UnreadIsAnnounced, Announced, Arrived, Opened
    <3>2. QED
      BY <1>2, <1>5, <2>2, <3>1
  <2>3. QED
    BY <2>1, <2>2
<1>10. QED
  BY <1>4, <1>7, <1>8, <1>9

\* A list moves; the badges may be set.
LEMMA ListStep ==
  ASSUME InboxInv, NEW l \in Lists, ReadList(l) \/ SetConversations(l) \/ ListFails(l)
  PROVE  InboxInv'
<1> USE DEF InboxInv
<1>1. UNCHANGED <<stored, unread, pushing, opening, seen, slipped>>
  BY DEF ReadList, SetConversations, ListFails
<1>2. OneSender' /\ MarksSelected' /\ ReadWasShown'
  BY <1>1 DEF OneSender, MarksSelected, ReadWasShown, UnreadOf
<1>3. \A p \in Persons : UnreadOf(p)' = UnreadOf(p) /\ Arrived(p)' = Arrived(p)
                         /\ (Opened(p)' <=> Opened(p))
  BY <1>1 DEF UnreadOf, Arrived, Opened
<1>4. CASE ReadList(l)
  <2>1. [p \in Persons |-> UnreadCount(p)] \in [Persons -> Nat]
    BY UnreadCounted
  <2>2. listing' = [listing EXCEPT ![l] = [pc |-> "answered", overtaken |-> {},
                     badges |-> [p \in Persons |-> UnreadCount(p)]]]
    BY <1>4 DEF ReadList
  <2>3. UNCHANGED <<badge, muted>>
    BY <1>4 DEF ReadList
  <2>4. InboxTypeOK'
    BY <1>1, <2>1, <2>2, <2>3 DEF InboxTypeOK
  <2>5. \A p \in Persons : Arrived(p) # {} => listing'[l].badges[p] > 0
    <3>1. \A p \in Persons : Arrived(p) # {} => UnreadCount(p) > 0
      BY UnreadCounted DEF Arrived
    <3>2. listing'[l].badges = [p \in Persons |-> UnreadCount(p)]
      BY <2>2 DEF InboxTypeOK
    <3>3. QED
      BY <3>1, <3>2
  <2>6. \A k \in Lists \ {l} : listing'[k] = listing[k]
    BY <2>2 DEF InboxTypeOK
  <2>7. ListsAnnounce'
    BY <1>3, <2>5, <2>6 DEF ListsAnnounce
  <2>8. UnreadIsAnnounced'
    BY <1>3, <2>3 DEF UnreadIsAnnounced, Announced, Arrived, Opened
  <2>9. QED
    BY <1>2, <2>4, <2>7, <2>8
<1>5. CASE SetConversations(l) \/ ListFails(l)
  <2>1. listing[l].pc = "answered" /\ listing' = [listing EXCEPT ![l] = NoList]
    BY <1>5 DEF SetConversations, ListFails
  <2>2. \/ badge' = listing[l].badges /\ muted' = listing[l].overtaken
        \/ UNCHANGED <<badge, muted>>
    BY <1>5 DEF SetConversations, ListFails
  <2>3. InboxTypeOK'
    BY <1>1, <2>1, <2>2 DEF InboxTypeOK, NoList
  <2>4. listing'[l].pc = "idle" /\ \A k \in Lists \ {l} : listing'[k] = listing[k]
    BY <2>1 DEF InboxTypeOK, NoList
  <2>5. ListsAnnounce'
    BY <1>3, <2>4 DEF ListsAnnounce
  <2>6. UnreadIsAnnounced'
    BY <1>3, <2>1, <2>2 DEF UnreadIsAnnounced, Announced, ListsAnnounce, Arrived, Opened
  <2>7. QED
    BY <1>2, <2>3, <2>5, <2>6
<1>6. QED
  BY <1>4, <1>5

\* A thread is opened or its rows are selected: more is passed over, and what was
\* opened is still open.
LEMMA OpenStep ==
  ASSUME InboxInv, NEW o \in Opens,
         (\E p \in Persons : OpenThread(o, p)) \/ SelectThread(o)
  PROVE  InboxInv'
<1> USE DEF InboxInv
<1>1. CASE \E p \in Persons : OpenThread(o, p)
  <2>1. PICK p \in Persons : OpenThread(o, p)
    BY <1>1
  <2>2. /\ opening[o].pc = "idle"
        /\ opening' = [opening EXCEPT ![o] = [pc |-> "asked", of |-> p, rows |-> {}]]
        /\ badge' = [badge EXCEPT ![p] = 0]
        /\ UNCHANGED <<stored, unread, pushing, listing, seen, slipped, muted>>
    BY <2>1 DEF OpenThread, Thread, MarkReadOnPhone
  <2>3. InboxTypeOK'
    BY <2>2 DEF InboxTypeOK
  <2>4. \A k \in Opens \ {o} : opening'[k] = opening[k]
    BY <2>2 DEF InboxTypeOK
  <2>5. opening'[o].pc = "asked" /\ opening'[o].of = p
    BY <2>2 DEF InboxTypeOK
  <2>6. \A q \in Persons : UnreadOf(q)' = UnreadOf(q) /\ Arrived(q)' = Arrived(q)
    BY <2>2 DEF UnreadOf, Arrived
  <2>7. \A q \in Persons : (Opened(q) => Opened(q)') /\ Opened(p)'
    BY <2>2, <2>4, <2>5 DEF Opened
  <2>8. OneSender' /\ MarksSelected'
    BY <2>2, <2>4, <2>5 DEF OneSender, MarksSelected, UnreadOf
  <2>9. ReadWasShown'
    BY <2>2, <2>4 DEF ReadWasShown
  <2>10. ListsAnnounce'
    BY <2>2, <2>6, <2>7 DEF ListsAnnounce
  <2>11. UnreadIsAnnounced'
    <3>1. \A q \in Persons \ {p} : badge'[q] = badge[q]
      BY <2>2 DEF InboxTypeOK
    <3>2. QED
      BY <2>2, <2>6, <2>7, <3>1 DEF UnreadIsAnnounced, Announced, Arrived, Opened
  <2>12. QED
    BY <2>3, <2>8, <2>9, <2>10, <2>11
<1>2. CASE SelectThread(o)
  <2> DEFINE p == opening[o].of
             got == Newest(stored[p])
  <2>1. /\ opening[o].pc = "asked"
        /\ opening' = [opening EXCEPT ![o] = [pc |-> "selected", of |-> p, rows |-> got]]
        /\ slipped' = slipped \cup (UnreadOf(p) \ got)
        /\ UNCHANGED <<stored, unread, pushing, badge, listing, seen, muted>>
    BY <1>2 DEF SelectThread, Thread
  <2>2. p \in Persons /\ got \subseteq stored[p] /\ stored[p] \subseteq Arrivals
    BY <2>1 DEF InboxTypeOK, Newest
  <2> HIDE DEF p, got
  <2>3. UnreadOf(p) \subseteq Arrivals
    BY <2>2 DEF UnreadOf
  <2>4. InboxTypeOK'
    BY <2>1, <2>2, <2>3 DEF InboxTypeOK
  <2>5. \A k \in Opens \ {o} : opening'[k] = opening[k]
    BY <2>1 DEF InboxTypeOK
  <2>6. opening'[o].pc = "selected" /\ opening'[o].of = p /\ opening'[o].rows = got
    BY <2>1 DEF InboxTypeOK
  <2>7. \A q \in Persons : UnreadOf(q)' = UnreadOf(q) /\ Arrived(q)' = Arrived(q)
    BY <2>1 DEF UnreadOf, Arrived
  <2>8. \A q \in Persons : Opened(q) => Opened(q)'
    BY <2>1, <2>5, <2>6 DEF Opened, p
  <2>9. OneSender'
    BY <2>1 DEF OneSender
  <2>10. MarksSelected'
    <3> SUFFICES ASSUME NEW k \in Opens, opening'[k].pc = "selected"
                 PROVE  UnreadOf(opening[k].of)' \subseteq opening'[k].rows \cup slipped'
      BY DEF MarksSelected
    <3>1. CASE k = o
      BY <2>1, <2>2, <2>6, <2>7, <3>1
    <3>2. CASE k # o
      BY <2>1, <2>5, <2>7, <3>2 DEF MarksSelected, InboxTypeOK
    <3>3. QED
      BY <3>1, <3>2
  <2>11. ReadWasShown'
    BY <2>1, <2>5 DEF ReadWasShown
  <2>12. ListsAnnounce'
    BY <2>1, <2>7, <2>8 DEF ListsAnnounce
  <2>13. UnreadIsAnnounced'
    BY <2>1, <2>7, <2>8 DEF UnreadIsAnnounced, Announced, Arrived, Opened
  <2>14. QED
    BY <2>4, <2>9, <2>10, <2>11, <2>12, <2>13
<1>3. QED
  BY <1>1, <1>2

LEMMA UpdateStep ==
  ASSUME InboxInv, NEW o \in Opens, UpdateRead(o)
  PROVE  InboxInv'
<1> USE DEF InboxInv
<1>0. PICK p \in Persons : p = opening[o].of
  BY DEF UpdateRead, InboxTypeOK
<1>1. /\ opening[o].pc = "selected"
      /\ opening' = [opening EXCEPT ![o] = [pc |-> "marked", of |-> p, rows |-> opening[o].rows]]
      /\ unread' = unread \ UnreadOf(p) /\ muted' = muted \ {p}
      /\ UNCHANGED <<stored, pushing, badge, listing, seen, slipped>>
  BY <1>0 DEF UpdateRead, Thread, ReadBy
<1>2. p \in Persons /\ UnreadOf(p) \subseteq opening[o].rows \cup slipped
  BY <1>0, <1>1 DEF InboxTypeOK, MarksSelected
<1>3. /\ \A k \in Opens \ {o} : opening'[k] = opening[k]
      /\ opening'[o].pc = "marked" /\ opening'[o].of = p /\ opening'[o].rows = opening[o].rows
  BY <1>1 DEF InboxTypeOK
<1>4. InboxTypeOK'
  BY <1>1, <1>2 DEF InboxTypeOK
<1>5. UnreadOf(p)' = {} /\ Arrived(p)' = {}
  BY <1>1 DEF UnreadOf, Arrived
<1>6. \A q \in Persons : UnreadOf(q)' \subseteq UnreadOf(q) /\ Arrived(q)' \subseteq Arrived(q)
  BY <1>1 DEF UnreadOf, Arrived
<1>7. \A q \in Persons \ {p} : Opened(q) => Opened(q)'
  BY <1>0, <1>3 DEF Opened
<1>8. OneSender'
  BY <1>1 DEF OneSender
<1>9. MarksSelected'
  BY <1>1, <1>3, <1>6 DEF MarksSelected, InboxTypeOK
<1>10. ReadWasShown'
  <2> SUFFICES ASSUME NEW q \in Persons, NEW t \in stored[q]
               PROVE  \/ t \in (unread \cup seen \cup slipped)'
                      \/ \E k \in Opens : opening'[k].pc = "marked" /\ t \in opening'[k].rows
    BY <1>1 DEF ReadWasShown
  <2>1. CASE t \in unread /\ t \in UnreadOf(p)
    BY <1>1, <1>2, <1>3, <2>1
  <2>2. CASE t \in unread /\ t \notin UnreadOf(p)
    BY <1>1, <2>2
  <2>3. CASE t \notin unread
    <3>1. \/ t \in seen \cup slipped
          \/ \E k \in Opens : opening[k].pc = "marked" /\ t \in opening[k].rows
      BY <2>3 DEF ReadWasShown
    <3>2. QED
      BY <1>1, <1>3, <3>1
  <2>4. QED
    BY <2>1, <2>2, <2>3
<1>11. ListsAnnounce'
  BY <1>1, <1>5, <1>6, <1>7 DEF ListsAnnounce
<1>12. UnreadIsAnnounced'
  <2> SUFFICES ASSUME NEW q \in Persons, Arrived(q)' # {}
               PROVE  badge'[q] > 0 \/ q \in muted' \/ Opened(q)'
    BY DEF UnreadIsAnnounced, Announced, Arrived, Opened
  <2>1. q # p /\ Arrived(q) # {}
    BY <1>5, <1>6
  <2>2. badge[q] > 0 \/ q \in muted \/ Opened(q)
    BY <2>1 DEF UnreadIsAnnounced, Announced, Arrived, Opened
  <2>3. QED
    BY <1>1, <1>7, <2>1, <2>2
<1>13. QED
  BY <1>4, <1>8, <1>9, <1>10, <1>11, <1>12

LEMMA ThreadEndStep ==
  ASSUME InboxInv, NEW o \in Opens, SetThreadRows(o) \/ OpenFails(o)
  PROVE  InboxInv'
<1> USE DEF InboxInv
<1>0. PICK p \in Persons : p = opening[o].of
  BY DEF SetThreadRows, OpenFails, InboxTypeOK
<1>1. /\ opening[o].pc # "idle" /\ opening' = [opening EXCEPT ![o] = NoThread]
      /\ UNCHANGED <<stored, unread, pushing, badge>>
  BY DEF SetThreadRows, OpenFails
<1>2. {p} \in SUBSET Persons /\ opening[o].rows \subseteq Arrivals
  BY <1>1 DEF InboxTypeOK
<1>3. /\ \A k \in Opens \ {o} : opening'[k] = opening[k]
      /\ opening'[o].pc = "idle"
  BY <1>1 DEF InboxTypeOK, NoThread
<1>4. /\ seen \subseteq seen' /\ slipped \subseteq slipped' /\ muted \subseteq muted'
      /\ opening[o].rows \subseteq seen' \cup slipped'
      /\ seen' \subseteq seen \cup opening[o].rows /\ slipped' \subseteq slipped \cup opening[o].rows
      /\ muted' \subseteq muted \cup {p}
  BY <1>0 DEF SetThreadRows, OpenFails
<1>5. \/ opening[o].pc = "marked" /\ UNCHANGED listing
      \/ listing' = Overtake({p}) /\ p \in muted'
  BY <1>0 DEF SetThreadRows, OpenFails
<1>6. /\ listing' \in [Lists -> [pc : {"idle", "answered"}, badges : [Persons -> Nat],
                                 overtaken : SUBSET Persons]]
      /\ \A l \in Lists : listing'[l].pc = "answered" =>
           /\ listing[l].pc = "answered" /\ listing'[l].badges = listing[l].badges
           /\ listing[l].overtaken \subseteq listing'[l].overtaken
           /\ opening[o].pc = "marked" \/ p \in listing'[l].overtaken
  <2>1. CASE opening[o].pc = "marked" /\ UNCHANGED listing
    BY <2>1 DEF InboxTypeOK
  <2>2. CASE listing' = Overtake({p})
    <3>1. \A l \in Lists :
            /\ listing'[l].pc = listing[l].pc /\ listing'[l].badges = listing[l].badges
            /\ listing'[l].pc = "answered" =>
                 listing'[l].overtaken = listing[l].overtaken \cup {p}
      BY <1>2, <2>2, Overtaken
    <3>2. listing' \in [Lists -> [pc : {"idle", "answered"}, badges : [Persons -> Nat],
                                  overtaken : SUBSET Persons]]
      BY <1>2, <2>2, Overtaken
    <3>3. QED
      BY <3>1, <3>2
  <2>3. QED
    BY <1>5, <2>1, <2>2
<1>7. InboxTypeOK'
  BY <1>1, <1>2, <1>4, <1>6 DEF InboxTypeOK, NoThread
<1>8. \A q \in Persons : UnreadOf(q)' = UnreadOf(q) /\ Arrived(q)' = Arrived(q)
  BY <1>1 DEF UnreadOf, Arrived
<1>9. \A q \in Persons : Opened(q) => Opened(q)' \/ (q = p /\ opening[o].pc # "marked")
  BY <1>0, <1>3 DEF Opened
<1>10. OneSender'
  BY <1>1 DEF OneSender
<1>11. MarksSelected'
  BY <1>1, <1>3, <1>4, <1>8 DEF MarksSelected, InboxTypeOK
<1>12. ReadWasShown'
  BY <1>1, <1>3, <1>4 DEF ReadWasShown
<1>13. ListsAnnounce'
  BY <1>6, <1>8, <1>9 DEF ListsAnnounce
<1>14. UnreadIsAnnounced'
  <2> SUFFICES ASSUME NEW q \in Persons, Arrived(q)' # {}
               PROVE  badge'[q] > 0 \/ q \in muted' \/ Opened(q)'
    BY DEF UnreadIsAnnounced, Announced, Arrived, Opened
  <2>1. badge[q] > 0 \/ q \in muted \/ Opened(q)
    BY <1>8 DEF UnreadIsAnnounced, Announced, Arrived, Opened
  <2>2. QED
    BY <1>1, <1>4, <1>5, <1>9, <2>1
<1>15. QED
  BY <1>7, <1>10, <1>11, <1>12, <1>13, <1>14

LEMMA InboxInvNext == InboxInv /\ [InboxNext]_inboxVars => InboxInv'
<1> SUFFICES ASSUME InboxInv, [InboxNext]_inboxVars PROVE InboxInv'
  OBVIOUS
<1>1. CASE UNCHANGED inboxVars
  <2>1. InboxTypeOK' /\ OneSender' /\ ReadWasShown'
    BY <1>1 DEF inboxVars, InboxInv, InboxTypeOK, OneSender, ReadWasShown
  <2>2. MarksSelected' /\ ListsAnnounce' /\ UnreadIsAnnounced'
    BY <1>1 DEF inboxVars, InboxInv, MarksSelected, ListsAnnounce, UnreadIsAnnounced, Announced,
                UnreadOf, Arrived, Opened
  <2>3. QED
    BY <2>1, <2>2 DEF InboxInv
<1>2. QED
  BY <1>1, InsertStep, PushStep, ListStep, OpenStep, UpdateStep, ThreadEndStep DEF InboxNext

\* A text is marked as read only when the phone has it or a GET passed it over, and
\* one that is unread has a badge unless a push or an opened thread was lost, for
\* any number of contacts, texts, lists and threads (index.ts:2520).
THEOREM TextsAreNoticed == ISpec => []NoTextPassesUnnoticed
<1>1. InboxInv => NoTextPassesUnnoticed
  BY DEF InboxInv, NoTextPassesUnnoticed
<1>2. QED
  BY <1>1, InboxInvInit, InboxInvNext, PTL DEF ISpec

(***************************************************************************)
(* The session.  As long as nothing has happened that may end it, what the *)
(* secure store holds is a session, no sign-out is under way, and of the   *)
(* single-use tokens the one that will be presented next is valid: that of *)
(* the store and of the phone while no refresh is under way or one has     *)
(* just been posted, that of the refresh once it is answered.              *)
(***************************************************************************)
AccountSpec == AccountInit /\ [][AccountNext]_accountVars

TokOrNone == Tok \cup {NoTok}
TenantOrNone == Tenants \cup {NoTenant}
Sessions == [status : {"loading", "authenticated", "unauthenticated"}, token : TokOrNone,
             tenant : TenantOrNone, claims : BOOLEAN, age : {"fresh", "expiring"}]
Refreshes == [pc : {"none", "posted", "revoked", "answered", "storing"}, token : TokOrNone,
              tenant : TenantOrNone, claims : BOOLEAN]
CallRecords == [pc : {"idle", "waiting", "sent", "clearing"}, for : {"use", "revoke"},
                who : TenantOrNone]
SessionType ==
  /\ phone \in Sessions /\ disk \in Sessions /\ refresh \in Refreshes
  /\ call \in [Calls -> CallRecords]
  /\ valid \subseteq Tok
NoSignOutUnderWay == \A c \in Calls : call[c].pc # "idle" => call[c].for = "use"
DiskIsSignedIn == disk.status = "authenticated" /\ phone.status \in {"loading", "authenticated"}
NextTokenIsValid ==
  /\ refresh.pc \in {"none", "posted", "storing"} => disk.token \in valid
  /\ refresh.pc \in {"none", "posted"} /\ phone.status = "authenticated" => phone.token = disk.token
  /\ refresh.pc = "posted" => refresh.token = disk.token
  /\ refresh.pc = "storing" => refresh.token = disk.token
  /\ refresh.pc = "answered" => refresh.token \in valid
  /\ refresh.pc # "none" => phone.status = "authenticated"
SessionGoesOn == NoSignOutUnderWay /\ DiskIsSignedIn /\ NextTokenIsValid
SessionInv == SessionType /\ (~reason => SessionGoesOn)

LEMMA NewTokIsNew ==
  ASSUME NEW p, NEW d, NEW r
  PROVE  \E k \in Tok : k \notin Held(p, d, r)
<1> SUFFICES ASSUME Tok \subseteq Held(p, d, r) PROVE FALSE
  OBVIOUS
<1> DEFINE A == {p.token}  B == A \cup {d.token}  C == B \cup {r.token}
<1>1. IsFiniteSet(A) /\ Cardinality(A) = 1
  BY FS_Singleton
<1>2. IsFiniteSet(B) /\ Cardinality(B) \in Nat /\ Cardinality(B) <= 2
  BY <1>1, FS_AddElement
<1>3. IsFiniteSet(C) /\ Cardinality(C) \in Nat /\ Cardinality(C) <= 3
  <2> HIDE DEF B
  <2> QED BY <1>2, FS_AddElement
<1>4. Tok \subseteq C
  BY DEF Held
<1> HIDE DEF C
<1>5. IsFiniteSet(Tok) /\ Cardinality(Tok) <= Cardinality(C) /\ Cardinality(Tok) \in Nat
  BY <1>3, <1>4, FS_Subset, FS_CardinalityType
<1> QED BY <1>3, <1>5, TokAssumption

LEMMA NewTokType == NewTok \in Tok
BY NewTokIsNew DEF NewTok

LEMMA SessionRecords ==
  /\ SignedOut \in Sessions /\ Booting \in Sessions /\ NoRefresh \in Refreshes /\ Idle \in CallRecords
  /\ SignedOut.status = "unauthenticated" /\ Booting.status = "loading"
  /\ NoRefresh.pc = "none" /\ Idle.pc = "idle"
<1>1. SignedOut \in Sessions
  BY DEF SignedOut, Sessions, TokOrNone, TenantOrNone
<1>2. Booting \in Sessions /\ Booting.status = "loading"
  BY <1>1 DEF Booting, Sessions
<1> QED BY <1>1, <1>2 DEF SignedOut, NoRefresh, Idle, Refreshes, CallRecords, TokOrNone, TenantOrNone

LEMMA IssueType ==
  ASSUME NEW t \in Tenants
  PROVE  Issue(t) \in Sessions /\ Issue(t).status = "authenticated" /\ Issue(t).token = NewTok
<1>1. FetchClaims(t) \in BOOLEAN
  BY DEF FetchClaims, HasAccess
<1> QED BY <1>1, NewTokType DEF Issue, Sessions, TokOrNone, TenantOrNone

LEMMA RenewedType ==
  ASSUME SessionType
  PROVE  /\ Renewed \in Sessions /\ Renewed.status = "authenticated"
         /\ Renewed.token = refresh.token
BY DEF SessionType, Renewed, Sessions, Refreshes

\* How the calls go on.
LEMMA FinishedType ==
  ASSUME NEW k \in CallRecords
  PROVE  /\ Finished(k) \in CallRecords
         /\ k.for = "use" => Finished(k).pc = "idle"
BY SessionRecords DEF Finished, CallRecords

LEMMA ReleaseType ==
  ASSUME SessionType, NEW go \in BOOLEAN, ReleaseAll(go)
  PROVE  /\ call' \in [Calls -> CallRecords]
         /\ NoSignOutUnderWay => NoSignOutUnderWay'
<1>1. \A c \in Calls :
        LET k == IF call[c].pc # "waiting" THEN call[c]
                 ELSE IF go THEN [call[c] EXCEPT !.pc = "sent", !.who = refresh.tenant]
                 ELSE Finished(call[c])
        IN  /\ k \in CallRecords
            /\ (call[c].pc # "idle" => call[c].for = "use") => (k.pc # "idle" => k.for = "use")
  <2> SUFFICES ASSUME NEW c \in Calls
               PROVE  LET k == IF call[c].pc # "waiting" THEN call[c]
                               ELSE IF go THEN [call[c] EXCEPT !.pc = "sent", !.who = refresh.tenant]
                               ELSE Finished(call[c])
                      IN  /\ k \in CallRecords
                          /\ (call[c].pc # "idle" => call[c].for = "use")
                               => (k.pc # "idle" => k.for = "use")
    OBVIOUS
  <2>1. call[c] \in CallRecords /\ refresh.tenant \in TenantOrNone
    BY DEF SessionType, Refreshes
  <2>2. Finished(call[c]) \in CallRecords
        /\ (call[c].for = "use" => Finished(call[c]).pc = "idle")
    BY <2>1, FinishedType
  <2>3. [call[c] EXCEPT !.pc = "sent", !.who = refresh.tenant] \in CallRecords
        /\ [call[c] EXCEPT !.pc = "sent", !.who = refresh.tenant].for = call[c].for
    BY <2>1 DEF CallRecords
  <2> QED BY <2>1, <2>2, <2>3
<1> QED BY <1>1 DEF ReleaseAll, NoSignOutUnderWay

LEMMA SessionStart == AccountInit => SessionInv
BY SessionRecords DEF AccountInit, SessionInv, SessionType

\* What a step that touches neither tokens nor calls leaves as it is.
LEMMA SessionUntouched ==
  ASSUME SessionInv, UNCHANGED <<valid, phone, disk, refresh, call, reason>>
  PROVE  SessionInv'
BY DEF SessionInv, SessionType, SessionGoesOn, NoSignOutUnderWay, DiskIsSignedIn, NextTokenIsValid

\* The phone's session ends for a reason.
LEMMA EndedForAReason ==
  ASSUME SessionType, reason', phone' \in Sessions, disk' \in Sessions, refresh' \in Refreshes,
         call' \in [Calls -> CallRecords], valid' \subseteq Tok
  PROVE  SessionInv'
BY DEF SessionInv, SessionType

LEMMA KeepType ==
  ASSUME NEW V \in SUBSET Tok, Keep(V)
  PROVE  /\ valid' \subseteq Tok
         /\ \A k \in V : k \in {phone'.token, disk'.token, refresh'.token} => k \in valid'
BY TokAssumption DEF Keep, Held

LEMMA OneCallAlone ==
  ASSUME SessionType, NEW c \in Calls, NEW k \in CallRecords, call' = [call EXCEPT ![c] = k]
  PROVE  /\ call' \in [Calls -> CallRecords]
         /\ NoSignOutUnderWay /\ (k.pc # "idle" => k.for = "use") => NoSignOutUnderWay'
BY DEF SessionType, NoSignOutUnderWay

LEMMA SessionStep == SessionInv /\ [AccountNext]_accountVars => SessionInv'
<1> SUFFICES ASSUME SessionInv, [AccountNext]_accountVars PROVE SessionInv'
  OBVIOUS
<1>t. SessionType
  BY DEF SessionInv
<1>g. ~reason => NoSignOutUnderWay /\ DiskIsSignedIn /\ NextTokenIsValid
  BY DEF SessionInv, SessionGoesOn
<1>v. valid \subseteq Tok /\ phone \in Sessions /\ disk \in Sessions /\ refresh \in Refreshes
      /\ call \in [Calls -> CallRecords]
  BY <1>t DEF SessionType
<1>1. CASE \/ \E t \in Tenants : \/ Lifecycle(t)
                                 \/ \E i \in 1..MaxEvents : Deliver(t, i)
           \/ Buy \/ (\E T \in SUBSET Tenants : TrialExpiryJob(T))
  <2>1. UNCHANGED <<valid, phone, disk, refresh, call, reason>>
    BY <1>1 DEF Lifecycle, Deliver, Buy, TrialExpiryJob, session
  <2> QED BY <2>1, SessionUntouched
<1>2. ASSUME NEW t \in Tenants, DeliverTwice(t) PROVE SessionInv'
  BY <1>2, SessionUntouched DEF DeliverTwice
<1>3. ASSUME NEW t \in Tenants, SignIn(t) PROVE SessionInv'
  <2>1. phone' = Issue(t) /\ disk' = Issue(t) /\ UNCHANGED <<refresh, call>>
    BY <1>3 DEF SignIn, TakeSession
  <2>2. Issue(t) \in Sessions /\ Issue(t).status = "authenticated" /\ Issue(t).token \in Tok
    BY IssueType, NewTokType
  <2>3. valid' \subseteq Tok /\ Issue(t).token \in valid'
    <3>1. Keep(valid \cup {NewTok}) /\ valid \cup {NewTok} \in SUBSET Tok
      BY <1>3, <1>v, NewTokType DEF SignIn
    <3> QED BY <3>1, <2>1, KeepType, IssueType
  <2>4. SessionType'
    BY <1>v, <2>1, <2>2, <2>3 DEF SessionType
  <2>5. ~reason' => refresh.pc = "none" /\ \A c \in Calls : call[c].pc = "idle"
    BY <1>3 DEF SignIn
  <2>6. ~reason' => SessionGoesOn'
    BY <2>1, <2>2, <2>3, <2>5 DEF SessionGoesOn, NoSignOutUnderWay, DiskIsSignedIn, NextTokenIsValid
  <2> QED BY <2>4, <2>6 DEF SessionInv
<1>4. CASE Boot
  <2>1. /\ phone' = LoadStoredTokens /\ phone.status = "loading"
        /\ UNCHANGED <<valid, disk, refresh, call, reason>>
    BY <1>4 DEF Boot
  <2>2. phone' \in Sessions /\ (disk.status = "authenticated" => phone' = disk)
    BY <2>1, <1>v, SessionRecords DEF LoadStoredTokens
  <2>3. SessionType'
    BY <1>v, <2>1, <2>2 DEF SessionType
  <2>4. ~reason' => SessionGoesOn'
    BY <1>g, <1>v, <2>1, <2>2 DEF SessionGoesOn, NoSignOutUnderWay, DiskIsSignedIn,
      NextTokenIsValid, Refreshes
  <2> QED BY <2>3, <2>4 DEF SessionInv
<1>5. CASE KillApp
  <2>1. /\ phone' = Booting /\ refresh' = NoRefresh /\ call' = [c \in Calls |-> Idle]
        /\ UNCHANGED disk
    BY <1>5 DEF KillApp
  <2>2. \/ Keep(valid) /\ reason' = (reason \/ refresh.pc \in {"revoked", "answered"})
        \/ Keep(valid \ {refresh.token}) /\ reason'
    BY <1>5 DEF KillApp
  <2>3. valid' \subseteq Tok /\ (Keep(valid) /\ disk.token \in valid => disk.token \in valid')
    BY <1>v, <2>1, <2>2, KeepType
  <2>4. SessionType'
    BY <1>v, <2>1, <2>3, SessionRecords DEF SessionType
  <2>5. ~reason' => ~reason /\ refresh.pc \in {"none", "posted", "storing"} /\ Keep(valid)
    BY <1>v, <2>2 DEF Refreshes
  <2>6. ~reason' => SessionGoesOn'
    BY <1>g, <2>1, <2>3, <2>5, SessionRecords DEF SessionGoesOn, NoSignOutUnderWay, DiskIsSignedIn,
      NextTokenIsValid
  <2> QED BY <2>4, <2>6 DEF SessionInv
<1>6. CASE Compromised
  <2>1. valid' \subseteq Tok
    BY <1>6, <1>v, KeepType DEF Compromised
  <2> QED BY <1>6, <1>t, <1>v, <2>1, SessionRecords, EndedForAReason DEF Compromised
<1>7. CASE Tick
  <2>1. /\ phone' \in Sessions /\ phone'.token = phone.token /\ phone'.status = phone.status
        /\ disk' \in Sessions /\ disk'.token = disk.token /\ disk'.status = disk.status
        /\ UNCHANGED <<valid, refresh, call, reason>>
    BY <1>7, <1>v DEF Tick, Sessions
  <2> QED BY <1>t, <1>g, <2>1 DEF SessionInv, SessionType, SessionGoesOn, NoSignOutUnderWay,
        DiskIsSignedIn, NextTokenIsValid
<1>8. CASE Rotate
  <2>1. /\ refresh' = [refresh EXCEPT !.pc = "revoked"] /\ refresh.pc = "posted"
        /\ UNCHANGED <<phone, disk, call, reason>>
    BY <1>8 DEF Rotate
  <2>2. refresh' \in Refreshes /\ refresh'.pc = "revoked"
    BY <1>v, <2>1 DEF Refreshes
  <2>3. valid' \subseteq Tok
    BY <1>8, <1>v, KeepType DEF Rotate
  <2> QED BY <1>t, <1>g, <2>1, <2>2, <2>3 DEF SessionInv, SessionType, SessionGoesOn,
        NoSignOutUnderWay, DiskIsSignedIn, NextTokenIsValid
<1>9. CASE IssuePair
  <2>1. /\ refresh' = [refresh EXCEPT !.pc = "answered", !.token = NewTok,
                                      !.claims = FetchClaims(refresh.tenant)]
        /\ refresh.pc = "revoked" /\ UNCHANGED <<phone, disk, call, reason>>
    BY <1>9 DEF IssuePair
  <2>2. FetchClaims(refresh.tenant) \in BOOLEAN
    BY DEF FetchClaims, HasAccess
  <2>3. refresh' \in Refreshes /\ refresh'.pc = "answered" /\ refresh'.token = NewTok
    <3> DEFINE claims == FetchClaims(refresh.tenant)
    <3> HIDE DEF claims
    <3> QED BY <1>v, <2>1, <2>2, NewTokType DEF Refreshes, TokOrNone, claims
  <2>4. valid' \subseteq Tok /\ NewTok \in valid'
    <3>1. Keep(valid \cup {NewTok}) /\ valid \cup {NewTok} \in SUBSET Tok
      BY <1>9, <1>v, NewTokType DEF IssuePair
    <3> QED BY <3>1, <2>3, KeepType
  <2> QED BY <1>t, <1>g, <2>1, <2>3, <2>4 DEF SessionInv, SessionType, SessionGoesOn,
        NoSignOutUnderWay, DiskIsSignedIn, NextTokenIsValid
<1>10. CASE StoreTokens
  <2>1. /\ disk' = Renewed /\ refresh' = [refresh EXCEPT !.pc = "storing"]
        /\ refresh.pc = "answered" /\ UNCHANGED <<phone, call, reason>> /\ Keep(valid)
    BY <1>10 DEF StoreTokens
  <2>2. refresh' \in Refreshes /\ refresh'.pc = "storing" /\ refresh'.token = refresh.token
    BY <1>v, <2>1 DEF Refreshes
  <2>3. disk' \in Sessions /\ disk'.status = "authenticated" /\ disk'.token = refresh.token
    BY <1>t, <2>1, RenewedType
  <2>4. valid' \subseteq Tok /\ (refresh.token \in valid => refresh.token \in valid')
    BY <1>v, <2>1, <2>2, KeepType
  <2> QED BY <1>t, <1>g, <2>1, <2>2, <2>3, <2>4 DEF SessionInv, SessionType, SessionGoesOn,
        NoSignOutUnderWay, DiskIsSignedIn, NextTokenIsValid
<1>11. CASE SetTokens
  <2>1. /\ phone' = Renewed /\ refresh' = NoRefresh /\ refresh.pc = "storing"
        /\ ReleaseAll(TRUE) /\ UNCHANGED <<disk, reason>> /\ Keep(valid)
    BY <1>11 DEF SetTokens
  <2>2. phone' \in Sessions /\ phone'.status = "authenticated" /\ phone'.token = refresh.token
    BY <1>t, <2>1, RenewedType
  <2>3. call' \in [Calls -> CallRecords] /\ (NoSignOutUnderWay => NoSignOutUnderWay')
    BY <1>t, <2>1, ReleaseType
  <2>4. valid' \subseteq Tok /\ (disk.token \in valid => disk.token \in valid')
    BY <1>v, <2>1, KeepType
  <2>5. SessionType'
    BY <1>v, <2>1, <2>2, <2>3, <2>4, SessionRecords DEF SessionType
  <2>6. ~reason' => SessionGoesOn'
    BY <1>g, <2>1, <2>2, <2>3, <2>4, SessionRecords DEF SessionGoesOn, DiskIsSignedIn, NextTokenIsValid
  <2> QED BY <2>5, <2>6 DEF SessionInv
<1>12. CASE RefreshRefused \/ RefreshLost
  <2>1. EndSession
    BY <1>12 DEF RefreshRefused, RefreshLost
  <2>2. reason'
    <3>1. CASE RefreshRefused
      <4>1. refresh.pc = "posted" /\ refresh.token \notin valid /\ UNCHANGED reason
        BY <3>1 DEF RefreshRefused
      <4> QED BY <4>1, <1>g DEF NextTokenIsValid
    <3>2. CASE RefreshLost
      BY <3>2 DEF RefreshLost
    <3> QED BY <1>12, <3>1, <3>2
  <2>3. call' \in [Calls -> CallRecords]
    BY <1>t, <2>1, ReleaseType DEF EndSession
  <2>4. valid' \subseteq Tok
    BY <1>v, <2>1, KeepType DEF EndSession
  <2> QED BY <1>t, <2>1, <2>2, <2>3, <2>4, SessionRecords, EndedForAReason DEF EndSession
<1>13. ASSUME NEW c \in Calls, NEW for \in {"use", "revoke"}, AuthedFetch(c, for)
       PROVE  SessionInv'
  <2> DEFINE wait == phone.age = "expiring"
             k == [pc |-> IF wait THEN "waiting" ELSE "sent", for |-> for,
                   who |-> IF wait THEN NoTenant ELSE phone.tenant]
  <2>1. /\ call' = [call EXCEPT ![c] = k] /\ refresh' = IF wait THEN StartRefresh ELSE refresh
        /\ reason' = (reason \/ for = "revoke") /\ phone.status = "authenticated"
        /\ UNCHANGED <<valid, phone, disk>>
    BY <1>13 DEF AuthedFetch
  <2>2. k \in CallRecords /\ k.for = for
    BY <1>v DEF CallRecords, Sessions, TenantOrNone
  <2>3. /\ StartRefresh \in Refreshes
        /\ refresh.pc # "none" => StartRefresh = refresh
        /\ refresh.pc = "none" => StartRefresh.pc = "posted" /\ StartRefresh.token = phone.token
    <3>1. CASE refresh.pc = "none"
      BY <1>v, <3>1 DEF StartRefresh, NoRefresh, Refreshes, Sessions
    <3>2. CASE refresh.pc # "none"
      BY <1>v, <3>2 DEF StartRefresh
    <3> QED BY <3>1, <3>2
  <2> HIDE DEF wait, k
  <2>4. /\ call' \in [Calls -> CallRecords]
        /\ NoSignOutUnderWay /\ for = "use" => NoSignOutUnderWay'
    BY <1>t, <2>1, <2>2, OneCallAlone
  <2>5. SessionType'
    BY <1>v, <2>1, <2>3, <2>4 DEF SessionType
  <2>6. ~reason' => ~reason /\ for = "use"
    BY <2>1
  <2>7. ~reason' => NextTokenIsValid'
    BY <1>g, <2>1, <2>3, <2>6 DEF NextTokenIsValid
  <2> QED BY <1>g, <2>1, <2>4, <2>5, <2>6, <2>7 DEF SessionInv, SessionGoesOn, DiskIsSignedIn
<1>14. ASSUME NEW c \in Calls, Answer(c) PROVE SessionInv'
  <2>1. /\ call' = [call EXCEPT ![c] = Finished(call[c])] /\ call[c] \in CallRecords
        /\ call[c].pc = "sent" /\ UNCHANGED <<phone, disk, refresh, reason>>
    BY <1>14, <1>v DEF Answer
  <2>2. /\ valid' \subseteq valid /\ (call[c].for = "use" => UNCHANGED valid)
    BY <1>14 DEF Answer
  <2>3. Finished(call[c]) \in CallRecords
        /\ (call[c].for = "use" => Finished(call[c]).pc = "idle")
    BY <2>1, FinishedType
  <2>4. /\ call' \in [Calls -> CallRecords]
        /\ NoSignOutUnderWay => NoSignOutUnderWay' /\ call[c].for = "use"
    BY <1>t, <2>1, <2>3, OneCallAlone DEF NoSignOutUnderWay
  <2>5. SessionType'
    BY <1>v, <2>1, <2>2, <2>4 DEF SessionType
  <2> QED BY <1>g, <2>1, <2>2, <2>4, <2>5 DEF SessionInv, SessionGoesOn, DiskIsSignedIn,
        NextTokenIsValid
<1>15. ASSUME NEW c \in Calls, AnswerFails(c) PROVE SessionInv'
  <2>1. /\ call' = [call EXCEPT ![c] = Finished(call[c])] /\ call[c] \in CallRecords
        /\ call[c].pc = "sent" /\ UNCHANGED refresh
    BY <1>15, <1>v DEF AnswerFails
  <2>3. Finished(call[c]) \in CallRecords
        /\ (call[c].for = "use" => Finished(call[c]).pc = "idle")
    BY <2>1, FinishedType
  <2>4. /\ call' \in [Calls -> CallRecords]
        /\ NoSignOutUnderWay => NoSignOutUnderWay'
    BY <1>t, <2>1, <2>3, OneCallAlone DEF NoSignOutUnderWay
  <2>5. CASE UNCHANGED <<valid, phone, disk, reason>>
    BY <1>v, <1>g, <2>1, <2>4, <2>5 DEF SessionInv, SessionType, SessionGoesOn, DiskIsSignedIn,
      NextTokenIsValid
  <2>6. CASE phone' = SignedOut /\ disk' = SignedOut /\ reason' = TRUE /\ Keep(valid)
    <3>1. valid' \subseteq Tok
      BY <1>v, <2>6, KeepType
    <3> QED BY <1>t, <1>v, <2>1, <2>4, <2>6, <3>1, SessionRecords, EndedForAReason
  <2> QED BY <1>15, <2>5, <2>6 DEF AnswerFails
<1>16. ASSUME NEW c \in Calls, ClearTokens(c) PROVE SessionInv'
  <2>1. valid' \subseteq Tok
    BY <1>16, <1>v, KeepType DEF ClearTokens
  <2>2. call' \in [Calls -> CallRecords]
    BY <1>16, <1>t, SessionRecords, OneCallAlone DEF ClearTokens
  <2> QED BY <1>16, <1>t, <1>v, <2>1, <2>2, SessionRecords, EndedForAReason DEF ClearTokens
<1>17. CASE UNCHANGED accountVars
  BY <1>17, SessionUntouched DEF accountVars, session
<1> QED BY <1>1, <1>2, <1>3, <1>4, <1>5, <1>6, <1>7, <1>8, <1>9, <1>10, <1>11, <1>12, <1>13,
     <1>14, <1>15, <1>16, <1>17 DEF AccountNext

\* A phone is signed out only for a reason: however many requests find the token
\* about to expire and wherever the app is killed, they do not use up each
\* other's single-use refresh token.
THEOREM SessionsEndForAReason == AccountSpec => []SignedOutForAReason
<1>1. SessionInv => SignedOutForAReason
  BY DEF SessionInv, SessionGoesOn, DiskIsSignedIn, SignedOutForAReason
<1> QED BY <1>1, SessionStart, SessionStep, PTL DEF AccountSpec

-----------------------------------------------------------------------------
(***************************************************************************)
(* The subscription.  The row, the store and the events in between are     *)
(* followed per tenant.  As long as no event has been overtaken, the last  *)
(* one that is still to come, of those that are not a change of id, is     *)
(* what the store says, and if there is none the row says it; and every    *)
(* event names the tenant as the row will by the time it arrives.          *)
(***************************************************************************)

EventTypes == Granting \cup Ending
                \cup {"BILLING_ISSUE", "PAUSE", "PRODUCT_CHANGE", "SUBSCRIBER_ALIAS"}
Ids == TenantOrNone \cup {Alias(t) : t \in Tenants}
StoreEvents == [type : EventTypes, app : Ids, old : Ids]
Rows == [tier : {"starter", "professional"},
         status : {"trialing", "active", "past_due", "paused", "cancelled"}, customer : Ids]
BillingType ==
  /\ tenantRows \in [Tenants -> Rows] /\ events \in [Tenants -> Seq(StoreEvents)]
  /\ store \in [Tenants -> [entitled : BOOLEAN, id : Ids, last : EventTypes \cup {"none"}]]
  /\ overtaken \in [Tenants -> BOOLEAN] /\ sdk \in TenantOrNone

Queue(t) == 1..Len(events[t])
IsRename(t, j) == events[t][j].type = "SUBSCRIBER_ALIAS"

\* Each tenant has two ids, which are nobody else's.
OwnIds(t) ==
  /\ tenantRows[t].customer \in {NoTenant, t, Alias(t)} /\ store[t].id \in {t, Alias(t)}
  /\ \A j \in Queue(t) : events[t][j].app \in {t, Alias(t)} /\ events[t][j].old \in {t, Alias(t)}
\* While the change of id is on its way, what precedes it names the tenant by the
\* old id and what follows it by the new one.
OneRename(t) ==
  \A j \in Queue(t) : IsRename(t, j) =>
    /\ store[t].id = Alias(t) /\ events[t][j].app = Alias(t) /\ events[t][j].old = t
    /\ j > 1 => tenantRows[t].customer \in {NoTenant, t}
    /\ \A k \in Queue(t) : /\ k < j => ~IsRename(t, k) /\ events[t][k].app = t
                           /\ k > j => ~IsRename(t, k) /\ events[t][k].app = Alias(t)
\* Otherwise all events have the store's id, and the row knows it.
NoRename(t) ==
  (\A j \in Queue(t) : ~IsRename(t, j)) =>
    /\ \A j \in Queue(t) : events[t][j].app = store[t].id
    /\ store[t].id = t => tenantRows[t].customer \in {NoTenant, t}
    /\ store[t].id = Alias(t) => tenantRows[t].customer = Alias(t)

\* What a row has to be after an event.
Says(r, last) ==
  /\ last \in Granting => r.status = "active" /\ r.tier = "professional"
  /\ last \in Ending => r.status = "cancelled"
  /\ last = "PAUSE" => r.status = "paused"
LastDecides(t) ==
  /\ (\A j \in Queue(t) : IsRename(t, j)) => Says(tenantRows[t], store[t].last)
  /\ \A j \in Queue(t) :
       ~IsRename(t, j) /\ (\A k \in Queue(t) : k > j => IsRename(t, k)) =>
         events[t][j].type = store[t].last
InOrder(t) == OneRename(t) /\ NoRename(t) /\ LastDecides(t)
BillingInv == BillingType /\ \A t \in Tenants : OwnIds(t) /\ (~overtaken[t] => InOrder(t))

LEMMA BillingStart == AccountInit => BillingInv
<1> SUFFICES ASSUME AccountInit PROVE BillingInv
  OBVIOUS
<1>1. BillingType
  BY EmptySeq DEF AccountInit, BillingType, Rows, Ids, TenantOrNone
<1>2. ASSUME NEW t \in Tenants PROVE OwnIds(t) /\ InOrder(t)
  <2>1. /\ Queue(t) = {} /\ store[t].id = t /\ store[t].last = "none"
        /\ tenantRows[t].customer = NoTenant
    BY DEF AccountInit, Queue
  <2>2. t # Alias(t)
    BY AliasAssumption
  <2> QED BY <2>1, <2>2 DEF OwnIds, InOrder, OneRename, NoRename, LastDecides, Says, Granting,
     Ending
<1> QED BY <1>1, <1>2 DEF BillingInv

\* A tenant of whom neither row nor events nor store have changed.
LEMMA TenantUntouched ==
  ASSUME NEW t, events'[t] = events[t], store'[t] = store[t], tenantRows'[t] = tenantRows[t]
  PROVE  (OwnIds(t) => OwnIds(t)') /\ (InOrder(t) => InOrder(t)')
BY DEF OwnIds, InOrder, OneRename, NoRename, LastDecides, Queue, IsRename

\* What each kind of event does to a row.
LEMMA Applied ==
  ASSUME NEW t \in Tenants, NEW e
  PROVE  LET r == tenantRows[t] IN
         /\ e.type \in Granting =>
              Apply(e)[t] = IF OwnedBy(t, e.app) THEN GrantRow(r, e) ELSE r
         /\ e.type \in Ending => Apply(e)[t] = IF NamedBy(t, e.app) THEN EndRow(r) ELSE r
         /\ e.type = "PRODUCT_CHANGE" =>
              Apply(e)[t] = IF NamedBy(t, e.app) THEN [r EXCEPT !.tier = "professional"] ELSE r
         /\ e.type = "BILLING_ISSUE" =>
              Apply(e)[t] = IF NamedBy(t, e.app) THEN [r EXCEPT !.status = "past_due"] ELSE r
         /\ e.type = "PAUSE" =>
              Apply(e)[t] = IF NamedBy(t, e.app) THEN [r EXCEPT !.status = "paused"] ELSE r
         /\ e.type = "SUBSCRIBER_ALIAS" =>
              Apply(e)[t] = IF AliasMatches(t, e) THEN [r EXCEPT !.customer = e.app] ELSE r
<1>1. CASE e.type \in Granting
  BY <1>1, Zenon DEF Apply, Granting, Ending
<1>2. CASE e.type \in Ending
  BY <1>2, Zenon DEF Apply, Granting, Ending
<1>3. CASE e.type = "PRODUCT_CHANGE"
  BY <1>3, Zenon DEF Apply, Granting, Ending
<1>4. CASE e.type = "BILLING_ISSUE"
  BY <1>4, Zenon DEF Apply, Granting, Ending
<1>5. CASE e.type = "PAUSE"
  BY <1>5, Zenon DEF Apply, Granting, Ending
<1>6. CASE e.type = "SUBSCRIBER_ALIAS"
  BY <1>6, Zenon DEF Apply, Granting, Ending
<1> QED BY <1>1, <1>2, <1>3, <1>4, <1>5, <1>6 DEF Granting, Ending

LEMMA AppliedType ==
  ASSUME BillingType, NEW e \in StoreEvents
  PROVE  Apply(e) \in [Tenants -> Rows]
<1>1. ASSUME NEW t \in Tenants PROVE Apply(e)[t] \in Rows
  <2>1. tenantRows[t] \in Rows /\ e.type \in EventTypes /\ e.app \in Ids
    BY DEF BillingType, StoreEvents
  <2>2. /\ GrantRow(tenantRows[t], e) \in Rows /\ EndRow(tenantRows[t]) \in Rows
        /\ [tenantRows[t] EXCEPT !.tier = "professional"] \in Rows
        /\ [tenantRows[t] EXCEPT !.status = "past_due"] \in Rows
        /\ [tenantRows[t] EXCEPT !.status = "paused"] \in Rows
        /\ [tenantRows[t] EXCEPT !.customer = e.app] \in Rows
    BY <2>1 DEF Rows, GrantRow, EndRow
  <2> QED BY <2>1, <2>2, Applied DEF EventTypes
<1>2. Apply(e) = [t \in Tenants |-> Apply(e)[t]]
  BY DEF Apply
<1> QED BY <1>1, <1>2

\* An event touches nobody else's row, and leaves its own tenant one of its ids.
LEMMA AppliedToOwner ==
  ASSUME BillingInv, NEW t \in Tenants, NEW e \in StoreEvents,
         e.app \in {t, Alias(t)}, e.old \in {t, Alias(t)}
  PROVE  /\ \A s \in Tenants : s # t => Apply(e)[s] = tenantRows[s]
         /\ Apply(e)[t].customer \in {NoTenant, t, Alias(t)}
<1>1. ASSUME NEW s \in Tenants, s # t PROVE Apply(e)[s] = tenantRows[s]
  <2>1. tenantRows[s].customer \in {NoTenant, s, Alias(s)}
    BY DEF BillingInv, OwnIds
  <2>2. s \notin {t, Alias(t)} /\ {NoTenant, s, Alias(s)} \cap {t, Alias(t)} = {}
    BY <1>1, AliasAssumption, NoTenantAssumption DEF Alias
  <2>3. ~OwnedBy(s, e.app) /\ ~NamedBy(s, e.app) /\ ~AliasMatches(s, e)
    BY <2>1, <2>2 DEF OwnedBy, NamedBy, AliasMatches
  <2>4. e.type \in EventTypes
    BY DEF StoreEvents
  <2> QED BY <2>3, <2>4, Applied DEF EventTypes
<1>2. Apply(e)[t].customer \in {NoTenant, t, Alias(t)}
  <2>1. tenantRows[t] \in Rows /\ tenantRows[t].customer \in {NoTenant, t, Alias(t)}
    BY DEF BillingInv, BillingType, OwnIds
  <2>2. e.type \in EventTypes
    BY DEF StoreEvents
  <2> DEFINE r == tenantRows[t]
  <2>3. /\ GrantRow(r, e).customer = e.app /\ EndRow(r).customer = r.customer
        /\ [r EXCEPT !.tier = "professional"].customer = r.customer
        /\ [r EXCEPT !.status = "past_due"].customer = r.customer
        /\ [r EXCEPT !.status = "paused"].customer = r.customer
        /\ [r EXCEPT !.customer = e.app].customer = e.app
    BY <2>1 DEF Rows, GrantRow, EndRow
  <2>4. Apply(e)[t].customer \in {r.customer, e.app}
    BY <2>2, <2>3, Applied DEF EventTypes
  <2> QED BY <2>1, <2>4
<1> QED BY <1>1, <1>2

\* The first event in the queue names the tenant as the row does: what it leaves.
LEMMA HeadApplied ==
  ASSUME BillingInv, NEW t \in Tenants, ~overtaken[t], 1 \in Queue(t)
  PROVE  LET e == events[t][1]
             r == tenantRows[t]
             s == Apply(e)[t]
         IN  /\ e \in StoreEvents
             /\ IsRename(t, 1) => s.status = r.status /\ s.tier = r.tier /\ s.customer = Alias(t)
             /\ ~IsRename(t, 1) =>
                  /\ Says(s, e.type) /\ s.customer \in {r.customer, e.app}
                  /\ e.app \in {t, Alias(t)}
<1> DEFINE e == events[t][1]  r == tenantRows[t]  s == Apply(e)[t]
<1>1. /\ OwnIds(t) /\ OneRename(t) /\ NoRename(t)
      /\ r \in Rows /\ r.customer \in {NoTenant, t, Alias(t)}
      /\ events[t] \in Seq(StoreEvents)
  BY DEF BillingInv, BillingType, InOrder, OwnIds
<1>2. e \in StoreEvents /\ e.type \in EventTypes
  <2>1. e \in StoreEvents
    BY <1>1, ElementOfSeq DEF Queue
  <2> QED BY <2>1 DEF StoreEvents
<1>3. e.app \in {t, Alias(t)} /\ t # Alias(t) /\ t # NoTenant /\ Alias(t) # NoTenant
  BY <1>1, AliasAssumption, NoTenantAssumption DEF OwnIds
<1>4. CASE IsRename(t, 1)
  <2>1. e.type = "SUBSCRIBER_ALIAS" /\ e.app = Alias(t) /\ e.old = t
    BY <1>1, <1>4 DEF OneRename, IsRename
  <2>2. s = IF AliasMatches(t, e) THEN [r EXCEPT !.customer = e.app] ELSE r
    BY <2>1, Applied
  <2>3. ~AliasMatches(t, e) => r.customer = Alias(t)
    BY <1>1, <2>1 DEF AliasMatches, OwnedBy
  <2>4. s.status = r.status /\ s.tier = r.tier /\ s.customer = Alias(t)
    BY <1>1, <2>1, <2>2, <2>3 DEF Rows
  <2> QED BY <1>2, <1>4, <2>4
<1>5. CASE ~IsRename(t, 1)
  <2>1. (e.app = t /\ r.customer \in {NoTenant, t}) \/ (e.app = Alias(t) /\ r.customer = Alias(t))
    <3>1. CASE \A j \in Queue(t) : ~IsRename(t, j)
      BY <1>1, <1>3, <3>1 DEF NoRename, OwnIds
    <3>2. CASE \E j \in Queue(t) : IsRename(t, j)
      <4>1. PICK j \in Queue(t) : IsRename(t, j)
        BY <3>2
      <4>2. j > 1
        BY <1>5, <4>1 DEF Queue
      <4> QED BY <1>1, <4>1, <4>2 DEF OneRename
    <3> QED BY <3>1, <3>2
  <2>2. OwnedBy(t, e.app) /\ NamedBy(t, e.app)
    BY <1>3, <2>1 DEF OwnedBy, NamedBy
  <2>3. /\ GrantRow(r, e).customer = e.app /\ GrantRow(r, e).status = "active"
        /\ GrantRow(r, e).tier = "professional"
        /\ EndRow(r).customer = r.customer /\ EndRow(r).status = "cancelled"
        /\ [r EXCEPT !.tier = "professional"].customer = r.customer
        /\ [r EXCEPT !.status = "past_due"].customer = r.customer
        /\ [r EXCEPT !.status = "paused"].customer = r.customer
        /\ [r EXCEPT !.status = "paused"].status = "paused"
    BY <1>1 DEF Rows, GrantRow, EndRow
  <2>4. e.type # "SUBSCRIBER_ALIAS"
    BY <1>5 DEF IsRename
  <2>5. s.customer \in {r.customer, e.app}
    BY <1>2, <2>2, <2>3, <2>4, Applied DEF EventTypes
  <2>6. Says(s, e.type)
    <3>1. e.type \in Granting => s.status = "active" /\ s.tier = "professional"
      BY <2>2, <2>3, Applied
    <3>2. e.type \in Ending => s.status = "cancelled"
      BY <2>2, <2>3, Applied
    <3>3. e.type = "PAUSE" => s.status = "paused"
      BY <2>2, <2>3, Applied
    <3> QED BY <3>1, <3>2, <3>3 DEF Says
  <2> QED BY <1>2, <1>3, <1>5, <2>5, <2>6
<1> QED BY <1>4, <1>5

\* The queue without its i-th event.
LEMMA Removed ==
  ASSUME NEW S, NEW q \in Seq(S), NEW i \in 1..Len(q)
  PROVE  /\ RemoveAt(q, i) \in Seq(S) /\ Len(RemoveAt(q, i)) = Len(q) - 1
         /\ \A j \in 1..(Len(q) - 1) :
              RemoveAt(q, i)[j] = IF j < i THEN q[j] ELSE q[j + 1]
<1> DEFINE a == SubSeq(q, 1, i - 1)  b == SubSeq(q, i + 1, Len(q))
<1>1. Len(q) \in Nat /\ i \in Nat /\ \A j \in 1..Len(q) : q[j] \in S
  BY LenProperties, ElementOfSeq
<1>2. /\ a \in Seq(S) /\ Len(a) = i - 1 /\ \A j \in 1..(i - 1) : a[j] = q[j]
  <2>1. \A j \in 1..(i - 1) : q[j] \in S
    BY <1>1
  <2> HIDE DEF a
  <2>2. /\ a \in Seq(S) /\ Len(a) = IF 1 <= i - 1 THEN i - 1 - 1 + 1 ELSE 0
        /\ \A j \in 1..(i - 1 - 1 + 1) : a[j] = q[1 + j - 1]
    BY <1>1, <2>1, SubSeqProperties DEF a
  <2> QED BY <1>1, <2>2
<1>3. /\ b \in Seq(S) /\ Len(b) = Len(q) - i /\ \A j \in 1..(Len(q) - i) : b[j] = q[i + j]
  <2>1. \A j \in (i + 1)..Len(q) : q[j] \in S
    BY <1>1
  <2> HIDE DEF b
  <2>2. /\ b \in Seq(S) /\ Len(b) = IF i + 1 <= Len(q) THEN Len(q) - (i + 1) + 1 ELSE 0
        /\ \A j \in 1..(Len(q) - (i + 1) + 1) : b[j] = q[i + 1 + j - 1]
    BY <1>1, <2>1, SubSeqProperties DEF b
  <2> QED BY <1>1, <2>2
<1>4. RemoveAt(q, i) = a \o b
  BY DEF RemoveAt
<1> HIDE DEF a, b
<1>5. /\ a \o b \in Seq(S) /\ Len(a \o b) = Len(a) + Len(b)
      /\ \A j \in 1..(Len(a) + Len(b)) :
           (a \o b)[j] = IF j <= Len(a) THEN a[j] ELSE b[j - Len(a)]
  BY <1>2, <1>3, ConcatProperties
<1>6. ASSUME NEW j \in 1..(Len(q) - 1)
      PROVE  (a \o b)[j] = IF j < i THEN q[j] ELSE q[j + 1]
  <2>1. CASE j < i
    BY <1>1, <1>2, <1>3, <1>5, <2>1
  <2>2. CASE ~(j < i)
    <3>1. (a \o b)[j] = b[j - (i - 1)] /\ j - (i - 1) \in 1..(Len(q) - i)
      BY <1>1, <1>2, <1>3, <1>5, <2>2
    <3>2. b[j - (i - 1)] = q[i + (j - (i - 1))] /\ i + (j - (i - 1)) = j + 1
      BY <1>1, <1>3, <3>1
    <3> QED BY <2>2, <3>1, <3>2
  <2> QED BY <2>1, <2>2
<1> QED BY <1>1, <1>2, <1>3, <1>4, <1>5, <1>6

\* Something happens at the store.
LEMMA EmitStep ==
  ASSUME BillingInv, NEW t \in Tenants, NEW type \in EventTypes, Emit(t, type),
         type = "SUBSCRIBER_ALIAS" => store[t].id = t,
         UNCHANGED <<tenantRows, overtaken, sdk>>
  PROVE  BillingInv'
<1> DEFINE new == IF type = "SUBSCRIBER_ALIAS" THEN Alias(t) ELSE store[t].id
           e == [type |-> type, app |-> new, old |-> store[t].id]
<1>n. PICK n \in Nat : n = Len(events[t])
  BY LenProperties DEF BillingInv, BillingType
<1>1. /\ OwnIds(t) /\ store[t].id \in {t, Alias(t)} /\ t # Alias(t)
      /\ events[t] \in Seq(StoreEvents) /\ n = Len(events[t])
      /\ store[t] \in [entitled : BOOLEAN, id : Ids, last : EventTypes \cup {"none"}]
  BY <1>n, AliasAssumption DEF BillingInv, BillingType, OwnIds
<1>2. e \in StoreEvents
  BY <1>1 DEF StoreEvents, Ids
<1>3. /\ events' = [events EXCEPT ![t] = Append(@, e)]
      /\ store' = [store EXCEPT
             ![t].id = new, ![t].last = IF type = "SUBSCRIBER_ALIAS" THEN @ ELSE type,
             ![t].entitled = type \in Granting \/ (@ /\ type # "EXPIRATION")]
  BY DEF Emit
<1>4. /\ events'[t] = Append(events[t], e) /\ events'[t] \in Seq(StoreEvents)
      /\ Len(events'[t]) = n + 1 /\ events'[t][n + 1] = e
      /\ \A j \in 1..n : events'[t][j] = events[t][j]
  <2> HIDE DEF e
  <2>1. events'[t] = Append(events[t], e)
    BY <1>3 DEF BillingInv, BillingType
  <2> QED BY <1>1, <1>2, <2>1, AppendProperties
<1>5. /\ store'[t].id = new /\ store'[t].id \in {t, Alias(t)}
      /\ store'[t].last = IF type = "SUBSCRIBER_ALIAS" THEN store[t].last ELSE type
      /\ store' \in [Tenants -> [entitled : BOOLEAN, id : Ids, last : EventTypes \cup {"none"}]]
  <2>1. new \in Ids /\ new \in {t, Alias(t)}
    BY <1>1 DEF Ids
  <2>2. /\ store'[t].id = new /\ store'[t].entitled \in BOOLEAN
        /\ store'[t].last = IF type = "SUBSCRIBER_ALIAS" THEN store[t].last ELSE type
        /\ store'[t] \in [entitled : BOOLEAN, id : Ids, last : EventTypes \cup {"none"}]
    <3> HIDE DEF new
    <3>1. store'[t] = [store[t] EXCEPT
             !.id = new, !.last = IF type = "SUBSCRIBER_ALIAS" THEN @ ELSE type,
             !.entitled = type \in Granting \/ (@ /\ type # "EXPIRATION")]
      BY <1>3 DEF BillingInv, BillingType
    <3>2. store'[t].entitled \in BOOLEAN
      BY <1>1, <3>1
    <3> QED BY <1>1, <2>1, <3>1, <3>2
  <2>3. \A s \in Tenants : s # t => store'[s] = store[s]
    BY <1>3 DEF BillingInv, BillingType
  <2>4. DOMAIN store' = Tenants /\ store' = [s \in DOMAIN store' |-> store'[s]]
    BY <1>3 DEF BillingInv, BillingType
  <2> QED BY <2>1, <2>2, <2>3, <2>4 DEF BillingInv, BillingType
<1>6. BillingType'
  BY <1>3, <1>4, <1>5 DEF BillingInv, BillingType
<1>7. Queue(t)' = Queue(t) \cup {n + 1} /\ Queue(t) = 1..n /\ n + 1 \notin Queue(t)
  BY <1>1, <1>4 DEF Queue
<1>8. OwnIds(t)'
  BY <1>1, <1>4, <1>5, <1>7 DEF OwnIds
<1>9. ASSUME InOrder(t) PROVE InOrder(t)'
  <2>1. /\ \A j \in Queue(t) : IsRename(t, j)' = IsRename(t, j)
        /\ IsRename(t, n + 1)' <=> type = "SUBSCRIBER_ALIAS"
    BY <1>4, <1>7 DEF IsRename
  <2>2. \A j \in Queue(t) : j < n + 1
    BY <1>1, <1>7
  <2>3. OneRename(t)'
    <3> SUFFICES ASSUME NEW j \in Queue(t)', IsRename(t, j)'
                 PROVE  /\ store'[t].id = Alias(t) /\ events'[t][j].app = Alias(t)
                        /\ events'[t][j].old = t
                        /\ j > 1 => tenantRows'[t].customer \in {NoTenant, t}
                        /\ \A k \in Queue(t)' :
                             /\ k < j => ~IsRename(t, k)' /\ events'[t][k].app = t
                             /\ k > j => ~IsRename(t, k)' /\ events'[t][k].app = Alias(t)
      BY DEF OneRename
    <3>1. CASE j \in Queue(t)
      <4>1. store[t].id = Alias(t) /\ type # "SUBSCRIBER_ALIAS" /\ new = Alias(t)
        BY <1>1, <1>9, <2>1, <3>1 DEF InOrder, OneRename
      <4> QED BY <1>4, <1>5, <1>7, <1>9, <2>1, <2>2, <3>1, <4>1 DEF InOrder, OneRename
    <3>2. CASE j = n + 1
      <4>1. type = "SUBSCRIBER_ALIAS" /\ store[t].id = t
        BY <2>1, <3>2
      <4>2. \A k \in Queue(t) : ~IsRename(t, k)
        BY <1>1, <1>9, <4>1 DEF InOrder, OneRename
      <4>3. \A k \in Queue(t) : events[t][k].app = t
        BY <1>9, <4>1, <4>2 DEF InOrder, NoRename
      <4>4. tenantRows[t].customer \in {NoTenant, t}
        BY <1>9, <4>1, <4>2 DEF InOrder, NoRename
      <4>5. \A k \in Queue(t)' : k # j => k \in Queue(t) /\ ~(k > j)
        BY <1>7, <2>2, <3>2
      <4>6. \A k \in Queue(t)' : ~(j < j)
        BY <1>1, <3>2
      <4>7. \A k \in Queue(t)' :
              /\ k < j => ~IsRename(t, k)' /\ events'[t][k].app = t
              /\ ~(k > j)
        BY <1>4, <1>7, <2>1, <4>2, <4>3, <4>5, <4>6
      <4>8. store'[t].id = Alias(t) /\ events'[t][j].app = Alias(t) /\ events'[t][j].old = t
        BY <1>4, <1>5, <3>2, <4>1
      <4>9. tenantRows'[t].customer \in {NoTenant, t}
        BY <4>4
      <4> QED BY <4>7, <4>8, <4>9
    <3> QED BY <1>7, <3>1, <3>2
  <2>4. NoRename(t)'
    <3> SUFFICES ASSUME \A j \in Queue(t)' : ~IsRename(t, j)'
                 PROVE  /\ \A j \in Queue(t)' : events'[t][j].app = store'[t].id
                        /\ store'[t].id = t => tenantRows'[t].customer \in {NoTenant, t}
                        /\ store'[t].id = Alias(t) => tenantRows'[t].customer = Alias(t)
      BY DEF NoRename
    <3>1. type # "SUBSCRIBER_ALIAS" /\ \A j \in Queue(t) : ~IsRename(t, j)
      BY <1>7, <2>1
    <3> QED BY <1>4, <1>5, <1>7, <1>9, <3>1 DEF InOrder, NoRename
  <2>5. LastDecides(t)'
    <3>1. CASE type = "SUBSCRIBER_ALIAS"
      <4>1. (\A j \in Queue(t)' : IsRename(t, j)') => Says(tenantRows'[t], store'[t].last)
        BY <1>5, <1>7, <1>9, <2>1, <3>1 DEF InOrder, LastDecides
      <4>2. ASSUME NEW j \in Queue(t)', ~IsRename(t, j)',
                   \A k \in Queue(t)' : k > j => IsRename(t, k)'
            PROVE  events'[t][j].type = store'[t].last
        BY <1>4, <1>5, <1>7, <1>9, <2>1, <3>1, <4>2 DEF InOrder, LastDecides
      <4> QED BY <4>1, <4>2 DEF LastDecides
    <3>2. CASE type # "SUBSCRIBER_ALIAS"
      <4>1. ASSUME NEW j \in Queue(t)', ~IsRename(t, j)',
                   \A k \in Queue(t)' : k > j => IsRename(t, k)'
            PROVE  j = n + 1
        BY <1>7, <2>1, <2>2, <3>2, <4>1
      <4>2. ~IsRename(t, n + 1)' /\ events'[t][n + 1].type = store'[t].last
        BY <1>4, <1>5, <2>1, <3>2
      <4> QED BY <1>7, <4>1, <4>2 DEF LastDecides
    <3> QED BY <3>1, <3>2
  <2> QED BY <2>3, <2>4, <2>5 DEF InOrder
<1>10. ASSUME NEW s \in Tenants, s # t PROVE OwnIds(s)' /\ (~overtaken'[s] => InOrder(s)')
  <2>1. events'[s] = events[s] /\ store'[s] = store[s] /\ tenantRows'[s] = tenantRows[s]
    BY <1>3, <1>10 DEF BillingInv, BillingType
  <2> QED BY <2>1, TenantUntouched DEF BillingInv
<1> QED BY <1>6, <1>8, <1>9, <1>10 DEF BillingInv

\* An event arrives and its answer is lost.
LEMMA DeliverTwiceStep ==
  ASSUME BillingInv, NEW t \in Tenants, DeliverTwice(t)
  PROVE  BillingInv'
<1> DEFINE e == Head(events[t])
<1>1. /\ events[t] \in Seq(StoreEvents) /\ events[t] # <<>> /\ tenantRows' = Apply(e)
      /\ UNCHANGED <<events, store, overtaken, sdk>>
  BY DEF BillingInv, BillingType, DeliverTwice
<1>2. e = events[t][1] /\ 1 \in Queue(t) /\ e \in StoreEvents
  BY <1>1, HeadTailProperties, EmptySeq, LenProperties, ElementOfSeq DEF Queue
<1>3. e.app \in {t, Alias(t)} /\ e.old \in {t, Alias(t)}
  BY <1>2 DEF BillingInv, OwnIds
<1> HIDE DEF e
<1>4. BillingType'
  BY <1>1, <1>2, AppliedType DEF BillingInv, BillingType
<1>5. /\ \A s \in Tenants : s # t => tenantRows'[s] = tenantRows[s]
      /\ tenantRows'[t].customer \in {NoTenant, t, Alias(t)}
  BY <1>1, <1>2, <1>3, AppliedToOwner
<1>6. ASSUME NEW s \in Tenants, s # t PROVE OwnIds(s)' /\ (~overtaken'[s] => InOrder(s)')
  BY <1>1, <1>5, <1>6, TenantUntouched DEF BillingInv
<1>7. OwnIds(t)'
  BY <1>1, <1>5 DEF BillingInv, OwnIds, Queue
<1>8. ASSUME ~overtaken[t] PROVE InOrder(t)'
  <2>1. /\ IsRename(t, 1) => /\ tenantRows'[t].status = tenantRows[t].status
                             /\ tenantRows'[t].tier = tenantRows[t].tier
                             /\ tenantRows'[t].customer = Alias(t)
        /\ ~IsRename(t, 1) => tenantRows'[t].customer \in {tenantRows[t].customer, e.app}
    BY <1>1, <1>2, <1>8, HeadApplied
  <2>2. Queue(t)' = Queue(t) /\ \A j \in Queue(t) : IsRename(t, j)' = IsRename(t, j) /\ j \in Nat
    BY <1>1 DEF Queue, IsRename
  <2>3. InOrder(t) /\ t # Alias(t)
    BY <1>8, AliasAssumption DEF BillingInv
  <2>4. ASSUME NEW j \in Queue(t), IsRename(t, j), j > 1
        PROVE  tenantRows'[t].customer \in {NoTenant, t}
    <3>1. ~IsRename(t, 1) /\ e.app = t /\ tenantRows[t].customer \in {NoTenant, t}
      BY <1>2, <2>3, <2>4 DEF InOrder, OneRename
    <3> QED BY <2>1, <3>1
  <2>5. OneRename(t)'
    BY <1>1, <2>2, <2>3, <2>4 DEF InOrder, OneRename
  <2>6. NoRename(t)'
    BY <1>1, <1>2, <2>1, <2>2, <2>3 DEF InOrder, NoRename
  <2>7. LastDecides(t)'
    <3>1. (\A j \in Queue(t) : IsRename(t, j)) => Says(tenantRows'[t], store[t].last)
      BY <1>2, <2>1, <2>3 DEF InOrder, LastDecides, Says
    <3> QED BY <1>1, <2>2, <2>3, <3>1 DEF InOrder, LastDecides
  <2> QED BY <2>5, <2>6, <2>7 DEF InOrder
<1> QED BY <1>1, <1>4, <1>6, <1>7, <1>8 DEF BillingInv

\* An event arrives: the first in the queue, or one that overtakes it.
LEMMA DeliverStep ==
  ASSUME BillingInv, NEW t \in Tenants, NEW i, Deliver(t, i)
  PROVE  BillingInv'
<1>n. PICK n \in Nat : n = Len(events[t])
  BY LenProperties DEF BillingInv, BillingType
<1> DEFINE e == events[t][i]
<1>1. /\ events[t] \in Seq(StoreEvents) /\ i \in 1..n /\ i \in Queue(t) /\ tenantRows' = Apply(e)
      /\ events' = [events EXCEPT ![t] = RemoveAt(events[t], i)]
      /\ overtaken' = [overtaken EXCEPT ![t] = overtaken[t] \/ i > 1]
      /\ UNCHANGED <<store, sdk>>
  BY <1>n, LenProperties DEF BillingInv, BillingType, Deliver, session, Queue
<1>2. e \in StoreEvents
  BY <1>n, <1>1, ElementOfSeq
<1>3. e.app \in {t, Alias(t)} /\ e.old \in {t, Alias(t)}
  BY <1>1 DEF BillingInv, OwnIds
<1>4. /\ events'[t] \in Seq(StoreEvents) /\ Len(events'[t]) = n - 1
      /\ \A j \in 1..(n - 1) : events'[t][j] = IF j < i THEN events[t][j] ELSE events[t][j + 1]
  <2>1. events'[t] = RemoveAt(events[t], i)
    BY <1>1 DEF BillingInv, BillingType
  <2>2. /\ RemoveAt(events[t], i) \in Seq(StoreEvents) /\ Len(RemoveAt(events[t], i)) = n - 1
        /\ \A j \in 1..(n - 1) :
             RemoveAt(events[t], i)[j] = IF j < i THEN events[t][j] ELSE events[t][j + 1]
    BY <1>n, <1>1, Removed
  <2> QED BY <2>1, <2>2
<1> HIDE DEF e
<1>5. BillingType'
  <2>1. tenantRows' \in [Tenants -> Rows]
    BY <1>1, <1>2, AppliedType DEF BillingInv
  <2>2. events' \in [Tenants -> Seq(StoreEvents)]
    BY <1>1, <1>4 DEF BillingInv, BillingType
  <2> QED BY <1>1, <2>1, <2>2 DEF BillingInv, BillingType
<1>6. /\ \A s \in Tenants : s # t => tenantRows'[s] = tenantRows[s]
      /\ tenantRows'[t].customer \in {NoTenant, t, Alias(t)}
  BY <1>1, <1>2, <1>3, AppliedToOwner
<1>7. ASSUME NEW s \in Tenants, s # t PROVE OwnIds(s)' /\ (~overtaken'[s] => InOrder(s)')
  <2>1. events'[s] = events[s] /\ overtaken'[s] = overtaken[s]
    BY <1>1, <1>7 DEF BillingInv, BillingType
  <2> QED BY <1>1, <1>6, <1>7, <2>1, TenantUntouched DEF BillingInv
<1>8. Queue(t) = 1..n /\ Queue(t)' = 1..(n - 1)
  BY <1>n, <1>4 DEF Queue
<1>9. OwnIds(t)'
  <2>1. \A j \in Queue(t)' : \E k \in Queue(t) : events'[t][j] = events[t][k]
    BY <1>4, <1>8
  <2> QED BY <1>1, <1>6, <2>1 DEF BillingInv, OwnIds
<1>10. ASSUME ~overtaken'[t] PROVE InOrder(t)'
  <2>1. i = 1 /\ ~overtaken[t] /\ 1 \in Queue(t)
    <3>1. overtaken \in [Tenants -> BOOLEAN]
      BY DEF BillingInv, BillingType
    <3>2. ~overtaken[t] /\ ~(i > 1)
      BY <1>1, <1>10, <3>1, Zenon
    <3> QED BY <1>1, <3>2
  <2>2. InOrder(t) /\ t # Alias(t)
    BY <2>1, AliasAssumption DEF BillingInv
  <2>3. /\ IsRename(t, 1) => /\ tenantRows'[t].status = tenantRows[t].status
                             /\ tenantRows'[t].tier = tenantRows[t].tier
                             /\ tenantRows'[t].customer = Alias(t)
        /\ ~IsRename(t, 1) => /\ Says(tenantRows'[t], e.type)
                              /\ tenantRows'[t].customer \in {tenantRows[t].customer, e.app}
        /\ e = events[t][1]
    BY <1>1, <2>1, HeadApplied DEF e
  <2>4. \A j \in Queue(t)' :
          /\ j \in Nat /\ j + 1 \in Queue(t) /\ j + 1 > 1
          /\ events'[t][j] = events[t][j + 1] /\ IsRename(t, j)' = IsRename(t, j + 1)
    <3> SUFFICES ASSUME NEW j \in Queue(t)'
                 PROVE  /\ j \in Nat /\ j + 1 \in Queue(t) /\ j + 1 > 1
                        /\ events'[t][j] = events[t][j + 1]
                        /\ IsRename(t, j)' = IsRename(t, j + 1)
      OBVIOUS
    <3>1. j \in 1..(n - 1) /\ j \in Nat /\ j + 1 \in 1..n /\ j + 1 > 1 /\ ~(j < i)
      BY <1>8, <2>1
    <3>2. events'[t][j] = events[t][j + 1]
      BY <1>4, <3>1
    <3> QED BY <1>8, <3>1, <3>2 DEF IsRename
  <2>5. \A k \in Queue(t) : k = 1 \/ \E j \in Queue(t)' : k = j + 1
    <3>1. ASSUME NEW k \in Queue(t), k # 1 PROVE k - 1 \in Queue(t)' /\ k = (k - 1) + 1
      BY <1>8, <3>1
    <3> QED BY <3>1
  <2>6. OneRename(t)'
    <3> SUFFICES ASSUME NEW j \in Queue(t)', IsRename(t, j)'
                 PROVE  /\ store[t].id = Alias(t) /\ events'[t][j].app = Alias(t)
                        /\ events'[t][j].old = t
                        /\ tenantRows'[t].customer \in {NoTenant, t}
                        /\ \A k \in Queue(t)' :
                             /\ k < j => ~IsRename(t, k)' /\ events'[t][k].app = t
                             /\ k > j => ~IsRename(t, k)' /\ events'[t][k].app = Alias(t)
      BY <1>1 DEF OneRename
    <3>1. /\ j \in Nat /\ j + 1 \in Queue(t) /\ 1 < j + 1 /\ j + 1 > 1 /\ IsRename(t, j + 1)
          /\ events'[t][j] = events[t][j + 1]
      BY <2>4
    <3>2. /\ store[t].id = Alias(t) /\ events[t][j + 1].app = Alias(t)
          /\ events[t][j + 1].old = t /\ tenantRows[t].customer \in {NoTenant, t}
          /\ ~IsRename(t, 1) /\ events[t][1].app = t
      BY <2>1, <2>2, <3>1 DEF InOrder, OneRename
    <3>3. tenantRows'[t].customer \in {NoTenant, t}
      BY <2>3, <3>2
    <3>4. ASSUME NEW k \in Queue(t)'
          PROVE  /\ k < j => ~IsRename(t, k)' /\ events'[t][k].app = t
                 /\ k > j => ~IsRename(t, k)' /\ events'[t][k].app = Alias(t)
      <4>1. /\ k \in Nat /\ k + 1 \in Queue(t) /\ events'[t][k] = events[t][k + 1]
            /\ IsRename(t, k)' = IsRename(t, k + 1)
        BY <2>4
      <4>2. (k < j => k + 1 < j + 1) /\ (k > j => k + 1 > j + 1)
        BY <3>1, <4>1
      <4> QED BY <2>2, <3>1, <4>1, <4>2 DEF InOrder, OneRename
    <3> QED BY <3>1, <3>2, <3>3, <3>4
  <2>7. NoRename(t)'
    <3> SUFFICES ASSUME \A j \in Queue(t)' : ~IsRename(t, j)'
                 PROVE  /\ \A j \in Queue(t)' : events'[t][j].app = store[t].id
                        /\ store[t].id = t => tenantRows'[t].customer \in {NoTenant, t}
                        /\ store[t].id = Alias(t) => tenantRows'[t].customer = Alias(t)
      BY <1>1 DEF NoRename
    <3>1. CASE IsRename(t, 1)
      BY <2>1, <2>2, <2>3, <2>4, <3>1 DEF InOrder, OneRename
    <3>2. CASE ~IsRename(t, 1)
      <4>1. \A j \in Queue(t) : ~IsRename(t, j)
        BY <2>4, <2>5, <3>2
      <4> QED BY <2>1, <2>2, <2>3, <2>4, <3>2, <4>1 DEF InOrder, NoRename
    <3> QED BY <3>1, <3>2
  <2>8. LastDecides(t)'
    <3>1. ASSUME \A j \in Queue(t)' : IsRename(t, j)'
          PROVE  Says(tenantRows'[t], store[t].last)
      <4>1. \A k \in Queue(t) : k > 1 => IsRename(t, k)
        BY <2>4, <2>5, <3>1
      <4>2. CASE IsRename(t, 1)
        <5>1. \A k \in Queue(t) : IsRename(t, k)
          BY <2>4, <2>5, <3>1, <4>2
        <5> QED BY <2>2, <2>3, <4>2, <5>1 DEF InOrder, LastDecides, Says
      <4>3. CASE ~IsRename(t, 1)
        BY <2>1, <2>2, <2>3, <4>1, <4>3 DEF InOrder, LastDecides
      <4> QED BY <4>2, <4>3
    <3>2. ASSUME NEW j \in Queue(t)', ~IsRename(t, j)',
                 \A k \in Queue(t)' : k > j => IsRename(t, k)'
          PROVE  events'[t][j].type = store[t].last
      <4>1. j \in Nat /\ j + 1 \in Queue(t) /\ ~IsRename(t, j + 1)
            /\ events'[t][j] = events[t][j + 1]
        BY <2>4, <3>2
      <4>2. ASSUME NEW k \in Queue(t), k > j + 1 PROVE IsRename(t, k)
        <5>1. k # 1
          BY <1>8, <4>1, <4>2
        <5>2. PICK m \in Queue(t)' : k = m + 1
          BY <2>5, <5>1
        <5>3. m > j
          BY <1>8, <4>1, <4>2, <5>2
        <5> QED BY <2>4, <3>2, <5>2, <5>3
      <4> QED BY <2>2, <4>1, <4>2 DEF InOrder, LastDecides
    <3> QED BY <1>1, <3>1, <3>2 DEF LastDecides
  <2> QED BY <2>6, <2>7, <2>8 DEF InOrder
<1> QED BY <1>5, <1>7, <1>9, <1>10 DEF BillingInv

\* The trial job: a row that says what was bought, or that it has ended, is no trial.
LEMMA TrialStep ==
  ASSUME BillingInv, NEW T \in SUBSET Tenants, TrialExpiryJob(T)
  PROVE  BillingInv'
<1>1. UNCHANGED <<store, events, overtaken, sdk>>
  BY DEF TrialExpiryJob, session
<1>2. \A s \in Tenants : tenantRows'[s] = IF s \in T /\ IsTrial(s)
                                          THEN EndRow(tenantRows[s]) ELSE tenantRows[s]
  BY DEF TrialExpiryJob
<1>3. ASSUME NEW s \in Tenants
      PROVE  /\ tenantRows'[s] \in Rows /\ tenantRows'[s].customer = tenantRows[s].customer
             /\ \A last : Says(tenantRows[s], last) => Says(tenantRows'[s], last)
  <2>1. tenantRows[s] \in Rows
    BY DEF BillingInv, BillingType
  <2>2. /\ EndRow(tenantRows[s]) \in Rows /\ EndRow(tenantRows[s]).customer = tenantRows[s].customer
        /\ EndRow(tenantRows[s]).status = "cancelled"
    BY <2>1 DEF Rows, EndRow
  <2>3. CASE s \in T /\ IsTrial(s)
    <3>1. tenantRows'[s] = EndRow(tenantRows[s]) /\ tenantRows[s].status = "trialing"
      BY <1>2, <2>3 DEF IsTrial
    <3>2. \A last : Says(tenantRows[s], last) => last \notin Granting /\ last # "PAUSE"
      BY <3>1 DEF Says
    <3>3. \A last : Says(tenantRows[s], last) => Says(tenantRows'[s], last)
      BY <2>2, <3>1, <3>2 DEF Says
    <3> QED BY <2>2, <3>1, <3>3
  <2>4. CASE ~(s \in T /\ IsTrial(s))
    BY <1>2, <2>1, <2>4
  <2> QED BY <2>3, <2>4
<1>4. BillingType'
  <2>1. tenantRows' = [s \in Tenants |-> tenantRows'[s]]
    BY DEF TrialExpiryJob
  <2>2. tenantRows' \in [Tenants -> Rows]
    BY <1>3, <2>1
  <2> QED BY <1>1, <2>2 DEF BillingInv, BillingType
<1>5. ASSUME NEW s \in Tenants PROVE OwnIds(s)' /\ (~overtaken'[s] => InOrder(s)')
  <2>1. OwnIds(s) /\ (~overtaken[s] => InOrder(s))
    BY DEF BillingInv
  <2>2. OwnIds(s)'
    BY <1>1, <1>3, <2>1 DEF OwnIds, Queue
  <2>3. ASSUME InOrder(s) PROVE InOrder(s)'
    <3>1. OneRename(s)' /\ NoRename(s)'
      BY <1>1, <1>3, <2>3 DEF InOrder, OneRename, NoRename, Queue, IsRename
    <3>2. LastDecides(s)'
      BY <1>1, <1>3, <2>3 DEF InOrder, LastDecides, Queue, IsRename
    <3> QED BY <3>1, <3>2 DEF InOrder
  <2> QED BY <1>1, <2>1, <2>2, <2>3
<1> QED BY <1>4, <1>5 DEF BillingInv

\* Neither rows nor events have changed.
LEMMA BillingUntouched ==
  ASSUME BillingInv, UNCHANGED <<tenantRows, store, events, overtaken>>, sdk' \in TenantOrNone
  PROVE  BillingInv'
<1>1. BillingType'
  BY DEF BillingInv, BillingType
<1> QED BY <1>1, TenantUntouched DEF BillingInv

LEMMA BillingStep == SessionInv /\ BillingInv /\ [AccountNext]_accountVars => BillingInv'
<1> SUFFICES ASSUME SessionType, BillingInv, [AccountNext]_accountVars PROVE BillingInv'
  BY DEF SessionInv
<1>s. sdk \in TenantOrNone
  BY DEF BillingInv, BillingType
<1>1. ASSUME NEW t \in Tenants, Lifecycle(t) PROVE BillingInv'
  <2>1. PICK type \in EventTypes :
          Emit(t, type) /\ (type = "SUBSCRIBER_ALIAS" => store[t].id = t)
    BY <1>1 DEF Lifecycle, EventTypes, Granting, Ending
  <2> QED BY <1>1, <2>1, EmitStep DEF Lifecycle, session
<1>2. CASE Buy
  <2>1. sdk \in Tenants /\ "INITIAL_PURCHASE" \in EventTypes /\ Emit(sdk, "INITIAL_PURCHASE")
        /\ UNCHANGED <<tenantRows, overtaken, sdk>>
    BY <1>2, <1>s DEF Buy, TenantOrNone, EventTypes, Granting, session
  <2> QED BY <2>1, EmitStep
<1>3. ASSUME NEW t \in Tenants, NEW i \in 1..MaxEvents, Deliver(t, i) PROVE BillingInv'
  BY <1>3, DeliverStep
<1>4. ASSUME NEW t \in Tenants, DeliverTwice(t) PROVE BillingInv'
  BY <1>4, DeliverTwiceStep
<1>5. ASSUME NEW T \in SUBSET Tenants, TrialExpiryJob(T) PROVE BillingInv'
  BY <1>5, TrialStep
<1>6. ASSUME NEW t \in Tenants, SignIn(t) PROVE BillingInv'
  <2>1. sdk' = InitPurchases(t)
    BY <1>6 DEF SignIn, TakeSession, Issue
  <2> QED BY <1>6, <1>s, <2>1, BillingUntouched DEF SignIn, InitPurchases, TenantOrNone, billing
<1>7. CASE Boot
  <2>1. LoadStoredTokens.tenant \in TenantOrNone
    BY SessionRecords DEF LoadStoredTokens, SessionType, Sessions
  <2>2. sdk' \in TenantOrNone
    BY <1>7, <1>s, <2>1 DEF Boot, InitPurchases
  <2> QED BY <1>7, <2>2, BillingUntouched DEF Boot, billing
<1>8. CASE KillApp
  BY <1>8, BillingUntouched DEF KillApp, billing, TenantOrNone
<1>9. CASE Compromised \/ Tick \/ Rotate \/ IssuePair \/ StoreTokens \/ SetTokens
             \/ RefreshRefused \/ RefreshLost
  BY <1>9, <1>s, BillingUntouched DEF Compromised, Tick, Rotate, IssuePair, StoreTokens, SetTokens,
     RefreshRefused, RefreshLost, EndSession, billing
<1>10. ASSUME NEW c \in Calls,
              \/ \E for \in {"use", "revoke"} : AuthedFetch(c, for)
              \/ Answer(c) \/ AnswerFails(c) \/ ClearTokens(c)
       PROVE  BillingInv'
  BY <1>10, <1>s, BillingUntouched DEF AuthedFetch, Answer, AnswerFails, ClearTokens, billing
<1>11. CASE UNCHANGED accountVars
  BY <1>11, <1>s, BillingUntouched DEF accountVars, billing, session
<1> QED BY <1>1, <1>2, <1>3, <1>4, <1>5, <1>6, <1>7, <1>8, <1>9, <1>10, <1>11 DEF AccountNext

\* Once all events of a tenant have arrived in the order they were emitted in, some
\* of them twice, the row says what the store says: whatever the trial job did in
\* between, and wherever among them the store changed the tenant's id.
THEOREM RowsFollowTheStore == AccountSpec => []SettledRowMatchesStore
<1>1. BillingInv => SettledRowMatchesStore
  <2> SUFFICES ASSUME BillingInv, NEW t \in Tenants, events[t] = <<>>, ~overtaken[t]
               PROVE  /\ store[t].last \in Granting => HasAccess(t)
                      /\ store[t].last \in Ending \cup {"PAUSE"} => ~HasAccess(t)
    BY DEF SettledRowMatchesStore
  <2>1. InOrder(t) /\ Queue(t) = {}
    BY EmptySeq DEF BillingInv, Queue
  <2>2. Says(tenantRows[t], store[t].last)
    BY <2>1 DEF InOrder, LastDecides
  <2> QED BY <2>2 DEF Says, HasAccess, Ending
<1>2. SessionInv /\ BillingInv /\ [AccountNext]_accountVars => (SessionInv /\ BillingInv)'
  BY SessionStep, BillingStep
<1>3. AccountInit => SessionInv /\ BillingInv
  BY SessionStart, BillingStart
<1> QED BY <1>1, <1>2, <1>3, PTL DEF AccountSpec
===============================================================================
