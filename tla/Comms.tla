-------------------------------- MODULE Comms ---------------------------------
(***************************************************************************)
(* What the tenant asks the comms agent for, from the words of the request *)
(* to the line in a contact's profile: src/coordinator/router.ts picks the *)
(* agent, src/agents/comms drafts, the draft waits in the approval manager *)
(* of its coordinator and in the row behind it, comes back to an agent as  *)
(* send_message once approved, and the e-mail.sent event reaches the       *)
(* relationship agents that listen.  Overlapping first calls give a        *)
(* process several coordinators, each with its own agents, bus and Map of  *)
(* approvals, loaded from the same rows.  The other way into a profile is  *)
(* a text the person sends, whose signals the coordinator extracts.        *)
(*                                                                         *)
(* A request is the set of rule keys its text contains.  Expiry only takes *)
(* cards away and is left to ApprovalManager.                              *)
(***************************************************************************)
EXTENDS Naturals, Sequences, FiniteSets

CONSTANTS
  People,        \* contacts of the tenant
  Unknown,       \* the contact id 'unknown'
  NoRecipient,   \* an item without recipients
  Asks, Incoming,    \* requests of the tenant, texts of a contact
  Hosts,         \* gateway processes
  Teams, NoTeam, \* a coordinator and its agents, as one call of getOrCreate builds them
  SingleRules,   \* singleDispatch: <<[key, length, intent, agent], ...>>
  LaterRules,    \* multiDispatch, then chainDispatch, likewise
  Phrasings,     \* the sets of keys the requests contain
  MaxLost        \* bound on statements, publishes and processes that fail

ASSUME CommsAssumption ==
  /\ Unknown \notin People /\ NoRecipient \notin People \cup {Unknown}
  /\ NoTeam \notin Teams
  /\ MaxLost \in Nat

VARIABLES
  shared,   \* REDIS_URL is set: events go through Redis
  home,     \* [Teams -> Hosts], where the load balancer sends the call that builds it
  team,     \* [Teams -> how far getOrCreate has built it]
  optOut,   \* contacts: do_not_contact, email_unsubscribed
  ask,      \* [Asks -> the request and what became of it]
  held,     \* [Teams -> asks whose card is in the team's Map of approvals]
  rows,     \* asks whose row in the approvals table is pending
  sending,  \* dispatches of an approved item that its agent has not handled
  answered, \* answers whose row has not been updated
  events,   \* e-mail.sent on its way, as <<listening team, dispatch>>
  recorded, \* [Teams \X Dispatches -> interactions written to the profile]
  approved, \* history: dispatches whose card was approved or is automatic
  incoming, \* [Incoming -> where extractSmsSignals stands]
  losses
cardVars == <<held, rows, sending, answered, approved>>
soundVars == <<events, recorded>>
commsVars == <<shared, home, team, optOut, ask, cardVars, soundVars, incoming, losses>>

Dispatches == Teams \X Asks
NewAsk == [step |-> "unused", team |-> NoTeam, about |-> Unknown, intent |-> "none",
           out |-> FALSE, to |-> NoRecipient]

CommsInit ==
  /\ shared \in BOOLEAN /\ home \in [Teams -> Hosts]
  /\ team = [t \in Teams |-> "none"]
  /\ optOut = [p \in People |-> {}]
  /\ ask = [a \in Asks |-> NewAsk]
  /\ held = [t \in Teams |-> {}] /\ rows = {}
  /\ sending = {} /\ answered = {} /\ approved = {}
  /\ events = {} /\ recorded = [e \in Teams \X Dispatches |-> 0]
  /\ incoming = [x \in Incoming |-> "unused"]
  /\ losses = 0

Lose == losses < MaxLost /\ losses' = losses + 1
At(a, step) == ask[a].step = step
TeamUnchanged == UNCHANGED <<shared, home, optOut, ask, soundVars, incoming>>
AskUnchanged == UNCHANGED <<shared, home, team, optOut, cardVars, soundVars, incoming, losses>>

---------------------------------------------------------------------------
\* getOrCreate: every call that finds no coordinator in the map builds one.  Its
\* agents' init subscribes, coordinator.init loads the pending rows, and then it
\* is put into the map, in the place of one that another call has built meanwhile;
\* a call that was given that one goes on with it.
BuildTeam(t) ==
  /\ team[t] = "none" /\ \A u \in Teams : home[u] = home[t] => team[u] # "serving"
  /\ team' = [team EXCEPT ![t] = "building"]
  /\ UNCHANGED <<cardVars, losses>> /\ TeamUnchanged
InitAgents(t) ==
  /\ team[t] = "building" /\ team' = [team EXCEPT ![t] = "loading"]
  /\ UNCHANGED <<cardVars, losses>> /\ TeamUnchanged
LoadApprovals(t) ==
  /\ team[t] = "loading" /\ team' = [team EXCEPT ![t] = "wiring"]
  /\ \/ held' = [held EXCEPT ![t] = rows] /\ UNCHANGED losses
     \/ Lose /\ UNCHANGED held
  /\ UNCHANGED <<rows, sending, answered, approved>> /\ TeamUnchanged
Serve(t) ==
  /\ team[t] = "wiring" /\ team' = [team EXCEPT ![t] = "serving"]
  /\ UNCHANGED <<cardVars, losses>> /\ TeamUnchanged
Listening == {t \in Teams : team[t] \in {"loading", "wiring", "serving"}}

\* The process ends with its requests, its Maps and the events it has not handled.
Handling == {"consent", "compliance", "drafting", "answering", "drafted"}
EndProcess(h) ==
  LET Ours == {t \in Teams : home[t] = h /\ team[t] # "none"} IN
  /\ \E t \in Ours : team[t] # "gone"
  /\ team' = [t \in Teams |-> IF t \in Ours THEN "gone" ELSE team[t]] /\ Lose
  /\ held' = [t \in Teams |-> IF t \in Ours THEN {} ELSE held[t]]
  /\ sending' = {d \in sending : d[1] \notin Ours}
  /\ answered' = {d \in answered : d[1] \notin Ours}
  /\ events' = {e \in events : e[1] \notin Ours}
  /\ ask' = [a \in Asks |-> IF ask[a].team \in Ours /\ ask[a].step \in Handling
                              THEN [ask[a] EXCEPT !.step = "failed"] ELSE ask[a]]
  /\ UNCHANGED <<shared, home, optOut, rows, approved, recorded, incoming>>

\* GET /v1/unsubscribe, from the footer of a mail; PATCH .../do-not-contact.
Unsubscribe(p) ==
  /\ optOut' = [optOut EXCEPT ![p] = @ \cup {"email_unsubscribed"}]
  /\ UNCHANGED <<shared, home, team, ask, cardVars, soundVars, incoming, losses>>
DoNotContact(p) ==
  /\ optOut' = [optOut EXCEPT ![p] = @ \cup {"do_not_contact"}]
  /\ UNCHANGED <<shared, home, team, ask, cardVars, soundVars, incoming, losses>>

---------------------------------------------------------------------------
\* matchRules: the longest key of a single dispatch, the first of equals; then
\* the others in the order of the file.
Hits(rules, keys) == {i \in DOMAIN rules : rules[i].key \in keys}
Before(rules, i, j) == rules[i].length > rules[j].length \/ (rules[i].length = rules[j].length /\ i <= j)
MatchRules(keys) ==
  LET single == Hits(SingleRules, keys)  later == Hits(LaterRules, keys) IN
  IF single # {} THEN {SingleRules[CHOOSE i \in single : \A j \in single : Before(SingleRules, i, j)]}
  ELSE IF later # {} THEN {LaterRules[CHOOSE i \in later : \A j \in later : i <= j]}
  ELSE {}

Drafting == {"draft_email", "linkedin_dm", "letter_draft", "send_message"}

\* Without a rule the model decides: an intent for an agent, one it is not sure
\* about, which becomes a question, or nothing usable (defaultDecision).
ByModel == [intent : Drafting \cup {"general"}, agent : {"comms", "other"}]
             \cup {[intent |-> "clarify", agent |-> "none"], [intent |-> "general", agent |-> "comms"]}

ClassifyIntent(keys) ==
  IF MatchRules(keys) = {} THEN ByModel
  ELSE {[intent |-> r.intent, agent |-> r.agent] : r \in MatchRules(keys)}

\* handleInbound.  Its request names no contact, whoever the text is about.
HandleInbound(a, t, p) ==
  /\ At(a, "unused") /\ team[t] = "serving"
  /\ \E keys \in Phrasings : \E d \in ClassifyIntent(keys) :
       ask' = [ask EXCEPT ![a] = [NewAsk EXCEPT !.team = t, !.about = p, !.to = Unknown, !.intent = d.intent,
         !.step = IF d.agent # "comms" \/ d.intent = "clarify" THEN "elsewhere"
                  ELSE IF d.intent = "draft_email" THEN "consent"
                  ELSE IF d.intent = "linkedin_dm" THEN "compliance"
                  ELSE IF d.intent \in Drafting THEN "drafting" ELSE "answering"]]
  /\ AskUnchanged

\* A mail came in: the draft of its reply goes to the sender's address.
EmailIngest(a, t, p) ==
  /\ At(a, "unused") /\ team[t] = "serving"
  /\ \E urgent \in BOOLEAN :
       ask' = [ask EXCEPT ![a] = [NewAsk EXCEPT !.team = t, !.about = p, !.to = p, !.intent = "email_ingest",
                                                !.step = IF urgent THEN "drafted" ELSE "answered"]]
  /\ AskUnchanged

\* The gate asks the relationship agent for 'contact_flags'; handleQuery there
\* answers these types, and "not found" to any other.
KnownQueries == {"contact_memory", "contact_preferences", "contact_match"}
GetContactConsent(c) ==
  IF c = Unknown \/ "contact_flags" \notin KnownQueries THEN {} ELSE optOut[c]

ConsentGate(a) ==
  /\ At(a, "consent")
  /\ ask' = [ask EXCEPT ![a].out = optOut[ask[a].about] # {},
                        ![a].step = IF GetContactConsent(ask[a].to) # {} THEN "answered" ELSE "compliance"]
  /\ AskUnchanged

\* checkCompliance looks at the instructions and lets an error pass.
CheckCompliance(a) ==
  /\ At(a, "compliance")
  /\ \E passed \in BOOLEAN : ask' = [ask EXCEPT ![a].step = IF passed THEN "drafting" ELSE "answered"]
  /\ AskUnchanged

\* The model's answer becomes an item to approve; a letter has no recipient.
Draft(a) ==
  /\ At(a, "drafting")
  /\ ask' = [ask EXCEPT ![a].step = "drafted",
                        ![a].to = IF ask[a].intent = "letter_draft" THEN NoRecipient ELSE @]
  /\ AskUnchanged
PlainAnswer(a) ==
  /\ At(a, "answering") /\ ask' = [ask EXCEPT ![a].step = "answered"] /\ AskUnchanged
AgentFails(a) ==
  /\ ask[a].step \in {"drafting", "answering"} /\ Lose
  /\ ask' = [ask EXCEPT ![a].step = "failed"]
  /\ UNCHANGED <<shared, home, team, optOut, cardVars, soundVars, incoming>>

---------------------------------------------------------------------------
CardUnchanged == UNCHANGED <<shared, home, team, optOut, soundVars, incoming>>

\* handleInbound offers the draft, or dispatches it where its type is automatic.
Offer(t, a) ==
  /\ At(a, "drafted") /\ ask[a].team = t /\ team[t] = "serving"
  /\ ask' = [ask EXCEPT ![a].step = "offered"]
  /\ held' = [held EXCEPT ![t] = @ \cup {a}]
  /\ UNCHANGED <<rows, sending, answered, approved, losses>> /\ CardUnchanged
SendAutomatically(t, a) ==
  /\ At(a, "drafted") /\ ask[a].team = t /\ team[t] = "serving"
  /\ ask' = [ask EXCEPT ![a].step = "offered"]
  /\ sending' = sending \cup {<<t, a>>} /\ approved' = approved \cup {<<t, a>>}
  /\ UNCHANGED <<held, rows, answered, losses>> /\ CardUnchanged

\* persistToDb writes every card of the Map, when any card is made, answered or
\* expires; so a row may come back that another team has closed.
PersistToDb(t, a) ==
  /\ a \in held[t] /\ rows' = rows \cup {a}
  /\ UNCHANGED <<ask, held, sending, answered, approved, losses>> /\ CardUnchanged

\* processApprovalResponse: the card leaves the Map, an approved one goes to the
\* agents of the team that was asked, and the row is updated after their answer,
\* an error or thirty seconds.
Answered(t, a) ==
  /\ team[t] = "serving" /\ a \in held[t]
  /\ held' = [held EXCEPT ![t] = @ \ {a}] /\ answered' = answered \cup {<<t, a>>}
Approve(t, a) ==
  /\ Answered(t, a)
  /\ sending' = sending \cup {<<t, a>>} /\ approved' = approved \cup {<<t, a>>}
  /\ UNCHANGED <<ask, rows, losses>> /\ CardUnchanged
Cancel(t, a) ==
  /\ Answered(t, a)
  /\ UNCHANGED <<ask, rows, sending, approved, losses>> /\ CardUnchanged
UpdateApproval(t, a) ==
  /\ <<t, a>> \in answered /\ answered' = answered \ {<<t, a>>}
  /\ \/ rows' = rows \ {a} /\ <<t, a>> \notin sending /\ UNCHANGED losses
     \/ rows' = rows \ {a} /\ <<t, a>> \in sending /\ Lose
     \/ <<t, a>> \notin sending /\ Lose /\ UNCHANGED rows
  /\ UNCHANGED <<ask, held, sending, approved>> /\ CardUnchanged

\* RedisEventBus.emit reaches whoever is subscribed now, EventBus the agents of
\* the team itself.
Hearers(t) == IF shared THEN Listening ELSE {t}
SendDraftsToo(t, a) ==   \* mutant: `approved` is not looked at
  <<t, a>> \in sending \/ (At(a, "drafting") /\ ask[a].team = t)
SendOnly(t, a) == <<t, a>> \in sending
SendMessage(t, a) ==
  /\ SendOnly(t, a) /\ sending' = sending \ {<<t, a>>}
  /\ \/ events' = events \cup (Hearers(t) \X {<<t, a>>}) /\ UNCHANGED losses
     \/ Lose /\ UNCHANGED events   \* the publish fails, or the dispatch before it
  /\ UNCHANGED <<shared, home, team, optOut, ask, held, rows, answered, approved, recorded, incoming>>

\* onEvent, updateContactInteraction: the line goes to the file named by the
\* first recipient; a write that fails is logged.
OnEmailSent(e) ==
  /\ e \in events /\ events' = events \ {e}
  /\ LET to == ask[e[2][2]].to IN
     \/ to = NoRecipient /\ UNCHANGED <<recorded, losses>>
     \/ /\ to # NoRecipient
        /\ recorded' = [recorded EXCEPT ![e] = @ + 1] /\ UNCHANGED losses
     \/ Lose /\ UNCHANGED recorded
  /\ UNCHANGED <<shared, home, team, optOut, ask, cardVars, incoming>>

---------------------------------------------------------------------------
\* extractSmsSignals stores the signals and pushes them; the row it makes for the
\* briefing has an id that its column refuses.
ExtractSmsSignals(x) ==
  /\ incoming[x] = "unused" /\ incoming' = [incoming EXCEPT ![x] = "pushed"]
  /\ UNCHANGED <<shared, home, team, optOut, ask, cardVars, soundVars, losses>>

\* update_contact: the relationship agent appends them to the profile.
UpdateContact(x) ==
  /\ incoming[x] = "pushed"
  /\ \/ incoming' = [incoming EXCEPT ![x] = "learned"] /\ UNCHANGED losses
     \/ incoming' = [incoming EXCEPT ![x] = "lost"] /\ Lose
  /\ UNCHANGED <<shared, home, team, optOut, ask, cardVars, soundVars>>

CommsNext ==
  \/ \E t \in Teams : BuildTeam(t) \/ InitAgents(t) \/ LoadApprovals(t) \/ Serve(t)
  \/ \E h \in Hosts : EndProcess(h)
  \/ \E p \in People : Unsubscribe(p) \/ DoNotContact(p)
  \/ \E a \in Asks :
       \/ \E t \in Teams, p \in People : HandleInbound(a, t, p) \/ EmailIngest(a, t, p)
       \/ ConsentGate(a) \/ CheckCompliance(a) \/ Draft(a) \/ PlainAnswer(a) \/ AgentFails(a)
       \/ \E t \in Teams : \/ Offer(t, a) \/ SendAutomatically(t, a)
                           \/ PersistToDb(t, a) \/ Approve(t, a) \/ Cancel(t, a)
                           \/ UpdateApproval(t, a) \/ SendMessage(t, a)
  \/ \E e \in Teams \X Dispatches : OnEmailSent(e)
  \/ \E x \in Incoming : ExtractSmsSignals(x) \/ UpdateContact(x)

CommsSpec == CommsInit /\ [][CommsNext]_commsVars

---------------------------------------------------------------------------
\* Each listening relationship agent writes an interaction into a profile at most
\* once for an approval, and never without one (comms.ts:150, relationship.ts:289):
\* the gate, the drafts, cards that are loaded and approved once more, doubled
\* coordinators, the events of all gateways and their losses never add one.
RecordedWasApproved ==
  \A e \in Teams \X Dispatches : recorded[e] <= (IF e[2] \in approved THEN 1 ELSE 0)

\* "Do-not-contact flag - system blocks all outbound for flagged contacts":
\* no e-mail is drafted for a contact who had opted out when the gate ran.
NoDraftForOptedOut ==
  \A a \in Asks : ask[a].out => ask[a].step \notin {"drafted", "offered"}
=============================================================================
