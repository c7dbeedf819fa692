-------------------------------- MODULE Agents --------------------------------
(***************************************************************************)
(* The agents of one tenant as each gateway process runs them: the tasks   *)
(* that write into the tenant's memory, ask for an approval or emit an     *)
(* event, and the events, which Redis carries to the agents of every       *)
(* process that has the tenant loaded.  src/agents/*, types/agents.ts.     *)
(* What a model writes into an answer is left out; what an answer depends  *)
(* on (an integration, a file, a model that fails) is a choice.            *)
(***************************************************************************)
EXTENDS Naturals, FiniteSets, TLC

CONSTANTS AgentHosts,    \* gateway processes
          Attendees,     \* people who sign in at an open house, by e-mail
          NoContact,     \* a payload without contactId
          MaxTasks, MaxEmits, MaxUnlucky   \* bounds: tasks, events, failed statements and publishes

ASSUME AgentsAssumption ==
  NoContact \notin Attendees /\ IsFiniteSet(AgentHosts) /\ IsFiniteSet(Attendees)

VARIABLES linked,     \* integrations the manager has
          awake,      \* processes whose registry has the tenant
          box,        \* [AgentHosts -> events published to it and not handled]
          saved,      \* entries of the memory, as <<domain, entry>>
          searches,   \* property searches started by an event
          attended,    \* sign-ins of the tasks so far
          tasks, emits, unlucky
agentVars == <<linked, awake, box, saved, searches, attended, tasks, emits, unlucky>>

---------------------------------------------------------------------------
\* AGENT_CONFIGS: what an agent hears, whom it may ask, where it may write.
Entry(hears, asks, writes) == [hears |-> hears, asks |-> asks, writes |-> writes]
FirstAgents ==
  [coordinator  |-> Entry({}, {}, {"system"}),
   comms        |-> Entry({}, {"relationship", "knowledge", "compliance"}, {"contacts"}),
   calendar     |-> Entry({}, {"relationship", "knowledge"}, {"contacts"}),
   relationship |-> Entry({"email.sent", "calendar.event_added", "transaction.milestone",
                           "transaction.closed", "open_house.signup"}, {}, {"contacts", "transactions"}),
   content      |-> Entry({}, {"knowledge", "compliance", "research"}, {"listings", "market-data"})]
OtherAgents ==
  [research     |-> Entry({}, {"knowledge"}, {"knowledge"}),
   transaction  |-> Entry({"transaction.started", "transaction.milestone", "transaction.closed"},
                          {"compliance", "relationship", "knowledge"}, {"transactions", "contacts"}),
   ops          |-> Entry({"system.error", "system.integration_down"}, {}, {"automations", "system"}),
   knowledge    |-> Entry({"listing.status_change", "transaction.closed", "knowledge.updated",
                           "contact.created"}, {}, {"knowledge"}),
   open_house   |-> Entry({}, {"relationship", "knowledge", "calendar"}, {"contacts", "listings"}),
   compliance   |-> Entry({"listing.new"}, {}, {"system"}),
   showings     |-> Entry({"contact.created", "contact.updated", "showing.access_confirmed",
                           "showing.day_completed"},
                          {"research", "calendar", "relationship", "knowledge"},
                          {"listings", "contacts"})]
AgentConfigs == FirstAgents @@ OtherAgents
Hears(a, type) == type \in AgentConfigs[a].hears

AgentsInit ==
  /\ linked \in {{}, {"calendar", "mls", "crmls"}}     \* bound: all of them or none
  /\ awake = {} /\ box = [h \in AgentHosts |-> {}] /\ saved = {}
  /\ searches = 0 /\ attended = 0 /\ tasks = 0 /\ emits = 0 /\ unlucky = 0

Unlucky == unlucky < MaxUnlucky /\ unlucky' = unlucky + 1
KeepEvents == UNCHANGED <<box, emits>>
KeepMemory == UNCHANGED saved

\* writeMemory: a domain of another agent is refused, and so is creating a file
\* again; both come back as a result, which most callers do not look at.
WriteMemory(a, domain, entry) ==
  \/ /\ saved' = IF domain \in AgentConfigs[a].writes THEN saved \cup {<<domain, entry>>} ELSE saved
     /\ UNCHANGED unlucky
  \/ Unlucky /\ KeepMemory

\* emit: fire and forget, to whoever is subscribed now.  An event remembers the
\* types of the events that led to it.
EventOf(type, who, causes) == [type |-> type, who |-> who, causes |-> causes, n |-> emits + 1]
Carry(boxes, es) == [g \in AgentHosts |-> IF g \in awake THEN boxes[g] \cup es ELSE boxes[g]]
Publish(boxes, es) ==
  /\ emits + Cardinality(es) <= MaxEmits /\ emits' = emits + Cardinality(es)
  /\ box' = Carry(boxes, es)
PublishLost(boxes) == Unlucky /\ box' = boxes /\ UNCHANGED emits
EmitTo(boxes, es) == (Publish(boxes, es) /\ UNCHANGED unlucky) \/ PublishLost(boxes)
Emit(es) == EmitTo(box, es)

---------------------------------------------------------------------------
\* init: the agents subscribe once they are built; close: what was on its way
\* to the process is gone.
Wake(h) ==
  /\ h \notin awake /\ awake' = awake \cup {h}
  /\ KeepEvents /\ UNCHANGED <<linked, saved, searches, attended, tasks, unlucky>>
Sleep(h) ==
  /\ h \in awake /\ awake' = awake \ {h} /\ box' = [box EXCEPT ![h] = {}] /\ Unlucky
  /\ UNCHANGED <<linked, saved, searches, attended, tasks, emits>>

\* A task of the dispatcher, the heartbeat or another agent reaches handleTask.
\* An exception becomes a failed result, like a task that only asks a model.
Task(h) == h \in awake /\ tasks < MaxTasks /\ tasks' = tasks + 1 /\ UNCHANGED <<linked, awake, searches>>
Answers == KeepEvents /\ KeepMemory /\ UNCHANGED <<attended, unlucky>>

\* neighborhood_stats keeps its report; competitive_track needs the MLS and tells
\* of the scan as a change of a listing.
ResearchTask(h) ==
  /\ Task(h)
  /\ \/ WriteMemory("research", "knowledge", "neighborhood") /\ KeepEvents
     \/ "mls" \in linked /\ Emit({EventOf("listing.status_change", NoContact, {})}) /\ KeepMemory
  /\ UNCHANGED attended

\* showing_coordinate; schedule_event only asks for an approval.
CalendarTask(h) ==
  /\ Task(h)
  /\ \/ "calendar" \in linked /\ Emit({EventOf("calendar.event_added", NoContact, {})})
     \/ KeepEvents /\ UNCHANGED unlucky
  /\ KeepMemory /\ UNCHANGED attended

\* timeline_manage writes a section of a file that must be there, and goes on
\* whatever came of it; closing_coordinate names no contact.
TransactionTask(h) ==
  /\ Task(h)
  /\ \/ /\ saved' \in {saved, saved \cup {<<"transactions", "milestone">>}}
        /\ Emit({EventOf("transaction.milestone", NoContact, {})})
     \/ Emit({EventOf("transaction.closed", NoContact, {})}) /\ KeepMemory
  /\ UNCHANGED attended

\* track_expense, set_rule, preference_manage: each appends a line.
OpsTask(h) ==
  /\ Task(h) /\ KeepEvents /\ UNCHANGED attended
  /\ \E line \in {<<"system", "line">>, <<"automations", "rule">>} : WriteMemory("ops", line[1], line[2])

\* remember_, knowledge_update.
KnowledgeTask(h) ==
  Task(h) /\ WriteMemory("knowledge", "knowledge", "entry") /\ KeepEvents /\ UNCHANGED attended

\* neighborhood_guide; the other texts only come back as an answer.
ContentTask(h) ==
  Task(h) /\ WriteMemory("content", "market-data", "guide") /\ KeepEvents /\ UNCHANGED attended

\* content_scan, wire_fraud_warn, the disclosure checks: answers only.
ComplianceTask(h) == Task(h) /\ Answers

\* process_signins: one event for each line of the list.
OpenHouseTask(h) ==
  /\ Task(h) /\ KeepMemory
  /\ \E guests \in SUBSET Attendees \ {{}} :
       /\ Emit({EventOf("open_house.signup", p, {}) : p \in guests})
       /\ attended' = attended + Cardinality(guests)

\* update_contact tells of it when the write went well; an enrichment does not.
UpdateContactTask(p) ==
  \/ /\ saved' = saved \cup {<<"contacts", p>>}
     /\ Emit({EventOf("contact.updated", p, {})})
  \/ WriteMemory("relationship", "contacts", p) /\ KeepEvents
RelationshipTask(h) == Task(h) /\ UNCHANGED attended /\ \E p \in Attendees : UpdateContactTask(p)

---------------------------------------------------------------------------
\* onMessage, then onEvent of every agent that hears the type.

\* The relationship agent: an interaction for the contact the payload names, a past
\* client likewise, and a file for a sign-in, whose event goes out whether or not
\* the file was there.
SignedUpAgain(e) == {EventOf("open_house.signup", e.who, e.causes \cup {e.type})}   \* mutant
ProcessSignup(e) == {EventOf("contact.created", e.who, e.causes \cup {e.type})}
RelationshipEvent(e, boxes) ==
  IF e.type = "open_house.signup"
  THEN /\ saved' = saved \cup {<<"contacts", e.who>>}
       /\ EmitTo(boxes, ProcessSignup(e))
  ELSE /\ box' = boxes /\ UNCHANGED emits
       /\ IF e.who = NoContact THEN KeepMemory /\ UNCHANGED unlucky
          ELSE WriteMemory("relationship", "contacts", e.who)

\* The knowledge base files the event; the showings agent starts a search for a new
\* contact, and for a changed one only if the payload says the criteria changed,
\* which update_contact never does.
KnowledgeEvent(e) == WriteMemory("knowledge", "knowledge", "event")
ShowingsEvent(e) == IF Hears("showings", e.type) /\ e.type = "contact.created" /\ "crmls" \in linked
                    THEN searches + 1 ELSE searches

OnMessage(h, e) ==
  LET boxes == [box EXCEPT ![h] = @ \ {e}] IN
  /\ h \in awake /\ e \in box[h]
  /\ searches' = ShowingsEvent(e)
  /\ IF Hears("relationship", e.type) /\ ~Hears("knowledge", e.type) THEN RelationshipEvent(e, boxes)
     ELSE /\ box' = boxes /\ UNCHANGED emits
          /\ IF Hears("knowledge", e.type) THEN KnowledgeEvent(e) ELSE KeepMemory /\ UNCHANGED unlucky
  /\ UNCHANGED <<linked, awake, attended, tasks>>

AgentsNext ==
  \E h \in AgentHosts :
    \/ Wake(h) \/ Sleep(h)
    \/ ResearchTask(h) \/ CalendarTask(h) \/ TransactionTask(h) \/ OpsTask(h) \/ KnowledgeTask(h)
    \/ ContentTask(h) \/ ComplianceTask(h) \/ OpenHouseTask(h) \/ RelationshipTask(h)
    \/ \E e \in box[h] : OnMessage(h, e)

---------------------------------------------------------------------------
\* What one event sets off comes to an end: no event leads to another of its own
\* type, through whichever agents and processes, and with every process hearing
\* every event, a sign-in starts at most one search for each pair of processes,
\* the one that filed it and the one that heard of the new contact.
EventsDieOut ==
  /\ \A h \in AgentHosts : \A e \in box[h] : e.type \notin e.causes
  /\ searches <= attended * Cardinality(AgentHosts) * Cardinality(AgentHosts)
=============================================================================
