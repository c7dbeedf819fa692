------------------------------- MODULE Deals --------------------------------
(***************************************************************************)
(* One deal in escrow: the ingest of a contract (src/agents/transaction),  *)
(* which inserts the deal, its milestones and its documents one statement  *)
(* at a time; the daily deadline monitor; the endpoints under /v1/deals;   *)
(* and the alerts of the phone's Deals tab.                                *)
(***************************************************************************)
EXTENDS Naturals, Sequences, SequencesExt, FiniteSets

CONSTANTS Milestones,    \* the template seeded, of a buyer or a seller, in order: 1..n
          Disclosures,   \* the disclosure rules, each with its document
          MaxDealFaults      \* bound on failed statements and crashed runs

ASSUME MilestonesAssumption == Milestones = 1..Cardinality(Milestones)

VARIABLES deal,        \* table deals: is the row there
          milestone,   \* table deal_milestones: [status, due]
          documents,   \* table deal_documents: [status]
          terms,       \* what the model read out of the contract: the date of
                       \* acceptance is there, the facts that trigger disclosures
          ingest,      \* where the deal_create task is
          alert,       \* table deal_alerts, by milestone: undismissed ones of the
                       \* last 23 hours, older undismissed ones
          monitor,     \* the daily job
          phone,       \* milestones whose alert the Deals tab shows
          sheetOpen,   \* the tab's sheet for a contract
          activeDeals, \* the deal is on the tab's list
          dealFaults

tabVars == <<sheetOpen, activeDeals>>
dealVars == <<terms, tabVars, deal, milestone, documents, ingest, alert, monitor, phone,
              dealFaults>>

NoTerms == [accepted |-> FALSE, facts |-> {}]
Absent == [status |-> "absent", due |-> "far"]
NoAlert == [fresh |-> 0, old |-> FALSE]
NoRun == [pc |-> "idle", todo |-> <<>>]

DealInit ==
  /\ terms = NoTerms /\ sheetOpen = FALSE /\ activeDeals = FALSE
  /\ deal = FALSE /\ ingest = "none" /\ dealFaults = 0
  /\ milestone = [m \in Milestones |-> Absent]
  /\ documents = [x \in Disclosures |-> "absent"]
  /\ alert = [m \in Milestones |-> NoAlert]
  /\ monitor = NoRun /\ phone = {}

Seeded == {m \in Milestones : milestone[m].status # "absent"}
Open(m) == milestone[m].status \in {"pending", "in_progress"}
Undismissed(m) == alert[m].fresh > 0 \/ alert[m].old

DealFault == dealFaults < MaxDealFaults /\ dealFaults' = dealFaults + 1
---------------------------------------------------------------------------
\* The tab's sheet takes a contract, one for this deal.
KeepTables == UNCHANGED <<deal, milestone, documents, alert, monitor, phone, dealFaults>>
AddDeal ==
  /\ ~sheetOpen /\ ingest = "none" /\ sheetOpen' = TRUE
  /\ UNCHANGED <<terms, activeDeals, ingest>> /\ KeepTables

CancelIngest ==
  /\ sheetOpen /\ sheetOpen' = FALSE
  /\ UNCHANGED <<terms, activeDeals, ingest>> /\ KeepTables

\* The answer of the ingest holds no id, so the phone calls it an error, and the
\* sheet closes.
IngestContract == sheetOpen /\ sheetOpen' = FALSE

\* POST /v1/deals/ingest is answered before anything is read.
RequestIngest ==
  /\ IngestContract /\ ingest = "none" /\ ingest' = "asked"
  /\ UNCHANGED <<terms, activeDeals>> /\ KeepTables

\* deal_ingest extracts the terms and goes on to deal_create, unless the model
\* fails or finds no address.
Extract ==
  /\ ingest = "asked"
  /\ \/ ingest' = "failed" /\ UNCHANGED terms
     \/ ingest' = "create" /\ terms' \in [accepted : BOOLEAN, facts : SUBSET Disclosures]
  /\ UNCHANGED <<deal, milestone, documents, alert, monitor, phone, dealFaults>>

\* The rules whose condition one of the facts meets: a fact the model did not find
\* meets none.
EvaluateDisclosureRules == Disclosures \cap terms.facts

\* A template's deadline counts from the acceptance; without one it is not there.
\* (A few have none in any case: they stay "far".)
Deadlines == IF terms.accepted THEN {"far", "near"} ELSE {"none"}

\* deal_create: the deal, the milestones in order, the documents, the memory
\* file, the event and the push.  A failed statement ends the task where it is.
InsertDeal ==
  /\ ingest = "create"
  /\ \/ deal' = TRUE /\ ingest' = "milestones" /\ UNCHANGED dealFaults
     \/ DealFault /\ ingest' = "failed" /\ UNCHANGED deal
  /\ UNCHANGED <<milestone, documents, alert, monitor, phone>>

SeedMilestone ==
  /\ ingest = "milestones"
  /\ IF Seeded = Milestones
     THEN ingest' = "documents" /\ UNCHANGED <<milestone, dealFaults>>
     ELSE \/ /\ \E m \in Milestones \ Seeded, due \in Deadlines :
                  /\ 1..(m - 1) \subseteq Seeded
                  /\ milestone' = [milestone EXCEPT ![m] = [status |-> "pending", due |-> due]]
             /\ UNCHANGED <<ingest, dealFaults>>
          \/ DealFault /\ ingest' = "failed" /\ UNCHANGED milestone
  /\ UNCHANGED <<deal, documents, alert, monitor, phone>>

InsertDocument ==
  /\ ingest = "documents"
  /\ LET left == {x \in EvaluateDisclosureRules : documents[x] = "absent"}
     IN  IF left = {} THEN ingest' = "announce" /\ UNCHANGED <<documents, dealFaults>>
         ELSE \/ /\ \E x \in left : documents' = [documents EXCEPT ![x] = "required"]
                 /\ UNCHANGED <<ingest, dealFaults>>
              \/ DealFault /\ ingest' = "failed" /\ UNCHANGED documents
  /\ UNCHANGED <<deal, milestone, alert, monitor, phone>>

\* GET /v1/deals: deals stay active.
ListDeals == deal

\* DEAL_INGEST_READY makes the phone read its list again, unless it is away.
AnnounceDeal ==
  /\ ingest = "announce"
  /\ ingest' = "done" /\ activeDeals' \in {activeDeals, ListDeals}
  /\ terms' = NoTerms
  /\ UNCHANGED sheetOpen /\ KeepTables

CreateStep ==
  \/ Extract /\ UNCHANGED tabVars
  \/ (InsertDeal \/ SeedMilestone \/ InsertDocument) /\ UNCHANGED <<terms, tabVars>>
  \/ AnnounceDeal

---------------------------------------------------------------------------
\* The endpoints complete and waive, whatever the milestone's status was.
CompleteMilestone(m) ==
  /\ milestone[m].status # "absent"
  /\ milestone' = [milestone EXCEPT ![m].status = "complete"]
  /\ UNCHANGED <<deal, documents, ingest, alert, monitor, phone, dealFaults>>

WaiveMilestone(m) ==
  /\ milestone[m].status # "absent"
  /\ milestone' = [milestone EXCEPT ![m].status = "waived"]
  /\ UNCHANGED <<deal, documents, ingest, alert, monitor, phone, dealFaults>>

\* PATCH of a document.  (The five statuses behave alike: two stand for them.)
UpdateDocument(x) ==
  /\ documents[x] # "absent"
  /\ documents' = [documents EXCEPT ![x] = IF @ = "required" THEN "signed" ELSE "required"]
  /\ UNCHANGED <<deal, milestone, ingest, alert, monitor, phone, dealFaults>>

\* POST /v1/deals/:id/alerts/:alertId/dismiss, for one alert of the milestone.
DismissAlert(m) ==
  /\ Undismissed(m)
  /\ alert' \in {a \in {[alert EXCEPT ![m].fresh = IF @ = 0 THEN 0 ELSE @ - 1],
                        [alert EXCEPT ![m].old = FALSE]} : a # alert}
  /\ UNCHANGED <<deal, milestone, documents, ingest, monitor, phone, dealFaults>>

\* The phone reads the undismissed alerts, and dismisses by hiding them: the
\* path it posts to is not the gateway's, so the row stays.
LoadAlerts ==
  /\ phone' = {m \in Milestones : Undismissed(m)}
  /\ UNCHANGED <<deal, milestone, documents, ingest, alert, monitor, dealFaults>>

LoadDeals ==
  /\ activeDeals' = ListDeals
  /\ UNCHANGED <<terms, sheetOpen, ingest>> /\ KeepTables

HideAlert(m) ==
  /\ m \in phone /\ phone' = phone \ {m}
  /\ UNCHANGED <<deal, milestone, documents, ingest, alert, monitor, dealFaults>>

---------------------------------------------------------------------------
\* The job of the day reads the open milestones that are due, by deadline.
Due(m) == Open(m) /\ milestone[m].due \in {"near", "overdue"}
ByDeadline ==
  SetToSortSeq({m \in Milestones : Due(m)},
               LAMBDA a, b : \/ milestone[a].due = "overdue" /\ milestone[b].due # "overdue"
                             \/ milestone[a].due = milestone[b].due /\ a < b)
StartMonitor ==
  /\ monitor.pc = "idle" /\ monitor' = [pc |-> "run", todo |-> ByDeadline]
  /\ UNCHANGED <<deal, milestone, documents, ingest, alert, phone, dealFaults>>

CheckExistingNever ==
  /\ monitor.pc = "run"
  /\ monitor' = [monitor EXCEPT !.pc = IF monitor.todo = <<>> THEN "ran" ELSE "insert"]
  /\ UNCHANGED <<deal, milestone, documents, ingest, alert, phone, dealFaults>>
\* For each of them: look for an undismissed alert of the last 23 hours...
CheckExisting ==
  /\ monitor.pc = "run"
  /\ IF monitor.todo = <<>> THEN monitor' = [monitor EXCEPT !.pc = "ran"]
     ELSE IF alert[Head(monitor.todo)].fresh > 0
     THEN monitor' = [monitor EXCEPT !.todo = Tail(@)]
     ELSE monitor' = [monitor EXCEPT !.pc = "insert"]
  /\ UNCHANGED <<deal, milestone, documents, ingest, alert, phone, dealFaults>>

\* handleDealAlert of the phone, unless it is away: the push is not kept.
HandleDealAlert(m) == phone' \in {phone, phone \cup {m}}

\* ... and insert one, and push it.  A failure ends the tenant's scan.
InsertAlert ==
  /\ monitor.pc = "insert"
  /\ LET m == Head(monitor.todo)
     IN  \/ /\ alert' = [alert EXCEPT ![m].fresh = @ + 1]
            /\ monitor' = [pc |-> "run", todo |-> Tail(monitor.todo)]
            /\ HandleDealAlert(m)
            /\ UNCHANGED dealFaults
         \/ DealFault /\ monitor' = [monitor EXCEPT !.pc = "ran"] /\ UNCHANGED <<alert, phone>>
  /\ UNCHANGED <<deal, milestone, documents, ingest>>

\* A crash of the worker: the queue hands the job out again.
MonitorCrashes ==
  /\ monitor.pc \in {"run", "insert"}
  /\ DealFault /\ monitor' = NoRun
  /\ UNCHANGED <<deal, milestone, documents, ingest, alert, phone>>

\* The next day: alerts grow older than 23 hours, deadlines come nearer.
NextDay ==
  /\ monitor.pc = "ran"
  /\ monitor' = NoRun
  /\ alert' = [m \in Milestones |-> [fresh |-> 0, old |-> Undismissed(m)]]
  /\ \E nearer \in SUBSET {m \in Seeded : milestone[m].due = "far"} :
       milestone' = [m \in Milestones |->
                       IF m \in nearer THEN [milestone[m] EXCEPT !.due = "near"]
                       ELSE IF milestone[m].due = "near"
                       THEN [milestone[m] EXCEPT !.due = "overdue"] ELSE milestone[m]]
  /\ UNCHANGED <<deal, documents, ingest, phone, dealFaults>>

MonitorStep == StartMonitor \/ CheckExisting \/ InsertAlert

DealNext ==
  \/ AddDeal \/ CancelIngest \/ RequestIngest \/ CreateStep \/ LoadDeals
  \/ /\ UNCHANGED <<terms, tabVars>>
     /\ \/ MonitorStep \/ MonitorCrashes \/ NextDay \/ LoadAlerts
        \/ \E m \in Milestones : \/ CompleteMilestone(m) \/ WaiveMilestone(m)
                                 \/ DismissAlert(m) \/ HideAlert(m)
        \/ \E x \in Disclosures : UpdateDocument(x)

---------------------------------------------------------------------------
\* However often the job of a day is run again after a crash, and whatever is
\* dismissed meanwhile, a milestone never has two open alerts of the same day.
OneAlertPerMilestoneAndDay == \A m \in Milestones : alert[m].fresh <= 1

=============================================================================
