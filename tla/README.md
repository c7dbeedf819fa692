# RealClaw: TLA+ models, checks and proofs

RealClaw is a multi-tenant assistant for real-estate agents: a gateway in
TypeScript (`src/src`, Fastify, BullMQ, Redis, Postgres, several LLM providers)
and a React Native app (`src/apps/mobile`). A message from the phone is routed
to specialised agents; what they draft goes out automatically or after the user
has reviewed it; answers are streamed back over a WebSocket; e-mail, deadlines
and schedules come in through jobs.

This directory holds TLA+ modules of the parts whose correctness depends on
interleaving, failure and order, TLC configurations that check them on small
instances, and theorems that TLAPS checks for every value of the constants.
Paths below are relative to the repository (`src/...` in its own root).

    tlc -workers 2 -config MCApprovals.cfg MCApprovals
    tlapm ApprovalProofs.tla

| Module | Models | Run | Proofs |
|---|---|---|---|
| `ApprovalManager`, abstract `ApprovalGate` | `coordinator/approval.ts` with a database | `approvals` | `ApprovalProofs` |
| `ApprovalScreen` | the app's approval screens, deck and swipe cards | `approvals`, `screens_unseen` | `ApprovalProofs` |
| `MemoryManager` | `memory/memory-manager.ts`, `distributed-lock.ts` | `progress` | `MemoryProofs` |
| `Coordinator` | `coordinator/{coordinator,dispatcher,synthesizer}.ts` | `progress`, `coordinator_index` | `MemoryProofs` |
| `Showings` | the showings agent, access plans, `/v1/tours`, the swipes | `progress` | `GatewayProofs` |
| `Contacts` | the contact form, pending contacts, `POST /v1/contacts`, contact files, the dossier sheet | `progress` | `MemoryProofs` |
| `Paywall` | the phone's subscription store and the screens that sell the plan | `progress` | `PhoneProofs` |
| `Inbox` | texts that come in on one phone: pushes, conversations, threads | `progress` | `PhoneProofs` |
| `GmailIngest` | `webhooks/gmail-webhook.ts`, `gmail-ingest-job.ts`, the OAuth baseline | `gmail_ingest` | `JobProofs` |
| `OfflineQueue` | the app's `offline-queue.ts`, its table and screen | `phone` | `PhoneProofs` |
| `Connections` | the vault, Gmail's OAuth, disconnect, watch renewal, tone analysis | `phone` | `GatewayProofs` |
| `ChatStream` | `POST /v1/messages`, `ws-session-manager.ts`, the app's `ws.ts` | `replies`, `chat_whole_reply` | `ChatProofs` |
| `Account` | sign-in, token rotation, RevenueCat events, the trial job | `account` | `PhoneProofs` |
| `TenantRegistry` | class `TenantRegistry` and `PUT /v1/preferences` in `index.ts` | `replies` | `GatewayProofs` |
| `Briefing` | the briefing's rows, endpoints and cards | `gateway` | `GatewayProofs` |
| `Integrations` | `base-integration.ts`, `rate-limiter.ts` | `gateway` | `GatewayProofs` |
| `LlmCall` | `llm/router.ts` and the providers | `gateway` | `ServiceProofs` |
| `Comms` | `coordinator/router.ts`, the comms agent, the approval of its draft, its event | `gateway`, `comms_consent` | `ServiceProofs` |
| `Sms` | texting, consent, STOP, the thread | `gateway`, `sms_stop` | `ServiceProofs` |
| `Studio` | the Studio screen and the content agent's tasks for it | `gateway` | `ServiceProofs` |
| `Kiosk` | the open house's sign-in and debrief | `gateway` | `ServiceProofs` |
| `Deals` | deal ingest, the deadline monitor, alerts | `approvals` | `ServiceProofs` |
| `Onboarding` | the setup wizard and the preferences it is picked by | `gateway` | `ServiceProofs` |
| `RouteOptimizer` | `features/routing/route-optimizer.ts` | `gateway` | `GatewayProofs` |
| `Heartbeat` | schedules in Redis or node-cron, daily jobs, shutdown | `gateway` | `JobProofs` |
| `Agents` | the agents' writes, approvals and events | `gateway` | `ApprovalProofs` |
| `Ranks` | sorting by a key, and selecting from a list, as functions | with `Coordinator`, `LlmCall`, `RouteOptimizer` | `RankTheorems` |

`MCApprovals`, `MCProgress`, `MCGateway`, `MCPhone`, `MCReplies`, ... give the
constants values. These five put several components that share no state into
one run: a variable `part` says which of them a behaviour is of, so that the
states of the parts add up and do not multiply.

## 1. Inventory

### The gateway's core

**Coordinator, dispatcher, synthesizer** (`src/src/coordinator`). State: per
message the decision of the intent router, the results of the agents, the
review cards. Operations: `handleInbound` (route, dispatch in single, parallel
or chain mode, split drafts into automatic and reviewed ones, reply, side
effects), `handleHeartbeat`, the `onExecute` callback that executes decisions.
Hard: agents that answer after their timeout, settings that change while agents
run, card positions that refer to a list which has been split since. Correct
when a draft is neither lost nor sent against its decision, and every message
gets a reply.

**Approval manager** (`approval.ts`). State: a Map of pending requests, a timer
each, a row each in `approvals`. Operations: create, respond, expire, reject
all, load. Hard: several HTTP handlers and timers between their awaits, a
process that dies between the send and the update of the row. Correct when a
request is answered once and leaves memory in the end.

**Intent router** (`router.ts`). Rules by length, then an LLM classification
with a threshold.

**Tenant registry** (`index.ts`). State: a map from tenant to a coordinator, its
memory, its integrations. Hard: check-then-build across a dozen awaits, three
replicas without session affinity. Correct when a tenant's calls meet one
coordinator, with the settings of the database and the approvals of its table.

**Memory manager and lock** (`src/src/memory`). State: Markdown files by tenant,
lock keys in Redis, the tokens of the locks held. Hard: processes that die in a
write, TTLs that run out, replicas on one volume. Correct when writers of a file
exclude each other and no reported write is lost.

**LLM router and providers** (`src/src/llm`). A fallback chain over providers,
streaming through a callback. Hard: a provider that fails in mid-stream, a phone
that leaves. Correct when an answer is what was streamed and was made from the
whole request.

**Agents** (`src/src/agents/*`) and the **event bus**. Prompts in, drafts, writes
and events out; every process with the tenant loaded hears every event. Correct
when what an event sets off ends, and profiles record what was sent and only that.

### Jobs and webhooks

**Gmail ingest.** State: the history pointer, `inbound_emails`, the queue. Hard:
notifications repeated and reordered, overlapping jobs, retries, crashes between
the row and the hand-over. Correct when every mail is stored and handed over.

**Gmail connection.** State: the vault's files and two rows, written one await at
a time by consent, disconnect, renewal and refresh. Correct when a disconnect
ends the access.

**Briefing and deal-deadline jobs.** An alert is looked for, then inserted; a
retried job, a lost call and a dismissal can fall in between.

**Heartbeats and scheduling.** Repeatable jobs that every coordinator registers
again. Correct when a tick fires once.

**Subscriptions, sign-in and tokens.** Rows, rotating refresh tokens, events late,
repeated and out of order. Correct when a session ends for a reason only, and
the claims follow the store. On the phone: the plan in a store that several
loads write, from the gateway's row and from RevenueCat's SDK. Correct when the
phone shows what one load came to.

**Integrations and rate limiter.** Calls with refresh and retries; a window.

**Texting.** One number for all tenants; consent, STOP, inbound texts. Correct
when nobody is texted after STOP, and when a text that comes in is read or
announced, though its push, the list and its thread are separate reads of a row.

### Delivery and the phone

**Chat streaming.** Sockets per tenant, an AbortController per socket and
request; on the phone a buffer per request, the bubble, a set of pending ids.
Correct when a bubble never shows a text with a hole and whoever stays connected
gets an answer.

**Offline queue, pending contacts.** SQLite tables and overlapping drains.

**Approval screens, briefing, Studio, kiosk, tours, wizard.** Screens over shared
stores, with results that arrive after the card they belong to.

**Push notifications, cancellation store, audit log, sanitizer, cost tracker,
listings, deployment, CLI.** Output, filters, configuration or single
statements; `PROJECT.json` gives the reason for each.

### How the parts interact

    phone --POST--> gateway --> TenantRegistry --> Coordinator --> agents --> MemoryManager
      ^               |                              |    |                   integrations
      |  WebSocket    |                              |    +--> ApprovalManager --> approvals
      +---------------+<------- tokens, result ------+
    Gmail --> Pub/Sub --> webhook --> queue --> ingest job --> Coordinator
    RevenueCat, Twilio --> webhooks --> rows      Redis --> events to every process

Shared state: Postgres rows (between replicas and jobs), Redis keys (locks,
queues), the memory volume. Within a process, Maps that handlers share across
awaits. `PROJECT.json` lists every component with its status, and every hazard
with its line and the property that would catch it.

## 2. Conventions

*Atomicity.* JavaScript runs to the next `await`. So an action is the code
between two awaits, and what a handler awaits (a statement, a Redis command, a
dispatch) is in flight until an action that is its reply. Where nothing reads
what the resumed code changes before it runs, the effect of the command and the
code that resumes on it are one action; each module says where.

*Failures.* A call that fails takes the code's catch branch. Crashes empty what
is in memory and keep what is in Postgres, Redis or on disk. Counters `Max...`
bound how many there are in a run of TLC; the theorems hold for any number.

*History variables* are marked `history:` in the declarations. No guard of the
code's actions reads one, with one exception that is part of the environment:
the user can only answer an approval that was `announced`.

*Alternatives named `mutant:`* beside an action are versions of it with a
plausible bug (a dropped guard, a missing reset, a swapped order). No
specification uses one; put in place of the action each makes TLC report the
property that `PROJECT.json` pairs with it.

*Data.* Texts, e-mails and prompts are numbers or model values. Times are
booleans (elapsed, slow) or free choices.

*Deadlock* is not checked: a phone nobody touches, a queue that is empty and an
exhausted bound all stop a behaviour. Where something must go on, a liveness
property says so.

## 3. The runs and their modules

A passing run finishes its whole state space. The bounds named below are those of
the `.cfg`; each is the least with which the case that the property is about
happens.

### `approvals`: ApprovalManager, ApprovalGate, ApprovalScreen, Deals

*Manager.* `pending` is the Map, `timers` the keys of `expiryTimers`, `row` the
`approvals` table; `pc`, `job`, `visited` and `sent` say where each activation
(an HTTP handler or a timer callback) awaits and which upsert it has in flight.
`Create`, `CreateReturns`, `Announce` are `createApprovalRequest` and the reply
that shows it; `Respond` (with `RespondUnknown`, `RespondExpired`),
`ExecuteReturns`, `MarkReply` and `UpsertReply` are `processApprovalResponse`
with the pass of `persistToDb` over the live Map; `ExpiryTimer`, `Crash`,
`LoadFromDb` the rest. `ApprovalGate` is what the coordinator may rely on: a
request is opened once, spent by one answer or its expiry, and only an answer
sends; a restart may reopen what was spent. The refinement maps a request to
"open" when it is in the Map, "spent" when it was drawn and is not, "new"
otherwise.

*Screens.* Two things push the screen of an approval over whatever is open: the
answer to Studio's paperwork form (`studio.tsx:229`) and the timer of 400 ms that
the briefing starts when its list gets empty (`briefing.tsx:61-66`). All screens
share one deck. The third way the code has, a completed task (`ws.ts:197-201`), is
left out: no message of the app comes back with `hasApproval` (section 5).
Approving waits for the biometric prompt with the callback of the card as it was
drawn, so what it records goes to the deck the store holds by then.

*Deals.* What a deal asks of the user by its deadlines: the ingest of a contract
statement by statement, the job of a day run again after a crash, dismissals and
completed milestones meanwhile. `OneAlertPerMilestoneAndDay`. Two milestones, one
fault.

`SentOncePerStart`: the items go out at most once for each start of the process
(after a crash between send and UPDATE they do go out again).
`NoReopenWhileUp`, `ImplementsGate`, `EventuallyLeaves`. `ExecutedWasSwiped`: an
item is executed for the swipe of its own card, or of a card of another approval
whose prompt was up.

Bounds: two requests and two activations, so that one handler's pass over the
Map meets another's answer to the same or the other request; one crash; one
failing statement. Two approvals of two cards and one, two screens pushed, one
post.
Fairness (the manager's): replies arrive, a dispatch ends (it has a 30 s
timeout), time passes and timers fire. The user need not answer.

*Divergence* `screens_unseen`: the user swipes a card right, and while the
prompt is up the carousel's timer or the paperwork's answer pushes another
approval; confirming the prompt then approves a card of that one, which was never
shown (`app/approval/[id].tsx:140`).

### `progress`: MemoryManager, Coordinator, Showings, Contacts, Paywall, Inbox

*MemoryManager.* `held` is what each lock store keeps under `lock:<path>`,
`tokens` the `lockTokens` of each manager, `wire` the commands each manager has
sent to Redis (one connection, answered in order), `file` the contents as the
set of writers whose change they hold. `Call`, the steps of the body by
operation (truncating and filling are two steps, as a `writeFile` is), the
finally with its delete script, `Reply`, `Expire`, `Crash`. `OneWriterPerFile`,
`ReportedWritesKept`; `LockIsFreed` (in `WorkEnds`). Assumption
`SlowWrites = FALSE`: no write outlasts the lock's TTL of five seconds. Without
it exclusion does fail, as for every lock with a TTL and no fencing. Three
writers of a file, two through one manager and one through another, are the
least with which a manager's token per path meets a second writer of its own and
a stranger; one crash, one failing command.

*Coordinator.* One inbound message with `N` agents. `Dispatch` in a mode;
`HandlerReturns`, `HandlerRejects` (threw or timed out), `LateReturn`; `Collect`
splits the drafts; `Offer` ends with an approval request, or `ReplyNow` and
`RunEffects` go on; `Answer` and `Execute` are the phone's decisions and
`onExecute`. An agent drafts at most one action, which identifies drafts with
agents. `DraftsMeetTheirReview` is `ReviewIsObeyed` (where no item was automatic),
`NoDraftIsLost` (single and parallel) and `DispatchedOnce`: no draft goes out
twice, although indices and positions differ once items were split off;
`DecisionsEnd` is in `WorkEnds`. Three agents, the least with a first, a middle
and a last one; two action types, one of which always requires
approval. `"shared"` is what the app sends for a card shared through another
app, which the gateway treats like a cancellation; `"edit"` is left out, as a
cancelled and an edited card take the same branch (`coordinator.ts:80`).

*Showings.* One buyer: a search writes property results, the phone's swipes add
stops to days, the agent negotiates access and computes routes; each await of a
handler is a step of its slot, so handlers of one day interleave.
`RouteCoversCheckedStops`; `ResolvedDayIsRouted`, unless a statement failed for
the day. Three listings, two of which need no negotiation and one a call; two
days, two stops a day, one negotiation, two handlers at a time.

*Contacts.* The form's save or a drain of `pending_contacts` posts a payload; the
endpoint looks for the file, writes it and inserts the row, while the
relationship agent appends notes to the same file under a lock the endpoint does
not share. `NotesLostInTheWindowOnly`, `PendingContactIsStored`; for the dossier
sheet, whose summary arrives over the socket, `DossierShowsItsContact`. Two
people, one with an e-mail address; two drains; one refused post.

*Paywall.* A load of the subscription is a GET whose answer is taken, and then a
look at the SDK's entitlement; a sign-in, the listeners of the SDK and every
button of a paywall start loads of their own, each in a step of its own.
`PlanIsOneLoadsVerdict`: once all are done, the phone shows what one of them came
to, and never a mixture of two. The row and the SDK say anything at any time.
Two loads, as many as one purchase starts.

*Inbox.* `stored` and `unread` are the inbound rows and those with the status
`received`; a text is pushed to the phone or the push is lost; the list of
conversations and a thread are read by statements and set on the phone when they
arrive (`Lists`, `Opens`). `NoTextPassesUnnoticed`: a text is marked read only
when a thread has contained it (`ReadWasShown`), and an unread one has a badge
(`UnreadIsAnnounced`), apart from the cases the code leaves open, which the
history variables `slipped` and `muted` name one by one. Two contacts, two texts,
one list and one thread, with a page of one text: the least with which a text
falls beyond the page, comes between two statements, or is overtaken by a list.

Fairness: some step of a write, of Redis or of a TTL is taken as long as there is
one; `withTimeout` settles every dispatch whether or not the agent returns;
handlers and drains go on, and the phone reconnects again and again. The
fairness of a part is that of the disjunction of its steps (a weaker assumption
than one for each).

*Divergence* `coordinator_index`: with an automatic item in front, the decision
about one card is executed on another (`coordinator.ts:82`).

### `gmail_ingest`: GmailIngest

Mails are numbered by their historyId. `Webhook` acknowledges and enqueues,
`WebhookAgain` is a repeated delivery; `Start` gives a job to a process (`on`),
which runs up to `Concurrency` at once (`gmail-ingest-job.ts:365`: three); then a
job selects the pointer, lists the first page of what is newer, and for each mail
checks for the row, inserts and hands over, and sets the pointer at the end.
`Connect` is the OAuth callback's baseline. Calls fail (`MailFails` is caught per
mail, `JobThrows` fails the job, `GivesUp`), and a process dies with all the jobs
it runs (`Crash`), which BullMQ finds stalled and queues once more each.

`PointerCovers`: what the pointer has passed is stored, or its processing threw,
or it was on a page nobody asked for (`beyond`, the mails between the end of the
page and the id the job was told). `LostByMishapOnly`: a failing call keeps at
most one stored mail from being handed over, and a process that dies at most one
for each of the jobs it may run at once. `EveryMailStored`, with the same three
exceptions and for jobs BullMQ has not given up.

Two mails, both relevant, a page of one (so that a second mail can lie on the
second page), and three jobs, two of them at once in one process: two jobs
overlap, one crash can keep two mails from their hand-over, and a third job
follows; two attempts; one mishap of any kind. Fairness: weak for the webhook and
a job's work; strong for `Start`, since a process has room only now and then and
the queue serves in order.

That one page is asked for and the pointer then set past the others is a fault of
the code (section 5); `beyond` names what it costs, so that the other ways to lose
a mail stay visible.

### `phone`: OfflineQueue, Connections

*OfflineQueue.* `Tap` captures the connection status, `Saved` decides by it; a
drain reads a snapshot, posts row by row and removes or counts up. `Reconnect`,
`GoDown`, `LeaveScreen`, `OpenScreen`, `Kill`. A post may be accepted with its
response lost. `KeptUntilSent`; `DrainsOverReconnects`, for a user who stays on
the screen while the connection keeps dropping and coming back. Two messages,
two drains that overlap, `MaxRetry = 1` so that a drain gives up and drops a row,
one kill. Fairness: calls that were started run on, and the reconnect timer fires.

*Connections.* `where` is the step of each consent, disconnect, watch renewal and
tone analysis; `vault` the keys of Gmail's files, `auth` and `watch` the rows.
`DisconnectEndsAccess` says what a disconnect leaves behind, and that only a job
under way at the time can leave it. Two consents, a disconnect between them, one
job of each kind and one failure.

### `replies`: ChatStream, TenantRegistry

*ChatStream.* `Post`, the gateway's steps for a request (`Gateway`: typing,
agents, tokens, `Restart`, completion, failure), `Connect`, `Break`,
`Unregister` (the gateway notices and aborts what the tenant has under way),
`Close` (the phone notices), `Deliver`, `Flush`, `ResponseLost`. The text of a
bubble is the sequence of the tokens it shows. `Restart` is the fallback of
`llm/router.ts`: a provider breaks off amid its stream and the next streams from
the start through the same callback. `ShownIsAPiece`, `SettledWhileConnected`.
One request, since requests touch only their own entries and meet only through
an abort, which the onlooker's disconnect causes as well; three tokens, so that
a flush can fall between any two and a piece can have a hole; a phone with two
sockets in turn and an onlooker with one; one fallback provider. Fairness: the
gateway's promises settle and a phone handles what has arrived; none for
`Unregister` and `Close`, as a half-open socket can stay unnoticed.

*TenantRegistry.* Calls are sent to replicas by a balancer without affinity
(`replicaOf`, any assignment). A call takes the coordinator out of its replica's
map or builds one over four awaits; a `Save` goes from a toggle through the row
to the coordinator of the replica it reached, and no other is told. `eager` is
the default tenant, built when a replica boots. `ReplicaFollowsDb` is
`SettingsFollowDb` and `ApprovalServed`: when no call is under way, a replica
serves the settings of the database and every approval that was made at it. The
code leaves three cases open, and the history variables name them: two calls
that built at once at the replica (`doubled`, `index.ts:120`); a row that
changed at another replica, or by the other of two saves that crossed (`stale`,
`index.ts:1103`), until the replica's next save; and a SELECT that failed
(`stale`, `index.ts:183`). A restart ends all three. So the property says that
these are the only ways in which a replica departs from the database.

Two replicas, one message and two saves sent to them in every way (up to the names
of the replicas and of the saves), and one failing statement or restart: the least
with which saves cross at one replica, or pass a coordinator of the other by, and a
coordinator is built again after that. No fairness: the property is one of safety.

*Divergence* `chat_whole_reply`: each flush replaces the text by the chunk since
the last one, so the finished bubble is the tail of the reply
(`apps/mobile/lib/ws.ts:27`).

### `account`: Account

The tables `tenants` and `refresh_tokens`, RevenueCat's events, the trial job, and
one phone: its auth store, SecureStore, the shared `refreshPromise` and the
requests of `authedFetch`. A rotation is two statements (`Rotate`, `IssuePair`),
and the phone stores the pair before it uses it (`StoreTokens`, `SetTokens`).
`SignedOutForAReason`, `SettledRowMatchesStore`, `ClaimsCatchUp`. One tenant, two
overlapping requests, four tokens, two events, one mishap. Fairness: the oldest
event is delivered in the end, the app is started and used, and what is under
way goes on.

### `gateway`: eleven parts checked for safety

- *Briefing.* Rows, the lists the phone has read, swipes, and the three awaits of
  `approve`. `ItemIsHandledOnce`. One item, two taps, two mishaps.
- *Integrations.* `authenticatedRequest` step by step. `TwoFetchesPerCount`. Two
  requests, a window of two, three answers that are not 200.
- *LlmCall.* The provider a tier and an agent resolve to (`config/models.json`),
  every kind of HTTP answer, tokens, broken streams, an abort.
  `AnswerFitsRequestAndStream`. Two tokens and a chain of three.
- *Comms.* From the rule keys of a text through routing, the consent and
  compliance gates, the card in the Map of its coordinator and its row, the
  approved send and its event, to the profiles. A *team* is a coordinator with its
  agents as one call of `getOrCreate` builds it: overlapping first calls give one
  process several, each with its own bus subscription and its own Map loaded from
  the same rows, and a process that dies between a dispatch and the row's UPDATE
  leaves a row that is loaded and may be approved again. So one draft can go out
  and be recorded more than once. `RecordedWasApproved` is what remains true: each
  listener writes at most one line for each approval, and none without one. Two
  teams, of two processes on Redis or of one process; one request, one text, one
  failure or death.
- *Sms.* Two tenants with one person, with Twilio or without (`twilio`), and any
  of the rows with a number as the form writes it (`typed`). No text leaves at this
  commit (section 5), so `StopIsObeyed` speaks of the consent check and of the row:
  no request passes, or is recorded as sent, whose check came after the STOP was
  written, as far as the number is stored as Twilio writes it.
- *Studio.* Two presses whose answers and results come in any order, or not at
  all, over changes of mode, preset and `New`. `ResultIsOfLastPress`: a result that
  comes onto the screen is that of the last press. The exception is `New` pressed
  while an id is on its way (`mixed`): that id then takes the place of the next
  press's. The coordinator hands a studio task straight to the phone
  (`coordinator.ts:305-310`), so the approval that `content.ts:231` asks for is
  never made, and the compliance scan only marks the text.
- *Kiosk.* Two guests, two saves, two notes, one swallowed post.
  `NoteReachesItsGuest`.
- *RouteOptimizer.* `optimizeRoute` on every matrix of two drive times, booking
  and failure to geocode over three stops. `FlexibleNeverDelayAnchors`.
- *Onboarding.* Two users, two sign-ins, one outage, one kill, one reset.
  `AnswersAreKept`, an action property.
- *Heartbeat.* Two builds, two configurations, two ticks, one failure.
  `TickFiresOnce`.
- *Agents.* Tasks and events over two processes. `EventsDieOut`.

*Divergences.* `sms_stop`: the webhook opts out by a number in another format than
the form stores (`index.ts:2657`), so a request after the STOP passes the consent
check, and without Twilio is recorded as sent. `comms_consent`: the gate asks for
the contact `unknown` and passes (`comms.ts:19`).

## 4. What is proved

Each theorem holds for every value of the constants that satisfies the named
assumptions of its module; further hypotheses are in the third column.

| Theorem | States | Under |
|---|---|---|
| `ApprovalProofs!TypeCorrect` | `Spec => []TypeOK` | |
| `ApprovalProofs!SentOnce` | `Spec => []SentOncePerStart` | |
| `ApprovalProofs!NoReopen` | `Spec => NoReopenWhileUp` | |
| `ApprovalProofs!Implements` | `Spec => ImplementsGate` | |
| `ApprovalProofs!OnlySwipedItemsGoOut` | `ScreenSpec => []ExecutedWasSwiped` | |
| `MemoryProofs!Exclusion` | `Spec => []OneWriterPerFile` | `~SlowWrites`, `TenantsShareStore` |
| `MemoryProofs!ReportedAreKept` | `Spec => []ReportedWritesKept` | the same |
| `MemoryProofs!OwnersRelease` | `Spec => OnlyOwnerReleases` | `~SlowWrites` |
| `MemoryProofs!DraftsMeet` | `InboundSpec => []DraftsMeetTheirReview` | |
| `JobProofs!TypeCorrect` | `Spec => []TypeOK` | |
| `JobProofs!NothingPassed` | `Spec => []PointerCovers` | |
| `JobProofs!MishapsLoseOneEach` | `Spec => []LostByMishapOnly` | |
| `PhoneProofs!TypeCorrect` | `Spec => []TypeOK` | |
| `PhoneProofs!NoQueuedMessageLost` | `Spec => []KeptUntilSent` | |
| `PhoneProofs!PlansAreNotMixed` | `PSpec => []PlanIsOneLoadsVerdict` | |
| `PhoneProofs!TextsAreNoticed` | `ISpec => []NoTextPassesUnnoticed` | |
| `ChatProofs!TypeCorrect` | `Spec => []TypeOK` | |
| `ChatProofs!NoStaleController` | `Spec => []TrackedIsRunning` | |
| `ChatProofs!PiecesOnly` | `Spec => []ShownIsAPiece` | |
| `GatewayProofs!FetchesAreCounted` | `RequestsSpec => []TwoFetchesPerCount` | |
| `GatewayProofs!AccessEnds` | `ConnectionsSpec => []DisconnectEndsAccess` | |
| `GatewayProofs!ItemsAreHandledOnce` | `BriefingSpec => []ItemIsHandledOnce` | |
| `GatewayProofs!RoutesAreComplete` | `ShowSpec => []RouteCoversCheckedStops` | |
| `GatewayProofs!ReplicasFollowDb` | `RegistrySpec => []ReplicaFollowsDb` | |
| `ServiceProofs!StopIsKept` | `SmsSpec => []StopIsObeyed` | |
| `ServiceProofs!ResultsAreOfTheLastPress` | `StudioSpec => ResultIsOfLastPress` | |
| `ServiceProofs!NotesReachTheirGuests` | `KioskSpec => []NoteReachesItsGuest` | |
| `ServiceProofs!InteractionsWereApproved` | `CommsSpec => []RecordedWasApproved` | |
| `ServiceProofs!AlertsAreSingle` | `DealSpec => []OneAlertPerMilestoneAndDay` | |
| `ServiceProofs!AnswersOutliveOtherPasses` | `OnboardingSpec => AnswersAreKept` | |
| `MemoryProofs!NotesOutliveLaterPosts` | `ContactSpec => []NotesLostInTheWindowOnly` | |
| `MemoryProofs!StoredBeforeForgotten` | first half of `PendingContactIsStored` | |
| `MemoryProofs!DossiersAreNotMixedUp` | `DossierSpec => []DossierShowsItsContact` | |
| `ServiceProofs!AnswersFit` | `LlmSpec => []AnswerFitsRequestAndStream` | |
| `GatewayProofs!AnchorsAreOnTime` | `RouteSpec => []FlexibleNeverDelayAnchors` | |
| `JobProofs!TicksFireOnce` | `HeartbeatSpec => []TickFiresOnce` | |
| `ApprovalProofs!EventsEnd` | `AgentsSpec => []EventsDieOut` | |
| `PhoneProofs!SessionsEndForAReason` | `AccountSpec => []SignedOutForAReason` | |
| `PhoneProofs!RowsFollowTheStore` | `AccountSpec => []SettledRowMatchesStore` | |

None of the specifications has fairness, so each theorem is about every
behaviour of its component. The runs take the components with fairness and, in
the composed runs, beside others that stand still.

**Approvals.** `SentOncePerStart` is not inductive: a state in which a request
has gone out in this life and is still in the Map satisfies it, and one answer
later it is false. `SendInv` adds that such a request has gone out at most
`restarts` times (`UnspentSends`); that only drawn ids are in the Map, in a row
or in flight, so that `Create` puts in one that was never sent and the reload
brings back only what was (`OnlyDrawnIds`); and that a handler past its first
step has a request. The same invariant carries the refinement, where it is
needed at the crash and at the reload. For the screens, the invariant says of
every deck there is - in the store, drawn when the alert came up, on its way to
the gateway - that a decision to send is the swipe of the item it stands at or
one of another approval; swipes that wait for a prompt carry their own item.

**Locks.** Exclusion rests on the token under the key: `OwnersKnown` says that
a writer in its body owns the key and that its manager knows the token,
`SendersWait` that the sender of a command waits for its reply and sends its own
token, `OneCommandEach` that it has one command on the wire. So a reply resumes
exactly the writer that sent it, and a delete script cannot be under way while
its sender is back in a body. `KeptInv` adds what the file holds: a reported
write is in it, or in the buffer of the one writer in its body that has truncated
it; what that writer read before it truncated was all there was. Exclusion is
what makes the last point hold.

**Mail.** `Behind` says of the pointer and of every job that what lies before it
is covered: stored, failed, or before a baseline. A job's list starts where the
pointer was when it read it, and although the pointer may have moved meanwhile,
in either direction, what the job sets it to is covered: its page, and what was
between the end of the page and its own id, which `beyond` then holds.
`LostByMishapOnly` speaks of states in which all jobs are over; its invariant
counts the mails that are stored, never handed over and that no job is about to
hand over. `AdriftByMishap` says there are no more of them than failed calls and
`Concurrency` for each process that died: a call was about to hand over one mail,
and a process runs no more jobs than that (`Manned`).

**Offline queue.** `KeptUntilSent` needs that a drain about to remove a row has
seen it accepted (`RemovesAccepted`) and that the count in a row, or in a
snapshot of it, is at most the number of failed attempts (`RetriesAreFailures`):
otherwise two drains that count the same row up could drop it too early.

**Paywall.** What the phone shows while loads overlap is anything; but it was set
by the load whose answer was taken last, or raised by an entitlement since. The
invariant says of the shown plan that it is a verdict, or that a load which has
taken its answer has still to give one that it will agree with.

**Inbox.** A thread that has selected its rows has all that are unread of its
contact, or they have slipped; a list under way carries a badge for each
contact with an unread row that is not being pushed, or was overtaken. From these
two the UPDATE and the setting of the list preserve the property.

**Chat.** `ShownIsAPiece` speaks of the bubble only; what makes it true is on the
wire. `ChatInv` says that the tokens of a request on a socket rise without a gap
and, while the socket is registered and whole, reach the last one pushed
(`WiresStream`); that a live socket is the one its phone reads (`SocketsKnown`);
that a buffer holds consecutive tokens and the wire goes on where it ends
(`BuffersRun`); and that every text on a wire or in a bubble can be shown
(`TextInv`). The wire must reach the last token, or the next push would leave a
gap; this fails for a broken socket, to which nothing is pushed any more, and for
a new one, whose tokens begin anywhere, hence the buffer that `Close` drops.

**Requests to Gmail.** `FetchBudget` gives each step of a call what it has spent
of the two fetches its last count allows: nothing before the first, one between
the first and the second try, two at the end.

**Gmail connection.** What a disconnect has deleted comes back only through a
consent or a job that was under way with it, and every such pair is remembered
(`OverlapsAreMet`); so as long as none was met, what was deleted stays deleted
(`DeletedStays`), and after the end so does all of it (`EndedStays`).

**Briefing.** As long as an item has not come up again, it has at most one call
that is under way or has made a request, and its card is off the list or waits
for that call. The second half, that no request drops out of the review, is an
invariant of its own about the calls that are over.

**Showing days.** A negotiation gives a stop what its listing says
(`AccessOf`), so a stop that a route task found resolved stays so
(`SeenIsResolved`), and what the task then loads holds all it has seen
(`SeenIsLoaded`). The community modules' `SetToSeqs` enters through one lemma,
`OrdersAreComplete`.

**Tenant registry.** A coordinator belongs to the replica that built it (`Owned`).
At a replica where no builds have overlapped, one call at most is building, and
only while the map is empty, so whoever uses a coordinator uses the one in the map
(`Builders`). At a replica that is not stale, one save at most is between its row
and the coordinator, and its settings are those of the row (`OneUpdate`), so its
end brings the two together; in the meantime `MapFollows` asks for nothing. Cards
are created through the map's coordinator only, and a builder has loaded all there
are (`MapServes`).

**Texts.** A row whose number matches a STOP is never both opted in and stopped
(`StopsAreKept`), so a request that looks after the STOP is refused
(`LooksFirst`).

**Studio.** Until `New` is pressed at the wrong time, only the last press can have
its id on its way or be what the screen waits for, and the buttons are disabled as
long (`WaitsForLast`). So the id a result is compared with is that of the last
press.

**Comms.** A team dispatches a card at most once: a card leaves the Map as it is
answered (`HeldIsOpen`), comes into a Map when it is offered or when the team is
built, and a team that is being built has approved nothing yet (`Fresh`). What a
listener has recorded of a dispatch, what is on its way to it and the dispatch
itself are together at most one, and none before the approval (`HeardOnce`).

**Kiosk, deals.** A running save of a note is ended only by its own post or the
queue, and nothing else changes what the phone keeps of its guest. The monitor is
about to insert an alert only of a milestone that has none of the day, and nobody
else inserts one.

**Setup wizard.** Of a user who was not misled at most one PUT is on its way, and
only while the row is not done; on the main screens none is, and in the wizard
the row is not done. The invariant also follows the answers of GET: one that is
taken says what the row says, unless it was asked for another user.

**Contacts.** What was noted outside of every open check is in the file, and no
post is about to write that file; a post that reports "created" has its row,
which gives the action property.

**Sessions.** As long as nothing has happened that may end the session, the
secure store holds one, no sign-out is under way, and of the single-use tokens
the one that will be presented next is valid: the phone's and the store's while
no refresh is under way or one has just been posted, the new one once it was
answered. The proof needs that there is a token nobody holds when a pair is
issued, hence a finite set of at least four tokens.

**Subscription.** What the row says after the last event is a fold over the
events, but the fold need not be computed: `LastDecides` says that the last event
still to come that is not a change of id is what the store says, or the row says
it if there is none. That such an event matches the row when it arrives is the
work: `OneRename` places the change of id in the queue, with the old id before
it, the new one after it, and a row that does not know the new one yet; `NoRename`
says that otherwise the row knows the store's id. A second id is nobody's first
one (`AliasAssumption`).

**Reviews.** `InboundInv` follows a message through the split: each agent has one
card at most and, where nothing was automatic, a card's index is its place
(`CardsInPlace`); what was drafted is automatic or on a card (`SplitInTwo`); and
while decisions are executed those that are left belong to the last cards, and
the others are obeyed (`PartlyObeyed`). That the split loses and doubles nothing
(`CollectSplits`) rests on what `Ranks` says of a selection. `PartlyObeyed` needs
that nothing was automatic; for `DispatchedOnce`, which holds in any case,
`DecisionsWait` says instead that the decisions have different indices, and that
the card at the position of one that is left, whoever's it is, has not gone out.

**Language model.** The tokens pushed last are those of the provider that is asked
now, after at most what its predecessors pushed before they broke off. Whoever is
asked takes every part of the request: all providers but Ollama take images, and
`ImagesAssumption` says of `config/models.json` that neither the tier that looks
at images nor the chain leads to Ollama.

**Routes.** `optimizeRoute` goes over the stops twice: it places them, then it
computes the times again. The proof follows the partial routes of the first pass
and shows that the time reached is the one the second pass computes for them
(a stop that was placed before does not move), and that what is placed in the gap
before a booked stop leaves time to drive to it, within the tolerance. The loops
are functions over the natural numbers; since the library's induction theorems
cannot be used, `RankTheorems` replaces each induction by the set of the steps at
which the claim fails, which has no least element.

**Heartbeats.** For each tick, what has fired and the stalled jobs that will be
run again are at most the patterns whose time has come and the deaths of workers;
on timers, what has fired and the timers that have yet to fire are at most the
builds. A step moves one unit from the one to the other, so the sums hold
although no single element is bounded.

**Events.** A handler that takes an event off the bus may send others to each
process, so the number of events under way may grow. What it does not raise is a
weighted count (`SearchBudget`): the searches that have started, the contact events
on their way and, for each sign-in on its way, one search in each process are at
most the sign-ins so far times the square of the number of processes.

**Only model-checked.**

- Liveness, as fairness and ENABLED are beyond the prover: `EventuallyLeaves`,
  `WorkEnds`, `ResolvedDayIsRouted`, the second half of `PendingContactIsStored`,
  `EveryMailStored`, `DrainsOverReconnects`, `SettledWhileConnected`,
  `ClaimsCatchUp`.

Every other property of a passing run is stated by a theorem.

**What is bounded rather than excluded.** Some properties name, by a history
variable, the cases in which the code does lose or mix up something, and say that
there are no others: `DisconnectEndsAccess` (`late`), `NotesLostInTheWindowOnly`
(the window of `index.ts:1324`), `AnswersAreKept` (`misled`),
`NoTextPassesUnnoticed` (`slipped`, `muted`), `ReplicaFollowsDb` (`doubled`,
`stale`), `PointerCovers` (`failed`, `beyond`), `ResultIsOfLastPress` (`mixed`).
They would not report those cases themselves, which are the code's behaviour as it
is and are listed in section 5; what they catch is a further way. With `SlowWrites` true, a write that outlasts
its lock breaks exclusion at once; it is a hazard without a property.

## 5. Differences between code and documentation, and oddities, without a run

Met while reading; each is one line of code against one line of text, a hazard
without a property, or a behaviour the models allow and no property forbids.

**Coordinator, approvals, memory.**
- A card the user edited is skipped and nothing redrafts it (coordinator.ts:80).
  In a chain the drafts of all agents but the last are dropped
  (dispatcher.ts:72-80); with cards to review the side effects of the results
  are not dispatched (coordinator.ts:355).
- An answered request gets the status `approved` even if every item was
  cancelled (approval.ts:99). An upsert that another handler has in flight
  (approval.ts:187) can land after the UPDATE that closes the row, and the row is
  pending again.
- The lock's key has no tenant (memory-manager.ts:189), while
  tests/unit/memory/memory-manager-isolation.test.ts:51 says "tenant A and B can
  write the same relative path independently": on one Redis they block each
  other. The token is kept per path, not per call (:198), so with a write slower
  than the TTL the finally of one call can release the lock of another. `read()`
  takes no lock (:37).
- Overlapping first calls of a tenant build two coordinators (index.ts:120), and
  two saves of settings can reach row and coordinator in different orders
  (index.ts:1103). The comment at index.ts:1099 says of a save that "behavior
  changes immediately (no restart needed)"; of the three replicas of
  k8s/deployment-gateway.yaml:9 only the one that served the PUT changes, and at the
  others a type that was switched off still goes out by itself.
- `hasApproval` is never true for the app's messages (normalize.ts:222).

**Approval screens, briefing.**
- Closing one screen, or its timer, empties the shared deck of the one below;
  "All done!" comes whatever the status of the answer; after a network error the
  finished deck cannot be posted again.
- `POST /v1/briefing/:id/approve` ignores the edited draft it is sent, and does
  not look at `dismissed`. `pendingApprovalIds` is in memory only. A job that is
  run twice, or a regeneration, duplicates rows.

**LLM.** provider.ts says "Throw LlmProviderError on failure (not raw API
errors)"; a stream that breaks, bad JSON and aborts throw others. A fallback
streams the reply again after the broken one's tokens (llm/router.ts:86). Ollama
drops images and stop sequences, Google and Ollama ignore the signal. `cancel()`
has no caller and nothing reads `isBudgetExceeded`.

**Comms and agents.**
- Architecture.md:105-106 says the compliance gate "fails secure"; on an error
  `checkCompliance` passes (comms.ts:301-323). Architecture.md:93 has a consent
  check for LinkedIn messages, the code none.
- The single-word rules give task types without a case, which end as plain text;
  multi and chain keys with underscores match only literally, so the "open
  house" chain is never taken. Interactions go into `contacts/unknown.md` or a
  file named by the address, and every relationship agent that listens records the
  same one. An approval that was loaded again can be sent again. "EMAIL sent." is said though nothing sends.
- An approved `schedule_event` falls into the default case: no event is created.
  `sms-<uuid>` is refused by the UUID column, so urgent texts never reach the
  briefing (coordinator.ts:501). `markPastClient` names no contact, and neither
  does `transaction.closed`, so no post-closing task runs. `update_contact` never
  sets `criteriaChanged`.
- Writes of existing files or of another agent's domain are refused silently;
  ops says "saved" and timeline_manage "Milestone recorded" all the same.

**Gmail.** Architecture.md:788 says "Fetch Gmail history since last `history_id`";
one page is asked for (gmail-ingest-job.ts:176) and then the id of the notification
stored (:216), so without any failure the pointer passes the mails of the further
pages and they are never stored. The pointer can go back; a mail whose processing throws is passed by the
pointer (:211); overlapping jobs can hand a mail over twice. A disconnect during
a refresh leaves an access token; connect and disconnect interleaved can leave
the row live without tokens; a callback whose profile fetch fails says Connected
without a row. Architecture.md:439, 603 promise a cooldown of six hours for the
tone analysis, but `tone_analyzed_at` is stamped at its end, so two taps before
that queue two; its result is written where no agent reads it
(index.ts:1068-1085).

**Account.** Features.md:31 and 010_subscriptions.sql:2, 24 promise a 14-day
Professional trial, while the row of a new tenant fails
`assertPlan('professional')`. A RENEWAL that arrives after the EXPIRATION that
followed it gives access again; a CANCELLATION ends access at once. A transient
failure of a refresh signs the user out. DELETE /v1/account is called under a
wrong path; the export of texts without `sent_at` answers 500.

**Paywall.** The SDK keeps the first user's id, and the store of the phone is left
as the last user's until the first load is over, so a second user may be shown as
Professional. Who buys again after a cancellation may stay locked until the next
load, since the SDK does not outvote the row. The Studio screen returns before
some of its hooks when `isProfessional` changes, and the callback of
tours.tsx:255-276 lacks it among its dependencies.

**Texts.** `unreadCount` multiplies: it counts a join of the conversation with
itself (index.ts:2467). A push is kept for nobody; the suggestions for a reply
never arrive. twilio.sendSms hands URLSearchParams to JSON.stringify, so the body is
`{}`, which Twilio refuses (twilio.ts:25-31, base-integration.ts:67). Without
Twilio the row is stored as sent and the phone says so. A failed UPDATE loses a
STOP. The signals of a text are
inserted under a foreign key that does not exist.

**Showings, deals, listings.** GET /v1/tours/days answers 500
(`json_array_length` of JSONB) and the endpoints of live mode do not exist, so
the day list and live mode are never reached. Nothing emits
`showing.day_completed`. `dispatchPostTourReport` drops side effects. A slow GET
can overwrite SHOWING_ACCESS_UPDATE. The phone's dismissal of an alert posts to
an URL that does not exist; its deal detail reads `data.deal`, which is not
there, so completing and waiving are out of its reach. The sheet for contracts
shows an error for the 202 it gets. One failing statement ends the scan of a
tenant, and the monitor need not alert of every due milestone. The phone and the
gateway disagree about the shapes of listings.

**Studio, kiosk, contacts.** A result that arrives before its id, or whose push is
lost, leaves the spinner for ever, and so does a failed task, whose answer is no
studio result. The approval of content.ts:231 is dropped (coordinator.ts:305-310).
Two pieces of code have no way in: "Review & Post", since no result carries an
approval, and `/v1/content/regenerate`, which the phone never calls. Features.md:228 says guests are
sent when the phone is online again; the posts are swallowed
(KioskLockedView.tsx:123), notes never sync (DebriefCarousel.tsx:235), and each
note posts another guest. `POST /v1/contacts` ignores `success: false`
(index.ts:1324); the append of relationship.ts:343 after a failed write never
runs, as `write` returns instead of throwing; contacts without e-mail are
inserted again by a second post.

**Preferences.** The wizard's PUT and `savePref` do not look at `res.ok`. A GET
that fails at launch sends an old user through the wizard, whose end overwrites
the tier and the tone. The answer of a GET or PUT that crosses a sign-out decides
the next user's first screen. Two quick toggles lose the first.

**Heartbeats, shutdown.** A changed cron leaves the old repeatable in Redis; the
node-cron variant fires in every replica. index.ts (~3495) says "Stop BullMQ
workers (no new jobs start)" while several workers close in the last step only.
`server.close` waits for upgraded sockets, so a drain takes its 30 s; work after
a 202 is cut by `process.exit`. `morning_briefing` targets `coordinator`, which is
no agent. Jitter wraps past midnight without moving the weekday
(bullmq-heartbeat.ts:44-56).

**Integrations.** `sendMessage`, the calendar's and HubSpot's writes have no caller.
`getStatus` gives up after 5 s while the request goes on. Each coordinator has a
window of its own.

**Chat.** Pending correlation ids are not cleared for a failed or queued POST
(realclaw.tsx:127); half-open sockets are never terminated (index.ts:3440); an
offline message whose response is lost is posted twice.

## 6. What is not modelled

Listed component by component in `PROJECT.json`. In short: prompts, parsing and
formatting; signatures, encryption and identity providers; endpoints that are one
statement; view state. Within the modelled components: the approval manager's
file fallback; `MemoryManager.read`; heartbeats inside the coordinator; the drain's
`LIMIT 20`; the texts of answers, briefings and dossiers; of the paywall, prices,
trial days, the developer's override of the tier and the bypass of test builds.

## 7. Plan

Done: the core (what goes out in the user's name, what is kept, what the user
sees), the jobs and webhooks, the services of the gateway, the screens with
results that arrive late; theorems for the safety properties of all components
that a run checks.

Left, in this order:

1. An abstract mutual exclusion that `MemoryManager` implements, as
   `ApprovalManager` does its gate.
2. Listings and account deletion, once phone and gateway agree on their shapes.
