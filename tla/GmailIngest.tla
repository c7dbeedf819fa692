------------------------------ MODULE GmailIngest ------------------------------
(***************************************************************************)
(* src/webhooks/gmail-webhook.ts and src/agents/ops/gmail-ingest-job.ts:   *)
(* the mail of one tenant's inbox, from Gmail's push notification through  *)
(* the BullMQ queue and its concurrent workers to the rows of              *)
(* inbound_emails and the hand-over to the coordinator.                    *)
(*                                                                         *)
(* Mails are numbered by the historyId Gmail gives them, so the history    *)
(* since an id h is h + 1, h + 2, ...                                      *)
(***************************************************************************)
EXTENDS Integers, FiniteSets

CONSTANTS
  MaxMail,      \* bound: mails that arrive
  Relevant,     \* the mails classifyEmail wants ingested
  PageSize,     \* mails on the first page of history.list
  Replicas,     \* processes with a worker for the queue
  Concurrency,  \* jobs one of them processes at once (3)
  MaxJobs,      \* bound: jobs ever enqueued
  Attempts,     \* attempts BullMQ gives a job that throws
  MaxMishaps    \* bound: failing calls (Gmail, Redis, Postgres) and process crashes

ASSUME GmailAssumption ==
  /\ MaxMail \in Nat /\ MaxJobs \in Nat /\ MaxMishaps \in Nat
  /\ PageSize \in Nat \ {0} /\ Attempts \in Nat \ {0}
  /\ Replicas \in Nat \ {0} /\ Concurrency \in Nat \ {0}
  /\ Relevant \subseteq 1..MaxMail

Mails == 1..MaxMail
Jobs  == 1..MaxJobs
Workers == 1..Replicas
Nobody == 0       \* no worker has the job
Unset == -1       \* tenant_gmail_auth.history_id IS NULL

VARIABLES
  inbox,      \* Gmail: the mails that have arrived are 1..inbox
  pushes,     \* Pub/Sub: notifications not yet acknowledged
  pc,         \* where each job stands
  target,     \* its newHistoryId
  on,         \* the worker that runs it
  runs,       \* its attempts that threw
  at,         \* the mail it is at ...
  upto,       \* ... and the last one of its history list
  stalled,    \* the jobs BullMQ has recovered from a dead worker
  pointer,    \* tenant_gmail_auth.history_id
  rows,       \* inbound_emails: what is stored of each mail
  failed,     \* history: mails whose processing threw
  baseline,   \* history: highest id the pointer was set to without ingesting
  beyond,     \* history: mails a job owed its notification that were on a further page
  dispatched, \* history: how often each mail was handed to the coordinator
  faults, crashes

jobVars   == <<pc, target, on, runs, at, upto, stalled>>
gmailVars == <<inbox, pushes>>
dbVars    == <<pointer, rows, baseline>>
outVars   == <<failed, beyond, dispatched>>
bounds    == <<faults, crashes>>
vars == <<gmailVars, jobVars, dbVars, outVars, bounds>>

\* Another call may fail, or another process die.
Mishap == faults + crashes < MaxMishaps

Working == {"select", "baseline", "list", "check", "insert", "dispatch", "advance"}

Init ==
  /\ inbox = 0 /\ pushes = {}
  /\ pc = [j \in Jobs |-> "none"]
  /\ target = [j \in Jobs |-> 0]
  /\ on = [j \in Jobs |-> Nobody] /\ runs = [j \in Jobs |-> 0]
  /\ at = [j \in Jobs |-> 0] /\ upto = [j \in Jobs |-> 0]
  /\ pointer \in {Unset, 0} /\ baseline = 0
  /\ rows = [m \in Mails |-> "none"]
  /\ stalled = {} /\ failed = {} /\ beyond = {}
  /\ dispatched = [m \in Mails |-> 0]
  /\ faults = 0 /\ crashes = 0

(***************************************************************************)
(* Gmail, Pub/Sub and the webhook, which acknowledges before it works.     *)
(***************************************************************************)
NewMail ==
  /\ inbox < MaxMail
  /\ inbox' = inbox + 1
  /\ pushes' = pushes \cup {inbox + 1}
  /\ UNCHANGED <<jobVars, dbVars, outVars, bounds>>

Free == {j \in Jobs : pc[j] = "none"}

Enqueue(h) ==
  \E j \in Free :
    /\ \A i \in Free : j <= i
    /\ pc' = [pc EXCEPT ![j] = "waiting"]
    /\ target' = [target EXCEPT ![j] = h]
    /\ UNCHANGED <<on, runs, at, upto, stalled>>

Webhook(h) ==
  /\ h \in pushes
  /\ pushes' = pushes \ {h}
  /\ Enqueue(h)
  /\ UNCHANGED <<inbox, dbVars, outVars, bounds>>

\* Pub/Sub delivers at least once; a job is left over for every mail to come.
WebhookAgain(h) ==
  /\ h \in 1..inbox \ pushes
  /\ Cardinality(Free) > Cardinality(pushes) + MaxMail - inbox
  /\ Enqueue(h)
  /\ UNCHANGED <<gmailVars, dbVars, outVars, bounds>>

\* After the 204 the lookup or the enqueueing fails and is only logged.
WebhookFails(h) ==
  /\ h \in pushes /\ Mishap
  /\ pushes' = pushes \ {h} /\ faults' = faults + 1
  /\ UNCHANGED <<inbox, jobVars, dbVars, outVars, crashes>>

\* The OAuth callback stores the profile's current historyId.
Connect ==
  /\ pointer' = inbox /\ baseline' = inbox
  /\ UNCHANGED <<gmailVars, jobVars, rows, outVars, bounds>>

(***************************************************************************)
(* A job: ingestGmailForTenant and processMessage.                         *)
(***************************************************************************)
Goto(j, step) == pc' = [pc EXCEPT ![j] = step]

\* The job ends or is to be run again: its variables are gone.
Leave(j, to) ==
  /\ Goto(j, to)
  /\ on' = [on EXCEPT ![j] = Nobody]
  /\ at' = [at EXCEPT ![j] = 0] /\ upto' = [upto EXCEPT ![j] = 0]

RunBy(w) == {j \in Jobs : on[j] = w}

Start(j) ==
  /\ pc[j] = "waiting"
  /\ \E w \in Workers :
       /\ Cardinality(RunBy(w)) < Concurrency
       /\ on' = [on EXCEPT ![j] = w]
  /\ Goto(j, "select")
  /\ UNCHANGED <<target, runs, at, upto, stalled, gmailVars, dbVars, outVars, bounds>>

\* No valid token, or history.list fails: the job is over, and counts as done.
GivesUp(j) ==
  /\ pc[j] \in {"select", "list"} /\ Mishap
  /\ Leave(j, "done") /\ faults' = faults + 1
  /\ UNCHANGED <<target, runs, stalled, gmailVars, dbVars, outVars, crashes>>

SelectFromPush(j) ==   \* mutant: lists from the notification's id
  /\ pc[j] = "select"
  /\ IF pointer = Unset THEN Goto(j, "baseline") /\ UNCHANGED at
     ELSE Goto(j, "list") /\ at' = [at EXCEPT ![j] = target[j]]
  /\ UNCHANGED <<target, on, runs, upto, stalled, gmailVars, dbVars, outVars, bounds>>

Select(j) ==
  /\ pc[j] = "select"
  /\ IF pointer = Unset THEN Goto(j, "baseline") /\ UNCHANGED at
     ELSE Goto(j, "list") /\ at' = [at EXCEPT ![j] = pointer + 1]
  /\ UNCHANGED <<target, on, runs, upto, stalled, gmailVars, dbVars, outVars, bounds>>

Baseline(j) ==
  /\ pc[j] = "baseline"
  /\ pointer' = target[j]
  /\ baseline' = IF target[j] > baseline THEN target[j] ELSE baseline
  /\ Leave(j, "done")
  /\ UNCHANGED <<target, runs, stalled, rows, gmailVars, outVars, bounds>>

\* history.list: the first page of what is newer than the pointer that was read.
\* What was to follow, up to the job's notification, is on pages never asked for.
List(j) ==
  /\ pc[j] = "list"
  /\ LET last == at[j] - 1 + PageSize
     IN upto' = [upto EXCEPT ![j] = IF last < inbox THEN last ELSE inbox]
  /\ beyond' = beyond \cup {m \in Mails : upto'[j] < m /\ m <= target[j]}
  /\ Goto(j, IF upto'[j] < at[j] THEN "advance" ELSE "check")
  /\ UNCHANGED <<target, on, runs, at, stalled, failed, dispatched, gmailVars, dbVars, bounds>>

NextMail(j) ==
  /\ at' = [at EXCEPT ![j] = @ + 1]
  /\ Goto(j, IF at[j] = upto[j] THEN "advance" ELSE "check")

Check(j) ==
  /\ pc[j] = "check"
  /\ IF rows[at[j]] # "none" THEN NextMail(j) ELSE Goto(j, "insert") /\ UNCHANGED at
  /\ UNCHANGED <<target, on, runs, upto, stalled, gmailVars, dbVars, outVars, bounds>>

InsertInverted(j) ==   \* mutant: hands over what the filter ignores
  /\ pc[j] = "insert"
  /\ rows' = [rows EXCEPT ![at[j]] =
       IF @ # "none" THEN @ ELSE IF at[j] \in Relevant THEN "ingest" ELSE "ignored"]
  /\ IF at[j] \notin Relevant THEN Goto(j, "dispatch") /\ UNCHANGED at ELSE NextMail(j)
  /\ UNCHANGED <<target, on, runs, upto, stalled, pointer, baseline, gmailVars, outVars, bounds>>

\* The message is fetched and filtered; INSERT ... ON CONFLICT DO NOTHING.
Insert(j) ==
  /\ pc[j] = "insert"
  /\ rows' = [rows EXCEPT ![at[j]] =
       IF @ # "none" THEN @ ELSE IF at[j] \in Relevant THEN "ingest" ELSE "ignored"]
  /\ IF at[j] \in Relevant THEN Goto(j, "dispatch") /\ UNCHANGED at ELSE NextMail(j)
  /\ UNCHANGED <<target, on, runs, upto, stalled, pointer, baseline, gmailVars, outVars, bounds>>

\* Fetching or storing one mail, or the hand-over, throws: on to the next.
MailFails(j) ==
  /\ pc[j] \in {"check", "insert", "dispatch"} /\ Mishap
  /\ failed' = failed \cup {at[j]} /\ faults' = faults + 1
  /\ NextMail(j)
  /\ UNCHANGED <<target, on, runs, upto, stalled, gmailVars, dbVars, beyond, dispatched, crashes>>

\* The coordinator has handled the message, or answered that it could not.
Dispatch(j) ==
  /\ pc[j] = "dispatch"
  /\ dispatched' = [dispatched EXCEPT ![at[j]] = @ + 1]
  /\ NextMail(j)
  /\ UNCHANGED <<target, on, runs, upto, stalled, failed, beyond, gmailVars, dbVars, bounds>>

AdvanceToInbox(j) ==   \* mutant: stores the mailbox's current historyId
  /\ pc[j] = "advance"
  /\ pointer' = inbox
  /\ Leave(j, "done")
  /\ UNCHANGED <<target, runs, stalled, rows, baseline, gmailVars, outVars, bounds>>

Advance(j) ==
  /\ pc[j] = "advance"
  /\ pointer' = target[j]
  /\ Leave(j, "done")
  /\ UNCHANGED <<target, runs, stalled, rows, baseline, gmailVars, outVars, bounds>>

\* A query outside processMessage throws: BullMQ tries the job again.
JobThrows(j) ==
  /\ pc[j] \in {"select", "baseline", "advance"} /\ Mishap
  /\ runs' = [runs EXCEPT ![j] = @ + 1]
  /\ Leave(j, IF runs'[j] < Attempts THEN "waiting" ELSE "failed")
  /\ faults' = faults + 1
  /\ UNCHANGED <<target, stalled, gmailVars, dbVars, outVars, crashes>>

\* A process dies with every job it runs. BullMQ finds them stalled and queues
\* them again, each once: a job that stalls a second time has failed.
Crash(w) ==
  /\ RunBy(w) # {} /\ Mishap
  /\ pc' = [j \in Jobs |-> IF j \notin RunBy(w) THEN pc[j]
                           ELSE IF j \in stalled THEN "failed" ELSE "waiting"]
  /\ on' = [j \in Jobs |-> IF j \in RunBy(w) THEN Nobody ELSE on[j]]
  /\ at' = [j \in Jobs |-> IF j \in RunBy(w) THEN 0 ELSE at[j]]
  /\ upto' = [j \in Jobs |-> IF j \in RunBy(w) THEN 0 ELSE upto[j]]
  /\ stalled' = stalled \cup RunBy(w) /\ crashes' = crashes + 1
  /\ UNCHANGED <<target, runs, gmailVars, dbVars, outVars, faults>>

Work(j) ==
  Start(j) \/ Select(j) \/ Baseline(j) \/ List(j) \/ Check(j)
    \/ Insert(j) \/ Dispatch(j) \/ Advance(j)

Next ==
  \/ NewMail
  \/ Connect
  \/ \E h \in Mails : Webhook(h) \/ WebhookAgain(h) \/ WebhookFails(h)
  \/ \E j \in Jobs : Work(j) \/ GivesUp(j) \/ MailFails(j) \/ JobThrows(j)
  \/ \E w \in Workers : Crash(w)

Spec == Init /\ [][Next]_vars

\* Pub/Sub delivers, BullMQ serves its queue and a handler runs to its end.
FairSpec ==
  /\ Spec
  /\ \A h \in Mails : WF_vars(Webhook(h))
  /\ \A j \in Jobs : SF_vars(Start(j)) /\ WF_vars(Work(j))

--------------------------------------------------------------------------------
(***************************************************************************)
(* Properties.                                                             *)
(***************************************************************************)
TypeOK ==
  /\ inbox \in 0..MaxMail /\ pushes \subseteq Mails
  /\ pc \in [Jobs -> Working \cup {"none", "waiting", "done", "failed"}]
  /\ target \in [Jobs -> 0..MaxMail] /\ runs \in [Jobs -> Nat]
  /\ on \in [Jobs -> Workers \cup {Nobody}] /\ stalled \subseteq Jobs
  /\ at \in [Jobs -> 0..MaxMail + 1] /\ upto \in [Jobs -> 0..MaxMail]
  /\ pointer \in {Unset} \cup 0..MaxMail /\ baseline \in 0..MaxMail
  /\ rows \in [Mails -> {"none", "ingest", "ignored"}]
  /\ failed \subseteq Mails /\ beyond \subseteq Mails
  /\ dispatched \in [Mails -> Nat]
  /\ faults \in 0..MaxMishaps /\ crashes \in 0..MaxMishaps

\* Mails the pointer has passed are stored, or their processing threw, or they were
\* on a page that was not asked for: whatever the order, repetition and overlap of the
\* jobs, their retries and crashes.
PointerCovers ==
  \A m \in Mails : baseline < m /\ m <= pointer =>
    rows[m] # "none" \/ m \in failed \/ m \in beyond

\* A mail that arrives is stored in the end, unless a call fails, a job is given up, a
\* reconnect passes the mail or a page ends before it: the notification that Pub/Sub
\* repeats, the queue and the retry after a crash make up for all else.
EveryMailStored ==
  \A m \in Mails : m <= inbox ~>
    \/ rows[m] # "none" \/ m <= baseline \/ m \in beyond
    \/ faults > 0 \/ \E j \in Jobs : pc[j] = "failed"

\* A failing call keeps at most one mail that is stored for ingestion from being handed
\* over, a process that dies at most one for each of the jobs it may run at once, and
\* nothing else does, however jobs overlap.
LostByMishapOnly ==
  (\A j \in Jobs : pc[j] \in {"none", "done", "failed"}) =>
    Cardinality({m \in Mails : rows[m] = "ingest" /\ dispatched[m] = 0})
      <= faults + Concurrency * crashes

================================================================================
