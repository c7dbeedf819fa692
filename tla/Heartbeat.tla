------------------------------ MODULE Heartbeat -------------------------------
(***************************************************************************)
(* The heartbeat of one tenant: class BullMqHeartbeatScheduler of          *)
(* src/agents/ops/bullmq-heartbeat.ts, one instance for every coordinator  *)
(* that is built, and HeartbeatScheduler of heartbeat.ts where there is no *)
(* Redis.  The queue and its repeatable jobs are BullMQ's and live in      *)
(* Redis: a repeatable has one job delayed to its next tick, and taking    *)
(* that job delays the one after it.  The jobs of the whole gateway (the    *)
(* briefing, the deadline monitor, the expiry of trials, the purge of mail *)
(* and the renewal of Gmail watches) are repeatables too, registered by    *)
(* every process that starts.  A deployment shuts the processes down.      *)
(*                                                                         *)
(* Ticks are counted; a pattern is the cron expression with the tenant's   *)
(* jitter, the same at every replica of one version of the configuration.  *)
(***************************************************************************)
EXTENDS Naturals, FiniteSets

CONSTANTS
  Builds,        \* coordinators of the tenant, on any replica, each built again after a crash
  Schedules,     \* the enabled schedules, added one after the other
  Patterns,      \* versions of the configuration
  MaxTicks, MaxFailures   \* bounds

ASSUME HeartbeatAssumption == IsFiniteSet(Builds) /\ {MaxTicks, MaxFailures} \subseteq Nat

VARIABLES
  scheduler,   \* "bullmq"; "cron" without REDIS_URL; or "daily", the gateway's jobs
  tick,        \* ticks of the clock so far
  loadedBy,    \* of each build: "none", "adding", "up", "draining", "closing", "down"
  patternOf,   \* the configuration it read
  added,       \* the schedules it has added to the queue
  timers,      \* without Redis: what its timers have yet to fire for this tick
  nextDue,     \* the repeatables in Redis, each [schedule, pattern, id], and the tick
               \* their delayed job is for
  runningJob,  \* what the worker of each build works at: {} or {[schedule, due, again]}
  stalledJobs, \* jobs whose worker is gone; one that was stalled before fails
  fired,       \* history: how often a schedule was handed over for a tick
  stops, broken
heartbeatVars == <<scheduler, tick, loadedBy, patternOf, added, timers, nextDue, runningJob,
                   stalledJobs, fired, stops, broken>>

StableId(b, s) == s
OwnId(b, s) == <<b, s>>   \* mutant: an id of the build's own
JobId(b, s) == StableId(b, s)
JobKey(b, s) == [schedule |-> s, pattern |-> patternOf[b], id |-> JobId(b, s)]

HeartbeatInit ==
  /\ scheduler \in {"bullmq", "cron", "daily"}
  /\ tick = 0 /\ loadedBy = [b \in Builds |-> "none"]
  /\ patternOf = [b \in Builds |-> CHOOSE p \in Patterns : TRUE]
  /\ added = [b \in Builds |-> {}] /\ timers = [b \in Builds |-> {}]
  /\ nextDue = <<>>
  /\ runningJob = [b \in Builds |-> {}] /\ stalledJobs = {}
  /\ fired = [s \in Schedules |-> [t \in 1..MaxTicks |-> 0]]
  /\ stops = 0 /\ broken = 0

Clock ==
  /\ tick < MaxTicks /\ tick' = tick + 1
  /\ timers' = [b \in Builds |-> IF scheduler = "cron" /\ loadedBy[b] = "up" THEN Schedules ELSE {}]
  /\ UNCHANGED <<scheduler, loadedBy, patternOf, added, nextDue, runningJob, stalledJobs,
                 fired, stops, broken>>

---------------------------------------------------------------------------
\* A coordinator is built and its scheduler loads the configuration: with Redis
\* across an await for each schedule.
Build(b, to) ==
  /\ loadedBy[b] \in {"none", "down"} /\ loadedBy' = [loadedBy EXCEPT ![b] = to]
  /\ added' = [added EXCEPT ![b] = {}]
  /\ UNCHANGED <<scheduler, tick, timers, nextDue, runningJob, stalledJobs, fired, stops, broken>>

LoadForTenant(b, p) ==
  /\ scheduler # "daily" /\ patternOf' = [patternOf EXCEPT ![b] = p]
  /\ Build(b, IF scheduler = "bullmq" THEN "adding" ELSE "up")

\* queue.add with repeat: a repeatable that is there already stays as it is.
QueueAdd(b, s) ==
  /\ s \notin added[b] /\ added' = [added EXCEPT ![b] = @ \cup {s}]
  /\ nextDue' = [k \in DOMAIN nextDue \cup {JobKey(b, s)} |->
                   IF k \in DOMAIN nextDue THEN nextDue[k] ELSE tick + 1]
  /\ UNCHANGED <<scheduler, tick, loadedBy, patternOf, timers, runningJob, stalledJobs, fired,
                 stops, broken>>

AddRepeatable(b, s) == loadedBy[b] = "adding" /\ QueueAdd(b, s)

\* At its start a process registers the jobs of the gateway, whose workers run at
\* once; a job that cannot be added is logged and left until the next start.
RegisterJobs(b) == scheduler = "daily" /\ Build(b, "up") /\ UNCHANGED patternOf
AddDaily(b, s) == scheduler = "daily" /\ loadedBy[b] = "up" /\ QueueAdd(b, s)
DailyAddFails(b, s) ==
  /\ scheduler = "daily" /\ loadedBy[b] = "up" /\ s \notin added[b]
  /\ stops + broken < MaxFailures /\ broken' = broken + 1
  /\ added' = [added EXCEPT ![b] = @ \cup {s}]
  /\ UNCHANGED <<scheduler, tick, loadedBy, patternOf, timers, nextDue, runningJob, stalledJobs,
                 fired, stops>>

StartWorker(b) ==
  /\ loadedBy[b] = "adding" /\ added[b] = Schedules
  /\ loadedBy' = [loadedBy EXCEPT ![b] = "up"]
  /\ UNCHANGED <<scheduler, tick, patternOf, added, timers, nextDue, runningJob, stalledJobs,
                 fired, stops, broken>>

\* Redis refuses an add: the build fails, what was added stays.
LoadFails(b) ==
  /\ loadedBy[b] = "adding" /\ stops + broken < MaxFailures /\ broken' = broken + 1
  /\ loadedBy' = [loadedBy EXCEPT ![b] = "down"]
  /\ UNCHANGED <<scheduler, tick, patternOf, added, timers, nextDue, runningJob, stalledJobs,
                 fired, stops>>

---------------------------------------------------------------------------
WorkerUp(b) == scheduler # "cron" /\ loadedBy[b] \in {"up", "draining"}
HandOver(s, t) == fired' = [fired EXCEPT ![s][t] = @ + 1]

\* One worker takes the job that is due, however late, and the next is delayed to
\* the next tick from now.  handleHeartbeat broadcasts the trigger to the agents.
Take(b, k) ==
  /\ WorkerUp(b) /\ runningJob[b] = {} /\ nextDue[k] <= tick
  /\ nextDue' = [nextDue EXCEPT ![k] = tick + 1]
  /\ runningJob' = [runningJob EXCEPT ![b] =
                       {[schedule |-> k.schedule, due |-> nextDue[k], again |-> FALSE]}]
  /\ HandOver(k.schedule, nextDue[k])
  /\ UNCHANGED <<scheduler, tick, loadedBy, patternOf, added, timers, stalledJobs, stops, broken>>

\* The handler ends, well or not: a job that throws is not tried again.
JobEnds(b) ==
  /\ runningJob[b] # {} /\ runningJob' = [runningJob EXCEPT ![b] = {}]
  /\ UNCHANGED <<scheduler, tick, loadedBy, patternOf, added, timers, nextDue, stalledJobs,
                 fired, stops, broken>>

\* The process dies; after a while BullMQ gives its job to another worker.
ProcessDies(b) ==
  /\ loadedBy[b] \notin {"none", "down"} /\ stops + broken < MaxFailures /\ stops' = stops + 1
  /\ loadedBy' = [loadedBy EXCEPT ![b] = "down"] /\ timers' = [timers EXCEPT ![b] = {}]
  /\ stalledJobs' = stalledJobs \cup {[j EXCEPT !.again = TRUE] : j \in {i \in runningJob[b] : ~i.again}}
  /\ runningJob' = [runningJob EXCEPT ![b] = {}]
  /\ UNCHANGED <<scheduler, tick, patternOf, added, nextDue, fired, broken>>

TakeStalled(b, j) ==
  /\ WorkerUp(b) /\ runningJob[b] = {} /\ j \in stalledJobs
  /\ stalledJobs' = stalledJobs \ {j} /\ runningJob' = [runningJob EXCEPT ![b] = {j}]
  /\ HandOver(j.schedule, j.due)
  /\ UNCHANGED <<scheduler, tick, loadedBy, patternOf, added, timers, nextDue, stops, broken>>

---------------------------------------------------------------------------
\* SIGTERM: stopAll closes the workers and timers of the tenants first; those of the
\* gateway's jobs go on until the requests under way have ended, or for 30 seconds.
Shutdown(b) ==
  /\ loadedBy[b] = "up"
  /\ loadedBy' = [loadedBy EXCEPT ![b] = IF scheduler = "daily" THEN "draining" ELSE "closing"]
  /\ timers' = [timers EXCEPT ![b] = {}]
  /\ UNCHANGED <<scheduler, tick, patternOf, added, nextDue, runningJob, stalledJobs, fired,
                 stops, broken>>

Drained(b) ==
  /\ loadedBy[b] = "draining" /\ loadedBy' = [loadedBy EXCEPT ![b] = "closing"]
  /\ UNCHANGED <<scheduler, tick, patternOf, added, timers, nextDue, runningJob, stalledJobs,
                 fired, stops, broken>>

\* worker.close waits for the job in hand; then the queue is closed and the process ends.
StopForTenant(b) ==
  /\ loadedBy[b] = "closing" /\ runningJob[b] = {}
  /\ loadedBy' = [loadedBy EXCEPT ![b] = "down"]
  /\ UNCHANGED <<scheduler, tick, patternOf, added, timers, nextDue, runningJob, stalledJobs,
                 fired, stops, broken>>

\* Without Redis every process has its own timers.
CronFires(b, s) ==
  /\ loadedBy[b] = "up" /\ s \in timers[b]
  /\ timers' = [timers EXCEPT ![b] = @ \ {s}]
  /\ HandOver(s, tick)
  /\ UNCHANGED <<scheduler, tick, loadedBy, patternOf, added, nextDue, runningJob,
                 stalledJobs, stops, broken>>

HeartbeatNext ==
  \/ Clock
  \/ \E b \in Builds :
       \/ \E p \in Patterns : LoadForTenant(b, p)
       \/ \E s \in Schedules : \/ AddRepeatable(b, s) \/ CronFires(b, s)
                              \/ AddDaily(b, s) \/ DailyAddFails(b, s)
       \/ RegisterJobs(b)
       \/ Shutdown(b) \/ Drained(b) \/ StopForTenant(b)
       \/ StartWorker(b) \/ LoadFails(b) \/ JobEnds(b) \/ ProcessDies(b)
       \/ \E k \in DOMAIN nextDue : Take(b, k)
       \/ \E j \in stalledJobs : TakeStalled(b, j)

---------------------------------------------------------------------------
\* However many replicas build the tenant's coordinator, at once or again after a
\* crash half way or after a shutdown, Redis hands a schedule over once for a tick:
\* once more for every other pattern a deployment has left there, and for every
\* process that died (bullmq-heartbeat.ts:82, 111).  Without Redis each process does.
TickFiresOnce ==
  \A s \in Schedules, t \in 1..MaxTicks :
    fired[s][t] <= IF scheduler # "cron"
                     THEN Cardinality({k.pattern : k \in {r \in DOMAIN nextDue : r.schedule = s}})
                           + stops
                     ELSE Cardinality(Builds) + stops
=============================================================================
