---------------------------- MODULE ApprovalManager ----------------------------
(***************************************************************************)
(* src/coordinator/approval.ts with a database behind it: the in-memory    *)
(* Map of approval requests of one tenant, its expiry timers, the row each *)
(* request has in the `approvals` table, and the handlers that work on     *)
(* them concurrently.  Every `await` of the code ends an action, so the    *)
(* handlers interleave exactly at their awaits, and a statement a handler  *)
(* awaits is in flight until its reply.  A reply and the code that resumes *)
(* on it are one action: nothing else reads what that code changes first.  *)
(*                                                                         *)
(* Bounds: MaxRestarts process crashes, MaxFaults failing statements.      *)
(***************************************************************************)
EXTENDS Naturals

CONSTANTS
  Approvals,    \* approval ids; uuidv4 never repeats one
  Handlers,     \* concurrent activations: HTTP handlers and timer callbacks
  None,         \* no approval
  MaxRestarts,
  MaxFaults

ASSUME ApprovalAssumption ==
  /\ None \notin Approvals
  /\ MaxRestarts \in Nat
  /\ MaxFaults \in Nat

VARIABLES
  up,         \* the tenant's manager is constructed and loadFromDisk returned
  pending,    \* keys of the Map `pending`
  timers,     \* keys of the Map `expiryTimers`
  created,    \* ids that createApprovalRequest has drawn so far
  elapsed,    \* ids whose expiresAt lies in the past
  row,        \* the `approvals` table: status of each row
  pc,         \* where each handler awaits
  job,        \* the approval a handler works for
  visited,    \* rows the handler's pass over the Map has written
  sent,       \* the upsert of that pass that is in flight
  announced,  \* history: ids the user has been shown
  verdict,    \* history: the answer that was accepted for an id
  closed,     \* history: ids whose processApprovalResponse marked the row
  sends,      \* history: how often the approved items of an id went out
  restarts,
  faults

memVars  == <<up, pending, timers, created, elapsed>>
opVars   == <<pc, job, visited, sent>>
histVars == <<announced, verdict, closed, sends>>
vars     == <<memVars, row, opVars, histVars, restarts, faults>>

Verdicts == {"approve", "cancel", "malformed"}
Statuses == {"absent", "pending", "approved"}
Places   == {"idle", "persistNew", "reply", "execute", "mark", "persistRest"}

Init ==
  /\ up = FALSE
  /\ pending = {} /\ timers = {} /\ created = {} /\ elapsed = {}
  /\ row = [a \in Approvals |-> "absent"]
  /\ pc = [h \in Handlers |-> "idle"]
  /\ job = [h \in Handlers |-> None]
  /\ visited = [h \in Handlers |-> {}]
  /\ sent = [h \in Handlers |-> None]
  /\ announced = {} /\ closed = {}
  /\ verdict = [a \in Approvals |-> "none"]
  /\ sends = [a \in Approvals |-> 0]
  /\ restarts = 0 /\ faults = 0

(***************************************************************************)
(* Helpers.                                                                *)
(***************************************************************************)

\* cleanup(approvalId): forget the request and clear its timers.
Cleanup(a) ==
  /\ pending' = pending \ {a}
  /\ timers' = timers \ {a}

\* The for-of loop of persistToDb reads the live Map: the next upsert is for
\* some entry the pass has not visited.  (The order of the entries is the
\* order of creation or, after a restart, whatever order SELECT returned.)
NextUpsert(h, mem, done) ==
  /\ visited' = [visited EXCEPT ![h] = done]
  /\ \/ /\ mem \subseteq done
        /\ sent' = [sent EXCEPT ![h] = None]
     \/ \E a \in mem \ done : sent' = [sent EXCEPT ![h] = a]

Goto(h, place, a) ==
  /\ pc' = [pc EXCEPT ![h] = place]
  /\ job' = [job EXCEPT ![h] = a]

\* A statement fails; every caller logs the error and carries on.
Fault == faults < MaxFaults /\ faults' = faults + 1

(***************************************************************************)
(* createApprovalRequest: put the request in the Map, write every pending  *)
(* request to the table, then arm the timer, return, and let               *)
(* handleInbound show it to the user once the reply is synthesized.        *)
(***************************************************************************)

Create(h, a) ==
  /\ up /\ pc[h] = "idle" /\ a \notin created
  /\ created' = created \cup {a}
  /\ pending' = pending \cup {a}
  /\ Goto(h, "persistNew", a)
  /\ NextUpsert(h, pending', {})
  /\ UNCHANGED <<up, timers, elapsed, row, histVars, restarts, faults>>

CreateReturns(h) ==
  /\ pc[h] = "persistNew" /\ sent[h] = None
  /\ timers' = timers \cup {job[h]}
  /\ Goto(h, "reply", job[h])
  /\ UNCHANGED <<up, pending, created, elapsed, row, visited, sent, histVars,
                 restarts, faults>>

Announce(h) ==
  /\ pc[h] = "reply"
  /\ announced' = announced \cup {job[h]}
  /\ Goto(h, "idle", None)
  /\ UNCHANGED <<memVars, row, visited, sent, verdict, closed, sends,
                 restarts, faults>>

(***************************************************************************)
(* processApprovalResponse.  The phone may answer any approval it was      *)
(* shown, and answer it again.                                             *)
(***************************************************************************)
RespondUnknownExecutes(a) ==   \* mutant: no return after the warning
  /\ up /\ a \in announced \ pending
  /\ sends' = [sends EXCEPT ![a] = @ + 1]
  /\ UNCHANGED <<memVars, row, opVars, announced, verdict, closed, restarts, faults>>

RespondUnknown(a) ==
  /\ up /\ a \in announced \ pending
  /\ UNCHANGED vars

RespondExpired(a) ==
  /\ up /\ a \in announced \cap pending \cap elapsed
  /\ Cleanup(a)
  /\ UNCHANGED <<up, created, elapsed, row, opVars, histVars, restarts, faults>>

RespondKeepsEntry(h, a, v) ==   \* mutant: no cleanup before the callback
  /\ up /\ pc[h] = "idle" /\ a \in (announced \cap pending) \ elapsed
  /\ verdict' = [verdict EXCEPT ![a] = v]
  /\ IF v = "malformed" THEN UNCHANGED <<pc, job>> ELSE Goto(h, "execute", a)
  /\ sends' = [sends EXCEPT ![a] = IF v = "approve" THEN @ + 1 ELSE @]
  /\ UNCHANGED <<memVars, row, visited, sent, announced, closed, restarts, faults>>

\* The request leaves the Map before the callback runs; the callback then
\* dispatches the approved items and awaits them.
Respond(h, a, v) ==
  /\ up /\ pc[h] = "idle" /\ a \in (announced \cap pending) \ elapsed
  /\ Cleanup(a)
  /\ verdict' = [verdict EXCEPT ![a] = v]
  /\ IF v = "malformed"      \* no decisions array: the callback throws
     THEN UNCHANGED <<pc, job>>
     ELSE Goto(h, "execute", a)
  /\ sends' = [sends EXCEPT ![a] = IF v = "approve" THEN @ + 1 ELSE @]
  /\ UNCHANGED <<up, created, elapsed, row, visited, sent, announced, closed,
                 restarts, faults>>

ExecuteReturns(h) ==
  /\ pc[h] = "execute"
  /\ Goto(h, "mark", job[h])
  /\ UNCHANGED <<memVars, row, visited, sent, histVars, restarts, faults>>

MarkReplyRestores(h) ==   \* mutant: puts the request back when the UPDATE fails
  /\ pc[h] = "mark"
  /\ \/ /\ row' = [row EXCEPT ![job[h]] = IF @ = "absent" THEN @ ELSE "approved"]
        /\ UNCHANGED <<faults, pending>>
     \/ Fault /\ UNCHANGED row /\ pending' = pending \cup {job[h]}
  /\ closed' = closed \cup {job[h]}
  /\ Goto(h, "persistRest", None)
  /\ NextUpsert(h, pending', {})
  /\ UNCHANGED <<up, timers, created, elapsed, announced, verdict, sends, restarts>>

\* Reply to UPDATE approvals SET status = 'approved'; the pass follows.
MarkReply(h) ==
  /\ pc[h] = "mark"
  /\ \/ /\ row' = [row EXCEPT ![job[h]] = IF @ = "absent" THEN @ ELSE "approved"]
        /\ UNCHANGED faults
     \/ Fault /\ UNCHANGED row
  /\ closed' = closed \cup {job[h]}
  /\ Goto(h, "persistRest", None)
  /\ NextUpsert(h, pending, {})
  /\ UNCHANGED <<memVars, announced, verdict, sends, restarts>>

(***************************************************************************)
(* persistPending: reply to the upsert in flight, and the next of the pass.*)
(***************************************************************************)
UpsertReply(h) ==
  /\ sent[h] # None
  /\ \/ /\ row' = [row EXCEPT ![sent[h]] = "pending"]
        /\ UNCHANGED faults
     \/ Fault /\ UNCHANGED row
  /\ NextUpsert(h, pending, visited[h] \cup {sent[h]})
  /\ UNCHANGED <<memVars, pc, job, histVars, restarts>>

PersistReturns(h) ==
  /\ pc[h] = "persistRest" /\ sent[h] = None
  /\ Goto(h, "idle", None)
  /\ UNCHANGED <<memVars, row, visited, sent, histVars, restarts, faults>>

(***************************************************************************)
(* Time: expiresAt passes; then the expiry timer's callback runs.          *)
(***************************************************************************)
Elapse(a) ==
  /\ a \in created \ elapsed
  /\ elapsed' = elapsed \cup {a}
  /\ UNCHANGED <<up, pending, timers, created, row, opVars, histVars,
                 restarts, faults>>

ExpiryTimer(h, a) ==
  /\ a \in timers \cap elapsed /\ pc[h] = "idle"
  /\ Cleanup(a)
  /\ Goto(h, "persistRest", None)
  /\ NextUpsert(h, pending', {})
  /\ UNCHANGED <<up, created, elapsed, row, histVars, restarts, faults>>

(***************************************************************************)
(* The process dies, with everything in memory; its statements in flight   *)
(* are lost (those that landed have been replied to).                      *)
(***************************************************************************)
Crash ==
  /\ up /\ restarts < MaxRestarts
  /\ up' = FALSE /\ pending' = {} /\ timers' = {}
  /\ pc' = [h \in Handlers |-> "idle"]
  /\ job' = [h \in Handlers |-> None]
  /\ visited' = [h \in Handlers |-> {}]
  /\ sent' = [h \in Handlers |-> None]
  /\ restarts' = restarts + 1
  /\ UNCHANGED <<created, elapsed, row, histVars, faults>>

LoadWithoutTimers ==   \* mutant: reloaded requests get no timer
  /\ ~up
  /\ up' = TRUE
  /\ pending' = {a \in Approvals : row[a] = "pending"} \ elapsed
  /\ UNCHANGED <<timers, created, elapsed, row, opVars, histVars, restarts, faults>>

\* SELECT ... WHERE status = 'pending' AND expires_at > NOW(), then the Map
\* and a timer for each row; when the query fails the manager starts empty.
LoadFromDb ==
  /\ ~up
  /\ up' = TRUE
  /\ \/ /\ pending' = {a \in Approvals : row[a] = "pending"} \ elapsed
        /\ timers' = pending'
        /\ UNCHANGED faults
     \/ Fault /\ UNCHANGED <<pending, timers>>
  /\ UNCHANGED <<created, elapsed, row, opVars, histVars, restarts>>

Next ==
  \/ \E h \in Handlers :
       \/ CreateReturns(h)
       \/ Announce(h)
       \/ ExecuteReturns(h)
       \/ MarkReply(h)
       \/ UpsertReply(h)
       \/ PersistReturns(h)
       \/ \E a \in Approvals :
            \/ Create(h, a)
            \/ ExpiryTimer(h, a)
            \/ \E v \in Verdicts : Respond(h, a, v)
  \/ \E a \in Approvals :
       \/ RespondUnknown(a)
       \/ RespondExpired(a)
       \/ Elapse(a)
  \/ Crash
  \/ LoadFromDb

Spec == Init /\ [][Next]_vars

\* The event loop runs what is ready, the database answers, a dispatch ends
\* (dispatcher.ts gives it 30 s), and time passes.  Nothing makes the user
\* answer or the process crash.
Fairness ==
  /\ \A h \in Handlers :
       /\ WF_vars(CreateReturns(h))
       /\ WF_vars(Announce(h))
       /\ WF_vars(ExecuteReturns(h))
       /\ WF_vars(MarkReply(h))
       /\ WF_vars(UpsertReply(h))
       /\ WF_vars(PersistReturns(h))
  /\ \A a \in Approvals :
       /\ WF_vars(Elapse(a))
       /\ WF_vars(\E h \in Handlers : ExpiryTimer(h, a))

FairSpec == Spec /\ Fairness

--------------------------------------------------------------------------------
(***************************************************************************)
(* Properties.                                                             *)
(***************************************************************************)
TypeOK ==
  /\ up \in BOOLEAN
  /\ pending \subseteq Approvals
  /\ timers \subseteq Approvals
  /\ created \subseteq Approvals
  /\ elapsed \subseteq Approvals
  /\ row \in [Approvals -> Statuses]
  /\ pc \in [Handlers -> Places]
  /\ job \in [Handlers -> Approvals \cup {None}]
  /\ visited \in [Handlers -> SUBSET Approvals]
  /\ sent \in [Handlers -> Approvals \cup {None}]
  /\ announced \subseteq Approvals
  /\ verdict \in [Approvals -> Verdicts \cup {"none"}]
  /\ closed \subseteq Approvals
  /\ sends \in [Approvals -> Nat]
  /\ restarts \in Nat
  /\ faults \in Nat

\* The approved items of a request go out at most once for every time the
\* process has been started: whatever the phone retries and however the
\* handlers interleave, only a crash can make them go out again.
SentOncePerStart == \A a \in Approvals : sends[a] <= 1 + restarts

\* Why: a handler past its first step has a request; ids in the Map, the table
\* or in flight were drawn; and a request still in the Map, or with no process
\* alive to answer it, has gone out at most once for each earlier life.
JobsHaveRequests ==
  \A h \in Handlers :
    pc[h] \in {"persistNew", "reply", "execute", "mark"} => job[h] \in Approvals

OnlyDrawnIds ==
  /\ pending \subseteq created
  /\ \A a \in Approvals : row[a] # "absent" => a \in created
  /\ \A h \in Handlers : sent[h] # None => sent[h] \in created
  /\ ~up => pending = {}

UnspentSends ==
  \A a \in Approvals :
    /\ sends[a] <= 1 + restarts
    /\ a \in pending \/ ~up \/ a \notin created => sends[a] <= restarts

SendInv == TypeOK /\ JobsHaveRequests /\ OnlyDrawnIds /\ UnspentSends

\* Within one life of the process an id enters the Map only when it is drawn:
\* a request that was answered or expired never comes back.
NoReopenWhileUp ==
  [][up /\ up' => (pending' \ pending) \cap created = {}]_vars

\* The manager implements the abstract gate: a request in the Map is open, one
\* that has left it is spent, and it is sent only as it is spent.
gateOf == [a \in Approvals |-> IF a \in pending THEN "open"
                               ELSE IF a \in created THEN "spent" ELSE "new"]
Gate == INSTANCE ApprovalGate WITH gate <- gateOf
ImplementsGate == Gate!Spec

\* Every request leaves the Map, answered or not, so the Map stays bounded.
EventuallyLeaves == \A a \in Approvals : a \in pending ~> a \notin pending

================================================================================
