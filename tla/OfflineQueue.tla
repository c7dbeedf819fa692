------------------------------ MODULE OfflineQueue ------------------------------
(***************************************************************************)
(* apps/mobile/lib/offline-queue.ts with its table in lib/db.ts and the    *)
(* screen app/(main)/sms/realclaw.tsx that fills and drains it: messages   *)
(* typed while the app is offline, on one phone.                           *)
(*                                                                         *)
(* JavaScript interleaves at every await. A drain runs once per change to  *)
(* "connected", and the next one does not wait for the one before it, so   *)
(* several drains walk their own snapshots of the same table.              *)
(***************************************************************************)
EXTENDS Integers

CONSTANTS
  Messages,     \* the messages the user types (correlation ids)
  Drains,       \* calls of drainOfflineQueue that can overlap
  NoMessage,    \* what a drain that posts nothing is posting
  MaxRetry,     \* MAX_RETRY
  MaxKills      \* bound: times the app is killed

ASSUME QueueAssumption ==
  NoMessage \notin Messages /\ MaxRetry \in Nat \ {0} /\ MaxKills \in Nat

VARIABLES
  up,         \* the WebSocket is connected and the network reachable
  shown,      \* the screen is mounted
  earlier,    \* for each message, those typed before it (created_at)
  sendPc,     \* where sendMessage stands for each message
  online,     \* up, as the sendMessage callback captured it
  told,       \* what the bubble of the message last said
  rows,       \* offline_queue
  retry,      \* its retry_count column
  dpc,        \* each drain: where it stands, ...
  todo,       \* ... the rest of its snapshot ...
  cur,        \* ... and the message it has posted
  accepted,   \* history: how often the gateway accepted the message
  failed,     \* history: drain attempts that the app saw fail
  kills

sendVars  == <<earlier, sendPc, online, told>>
tableVars == <<rows, retry>>
drainVars == <<dpc, todo, cur>>
vars == <<up, shown, sendVars, tableVars, drainVars, accepted, failed, kills>>

Init ==
  /\ up = TRUE /\ shown = TRUE
  /\ earlier = [m \in Messages |-> {}]
  /\ sendPc = [m \in Messages |-> "idle"]
  /\ online = [m \in Messages |-> FALSE]
  /\ told = [m \in Messages |-> "none"]
  /\ rows = {}
  /\ retry = [m \in Messages |-> 0]
  /\ dpc = [d \in Drains |-> "idle"]
  /\ todo = [d \in Drains |-> {}]
  /\ cur = [d \in Drains |-> NoMessage]
  /\ accepted = [m \in Messages |-> 0]
  /\ failed = [m \in Messages |-> 0]
  /\ kills = 0

(***************************************************************************)
(* sendMessage on the screen.                                              *)
(***************************************************************************)
Sending == \E m \in Messages : sendPc[m] \in {"queueing", "posting"}

\* The tap: the callback holds the connection status of its last render.
Tap(m) ==
  /\ shown /\ sendPc[m] = "idle" /\ ~Sending
  /\ sendPc' = [sendPc EXCEPT ![m] = "saving"]
  /\ online' = [online EXCEPT ![m] = up]
  /\ earlier' = [earlier EXCEPT ![m] = {q \in Messages : sendPc[q] # "idle"}]
  /\ UNCHANGED <<up, shown, told, tableVars, drainVars, accepted, failed, kills>>

\* saveMessage has resolved: the bubble appears and the captured status decides.
Saved(m) ==
  /\ sendPc[m] = "saving"
  /\ sendPc' = [sendPc EXCEPT ![m] = IF online[m] THEN "posting" ELSE "queueing"]
  /\ told' = [told EXCEPT ![m] = "sending"]
  /\ UNCHANGED <<up, shown, earlier, online, tableVars, drainVars, accepted, failed, kills>>

Enqueue(m) ==
  /\ sendPc[m] = "queueing"
  /\ rows' = rows \union {m}
  /\ retry' = [retry EXCEPT ![m] = 0]
  /\ told' = [told EXCEPT ![m] = "queued"]
  /\ sendPc' = [sendPc EXCEPT ![m] = "ended"]
  /\ UNCHANGED <<up, shown, earlier, online, drainVars, accepted, failed, kills>>

\* What a POST can end in: whether the gateway took it, and whether the app saw a 2xx.
Outcomes == {[taken |-> TRUE, ok |-> TRUE], [taken |-> TRUE, ok |-> FALSE],
             [taken |-> FALSE, ok |-> FALSE]}

Taken(m, o) == accepted' = [accepted EXCEPT ![m] = IF o.taken THEN @ + 1 ELSE @]

PostDirect(m) ==
  /\ sendPc[m] = "posting"
  /\ \E o \in Outcomes :
       /\ Taken(m, o)
       /\ told' = [told EXCEPT ![m] = IF o.ok THEN @ ELSE "failed"]
  /\ sendPc' = [sendPc EXCEPT ![m] = "ended"]
  /\ UNCHANGED <<up, shown, earlier, online, tableVars, drainVars, failed, kills>>

(***************************************************************************)
(* drainOfflineQueue, called by the effect on [wsStatus, isConnected].     *)
(***************************************************************************)
GoDown ==
  /\ up /\ up' = FALSE
  /\ UNCHANGED <<shown, sendVars, tableVars, drainVars, accepted, failed, kills>>

StartDrain(d) ==
  /\ dpc[d] = "idle"
  /\ dpc' = [dpc EXCEPT ![d] = "reading"]
  /\ UNCHANGED <<sendVars, tableVars, todo, cur, accepted, failed, kills>>

\* The effect of a mounted screen sees the connection come back.
Reconnect(d) ==
  /\ ~up /\ up' = TRUE /\ shown
  /\ StartDrain(d)
  /\ UNCHANGED shown

ReconnectUnseen ==
  /\ ~up /\ up' = TRUE /\ ~shown
  /\ UNCHANGED <<shown, sendVars, tableVars, drainVars, accepted, failed, kills>>

\* The effect also runs when the screen is mounted.
OpenScreen(d) ==
  /\ ~shown /\ shown' = TRUE /\ up
  /\ StartDrain(d)
  /\ UNCHANGED up

OpenScreenOffline ==
  /\ ~shown /\ shown' = TRUE /\ ~up
  /\ UNCHANGED <<up, sendVars, tableVars, drainVars, accepted, failed, kills>>

LeaveScreen ==
  /\ shown /\ shown' = FALSE
  /\ UNCHANGED <<up, sendVars, tableVars, drainVars, accepted, failed, kills>>

\* Slip: the query takes only rows that were never tried.
SnapshotFresh == {[msg |-> m, retry |-> 0] : m \in {q \in rows : retry[q] = 0}}

\* SELECT * FROM offline_queue: the rows with their retry_count.
Snapshot == {[msg |-> m, retry |-> retry[m]] : m \in rows}

Read(d) ==
  /\ dpc[d] = "reading"
  /\ todo' = [todo EXCEPT ![d] = Snapshot]
  /\ dpc' = [dpc EXCEPT ![d] = "next"]
  /\ UNCHANGED <<up, shown, sendVars, tableVars, cur, accepted, failed, kills>>

Leave(d) ==
  /\ dpc[d] = "next" /\ todo[d] = {}
  /\ dpc' = [dpc EXCEPT ![d] = "idle"]
  /\ UNCHANGED <<up, shown, sendVars, tableVars, todo, cur, accepted, failed, kills>>

\* ORDER BY created_at ASC: the drain takes the row typed first.
Take(d, item) ==
  /\ dpc[d] = "next"
  /\ item \in todo[d]
  /\ \A other \in todo[d] : other.msg \notin earlier[item.msg]
  /\ todo' = [todo EXCEPT ![d] = @ \ {item}]

Spent(item) == item.retry >= MaxRetry

GiveUp(d) ==
  /\ \E item \in todo[d] :
       /\ Take(d, item) /\ Spent(item)
       /\ rows' = rows \ {item.msg}
  /\ UNCHANGED <<up, shown, sendVars, retry, dpc, cur, accepted, failed, kills>>

\* Slip: the check of res.ok is missing, so any answer removes the row.
AfterPostAny(ok) == "remove"

\* Where the drain goes once it knows whether the response was a 2xx.
AfterPost(ok) == IF ok THEN "remove" ELSE "bump"

Post(d) ==
  /\ \E item \in todo[d], o \in Outcomes :
       /\ Take(d, item) /\ ~Spent(item)
       /\ Taken(item.msg, o)
       /\ cur' = [cur EXCEPT ![d] = item.msg]
       /\ dpc' = [dpc EXCEPT ![d] = AfterPost(o.ok)]
  /\ UNCHANGED <<up, shown, sendVars, tableVars, failed, kills>>

\* The drain has dealt with what it posted and goes on to the next row.
GoOn(d) ==
  /\ dpc' = [dpc EXCEPT ![d] = "next"]
  /\ cur' = [cur EXCEPT ![d] = NoMessage]

RemoveFromQueue(d) ==
  /\ dpc[d] = "remove"
  /\ rows' = rows \ {cur[d]}
  /\ GoOn(d)
  /\ UNCHANGED <<up, shown, sendVars, retry, todo, accepted, failed, kills>>

\* UPDATE ... SET retry_count = retry_count + 1: no row, no change.
Bump(d) ==
  /\ dpc[d] = "bump"
  /\ failed' = [failed EXCEPT ![cur[d]] = @ + 1]
  /\ retry' = [retry EXCEPT ![cur[d]] = IF cur[d] \in rows THEN @ + 1 ELSE @]
  /\ GoOn(d)
  /\ UNCHANGED <<up, shown, sendVars, rows, todo, accepted, kills>>

\* The app is killed and opened again: only the table survives.
Kill ==
  /\ kills < MaxKills /\ kills' = kills + 1
  /\ up' = FALSE /\ shown' = FALSE
  /\ sendPc' = [m \in Messages |-> IF sendPc[m] = "idle" THEN "idle" ELSE "ended"]
  /\ dpc' = [d \in Drains |-> "idle"]
  /\ todo' = [d \in Drains |-> {}]
  /\ cur' = [d \in Drains |-> NoMessage]
  /\ UNCHANGED <<earlier, online, told, tableVars, accepted, failed>>

Screen(m) == Saved(m) \/ Enqueue(m) \/ PostDirect(m)
Drain(d) == Read(d) \/ Leave(d) \/ GiveUp(d) \/ Post(d) \/ RemoveFromQueue(d) \/ Bump(d)

Next ==
  \/ \E m \in Messages : Tap(m) \/ Screen(m)
  \/ \E d \in Drains : Reconnect(d) \/ OpenScreen(d) \/ Drain(d)
  \/ ReconnectUnseen \/ OpenScreenOffline
  \/ GoDown \/ LeaveScreen
  \/ Kill

Spec == Init /\ [][Next]_vars

\* The event loop runs every started call on, and lib/ws.ts reconnects by a timer.
Fairness ==
  /\ \A m \in Messages : WF_vars(Screen(m))
  /\ \A d \in Drains : WF_vars(Drain(d))
  /\ WF_vars(ReconnectUnseen \/ \E d \in Drains : Reconnect(d))
FairSpec == Spec /\ Fairness

--------------------------------------------------------------------------------
Items == [msg : Messages, retry : Nat]

(* Every variable has its type. *)
TypeOK ==
  /\ up \in BOOLEAN /\ shown \in BOOLEAN
  /\ earlier \in [Messages -> SUBSET Messages]
  /\ sendPc \in [Messages -> {"idle", "saving", "queueing", "posting", "ended"}]
  /\ online \in [Messages -> BOOLEAN]
  /\ told \in [Messages -> {"none", "sending", "queued", "failed"}]
  /\ rows \subseteq Messages
  /\ retry \in [Messages -> Nat]
  /\ dpc \in [Drains -> {"idle", "reading", "next", "remove", "bump"}]
  /\ todo \in [Drains -> SUBSET Items]
  /\ cur \in [Drains -> Messages \union {NoMessage}]
  /\ accepted \in [Messages -> Nat]
  /\ failed \in [Messages -> Nat]
  /\ kills \in 0..MaxKills

(* A message whose bubble says "queued - will send when online" stays in the  *)
(* table, through overlapping drains, lost responses and kills, until the     *)
(* gateway has accepted it or MAX_RETRY attempts of it have failed.           *)
KeptUntilSent ==
  \A m \in Messages :
    told[m] = "queued" => m \in rows \/ accepted[m] > 0 \/ failed[m] >= MaxRetry

(* If the connection keeps dropping and coming back and the user stays on the *)
(* screen, every queued message leaves the table, whatever the overlapping    *)
(* drains, lost responses and failures do.                                    *)
DrainsOverReconnects ==
  []<>~up /\ <>[]shown => \A m \in Messages : (m \in rows) ~> (m \notin rows)
================================================================================
