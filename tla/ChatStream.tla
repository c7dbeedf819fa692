------------------------------ MODULE ChatStream ------------------------------
(***************************************************************************)
(* The chat between the phones of one tenant and the gateway: POST         *)
(* /v1/messages and the run behind it (src/index.ts, the coordinator and   *)
(* its synthesizer), the sockets the answer is pushed to                   *)
(* (src/gateway/ws-session-manager.ts) and what a phone makes of what      *)
(* arrives (apps/mobile/lib/ws.ts).                                        *)
(*                                                                         *)
(* The tokens pushed for a request are numbered from 1, across the         *)
(* providers the LLM router turns to; a text is a sequence of tokens.  A   *)
(* push goes to every socket of the tenant; only those of the phone that   *)
(* asked are kept, as the others have no bubble.                           *)
(***************************************************************************)
EXTENDS Naturals, Sequences

CONSTANTS
  Devices,      \* phones signed in to the tenant
  Requests,     \* messages sent (correlation ids)
  OwnerOf,      \* [Requests -> Devices]
  N,            \* bound: tokens pushed for a request
  Spares,       \* fallback providers that can start the reply anew
  MaxConns      \* bound: [Devices -> Nat \ {0}], the sockets each phone opens

ASSUME ChatAssumption ==
  /\ OwnerOf \in [Requests -> Devices]
  /\ N \in Nat \ {0} /\ Spares \in Nat
  /\ MaxConns \in [Devices -> Nat \ {0}]

Sockets == UNION {{d} \X (1..MaxConns[d]) : d \in Devices}   \* a phone's first, second, ...

AgentsText == <<0>>                     \* the agents' own words, not streamed
Notice     == <<N + 1>>                 \* "Network error", "Error: ..."
Texts      == Seq(0..N + 1)

VARIABLES
  sock,       \* the socket each phone reads: its number, or 0
  opened,     \* sockets the phone has opened so far
  broken,     \* sockets whose connection is gone, noticed or not
  wire,       \* envelopes on their way to a phone, by socket
  sessions,   \* WsSessionManager.sessions
  tracked,    \* activeControllers: [socket, request]
  work,       \* where the gateway stands with each request
  streamed,   \* tokens pushed for it
  began,      \* tokens pushed for it before the provider in charge began
  spare,      \* providers left to it
  aborted,    \* requests whose AbortController was aborted
  lost,       \* requests whose HTTP response the phone is going to miss
  buf,        \* streamBuffers
  text, status,   \* the bubble of the answer
  pendingIds, \* pendingCorrelationIds
  seen        \* history: the socket the phone read as it sent the request

netVars    == <<sock, opened, broken, seen>>
llmVars    == <<streamed, began, spare>>
serverVars == <<sessions, tracked, work, llmVars, aborted>>
phoneVars  == <<buf, text, status, pendingIds, lost>>
vars == <<netVars, wire, serverVars, phoneVars>>

Init ==
  /\ sock = [d \in Devices |-> 0] /\ opened = [d \in Devices |-> 0]
  /\ broken = {} /\ sessions = {} /\ tracked = {}
  /\ wire = [s \in Sockets |-> <<>>]
  /\ work = [r \in Requests |-> "none"]
  /\ streamed = [r \in Requests |-> 0] /\ began = streamed /\ spare = streamed
  /\ aborted = {} /\ lost = {} /\ pendingIds = {}
  /\ buf = [r \in Requests |-> <<>>]
  /\ text = [r \in Requests |-> <<>>]
  /\ status = [r \in Requests |-> "none"]
  /\ seen = [r \in Requests |-> 0]

(***************************************************************************)
(* Sockets.  A connection breaks; each end notices for itself.             *)
(***************************************************************************)
Connect(d) ==
  /\ sock[d] = 0 /\ opened[d] < MaxConns[d]
  /\ opened' = [opened EXCEPT ![d] = @ + 1]
  /\ sock' = [sock EXCEPT ![d] = opened'[d]]
  /\ sessions' = sessions \cup {<<d, opened'[d]>>}
  /\ UNCHANGED <<broken, seen, wire, tracked, work, llmVars, aborted, phoneVars>>

Break(s) ==
  /\ s \in sessions \ broken
  /\ broken' = broken \cup {s}
  /\ UNCHANGED <<sock, opened, seen, wire, serverVars, phoneVars>>

CloseKeepsBuffers(d) ==   \* mutant: the flush stops, the buffers stay
  /\ <<d, sock[d]>> \in broken
  /\ wire' = [wire EXCEPT ![<<d, sock[d]>>] = <<>>]
  /\ sock' = [sock EXCEPT ![d] = 0]
  /\ UNCHANGED <<opened, broken, seen, serverVars, phoneVars>>

\* onclose on the phone: stopFlushInterval drops what is buffered.
Close(d) ==
  /\ <<d, sock[d]>> \in broken
  /\ wire' = [wire EXCEPT ![<<d, sock[d]>>] = <<>>]
  /\ sock' = [sock EXCEPT ![d] = 0]
  /\ buf' = [r \in Requests |-> IF OwnerOf[r] = d THEN <<>> ELSE buf[r]]
  /\ UNCHANGED <<opened, broken, seen, serverVars, text, status, pendingIds, lost>>

\* 'close' on the gateway aborts every request that was under way as the
\* socket was open, whichever phone of the tenant sent it.
Unregister(s) ==
  /\ s \in broken \cap sessions
  /\ sessions' = sessions \ {s}
  /\ tracked' = {t \in tracked : t[1] # s}
  /\ aborted' = aborted \cup {r \in Requests : <<s, r>> \in tracked}
  /\ UNCHANGED <<netVars, wire, work, llmVars, phoneVars>>

(***************************************************************************)
(* The phone sends; the gateway answers 202 and works.                     *)
(***************************************************************************)
Accept(r) ==
  /\ work' = [work EXCEPT ![r] = "started"]
  /\ tracked' = tracked \cup {<<s, r>> : s \in sessions}

Post(r) ==
  /\ status[r] = "none" /\ sock[OwnerOf[r]] # 0
  /\ seen' = [seen EXCEPT ![r] = sock[OwnerOf[r]]]
  /\ pendingIds' = pendingIds \cup {r}
  /\ \/ /\ Accept(r)
        /\ status' = [status EXCEPT ![r] = "sending"] /\ UNCHANGED text
        /\ lost' = lost \/ lost' = lost \cup {r}
     \/ /\ status' = [status EXCEPT ![r] = "error"]
        /\ text' = [text EXCEPT ![r] = Notice]
        /\ UNCHANGED <<work, tracked, lost>>
  /\ UNCHANGED <<sock, opened, broken, wire, sessions, llmVars, aborted, buf>>

\* fetch rejects although the gateway has accepted the message.
ResponseLost(r) ==
  /\ r \in lost /\ lost' = lost \ {r}
  /\ status' = [status EXCEPT ![r] = "error"]
  /\ text' = [text EXCEPT ![r] = Notice]
  /\ UNCHANGED <<netVars, wire, serverVars, buf, pendingIds>>

\* push() reaches the sockets that are registered and open.
Push(r, envelope) ==
  wire' = [s \in Sockets |->
    IF s[1] = OwnerOf[r] /\ s \in sessions \ broken THEN Append(wire[s], envelope)
    ELSE wire[s]]

Serve(r, from, to) == work[r] \in from /\ work' = [work EXCEPT ![r] = to]

Typing(r) ==
  /\ Serve(r, {"started"}, "dispatched")
  /\ Push(r, [type |-> "AGENT_TYPING", req |-> r])
  /\ UNCHANGED <<netVars, sessions, tracked, llmVars, aborted, phoneVars>>

FailsSilently(r) ==   \* mutant: every error is taken for a cancellation
  /\ Serve(r, {"started", "dispatched"}, "done")
  /\ tracked' = {t \in tracked : t[2] # r}
  /\ UNCHANGED <<netVars, wire, sessions, llmVars, aborted, phoneVars>>

\* handleInbound throws: no coordinator, no audit log, no approval request.
Fails(r) ==
  /\ Serve(r, {"started", "dispatched"}, "done")
  /\ Push(r, [type |-> "ERROR", req |-> r])
  /\ tracked' = {t \in tracked : t[2] # r}
  /\ UNCHANGED <<netVars, sessions, llmVars, aborted, phoneVars>>

Complete(r, words) ==
  /\ Push(r, [type |-> "TASK_COMPLETE", req |-> r, text |-> words])
  /\ UNCHANGED <<netVars, sessions, tracked, llmVars, aborted, phoneVars>>

\* A clarifying question, or the answer of a single agent: nothing is streamed.
ReplyPlain(r) == Serve(r, {"started", "dispatched"}, "replied") /\ Complete(r, AgentsText)

\* The LLM router has its first provider, or a fallback with others after it.
Synthesize(r) ==
  /\ Serve(r, {"dispatched"}, "streaming")
  /\ \E k \in 0..Spares : spare' = [spare EXCEPT ![r] = k]
  /\ UNCHANGED <<netVars, wire, sessions, tracked, streamed, began, aborted, phoneVars>>

Token(r) ==
  /\ work[r] = "streaming" /\ streamed[r] < N /\ r \notin aborted
  /\ streamed' = [streamed EXCEPT ![r] = @ + 1]
  /\ Push(r, [type |-> "TOKEN_STREAM", req |-> r, token |-> streamed'[r]])
  /\ UNCHANGED <<netVars, sessions, tracked, work, began, spare, aborted, phoneVars>>

\* A fallback provider breaks off: the next one streams the reply from its start.
Restart(r) ==
  /\ work[r] = "streaming" /\ spare[r] > 0 /\ r \notin aborted
  /\ spare' = [spare EXCEPT ![r] = @ - 1]
  /\ began' = [began EXCEPT ![r] = streamed[r]]
  /\ UNCHANGED <<netVars, wire, sessions, tracked, work, streamed, aborted, phoneVars>>

Piece(i, j) == [k \in 1..j - i |-> i + k]

\* The stream ends; one that was closed early is not told from a complete one.
ReplyWhole(r) ==
  /\ r \notin aborted
  /\ Serve(r, {"streaming"}, "replied") /\ Complete(r, Piece(began[r], streamed[r]))

\* The LLM fails or the stream is aborted: the synthesizer joins what the agents
\* wrote, which is nothing if all of them failed.
ReplyFallback(r) ==
  /\ Serve(r, {"streaming"}, "replied")
  /\ Complete(r, AgentsText) \/ Complete(r, <<>>)

\* The side effects are over: untrackRequest on the tenant's sockets.
Finish(r) ==
  /\ Serve(r, {"replied"}, "done")
  /\ tracked' = {t \in tracked : t[2] # r}
  /\ UNCHANGED <<netVars, wire, sessions, llmVars, aborted, phoneVars>>

(***************************************************************************)
(* The phone: handleMessage and the flush every 80 ms.                     *)
(***************************************************************************)
SeesTyping(e) ==
  /\ e.type = "AGENT_TYPING"
  /\ status' = [status EXCEPT ![e.req] = "streaming"]
  /\ UNCHANGED <<buf, text, pendingIds>>

SeesToken(e) ==
  /\ e.type = "TOKEN_STREAM"
  /\ buf' = [buf EXCEPT ![e.req] = Append(@, e.token)]
  /\ UNCHANGED <<text, status, pendingIds>>

\* What is in the buffer, else the payload's text, else what the bubble shows.
SeesComplete(e) ==
  /\ e.type = "TASK_COMPLETE"
  /\ text' = [text EXCEPT ![e.req] =
       IF buf[e.req] # <<>> THEN buf[e.req] ELSE IF e.text # <<>> THEN e.text ELSE @]
  /\ buf' = [buf EXCEPT ![e.req] = <<>>]
  /\ status' = [status EXCEPT ![e.req] = "done"]
  /\ pendingIds' = pendingIds \ {e.req}

SeesError(e) ==
  /\ e.type = "ERROR"
  /\ text' = [text EXCEPT ![e.req] = Notice]
  /\ status' = [status EXCEPT ![e.req] = "error"]
  /\ pendingIds' = pendingIds \ {e.req}
  /\ UNCHANGED buf

Deliver(d) ==
  /\ sock[d] # 0
  /\ LET s == <<d, sock[d]>>
     IN /\ wire[s] # <<>>
        /\ wire' = [wire EXCEPT ![s] = Tail(@)]
        /\ LET e == Head(wire[s])
           IN SeesTyping(e) \/ SeesToken(e) \/ SeesComplete(e) \/ SeesError(e)
  /\ UNCHANGED <<netVars, serverVars, lost>>

\* Every buffered text becomes the text of its bubble.
Flush(d) ==
  /\ sock[d] # 0
  /\ LET full == {r \in Requests : OwnerOf[r] = d /\ buf[r] # <<>>}
     IN /\ full # {}
        /\ text' = [r \in Requests |-> IF r \in full THEN buf[r] ELSE text[r]]
        /\ status' = [r \in Requests |-> IF r \in full THEN "streaming" ELSE status[r]]
        /\ buf' = [r \in Requests |-> IF r \in full THEN <<>> ELSE buf[r]]
  /\ UNCHANGED <<netVars, wire, serverVars, pendingIds, lost>>

Gateway(r) ==
  \/ Typing(r) \/ Fails(r) \/ ReplyPlain(r) \/ Synthesize(r)
  \/ Token(r) \/ Restart(r) \/ ReplyWhole(r) \/ ReplyFallback(r) \/ Finish(r)

Next ==
  \/ \E d \in Devices : Connect(d) \/ Close(d) \/ Deliver(d) \/ Flush(d)
  \/ \E s \in Sockets : Break(s) \/ Unregister(s)
  \/ \E r \in Requests : Post(r) \/ ResponseLost(r) \/ Gateway(r)

Spec == Init /\ [][Next]_vars

\* The gateway's promises settle (the LLM answers, fails or is aborted), and a
\* phone handles what has arrived.  Nothing makes a gateway notice a dead peer.
FairSpec ==
  /\ Spec
  /\ \A r \in Requests : WF_vars(Gateway(r))
  /\ \A d \in Devices : WF_vars(Deliver(d))

--------------------------------------------------------------------------------
(***************************************************************************)
(* Properties.                                                             *)
(***************************************************************************)
Running == {"started", "dispatched", "streaming", "replied"}

Envelopes ==
  [type : {"AGENT_TYPING", "ERROR"}, req : Requests]
    \cup [type : {"TOKEN_STREAM"}, req : Requests, token : 1..N]
    \cup [type : {"TASK_COMPLETE"}, req : Requests, text : Texts]

\* Types; a controller is tracked only on a registered socket.
TypeOK ==
  /\ \A d \in Devices : sock[d] \in 0..opened[d] /\ opened[d] \in 0..MaxConns[d]
  /\ broken \subseteq Sockets /\ sessions \subseteq Sockets
  /\ tracked \subseteq sessions \X Requests
  /\ wire \in [Sockets -> Seq(Envelopes)]
  /\ work \in [Requests -> Running \cup {"none", "done"}]
  /\ streamed \in [Requests -> 0..N] /\ spare \in [Requests -> 0..Spares]
  /\ \A r \in Requests : began[r] \in 0..streamed[r]
  /\ aborted \subseteq Requests /\ lost \subseteq Requests /\ pendingIds \subseteq Requests
  /\ buf \in [Requests -> Seq(1..N)] /\ text \in [Requests -> Texts]
  /\ status \in [Requests -> {"none", "sending", "streaming", "done", "error"}]
  /\ \A r \in Requests : seen[r] \in 0..opened[OwnerOf[r]]

\* Only a request under way is tracked: no disconnect aborts a finished one, and
\* the controllers of an open socket do not pile up.
TrackedIsRunning == \A t \in tracked : work[t[2]] \in Running

\* What a bubble shows is one unbroken piece of what was streamed for it, or the
\* agents' words or a notice, whatever sockets broke and came back meanwhile: never
\* a text with a hole in it.
ShownIsAPiece ==
  \A r \in Requests :
    \/ text[r] \in {AgentsText, Notice}
    \/ \E i, j \in 0..streamed[r] : text[r] = Piece(i, j)

\* Whoever keeps the socket open gets an answer: the request is settled and the
\* bubble no longer shows it as under way, although another phone's disconnect
\* aborts it, an agent fails or the LLM breaks off.
SettledWhileConnected ==
  \A r \in Requests :
    work[r] = "started" ~>
      \/ r \notin pendingIds /\ status[r] \in {"done", "error"}
      \/ <<OwnerOf[r], seen[r]>> \in broken

\* "Assistant responses appear word by word" and the buffer is the "accumulated
\* text": with its socket open and no abort, a finished bubble shows the whole of
\* the reply that was streamed to it (or the agents' words, or a notice).
DoneShowsWholeReply ==
  \A r \in Requests :
    /\ status[r] = "done" /\ streamed[r] > began[r]
    /\ <<OwnerOf[r], seen[r]>> \notin broken /\ r \notin aborted
    => text[r] \in {Piece(began[r], streamed[r]), AgentsText, Notice}
================================================================================
