---------------------------- MODULE ServiceProofs -----------------------------
(***************************************************************************)
(* Theorems about what the gateway does for its users' clients, each for   *)
(* any values of its constants: text messages, social posts, notes taken   *)
(* at the kiosk, recorded interactions, deadline alerts, the answers of    *)
(* the setup wizard, and those of the language model.                      *)
(***************************************************************************)
EXTENDS TLAPS, Sms, Studio, Kiosk, Comms, RankTheorems, LlmCall, Deals, Onboarding

(***************************************************************************)
(* Text messages.  A row that matches the number of a STOP is never both   *)
(* opted in and stopped, so a request that looks at it after the STOP is   *)
(* refused.                                                                *)
(***************************************************************************)
SendSteps == {"unused", "asked", "allowed", "refused", "unsent", "stored", "failed", "done"}
Consents == [in : BOOLEAN, dnc : BOOLEAN, stopped : BOOLEAN]
SendRecords == [to : Records \cup {NoRecord}, step : SendSteps, stopped : BOOLEAN, row : BOOLEAN]
LooksFirst(m) ==
  /\ m.step \in {"unused", "asked", "allowed", "unsent"} => ~m.row
  /\ m.step # "unused" => m.to \in Records
  /\ m.step \in {"allowed", "unsent", "stored"} \/ m.row => (m.stopped => m.to \in typed)
StopsAreKept ==
  /\ consent \in [Records -> Consents]
  /\ \A k \in Matching : ~(consent[k].in /\ consent[k].stopped)
SendsLookFirst == send \in [Sends -> SendRecords] /\ \A s \in Sends : LooksFirst(send[s])
SmsInv == StopsAreKept /\ SendsLookFirst

\* A change of one row keeps the invariant when what it leaves there is no
\* opt-in that has been stopped.
LEMMA OneConsent ==
  ASSUME StopsAreKept, typed' = typed, NEW k \in Records, NEW c \in Consents,
         consent' = [consent EXCEPT ![k] = c], k \in Matching => ~(c.in /\ c.stopped)
  PROVE  StopsAreKept'
<1>1. consent' \in [Records -> Consents]
  BY DEF StopsAreKept
<1>2. ASSUME NEW j \in Matching PROVE ~(consent'[j].in /\ consent'[j].stopped)
  <2>1. j \in Records /\ consent'[j] = IF j = k THEN c ELSE consent[j]
    BY DEF Matching, StopsAreKept
  <2>2. QED
    BY <2>1 DEF StopsAreKept
<1>3. QED
  BY <1>1, <1>2 DEF StopsAreKept, Matching

\* A change of one send keeps the invariant when it leaves a send that looked first.
LEMMA OneSend ==
  ASSUME SendsLookFirst, typed' = typed, NEW s \in Sends, NEW m \in SendRecords, LooksFirst(m),
         send' = [send EXCEPT ![s] = m]
  PROVE  SendsLookFirst'
<1>1. send' \in [Sends -> SendRecords] /\ \A r \in Sends : send'[r] = IF r = s THEN m ELSE send[r]
  BY DEF SendsLookFirst
<1>2. \A r \in Sends : LooksFirst(send'[r])
  BY <1>1 DEF SendsLookFirst
<1>3. QED
  BY <1>1, <1>2 DEF SendsLookFirst, LooksFirst

\* A send that starts has not looked yet.
LEMMA NewSend ==
  ASSUME SendsLookFirst, typed' = typed, NEW s \in Unasked, NEW k \in Records,
         send' = [send EXCEPT ![s].step = "asked", ![s].to = k]
  PROVE  SendsLookFirst'
<1>1. s \in Sends /\ send[s].step = "unused"
  BY DEF Unasked
<1>a. send[s] \in SendRecords /\ ~send[s].row
  BY <1>1 DEF SendsLookFirst, LooksFirst
<1> DEFINE m == [send[s] EXCEPT !.step = "asked", !.to = k]
<1>2. m \in SendRecords /\ LooksFirst(m)
  BY <1>a DEF SendRecords, SendSteps, LooksFirst
<1>3. send' = [send EXCEPT ![s] = m]
  OBVIOUS
<1> HIDE DEF m
<1>4. QED
  BY <1>1, <1>2, <1>3, OneSend

\* A send that moves on as one that was let through may.
LEMMA SendGoes ==
  ASSUME SendsLookFirst, typed' = typed, NEW s \in Sends, NEW b \in {"unsent", "stored", "failed", "done"},
         send[s].step # "unused", b \in {"unsent", "stored"} => send[s].step \in {"allowed", "unsent"},
         NEW r \in BOOLEAN, r => send[s].row \/ b = "stored", b = "unsent" => ~r,
         send' = [send EXCEPT ![s] = [send[s] EXCEPT !.step = b, !.row = r]]
  PROVE  SendsLookFirst'
<1>1. send[s] \in SendRecords /\ LooksFirst(send[s])
  BY DEF SendsLookFirst
<1> DEFINE m == [send[s] EXCEPT !.step = b, !.row = r]
<1>2. m \in SendRecords /\ LooksFirst(m)
  BY <1>1 DEF SendRecords, SendSteps, LooksFirst
<1>3. send' = [send EXCEPT ![s] = m]
  OBVIOUS
<1> HIDE DEF m
<1>4. QED
  BY <1>2, <1>3, OneSend

LEMMA SmsStep == SmsInv /\ [SmsNext]_smsVars => SmsInv'
<1> SUFFICES ASSUME SmsInv, [SmsNext]_smsVars PROVE SmsInv'
  OBVIOUS
<1>t. typed' = typed /\ StopsAreKept /\ SendsLookFirst
  BY DEF SmsNext, smsVars, SmsInv
<1>c. consent' = consent => StopsAreKept'
  BY <1>t DEF StopsAreKept, Matching
<1>s. send' = send => SendsLookFirst'
  BY <1>t DEF SendsLookFirst, LooksFirst
<1>r. \A s \in Sends : send[s] \in SendRecords
  BY <1>t DEF SendsLookFirst
<1>1. ASSUME NEW s \in Sends, DoSend(s) PROVE SmsInv'
  <2>a. s \in Unasked /\ send' = [send EXCEPT ![s].step = "asked", ![s].to = Mine]
    BY <1>1 DEF DoSend, StartSend
  <2>1. SendsLookFirst'
    BY <2>a, <1>t, NewSend, RecordsAssumption
  <2>2. QED
    BY <1>1, <1>c, <2>1 DEF DoSend, SmsInv
<1>2. ASSUME NEW s \in Sends, SendAnswered(s) PROVE SmsInv'
  <2>1. send[s].step \in {"stored", "refused", "failed"} /\ send' = [send EXCEPT ![s].step = "done"]
    BY <1>2 DEF SendAnswered, SendStep
  <2>2. send[s].row \in BOOLEAN /\ send' = [send EXCEPT ![s] = [send[s] EXCEPT !.step = "done", !.row = send[s].row]]
    BY <1>r, <2>1 DEF SendRecords
  <2>3. SendsLookFirst'
    BY <1>t, <2>1, <2>2, SendGoes
  <2>4. QED
    BY <1>2, <1>c, <2>3 DEF SendAnswered, SmsInv
<1>3. ASSUME NEW s \in Sends, CheckConsent(s) PROVE SmsInv'
  <2>1. send[s].to \in Records /\ ~send[s].row
    BY <1>3, <1>t DEF CheckConsent, SendsLookFirst, LooksFirst
  <2> DEFINE k == send[s].to
             m == [send[s] EXCEPT !.step = IF MayText(k) THEN "allowed" ELSE "refused",
                                  !.stopped = consent[k].stopped]
  <2>2. send' = [send EXCEPT ![s] = m] /\ consent' = consent
    BY <1>3 DEF CheckConsent
  <2>3. consent[k] \in Consents /\ (k \in Matching => ~(consent[k].in /\ consent[k].stopped))
    BY <1>t, <2>1 DEF StopsAreKept
  <2>4. /\ m \in SendRecords
        /\ m.to = k /\ ~m.row /\ m.stopped = consent[k].stopped
        /\ m.step = IF MayText(k) THEN "allowed" ELSE "refused"
    BY <1>r, <2>1, <2>3 DEF Consents, SendRecords, SendSteps
  <2>5. LooksFirst(m)
    BY <2>1, <2>3, <2>4 DEF MayText, Matching, LooksFirst
  <2> HIDE DEF m
  <2>6. QED
    BY <1>t, <1>c, <2>2, <2>4, <2>5, OneSend DEF SmsInv
<1>4. ASSUME NEW s \in Sends, SendSms(s) \/ InsertSent(s) PROVE SmsInv'
  <2>1. send[s].step \in {"allowed", "unsent"}
    BY <1>4 DEF SendSms, InsertSent, SendStep
  <2>2. ~send[s].row /\ send[s] \in SendRecords
    BY <1>t, <2>1 DEF SendsLookFirst, LooksFirst
  <2>3. ASSUME NEW b \in {"unsent", "failed"}, send' = [send EXCEPT ![s].step = b]
        PROVE  SendsLookFirst'
    <3>1. send' = [send EXCEPT ![s] = [send[s] EXCEPT !.step = b, !.row = FALSE]]
      BY <2>2, <2>3 DEF SendRecords
    <3>2. QED
      BY <1>t, <2>1, <3>1, SendGoes
  <2>4. ASSUME send' = [send EXCEPT ![s].step = "stored", ![s].row = TRUE]
        PROVE  SendsLookFirst'
    <3>1. send' = [send EXCEPT ![s] = [send[s] EXCEPT !.step = "stored", !.row = TRUE]]
      BY <2>4
    <3>2. QED
      BY <1>t, <2>1, <3>1, SendGoes
  <2>5. SendsLookFirst'
    BY <1>4, <2>3, <2>4 DEF SendSms, InsertSent, SendStep
  <2>6. QED
    BY <1>4, <1>c, <2>5 DEF SendSms, InsertSent, SmsInv
<1>5. ASSUME NEW s \in Sends, NEW k \in Records, OtherSend(s, k) PROVE SmsInv'
  <2>a. s \in Unasked /\ send' = [send EXCEPT ![s].step = "asked", ![s].to = k]
    BY <1>5 DEF OtherSend
  <2>1. SendsLookFirst'
    BY <2>a, <1>t, NewSend
  <2>2. QED
    BY <1>5, <1>c, <2>1 DEF OtherSend, SmsInv
<1>6. ASSUME NEW k \in Records, consent' = [consent EXCEPT ![k].in = TRUE, ![k].stopped = FALSE]
      PROVE  StopsAreKept'
  <2>1. consent[k] \in Consents
    BY <1>t DEF StopsAreKept
  <2> DEFINE c == [consent[k] EXCEPT !.in = TRUE, !.stopped = FALSE]
  <2>2. c \in Consents /\ ~c.stopped
    BY <2>1 DEF Consents
  <2>3. consent' = [consent EXCEPT ![k] = c]
    BY <1>6
  <2> HIDE DEF c
  <2>4. QED
    BY <1>t, <2>2, <2>3, OneConsent
<1>7. ASSUME NEW k \in Records, OtherOptIn(k) PROVE SmsInv'
  BY <1>6, <1>7, <1>s DEF OtherOptIn, SmsInv
<1>8. ASSUME NEW k \in Records, BlockContact(k) PROVE SmsInv'
  <2>1. consent[k] \in Consents
    BY <1>t DEF StopsAreKept
  <2> DEFINE c == [consent[k] EXCEPT !.dnc = TRUE]
  <2>2. c \in Consents /\ c.in = consent[k].in /\ c.stopped = consent[k].stopped
    BY <2>1 DEF Consents
  <2>3. consent' = [consent EXCEPT ![k] = c]
    BY <1>8 DEF BlockContact
  <2> HIDE DEF c
  <2>4. k \in Matching => ~(c.in /\ c.stopped)
    BY <1>t, <2>2 DEF StopsAreKept
  <2>5. StopsAreKept'
    BY <1>t, <2>2, <2>3, <2>4, OneConsent
  <2>6. QED
    BY <1>8, <1>s, <2>5 DEF BlockContact, SmsInv
<1>9. CASE OptInContact
  <2>1. StopsAreKept'
    BY <1>9, <1>6, <1>c, RecordsAssumption DEF OptInContact
  <2>a. ASSUME NEW s \in Unasked, send' = [send EXCEPT ![s].step = "asked", ![s].to = Mine]
        PROVE  SendsLookFirst'
    BY <2>a, <1>t, NewSend, RecordsAssumption
  <2>2. SendsLookFirst'
    BY <1>9, <1>s, <2>a DEF OptInContact, StartSend
  <2>3. QED
    BY <2>1, <2>2 DEF SmsInv
<1>10. CASE Stop
  <2>1. CASE consent' = consent
    BY <1>10, <2>1, <1>c, <1>s DEF Stop, SmsInv
  <2>2. CASE consent' = [k \in Records |-> [consent[k] EXCEPT !.in = @ /\ k \notin OptedOut, !.stopped = TRUE]]
    <3>1. ASSUME NEW k \in Records
          PROVE  consent'[k] \in Consents /\ (k \in Matching => ~consent'[k].in)
      <4>1. consent[k] \in Consents
        BY <1>t DEF StopsAreKept
      <4>2. consent'[k] = [consent[k] EXCEPT !.in = consent[k].in /\ k \notin Matching, !.stopped = TRUE]
        BY <2>2 DEF OptedOut
      <4>3. QED
        BY <4>1, <4>2 DEF Consents
    <3>2. consent' \in [Records -> Consents]
      BY <2>2, <3>1
    <3>3. StopsAreKept'
      BY <1>t, <3>1, <3>2 DEF StopsAreKept, Matching
    <3>4. QED
      BY <1>10, <1>s, <3>3 DEF Stop, SmsInv
  <2>3. QED
    BY <1>10, <2>1, <2>2 DEF Stop
<1>11. CASE \/ OptInCancelled \/ OptInConfirmed \/ ReadThread \/ SetThread \/ UNCHANGED smsVars
            \/ \E t \in Texts : Inbound(t) \/ DeliverText(t)
  <2>1. UNCHANGED <<consent, send>>
    BY <1>11 DEF OptInCancelled, OptInConfirmed, ReadThread, SetThread, Inbound, DeliverText, smsVars
  <2>2. QED
    BY <2>1, <1>c, <1>s DEF SmsInv
<1>12. QED
  BY <1>1, <1>2, <1>3, <1>4, <1>5, <1>7, <1>8, <1>9, <1>10, <1>11 DEF SmsNext

\* No request to text a person passes the consent check after a STOP that was written,
\* as far as the number is known as Twilio writes it, whatever the number of tenants,
\* messages and STOPs, with Twilio enabled or not.
THEOREM StopIsKept == SmsSpec => []StopIsObeyed
<1>1. SmsInit => SmsInv
  <2> SUFFICES ASSUME SmsInit PROVE SmsInv
    OBVIOUS
  <2>1. StopsAreKept
    BY DEF SmsInit, StopsAreKept, Consents, Matching
  <2>2. SendsLookFirst
    BY RecordsAssumption DEF SmsInit, SendRecords, SendSteps, LooksFirst, SendsLookFirst
  <2>3. QED
    BY <2>1, <2>2 DEF SmsInv
<1>2. SmsInv => StopIsObeyed
  BY DEF SmsInv, SendsLookFirst, LooksFirst, StopIsObeyed, LetThrough
<1>3. QED
  BY <1>1, <1>2, SmsStep, PTL DEF SmsSpec
---------------------------------------------------------------------------
(***************************************************************************)
(* The Studio.  Until New is pressed at the wrong time, only the last      *)
(* press can have its id on its way or be what the screen waits for, and   *)
(* the buttons are disabled as long.                                       *)
(***************************************************************************)
OrNoRequest == Requests \cup {NoRequest}
StudioRequests ==
  [mode : {"none", "content", "staging"}, answer : {"none", "asked", "accepted", "noted", "failed"},
   task : {"none", "queued", "older", "finished", "failed", "delivered", "lost"}]
StudioStates ==
  [mode : {"content", "staging", "paperwork"}, loading : BOOLEAN, pending : OrNoRequest,
   drafts : OrNoRequest, staged : OrNoRequest]
StudioType ==
  /\ studioRequest \in [Requests -> StudioRequests] /\ studio \in StudioStates
  /\ lastPress \in OrNoRequest /\ mixed \in BOOLEAN
Coming(m) == m.answer \in {"asked", "accepted"}
WaitsForLast ==
  /\ \A r \in Requests : Coming(studioRequest[r]) => r = lastPress /\ studio.loading
  /\ studio.pending # NoRequest =>
       studio.pending = lastPress /\ studio.loading /\ studioRequest[lastPress].answer = "noted"
StudioInv == StudioType /\ (~mixed => WaitsForLast)

LEMMA StudioStep == StudioInv /\ [StudioNext]_studioVars => StudioInv'
<1> SUFFICES ASSUME StudioInv, [StudioNext]_studioVars PROVE StudioInv'
  OBVIOUS
<1> USE StudioAssumption DEF Presses
<1>0. /\ studio \in StudioStates /\ lastPress \in OrNoRequest /\ mixed \in BOOLEAN
      /\ studioRequest \in [Requests -> StudioRequests]
      /\ \A r \in Requests : studioRequest[r] \in StudioRequests
  BY DEF StudioInv, StudioType
\* One request changes, to m.
<1>r. ASSUME NEW r \in Requests, NEW m \in StudioRequests, studioRequest' = [studioRequest EXCEPT ![r] = m]
      PROVE  /\ studioRequest' \in [Requests -> StudioRequests]
             /\ \A q \in Requests : studioRequest'[q] = IF q = r THEN m ELSE studioRequest[q]
  BY <1>0, <1>r
<1>1. ASSUME NEW r \in Requests, NEW target \in {"content", "staging"}, Post(r, target) PROVE StudioInv'
  <2> DEFINE m == [studioRequest[r] EXCEPT !.mode = target, !.answer = "asked"]
  <2>1. studioRequest' = [studioRequest EXCEPT ![r] = m]
    BY <1>1 DEF Post
  <2>2. /\ ~studio.loading /\ studio' = [studio EXCEPT !.loading = TRUE]
        /\ lastPress' = r /\ mixed' = mixed
    BY <1>1 DEF Post
  <2>3. m \in StudioRequests /\ studioRequest[r] \in StudioRequests
    BY <1>0 DEF StudioRequests
  <2> HIDE DEF m
  <2>4. /\ studioRequest' \in [Requests -> StudioRequests]
        /\ \A q \in Requests : studioRequest'[q] = IF q = r THEN m ELSE studioRequest[q]
    BY <1>r, <2>1, <2>3
  <2>5. /\ studio' \in StudioStates /\ studio'.loading /\ studio'.pending = studio.pending
    BY <1>0, <2>2 DEF StudioStates
  <2>6. StudioType'
    BY <1>0, <2>2, <2>4, <2>5 DEF StudioType, OrNoRequest
  <2>7. ASSUME ~mixed PROVE WaitsForLast'
    <3>1. studio.pending = NoRequest /\ \A q \in Requests : ~Coming(studioRequest[q])
      BY <2>2, <2>7 DEF StudioInv, WaitsForLast
    <3>2. QED
      BY <2>2, <2>4, <2>5, <3>1 DEF WaitsForLast
  <2>8. QED
    BY <2>2, <2>6, <2>7 DEF StudioInv
\* A step of one request that lets nothing more come.
<1>2. ASSUME NEW r \in Requests, NEW m \in StudioRequests,
             studioRequest' = [studioRequest EXCEPT ![r] = m], UNCHANGED <<studio, lastPress, mixed>>,
             Coming(m) => Coming(studioRequest[r]),
             studioRequest[r].answer = "noted" => m.answer = "noted"
      PROVE  StudioInv'
  <2>1. /\ studioRequest' \in [Requests -> StudioRequests]
        /\ \A q \in Requests : studioRequest'[q] = IF q = r THEN m ELSE studioRequest[q]
    BY <1>r, <1>2
  <2>2. StudioType'
    BY <1>0, <1>2, <2>1 DEF StudioType
  <2>3. ASSUME ~mixed PROVE WaitsForLast'
    <3>1. WaitsForLast
      BY <2>3 DEF StudioInv
    <3>2. \A q \in Requests : Coming(studioRequest'[q]) => q = lastPress /\ studio.loading
      BY <1>2, <2>1, <3>1 DEF WaitsForLast
    <3>3. studio.pending # NoRequest =>
             studio.pending = lastPress /\ studio.loading /\ studioRequest'[lastPress].answer = "noted"
      <4>1. studio.pending \in OrNoRequest
        BY <1>0 DEF StudioStates
      <4>2. QED
        BY <1>2, <2>1, <3>1, <4>1 DEF WaitsForLast, OrNoRequest
    <3>4. QED
      BY <1>2, <3>2, <3>3 DEF WaitsForLast
  <2>4. QED
    BY <1>2, <2>2, <2>3 DEF StudioInv
<1>3. ASSUME NEW r \in Requests, RequestFails(r) PROVE StudioInv'
  <2> DEFINE m == [studioRequest[r] EXCEPT !.answer = "failed"]
  <2>1. studioRequest' = [studioRequest EXCEPT ![r] = m]
    BY <1>3 DEF RequestFails, Set
  <2>2. /\ studio' = [studio EXCEPT !.loading = FALSE] /\ UNCHANGED <<lastPress, mixed>>
        /\ Coming(studioRequest[r])
    BY <1>3 DEF RequestFails, AnswerComing, Coming
  <2>0. studioRequest[r] \in StudioRequests
    BY <1>0
  <2>3. m \in StudioRequests /\ m.answer = "failed"
    BY <2>0 DEF StudioRequests
  <2> HIDE DEF m
  <2>4. /\ studioRequest' \in [Requests -> StudioRequests]
        /\ \A q \in Requests : studioRequest'[q] = IF q = r THEN m ELSE studioRequest[q]
    BY <1>r, <2>1, <2>3
  <2>5. studio' \in StudioStates /\ studio'.pending = studio.pending
    BY <1>0, <2>2 DEF StudioStates
  <2>6. StudioType'
    BY <1>0, <2>2, <2>4, <2>5 DEF StudioType
  <2>7. ASSUME ~mixed PROVE WaitsForLast'
    <3>1. r = lastPress /\ \A q \in Requests : Coming(studioRequest[q]) => q = r
      BY <2>2, <2>7 DEF StudioInv, WaitsForLast
    <3>2. studio.pending = NoRequest
      BY <2>2, <2>7, <3>1 DEF StudioInv, WaitsForLast, Coming
    <3>3. QED
      BY <2>3, <2>4, <2>5, <3>1, <3>2 DEF WaitsForLast, Coming
  <2>8. QED
    BY <2>2, <2>6, <2>7 DEF StudioInv
<1>4. ASSUME NEW r \in Requests, SetPending(r) PROVE StudioInv'
  <2> DEFINE m == [studioRequest[r] EXCEPT !.answer = "noted"]
  <2>1. studioRequest' = [studioRequest EXCEPT ![r] = m]
    BY <1>4 DEF SetPending, Set
  <2>2. /\ studio' = [studio EXCEPT !.pending = r] /\ UNCHANGED <<lastPress, mixed>>
        /\ Coming(studioRequest[r])
    BY <1>4 DEF SetPending, Coming
  <2>0. studioRequest[r] \in StudioRequests
    BY <1>0
  <2>3. m \in StudioRequests /\ m.answer = "noted"
    BY <2>0 DEF StudioRequests
  <2> HIDE DEF m
  <2>4. /\ studioRequest' \in [Requests -> StudioRequests]
        /\ \A q \in Requests : studioRequest'[q] = IF q = r THEN m ELSE studioRequest[q]
    BY <1>r, <2>1, <2>3
  <2>5. studio' \in StudioStates /\ studio'.pending = r /\ studio'.loading = studio.loading
    BY <1>0, <2>2 DEF StudioStates, OrNoRequest
  <2>6. StudioType'
    BY <1>0, <2>2, <2>4, <2>5 DEF StudioType
  <2>7. ASSUME ~mixed PROVE WaitsForLast'
    <3>1. r = lastPress /\ studio.loading /\ \A q \in Requests : Coming(studioRequest[q]) => q = r
      BY <2>2, <2>7 DEF StudioInv, WaitsForLast
    <3>2. QED
      BY <2>2, <2>3, <2>4, <2>5, <3>1 DEF WaitsForLast, Coming
  <2>8. QED
    BY <2>2, <2>6, <2>7 DEF StudioInv
\* What clears the screen without a press.
<1>5. ASSUME NEW target \in {"content", "staging", "paperwork"}, SetTargetMode(target) \/ SetPreset
      PROVE  StudioInv'
  <2>1. /\ studio' \in StudioStates /\ studio'.loading = studio.loading /\ studio'.pending = studio.pending
        /\ UNCHANGED <<studioRequest, lastPress, mixed>>
    BY <1>0, <1>5 DEF SetTargetMode, SetPreset, StudioStates, OrNoRequest
  <2>2. QED
    BY <2>1 DEF StudioInv, StudioType, WaitsForLast
<1>6. ASSUME Reset PROVE StudioInv'
  <2>1. /\ studio' = Blank /\ UNCHANGED <<studioRequest, lastPress>>
        /\ mixed' = (mixed \/ \E r \in Requests : AnswerComing(r))
    BY <1>6 DEF Reset
  <2>2. Blank \in StudioStates /\ Blank.pending = NoRequest
    BY DEF Blank, StudioStates, OrNoRequest
  <2>3. StudioType'
    BY <1>0, <2>1, <2>2 DEF StudioType
  <2>4. ~mixed' => WaitsForLast'
    BY <2>1, <2>2 DEF AnswerComing, Coming, WaitsForLast
  <2>5. QED
    BY <2>3, <2>4 DEF StudioInv
<1>7. ASSUME NEW r \in Requests, ContentGenerate(r) PROVE StudioInv'
  <2> DEFINE m == [studioRequest[r] EXCEPT !.answer = "accepted", !.task = "queued"]
  <2>1. studioRequest' = [studioRequest EXCEPT ![r] = m] /\ UNCHANGED <<studio, lastPress, mixed>>
    BY <1>7 DEF ContentGenerate
  <2>0. studioRequest[r] \in StudioRequests /\ studioRequest[r].answer = "asked"
    BY <1>0, <1>7 DEF ContentGenerate
  <2>2. m \in StudioRequests
    BY <2>0 DEF StudioRequests
  <2> HIDE DEF m
  <2>3. QED
    BY <1>2, <2>0, <2>1, <2>2 DEF Coming
<1>8. ASSUME NEW r \in Requests, NEW t \in {"queued", "older", "finished", "failed", "delivered", "lost"},
             Set(r, "task", t), UNCHANGED <<lastPress, mixed>>
      PROVE  /\ StudioType' <=> studio' \in StudioStates
             /\ \A q \in Requests : studioRequest'[q].answer = studioRequest[q].answer
  <2> DEFINE m == [studioRequest[r] EXCEPT !.task = t]
  <2>1. studioRequest' = [studioRequest EXCEPT ![r] = m]
    BY <1>8 DEF Set
  <2>0. studioRequest[r] \in StudioRequests
    BY <1>0
  <2>2. m \in StudioRequests /\ m.answer = studioRequest[r].answer
    BY <2>0 DEF StudioRequests
  <2> HIDE DEF m
  <2>3. /\ studioRequest' \in [Requests -> StudioRequests]
        /\ \A q \in Requests : studioRequest'[q] = IF q = r THEN m ELSE studioRequest[q]
    BY <1>r, <2>1, <2>2
  <2>4. QED
    BY <1>0, <1>8, <2>2, <2>3 DEF StudioType
<1>9. ASSUME NEW r \in Requests,
             GenerateUnheard(r) \/ StudioGenerate(r) \/ StageRoom(r) \/ StageRoomDallE2(r)
      PROVE  StudioInv'
  <2>1. PICK t \in {"queued", "older", "finished", "failed"} : Set(r, "task", t)
    BY <1>9 DEF GenerateUnheard, StudioGenerate, StageRoom, StageRoomDallE2
  <2>2. UNCHANGED <<studio, lastPress, mixed>>
    BY <1>9 DEF GenerateUnheard, StudioGenerate, StageRoom, StageRoomDallE2
  <2>3. StudioType' /\ \A q \in Requests : studioRequest'[q].answer = studioRequest[q].answer
    BY <1>0, <1>8, <2>1, <2>2
  <2>4. lastPress \in OrNoRequest /\ studio.pending \in OrNoRequest
    BY <1>0 DEF StudioStates
  <2>5. QED
    BY <2>2, <2>3, <2>4 DEF StudioInv, WaitsForLast, Coming, OrNoRequest
<1>10. ASSUME NEW r \in Requests, TaskComplete(r) PROVE StudioInv'
  <2>1. PICK t \in {"delivered", "lost"} : Set(r, "task", t)
    BY <1>10 DEF TaskComplete
  <2>2. UNCHANGED <<lastPress, mixed>>
    BY <1>10 DEF TaskComplete
  <2>3. \/ studio' = studio
        \/ studio.pending = r /\ studio' = SetStagingResult(studio, r)
        \/ studio.pending = r /\ studio' = SetResult(studio, r)
    BY <1>10 DEF TaskComplete, Recognised
  <2>4. studio' \in StudioStates
    BY <1>0, <2>3 DEF StudioStates, SetStagingResult, SetResult, OrNoRequest
  <2>5. StudioType' /\ \A q \in Requests : studioRequest'[q].answer = studioRequest[q].answer
    BY <1>8, <2>1, <2>2, <2>4
  <2>6. ASSUME ~mixed, studio' = studio PROVE WaitsForLast'
    <3>1. lastPress \in OrNoRequest /\ studio.pending \in OrNoRequest
      BY <1>0 DEF StudioStates
    <3>2. QED
      BY <2>2, <2>5, <2>6, <3>1 DEF StudioInv, WaitsForLast, Coming, OrNoRequest
  <2>7. ASSUME ~mixed, studio.pending = r, studio'.pending = NoRequest PROVE WaitsForLast'
    <3>1. \A q \in Requests : ~Coming(studioRequest[q])
      BY <2>7 DEF StudioInv, WaitsForLast, Coming
    <3>2. QED
      BY <2>2, <2>5, <2>7, <3>1 DEF WaitsForLast, Coming
  <2>8. studio' = studio \/ (studio.pending = r /\ studio'.pending = NoRequest)
    BY <1>0, <2>3 DEF StudioStates, SetStagingResult, SetResult
  <2>9. QED
    BY <2>2, <2>5, <2>6, <2>7, <2>8 DEF StudioInv
<1>11. CASE UNCHANGED studioVars
  BY <1>11 DEF studioVars, StudioInv, StudioType, WaitsForLast
<1>12. QED
  BY <1>1, <1>3, <1>4, <1>5, <1>6, <1>7, <1>9, <1>10, <1>11
     DEF StudioNext, TaskStep, HandleGenerate, HandleRegenerate, HandleStageRoom

LEMMA OnlyResultsComeUp ==
  ASSUME StudioInv, [StudioNext]_studioVars, NEW r \in Requests, ComesUp(r)
  PROVE  r = lastPress \/ mixed
<1> USE StudioAssumption
<1>0. studio \in StudioStates
  BY DEF StudioInv, StudioType
<1>1. ASSUME studio'.drafts \in {studio.drafts, NoRequest}, studio'.staged \in {studio.staged, NoRequest}
      PROVE  FALSE
  BY <1>1 DEF ComesUp
<1>2. ASSUME NEW q \in Requests, TaskComplete(q) PROVE r = lastPress \/ mixed
  <2>1. \/ studio' = studio
        \/ studio.pending = q /\ studio' = SetStagingResult(studio, q)
        \/ studio.pending = q /\ studio' = SetResult(studio, q)
    BY <1>2 DEF TaskComplete, Recognised
  <2>2. studio.pending = q /\ q = r
    BY <1>0, <2>1 DEF ComesUp, StudioStates, SetStagingResult, SetResult
  <2>3. QED
    BY <2>2 DEF StudioInv, WaitsForLast
<1>3. ASSUME NEW q \in Requests, NEW target \in {"content", "staging"}, Post(q, target) PROVE FALSE
  BY <1>0, <1>1, <1>3 DEF Post, StudioStates
<1>4. ASSUME NEW q \in Requests, RequestFails(q) \/ SetPending(q) PROVE FALSE
  BY <1>0, <1>1, <1>4 DEF RequestFails, SetPending, StudioStates
<1>5. ASSUME NEW target \in {"content", "staging", "paperwork"}, SetTargetMode(target) \/ SetPreset \/ Reset
      PROVE  FALSE
  <2>1. studio'.drafts = NoRequest /\ studio'.staged \in {studio.staged, NoRequest}
    <3>1. CASE SetTargetMode(target)
      BY <1>0, <3>1 DEF SetTargetMode, StudioStates
    <3>2. CASE SetPreset
      BY <1>0, <3>2 DEF SetPreset, StudioStates
    <3>3. CASE Reset
      BY <3>3 DEF Reset, Blank
    <3> QED BY <1>5, <3>1, <3>2, <3>3
  <2> QED BY <1>1, <2>1
<1>6. ASSUME NEW q \in Requests,
             \/ ContentGenerate(q) \/ GenerateUnheard(q) \/ StudioGenerate(q)
             \/ StageRoom(q) \/ StageRoomDallE2(q)
      PROVE  FALSE
  BY <1>1, <1>6 DEF ContentGenerate, GenerateUnheard, StudioGenerate, StageRoom, StageRoomDallE2
<1>7. CASE UNCHANGED studioVars
  BY <1>1, <1>7 DEF studioVars
<1>8. QED
  BY <1>2, <1>3, <1>4, <1>5, <1>6, <1>7
     DEF StudioNext, TaskStep, HandleGenerate, HandleRegenerate, HandleStageRoom

\* What comes onto the Studio screen is the result of the last press, in whichever
\* order answers and results come in and whichever of them are lost, as long as New
\* is not pressed while an id is on its way: for any number of presses and losses.
THEOREM ResultsAreOfTheLastPress == StudioSpec => ResultIsOfLastPress
<1>1. StudioInit => StudioInv
  <2> SUFFICES ASSUME StudioInit PROVE StudioInv
    OBVIOUS
  <2>1. Unused \in StudioRequests /\ ~Coming(Unused) /\ Blank \in StudioStates /\ Blank.pending = NoRequest
    BY DEF Unused, StudioRequests, Coming, Blank, StudioStates, OrNoRequest
  <2>2. StudioType
    BY <2>1 DEF StudioInit, StudioType, OrNoRequest
  <2>3. WaitsForLast
    BY <2>1 DEF StudioInit, WaitsForLast
  <2>4. QED
    BY <2>2, <2>3 DEF StudioInv
<1>2. StudioInv /\ [StudioNext]_studioVars =>
        [\A r \in Requests : ComesUp(r) => r = lastPress \/ mixed]_studioVars
  BY OnlyResultsComeUp
<1>3. QED
  BY <1>1, <1>2, StudioStep, PTL DEF StudioSpec, ResultIsOfLastPress
---------------------------------------------------------------------------
(***************************************************************************)
(* The kiosk.  Only a note that is being saved, or typed on the list,      *)
(* changes what the phone keeps of a guest, and only its own post or the   *)
(* queue ends a save that is running.                                      *)
(***************************************************************************)
KioskSpec == KioskInit /\ [][KioskNext]_kioskVars

KioskInv ==
  /\ kept = [g \in Guests |-> kept[g]] /\ save = [s \in NoteSaves |-> save[s]]
  /\ NoteReachesItsGuest

\* A save that starts, no note being kept by it yet.
LEMMA StartedSave ==
  ASSUME KioskInv, NEW s \in NoteSaves, NEW about, StartSave(s, about),
         UNCHANGED <<kept, guestRows, queued, lost>>
  PROVE  KioskInv'
<1> DEFINE m == [row |-> Card, about |-> about, step |-> "saving"]
<1>1. save[s].step = "free" /\ m.step = "saving" /\ save' = [save EXCEPT ![s] = m]
  BY DEF StartSave
<1> HIDE DEF m
<1>2. kept' = [g \in Guests |-> kept'[g]] /\ save' = [t \in NoteSaves |-> save'[t]]
  BY <1>1 DEF KioskInv
<1>3. \A t \in NoteSaves : save[t].step \in {"posting", "dumping"} => save'[t] = save[t]
  BY <1>1 DEF KioskInv
<1>4. QED
  BY <1>2, <1>3 DEF KioskInv, NoteReachesItsGuest, Running

LEMMA KioskStep == KioskInv /\ [KioskNext]_kioskVars => KioskInv'
<1> SUFFICES ASSUME KioskInv, [KioskNext]_kioskVars PROVE KioskInv'
  OBVIOUS
<1>1. CASE UNCHANGED <<kept, save, guestRows, queued, lost>>
  BY <1>1 DEF KioskInv, NoteReachesItsGuest, Running
<1>2. ASSUME NEW s \in NoteSaves, SpeechResult(s) PROVE KioskInv'
  BY <1>1, <1>2, StartedSave DEF SpeechResult
<1>3. ASSUME NEW s \in NoteSaves, SaveTyped(s) PROVE KioskInv'
  BY <1>3, StartedSave DEF SaveTyped
<1>4. ASSUME NEW s \in NoteSaves, NoteSaved(s) PROVE KioskInv'
  <2> DEFINE g == save[s].row
             n == save[s].about
  <2>1. /\ save[s].step = "saving" /\ kept' = [kept EXCEPT ![g] = n]
        /\ guestRows' = guestRows /\ lost' = lost
    BY <1>4 DEF NoteSaved
  <2>2. kept' = [h \in Guests |-> kept'[h]]
    BY <2>1 DEF KioskInv
  <2>3. \A h \in Guests : kept'[h] = IF h = g THEN n ELSE kept[h]
    BY <2>1 DEF KioskInv
  <2>4. CASE save' = [save EXCEPT ![s] = [row |-> g, about |-> n, step |-> "posting"]] /\ queued' = queued
    <3> DEFINE m == [row |-> g, about |-> n, step |-> "posting"]
    <3>1. save' = [save EXCEPT ![s] = m]
      BY <2>4
    <3>2. m.row = g /\ m.about = n /\ m.step = "posting"
      OBVIOUS
    <3> HIDE DEF m
    <3>3. save' = [t \in NoteSaves |-> save'[t]] /\ \A t \in NoteSaves : save'[t] = IF t = s THEN m ELSE save[t]
      BY <3>1 DEF KioskInv
    <3>5. NoteReachesItsGuest'
      BY <2>1, <2>3, <2>4, <3>2, <3>3 DEF KioskInv, NoteReachesItsGuest, Running
    <3>6. QED
      BY <2>2, <3>3, <3>5 DEF KioskInv
  <2>5. CASE save' = [save EXCEPT ![s] = Silent] /\ queued' = queued \cup {<<g, n>>}
    <3>2. save' = [t \in NoteSaves |-> save'[t]] /\ \A t \in NoteSaves : save'[t] = IF t = s THEN Silent ELSE save[t]
      BY <2>5 DEF KioskInv
    <3>4. NoteReachesItsGuest'
      BY <2>1, <2>3, <2>5, <3>2 DEF KioskInv, NoteReachesItsGuest, Running
    <3>5. QED
      BY <2>2, <3>2, <3>4 DEF KioskInv
  <2>6. QED
    BY <1>4, <2>4, <2>5 DEF NoteSaved, RowOf
<1>5. ASSUME NEW s \in NoteSaves, NEW g \in Guests, SaveBrainDump(s, g) PROVE KioskInv'
  <2> DEFINE m == [row |-> g, about |-> g, step |-> "dumping"]
  <2>1. /\ save[s].step = "free" /\ kept' = [kept EXCEPT ![g] = g] /\ save' = [save EXCEPT ![s] = m]
        /\ UNCHANGED <<guestRows, queued, lost>>
    BY <1>5 DEF SaveBrainDump
  <2>2. m.row = g /\ m.about = g /\ m.step = "dumping"
    OBVIOUS
  <2> HIDE DEF m
  <2>3. save' = [t \in NoteSaves |-> save'[t]] /\ \A t \in NoteSaves : save'[t] = IF t = s THEN m ELSE save[t]
    BY <2>1 DEF KioskInv
  <2>4. kept' = [h \in Guests |-> kept'[h]] /\ \A h \in Guests : kept'[h] = IF h = g THEN g ELSE kept[h]
    BY <2>1 DEF KioskInv
  <2>5. NoteReachesItsGuest'
    BY <2>1, <2>2, <2>3, <2>4 DEF KioskInv, NoteReachesItsGuest, Running
  <2>6. QED
    BY <2>3, <2>4, <2>5 DEF KioskInv
<1>6. ASSUME NEW s \in NoteSaves, PostNote(s) PROVE KioskInv'
  <2>1. /\ save[s].step \in {"posting", "dumping"} /\ save' = [save EXCEPT ![s] = Silent]
        /\ kept' = kept /\ queued' = queued
        /\ guestRows \subseteq guestRows' /\ lost \subseteq lost'
        /\ <<save[s].row, save[s].about>> \in guestRows' \cup lost'
    BY <1>6 DEF PostNote
  <2>3. save' = [t \in NoteSaves |-> save'[t]] /\ \A t \in NoteSaves : save'[t] = IF t = s THEN Silent ELSE save[t]
    BY <2>1 DEF KioskInv
  <2>4. ASSUME NEW g \in Guests, kept[g] # NoGuest
        PROVE  <<g, kept[g]>> \in guestRows' \cup queued' \cup lost' \/ Running(g)'
    <3>1. CASE Running(g)
      <4>1. PICK t \in NoteSaves :
              save[t].step \in {"posting", "dumping"} /\ save[t].row = g /\ save[t].about = kept[g]
        BY <3>1 DEF Running
      <4>2. CASE t = s
        BY <4>1, <4>2, <2>1
      <4>3. CASE t # s
        BY <4>1, <4>3, <2>1, <2>3 DEF Running
      <4>4. QED
        BY <4>2, <4>3
    <3>2. CASE ~Running(g)
      BY <2>1, <2>4, <3>2 DEF KioskInv, NoteReachesItsGuest
    <3>3. QED
      BY <3>1, <3>2
  <2>b. NoteReachesItsGuest'
    BY <2>1, <2>4 DEF NoteReachesItsGuest
  <2>5. kept' = [g \in Guests |-> kept'[g]]
    BY <2>1 DEF KioskInv
  <2>6. QED
    BY <2>3, <2>b, <2>5 DEF KioskInv
<1>7. CASE StartKiosk \/ ExitPress \/ SubmitPin \/ DismissPin \/ NextGuest
  BY <1>1, <1>7 DEF StartKiosk, ExitPress, SubmitPin, DismissPin, NextGuest, KeepDebrief
<1>8. ASSUME NEW g \in Guests, GuestSubmit(g) \/ AddGuest(g) PROVE KioskInv'
  BY <1>1, <1>8 DEF GuestSubmit, AddGuest
<1>9. CASE Conclude \/ SetGuests \/ EndDebrief \/ StartRecording \/ StopWithSave \/ Drag \/ SpeechError
           \/ SkipTyped \/ UNCHANGED kioskVars
  BY <1>1, <1>9 DEF Conclude, SetGuests, EndDebrief, StartRecording, StopWithSave, Drag, SpeechError,
                    SkipTyped, kioskVars
<1>10. QED
  BY <1>2, <1>3, <1>4, <1>5, <1>6, <1>7, <1>8, <1>9 DEF KioskNext

\* The note the phone keeps of a guest is filed, queued, on its way, or its post has
\* failed, however many saves overlap and for any number of guests and posts.
THEOREM NotesReachTheirGuests == KioskSpec => []NoteReachesItsGuest
<1>1. KioskInit => KioskInv
  BY DEF KioskInit, KioskInv, Silent, NoteReachesItsGuest
<1>2. KioskInv => NoteReachesItsGuest
  BY DEF KioskInv
<1>3. QED
  BY <1>1, <1>2, KioskStep, PTL DEF KioskSpec
---------------------------------------------------------------------------
(***************************************************************************)
(* The comms agent.  A dispatch is made at most once: a card leaves the    *)
(* Map of its team when it is answered, and a team that loads the row of   *)
(* another has not dispatched anything yet.  So what a relationship agent  *)
(* has recorded of a dispatch, what it has still to hear of it and what is *)
(* still to be sent are together at most one.                              *)
(***************************************************************************)
Intents == {"none", "email_ingest"} \cup {d.intent : d \in UNION {ClassifyIntent(keys) : keys \in Phrasings}}
AskRecords ==
  [step : {"unused", "elsewhere", "consent", "compliance", "drafting", "answering", "drafted", "answered",
           "failed", "offered"},
   team : Teams \cup {NoTeam}, about : People \cup {Unknown}, intent : Intents, out : BOOLEAN,
   to : People \cup {Unknown, NoRecipient}]
CommsType ==
  /\ recorded \in [Teams \X Dispatches -> Nat] /\ events \subseteq Teams \X Dispatches
  /\ ask \in [Asks -> AskRecords] /\ held \in [Teams -> SUBSET Asks] /\ rows \subseteq Asks
  /\ sending \subseteq Dispatches /\ approved \subseteq Dispatches /\ answered \subseteq Dispatches
  /\ DOMAIN team = Teams /\ home \in [Teams -> Hosts]
Fresh == \A t \in Teams, a \in Asks :
  team[t] \in {"none", "building", "loading"} => <<t, a>> \notin approved
Unoffered == \A a \in Asks :
  ask[a].step # "offered" => a \notin rows /\ \A t \in Teams : a \notin held[t] /\ <<t, a>> \notin approved
HeldIsOpen == \A t \in Teams, a \in Asks : a \in held[t] => <<t, a>> \notin approved
\* What a dispatch may cost one listener: a line, once the card is approved.
Heard(e) == recorded[e] + (IF e \in events THEN 1 ELSE 0) + (IF e[2] \in sending THEN 1 ELSE 0)
HeardOnce == \A e \in Teams \X Dispatches : Heard(e) <= (IF e[2] \in approved THEN 1 ELSE 0)
CommsInv == CommsType /\ Fresh /\ Unoffered /\ HeldIsOpen /\ HeardOnce

\* A step of a request before it is offered.
LEMMA NotOfferedYet ==
  ASSUME CommsInv, NEW a \in Asks, ask[a].step # "offered",
         UNCHANGED <<home, team, held, rows, sending, answered, approved, events, recorded>>,
         NEW m \in AskRecords, ask' = [ask EXCEPT ![a] = m]
  PROVE  CommsInv'
<1>0. ask' \in [Asks -> AskRecords] /\ \A b \in Asks : ask'[b] = IF b = a THEN m ELSE ask[b]
  BY DEF CommsInv, CommsType
<1>1. CommsType'
  BY <1>0 DEF CommsInv, CommsType
<1>2. Fresh' /\ HeldIsOpen'
  BY DEF CommsInv, Fresh, HeldIsOpen
<1>3. Unoffered'
  BY <1>0 DEF CommsInv, Unoffered
<1>4. HeardOnce'
  BY DEF CommsInv, HeardOnce, Heard
<1>5. QED
  BY <1>1, <1>2, <1>3, <1>4 DEF CommsInv

\* A dispatch is approved that was not, of a card that is offered.
LEMMA ApprovedOnce ==
  ASSUME CommsInv, NEW t \in Teams, NEW a \in Asks, <<t, a>> \notin approved, team[t] = "serving",
         CommsType', Unoffered', \A u \in Teams : held'[u] \subseteq held[u], a \notin held'[t],
         sending' = sending \cup {<<t, a>>}, approved' = approved \cup {<<t, a>>},
         UNCHANGED <<team, events, recorded>>
  PROVE  CommsInv'
<1>1. Fresh'
  BY DEF CommsInv, Fresh
<1>2. HeldIsOpen'
  BY DEF CommsInv, HeldIsOpen
<1>3. ASSUME NEW e \in Teams \X Dispatches PROVE Heard(e)' <= (IF e[2] \in approved' THEN 1 ELSE 0)
  <2>1. /\ recorded[e] \in Nat
        /\ recorded[e] + (IF e \in events THEN 1 ELSE 0) + (IF e[2] \in sending THEN 1 ELSE 0)
             <= (IF e[2] \in approved THEN 1 ELSE 0)
    BY DEF CommsInv, CommsType, HeardOnce, Heard
  <2>2. CASE e[2] = <<t, a>>
    BY <2>1, <2>2 DEF Heard
  <2>3. CASE e[2] # <<t, a>>
    BY <2>1, <2>3 DEF Heard
  <2>4. QED
    BY <2>2, <2>3
<1>4. QED
  BY <1>1, <1>2, <1>3 DEF CommsInv, HeardOnce

LEMMA CommsStep == CommsInv /\ [CommsNext]_commsVars => CommsInv'
<1> SUFFICES ASSUME CommsInv, [CommsNext]_commsVars PROVE CommsInv'
  OBVIOUS
<1> USE DEF At, AskUnchanged, TeamUnchanged, CardUnchanged, cardVars, soundVars
<1>0. \A a \in Asks : ask[a] \in AskRecords
  BY DEF CommsInv, CommsType
<1>1. CASE UNCHANGED <<home, team, ask, cardVars, soundVars>>
  BY <1>1 DEF CommsInv, CommsType, Fresh, Unoffered, HeldIsOpen, HeardOnce, Heard
<1>2. ASSUME NEW t \in Teams, BuildTeam(t) \/ InitAgents(t) \/ Serve(t) PROVE CommsInv'
  <2>1. UNCHANGED <<home, ask, cardVars, soundVars>>
    BY <1>2 DEF BuildTeam, InitAgents, Serve
  <2>2. /\ DOMAIN team' = Teams
        /\ \A u \in Teams : team'[u] \in {"none", "building", "loading"}
                             => team[u] \in {"none", "building", "loading"}
    BY <1>2 DEF BuildTeam, InitAgents, Serve, CommsInv, CommsType
  <2>3. QED
    BY <2>1, <2>2 DEF CommsInv, CommsType, Fresh, Unoffered, HeldIsOpen, HeardOnce, Heard
<1>3. ASSUME NEW t \in Teams, LoadApprovals(t) PROVE CommsInv'
  <2>1. /\ team[t] = "loading" /\ team' = [team EXCEPT ![t] = "wiring"]
        /\ held' = [held EXCEPT ![t] = rows] \/ held' = held
        /\ UNCHANGED <<home, ask, rows, sending, answered, approved, events, recorded>>
    BY <1>3 DEF LoadApprovals
  <2>2. /\ DOMAIN team' = Teams /\ held' \in [Teams -> SUBSET Asks]
        /\ \A u \in Teams : u # t => team'[u] = team[u] /\ held'[u] = held[u]
        /\ team'[t] = "wiring" /\ held'[t] \subseteq rows \cup held[t]
    BY <2>1 DEF CommsInv, CommsType
  <2>3. CommsType' /\ Fresh' /\ HeardOnce'
    BY <2>1, <2>2 DEF CommsInv, CommsType, Fresh, HeardOnce, Heard
  <2>4. Unoffered' /\ HeldIsOpen'
    BY <2>1, <2>2 DEF CommsInv, Fresh, Unoffered, HeldIsOpen
  <2>5. QED
    BY <2>3, <2>4 DEF CommsInv
<1>4. ASSUME NEW h \in Hosts, EndProcess(h) PROVE CommsInv'
  <2>1. PICK Ours \in SUBSET Teams :
          /\ team' = [t \in Teams |-> IF t \in Ours THEN "gone" ELSE team[t]]
          /\ held' = [t \in Teams |-> IF t \in Ours THEN {} ELSE held[t]]
          /\ sending' \subseteq sending /\ answered' \subseteq answered /\ events' \subseteq events
          /\ ask' = [a \in Asks |-> IF ask[a].team \in Ours /\ ask[a].step \in Handling
                                     THEN [ask[a] EXCEPT !.step = "failed"] ELSE ask[a]]
          /\ UNCHANGED <<home, rows, approved, recorded>>
    BY <1>4 DEF EndProcess
  <2>2. ASSUME NEW a \in Asks
        PROVE  /\ ask'[a] \in AskRecords
               /\ ask'[a].step # "offered" => ask[a].step # "offered"
    <3>1. ask[a] \in AskRecords
      BY <1>0
    <3>2. CASE ask[a].team \in Ours /\ ask[a].step \in Handling
      <4>1. ask'[a] = [ask[a] EXCEPT !.step = "failed"]
        BY <2>1, <3>2
      <4>2. QED
        BY <3>1, <3>2, <4>1 DEF AskRecords, Handling
    <3>3. CASE ~(ask[a].team \in Ours /\ ask[a].step \in Handling)
      BY <2>1, <3>1, <3>3
    <3>4. QED
      BY <3>2, <3>3
  <2>3. ask' \in [Asks -> AskRecords]
    BY <2>1, <2>2
  <2>4. held' \in [Teams -> SUBSET Asks] /\ \A t \in Teams : held'[t] \subseteq held[t]
    BY <2>1 DEF CommsInv, CommsType
  <2>5. CommsType'
    BY <2>1, <2>3, <2>4 DEF CommsInv, CommsType
  <2>6. Fresh'
    BY <2>1 DEF CommsInv, Fresh
  <2>7. Unoffered' /\ HeldIsOpen'
    BY <2>1, <2>2, <2>4 DEF CommsInv, Unoffered, HeldIsOpen
  <2>8. HeardOnce'
    BY <2>1 DEF CommsInv, CommsType, HeardOnce, Heard
  <2>9. QED
    BY <2>5, <2>6, <2>7, <2>8 DEF CommsInv
<1>5. ASSUME NEW a \in Asks, NEW t \in Teams, NEW p \in People, HandleInbound(a, t, p) PROVE CommsInv'
  <2>1. PICK keys \in Phrasings : \E d \in ClassifyIntent(keys) :
       ask' = [ask EXCEPT ![a] = [NewAsk EXCEPT !.team = t, !.about = p, !.to = Unknown, !.intent = d.intent,
         !.step = IF d.agent # "comms" \/ d.intent = "clarify" THEN "elsewhere"
                  ELSE IF d.intent = "draft_email" THEN "consent"
                  ELSE IF d.intent = "linkedin_dm" THEN "compliance"
                  ELSE IF d.intent \in Drafting THEN "drafting" ELSE "answering"]]
    BY <1>5 DEF HandleInbound
  <2>2. PICK d \in ClassifyIntent(keys), s \in {"elsewhere", "consent", "compliance", "drafting", "answering"} :
          ask' = [ask EXCEPT ![a] = [NewAsk EXCEPT !.team = t, !.about = p, !.to = Unknown, !.intent = d.intent,
                                                   !.step = s]]
    BY <2>1
  <2> DEFINE m == [NewAsk EXCEPT !.team = t, !.about = p, !.to = Unknown, !.intent = d.intent, !.step = s]
  <2>3. d.intent \in Intents
    BY DEF Intents
  <2>4. m \in AskRecords
    BY <2>3 DEF NewAsk, AskRecords
  <2>5. ask' = [ask EXCEPT ![a] = m] /\ ask[a].step # "offered"
    BY <1>5, <2>2 DEF HandleInbound
  <2> HIDE DEF m
  <2>6. QED
    BY <1>5, <2>4, <2>5, NotOfferedYet DEF HandleInbound
<1>6. ASSUME NEW a \in Asks, NEW t \in Teams, NEW p \in People, EmailIngest(a, t, p) PROVE CommsInv'
  <2>1. PICK s \in {"drafted", "answered"} :
          ask' = [ask EXCEPT ![a] = [NewAsk EXCEPT !.team = t, !.about = p, !.to = p,
                                                   !.intent = "email_ingest", !.step = s]]
    BY <1>6 DEF EmailIngest
  <2> DEFINE m == [NewAsk EXCEPT !.team = t, !.about = p, !.to = p, !.intent = "email_ingest", !.step = s]
  <2>2. m \in AskRecords
    BY DEF NewAsk, AskRecords, Intents
  <2>3. ask' = [ask EXCEPT ![a] = m] /\ ask[a].step # "offered"
    BY <1>6, <2>1 DEF EmailIngest
  <2> HIDE DEF m
  <2>4. QED
    BY <1>6, <2>2, <2>3, NotOfferedYet DEF EmailIngest
<1>7. ASSUME NEW a \in Asks, ConsentGate(a) PROVE CommsInv'
  <2>1. PICK s \in {"answered", "compliance"} :
          ask' = [ask EXCEPT ![a].out = optOut[ask[a].about] # {}, ![a].step = s]
    BY <1>7 DEF ConsentGate
  <2> DEFINE m == [ask[a] EXCEPT !.out = optOut[ask[a].about] # {}, !.step = s]
  <2>0. ask[a] \in AskRecords /\ (optOut[ask[a].about] # {}) \in BOOLEAN
    BY <1>0
  <2>2. m \in AskRecords
    BY <2>0 DEF AskRecords
  <2>3. ask' = [ask EXCEPT ![a] = m] /\ ask[a].step # "offered"
    BY <1>7, <2>1 DEF ConsentGate
  <2> HIDE DEF m
  <2>4. QED
    BY <1>7, <2>2, <2>3, NotOfferedYet DEF ConsentGate
<1>8. ASSUME NEW a \in Asks, Draft(a) PROVE CommsInv'
  <2>1. PICK x \in People \cup {Unknown, NoRecipient} : ask' = [ask EXCEPT ![a].step = "drafted", ![a].to = x]
    BY <1>0, <1>8 DEF Draft, AskRecords
  <2> DEFINE m == [ask[a] EXCEPT !.step = "drafted", !.to = x]
  <2>2. m \in AskRecords
    BY <1>0 DEF AskRecords
  <2>3. ask' = [ask EXCEPT ![a] = m] /\ ask[a].step # "offered"
    BY <1>8, <2>1 DEF Draft
  <2> HIDE DEF m
  <2>4. QED
    BY <1>8, <2>2, <2>3, NotOfferedYet DEF Draft
<1>9. ASSUME NEW a \in Asks, CheckCompliance(a) \/ PlainAnswer(a) \/ AgentFails(a)
      PROVE  CommsInv'
  <2>1. PICK s \in {"drafting", "answered", "failed"} : ask' = [ask EXCEPT ![a].step = s]
    BY <1>9 DEF CheckCompliance, PlainAnswer, AgentFails
  <2> DEFINE m == [ask[a] EXCEPT !.step = s]
  <2>2. m \in AskRecords
    BY <1>0 DEF AskRecords
  <2>3. ask' = [ask EXCEPT ![a] = m] /\ ask[a].step # "offered"
    BY <1>9, <2>1 DEF CheckCompliance, PlainAnswer, AgentFails
  <2>4. UNCHANGED <<home, team, held, rows, sending, answered, approved, events, recorded>>
    BY <1>9 DEF CheckCompliance, PlainAnswer, AgentFails
  <2> HIDE DEF m
  <2>5. QED
    BY <2>2, <2>3, <2>4, NotOfferedYet
<1>10. ASSUME NEW v \in Teams, NEW a \in Asks, Offer(v, a) PROVE CommsInv'
  <2>1. /\ ask[a].step = "drafted" /\ ask' = [ask EXCEPT ![a].step = "offered"]
        /\ held' = [held EXCEPT ![v] = @ \cup {a}]
        /\ UNCHANGED <<home, team, rows, sending, answered, approved, events, recorded>>
    BY <1>10 DEF Offer
  <2>2. /\ ask' \in [Asks -> AskRecords] /\ ask'[a].step = "offered"
        /\ \A b \in Asks \ {a} : ask'[b] = ask[b]
    <3> DEFINE m == [ask[a] EXCEPT !.step = "offered"]
    <3>0. ask[a] \in AskRecords
      BY <1>0
    <3>1. m \in AskRecords /\ m.step = "offered"
      BY <3>0 DEF AskRecords
    <3>2. ask' = [ask EXCEPT ![a] = m]
      BY <2>1
    <3> HIDE DEF m
    <3>3. QED
      BY <3>1, <3>2 DEF CommsInv, CommsType
  <2>3. /\ held' \in [Teams -> SUBSET Asks]
        /\ \A t \in Teams : held'[t] \subseteq held[t] \cup {a}
    BY <2>1 DEF CommsInv, CommsType
  <2>4. CommsType' /\ Fresh' /\ HeardOnce'
    BY <2>1, <2>2, <2>3 DEF CommsInv, CommsType, Fresh, HeardOnce, Heard
  <2>5. Unoffered'
    BY <2>1, <2>2, <2>3 DEF CommsInv, Unoffered
  <2>6. HeldIsOpen'
    BY <2>1, <2>3 DEF CommsInv, Unoffered, HeldIsOpen
  <2>7. QED
    BY <2>4, <2>5, <2>6 DEF CommsInv
<1>11. ASSUME NEW t \in Teams, NEW a \in Asks, SendAutomatically(t, a) PROVE CommsInv'
  <2>1. /\ ask[a].step = "drafted" /\ team[t] = "serving" /\ ask' = [ask EXCEPT ![a].step = "offered"]
        /\ sending' = sending \cup {<<t, a>>} /\ approved' = approved \cup {<<t, a>>}
        /\ UNCHANGED <<home, team, held, rows, answered, events, recorded>>
    BY <1>11 DEF SendAutomatically
  <2>2. /\ ask' \in [Asks -> AskRecords] /\ ask'[a].step = "offered"
        /\ \A b \in Asks \ {a} : ask'[b] = ask[b]
    <3> DEFINE m == [ask[a] EXCEPT !.step = "offered"]
    <3>0. ask[a] \in AskRecords
      BY <1>0
    <3>1. m \in AskRecords /\ m.step = "offered"
      BY <3>0 DEF AskRecords
    <3>2. ask' = [ask EXCEPT ![a] = m]
      BY <2>1
    <3> HIDE DEF m
    <3>3. QED
      BY <3>1, <3>2 DEF CommsInv, CommsType
  <2>3. <<t, a>> \in Dispatches
    BY DEF Dispatches
  <2>4. CommsType'
    BY <2>1, <2>2, <2>3 DEF CommsInv, CommsType
  <2>5. Unoffered'
    BY <2>1, <2>2 DEF CommsInv, Unoffered
  <2>6. <<t, a>> \notin approved /\ a \notin held'[t] /\ \A u \in Teams : held'[u] \subseteq held[u]
    BY <2>1 DEF CommsInv, Unoffered
  <2>7. QED
    BY <2>1, <2>4, <2>5, <2>6, ApprovedOnce
<1>12. ASSUME NEW t \in Teams, NEW a \in Asks, PersistToDb(t, a) PROVE CommsInv'
  <2>1. /\ a \in held[t] /\ rows' = rows \cup {a}
        /\ UNCHANGED <<home, team, ask, held, sending, answered, approved, events, recorded>>
    BY <1>12 DEF PersistToDb
  <2>2. Unoffered'
    BY <2>1 DEF CommsInv, Unoffered
  <2>3. QED
    BY <2>1, <2>2 DEF CommsInv, CommsType, Fresh, HeldIsOpen, HeardOnce, Heard
<1>13. ASSUME NEW t \in Teams, NEW a \in Asks, Approve(t, a) PROVE CommsInv'
  <2>1. /\ team[t] = "serving" /\ a \in held[t]
        /\ held' = [held EXCEPT ![t] = @ \ {a}] /\ answered' = answered \cup {<<t, a>>}
        /\ sending' = sending \cup {<<t, a>>} /\ approved' = approved \cup {<<t, a>>}
        /\ UNCHANGED <<home, team, ask, rows, events, recorded>>
    BY <1>13 DEF Approve, Answered
  <2>2. <<t, a>> \in Dispatches
    BY DEF Dispatches
  <2>3. /\ held' \in [Teams -> SUBSET Asks] /\ a \notin held'[t]
        /\ \A u \in Teams : held'[u] \subseteq held[u]
    BY <2>1 DEF CommsInv, CommsType
  <2>4. CommsType'
    BY <2>1, <2>2, <2>3 DEF CommsInv, CommsType
  <2>5. ask[a].step = "offered"
    BY <2>1 DEF CommsInv, Unoffered
  <2>6. Unoffered'
    BY <2>1, <2>3, <2>5 DEF CommsInv, Unoffered
  <2>7. <<t, a>> \notin approved
    BY <2>1 DEF CommsInv, HeldIsOpen
  <2>8. QED
    BY <2>1, <2>3, <2>4, <2>6, <2>7, ApprovedOnce
<1>14. ASSUME NEW t \in Teams, NEW a \in Asks, Cancel(t, a) \/ UpdateApproval(t, a) PROVE CommsInv'
  <2>1. /\ UNCHANGED <<home, team, ask, sending, approved, events, recorded>>
        /\ rows' \subseteq rows /\ answered' \subseteq answered \cup {<<t, a>>}
        /\ held' = held \/ held' = [held EXCEPT ![t] = @ \ {a}]
    BY <1>14 DEF Cancel, Answered, UpdateApproval
  <2>2. <<t, a>> \in Dispatches
    BY DEF Dispatches
  <2>3. held' \in [Teams -> SUBSET Asks] /\ \A u \in Teams : held'[u] \subseteq held[u]
    BY <2>1 DEF CommsInv, CommsType
  <2>4. CommsType' /\ Fresh' /\ HeardOnce'
    BY <2>1, <2>2, <2>3 DEF CommsInv, CommsType, Fresh, HeardOnce, Heard
  <2>5. Unoffered' /\ HeldIsOpen'
    BY <2>1, <2>3 DEF CommsInv, Unoffered, HeldIsOpen
  <2>6. QED
    BY <2>4, <2>5 DEF CommsInv
<1>15. ASSUME NEW t \in Teams, NEW a \in Asks, SendMessage(t, a) PROVE CommsInv'
  <2>1. /\ <<t, a>> \in sending /\ sending' = sending \ {<<t, a>>}
        /\ events' = events \/ events' = events \cup (Hearers(t) \X {<<t, a>>})
        /\ UNCHANGED <<home, team, ask, held, rows, answered, approved, recorded>>
    BY <1>15 DEF SendMessage, SendOnly
  <2>2. Hearers(t) \subseteq Teams
    BY DEF Hearers, Listening
  <2>3. CommsType' /\ Fresh' /\ Unoffered' /\ HeldIsOpen'
    BY <2>1, <2>2 DEF CommsInv, CommsType, Dispatches, Fresh, Unoffered, HeldIsOpen
  <2>4. ASSUME NEW e \in Teams \X Dispatches PROVE Heard(e)' <= (IF e[2] \in approved' THEN 1 ELSE 0)
    <3>1. /\ recorded[e] \in Nat
          /\ recorded[e] + (IF e \in events THEN 1 ELSE 0) + (IF e[2] \in sending THEN 1 ELSE 0)
               <= (IF e[2] \in approved THEN 1 ELSE 0)
      BY DEF CommsInv, CommsType, HeardOnce, Heard
    <3>2. CASE e[2] = <<t, a>>
      BY <2>1, <3>1, <3>2 DEF Heard
    <3>3. CASE e[2] # <<t, a>>
      <4>1. e \in events' <=> e \in events
        BY <2>1, <3>3
      <4>2. e[2] \in sending' <=> e[2] \in sending
        BY <2>1, <3>3
      <4>3. QED
        BY <2>1, <3>1, <4>1, <4>2 DEF Heard
    <3>4. QED
      BY <3>2, <3>3
  <2>5. QED
    BY <2>3, <2>4 DEF CommsInv, HeardOnce
<1>16. ASSUME NEW d \in Teams \X Dispatches, OnEmailSent(d) PROVE CommsInv'
  <2>1. /\ d \in events /\ events' = events \ {d}
        /\ UNCHANGED <<home, team, ask, held, rows, sending, answered, approved>>
        /\ recorded' = recorded \/ recorded' = [recorded EXCEPT ![d] = @ + 1]
    BY <1>16 DEF OnEmailSent
  <2>2. /\ recorded' \in [Teams \X Dispatches -> Nat]
        /\ \A e \in Teams \X Dispatches : e # d => recorded'[e] = recorded[e]
        /\ recorded'[d] = recorded[d] \/ recorded'[d] = recorded[d] + 1
    BY <2>1 DEF CommsInv, CommsType
  <2>3. CommsType' /\ Fresh' /\ Unoffered' /\ HeldIsOpen'
    BY <2>1, <2>2 DEF CommsInv, CommsType, Fresh, Unoffered, HeldIsOpen
  <2>4. ASSUME NEW e \in Teams \X Dispatches PROVE Heard(e)' <= (IF e[2] \in approved' THEN 1 ELSE 0)
    <3>1. /\ recorded[e] \in Nat /\ recorded'[e] \in Nat
          /\ recorded[e] + (IF e \in events THEN 1 ELSE 0) + (IF e[2] \in sending THEN 1 ELSE 0)
               <= (IF e[2] \in approved THEN 1 ELSE 0)
      BY <2>2 DEF CommsInv, CommsType, HeardOnce, Heard
    <3>2. CASE e = d
      BY <2>1, <2>2, <3>1, <3>2 DEF Heard
    <3>3. CASE e # d
      BY <2>1, <2>2, <3>1, <3>3 DEF Heard
    <3>4. QED
      BY <3>2, <3>3
  <2>5. QED
    BY <2>3, <2>4 DEF CommsInv, HeardOnce
<1>17. ASSUME NEW p \in People, Unsubscribe(p) \/ DoNotContact(p) PROVE CommsInv'
  BY <1>1, <1>17 DEF Unsubscribe, DoNotContact
<1>18. ASSUME NEW x \in Incoming, ExtractSmsSignals(x) \/ UpdateContact(x) PROVE CommsInv'
  BY <1>1, <1>18 DEF ExtractSmsSignals, UpdateContact
<1>19. CASE UNCHANGED commsVars
  BY <1>1, <1>19 DEF commsVars
<1>20. QED
  BY <1>2, <1>3, <1>4, <1>5, <1>6, <1>7, <1>8, <1>9, <1>10, <1>11, <1>12, <1>13, <1>14, <1>15, <1>16,
     <1>17, <1>18, <1>19 DEF CommsNext

\* A relationship agent writes at most one interaction for an approval, and none
\* without: for any dispatch rules, gateways, doubled coordinators, requests,
\* repeated approvals and losses, with and without Redis.
THEOREM InteractionsWereApproved == CommsSpec => []RecordedWasApproved
<1>1. CommsInit => CommsInv
  <2> SUFFICES ASSUME CommsInit PROVE CommsInv
    OBVIOUS
  <2>1. NewAsk \in AskRecords
    BY DEF NewAsk, AskRecords, Intents
  <2>2. CommsType
    BY <2>1 DEF CommsInit, CommsType
  <2>3. Fresh /\ Unoffered /\ HeldIsOpen
    BY DEF CommsInit, Fresh, Unoffered, HeldIsOpen
  <2>4. HeardOnce
    BY DEF CommsInit, HeardOnce, Heard
  <2>5. QED
    BY <2>2, <2>3, <2>4 DEF CommsInv
<1>2. CommsInv => RecordedWasApproved
  <2> SUFFICES ASSUME CommsInv, NEW e \in Teams \X Dispatches
               PROVE  recorded[e] <= (IF e[2] \in approved THEN 1 ELSE 0)
    BY DEF RecordedWasApproved
  <2>1. recorded[e] \in Nat /\ Heard(e) <= (IF e[2] \in approved THEN 1 ELSE 0)
    BY DEF CommsInv, CommsType, HeardOnce
  <2>2. QED
    BY <2>1 DEF Heard
<1>3. QED
  BY <1>1, <1>2, CommsStep, PTL DEF CommsSpec
---------------------------------------------------------------------------
(***************************************************************************)
(* The deadline monitor.  It is about to insert an alert only of a         *)
(* milestone that has none of the day, and nobody else inserts one.        *)
(***************************************************************************)
DealSpec == DealInit /\ [][DealNext]_dealVars

AlertCounts == [fresh : Nat, old : BOOLEAN]
DealInv ==
  /\ alert \in [Milestones -> AlertCounts]
  /\ monitor \in [pc : {"idle", "run", "insert", "ran"}, todo : {monitor.todo}]
  /\ OneAlertPerMilestoneAndDay
  /\ monitor.pc = "insert" =>
       \A m \in Milestones : m = Head(monitor.todo) => alert[m].fresh = 0

LEMMA DealStep == DealInv /\ [DealNext]_dealVars => DealInv'
<1> SUFFICES ASSUME DealInv, [DealNext]_dealVars PROVE DealInv'
  OBVIOUS
<1> USE DEF DealInv, OneAlertPerMilestoneAndDay, AlertCounts
<1>1. CASE UNCHANGED <<alert, monitor>>
  BY <1>1
<1>2. CASE alert' = alert /\ \E todo : monitor' = [pc |-> "run", todo |-> todo]
  BY <1>2
<1>3. CASE StartMonitor
  BY <1>2, <1>3 DEF StartMonitor
<1>4. CASE CheckExisting
  <2>1. alert' = alert /\ monitor.pc = "run"
    BY <1>4 DEF CheckExisting
  <2>2. CASE monitor' = [monitor EXCEPT !.pc = "ran"]
    BY <2>1, <2>2
  <2>3. CASE monitor' = [monitor EXCEPT !.todo = Tail(@)]
    BY <2>1, <2>3
  <2>4. CASE monitor' = [monitor EXCEPT !.pc = "insert"] /\ ~(alert[Head(monitor.todo)].fresh > 0)
    BY <2>1, <2>4
  <2>5. QED
    BY <1>4, <2>2, <2>3, <2>4 DEF CheckExisting
<1>5. CASE InsertAlert
  <2>1. CASE alert' = alert /\ monitor' = [monitor EXCEPT !.pc = "ran"]
    BY <2>1
  <2>2. CASE /\ alert' = [alert EXCEPT ![Head(monitor.todo)].fresh = @ + 1]
             /\ monitor' = [pc |-> "run", todo |-> Tail(monitor.todo)]
    <3>1. monitor.pc = "insert"
      BY <1>5 DEF InsertAlert
    <3>2. ASSUME NEW m \in Milestones PROVE alert'[m] \in AlertCounts /\ alert'[m].fresh <= 1
      BY <2>2, <3>1
    <3>3. QED
      BY <2>2, <3>2
  <2>3. QED
    BY <1>5, <2>1, <2>2 DEF InsertAlert
<1>6. CASE MonitorCrashes
  BY <1>6 DEF MonitorCrashes, NoRun
<1>7. CASE NextDay
  BY <1>7 DEF NextDay, NoRun, Undismissed
<1>8. ASSUME NEW m \in Milestones, DismissAlert(m) PROVE DealInv'
  <2>1. monitor' = monitor
    BY <1>8 DEF DismissAlert
  <2>2. CASE alert' = [alert EXCEPT ![m].fresh = IF @ = 0 THEN 0 ELSE @ - 1]
    BY <2>1, <2>2
  <2>3. CASE alert' = [alert EXCEPT ![m].old = FALSE]
    BY <2>1, <2>3
  <2>4. QED
    BY <1>8, <2>2, <2>3 DEF DismissAlert
<1>9. CASE AddDeal \/ CancelIngest \/ RequestIngest \/ CreateStep \/ LoadDeals
  BY <1>1, <1>9 DEF AddDeal, CancelIngest, RequestIngest, CreateStep, LoadDeals, KeepTables, Extract,
                    InsertDeal, SeedMilestone, InsertDocument, AnnounceDeal
<1>10. ASSUME NEW m \in Milestones, CompleteMilestone(m) \/ WaiveMilestone(m) \/ HideAlert(m) PROVE DealInv'
  BY <1>1, <1>10 DEF CompleteMilestone, WaiveMilestone, HideAlert
<1>11. CASE LoadAlerts \/ (\E x \in Disclosures : UpdateDocument(x)) \/ UNCHANGED dealVars
  BY <1>1, <1>11 DEF LoadAlerts, UpdateDocument, dealVars
<1>12. QED
  BY <1>3, <1>4, <1>5, <1>6, <1>7, <1>8, <1>9, <1>10, <1>11 DEF DealNext, MonitorStep

\* However often the job of the day runs again, crashes and is dismissed from, a
\* milestone never has two open alerts of one day: for any template and rules.
THEOREM AlertsAreSingle == DealSpec => []OneAlertPerMilestoneAndDay
<1>1. DealInit => DealInv
  BY DEF DealInit, DealInv, NoAlert, NoRun, AlertCounts, OneAlertPerMilestoneAndDay
<1>2. DealInv => OneAlertPerMilestoneAndDay
  BY DEF DealInv
<1>3. QED
  BY <1>1, <1>2, DealStep, PTL DEF DealSpec

(***************************************************************************)
(* The setup wizard.  Of a user who was not misled at most one PUT is on   *)
(* its way, and only while her row is not done; on the main screens and in *)
(* the wizard none is, and in the wizard her row is not done.              *)
(***************************************************************************)
OnboardingSpec == OnboardingInit /\ [][OnboardingNext]_onboardingVars

Voices == {"unset", "given", "skipped"}
PutRecords == [of : Users, heard : BOOLEAN, writes : [done : BOOLEAN, voice : Voices]]
GetRecords == [of : Users, sees : {"sent", "done", "new", "noDb", "error"}]
OnboardingType ==
  /\ tenantRows \in [Users -> [done : BOOLEAN, voice : Voices]]
  /\ user \in Users \cup {Nobody}
  /\ answers \in Voices
  /\ puts \subseteq PutRecords
  /\ gets \subseteq GetRecords
  /\ prefs \in [loaded : BOOLEAN, done : BOOLEAN]
Trusted == Users \ misled
AtMostOnePut ==
  \A u \in Trusted : \A p \in puts :
    p.of = u => ~tenantRows[u].done /\ \A q \in puts : q.of = u => q = p
WizardIsNeeded ==
  screen = "wizard" /\ user \in Trusted => ~tenantRows[user].done /\ \A p \in puts : p.of # user
MainAfterPut == screen = "main" /\ user \in Trusted => \A p \in puts : p.of # user
FinishingIsHeard == screen = "finishing" /\ user \in Trusted => \A p \in puts : p.of = user => p.heard
ScreenInv == WizardIsNeeded /\ MainAfterPut /\ FinishingIsHeard
OnboardingInv == OnboardingType /\ AtMostOnePut /\ ScreenInv

LEMMA OnboardingStart == OnboardingInit => OnboardingInv
<1> SUFFICES ASSUME OnboardingInit PROVE OnboardingInv
  OBVIOUS
<1>1. OnboardingType
  <2>1. tenantRows \in [Users -> [done : BOOLEAN, voice : Voices]]
    <3> DEFINE given == [done |-> TRUE, voice |-> "given"]
    <3>1. NewRow \in [done : BOOLEAN, voice : Voices] /\ given \in [done : BOOLEAN, voice : Voices]
      BY DEF NewRow, Voices
    <3>2. tenantRows \in [Users -> {NewRow, given}]
      BY DEF OnboardingInit
    <3> HIDE DEF given
    <3> QED BY <3>1, <3>2
  <2> QED BY <2>1 DEF OnboardingInit, OnboardingType, Unread, Voices
<1>2. AtMostOnePut /\ ScreenInv
  BY DEF OnboardingInit, AtMostOnePut, ScreenInv, WizardIsNeeded, MainAfterPut, FinishingIsHeard
<1> QED BY <1>1, <1>2 DEF OnboardingInv

\* A step that leaves the rows and the PUTs as they are and stays on its screen,
\* or leaves for the sign-in.
LEMMA ScreenKept ==
  ASSUME OnboardingInv, UNCHANGED <<tenantRows, puts, misled>>,
         \/ UNCHANGED <<screen, user>> \/ screen' = "signIn" \/ user' = Nobody
  PROVE  AtMostOnePut' /\ ScreenInv'
<1>1. Nobody \notin Trusted' /\ Trusted' = Trusted
  BY OnboardingAssumption DEF Trusted
<1> QED BY <1>1 DEF OnboardingInv, AtMostOnePut, ScreenInv, WizardIsNeeded, MainAfterPut,
      FinishingIsHeard

\* A PUT has come to its end, its row stored or not.
LEMMA PutEnds ==
  ASSUME OnboardingInv, NEW p \in puts, puts' = puts \ {p},
         \/ tenantRows' = Stored(p) \/ UNCHANGED tenantRows,
         UNCHANGED <<misled, user, screen>>
  PROVE  /\ AtMostOnePut' /\ ScreenInv'
         /\ tenantRows' \in [Users -> [done : BOOLEAN, voice : Voices]]
<1>1. /\ p.of \in Users /\ p.writes \in [done : BOOLEAN, voice : Voices]
      /\ tenantRows \in [Users -> [done : BOOLEAN, voice : Voices]]
      /\ Trusted' = Trusted /\ Trusted \subseteq Users
  BY DEF OnboardingInv, OnboardingType, PutRecords, Trusted
<1>2. /\ tenantRows' \in [Users -> [done : BOOLEAN, voice : Voices]]
      /\ \A u \in Users : u # p.of => tenantRows'[u] = tenantRows[u]
  BY <1>1 DEF Stored
<1>3. AtMostOnePut'
  <2> SUFFICES ASSUME NEW u \in Trusted, NEW q \in puts', q.of = u
               PROVE  ~tenantRows'[u].done /\ \A r \in puts' : r.of = u => r = q
    BY <1>1 DEF AtMostOnePut
  <2>1. q \in puts /\ q # p
    OBVIOUS
  <2>2. ~tenantRows[u].done /\ \A r \in puts : r.of = u => r = q
    BY <2>1 DEF OnboardingInv, AtMostOnePut
  <2>3. p.of # u
    BY <2>1, <2>2
  <2> QED BY <1>1, <1>2, <2>2, <2>3
<1>4. ScreenInv'
  BY <1>1, <1>2 DEF OnboardingInv, ScreenInv, WizardIsNeeded, MainAfterPut, FinishingIsHeard
<1> QED BY <1>2, <1>3, <1>4

LEMMA OnboardingStep == OnboardingInv /\ [OnboardingNext]_onboardingVars => OnboardingInv'
<1> SUFFICES ASSUME OnboardingInv, [OnboardingNext]_onboardingVars PROVE OnboardingInv'
  OBVIOUS
<1>t. OnboardingType
  BY DEF OnboardingInv
<1> USE DEF Wizard, Tallies
<1>1. ASSUME NEW u \in Users, SignIn(u) PROVE OnboardingInv'
  <2>1. OnboardingType'
    BY <1>t, <1>1 DEF SignIn, Authenticated, OnboardingType, GetRecords
  <2>2. screen' = "signIn"
    BY <1>1 DEF SignIn
  <2> QED BY <1>1, <2>1, <2>2, ScreenKept DEF SignIn, OnboardingInv
<1>2. CASE Relaunch
  <2> DEFINE deaf(p) == [p EXCEPT !.heard = FALSE]
  <2>1. \A p \in puts : /\ deaf(p) \in PutRecords
                        /\ deaf(p).of = p.of
    BY <1>t DEF OnboardingType, PutRecords
  <2>2. puts' = {deaf(p) : p \in puts} /\ UNCHANGED <<tenantRows, misled, user>>
        /\ screen' = "signIn"
    BY <1>2 DEF Relaunch
  <2> HIDE DEF deaf
  <2>3. gets' \subseteq GetRecords
    BY <1>2, <1>t DEF Relaunch, OnboardingType, GetRecords
  <2>4. prefs' \in [loaded : BOOLEAN, done : BOOLEAN] /\ answers' \in Voices
    BY <1>2 DEF Relaunch, Unread, Voices
  <2>5. OnboardingType'
    BY <1>t, <2>1, <2>2, <2>3, <2>4 DEF OnboardingType
  <2>6. AtMostOnePut'
    <3> SUFFICES ASSUME NEW u \in Trusted, NEW p \in puts', p.of = u
                 PROVE  ~tenantRows[u].done /\ \A q \in puts' : q.of = u => q = p
      BY <2>2 DEF AtMostOnePut, Trusted
    <3>1. PICK q \in puts : p = deaf(q)
      BY <2>2
    <3>2. ~tenantRows[u].done /\ \A r \in puts : r.of = u => r = q
      BY <3>1, <2>1 DEF OnboardingInv, AtMostOnePut
    <3> QED BY <3>1, <3>2, <2>1, <2>2
  <2>7. ScreenInv'
    BY <2>2 DEF ScreenInv, WizardIsNeeded, MainAfterPut, FinishingIsHeard
  <2> QED BY <2>5, <2>6, <2>7 DEF OnboardingInv
<1>3. CASE Unauthenticated
  <2>1. OnboardingType'
    BY <1>t, <1>3 DEF Unauthenticated, OnboardingType, Unread
  <2> QED BY <1>3, <2>1, ScreenKept DEF Unauthenticated, OnboardingInv
<1>4. CASE RefreshPreferences
  <2>1. user \in Users /\ tenantRows[user].done \in BOOLEAN
    BY <1>t, <1>4 DEF RefreshPreferences, OnboardingType
  <2>2. prefs' \in [loaded : BOOLEAN, done : BOOLEAN]
    BY <1>t, <1>4, <2>1 DEF RefreshPreferences, OnboardingType
  <2>3. OnboardingType'
    BY <1>t, <1>4, <2>2 DEF RefreshPreferences, OnboardingType
  <2> QED BY <1>4, <2>3, ScreenKept DEF RefreshPreferences, OnboardingInv
<1>5. ASSUME NEW g \in gets, AnswerGet(g) PROVE OnboardingInv'
  <2>1. PICK seen \in {"done", "new", "noDb", "error"} :
          gets' = (gets \ {g}) \cup {[g EXCEPT !.sees = seen]}
    BY <1>5 DEF AnswerGet
  <2>2. [g EXCEPT !.sees = seen] \in GetRecords
    BY <1>t DEF OnboardingType, GetRecords
  <2>3. OnboardingType'
    BY <1>t, <1>5, <2>1, <2>2 DEF AnswerGet, OnboardingType
  <2> QED BY <1>5, <2>3, ScreenKept DEF AnswerGet, OnboardingInv
<1>6. ASSUME NEW g \in gets, TakeGet(g) PROVE OnboardingInv'
  <2>1. prefs' \in [loaded : BOOLEAN, done : BOOLEAN]
    BY <1>t, <1>6 DEF TakeGet, OnboardingType
  <2>3. OnboardingType'
    BY <1>t, <1>6, <2>1 DEF TakeGet, OnboardingType
  <2> QED BY <1>6, <2>3, ScreenKept DEF TakeGet, OnboardingInv
<1>7. CASE AuthLayout
  <2>1. OnboardingType' /\ user \in Users
    BY <1>t, <1>7 DEF AuthLayout, OnboardingType, Voices
  <2>2. Trusted' \subseteq Trusted /\ UNCHANGED <<tenantRows, puts, user, prefs>>
    BY <1>7 DEF AuthLayout, Trusted
  <2>3. AtMostOnePut'
    BY <2>2 DEF OnboardingInv, AtMostOnePut
  <2>4. user \in Trusted' => prefs.done = tenantRows[user].done /\ \A p \in puts : p.of # user
    BY <1>7, <2>1 DEF AuthLayout, PrefsLoaded, Knows, Trusted
  <2>5. screen' = "main" \/ (screen' = "wizard" /\ ~prefs.done)
    BY <1>7 DEF AuthLayout
  <2>6. ScreenInv'
    BY <2>2, <2>4, <2>5 DEF ScreenInv, WizardIsNeeded, MainAfterPut, FinishingIsHeard
  <2> QED BY <2>1, <2>3, <2>6 DEF OnboardingInv
<1>8. CASE Continue
  BY <1>t, <1>8, ScreenKept DEF Continue, InWizard, IntegrationsStep, Forth, OnboardingInv, OnboardingType
<1>9. ASSUME NEW b \in BOOLEAN, AnswerVoice(b) PROVE OnboardingInv'
  BY <1>t, <1>9, ScreenKept DEF AnswerVoice, InWizard, Forth, OnboardingInv, OnboardingType, Voices
<1>10. ASSUME NEW b \in BOOLEAN, ChooseTier(b) PROVE OnboardingInv'
  BY <1>t, <1>10, ScreenKept DEF ChooseTier, InWizard, Forth, OnboardingInv, OnboardingType, Voices
<1>11. CASE PutAnswers
  <2>1. CASE user = Nobody
    <3>1. OnboardingType' /\ Nobody \notin Trusted' /\ Trusted' = Trusted
      BY <1>t, <1>11, <2>1, OnboardingAssumption DEF PutAnswers, AllSetStep, InWizard, OnboardingType, Trusted
    <3> QED BY <1>11, <2>1, <3>1 DEF PutAnswers, AllSetStep, InWizard, OnboardingInv, AtMostOnePut, ScreenInv,
          WizardIsNeeded, MainAfterPut, FinishingIsHeard
  <2>2. CASE user # Nobody
    <3> DEFINE new == [of |-> user, heard |-> TRUE, writes |-> [done |-> TRUE, voice |-> answers]]
    <3>1. new \in PutRecords /\ new.of = user /\ new.heard /\ user \in Users
      BY <1>t, <2>2 DEF OnboardingType, PutRecords
    <3>2. /\ puts' = puts \cup {new} /\ screen = "wizard" /\ screen' = "finishing"
          /\ UNCHANGED <<tenantRows, user, misled, prefs, gets, answers>>
      BY <1>11, <2>2 DEF PutAnswers, AllSetStep, InWizard
    <3> HIDE DEF new
    <3>3. OnboardingType'
      BY <1>t, <3>1, <3>2 DEF OnboardingType
    <3>4. Trusted' = Trusted
      BY <3>2 DEF Trusted
    <3>5. user \in Trusted => ~tenantRows[user].done /\ \A p \in puts : p.of # user
      BY <3>2 DEF OnboardingInv, ScreenInv, WizardIsNeeded
    <3>6. AtMostOnePut'
      BY <3>1, <3>2, <3>4, <3>5 DEF OnboardingInv, AtMostOnePut
    <3>7. ScreenInv'
      BY <3>1, <3>2, <3>4, <3>5 DEF ScreenInv, WizardIsNeeded, MainAfterPut, FinishingIsHeard
    <3> QED BY <3>3, <3>6, <3>7 DEF OnboardingInv
  <2> QED BY <2>1, <2>2
<1>12. ASSUME NEW p \in puts, PutPreferences(p) PROVE OnboardingInv'
  <2>1. AtMostOnePut' /\ ScreenInv' /\ tenantRows' \in [Users -> [done : BOOLEAN, voice : Voices]]
    BY <1>12, PutEnds DEF PutPreferences
  <2>2. prefs' \in [loaded : BOOLEAN, done : BOOLEAN]
    BY <1>t, <1>12 DEF PutPreferences, OnboardingType, PutRecords
  <2> QED BY <1>t, <1>12, <2>1, <2>2 DEF PutPreferences, OnboardingInv, OnboardingType
<1>13. ASSUME NEW p \in puts, PutUnheard(p) PROVE OnboardingInv'
  <2>1. AtMostOnePut' /\ ScreenInv' /\ tenantRows' \in [Users -> [done : BOOLEAN, voice : Voices]]
    BY <1>13, PutEnds DEF PutUnheard
  <2> QED BY <1>t, <1>13, <2>1 DEF PutUnheard, OnboardingInv, OnboardingType
<1>14. CASE ToTheChat
  <2>1. OnboardingType' /\ Trusted' = Trusted
    BY <1>t, <1>14 DEF ToTheChat, OnboardingType, Trusted
  <2>2. user \in Trusted => \A p \in puts : p.of # user
    BY <1>14 DEF ToTheChat, OnboardingInv, ScreenInv, FinishingIsHeard
  <2> QED BY <1>14, <2>1, <2>2 DEF ToTheChat, OnboardingInv, AtMostOnePut, ScreenInv,
        WizardIsNeeded, MainAfterPut, FinishingIsHeard
<1>15. CASE ResetOnboarding
  <2>1. /\ user \in Users /\ Trusted' = Trusted /\ Trusted \subseteq Users
        /\ UNCHANGED <<user, puts>> /\ screen = "main" /\ screen' = "wizard"
    BY <1>t, <1>15 DEF ResetOnboarding, OnboardingType, Trusted
  <2>2. /\ tenantRows' \in [Users -> [done : BOOLEAN, voice : Voices]]
        /\ ~tenantRows'[user].done
        /\ \A u \in Users : u # user => tenantRows'[u] = tenantRows[u]
    BY <1>t, <1>15, <2>1 DEF ResetOnboarding, OnboardingType
  <2>3. prefs' \in [loaded : BOOLEAN, done : BOOLEAN]
    BY <1>t, <1>15 DEF ResetOnboarding, OnboardingType
  <2>4. OnboardingType'
    BY <1>t, <1>15, <2>2, <2>3 DEF ResetOnboarding, OnboardingType, Voices
  <2>5. AtMostOnePut'
    BY <2>1, <2>2 DEF OnboardingInv, AtMostOnePut
  <2>6. ScreenInv'
    BY <2>1, <2>2 DEF OnboardingInv, ScreenInv, WizardIsNeeded, MainAfterPut, FinishingIsHeard
  <2> QED BY <2>4, <2>5, <2>6 DEF OnboardingInv
<1>16. CASE UNCHANGED onboardingVars
  BY <1>t, <1>16, ScreenKept DEF onboardingVars, OnboardingInv, OnboardingType
<1> QED BY <1>1, <1>2, <1>3, <1>4, <1>5, <1>6, <1>7, <1>8, <1>9, <1>10, <1>11, <1>12, <1>13,
     <1>14, <1>15, <1>16 DEF OnboardingNext

\* AnswersAreKept: no second pass of the wizard overwrites what a user has
\* answered, unless she was sent to her screen by other preferences than her
\* row's or with a PUT on its way.
THEOREM AnswersOutliveOtherPasses == OnboardingSpec => AnswersAreKept
<1> DEFINE Kept == \A u \in Users :
      tenantRows[u].done /\ tenantRows'[u].voice # tenantRows[u].voice => u \in misled
<1>1. OnboardingInv /\ [OnboardingNext]_onboardingVars => [Kept]_onboardingVars
  <2> SUFFICES ASSUME OnboardingInv, OnboardingNext, NEW u \in Users, tenantRows[u].done,
                      tenantRows'[u].voice # tenantRows[u].voice, u \notin misled
               PROVE  FALSE
    OBVIOUS
  <2>t. tenantRows \in [Users -> [done : BOOLEAN, voice : Voices]] /\ u \in Trusted
    BY DEF OnboardingInv, OnboardingType, Trusted
  <2>1. CASE ResetOnboarding
    <3>1. user \in Users
      BY <2>1 DEF ResetOnboarding, OnboardingInv, OnboardingType
    <3> QED BY <2>t, <2>1, <3>1 DEF ResetOnboarding
  <2>2. CASE \E p \in puts : tenantRows' = Stored(p)
    <3>1. PICK p \in puts : tenantRows' = Stored(p)
      BY <2>2
    <3>2. p.of = u
      BY <2>t, <3>1 DEF Stored, OnboardingInv, OnboardingType, PutRecords
    <3> QED BY <2>t, <3>2 DEF OnboardingInv, AtMostOnePut
  <2>3. CASE UNCHANGED tenantRows
    BY <2>3
  <2> QED BY <2>1, <2>2, <2>3 DEF OnboardingNext, SignIn, Relaunch, Unauthenticated,
        RefreshPreferences, AnswerGet, TakeGet, AuthLayout, Continue, PutAnswers, ToTheChat,
        AnswerVoice, ChooseTier, PutPreferences, PutUnheard
<1> QED BY <1>1, OnboardingStart, OnboardingStep, PTL DEF OnboardingSpec, AnswersAreKept

(***************************************************************************)
(* The language model. The tokens that were pushed last are those of the   *)
(* provider that answers now, and who is asked takes all that the request  *)
(* holds.                                                                  *)
(***************************************************************************)
LlmSpec == LlmInit /\ [][LlmNext]_llmVars

\* Every provider takes text, and all but Ollama images.
LEMMA BodyOf ==
  ASSUME NEW p
  PROVE  "text" \in Body(p) /\ (p # "ollama" => "image" \in Body(p))
<1>1. CASE p = "anthropic"
  BY <1>1, Zenon DEF Body, AnthropicBody
<1>2. CASE p = "manifest"
  BY <1>2, Zenon DEF Body, ManifestBody
<1>3. CASE p = "google"
  BY <1>3, Zenon DEF Body, GoogleBody
<1>4. CASE p = "ollama"
  BY <1>4, Zenon DEF Body, OllamaBody
<1>5. CASE p \notin {"anthropic", "manifest", "google", "ollama"}
  BY <1>5, Zenon DEF Body, OpenAiBody
<1>6. QED
  BY <1>1, <1>2, <1>3, <1>4, <1>5

Takers == {p \in Enabled : request.parts \subseteq Body(p)}

\* What a sequence ends with, as a subsequence.
LEMMA SuffixIs ==
  ASSUME NEW T, NEW s \in Seq(T), NEW w \in Seq(T), NEW b \in Nat, Len(s) = b + Len(w),
         \A i \in 1..Len(w) : s[b + i] = w[i]
  PROVE  SubSeq(s, b + 1, Len(s)) = w
<1> DEFINE sub == SubSeq(s, b + 1, Len(s))
<1>1. Len(s) \in Nat /\ Len(w) \in Nat /\ b + 1 \in Int /\ Len(s) \in Int
  BY LenProperties
<1>2. \A i \in (b + 1)..Len(s) : s[i] \in T
  BY <1>1, ElementOfSeq
<1>3. /\ sub \in Seq(T) /\ Len(sub) = IF b + 1 <= Len(s) THEN Len(s) - (b + 1) + 1 ELSE 0
      /\ \A i \in 1..(Len(s) - (b + 1) + 1) : sub[i] = s[b + 1 + i - 1]
  BY <1>1, <1>2, SubSeqProperties
<1> HIDE DEF sub
<1>4. Len(sub) = Len(w)
  BY <1>1, <1>3
<1>5. ASSUME NEW i \in 1..Len(w) PROVE sub[i] = w[i]
  <2>1. i \in 1..(Len(s) - (b + 1) + 1) /\ b + 1 + i - 1 = b + i
    BY <1>1
  <2>2. sub[i] = s[b + i]
    BY <1>3, <2>1
  <2>3. QED
    BY <2>2
<1>6. QED
  BY <1>3, <1>4, <1>5, SeqEqual DEF sub

\* Who may be asked takes every part of the request.
LEMMA ResolvedTakes ==
  ASSUME request \in LlmRequests, Resolve(request) \in Enabled
  PROVE  Resolve(request) \in Takers
<1>1. CASE request = Vision
  <2>1. Resolve(Vision) # "ollama"
    BY ImagesAssumption
  <2>2. request.parts = {"text", "image"}
    BY <1>1 DEF Vision
  <2>3. QED
    BY <1>1, <2>1, <2>2, BodyOf DEF Takers
<1>2. CASE request # Vision
  <2>1. request.parts = {"text"}
    BY <1>2 DEF LlmRequests, Synthesize, Classify, CallLlm
  <2>2. QED
    BY <2>1, BodyOf DEF Takers
<1>3. QED
  BY <1>1, <1>2

\* The fallbacks of a request take all that it holds.
LEMMA FallbacksTake ==
  ASSUME NEW tier, NEW failed, request \in LlmRequests
  PROVE  Fallbacks(tier, failed) \in Seq(Takers)
<1> DEFINE I == {i \in 1..Len(FallbackChain) : CanTakeOver(FallbackChain[i], tier, failed)}
           n == Cardinality(I)
           at == PlacesOf(FallbackChain, I)
<1>1. FallbackChain \in Seq(STRING)
  BY ChainAssumption
<1>2. /\ n \in Nat /\ at \in [1..n -> I]
      /\ Selected(FallbackChain, I) = [k \in 1..n |-> FallbackChain[at[k]]]
  <2>1. I \in SUBSET (1..Len(FallbackChain))
    OBVIOUS
  <2> HIDE DEF I
  <2>2. QED
    BY <1>1, <2>1, SelectedAt
<1>3. request.parts \subseteq {"text", "image"}
  BY DEF LlmRequests, Synthesize, Classify, CallLlm, Vision
<1>4. ASSUME NEW i \in I PROVE FallbackChain[i] \in Takers
  <2>1. FallbackChain[i] # "ollama" /\ FallbackChain[i] \in Enabled
    BY ImagesAssumption DEF CanTakeOver
  <2>2. QED
    BY <1>3, <2>1, BodyOf DEF Takers
<1>5. Fallbacks(tier, failed) = [k \in 1..n |-> FallbackChain[at[k]]]
  BY <1>2 DEF Fallbacks
<1> HIDE DEF I, n, at
<1>6. \A k \in 1..n : FallbackChain[at[k]] \in Takers
  BY <1>2, <1>4
<1>7. QED
  BY <1>2, <1>5, <1>6, IsASeq

LlmType ==
  /\ request \in LlmRequests /\ progress \in {"idle", "fetching", "streaming", "done"}
  /\ asked \in Seq(Takers) /\ chain \in Seq(Takers)
  /\ streamed \in Nat /\ pushed \in Seq(Enabled \X Nat)
  /\ progress = "idle" => asked = <<>> /\ pushed = <<>> /\ streamed = 0
\* While a provider answers, its own tokens are the last that were pushed, in order, and
\* the others are of those of the chain that broke off before.
SentBefore == Len(pushed) - streamed
TokensAreOf ==
  progress \in {"fetching", "streaming"} =>
    /\ asked # <<>> /\ (progress = "fetching" => streamed = 0)
    /\ SentBefore \in Nat
    /\ \A i \in 1..SentBefore : \E k \in 2..(Len(asked) - 1) : pushed[i][1] = asked[k]
    /\ \A i \in (SentBefore + 1)..Len(pushed) : pushed[i] = <<InCharge, i - SentBefore>>
LlmInv == LlmType /\ TokensAreOf /\ AnswerFitsRequestAndStream

\* Whoever was asked takes all that the request holds.
LEMMA AskedAre ==
  ASSUME LlmType
  PROVE  /\ Len(asked) \in Nat /\ \A k \in 1..Len(asked) : asked[k] \in Takers
         /\ asked # <<>> => Len(asked) \in Nat \ {0} /\ InCharge = asked[Len(asked)] /\ InCharge \in Takers
         /\ Len(pushed) \in Nat
<1>1. Len(asked) \in Nat /\ \A k \in 1..Len(asked) : asked[k] \in Takers
  BY LenProperties, ElementOfSeq DEF LlmType
<1>2. asked # <<>> => Len(asked) # 0
  BY EmptySeq DEF LlmType
<1>3. InCharge = asked[Len(asked)]
  BY DEF InCharge, Last
<1>4. Len(pushed) \in Nat
  BY LenProperties DEF LlmType
<1>5. QED
  BY <1>1, <1>2, <1>3, <1>4

\* Without an answer there is nothing that it must fit.
LEMMA SettledWithout ==
  ASSUME LlmInv, Settle(WithoutLlm(request))
  PROVE  LlmInv'
<1>1. /\ progress' = "done" /\ request' = request /\ asked' = asked /\ chain' = chain
      /\ streamed' = streamed /\ pushed' = pushed /\ answer' = WithoutLlm(request')
  BY DEF Settle
<1>2. Takers' = Takers
  BY <1>1 DEF Takers
<1>3. LlmType'
  BY <1>1, <1>2 DEF LlmInv, LlmType
<1>4. TokensAreOf'
  BY <1>1 DEF TokensAreOf
<1>5. ~FromLlm'
  BY <1>1 DEF FromLlm
<1>6. QED
  BY <1>3, <1>4, <1>5 DEF LlmInv, AnswerFitsRequestAndStream

\* When the next provider is asked, what was pushed is of those before it.
LEMMA NextIsAsked ==
  ASSUME LlmInv, NEW rest \in Seq(Takers), TakeOver(rest),
         \A i \in 1..Len(pushed) : \E k \in 2..Len(asked) : pushed[i][1] = asked[k]
  PROVE  LlmInv'
<1>1. CASE rest = <<>>
  BY <1>1, SettledWithout DEF TakeOver
<1>2. CASE rest # <<>>
  <2>1. /\ asked' = Append(asked, Head(rest)) /\ chain' = Tail(rest)
        /\ progress' = "fetching" /\ streamed' = 0
        /\ request' = request /\ pushed' = pushed
    BY <1>2 DEF TakeOver
  <2>2. Head(rest) \in Takers /\ Tail(rest) \in Seq(Takers)
    BY <1>2, HeadTailProperties
  <2>3. Takers' = Takers
    BY <2>1 DEF Takers
  <2>4. asked \in Seq(Takers) /\ Len(asked) \in Nat /\ Len(pushed) \in Nat
    BY AskedAre DEF LlmInv, LlmType
  <2>5. /\ asked' \in Seq(Takers) /\ Len(asked') = Len(asked) + 1
        /\ \A k \in 1..Len(asked) : asked'[k] = asked[k]
    BY <2>1, <2>2, <2>4, AppendProperties
  <2>6. LlmType'
    BY <2>1, <2>2, <2>3, <2>5 DEF LlmInv, LlmType
  <2>7. TokensAreOf'
    <3>1. SentBefore' = Len(pushed) /\ asked' # <<>>
      BY <2>1, <2>4, <2>5, EmptySeq DEF SentBefore
    <3>2. ASSUME NEW i \in 1..Len(pushed)
          PROVE  \E k \in 2..(Len(asked') - 1) : pushed[i][1] = asked'[k]
      <4>1. PICK k \in 2..Len(asked) : pushed[i][1] = asked[k]
        OBVIOUS
      <4>2. k \in 2..(Len(asked') - 1) /\ k \in 1..Len(asked)
        BY <2>4, <2>5
      <4>3. QED
        BY <2>5, <4>1, <4>2
    <3>3. (Len(pushed) + 1)..Len(pushed) = {}
      BY <2>4
    <3>4. QED
      BY <2>1, <2>4, <3>1, <3>2, <3>3 DEF TokensAreOf
  <2>8. ~FromLlm'
    BY <2>1 DEF FromLlm
  <2>9. QED
    BY <2>6, <2>7, <2>8 DEF LlmInv, AnswerFitsRequestAndStream
<1>3. QED
  BY <1>1, <1>2

\* A primary that threw has pushed nothing or is not replaced.
LEMMA Thrown ==
  ASSUME LlmInv, NEW error, Throw(error), progress \in {"fetching", "streaming"},
         progress = "streaming" => error = "raw"
  PROVE  LlmInv'
<1>1. CASE ~GoesOn(error)
  BY <1>1, SettledWithout DEF Throw
<1>2. CASE GoesOn(error)
  <2>1. TakeOver(IF IsPrimary THEN Fallbacks(request.tier, InCharge) ELSE chain)
    BY <1>2 DEF Throw
  <2>2. (IF IsPrimary THEN Fallbacks(request.tier, InCharge) ELSE chain) \in Seq(Takers)
    BY FallbacksTake DEF LlmInv, LlmType
  <2>3. /\ Len(asked) \in Nat \ {0} /\ InCharge = asked[Len(asked)] /\ Len(pushed) \in Nat
        /\ SentBefore \in Nat /\ streamed \in Nat /\ (progress = "fetching" => streamed = 0)
        /\ \A i \in 1..SentBefore : \E k \in 2..(Len(asked) - 1) : pushed[i][1] = asked[k]
        /\ \A i \in (SentBefore + 1)..Len(pushed) : pushed[i] = <<InCharge, i - SentBefore>>
    BY AskedAre DEF LlmInv, TokensAreOf, LlmType
  <2>4. ASSUME progress = "streaming" PROVE Len(asked) \in 2..Len(asked)
    <3>1. PICK n \in Nat \ {0} : n = Len(asked)
      BY <2>3
    <3>2. n # 1
      BY <1>2, <2>4, <3>1 DEF GoesOn, IsPrimary
    <3>3. n \in 2..n
      BY <3>2
    <3>4. QED
      BY <3>1, <3>3
  <2>5. progress = "fetching" => SentBefore = Len(pushed)
    BY <2>3 DEF SentBefore
  <2>6. ASSUME NEW i \in 1..Len(pushed)
        PROVE  \E k \in 2..Len(asked) : pushed[i][1] = asked[k]
    <3>1. CASE i \in 1..SentBefore
      BY <2>3, <3>1
    <3>2. CASE i \in (SentBefore + 1)..Len(pushed)
      <4>1. progress = "streaming"
        BY <2>3, <2>5, <3>2
      <4>2. pushed[i][1] = asked[Len(asked)]
        BY <2>3, <3>2
      <4>3. QED
        BY <2>3, <2>4, <4>1, <4>2
    <3>3. QED
      BY <2>3, <3>1, <3>2
  <2>7. QED
    BY <2>1, <2>2, <2>6, NextIsAsked
<1>3. QED
  BY <1>1, <1>2

\* The request arrives and its first provider is asked.
LEMMA BeginKeeps ==
  ASSUME LlmInv, Begin
  PROVE  LlmInv'
<1>1. progress = "idle" /\ asked = <<>> /\ pushed = <<>> /\ request \in LlmRequests
  BY DEF Begin, LlmInv, LlmType
<1>2. CASE Resolve(request) \notin Enabled
  BY <1>2, SettledWithout DEF Begin
<1>3. CASE Resolve(request) \in Enabled
  <2>1. TakeOver(<<Resolve(request)>>)
    BY <1>3 DEF Begin
  <2>2. <<Resolve(request)>> \in Seq(Takers)
    BY <1>1, <1>3, ResolvedTakes
  <2>3. 1..Len(pushed) = {}
    BY <1>1, EmptySeq
  <2>4. QED
    BY <2>1, <2>2, <2>3, NextIsAsked
<1>4. QED
  BY <1>2, <1>3

\* An answer in one piece follows what was pushed.
LEMMA AnsweredAtOnce ==
  ASSUME LlmInv, progress = "fetching", progress' = "done",
         NEW words \in {<<>>, <<<<InCharge, 1>>>>}, answer' = words,
         pushed' = IF request.streams THEN pushed \o words ELSE pushed,
         UNCHANGED <<request, asked, chain, streamed, aborted>>
  PROVE  LlmInv'
<1>1. /\ request' = request /\ asked' = asked /\ chain' = chain /\ streamed' = streamed
      /\ Takers' = Takers /\ InCharge' = InCharge
  BY DEF Takers, InCharge
<1>2. /\ Len(asked) \in Nat \ {0} /\ InCharge \in Takers /\ Len(pushed) \in Nat
      /\ pushed \in Seq(Enabled \X Nat)
      /\ \A i \in 1..Len(pushed) : \E k \in 2..(Len(asked) - 1) : pushed[i][1] = asked[k]
  <2>1. streamed = 0 /\ asked # <<>> /\ pushed \in Seq(Enabled \X Nat) /\ Len(pushed) \in Nat
    BY AskedAre DEF LlmInv, TokensAreOf, LlmType
  <2>2. SentBefore = Len(pushed)
    BY <2>1 DEF SentBefore
  <2>3. QED
    BY <2>1, <2>2, AskedAre DEF LlmInv, TokensAreOf
<1>3. words \in Seq(Enabled \X Nat) /\ Len(words) \in Nat
  <2>1. InCharge \in Enabled
    BY <1>2 DEF Takers
  <2>2. CASE words = <<>>
    BY <2>2, EmptySeq
  <2>3. CASE words = <<<<InCharge, 1>>>>
    BY <2>1, <2>3
  <2>4. QED
    BY <2>2, <2>3
<1>4. /\ pushed \o words \in Seq(Enabled \X Nat) /\ Len(pushed \o words) = Len(pushed) + Len(words)
      /\ \A i \in 1..(Len(pushed) + Len(words)) :
           (pushed \o words)[i] = IF i <= Len(pushed) THEN pushed[i] ELSE words[i - Len(pushed)]
  BY <1>2, <1>3, ConcatProperties
<1>5. LlmType'
  BY <1>1, <1>4 DEF LlmInv, LlmType
<1>6. TokensAreOf'
  BY DEF TokensAreOf
<1>7. request'.parts \subseteq Body(InCharge')
  BY <1>1, <1>2 DEF Takers
<1>8. ASSUME request.streams
      PROVE  /\ Len(pushed') - Len(answer') = Len(pushed)
             /\ SubSeq(pushed', Len(pushed) + 1, Len(pushed')) = answer'
             /\ \A i \in 1..Len(pushed) : \E k \in 2..(Len(asked') - 1) : pushed'[i][1] = asked'[k]
  <2>1. pushed' = pushed \o words
    BY <1>8
  <2>2. Len(pushed') - Len(answer') = Len(pushed)
    BY <1>2, <1>3, <1>4, <2>1
  <2>3. \A i \in 1..Len(pushed) : pushed'[i] = pushed[i]
    BY <1>2, <1>3, <1>4, <2>1
  <2>4. ASSUME NEW i \in 1..Len(words) PROVE (pushed \o words)[Len(pushed) + i] = words[i]
    <3>1. /\ Len(pushed) + i \in 1..(Len(pushed) + Len(words))
          /\ ~(Len(pushed) + i <= Len(pushed)) /\ Len(pushed) + i - Len(pushed) = i
      BY <1>2, <1>3
    <3>2. QED
      BY <1>4, <3>1
  <2>5. SubSeq(pushed \o words, Len(pushed) + 1, Len(pushed \o words)) = words
    BY <1>2, <1>3, <1>4, <2>4, SuffixIs
  <2>6. SubSeq(pushed', Len(pushed) + 1, Len(pushed')) = answer'
    BY <2>1, <2>5
  <2>7. QED
    BY <1>1, <1>2, <2>2, <2>3, <2>6
<1>9. AnswerFitsRequestAndStream'
  <2>1. Len(pushed) >= 0 /\ request' = request
    BY <1>1, <1>2
  <2>2. QED
    BY <1>7, <1>8, <2>1 DEF AnswerFitsRequestAndStream
<1>10. QED
  BY <1>5, <1>6, <1>9 DEF LlmInv

\* A provider answers at once, starts a stream or throws.
LEMMA RespondKeeps ==
  ASSUME LlmInv, Respond
  PROVE  LlmInv'
<1>1. progress = "fetching"
  BY DEF Respond
<1>2. CASE InCharge \in KeyMissing
  BY <1>1, <1>2, Thrown DEF Respond
<1>3. CASE InCharge \notin KeyMissing /\ aborted /\ request.streams /\ InCharge \in Streaming
  BY <1>1, <1>3, Thrown DEF Respond
<1>4. CASE InCharge \notin KeyMissing /\ ~(aborted /\ request.streams /\ InCharge \in Streaming)
  <2>1. PICK o \in HttpOutcomes :
          LET r == Complete(InCharge, o, request.streams) IN
          \/ /\ r = "text" /\ progress' = "done"
             /\ answer' = IF o = "odd" THEN <<>> ELSE <<<<InCharge, 1>>>>
             /\ pushed' = IF request.streams THEN pushed \o answer' ELSE pushed
             /\ UNCHANGED <<request, asked, chain, streamed, aborted>>
          \/ /\ r = "stream" /\ progress' = "streaming"
             /\ UNCHANGED <<request, asked, chain, streamed, pushed, answer, aborted>>
          \/ r \notin {"text", "stream"} /\ Throw(r)
    BY <1>4 DEF Respond
  <2> DEFINE r == Complete(InCharge, o, request.streams)
  <2> HIDE DEF r
  <2>2. CASE /\ progress' = "done"
             /\ answer' = IF o = "odd" THEN <<>> ELSE <<<<InCharge, 1>>>>
             /\ pushed' = IF request.streams THEN pushed \o answer' ELSE pushed
             /\ UNCHANGED <<request, asked, chain, streamed, aborted>>
    <3>1. PICK words \in {<<>>, <<<<InCharge, 1>>>>} : answer' = words
      BY <2>2
    <3>2. pushed' = IF request.streams THEN pushed \o words ELSE pushed
      BY <2>2, <3>1
    <3>3. QED
      BY <1>1, <2>2, <3>1, <3>2, AnsweredAtOnce
  <2>3. CASE /\ progress' = "streaming"
             /\ UNCHANGED <<request, asked, chain, streamed, pushed, answer, aborted>>
    <3>1. Takers' = Takers
      BY <2>3 DEF Takers
    <3>2. LlmType'
      BY <2>3, <3>1 DEF LlmInv, LlmType
    <3>3. TokensAreOf'
      BY <1>1, <2>3 DEF LlmInv, TokensAreOf, SentBefore, InCharge
    <3>4. ~FromLlm'
      BY <2>3 DEF FromLlm
    <3>5. QED
      BY <3>2, <3>3, <3>4 DEF LlmInv, AnswerFitsRequestAndStream
  <2>4. CASE Throw(r)
    BY <1>1, <2>4, Thrown
  <2>5. QED
    BY <2>1, <2>2, <2>3, <2>4 DEF r
<1>5. QED
  BY <1>2, <1>3, <1>4

\* A token is pushed to the phone and kept for the answer.
LEMMA TokenKeeps ==
  ASSUME LlmInv, Token
  PROVE  LlmInv'
<1>1. /\ progress = "streaming" /\ progress' = progress /\ request' = request
      /\ asked' = asked /\ chain' = chain /\ streamed' = streamed + 1
      /\ pushed' = Append(pushed, <<InCharge, streamed + 1>>)
  BY DEF Token
<1>2. /\ Takers' = Takers /\ InCharge' = InCharge
  BY <1>1 DEF Takers, InCharge
<1>3. /\ asked # <<>> /\ InCharge \in Enabled /\ Len(pushed) \in Nat /\ streamed \in Nat
      /\ pushed \in Seq(Enabled \X Nat) /\ SentBefore \in Nat
      /\ \A i \in 1..SentBefore : \E k \in 2..(Len(asked) - 1) : pushed[i][1] = asked[k]
      /\ \A i \in (SentBefore + 1)..Len(pushed) : pushed[i] = <<InCharge, i - SentBefore>>
  BY <1>1, AskedAre DEF LlmInv, LlmType, TokensAreOf, Takers
<1>4. /\ pushed' \in Seq(Enabled \X Nat) /\ Len(pushed') = Len(pushed) + 1
      /\ \A i \in 1..Len(pushed) : pushed'[i] = pushed[i]
      /\ pushed'[Len(pushed) + 1] = <<InCharge, streamed + 1>>
  <2>1. <<InCharge, streamed + 1>> \in Enabled \X Nat
    BY <1>3
  <2>2. QED
    BY <1>1, <1>3, <2>1, AppendProperties
<1>5. PICK b \in Nat : b = SentBefore
  BY <1>3
<1>6. SentBefore' = b /\ b <= Len(pushed) /\ Len(pushed) = b + streamed
  BY <1>1, <1>3, <1>4, <1>5 DEF SentBefore
<1>7. LlmType'
  BY <1>1, <1>2, <1>3, <1>4 DEF LlmInv, LlmType
<1>8. \A i \in 1..b : \E k \in 2..(Len(asked) - 1) : pushed'[i][1] = asked[k]
  <2> SUFFICES ASSUME NEW i \in 1..b PROVE \E k \in 2..(Len(asked) - 1) : pushed'[i][1] = asked[k]
    OBVIOUS
  <2>1. i \in 1..Len(pushed)
    BY <1>3, <1>6
  <2>2. pushed'[i] = pushed[i]
    BY <1>4, <2>1
  <2>3. \E k \in 2..(Len(asked) - 1) : pushed[i][1] = asked[k]
    BY <1>3, <1>5
  <2>4. QED
    BY <2>2, <2>3
<1>9. ASSUME NEW i \in (b + 1)..(Len(pushed) + 1) PROVE pushed'[i] = <<InCharge, i - b>>
  <2>1. CASE i = Len(pushed) + 1
    <3>1. i - b = streamed + 1
      BY <1>3, <1>6, <2>1
    <3>2. QED
      BY <1>4, <2>1, <3>1
  <2>2. CASE i # Len(pushed) + 1
    <3>1. i \in (b + 1)..Len(pushed) /\ i \in 1..Len(pushed)
      BY <1>3, <2>2
    <3>2. QED
      BY <1>3, <1>4, <1>5, <3>1
  <2>3. QED
    BY <2>1, <2>2
<1>10. TokensAreOf'
  <2>1. asked' # <<>> /\ (progress' = "fetching" => streamed' = 0) /\ SentBefore' \in Nat
    BY <1>1, <1>3, <1>6
  <2>2. \A i \in 1..SentBefore' : \E k \in 2..(Len(asked') - 1) : pushed'[i][1] = asked'[k]
    BY <1>1, <1>6, <1>8
  <2>3. \A i \in (SentBefore' + 1)..Len(pushed') : pushed'[i] = <<InCharge', i - SentBefore'>>
    BY <1>2, <1>4, <1>6, <1>9
  <2>4. QED
    BY <2>1, <2>2, <2>3 DEF TokensAreOf
<1>11. ~FromLlm'
  BY <1>1 DEF FromLlm
<1>12. QED
  BY <1>7, <1>10, <1>11 DEF LlmInv, AnswerFitsRequestAndStream

\* A stream that ends: the words that were pushed are the answer.
LEMMA StreamEndsKeeps ==
  ASSUME LlmInv, StreamEnds
  PROVE  LlmInv'
<1>1. /\ progress = "streaming" /\ progress' = "done" /\ answer' = Text(InCharge, streamed)
      /\ request' = request /\ asked' = asked /\ chain' = chain /\ streamed' = streamed
      /\ pushed' = pushed
  BY DEF StreamEnds, Settle
<1>2. /\ Takers' = Takers /\ InCharge' = InCharge
  BY <1>1 DEF Takers, InCharge
<1>3. /\ InCharge \in Takers /\ Len(pushed) \in Nat /\ streamed \in Nat
      /\ pushed \in Seq(Enabled \X Nat) /\ SentBefore \in Nat
      /\ \A i \in 1..SentBefore : \E k \in 2..(Len(asked) - 1) : pushed[i][1] = asked[k]
      /\ \A i \in (SentBefore + 1)..Len(pushed) : pushed[i] = <<InCharge, i - SentBefore>>
  BY <1>1, AskedAre DEF LlmInv, LlmType, TokensAreOf
<1>4. PICK w : w = Text(InCharge, streamed)
  OBVIOUS
<1>5. PICK b \in Nat : b = SentBefore
  BY <1>3
<1>6. b <= Len(pushed) /\ Len(pushed) = b + streamed
  BY <1>3, <1>5 DEF SentBefore
<1>7. w \in Seq(Enabled \X Nat) /\ Len(w) = streamed /\ \A i \in 1..streamed : w[i] = <<InCharge, i>>
  <2>1. w = [i \in 1..streamed |-> <<InCharge, i>>]
    BY <1>4 DEF Text
  <2> DEFINE e(i) == <<InCharge, i>>
  <2>2. \A i \in 1..streamed : e(i) \in Enabled \X Nat
    BY <1>3 DEF Takers
  <2>3. w = [i \in 1..streamed |-> e(i)]
    BY <2>1
  <2>4. \A i \in 1..streamed : w[i] = <<InCharge, i>>
    BY <2>1
  <2> HIDE DEF e
  <2>5. QED
    BY <1>3, <2>2, <2>3, <2>4, IsASeq
<1>8. ASSUME NEW i \in 1..Len(w) PROVE pushed[b + i] = w[i]
  <2>1. Len(pushed) \in Nat /\ Len(pushed) = b + streamed /\ streamed \in Nat /\ i \in 1..streamed
    BY <1>3, <1>6, <1>7
  <2>2. b + i \in (b + 1)..Len(pushed) /\ b + i - b = i
    BY <2>1
  <2>3. pushed[b + i] = <<InCharge, b + i - b>>
    BY <1>3, <1>5, <2>2
  <2>4. QED
    BY <1>7, <2>1, <2>2, <2>3
<1>9. SubSeq(pushed, b + 1, Len(pushed)) = w
  BY <1>3, <1>6, <1>7, <1>8, SuffixIs
<1>10. LlmType' /\ TokensAreOf'
  BY <1>1, <1>2 DEF LlmInv, LlmType, TokensAreOf
<1>11. AnswerFitsRequestAndStream'
  <2>1. request.parts \subseteq Body(InCharge) /\ b >= 0
    BY <1>3 DEF Takers
  <2>2. Len(pushed') - Len(answer') = b
    BY <1>1, <1>3, <1>4, <1>6, <1>7
  <2>3. SubSeq(pushed', b + 1, Len(pushed')) = answer'
    BY <1>1, <1>4, <1>9
  <2>4. \A i \in 1..b : \E k \in 2..(Len(asked') - 1) : pushed'[i][1] = asked'[k]
    BY <1>1, <1>3, <1>5
  <2>5. QED
    BY <1>1, <1>2, <2>1, <2>2, <2>3, <2>4 DEF AnswerFitsRequestAndStream
<1>12. QED
  BY <1>10, <1>11 DEF LlmInv

\* For any providers and any chain: what the phone was streamed and what was answered
\* agree, and nothing is left out of the request.
THEOREM AnswersFit == LlmSpec => []AnswerFitsRequestAndStream
<1>1. LlmInit => LlmInv
  <2> SUFFICES ASSUME LlmInit PROVE LlmInv
    OBVIOUS
  <2>1. progress = "idle" /\ asked = <<>> /\ chain = <<>> /\ pushed = <<>> /\ streamed = 0 /\ request \in LlmRequests
    BY DEF LlmInit
  <2>2. LlmType
    BY <2>1, EmptySeq DEF LlmType
  <2>3. TokensAreOf /\ AnswerFitsRequestAndStream
    BY <2>1 DEF TokensAreOf, AnswerFitsRequestAndStream, FromLlm
  <2>4. QED
    BY <2>2, <2>3 DEF LlmInv
<1>2. LlmInv /\ [LlmNext]_llmVars => LlmInv'
  <2> SUFFICES ASSUME LlmInv, [LlmNext]_llmVars PROVE LlmInv'
    OBVIOUS
  <2>1. CASE StreamBreaks
    BY <2>1, Thrown DEF StreamBreaks
  <2>2. CASE PhoneLeaves \/ UNCHANGED llmVars
    <3>1. UNCHANGED <<request, progress, asked, chain, streamed, pushed, answer>>
      BY <2>2 DEF PhoneLeaves, llmVars
    <3>2. WithoutLlm(request)' = WithoutLlm(request)
      BY <3>1
    <3>3. Takers' = Takers /\ SentBefore' = SentBefore /\ InCharge' = InCharge /\ FromLlm' = FromLlm
      BY <3>1, <3>2 DEF Takers, SentBefore, InCharge, FromLlm
    <3>4. LlmType' /\ TokensAreOf'
      BY <3>1, <3>3 DEF LlmInv, LlmType, TokensAreOf
    <3>5. AnswerFitsRequestAndStream'
      BY <3>1, <3>3 DEF LlmInv, AnswerFitsRequestAndStream
    <3>6. QED
      BY <3>4, <3>5 DEF LlmInv
  <2>3. QED
    BY <2>1, <2>2, BeginKeeps, RespondKeeps, TokenKeeps, StreamEndsKeeps DEF LlmNext
<1>3. LlmInv => AnswerFitsRequestAndStream
  BY DEF LlmInv
<1>4. QED
  BY <1>1, <1>2, <1>3, PTL DEF LlmSpec
===============================================================================
