-------------------------------- MODULE Sms ---------------------------------
(***************************************************************************)
(* Texting: POST /v1/sms with its consent check, the opt-in sheet of the   *)
(* phone, the webhooks for inbound texts and STOP, and the thread the      *)
(* phone shows.  One person is a contact of several tenants that share one *)
(* Twilio number.  No text ever leaves: with Twilio enabled every send     *)
(* fails, without it a row says "sent".  So no row has a Twilio sid, and   *)
(* the webhook for delivery statuses finds nothing to change.              *)
(***************************************************************************)
EXTENDS Naturals, FiniteSets

CONSTANTS Records,      \* the rows of the person in table contacts, one per tenant
          Mine,         \* the row of the tenant whose phone is modelled
          NoRecord,
          Sends,        \* messages the agents send
          Texts,        \* messages the person sends
          MaxStopTexts      \* bound on STOPs

ASSUME RecordsAssumption ==
  Mine \in Records /\ NoRecord \notin Records

VARIABLES twilio,       \* enabled in config/integrations.json
          typed,        \* rows whose number is as the form writes it, not as Twilio does
          consent,      \* [Records -> sms_opted_in, do_not_contact, and what the person last said]
          send,         \* [Sends -> the request and its row in sms_messages]
          text,         \* [Texts -> the webhook call and the row of its MessageSid]
          nstops,
          thread,       \* what the phone shows of Mine
          fetched,      \* GET /v1/sms/:contactId: the rows on their way to the phone
          sheet         \* "none", "optIn" or "confirming"
smsVars == <<twilio, typed, consent, send, text, nstops, thread, fetched, sheet>>

SmsInit ==
  /\ twilio \in BOOLEAN /\ typed \in SUBSET Records
  /\ consent = [k \in Records |-> [in |-> FALSE, dnc |-> FALSE, stopped |-> FALSE]]
  /\ send = [s \in Sends |-> [to |-> NoRecord, step |-> "unused", stopped |-> FALSE, row |-> FALSE]]
  /\ text = [t \in Texts |-> [step |-> "unused", todo |-> {}, row |-> NoRecord]]
  /\ nstops = 0 /\ thread = {} /\ fetched = {} /\ sheet = "none"

Matching == Records \ typed          \* WHERE phone = From
SendStep(s, a, b) == send[s].step = a /\ send' = [send EXCEPT ![s].step = b]
Unasked == {s \in Sends : send[s].step = "unused"}
Sending == \E s \in Sends \ Unasked : send[s].to = Mine /\ send[s].step # "done"
KeepPhone == UNCHANGED <<thread, fetched, sheet>>

---------------------------------------------------------------------------
\* The phone.  The bubble of a message that is being sent is never taken out.
StartSend(s) ==
  /\ send' = [send EXCEPT ![s].step = "asked", ![s].to = Mine]
  /\ thread' = thread \cup {<<"sending", s>>}

DoSend(s) ==
  /\ sheet # "optIn" /\ ~Sending /\ s \in Unasked
  /\ StartSend(s)
  /\ UNCHANGED <<consent, text, nstops, fetched, sheet>>

SendAnswered(s) ==
  /\ send[s].to = Mine
  /\ \/ SendStep(s, "stored", "done") /\ thread' = thread \cup {<<"sent", s>>} /\ UNCHANGED sheet
     \/ SendStep(s, "refused", "done") /\ sheet' = "optIn" /\ UNCHANGED thread
     \/ SendStep(s, "failed", "done") /\ UNCHANGED <<thread, sheet>>
  /\ UNCHANGED <<consent, text, nstops, fetched>>

OptInCancelled ==
  /\ sheet = "optIn" /\ sheet' = "none"
  /\ UNCHANGED <<consent, send, text, nstops, thread, fetched>>

\* handleOptInConfirm waits for the PATCH, whatever comes of it, and sends again: also
\* beside a send that was started meanwhile, of which its closure knows nothing.
OptInConfirmed ==
  /\ sheet = "optIn" /\ sheet' = "confirming"
  /\ UNCHANGED <<consent, send, text, nstops, thread, fetched>>

OptInContact ==
  /\ sheet = "confirming" /\ sheet' = "none"
  /\ \/ consent' = [consent EXCEPT ![Mine].in = TRUE, ![Mine].stopped = FALSE]
     \/ UNCHANGED consent
  /\ \/ \E s \in Unasked : StartSend(s)
     \/ Unasked = {} /\ UNCHANGED <<send, thread>>
  /\ UNCHANGED <<text, nstops, fetched>>

\* loadThread: the rows now, shown when they arrive in place of what is shown.
ReadThread ==
  /\ fetched = {}
  /\ fetched' = {<<"answer", Mine>>}
                \cup {<<"sent", s>> : s \in {x \in Sends : send[x].to = Mine /\ send[x].row}}
                \cup {<<"received", t>> : t \in {x \in Texts : text[x].row = Mine}}
  /\ UNCHANGED <<consent, send, text, nstops, thread, sheet>>

SetThread ==
  /\ fetched # {} /\ thread' = fetched \ {<<"answer", Mine>>} /\ fetched' = {}
  /\ UNCHANGED <<consent, send, text, nstops, sheet>>

---------------------------------------------------------------------------
\* Another tenant's agent texts the person, having taken consent in person.
OtherSend(s, k) ==
  /\ k # Mine /\ s \in Unasked
  /\ send' = [send EXCEPT ![s].step = "asked", ![s].to = k]
  /\ UNCHANGED <<consent, text, nstops>> /\ KeepPhone

OtherOptIn(k) ==
  /\ k # Mine /\ ~consent[k].in
  /\ consent' = [consent EXCEPT ![k].in = TRUE, ![k].stopped = FALSE]
  /\ UNCHANGED <<send, text, nstops>> /\ KeepPhone

BlockContact(k) ==
  /\ ~consent[k].dnc /\ consent' = [consent EXCEPT ![k].dnc = TRUE]
  /\ UNCHANGED <<send, text, nstops>> /\ KeepPhone

\* POST /v1/sms, one await after the other.
MayText(k) == consent[k].in /\ ~consent[k].dnc
CheckConsent(s) ==
  /\ send[s].step = "asked"
  /\ LET k == send[s].to IN
       send' = [send EXCEPT ![s].step = IF MayText(k) THEN "allowed" ELSE "refused",
                            ![s].stopped = consent[k].stopped]
  /\ UNCHANGED <<consent, text, nstops>> /\ KeepPhone

\* Twilio refuses the request, whose URLSearchParams have become the body "{}".
SendSms(s) ==
  /\ SendStep(s, "allowed", IF twilio THEN "failed" ELSE "unsent")
  /\ UNCHANGED <<consent, text, nstops>> /\ KeepPhone

\* Without Twilio nothing was sent: the row and the 201 say "sent" all the same.
InsertSent(s) ==
  /\ \/ send[s].step = "unsent" /\ send' = [send EXCEPT ![s].step = "stored", ![s].row = TRUE]
     \/ SendStep(s, "unsent", "failed")
  /\ UNCHANGED <<consent, text, nstops>> /\ KeepPhone

---------------------------------------------------------------------------
\* STOP: every row with this number, whichever tenant was texted.  Twilio was
\* answered before: a statement that fails loses the STOP.
OptedOutOne ==   \* mutant: one of them
  IF Matching = {} THEN {} ELSE {CHOOSE k \in Matching : TRUE}
OptedOut == Matching
Stop ==
  /\ nstops < MaxStopTexts /\ nstops' = nstops + 1
  /\ \/ consent' = [k \in Records |-> [consent[k] EXCEPT !.in = @ /\ k \notin OptedOut,
                                                         !.stopped = TRUE]]
     \/ UNCHANGED consent
  /\ UNCHANGED <<send, text>> /\ KeepPhone

\* An inbound text goes to every row that matches.
Inbound(t) ==
  /\ text[t].step = "unused"
  /\ text' = [text EXCEPT ![t].step = "routing", ![t].todo = Matching]
  /\ UNCHANGED <<consent, send, nstops>> /\ KeepPhone

\* One MessageSid has one row: the first insert wins, each tenant is told.
DeliverText(t) ==
  /\ \E k \in text[t].todo :
       /\ text' = [text EXCEPT ![t].todo = @ \ {k}, ![t].row = IF @ = NoRecord THEN k ELSE @]
       /\ thread' = IF k = Mine THEN thread \cup {<<"received", t>>} ELSE thread
  /\ UNCHANGED <<consent, send, nstops, fetched, sheet>>

SmsNext ==
  /\ UNCHANGED <<twilio, typed>>
  /\ \/ \E s \in Sends : \/ DoSend(s) \/ SendAnswered(s) \/ CheckConsent(s) \/ SendSms(s)
                         \/ InsertSent(s)
                         \/ \E k \in Records : OtherSend(s, k)
     \/ \E k \in Records : OtherOptIn(k) \/ BlockContact(k)
     \/ \E t \in Texts : Inbound(t) \/ DeliverText(t)
     \/ OptInCancelled \/ OptInConfirmed \/ OptInContact \/ ReadThread \/ SetThread \/ Stop

SmsSpec == SmsInit /\ [][SmsNext]_smsVars

---------------------------------------------------------------------------
\* Past the consent check, and what came of it: handed to Twilio, or said to be sent.
LetThrough(s) == send[s].step \in {"allowed", "unsent", "stored"} \/ send[s].row

\* No request to text a person passes the consent check, or is recorded as sent, when
\* the person's STOP was written before it looked, unless an agent has confirmed consent
\* again, as far as the number is known as Twilio writes it.
StopIsObeyed == \A s \in Sends : LetThrough(s) /\ send[s].stopped => send[s].to \in typed

\* index.ts:2652-2653: "Honoring STOP for every tenant prevents re-sending to a
\* number that has opted out of any agent's communications".
StopReachesEveryTenant == \A s \in Sends : LetThrough(s) => ~send[s].stopped
=============================================================================
