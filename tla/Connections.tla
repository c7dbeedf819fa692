---------------------------- MODULE Connections ----------------------------
(***************************************************************************)
(* A tenant's Gmail connection: /oauth/connect and its callback, the Gmail *)
(* rows of the settings screen, DELETE /v1/integrations/gmail, the refresh *)
(* of the access token by the jobs, the renewal of the Pub/Sub watch and   *)
(* the analysis of the tone of sent mail.  All of them read and write the  *)
(* files of the credential vault and the rows one await at a time and none *)
(* takes a lock.                                                           *)
(***************************************************************************)
EXTENDS Naturals, FiniteSets

CONSTANTS Connects,       \* consents the user goes through
          Disconnects,    \* taps of Disconnect
          Renewals,       \* runs of the watch job, each with a refresh if due
          Analyses,       \* taps of Analyze My Tone
          MaxSlips        \* bound on calls and statements that fail

ASSUME ConnectionsAssumption ==
  /\ MaxSlips \in Nat
  /\ Connects \cap Disconnects = {} /\ (Connects \cup Disconnects) \cap Renewals = {}
  /\ Analyses \cap (Connects \cup Disconnects \cup Renewals) = {}

VARIABLES where,          \* [calls -> the step each is at]
          vault,          \* the keys the vault holds for gmail
          auth,           \* tenant_gmail_auth: "none", "live" or "revoked"
          watch,          \* gmail_watches has the tenant's row
          ended,          \* history: a disconnect went through and no consent followed
          late,           \* history: a job was under way during it
          met,            \* history: <<disconnect, call>> that were under way together
          linkShown,          \* gmailConnected of the settings screen
          waits,          \* disconnects whose answer the screen waits for
          stamped,        \* tone_analyzed_at is less than six hours old
          retried,        \* analyses at their second attempt
          slips
screenVars == <<linkShown, waits>>
toneVars == <<stamped, retried>>
connectionVars == <<where, vault, auth, watch, ended, late, met, screenVars, toneVars, slips>>

Keys == {"access_token", "refresh_token", "expires_at"}
Jobs == Renewals \cup Analyses
Going(S) == {x \in S : where[x] \notin {"idle", "consenting", "queued", "done", "failed"}}

ConnectionsInit ==
  /\ where = [x \in Connects \cup Disconnects \cup Jobs |-> "idle"]
  /\ vault = {} /\ auth = "none" /\ watch = FALSE
  /\ ended = FALSE /\ late = FALSE /\ met = {} /\ slips = 0
  /\ linkShown = FALSE /\ waits = {} /\ stamped = FALSE /\ retried = {}

Move(x, a, b) == where[x] = a /\ where' = [where EXCEPT ![x] = b]
Slip == slips < MaxSlips /\ slips' = slips + 1
KeepHistory == UNCHANGED <<ended, late, met>>
Meets(x) == met' = met \cup {<<d, x>> : d \in Going(Disconnects)}

---------------------------------------------------------------------------
\* Consent in the browser; the state of the flow is good for ten minutes.
Connect(c) ==
  /\ Move(c, "idle", "consenting")
  /\ UNCHANGED <<vault, auth, watch, slips>> /\ KeepHistory

StateExpires(c) ==
  /\ Move(c, "consenting", "failed")
  /\ UNCHANGED <<vault, auth, watch, slips>> /\ KeepHistory

\* The callback with its code: exchangeCode.
ExchangeCode(c) ==
  /\ \/ Move(c, "consenting", "access_token") /\ UNCHANGED slips
     \/ Slip /\ Move(c, "consenting", "failed")
  /\ ended' = FALSE /\ Meets(c)
  /\ UNCHANGED <<vault, auth, watch, late>>

\* storeTokens: one file after the other.
StoreToken(c) ==
  /\ \/ Move(c, "access_token", "refresh_token") /\ vault' = vault \cup {"access_token"}
     \/ Move(c, "refresh_token", "expires_at") /\ vault' = vault \cup {"refresh_token"}
     \/ Move(c, "expires_at", "profile") /\ vault' = vault \cup {"expires_at"}
  /\ UNCHANGED <<auth, watch, slips>> /\ KeepHistory

\* The profile, then the row; when it fails the page says Connected all the same.
StoreProfile(c) ==
  /\ Move(c, "profile", "done")
  /\ \/ auth' = "live" /\ UNCHANGED slips
     \/ Slip /\ UNCHANGED auth
  /\ UNCHANGED <<vault, watch>> /\ KeepHistory

---------------------------------------------------------------------------
\* Disconnect: the three files, the row, the watch.
Disconnect(d) ==
  /\ Move(d, "idle", "access_token")
  /\ met' = met \cup ({d} \X Going(Connects \cup Jobs))
  /\ UNCHANGED <<vault, auth, watch, ended, late, slips>>

KeepRefreshToken(d) ==   \* mutant: the refresh token is left in the vault
  /\ \/ Move(d, "access_token", "refresh_token") /\ vault' = vault \ {"access_token"}
     \/ Move(d, "refresh_token", "expires_at") /\ UNCHANGED vault
     \/ Move(d, "expires_at", "auth") /\ vault' = vault \ {"expires_at"}
  /\ UNCHANGED <<auth, watch, slips>> /\ KeepHistory
DeleteToken(d) ==
  /\ \/ Move(d, "access_token", "refresh_token") /\ vault' = vault \ {"access_token"}
     \/ Move(d, "refresh_token", "expires_at") /\ vault' = vault \ {"refresh_token"}
     \/ Move(d, "expires_at", "auth") /\ vault' = vault \ {"expires_at"}
  /\ UNCHANGED <<auth, watch, slips>> /\ KeepHistory

RevokeAuth(d) ==
  /\ \/ /\ Move(d, "auth", "watch") /\ UNCHANGED <<slips, met>>
        /\ auth' = IF auth = "none" THEN "none" ELSE "revoked"
     \/ /\ Slip /\ Move(d, "auth", "failed") /\ UNCHANGED auth
        /\ met' = {m \in met : m[1] # d}
  /\ UNCHANGED <<vault, watch, ended, late>>

\* The disconnect has gone through when no consent overlapped it.
DeleteWatch(d) ==
  /\ LET with == {q[2] : q \in {m \in met : m[1] = d}} IN
       \/ /\ Move(d, "watch", "done") /\ watch' = FALSE /\ UNCHANGED slips
          /\ ended' = (with \cap Connects = {}) /\ late' = (with # {})
       \/ Slip /\ Move(d, "watch", "failed") /\ UNCHANGED <<watch, ended, late>>
  /\ met' = {m \in met : m[1] # d}
  /\ UNCHANGED <<vault, auth>>

---------------------------------------------------------------------------
\* runWatchRenewal for a tenant whose row is live; one with a watch is renewed
\* a day before it ends.
RunWatchRenewal(r) ==
  /\ auth = "live" /\ Move(r, "idle", "reading") /\ Meets(r)
  /\ UNCHANGED <<vault, auth, watch, ended, late, slips>>

\* getAccessToken, which the other jobs of this account have too; its three
\* reads are one here.
ReadToken(r) ==
  /\ \/ "access_token" \notin vault /\ Move(r, "reading", "done")
     \/ "access_token" \in vault /\ Move(r, "reading", "renewing")
     \/ vault = Keys /\ Move(r, "reading", "refreshing")
     \/ "expires_at" \in vault /\ "refresh_token" \notin vault /\ Move(r, "reading", "done")
  /\ UNCHANGED <<vault, auth, watch, slips>> /\ KeepHistory

RefreshToken(r) ==
  /\ \/ Move(r, "refreshing", "expiry") /\ vault' = vault \cup {"access_token"} /\ UNCHANGED slips
     \/ Move(r, "expiry", "renewing") /\ vault' = vault \cup {"expires_at"} /\ UNCHANGED slips
     \/ Slip /\ Move(r, "refreshing", "done") /\ UNCHANGED vault
  /\ UNCHANGED <<auth, watch>> /\ KeepHistory

\* renewWatch: POST users/me/watch, then the row.
RenewWatch(r) ==
  /\ Move(r, "renewing", "done")
  /\ \/ watch' = TRUE /\ UNCHANGED slips
     \/ Slip /\ UNCHANGED watch
  /\ UNCHANGED <<vault, auth>> /\ KeepHistory

---------------------------------------------------------------------------
\* The settings screen asks for the status when it opens, showing none, and four
\* seconds after a tap of Connect.  A late answer would show an earlier status and
\* offer a button whose call the gateway refuses; it is not told apart.
LoadGmailStatus ==
  \/ linkShown' = FALSE /\ waits' = {}
  \/ linkShown' = (auth = "live") /\ UNCHANGED waits

\* The Gmail card has Disconnect and Analyze while it shows a connection; Disconnect
\* is a spinner while its call lasts.
GmailCard == linkShown
TapDisconnect(d) ==
  /\ GmailCard /\ waits = {} /\ Disconnect(d)
  /\ waits' = {d} /\ UNCHANGED linkShown

\* Whatever its status, an answer takes the connection off the screen; a call
\* that is lost leaves it there.
DisconnectAnswered(d) ==
  /\ d \in waits /\ waits' = {}
  /\ \/ where[d] \in {"done", "failed"} /\ linkShown' = FALSE /\ UNCHANGED slips
     \/ Slip /\ UNCHANGED linkShown

---------------------------------------------------------------------------
\* POST .../analyze-tone, from the row under a connection: not before six hours
\* have passed since the last analysis ended.
HandleAnalyzeTone(a) ==
  /\ GmailCard
  /\ Move(a, "idle", IF auth = "live" /\ ~stamped THEN "queued" ELSE "failed")

CooldownEnds == stamped /\ stamped' = FALSE

\* The worker takes one job at a time.
StartAnalysis(a) ==
  /\ Going(Analyses) = {} /\ Move(a, "queued", "reading") /\ Meets(a)
  /\ UNCHANGED <<ended, late>>

\* A job that throws has one more attempt.
Again(a) ==
  /\ Slip /\ retried' = retried \cup {a}
  /\ where' = [where EXCEPT ![a] = IF a \in retried THEN "failed" ELSE "queued"]

\* The sent mail is read and put to the model, and tone-model.md is written.
AnalyzeTone(a) ==
  /\ where[a] = "renewing"
  /\ \/ Move(a, "renewing", "stamping") /\ UNCHANGED <<slips, retried>>
     \/ Move(a, "renewing", "done") /\ UNCHANGED <<slips, retried>>   \* nothing to go by
     \/ Again(a)
  /\ UNCHANGED stamped

StampAnalysis(a) ==
  /\ where[a] = "stamping"
  /\ \/ Move(a, "stamping", "done") /\ stamped' = TRUE /\ UNCHANGED <<slips, retried>>
     \/ Again(a) /\ UNCHANGED stamped

ConnectionsNext ==
  \/ /\ \/ \E c \in Connects : \/ Connect(c) \/ StateExpires(c) \/ ExchangeCode(c)
                               \/ StoreToken(c) \/ StoreProfile(c)
        \/ \E d \in Disconnects : DeleteToken(d) \/ RevokeAuth(d) \/ DeleteWatch(d)
        \/ \E r \in Renewals : RunWatchRenewal(r) \/ RenewWatch(r)
        \/ \E x \in Jobs : ReadToken(x) \/ RefreshToken(x)
     /\ UNCHANGED <<screenVars, toneVars>>
  \/ LoadGmailStatus /\ UNCHANGED <<where, vault, auth, watch, ended, late, met, toneVars, slips>>
  \/ \E d \in Disconnects : TapDisconnect(d) /\ UNCHANGED toneVars
  \/ /\ \E d \in Disconnects : DisconnectAnswered(d)
     /\ UNCHANGED <<where, vault, auth, watch, ended, late, met, toneVars>>
  \/ \E a \in Analyses :
       /\ \/ HandleAnalyzeTone(a) /\ UNCHANGED <<ended, late, met, toneVars, slips>>
          \/ StartAnalysis(a) /\ UNCHANGED <<toneVars, slips>>
          \/ AnalyzeTone(a) /\ KeepHistory
          \/ StampAnalysis(a) /\ KeepHistory
       /\ UNCHANGED <<vault, auth, watch, screenVars>>
  \/ /\ CooldownEnds
     /\ UNCHANGED <<where, vault, auth, watch, ended, late, met, screenVars, retried, slips>>

---------------------------------------------------------------------------
\* Once a disconnect has gone through, and until the next consent, no refresh
\* token is kept and the row is not live, so no job starts on this account; an
\* access token or a watch is left, and mail is read, only on account of a job
\* that was under way when it went through (index.ts:1640,
\* gmail-watch-job.ts:49, tone-analysis-job.ts:114).
Reading == {x \in Jobs : where[x] \in {"refreshing", "expiry", "renewing", "stamping"}}
DisconnectEndsAccess ==
  ended => /\ "refresh_token" \notin vault /\ auth # "live"
           /\ (vault # {} \/ watch \/ Reading # {}) => late
=============================================================================
