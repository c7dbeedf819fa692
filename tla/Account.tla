------------------------------ MODULE Account ------------------------------
(***************************************************************************)
(* Sign-in, refresh tokens and the subscription: the tables `tenants` and  *)
(* `refresh_tokens` (src/auth, src/webhooks/revenuecat.ts, the endpoints   *)
(* under /v1/auth, the trial job) and one phone with its token store, its  *)
(* copy in the secure store and its authedFetch wrapper.  The store sells  *)
(* subscriptions through RevenueCat, whose events arrive late, twice and   *)
(* out of order.  A claim is what a JWT says of the row: whether it has    *)
(* Professional access, all that its two fields are used for.              *)
(***************************************************************************)
EXTENDS Naturals, Sequences, SequencesExt, FiniteSets

CONSTANTS Tenants,      \* the people who sign in on this phone
          Calls,        \* authedFetch calls that may overlap
          Tok,          \* names for refresh tokens, reused when nobody holds one
          NoTok, NoTenant,
          MaxEvents,    \* bound on what happens at the store
          MaxLapses    \* bound on kills, lost answers and failed statements

ASSUME TokAssumption == NoTok \notin Tok /\ IsFiniteSet(Tok) /\ Cardinality(Tok) >= 4
ASSUME NoTenantAssumption == NoTenant \notin Tenants

VARIABLES tenantRows,     \* table tenants: tier, status, revenuecat_customer_id
          store,    \* RevenueCat: is the tenant entitled, under which id
          events,    \* events RevenueCat still has to deliver, in the order emitted
          overtaken,\* history: some event of the tenant arrived after a later one
          nevents,
          valid,    \* table refresh_tokens: the unrevoked ones somebody holds
          phone,    \* zustand auth store
          disk,     \* SecureStore
          refresh,  \* the module-level refreshPromise of lib/api.ts
          call,     \* the authedFetch calls in progress
          sdk,      \* the id Purchases.configure was given
          reason,   \* history: something that may end the session has happened
          lapses

billing == <<tenantRows, store, events, overtaken, nevents>>
session == <<valid, phone, disk, refresh, call, sdk, reason, lapses>>
accountVars == <<billing, session>>

Alias(t) == <<t, "alias">>
ASSUME AliasAssumption == \A t \in Tenants : Alias(t) \notin Tenants \cup {NoTenant}
Granting == {"INITIAL_PURCHASE", "RENEWAL", "UNCANCELLATION", "RESUME"}
Ending == {"CANCELLATION", "EXPIRATION"}

\* isProfessionalAccess and assertPlan(auth, 'professional'): an active status,
\* the grace period included, and the tier.
HasAccess(t) == /\ tenantRows[t].status \in {"trialing", "active", "past_due"}
                /\ tenantRows[t].tier = "professional"

FetchClaimsCached(t) == phone.claims
\* fetchSubscriptionClaims: what a token issued now says.
FetchClaims(t) == HasAccess(t)

SignedOut == [status |-> "unauthenticated", token |-> NoTok, tenant |-> NoTenant,
              claims |-> FALSE, age |-> "fresh"]
Booting == [SignedOut EXCEPT !.status = "loading"]
NoRefresh == [pc |-> "none", token |-> NoTok, tenant |-> NoTenant, claims |-> FALSE]
Idle == [pc |-> "idle", for |-> "use", who |-> NoTenant]

AccountInit ==
  /\ tenantRows = [t \in Tenants |-> [tier |-> "starter", status |-> "trialing",
                                customer |-> NoTenant]]
  /\ store = [t \in Tenants |-> [entitled |-> FALSE, id |-> t, last |-> "none"]]
  /\ events = [t \in Tenants |-> <<>>]
  /\ overtaken = [t \in Tenants |-> FALSE]
  /\ valid = {} /\ phone = Booting /\ disk = SignedOut
  /\ refresh = NoRefresh /\ call = [c \in Calls |-> Idle]
  /\ sdk = NoTenant /\ reason = TRUE
  /\ nevents = 0 /\ lapses = 0

-----------------------------------------------------------------------------
(* The store and the webhook.                                              *)

Emit(t, type) ==
  /\ nevents < MaxEvents /\ nevents' = nevents + 1
  /\ LET new == IF type = "SUBSCRIBER_ALIAS" THEN Alias(t) ELSE store[t].id
     IN /\ events' = [events EXCEPT ![t] = Append(@, [type |-> type, app |-> new,
                                                    old |-> store[t].id])]
        /\ store' = [store EXCEPT
             ![t].id = new,
             ![t].last = IF type = "SUBSCRIBER_ALIAS" THEN @ ELSE type,
             ![t].entitled = type \in Granting \/ (@ /\ type # "EXPIRATION")]

\* What RevenueCat may report of a tenant that is known to it; a purchase comes
\* from the paywall and is Buy.
Lifecycle(t) ==
  /\ \/ store[t].entitled /\ \E type \in {"RENEWAL", "CANCELLATION", "EXPIRATION",
                                          "BILLING_ISSUE", "PAUSE", "PRODUCT_CHANGE"} :
                                store[t].last # "PAUSE" /\ Emit(t, type)
     \/ store[t].entitled /\ store[t].last = "CANCELLATION" /\ Emit(t, "UNCANCELLATION")
     \/ store[t].entitled /\ store[t].last = "PAUSE" /\ Emit(t, "RESUME")
     \/ store[t].id = t /\ Emit(t, "SUBSCRIBER_ALIAS")
  /\ UNCHANGED <<tenantRows, overtaken, session>>

\* PaywallModal and subscription.tsx: the purchase is made under the id the SDK
\* was configured with; then the listener reloads.
Buy ==
  /\ phone.status = "authenticated" /\ sdk # NoTenant
  /\ ~store[sdk].entitled /\ Emit(sdk, "INITIAL_PURCHASE")
  /\ UNCHANGED <<tenantRows, overtaken, session>>

GrantRow(r, e) == [r EXCEPT !.tier = "professional", !.status = "active", !.customer = e.app]
EndRow(r) == [r EXCEPT !.tier = "starter", !.status = "cancelled"]

\* WHERE revenuecat_customer_id = id OR (it IS NULL AND tenant_id = id)
OwnedBy(t, id) == \/ tenantRows[t].customer = id
                  \/ tenantRows[t].customer = NoTenant /\ id = t
\* WHERE revenuecat_customer_id = id OR tenant_id = id
NamedBy(t, id) == tenantRows[t].customer = id \/ id = t

\* applySubscriptionEvent: what each kind does to the tenantRows it matches.
AliasMatchesKnown(t, e) == tenantRows[t].customer = e.old
AliasMatches(t, e) == OwnedBy(t, e.old)
Apply(e) ==
  [t \in Tenants |->
    LET r == tenantRows[t] IN
    CASE e.type \in Granting /\ OwnedBy(t, e.app) -> GrantRow(r, e)
      [] e.type = "PRODUCT_CHANGE" /\ NamedBy(t, e.app) -> [r EXCEPT !.tier = "professional"]
      [] e.type \in Ending /\ NamedBy(t, e.app) -> EndRow(r)
      [] e.type = "BILLING_ISSUE" /\ NamedBy(t, e.app) -> [r EXCEPT !.status = "past_due"]
      [] e.type = "PAUSE" /\ NamedBy(t, e.app) -> [r EXCEPT !.status = "paused"]
      [] e.type = "SUBSCRIBER_ALIAS" /\ AliasMatches(t, e) -> [r EXCEPT !.customer = e.app]
      [] OTHER -> r]

\* POST /v1/webhooks/revenuecat: the row is updated by one statement and the
\* answer is 200, whether or not a tenant matched.
Deliver(t, i) ==
  /\ i \in DOMAIN events[t]
  /\ tenantRows' = Apply(events[t][i])
  /\ events' = [events EXCEPT ![t] = RemoveAt(@, i)]
  /\ overtaken' = [overtaken EXCEPT ![t] = @ \/ i > 1]
  /\ UNCHANGED <<store, nevents, session>>

\* The event was applied but the answer was lost: RevenueCat sends it again.
DeliverTwice(t) ==
  /\ events[t] # <<>> /\ lapses < MaxLapses /\ lapses' = lapses + 1
  /\ tenantRows' = Apply(Head(events[t]))
  /\ UNCHANGED <<store, events, overtaken, nevents,
                 valid, phone, disk, refresh, call, sdk, reason>>

\* The daily job downgrades the trials that are over, T: one statement.
IsTrial(t) == tenantRows[t].status = "trialing"
TrialExpiryJob(T) ==
  /\ \E t \in T : IsTrial(t)
  /\ tenantRows' = [t \in Tenants |->
                      IF t \in T /\ IsTrial(t) THEN EndRow(tenantRows[t]) ELSE tenantRows[t]]
  /\ UNCHANGED <<store, events, overtaken, nevents, session>>

-----------------------------------------------------------------------------
(* The phone.                                                              *)

\* A token nobody holds, and the table without the tokens nobody can present.
Held(p, d, r) == {p.token, d.token, r.token} \ {NoTok}
NewTok == CHOOSE k \in Tok : k \notin Held(phone, disk, refresh)
Issue(t) == [status |-> "authenticated", token |-> NewTok, tenant |-> t,
             claims |-> FetchClaims(t), age |-> "fresh"]
Keep(V) == valid' = V \cap Held(phone', disk', refresh')

\* initPurchases does nothing after the first time: the SDK keeps its id.
InitPurchases(t) == IF sdk = NoTenant THEN t ELSE sdk

\* The screen's half of a sign-in: storeTokens, setTokens.
TakeSession(s) == disk' = s /\ phone' = s /\ sdk' = InitPurchases(s.tenant)

\* POST /v1/auth/apple and /google for a person whose identity token verifies;
\* one that does not, or a limit that is reached, leaves everything as it is.
SignIn(t) ==
  /\ phone.status = "unauthenticated" /\ TakeSession(Issue(t))
  /\ reason' = (refresh.pc # "none" \/ \E c \in Calls : call[c].pc # "idle")
  /\ UNCHANGED <<billing, refresh, call, lapses>>
  /\ Keep(valid \cup {NewTok})

\* All five entries are there, or nobody is signed in.
LoadStoredTokens == IF disk.status = "authenticated" THEN disk ELSE SignedOut

\* RootLayout's init: the stored tokens, whose access token may have expired.
Boot ==
  /\ phone.status = "loading"
  /\ LET s == LoadStoredTokens
     IN phone' = s /\ sdk' = IF s.status = "authenticated" THEN InitPurchases(s.tenant) ELSE sdk
  /\ UNCHANGED <<billing, valid, disk, refresh, call, reason, lapses>>

\* The app is killed: its memory goes, a refresh the gateway has begun goes on
\* without it, and one that is still travelling may reach it or not.
KillApp ==
  /\ phone.status # "loading" /\ lapses < MaxLapses /\ lapses' = lapses + 1
  /\ phone' = Booting /\ refresh' = NoRefresh /\ call' = [c \in Calls |-> Idle]
  /\ sdk' = NoTenant /\ UNCHANGED <<billing, disk>>
  /\ \/ Keep(valid) /\ reason' = (reason \/ refresh.pc \in {"revoked", "answered"})
     \/ /\ refresh.pc = "posted"
        /\ Keep(valid \ {refresh.token}) /\ reason' = TRUE

\* enforceDeviceIntegrity on a compromised device.
Compromised ==
  /\ phone.status = "authenticated" /\ lapses < MaxLapses /\ lapses' = lapses + 1
  /\ phone' = SignedOut /\ disk' = SignedOut /\ reason' = TRUE
  /\ UNCHANGED <<billing, refresh, call, sdk>> /\ Keep(valid)

\* Less than sixty seconds are left of the access token.
Tick == /\ phone.status = "authenticated" /\ phone.age = "fresh"
        /\ phone' = [phone EXCEPT !.age = "expiring"]
        /\ disk' = IF disk.token = phone.token THEN [disk EXCEPT !.age = "expiring"] ELSE disk
        /\ UNCHANGED <<billing, valid, refresh, call, sdk, reason, lapses>>

StartRefreshAlways == [NoRefresh EXCEPT !.pc = "posted", !.token = phone.token,
                                        !.tenant = phone.tenant]
\* A caller joins the refresh under way (refreshPromise) or starts it.
StartRefresh == IF refresh.pc = "none"
                THEN [NoRefresh EXCEPT !.pc = "posted", !.token = phone.token,
                                          !.tenant = phone.tenant]
                ELSE refresh

\* authedFetch up to its request: a screen's call (loadSubscription is
\* one), or the sign-out of settings.tsx.
AuthedFetch(c, for) ==
  /\ call[c].pc = "idle" /\ phone.status = "authenticated"
  /\ LET wait == phone.age = "expiring"
     IN /\ call' = [call EXCEPT ![c] =
                      [pc |-> IF wait THEN "waiting" ELSE "sent", for |-> for,
                       who |-> IF wait THEN NoTenant ELSE phone.tenant]]
        /\ refresh' = IF wait THEN StartRefresh ELSE refresh
  /\ reason' = (reason \/ for = "revoke")
  /\ UNCHANGED <<billing, valid, phone, disk, sdk, lapses>>

\* How a call goes on, answered or not: the sign-out clears the tokens.
Finished(k) == IF k.for = "use" THEN Idle ELSE [k EXCEPT !.pc = "clearing"]
ReleaseAll(go) ==
  call' = [c \in Calls |-> IF call[c].pc # "waiting" THEN call[c]
                           ELSE IF go THEN [call[c] EXCEPT !.pc = "sent", !.who = refresh.tenant]
                           ELSE Finished(call[c])]

\* rotateRefreshToken: one UPDATE ... RETURNING revokes the token and finds
\* its owner.
Rotate ==
  /\ refresh.pc = "posted" /\ refresh.token \in valid
  /\ refresh' = [refresh EXCEPT !.pc = "revoked"]
  /\ UNCHANGED <<billing, phone, disk, call, sdk, reason, lapses>>
  /\ Keep(valid \ {refresh.token})

\* issueTokenPair: the row of the new token and the claims as they are now.
IssuePair ==
  /\ refresh.pc = "revoked"
  /\ refresh' = [refresh EXCEPT !.pc = "answered", !.token = NewTok,
                                !.claims = FetchClaims(refresh.tenant)]
  /\ UNCHANGED <<billing, phone, disk, call, sdk, reason, lapses>>
  /\ Keep(valid \cup {NewTok})

Renewed == [status |-> "authenticated", token |-> refresh.token, tenant |-> refresh.tenant,
            claims |-> refresh.claims, age |-> "fresh"]

\* await storeTokens(newTokens)
StoreTokens ==
  /\ refresh.pc = "answered"
  /\ disk' = Renewed /\ refresh' = [refresh EXCEPT !.pc = "storing"]
  /\ UNCHANGED <<billing, phone, call, sdk, reason, lapses>> /\ Keep(valid)

\* store.setTokens(newTokens); finally refreshPromise = null
SetTokens ==
  /\ refresh.pc = "storing"
  /\ phone' = Renewed /\ refresh' = NoRefresh /\ ReleaseAll(TRUE)
  /\ UNCHANGED <<billing, disk, sdk, reason, lapses>> /\ Keep(valid)

\* The catch of the refresh: clearStoredTokens, clearTokens, and every waiting
\* caller's authedFetch throws.
EndSession ==
  /\ phone' = SignedOut /\ disk' = SignedOut /\ refresh' = NoRefresh
  /\ ReleaseAll(FALSE)
  /\ UNCHANGED <<billing, sdk>> /\ Keep(valid)
\* 401: the token is not valid any more.
RefreshRefused ==
  /\ refresh.pc = "posted" /\ refresh.token \notin valid
  /\ EndSession /\ UNCHANGED <<reason, lapses>>
\* The request or its answer was lost, a statement failed, or the limit of
\* attempts was reached.
RefreshLost ==
  /\ refresh.pc \in {"posted", "revoked", "answered"}
  /\ lapses < MaxLapses /\ lapses' = lapses + 1 /\ reason' = TRUE /\ EndSession

Holdings == {<<phone.token, phone.tenant>>, <<disk.token, disk.tenant>>,
             <<refresh.token, refresh.tenant>>}

\* The gateway answers; /v1/auth/revoke revokes every token of the user.
Answer(c) ==
  /\ call[c].pc = "sent"
  /\ call' = [call EXCEPT ![c] = Finished(@)]
  /\ valid' = IF call[c].for = "revoke"
              THEN {k \in valid : <<k, call[c].who>> \notin Holdings} ELSE valid
  /\ UNCHANGED <<billing, phone, disk, refresh, sdk, reason, lapses>>

\* The answer is lost or comes from a gateway that has failed; or it is late and
\* the gateway found the access token expired: 401 signs the phone out.
AnswerFails(c) ==
  /\ call[c].pc = "sent" /\ lapses < MaxLapses /\ lapses' = lapses + 1
  /\ call' = [call EXCEPT ![c] = Finished(@)]
  /\ UNCHANGED <<billing, refresh, sdk>>
  /\ \/ UNCHANGED <<valid, phone, disk, reason>>
     \/ phone' = SignedOut /\ disk' = SignedOut /\ reason' = TRUE /\ Keep(valid)

\* The end of the sign-out: clearStoredTokens, clearTokens.
ClearTokens(c) ==
  /\ call[c].pc = "clearing"
  /\ phone' = SignedOut /\ disk' = SignedOut /\ reason' = TRUE
  /\ call' = [call EXCEPT ![c] = Idle]
  /\ UNCHANGED <<billing, refresh, sdk, lapses>> /\ Keep(valid)

AccountNext ==
  \/ \E t \in Tenants : \/ Lifecycle(t) \/ DeliverTwice(t) \/ SignIn(t)
                        \/ \E i \in 1..MaxEvents : Deliver(t, i)
  \/ Buy \/ (\E T \in SUBSET Tenants : TrialExpiryJob(T)) \/ Boot \/ KillApp \/ Compromised \/ Tick
  \/ Rotate \/ IssuePair \/ StoreTokens \/ SetTokens \/ RefreshRefused \/ RefreshLost
  \/ \E c \in Calls : \/ \E for \in {"use", "revoke"} : AuthedFetch(c, for)
                      \/ Answer(c) \/ AnswerFails(c) \/ ClearTokens(c)

-----------------------------------------------------------------------------
(* Properties.                                                             *)

\* A phone is signed out only because somebody signed it out, or because a
\* refresh was cut short (the app killed between the rotation and the write,
\* an answer lost, a statement failed), the device was found compromised or a
\* request outlived its token.  However many requests find the token about to
\* expire, they do not use up each other's single-use refresh token
\* (refreshPromise in lib/api.ts, rotateRefreshToken in token-service.ts).
SignedOutForAReason == phone.status = "unauthenticated" => reason

\* When all events of a tenant have arrived in the order RevenueCat emitted
\* them, some of them twice, the row says what the store says: access after a
\* purchase, a renewal or a resumption, none after an end or a pause, whatever
\* the trial job did in between and under whichever id the store addressed the
\* tenant (applySubscriptionEvent, trial-expiry-job.ts).
SettledRowMatchesStore ==
  \A t \in Tenants :
    events[t] = <<>> /\ ~overtaken[t] =>
      /\ store[t].last \in Granting => HasAccess(t)
      /\ store[t].last \in Ending \cup {"PAUSE"} => ~HasAccess(t)

\* The claims of a phone that stays signed in become those of its row: "the
\* next token refresh will pick up the updated subscription tier" (header of
\* webhooks/revenuecat.ts).
ClaimsCatchUp ==
  <>[](phone.status = "authenticated" => phone.claims = HasAccess(phone.tenant))
=============================================================================
