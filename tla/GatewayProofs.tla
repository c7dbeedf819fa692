---------------------------- MODULE GatewayProofs -----------------------------
(***************************************************************************)
(* Theorems about the smaller parts of the gateway, each for any values of *)
(* its constants: requests to Gmail, the Gmail connection, the briefing,   *)
(* the days of showings, the route of a tour, and the registry of each     *)
(* replica.                                                                *)
(***************************************************************************)
EXTENDS TLAPS, FiniteSetTheorems, Integrations, Connections, Briefing, Showings, TenantRegistry,
        RankTheorems, RouteOptimizer

RequestsSpec == RequestsInit /\ [][RequestsNext]_requestVars

\* What each step of a request has spent of the two fetches its last count allows.
BeforeFetch == {"authorizing", "trying"}
AfterFirst == {"throttled", "waiting", "unauthorized", "reauthorizing", "retrying"}
Others == {"idle", "checking", "limited", "failed", "answered"}
PostSteps == BeforeFetch \cup AfterFirst \cup Others
Budget(s, f, c) ==
  f <= 2 * c /\ (s \in AfterFirst => f + 1 <= 2 * c) /\ (s \in BeforeFetch => f + 2 <= 2 * c)
RequestsType ==
  /\ post \in [Posts -> PostSteps] /\ fetches \in [Posts -> Nat] /\ counts \in [Posts -> Nat]
FetchBudget == \A p \in Posts : Budget(post[p], fetches[p], counts[p])
RequestsInv == RequestsType /\ FetchBudget

\* A step of one call that keeps to that call's budget keeps the invariant.
LEMMA OneCall ==
  ASSUME RequestsInv, NEW p \in Posts, NEW s \in PostSteps, NEW f \in Nat, NEW c \in Nat,
         post' = [post EXCEPT ![p] = s], fetches' = [fetches EXCEPT ![p] = f],
         counts' = [counts EXCEPT ![p] = c], Budget(s, f, c)
  PROVE  RequestsInv'
<1>1. RequestsType'
  BY DEF RequestsInv, RequestsType
<1>2. ASSUME NEW q \in Posts PROVE Budget(post'[q], fetches'[q], counts'[q])
  <2>1. CASE q = p
    BY <2>1 DEF RequestsInv, RequestsType
  <2>2. CASE q # p
    <3>1. post'[q] = post[q] /\ fetches'[q] = fetches[q] /\ counts'[q] = counts[q]
      BY <2>2 DEF RequestsInv, RequestsType
    <3>2. QED
      BY <3>1 DEF RequestsInv, FetchBudget
  <2>3. QED
    BY <2>1, <2>2
<1>3. QED
  BY <1>1, <1>2 DEF RequestsInv, FetchBudget

\* So a call that only goes from one step to the next.
LEMMA OneStep ==
  ASSUME RequestsInv, NEW p \in Posts, NEW s \in PostSteps,
         post' = [post EXCEPT ![p] = s], KeepCall, Budget(s, fetches[p], counts[p])
  PROVE  RequestsInv'
<1>1. /\ fetches[p] \in Nat /\ fetches' = [fetches EXCEPT ![p] = fetches[p]]
      /\ counts[p] \in Nat /\ counts' = [counts EXCEPT ![p] = counts[p]]
  BY DEF KeepCall, RequestsInv, RequestsType
<1>2. QED
  BY <1>1, OneCall

\* And one that has been sent.
LEMMA OneFetch ==
  ASSUME RequestsInv, NEW p \in Posts, NEW s \in PostSteps, Fetched(p, s), counts' = counts,
         Budget(s, fetches[p] + 1, counts[p])
  PROVE  RequestsInv'
<1>1. /\ fetches[p] + 1 \in Nat /\ fetches' = [fetches EXCEPT ![p] = fetches[p] + 1]
      /\ counts[p] \in Nat /\ counts' = [counts EXCEPT ![p] = counts[p]]
  BY DEF Fetched, RequestsInv, RequestsType
<1>2. QED
  BY <1>1, OneCall DEF Fetched

LEMMA RequestsStep == RequestsInv /\ [RequestsNext]_requestVars => RequestsInv'
<1> SUFFICES ASSUME RequestsInv, [RequestsNext]_requestVars PROVE RequestsInv'
  OBVIOUS
<1>0. ASSUME NEW p \in Posts
      PROVE  post[p] \in PostSteps /\ fetches[p] \in Nat /\ counts[p] \in Nat /\ Budget(post[p], fetches[p], counts[p])
  BY DEF RequestsInv, RequestsType, FetchBudget
<1>1. ASSUME NEW p \in Posts, AuthenticatedRequest(p) PROVE RequestsInv'
  BY <1>0, <1>1, OneStep DEF AuthenticatedRequest, PostStep, Budget, PostSteps, AfterFirst, BeforeFetch, Others
<1>2. ASSUME NEW p \in Posts, CheckLimit(p) PROVE RequestsInv'
  <2>1. CASE Allowed(p) /\ PostStep(p, "checking", "authorizing")
             /\ counts' = [counts EXCEPT ![p] = @ + 1]
    <3>1. /\ fetches' = [fetches EXCEPT ![p] = fetches[p]]
          /\ counts' = [counts EXCEPT ![p] = counts[p] + 1]
      BY <1>2, <2>1 DEF CheckLimit, RequestsInv, RequestsType
    <3>2. Budget("authorizing", fetches[p], counts[p] + 1) /\ counts[p] + 1 \in Nat
      BY <1>0 DEF Budget, AfterFirst, BeforeFetch
    <3>3. QED
      BY <2>1, <3>1, <3>2, <1>0, OneCall DEF PostStep, PostSteps, BeforeFetch
  <2>2. CASE PostStep(p, "checking", "limited") /\ counts' = counts
    BY <1>0, <1>2, <2>2, OneStep
       DEF CheckLimit, KeepCall, PostStep, Budget, PostSteps, AfterFirst, BeforeFetch, Others
  <2>3. QED
    BY <1>2, <2>1, <2>2 DEF CheckLimit
<1>3. ASSUME NEW p \in Posts, BuildAuthHeaders(p) PROVE RequestsInv'
  <2>1. /\ fetches' = [fetches EXCEPT ![p] = fetches[p]]
        /\ counts' = [counts EXCEPT ![p] = counts[p]]
    BY <1>3 DEF BuildAuthHeaders, RequestsInv, RequestsType
  <2>2. \E s \in PostSteps : post' = [post EXCEPT ![p] = s] /\ Budget(s, fetches[p], counts[p])
    BY <1>0, <1>3 DEF BuildAuthHeaders, PostStep, Budget, PostSteps, AfterFirst, BeforeFetch, Others
  <2>3. QED
    BY <1>0, <2>1, <2>2, OneCall
<1>4. ASSUME NEW p \in Posts, Try(p) PROVE RequestsInv'
  <2>1. counts' = counts /\ \E s \in PostSteps : Fetched(p, s) /\ Budget(s, fetches[p] + 1, counts[p])
    BY <1>0, <1>4 DEF Try, Refuse, Accept, Budget, PostSteps, AfterFirst, BeforeFetch, Others
  <2>2. QED
    BY <2>1, OneFetch
<1>5. ASSUME NEW p \in Posts, LastTry(p) PROVE RequestsInv'
  <2>1. counts' = counts /\ \E s \in PostSteps : Fetched(p, s) /\ Budget(s, fetches[p] + 1, counts[p])
    BY <1>0, <1>5 DEF LastTry, Accept, Budget, PostSteps, AfterFirst, BeforeFetch, Others
  <2>2. QED
    BY <2>1, OneFetch
<1>6. ASSUME NEW p \in Posts, RetryServerError(p) PROVE RequestsInv'
  BY <1>0, <1>6, OneStep DEF RetryServerError, PostStep, Budget, PostSteps, AfterFirst, BeforeFetch, Others
<1>7. ASSUME NEW p \in Posts, RetryAfter(p) PROVE RequestsInv'
  BY <1>0, <1>7, OneStep DEF RetryAfter, PostStep, Budget, PostSteps, AfterFirst, BeforeFetch, Others
<1>8. ASSUME NEW p \in Posts, HandleUnauthorized(p) PROVE RequestsInv'
  <2>1. KeepCall /\ \E s \in PostSteps : post' = [post EXCEPT ![p] = s] /\ Budget(s, fetches[p], counts[p])
    BY <1>0, <1>8 DEF HandleUnauthorized, PostStep, Budget, PostSteps, AfterFirst, BeforeFetch, Others
  <2>2. QED
    BY <2>1, OneStep
<1>9. CASE UNCHANGED <<post, fetches, counts>>
  BY <1>9 DEF RequestsInv, RequestsType, FetchBudget
<1>10. CASE Prune \/ Stale \/ Withdraw \/ UNCHANGED requestVars
  BY <1>9, <1>10 DEF Prune, Stale, Withdraw, KeepCall, requestVars
<1>11. QED
  BY <1>1, <1>2, <1>3, <1>4, <1>5, <1>6, <1>7, <1>8, <1>10 DEF RequestsNext

\* Whatever Gmail answers and whenever tokens end, at most two requests go out for
\* every time the window counted the call.
THEOREM FetchesAreCounted == RequestsSpec => []TwoFetchesPerCount
<1>1. RequestsInit => RequestsInv
  BY DEF RequestsInit, RequestsInv, RequestsType, FetchBudget, Budget, PostSteps, BeforeFetch, AfterFirst, Others
<1>2. RequestsInv => TwoFetchesPerCount
  BY DEF RequestsInv, FetchBudget, Budget, TwoFetchesPerCount
<1>3. QED
  BY <1>1, <1>2, RequestsStep, PTL DEF RequestsSpec
---------------------------------------------------------------------------
(***************************************************************************)
(* Connections.  A job or a consent under way while a disconnect runs is   *)
(* remembered with it; what a disconnect has deleted comes back only       *)
(* through one of those.                                                   *)
(***************************************************************************)
ConnectionsSpec == ConnectionsInit /\ [][ConnectionsNext]_connectionVars

Callers == Connects \cup Jobs
ConnectionSteps == {"idle", "consenting", "queued", "done", "failed", "access_token", "refresh_token",
                    "expires_at", "profile", "auth", "watch", "reading", "refreshing", "expiry",
                    "renewing", "stamping"}
ConnectionsType ==
  /\ where \in [Connects \cup Disconnects \cup Jobs -> ConnectionSteps]
  /\ vault \subseteq Keys /\ met \subseteq Disconnects \X Callers
  /\ ended \in BOOLEAN /\ late \in BOOLEAN /\ watch \in BOOLEAN

OverlapsAreMet == \A d \in Going(Disconnects), x \in Going(Callers) : <<d, x>> \in met

Unmet(d, S) == \A x \in S : <<d, x>> \notin met
DeletedStays ==
  \A d \in Disconnects :
    /\ Unmet(d, Connects) =>
         /\ where[d] \in {"expires_at", "auth", "watch"} => "refresh_token" \notin vault
         /\ where[d] = "watch" => auth # "live"
    /\ Unmet(d, Callers) =>
         /\ where[d] \in {"refresh_token", "expires_at", "auth", "watch"} => "access_token" \notin vault
         /\ where[d] \in {"auth", "watch"} => vault = {}

EndedStays ==
  ended => /\ Going(Connects) = {} /\ "refresh_token" \notin vault /\ auth # "live"
           /\ ~late => vault = {} /\ ~watch /\ Reading = {}

ConnectionsInv == ConnectionsType /\ OverlapsAreMet /\ DeletedStays /\ EndedStays

LEMMA ConnectionsStep == ConnectionsInv /\ [ConnectionsNext]_connectionVars => ConnectionsInv'
<1> SUFFICES ASSUME ConnectionsInv, [ConnectionsNext]_connectionVars PROVE ConnectionsInv'
  OBVIOUS
<1> USE ConnectionsAssumption
        DEF ConnectionsInv, ConnectionsType, ConnectionSteps, OverlapsAreMet, DeletedStays, EndedStays, Unmet, Callers,
            Going, Jobs, Reading, Move, Slip, KeepHistory, Meets, Keys, screenVars, toneVars
<1>1. ASSUME NEW c \in Connects, Connect(c) \/ StateExpires(c) PROVE ConnectionsInv'
  <2>1. CASE Connect(c)
    BY <2>1 DEF Connect
  <2>2. CASE StateExpires(c)
    BY <2>2 DEF StateExpires
  <2>3. QED
    BY <1>1, <2>1, <2>2
<1>2. ASSUME NEW c \in Connects, ExchangeCode(c) PROVE ConnectionsInv'
  <2>1. /\ met' \subseteq Disconnects \X Callers /\ met \subseteq met'
        /\ \A d \in Going(Disconnects) : <<d, c>> \in met'
        /\ UNCHANGED <<vault, auth, watch, late>> /\ ended' = FALSE
    BY <1>2 DEF ExchangeCode
  <2>2. CASE Move(c, "consenting", "access_token")
    <3>1. ConnectionsType' /\ OverlapsAreMet'
      BY <2>1, <2>2
    <3>2. DeletedStays' /\ EndedStays'
      BY <2>1, <2>2
    <3>3. QED
      BY <3>1, <3>2
  <2>3. CASE Move(c, "consenting", "failed")
    <3>1. ConnectionsType' /\ OverlapsAreMet'
      BY <2>1, <2>3
    <3>2. DeletedStays' /\ EndedStays'
      BY <2>1, <2>3
    <3>3. QED
      BY <3>1, <3>2
  <2>4. QED
    BY <1>2, <2>2, <2>3 DEF ExchangeCode
<1>3. ASSUME NEW c \in Connects, StoreToken(c) PROVE ConnectionsInv'
  BY <1>3 DEF StoreToken
<1>4. ASSUME NEW c \in Connects, StoreProfile(c) PROVE ConnectionsInv'
  BY <1>4 DEF StoreProfile
<1>5. ASSUME NEW d \in Disconnects, TapDisconnect(d) PROVE ConnectionsInv'
  BY <1>5 DEF TapDisconnect, Disconnect
<1>6. ASSUME NEW d \in Disconnects, DeleteToken(d) PROVE ConnectionsInv'
  <2>1. ConnectionsType' /\ OverlapsAreMet' /\ EndedStays'
    BY <1>6 DEF DeleteToken
  <2>2. CASE Move(d, "access_token", "refresh_token")
    BY <1>6, <2>1, <2>2 DEF DeleteToken
  <2>3. CASE Move(d, "refresh_token", "expires_at")
    BY <1>6, <2>1, <2>3 DEF DeleteToken
  <2>4. CASE Move(d, "expires_at", "auth")
    BY <1>6, <2>1, <2>4 DEF DeleteToken
  <2>5. QED
    BY <1>6, <2>2, <2>3, <2>4 DEF DeleteToken
<1>7. ASSUME NEW d \in Disconnects, RevokeAuth(d) PROVE ConnectionsInv'
  BY <1>7 DEF RevokeAuth
<1>8. ASSUME NEW d \in Disconnects, DeleteWatch(d) PROVE ConnectionsInv'
  <2> DEFINE with == {q[2] : q \in {m \in met : m[1] = d}}
  <2>1. met' = {m \in met : m[1] # d} /\ vault' = vault /\ auth' = auth
    BY <1>8 DEF DeleteWatch
  <2>2. \A x \in Callers : x \in with <=> <<d, x>> \in met
    OBVIOUS
  <2>3. with \subseteq Callers
    OBVIOUS
  <2> HIDE DEF with
  <2>4. CASE Move(d, "watch", "failed") /\ UNCHANGED <<watch, ended, late>>
    BY <2>1, <2>4
  <2>5. CASE Move(d, "watch", "done") /\ watch' = FALSE
             /\ ended' = (with \cap Connects = {}) /\ late' = (with # {})
    <3>1. ConnectionsType' /\ OverlapsAreMet'
      BY <2>1, <2>5
    <3>2. DeletedStays'
      BY <2>1, <2>5
    <3>3. ASSUME ended' PROVE Going(Connects)' = {} /\ "refresh_token" \notin vault' /\ auth' # "live"
      <4>1. Unmet(d, Connects)
        BY <2>2, <2>5, <3>3
      <4>2. QED
        BY <2>1, <2>5, <4>1
    <3>4. ASSUME ~late' PROVE vault' = {} /\ ~watch' /\ Reading' = {}
      <4>1. Unmet(d, Callers)
        BY <2>2, <2>5, <3>4
      <4>2. QED
        BY <2>1, <2>5, <4>1
    <3>5. QED
      BY <3>1, <3>2, <3>3, <3>4
  <2>6. QED
    BY <1>8, <2>4, <2>5 DEF DeleteWatch, with
<1>9. ASSUME NEW r \in Renewals, RunWatchRenewal(r) PROVE ConnectionsInv'
  BY <1>9 DEF RunWatchRenewal
<1>10. ASSUME NEW r \in Renewals, RenewWatch(r) PROVE ConnectionsInv'
  BY <1>10 DEF RenewWatch
<1>11. ASSUME NEW x \in Jobs, ReadToken(x) PROVE ConnectionsInv'
  BY <1>11 DEF ReadToken
<1>12. ASSUME NEW x \in Jobs, RefreshToken(x) PROVE ConnectionsInv'
  BY <1>12 DEF RefreshToken
<1>13. ASSUME NEW a \in Analyses, HandleAnalyzeTone(a), UNCHANGED <<vault, auth, watch, ended, late, met>>
       PROVE ConnectionsInv'
  BY <1>13 DEF HandleAnalyzeTone
<1>14. ASSUME NEW a \in Analyses, StartAnalysis(a), UNCHANGED <<vault, auth, watch>>
       PROVE ConnectionsInv'
  BY <1>14 DEF StartAnalysis
<1>15. ASSUME NEW a \in Analyses, AnalyzeTone(a) \/ StampAnalysis(a), KeepHistory,
              UNCHANGED <<vault, auth, watch>>
       PROVE ConnectionsInv'
  BY <1>15 DEF AnalyzeTone, StampAnalysis, Again
<1>16. CASE UNCHANGED <<where, vault, auth, watch, ended, late, met>>
  BY <1>16
<1>17. QED
  BY <1>1, <1>2, <1>3, <1>4, <1>5, <1>6, <1>7, <1>8, <1>9, <1>10, <1>11, <1>12, <1>13, <1>14, <1>15,
     <1>16 DEF ConnectionsNext, connectionVars

\* A disconnect that went through ends the access to the mailbox until the next
\* consent: for any number of consents, disconnects, renewals and analyses, and any
\* of their statements failing.
THEOREM AccessEnds == ConnectionsSpec => []DisconnectEndsAccess
<1>1. ConnectionsInit => ConnectionsInv
  BY DEF ConnectionsInit, ConnectionsInv, ConnectionsType, ConnectionSteps, OverlapsAreMet,
         DeletedStays, EndedStays, Going, Callers, Jobs, Keys
<1>2. ConnectionsInv => DisconnectEndsAccess
  BY DEF ConnectionsInv, ConnectionsType, ConnectionSteps, EndedStays, DisconnectEndsAccess
<1>3. QED
  BY <1>1, <1>2, ConnectionsStep, PTL DEF ConnectionsSpec
---------------------------------------------------------------------------
(***************************************************************************)
(* Briefing.  As long as an item has not come up again, it has one call at *)
(* most that is under way or has made a request, and the card is off the   *)
(* list or waits for that call.                                            *)
(***************************************************************************)
BriefingSpec == BriefingInit /\ [][BriefingNext]_briefingVars

CallSteps == {"none", "asked", "found", "created", "stored", "failed", "over"}
BriefingType ==
  /\ row \in [Items -> {"none", "open", "dismissed"}]
  /\ call \in [Calls -> CallSteps]
  /\ requests \subseteq Calls /\ approving \subseteq Calls /\ reviewed \subseteq Calls
  /\ toReview \in Seq(Calls)
  /\ listed \subseteq Items /\ openCard \subseteq listed /\ again \subseteq Items
  /\ killed \in BOOLEAN /\ \A l \in listing : l \subseteq Items

\* The calls that count for an item: under way, or one that made a request.
Counted == UnderWay \cup requests
RowsAreAccounted ==
  /\ deleting \subseteq swiped
  /\ \A i \in Items : row[i] = "dismissed" /\ i \notin swiped => \E c \in requests : c[1] = i
  /\ \A c \in Calls : call[c] \in {"created", "stored"} => c \in requests
  /\ \A c \in requests : call[c] \in {"created", "stored", "failed", "over"}
  /\ \A c \in Calls : call[c] = "stored" => row[c[1]] = "dismissed"

FirstTimeOnly ==
  /\ \A c, e \in Counted : c[1] = e[1] /\ c[1] \notin again => c = e
  /\ \A c \in Counted : c[1] \notin again => c[1] \notin listed \/ c \in approving
  /\ \A c \in requests : call[c] = "over" /\ c[1] \notin again =>
       row[c[1]] = "dismissed" /\ c[1] \notin listed

Waits(c, s) == \E n \in DOMAIN s : s[n] = c
HeardOfIsReviewed ==
  killed \/ \A c \in requests :
    call[c] = "over" => c[1] \in again \/ c \in reviewed \/ Waits(c, toReview)

BriefingInv == BriefingType /\ RowsAreAccounted /\ FirstTimeOnly /\ HeardOfIsReviewed

\* Taking the first of a queue loses none of it.
LEMMA HeadOrTail ==
  ASSUME NEW s \in Seq(Calls), s # <<>>
  PROVE  /\ Head(s) \in Calls /\ Tail(s) \in Seq(Calls)
         /\ \A c \in Calls : Waits(c, s) => c = Head(s) \/ Waits(c, Tail(s))
<1>1. Head(s) \in Calls /\ Tail(s) \in Seq(Calls)
  OBVIOUS
<1>2. ASSUME NEW c \in Calls, Waits(c, s) PROVE c = Head(s) \/ Waits(c, Tail(s))
  <2>1. PICK n \in 1..Len(s) : s[n] = c
    BY <1>2 DEF Waits
  <2>2. CASE n = 1
    BY <2>1, <2>2
  <2>3. CASE n # 1
    <3>1. n - 1 \in 1..Len(Tail(s))
      BY <2>1, <2>3
    <3>2. Tail(s)[n - 1] = s[(n - 1) + 1]
      BY <2>1, <2>3
    <3>3. DOMAIN Tail(s) = 1..Len(Tail(s))
      BY <1>1, \A q \in Seq(Calls) : DOMAIN q = 1..Len(q)
    <3>4. (n - 1) + 1 = n
      BY <2>1
    <3>5. QED
      BY <2>1, <3>1, <3>2, <3>3, <3>4 DEF Waits
  <2>4. QED
    BY <2>2, <2>3
<1>3. QED
  BY <1>1, <1>2

LEMMA LaunchKeeps ==
  ASSUME BriefingType, NEW left, NEW waiting \in Seq(Calls), LaunchIfEmpty(left, waiting)
  PROVE  /\ toReview' \in Seq(Calls) /\ reviewed' \subseteq Calls /\ reviewed \subseteq reviewed'
         /\ \A c \in Calls : Waits(c, waiting) => c \in reviewed' \/ Waits(c, toReview')
         /\ listed' = left /\ openCard' = openCard \cap left /\ killed' = killed
<1>1. CASE left = {} /\ listed # {} /\ waiting # <<>>
  <2>1. /\ toReview' = Tail(waiting) /\ reviewed' = reviewed \cup {Head(waiting)}
        /\ listed' = left /\ openCard' = openCard \cap left /\ killed' = killed
    BY <1>1 DEF LaunchIfEmpty
  <2>2. Head(waiting) \in Calls /\ Tail(waiting) \in Seq(Calls) /\ reviewed \subseteq Calls
    BY <1>1, HeadOrTail DEF BriefingType
  <2>3. \A c \in Calls : Waits(c, waiting) => c = Head(waiting) \/ Waits(c, Tail(waiting))
    BY <1>1, HeadOrTail
  <2>4. QED
    BY <2>1, <2>2, <2>3
<1>2. CASE ~(left = {} /\ listed # {} /\ waiting # <<>>)
  BY <1>2 DEF LaunchIfEmpty, BriefingType
<1>3. QED
  BY <1>1, <1>2

LEMMA AppendWaits ==
  ASSUME NEW s \in Seq(Calls), NEW c \in Calls
  PROVE  /\ Append(s, c) \in Seq(Calls) /\ Waits(c, Append(s, c))
         /\ \A e \in Calls : Waits(e, s) => Waits(e, Append(s, c))
<1>1. Append(s, c) \in Seq(Calls) /\ Len(Append(s, c)) = Len(s) + 1
  OBVIOUS
<1>2. Append(s, c)[Len(s) + 1] = c /\ \A n \in 1..Len(s) : Append(s, c)[n] = s[n]
  OBVIOUS
<1>3. QED
  BY <1>1, <1>2 DEF Waits

LEMMA BriefingStep == BriefingInv /\ [BriefingNext]_briefingVars => BriefingInv'
<1> SUFFICES ASSUME BriefingInv, [BriefingNext]_briefingVars PROVE BriefingInv'
  OBVIOUS
<1> USE DEF BriefingInv, BriefingType, RowsAreAccounted, FirstTimeOnly, HeardOfIsReviewed, Counted,
            UnderWay, CallSteps, CallStep, Mishap, KeepServer, KeepQueue, KeepCards
<1>0. ASSUME NEW c \in Calls PROVE c[1] \in Items
  BY DEF Calls
<1>1. CASE AskForBriefing
  BY <1>1 DEF AskForBriefing
<1>2. CASE GenerateBriefing
  <2>1. /\ row' \in [Items -> {"none", "open", "dismissed"}]
        /\ \A i \in Items : row'[i] = "dismissed" <=> row[i] = "dismissed"
    BY <1>2 DEF GenerateBriefing
  <2>2. UNCHANGED <<aged, requests, call, listed, listing, deleting, approving, openCard, swiped, again,
                    toReview, reviewed, killed>>
    BY <1>2 DEF GenerateBriefing
  <2>3. BriefingType' /\ RowsAreAccounted' /\ HeardOfIsReviewed'
    BY <1>0, <2>1, <2>2
  <2>4. FirstTimeOnly'
    BY <1>0, <2>1, <2>2
  <2>5. QED
    BY <2>3, <2>4
<1>3. CASE ListBriefing
  BY <1>3 DEF ListBriefing
<1>4. CASE SetItems
  <2>1. PICK l \in listing :
          /\ LaunchIfEmpty(l, toReview) /\ approving' = {c \in approving : c[1] \in l}
          /\ again' = again \cup {i \in l : row[i] = "dismissed" \/ \E c \in UnderWay \ approving : c[1] = i}
    BY <1>4 DEF SetItems
  <2>2. /\ toReview' \in Seq(Calls) /\ reviewed' \subseteq Calls /\ reviewed \subseteq reviewed'
        /\ \A c \in Calls : Waits(c, toReview) => c \in reviewed' \/ Waits(c, toReview')
        /\ listed' = l /\ openCard' \subseteq l /\ killed' = killed
    BY <2>1, LaunchKeeps
  <2>3. UNCHANGED <<deleting, call, swiped, row, aged, requests>> /\ listing' = {}
    BY <1>4 DEF SetItems
  <2>4. BriefingType' /\ RowsAreAccounted' /\ HeardOfIsReviewed'
    BY <2>1, <2>2, <2>3
  <2>5. FirstTimeOnly'
    BY <2>1, <2>2, <2>3
  <2>6. QED
    BY <2>4, <2>5
<1>5. CASE LaunchCarousel
  BY <1>5, HeadOrTail DEF LaunchCarousel
<1>6. CASE KillApp
  BY <1>6 DEF KillApp
<1>7. CASE CloseSheet
  BY <1>7 DEF CloseSheet
<1>8. ASSUME NEW i \in Items, Age(i) \/ OpenSheet(i) PROVE BriefingInv'
  BY <1>8 DEF Age, OpenSheet
<1>9. ASSUME NEW i \in Items, DoDismiss(i) PROVE BriefingInv'
  BY <1>9, LaunchKeeps DEF DoDismiss, RemoveCard
<1>10. ASSUME NEW i \in Items, DeleteItem(i) PROVE BriefingInv'
  <2>1. BriefingType'
    BY <1>10 DEF DeleteItem
  <2>2. RowsAreAccounted'
    <3>1. \A j \in Items : row'[j] = "dismissed" => row[j] = "dismissed" \/ j \in swiped
      BY <1>10 DEF DeleteItem
    <3>2. \A j \in Items : row[j] = "dismissed" => row'[j] = "dismissed"
      BY <1>10 DEF DeleteItem
    <3>3. UNCHANGED <<requests, call, swiped>> /\ deleting' \subseteq deleting
      BY <1>10 DEF DeleteItem
    <3>4. QED
      BY <1>0, <3>1, <3>2, <3>3
  <2>3. FirstTimeOnly' /\ HeardOfIsReviewed'
    BY <1>0, <1>10 DEF DeleteItem
  <2>4. QED
    BY <2>1, <2>2, <2>3
<1>11. ASSUME NEW i \in Items, HandleApprove(i) PROVE BriefingInv'
  <2>1. PICK n \in 1..MaxTaps : CallStep(<<i, n>>, "none", "asked") /\ approving' = approving \cup {<<i, n>>}
    BY <1>11 DEF HandleApprove
  <2> DEFINE c == <<i, n>>
  <2>2. c \in Calls /\ c[1] = i
    BY DEF Calls
  <2>a. call[c] = "none" /\ call' = [call EXCEPT ![c] = "asked"] /\ approving' = approving \cup {c}
    BY <2>1
  <2> HIDE DEF c
  <2>3. /\ call[c] = "none" /\ call' = [call EXCEPT ![c] = "asked"] /\ approving' = approving \cup {c}
        /\ i \in openCard /\ \A e \in approving : e[1] # i
        /\ UNCHANGED <<row, aged, requests, listed, listing, deleting, openCard, swiped, again,
                       toReview, reviewed, killed>>
    BY <1>11, <2>a DEF HandleApprove
  <2>4. BriefingType' /\ RowsAreAccounted' /\ HeardOfIsReviewed'
    BY <2>2, <2>3
  <2>5. FirstTimeOnly'
    BY <2>2, <2>3
  <2>6. QED
    BY <2>4, <2>5
<1>12. ASSUME NEW c \in Calls, FindItem(c) PROVE BriefingInv'
  <2>1. PICK s \in {"found", "failed"} : call[c] = "asked" /\ call' = [call EXCEPT ![c] = s]
    BY <1>12 DEF FindItem
  <2>2. UNCHANGED <<row, aged, requests, listed, listing, deleting, openCard, swiped, again, approving,
                    toReview, reviewed, killed>>
    BY <1>12 DEF FindItem
  <2>3. BriefingType' /\ RowsAreAccounted' /\ HeardOfIsReviewed'
    BY <2>1, <2>2
  <2>4. FirstTimeOnly'
    BY <2>1, <2>2
  <2>5. QED
    BY <2>3, <2>4
<1>13. ASSUME NEW c \in Calls, CreateBriefingApproval(c) PROVE BriefingInv'
  <2>1. UNCHANGED <<row, aged, listed, listing, deleting, openCard, swiped, again, approving,
                    toReview, reviewed, killed>>
    BY <1>13 DEF CreateBriefingApproval
  <2>2. CASE CallStep(c, "found", "created") /\ requests' = requests \cup {c}
    <3>1. BriefingType' /\ RowsAreAccounted' /\ HeardOfIsReviewed'
      BY <2>1, <2>2
    <3>2. FirstTimeOnly'
      BY <2>1, <2>2
    <3>3. QED
      BY <3>1, <3>2
  <2>3. CASE CallStep(c, "found", "failed") /\ requests' = requests
    <3>1. BriefingType' /\ RowsAreAccounted' /\ HeardOfIsReviewed'
      BY <2>1, <2>3
    <3>2. FirstTimeOnly'
      BY <2>1, <2>3
    <3>3. QED
      BY <3>1, <3>2
  <2>4. QED
    BY <1>13, <2>2, <2>3 DEF CreateBriefingApproval
<1>14. ASSUME NEW c \in Calls, MarkDismissed(c) PROVE BriefingInv'
  <2>1. UNCHANGED <<aged, requests, listed, listing, deleting, openCard, swiped, again, approving,
                    toReview, reviewed, killed>>
    BY <1>14 DEF MarkDismissed
  <2>2. CASE CallStep(c, "created", "stored") /\ row' = [row EXCEPT ![c[1]] = "dismissed"]
    <3>1. BriefingType' /\ HeardOfIsReviewed'
      BY <2>1, <2>2, <1>0
    <3>2. RowsAreAccounted'
      BY <2>1, <2>2, <1>0
    <3>3. FirstTimeOnly'
      BY <2>1, <2>2, <1>0
    <3>4. QED
      BY <3>1, <3>2, <3>3
  <2>3. CASE CallStep(c, "created", "failed") /\ row' = row
    <3>1. BriefingType' /\ RowsAreAccounted' /\ HeardOfIsReviewed'
      BY <2>1, <2>3
    <3>2. FirstTimeOnly'
      BY <2>1, <2>3
    <3>3. QED
      BY <3>1, <3>2
  <2>4. QED
    BY <1>14, <2>2, <2>3 DEF MarkDismissed
<1>15. ASSUME NEW c \in Calls, ApproveAnswered(c) PROVE BriefingInv'
  <2>1. UNCHANGED <<row, aged, requests, listing, deleting, swiped>>
    BY <1>15 DEF ApproveAnswered
  <2>2. CASE /\ CallStep(c, "stored", "over") /\ RemoveCard(c[1])
             /\ LaunchIfEmpty(listed \ {c[1]}, Append(toReview, c)) /\ again' = again
    <3>1. Append(toReview, c) \in Seq(Calls) /\ Waits(c, Append(toReview, c))
      BY AppendWaits
    <3>2. \A e \in Calls : Waits(e, toReview) => Waits(e, Append(toReview, c))
      BY AppendWaits
    <3>3. /\ toReview' \in Seq(Calls) /\ reviewed' \subseteq Calls /\ reviewed \subseteq reviewed'
          /\ \A e \in Calls : Waits(e, Append(toReview, c)) => e \in reviewed' \/ Waits(e, toReview')
          /\ listed' = listed \ {c[1]} /\ openCard' \subseteq listed' /\ killed' = killed
      BY <2>2, <3>1, LaunchKeeps
    <3>4. call[c] = "stored" /\ call' = [call EXCEPT ![c] = "over"]
          /\ approving' = {e \in approving : e[1] # c[1]}
      BY <2>2 DEF RemoveCard
    <3>5. BriefingType' /\ RowsAreAccounted'
      BY <2>1, <2>2, <3>3, <3>4
    <3>6. FirstTimeOnly'
      BY <2>1, <2>2, <3>3, <3>4
    <3>7. HeardOfIsReviewed'
      BY <2>1, <2>2, <3>1, <3>2, <3>3, <3>4
    <3>8. QED
      BY <3>5, <3>6, <3>7
  <2>3. CASE /\ call[c] \in {"stored", "failed"} /\ call' = [call EXCEPT ![c] = "over"]
             /\ again' = again \cup {c[1]} /\ approving' = approving \ {c}
             /\ UNCHANGED <<listed, openCard, toReview, reviewed, killed>>
    <3>1. BriefingType' /\ RowsAreAccounted' /\ HeardOfIsReviewed'
      BY <2>1, <2>3, <1>0
    <3>2. FirstTimeOnly'
      BY <2>1, <2>3, <1>0
    <3>3. QED
      BY <3>1, <3>2
  <2>4. CASE /\ call[c] = "failed" /\ call' = [call EXCEPT ![c] = "over"] /\ c \notin requests
             /\ approving' = approving \ {c}
             /\ UNCHANGED <<again, listed, openCard, toReview, reviewed, killed>>
    <3>1. BriefingType' /\ RowsAreAccounted' /\ HeardOfIsReviewed'
      BY <2>1, <2>4, <1>0
    <3>2. FirstTimeOnly'
      BY <2>1, <2>4, <1>0
    <3>3. QED
      BY <3>1, <3>2
  <2>5. QED
    BY <1>15, <2>2, <2>3, <2>4 DEF ApproveAnswered
<1>16. CASE UNCHANGED briefingVars
  BY <1>16 DEF briefingVars
<1>17. QED
  BY <1>1, <1>2, <1>3, <1>4, <1>5, <1>6, <1>7, <1>8, <1>9, <1>10, <1>11, <1>12, <1>13, <1>14, <1>15,
     <1>16 DEF BriefingNext

\* Every row that has left the briefing is accounted for, no item gets a second
\* request unless it came up again, and every request the phone heard of is reviewed
\* or waits for it: for any number of items, taps, failures and answers under way.
THEOREM ItemsAreHandledOnce == BriefingSpec => []ItemIsHandledOnce
<1>1. BriefingInit => BriefingInv
  <2>1. BriefingInit => BriefingType
    <3>1. <<>> \in Seq(Calls) /\ "none" \in CallSteps
      BY DEF CallSteps
    <3>2. BriefingInit => row \in [Items -> {"none", "open", "dismissed"}] /\ call \in [Calls -> CallSteps]
      BY <3>1 DEF BriefingInit
    <3>3. QED
      BY <3>1, <3>2 DEF BriefingInit, BriefingType
  <2>2. BriefingInit => RowsAreAccounted
    BY DEF BriefingInit, RowsAreAccounted
  <2>3. BriefingInit => FirstTimeOnly /\ HeardOfIsReviewed
    BY DEF BriefingInit, FirstTimeOnly, HeardOfIsReviewed, Counted, UnderWay
  <2>4. QED
    BY <2>1, <2>2, <2>3 DEF BriefingInv
<1>2. BriefingInv => ItemIsHandledOnce
  <2> SUFFICES ASSUME BriefingInv PROVE ItemIsHandledOnce
    OBVIOUS
  <2>1. ASSUME NEW i \in Items, row[i] = "dismissed", i \notin swiped
        PROVE  {c \in requests : c[1] = i} # {}
    BY <2>1 DEF BriefingInv, RowsAreAccounted
  <2>2. ASSUME NEW i \in Items, Cardinality({c \in requests : c[1] = i}) > 1 PROVE i \in again
    <3> DEFINE made == {c \in requests : c[1] = i}
    <3>0. Cardinality(made) > 1
      BY <2>2
    <3>1. SUFFICES ASSUME i \notin again PROVE FALSE
      OBVIOUS
    <3>2. \A c, e \in made : c = e
      BY <3>1 DEF BriefingInv, FirstTimeOnly, Counted
    <3>3. made = {} \/ \E c : made = {c}
      BY <3>2
    <3> HIDE DEF made
    <3>4. Cardinality(made) = 0 \/ Cardinality(made) = 1
      <4>1. CASE made = {}
        BY <4>1, FS_EmptySet
      <4>2. ASSUME NEW c, made = {c} PROVE Cardinality(made) = 1
        BY <4>2, FS_Singleton
      <4>3. QED
        BY <3>3, <4>1, <4>2
    <3>5. QED
      BY <3>0, <3>4
  <2>3. ASSUME ~killed, NEW c \in requests, call[c] = "over"
        PROVE  c[1] \in again \/ c \in reviewed \/ \E n \in DOMAIN toReview : toReview[n] = c
    BY <2>3 DEF BriefingInv, HeardOfIsReviewed, Waits
  <2>4. QED
    BY <2>1, <2>2, <2>3 DEF ItemIsHandledOnce
<1>3. QED
  BY <1>1, <1>2, BriefingStep, PTL DEF BriefingSpec

(***************************************************************************)
(* Showing days.  Negotiations give a stop what its listing says, so what  *)
(* a route task has found resolved stays so, and what it loads holds all   *)
(* the stops it has seen.                                                  *)
(***************************************************************************)
ShowSpec == ShowInit /\ [][ShowNext]_showVars

\* A stop with all its fields.
IsStop(x) == x \in [prop : {x.prop}, day : {x.day}, order : {x.order}, access : {x.access}]
StopsShape ==
  /\ Len(stops) \in Nat
  /\ stops = [i \in 1..Len(stops) |-> stops[i]]
  /\ \A i \in 1..Len(stops) : IsStop(stops[i]) /\ stops[i].access \in {"pending", AccessOf(i)}
\* The fields of the handlers that go on with one of them changed.
JobsShape ==
  /\ job = [s \in Slots |-> job[s]]
  /\ \A s \in Slots :
       /\ At(s, "propose") => job[s] \in [kind : {"propose"}, left : {job[s].left}]
       /\ At(s, "negotiate") =>
            job[s] \in [kind : {"negotiate"}, day : {job[s].day}, todo : {job[s].todo}]
       /\ At(s, "renumber") =>
            job[s] \in [kind : {"renumber"}, order : {job[s].order}, todo : {job[s].todo}]
Seen(s) == job[s].seen
SeenIsResolved ==
  \A s \in Slots : At(s, "load") =>
    \A i \in Seen(s) : /\ i \in 1..Len(stops) /\ stops[i].day = job[s].day
                       /\ stops[i].access = "not_needed" /\ AccessOf(i) = "not_needed"
SeenIsLoaded == \A s \in Slots : At(s, "route") => Seen(s) \subseteq Range(job[s].order)
ShowInv == StopsShape /\ JobsShape /\ SeenIsResolved /\ SeenIsLoaded /\ RouteCoversCheckedStops

LEMMA StopsDomain == ASSUME StopsShape PROVE DOMAIN stops = 1..Len(stops)
BY DEF StopsShape

\* An order of a finite set leaves none of it out.
LEMMA OrdersAreComplete ==
  ASSUME NEW S, IsFiniteSet(S), NEW order \in SetToSeqs(S)
  PROVE  Range(order) = S
<1>1. Cardinality(S) \in Nat
  BY FS_CardinalityType
<1>2. /\ IsFiniteSet(1..Cardinality(S)) /\ Cardinality(1..Cardinality(S)) = Cardinality(S)
  BY <1>1, FS_Interval
<1>3. order \in Injection(1..Cardinality(S), S)
  BY DEF SetToSeqs, Injection, IsInjective
<1>4. order \in Surjection(1..Cardinality(S), S)
  BY <1>2, <1>3, FS_Injection
<1> QED BY <1>4 DEF Surjection, Range

\* A handler goes on, ends or starts: the others stay where they are.
LEMMA OneJob ==
  ASSUME JobsShape, NEW s \in Slots, NEW j, job' = [job EXCEPT ![s] = j],
         j.kind = "propose" => j \in [kind : {"propose"}, left : {j.left}],
         j.kind = "negotiate" => j \in [kind : {"negotiate"}, day : {j.day}, todo : {j.todo}],
         j.kind = "renumber" => j \in [kind : {"renumber"}, order : {j.order}, todo : {j.todo}]
  PROVE  /\ JobsShape' /\ job'[s] = j
         /\ \A q \in Slots : q # s => job'[q] = job[q]
<1>1. job' = [q \in Slots |-> IF q = s THEN j ELSE job[q]]
  BY DEF JobsShape
<1> HIDE DEF At
<1>2. job'[s] = j /\ \A q \in Slots : q # s => job'[q] = job[q]
  BY <1>1
<1>3. job' = [q \in Slots |-> job'[q]]
  BY <1>1
<1> QED BY <1>2, <1>3 DEF JobsShape, At

\* A step of one handler that leaves stops and routes alone.
LEMMA OneHandler ==
  ASSUME ShowInv, NEW s \in Slots, NEW j, job' = [job EXCEPT ![s] = j],
         j.kind = "propose" => j \in [kind : {"propose"}, left : {j.left}],
         j.kind = "negotiate" => j \in [kind : {"negotiate"}, day : {j.day}, todo : {j.todo}],
         j.kind \notin {"load", "route", "renumber"},
         UNCHANGED <<stops, routes>>
  PROVE  ShowInv'
<1>1. JobsShape' /\ job'[s] = j /\ \A q \in Slots : q # s => job'[q] = job[q]
  BY OneJob DEF ShowInv
<1>2. StopsShape'
  BY DEF ShowInv, StopsShape, AccessOf
<1>3. SeenIsResolved' /\ SeenIsLoaded'
  BY <1>1 DEF ShowInv, SeenIsResolved, SeenIsLoaded, Seen, At, AccessOf
<1> QED BY <1>1, <1>2, <1>3 DEF ShowInv, RouteCoversCheckedStops

\* No handler moves on and the stops stay.
LEMMA NoHandler ==
  ASSUME ShowInv, UNCHANGED <<stops, routes, job>>
  PROVE  ShowInv'
BY DEF ShowInv, StopsShape, JobsShape, SeenIsResolved, SeenIsLoaded, Seen, At, AccessOf,
  RouteCoversCheckedStops

\* A field of one stop changes.
LEMMA OneStop ==
  ASSUME ShowInv, NEW i, NEW x,
         \/ stops' = [stops EXCEPT ![i].access = AccessOf(i)]
         \/ stops' = [stops EXCEPT ![i].order = x],
         NEW s \in Slots, NEW j, job' = [job EXCEPT ![s] = j],
         j.kind = "negotiate" => j \in [kind : {"negotiate"}, day : {j.day}, todo : {j.todo}],
         j.kind = "renumber" => j \in [kind : {"renumber"}, order : {j.order}, todo : {j.todo}],
         j.kind \notin {"load", "route", "propose"},
         UNCHANGED routes
  PROVE  ShowInv'
<1>1. JobsShape' /\ job'[s] = j /\ \A q \in Slots : q # s => job'[q] = job[q]
  BY OneJob DEF ShowInv
<1>2. Len(stops) \in Nat /\ stops = [k \in 1..Len(stops) |-> stops[k]]
      /\ DOMAIN stops = 1..Len(stops)
  BY StopsDomain DEF ShowInv, StopsShape
<1>3. \E z : stops' = [stops EXCEPT ![i] = z]
  OBVIOUS
<1>4. stops' = [k \in 1..Len(stops) |-> stops'[k]] /\ DOMAIN stops' = 1..Len(stops)
  BY <1>2, <1>3
<1>5. Len(stops') = Len(stops)
  BY <1>2, <1>4
<1>6. \A k \in 1..Len(stops) : IsStop(stops[k])
  BY DEF ShowInv, StopsShape
<1>7. \A k \in 1..Len(stops) :
        /\ IsStop(stops'[k]) /\ stops'[k].prop = stops[k].prop /\ stops'[k].day = stops[k].day
        /\ stops'[k].access \in {stops[k].access, AccessOf(k)}
  <2> SUFFICES ASSUME NEW k \in 1..Len(stops)
               PROVE  /\ IsStop(stops'[k]) /\ stops'[k].prop = stops[k].prop
                      /\ stops'[k].day = stops[k].day
                      /\ stops'[k].access \in {stops[k].access, AccessOf(k)}
    OBVIOUS
  <2>1. CASE k # i
    BY <1>2, <1>3, <1>6, <2>1
  <2>2. CASE k = i
    <3>1. \/ stops'[k] = [stops[k] EXCEPT !.access = AccessOf(k)]
          \/ stops'[k] = [stops[k] EXCEPT !.order = x]
      BY <1>2, <2>2
    <3>2. stops[k] \in [prop : {stops[k].prop}, day : {stops[k].day}, order : {stops[k].order},
                        access : {stops[k].access}]
      BY <1>6 DEF IsStop
    <3> QED BY <3>1, <3>2 DEF IsStop
  <2> QED BY <2>1, <2>2
<1>8. \A k \in 1..Len(stops) : AccessOf(k)' = AccessOf(k)
  BY <1>7 DEF AccessOf
<1>9. StopsShape'
  BY <1>2, <1>4, <1>5, <1>7, <1>8 DEF ShowInv, StopsShape
<1>10. SeenIsResolved'
  BY <1>1, <1>5, <1>7, <1>8 DEF ShowInv, SeenIsResolved, Seen, At
<1>11. SeenIsLoaded'
  BY <1>1 DEF ShowInv, SeenIsLoaded, Seen, At
<1> QED BY <1>1, <1>9, <1>10, <1>11 DEF ShowInv, RouteCoversCheckedStops

\* The insert of a swipe.
LEMMA StopAdded ==
  ASSUME ShowInv, NEW x, IsStop(x), x.access = "pending", stops' = Append(stops, x),
         NEW s \in Slots, NEW j, job' = [job EXCEPT ![s] = j], j.kind = "idle", UNCHANGED routes
  PROVE  ShowInv'
<1>1. JobsShape' /\ job'[s] = j /\ \A q \in Slots : q # s => job'[q] = job[q]
  BY OneJob DEF ShowInv
<1>2. Len(stops) \in Nat /\ DOMAIN stops = 1..Len(stops)
  BY StopsDomain DEF ShowInv, StopsShape
<1>3. /\ Len(stops') = Len(stops) + 1 /\ stops' = [k \in 1..Len(stops') |-> stops'[k]]
      /\ stops'[Len(stops) + 1] = x
      /\ \A k \in 1..Len(stops) : stops'[k] = stops[k]
  <2> DEFINE Elements == {stops[k] : k \in 1..Len(stops)} \cup {x}
  <2>1. stops \in Seq(Elements) /\ x \in Elements
    BY <1>2 DEF ShowInv, StopsShape
  <2> HIDE DEF Elements
  <2>2. /\ stops' \in Seq(Elements) /\ Len(stops') = Len(stops) + 1
        /\ stops'[Len(stops) + 1] = x
        /\ \A k \in 1..Len(stops) : stops'[k] = stops[k]
    BY <2>1
  <2>3. \A q \in Seq(Elements) : q = [k \in 1..Len(q) |-> q[k]]
    OBVIOUS
  <2> QED BY <2>2, <2>3
<1>4. \A k \in 1..Len(stops) : AccessOf(k)' = AccessOf(k)
  BY <1>3 DEF AccessOf
<1>5. StopsShape'
  BY <1>2, <1>3, <1>4 DEF ShowInv, StopsShape
<1>6. SeenIsResolved'
  <2> SUFFICES ASSUME NEW q \in Slots, At(q, "load")', NEW i \in Seen(q)'
               PROVE  /\ i \in 1..Len(stops') /\ stops'[i].day = job'[q].day
                      /\ stops'[i].access = "not_needed" /\ AccessOf(i)' = "not_needed"
    BY DEF SeenIsResolved
  <2>1. q # s /\ job'[q] = job[q] /\ At(q, "load") /\ i \in Seen(q)
    BY <1>1 DEF At, Seen
  <2>2. /\ i \in 1..Len(stops) /\ stops[i].day = job[q].day
        /\ stops[i].access = "not_needed" /\ AccessOf(i) = "not_needed"
    BY <2>1 DEF ShowInv, SeenIsResolved
  <2> QED BY <1>2, <1>3, <1>4, <2>1, <2>2
<1>7. SeenIsLoaded'
  BY <1>1 DEF ShowInv, SeenIsLoaded, Seen, At
<1> QED BY <1>1, <1>5, <1>6, <1>7 DEF ShowInv, RouteCoversCheckedStops

LEMMA ShowStart == ShowInit => ShowInv
<1> SUFFICES ASSUME ShowInit PROVE ShowInv
  OBVIOUS
<1>1. \A s \in Slots : job[s].kind = "idle"
  BY DEF ShowInit, Idle
<1> QED BY <1>1 DEF ShowInit, ShowInv, StopsShape, JobsShape, SeenIsResolved, SeenIsLoaded, At,
      RouteCoversCheckedStops

LEMMA ShowStep == ShowInv /\ [ShowNext]_showVars => ShowInv'
<1> SUFFICES ASSUME ShowInv, [ShowNext]_showVars PROVE ShowInv'
  OBVIOUS
<1> USE DEF tables, bounds
<1>1. CASE \/ PropertyMatch \/ CurateTap \/ Skip \/ CreateDay \/ UNCHANGED showVars
           \/ \E d \in DOMAIN days, status \in PatchTo : PatchDay(d, status)
  <2>1. UNCHANGED <<stops, routes, job>>
    BY <1>1 DEF PropertyMatch, CurateTap, Skip, CreateDay, PatchDay, showVars
  <2> QED BY <2>1, NoHandler
<1>2. CASE Add
  <2>1. UNCHANGED <<stops, routes>>
    BY <1>2 DEF Add
  <2>2. CASE UNCHANGED job
    BY <2>1, <2>2, NoHandler
  <2>3. CASE \E s \in Slots : Start(s, [kind |-> "swipe", prop |-> Head(curation.queue)])
    <3>1. PICK s \in Slots : Start(s, [kind |-> "swipe", prop |-> Head(curation.queue)])
      BY <2>3
    <3> QED BY <2>1, <3>1, OneHandler DEF Start
  <2> QED BY <1>2, <2>2, <2>3 DEF Add
<1>3. ASSUME NEW s \in Slots, SwipeDay(s) \/ SwipeOrder(s) \/ ProposeDays(s) PROVE ShowInv'
  <2>1. UNCHANGED <<stops, routes>>
    BY <1>3 DEF SwipeDay, SwipeOrder, ProposeDays
  <2>2. CASE SwipeDay(s)
    <3>1. CASE End(s)
      BY <2>1, <3>1, OneHandler DEF End, Idle
    <3>2. CASE \E day : Continue(s, [kind |-> "order", prop |-> job[s].prop, day |-> day])
      BY <2>1, <3>2, OneHandler DEF Continue
    <3> QED BY <2>2, <3>1, <3>2 DEF SwipeDay
  <2>3. CASE SwipeOrder(s)
    <3>1. PICK order : Continue(s, [kind |-> "insert", prop |-> job[s].prop, day |-> job[s].day,
                                   order |-> order])
      BY <2>3 DEF SwipeOrder
    <3> QED BY <2>1, <3>1, OneHandler DEF Continue
  <2>4. CASE ProposeDays(s)
    BY <2>1, <2>4, OneHandler DEF ProposeDays, Start
  <2> QED BY <1>3, <2>2, <2>3, <2>4
<1>4. ASSUME NEW s \in Slots, SwipeInsert(s) PROVE ShowInv'
  <2>1. job' = [job EXCEPT ![s] = Idle] /\ Idle.kind = "idle" /\ UNCHANGED routes
    BY <1>4 DEF SwipeInsert, End, Idle
  <2>2. CASE UNCHANGED stops
    BY <2>1, <2>2, OneHandler
  <2>3. CASE stops' = Append(stops, [prop |-> job[s].prop, day |-> job[s].day,
                                     order |-> job[s].order, access |-> "pending"])
    BY <2>1, <2>3, StopAdded DEF IsStop
  <2> QED BY <1>4, <2>2, <2>3 DEF SwipeInsert
<1>5. ASSUME NEW s \in Slots, ProposeInsert(s) PROVE ShowInv'
  <2>1. UNCHANGED <<stops, routes>> /\ At(s, "propose")
    BY <1>5 DEF ProposeInsert
  <2>2. CASE End(s)
    BY <2>1, <2>2, OneHandler DEF End, Idle
  <2>3. CASE Continue(s, [job[s] EXCEPT !.left = @ - 1])
    <3> DEFINE j == [job[s] EXCEPT !.left = @ - 1]
    <3>1. job[s] \in [kind : {"propose"}, left : {job[s].left}]
      BY <2>1 DEF ShowInv, JobsShape
    <3>2. j \in [kind : {"propose"}, left : {j.left}] /\ j.kind = "propose"
      BY <3>1
    <3>3. job' = [job EXCEPT ![s] = j]
      BY <2>3 DEF Continue
    <3> HIDE DEF j
    <3> QED BY <2>1, <3>2, <3>3, OneHandler
  <2> QED BY <1>5, <2>2, <2>3 DEF ProposeInsert
<1>6. ASSUME NEW s \in Slots, NEW d \in DOMAIN days, Negotiate(s, d) PROVE ShowInv'
  <2>1. UNCHANGED <<stops, routes>>
    BY <1>6 DEF Negotiate
  <2> QED BY <1>6, <2>1, OneHandler DEF Negotiate, Start
<1>7. ASSUME NEW s \in Slots, NegotiateStop(s) PROVE ShowInv'
  <2>1. At(s, "negotiate") /\ UNCHANGED routes
    BY <1>7 DEF NegotiateStop
  <2>2. PICK i \in job[s].todo :
          LET left == job[s].todo \ {i}
          IN  /\ IF left = {} THEN End(s) ELSE Continue(s, [job[s] EXCEPT !.todo = left])
              /\ stops' = [stops EXCEPT ![i].access = AccessOf(i)] \/ UNCHANGED stops
    BY <1>7 DEF NegotiateStop
  <2>3. PICK j : /\ job' = [job EXCEPT ![s] = j]
                 /\ j = Idle \/ j = [job[s] EXCEPT !.todo = job[s].todo \ {i}]
    BY <2>2 DEF End, Continue
  <2>4. job[s] \in [kind : {"negotiate"}, day : {job[s].day}, todo : {job[s].todo}]
    BY <2>1 DEF ShowInv, JobsShape
  <2>5. /\ j.kind \in {"idle", "negotiate"}
        /\ j.kind = "negotiate" => j \in [kind : {"negotiate"}, day : {j.day}, todo : {j.todo}]
    BY <2>3, <2>4 DEF Idle
  <2>6. CASE UNCHANGED stops
    BY <2>1, <2>3, <2>5, <2>6, OneHandler
  <2>7. CASE stops' = [stops EXCEPT ![i].access = AccessOf(i)]
    BY <2>1, <2>3, <2>5, <2>7, OneStop
  <2> QED BY <2>2, <2>6, <2>7
<1>8. ASSUME NEW s \in Slots, NEW d \in DOMAIN days, AccessConfirmed(s, d) PROVE ShowInv'
  <2>1. UNCHANGED <<stops, routes>>
    BY <1>8 DEF AccessConfirmed
  <2>2. CASE UNCHANGED job
    BY <2>1, <2>2, NoHandler
  <2>3. CASE Start(s, [kind |-> "check", day |-> d])
    BY <2>1, <2>3, OneHandler DEF Start
  <2> QED BY <1>8, <2>2, <2>3 DEF AccessConfirmed
<1>9. ASSUME NEW s \in Slots, RouteCheck(s) PROVE ShowInv'
  <2>1. UNCHANGED <<stops, routes>>
    BY <1>9 DEF RouteCheck
  <2>2. CASE Unresolved(job[s].day) # {}
    <3>1. End(s)
      BY <1>9, <2>2 DEF RouteCheck
    <3> QED BY <2>1, <3>1, OneHandler DEF End, Idle
  <2>3. CASE Unresolved(job[s].day) = {}
    <3> DEFINE d == job[s].day
               j == [kind |-> "load", day |-> d, seen |-> StopsOf(d)]
    <3>1. job' = [job EXCEPT ![s] = j]
      BY <1>9, <2>3 DEF RouteCheck, Continue
    <3>2. j.kind = "load" /\ j.day = d /\ j.seen = StopsOf(d)
      OBVIOUS
    <3> HIDE DEF j
    <3>3. JobsShape' /\ job'[s] = j /\ \A q \in Slots : q # s => job'[q] = job[q]
      BY <3>1, <3>2, OneJob DEF ShowInv
    <3>4. \A i \in StopsOf(d) : /\ i \in 1..Len(stops) /\ stops[i].day = d
                                /\ stops[i].access = "not_needed" /\ AccessOf(i) = "not_needed"
      <4>1. \A i \in StopsOf(d) : /\ i \in 1..Len(stops) /\ stops[i].day = d
                                  /\ stops[i].access \in Resolved
        BY <2>3, StopsDomain DEF ShowInv, StopsOf, Unresolved
      <4>2. \A i \in 1..Len(stops) : stops[i].access \in {"pending", AccessOf(i)}
        BY DEF ShowInv, StopsShape
      <4>3. \A i \in 1..Len(stops) : AccessOf(i) \in {"not_needed", "pending", "negotiating"}
        BY DEF AccessOf
      <4> QED BY <4>1, <4>2, <4>3 DEF Resolved
    <3>5. SeenIsResolved'
      <4> SUFFICES ASSUME NEW q \in Slots, At(q, "load")', NEW i \in Seen(q)'
                   PROVE  /\ i \in 1..Len(stops) /\ stops[i].day = job'[q].day
                          /\ stops[i].access = "not_needed" /\ AccessOf(i) = "not_needed"
        BY <2>1 DEF SeenIsResolved, AccessOf
      <4>1. CASE q = s
        BY <3>2, <3>3, <3>4, <4>1 DEF Seen
      <4>2. CASE q # s
        <5>1. At(q, "load") /\ i \in Seen(q) /\ job'[q] = job[q]
          BY <3>3, <4>2 DEF At, Seen
        <5> QED BY <5>1 DEF ShowInv, SeenIsResolved
      <4> QED BY <4>1, <4>2
    <3>6. SeenIsLoaded'
      BY <3>2, <3>3 DEF ShowInv, SeenIsLoaded, Seen, At
    <3>7. StopsShape' /\ RouteCoversCheckedStops'
      BY <2>1 DEF ShowInv, StopsShape, AccessOf, RouteCoversCheckedStops
    <3> QED BY <3>3, <3>5, <3>6, <3>7 DEF ShowInv
  <2> QED BY <2>2, <2>3
<1>10. ASSUME NEW s \in Slots, RouteLoad(s) PROVE ShowInv'
  <2>1. UNCHANGED <<stops, routes>> /\ At(s, "load")
    BY <1>10 DEF RouteLoad
  <2> DEFINE d == job[s].day
             load == {i \in StopsOf(d) : stops[i].access \in Routable}
  <2>2. CASE End(s)
    BY <2>1, <2>2, OneHandler DEF End, Idle
  <2>3. CASE \E order \in SetToSeqs(load) :
               Continue(s, [kind |-> "route", day |-> d, seen |-> job[s].seen, order |-> order])
    <3>1. PICK order \in SetToSeqs(load) :
            Continue(s, [kind |-> "route", day |-> d, seen |-> job[s].seen, order |-> order])
      BY <2>3
    <3> DEFINE j == [kind |-> "route", day |-> d, seen |-> job[s].seen, order |-> order]
    <3>2. job' = [job EXCEPT ![s] = j] /\ j.kind = "route" /\ j.seen = Seen(s) /\ j.order = order
      BY <3>1 DEF Continue, Seen
    <3> HIDE DEF j
    <3>3. IsFiniteSet(load)
      <4>1. load \in SUBSET (1..Len(stops)) /\ Len(stops) \in Nat
        BY StopsDomain DEF ShowInv, StopsOf, StopsShape
      <4> HIDE DEF load
      <4>2. IsFiniteSet(1..Len(stops))
        BY <4>1, FS_Interval
      <4> QED BY <4>1, <4>2, FS_Subset
    <3>4. Range(order) = load
      <4> HIDE DEF load
      <4> QED BY <3>3, OrdersAreComplete
    <3>5. Seen(s) \subseteq load
      <4>1. \A i \in Seen(s) : /\ i \in 1..Len(stops) /\ stops[i].day = d
                               /\ stops[i].access = "not_needed"
        BY <2>1 DEF ShowInv, SeenIsResolved
      <4> QED BY <4>1, StopsDomain DEF ShowInv, StopsOf, Routable
    <3> HIDE DEF load
    <3>6. JobsShape' /\ job'[s] = j /\ \A q \in Slots : q # s => job'[q] = job[q]
      BY <3>2, OneJob DEF ShowInv
    <3>7. SeenIsLoaded'
      <4> SUFFICES ASSUME NEW q \in Slots, At(q, "route")'
                   PROVE  Seen(q)' \subseteq Range(job'[q].order)
        BY DEF SeenIsLoaded
      <4>1. CASE q = s
        BY <3>2, <3>4, <3>5, <3>6, <4>1 DEF Seen
      <4>2. CASE q # s
        BY <3>6, <4>2 DEF ShowInv, SeenIsLoaded, Seen, At
      <4> QED BY <4>1, <4>2
    <3>8. SeenIsResolved'
      BY <2>1, <3>2, <3>6 DEF ShowInv, SeenIsResolved, Seen, At, AccessOf
    <3>9. StopsShape' /\ RouteCoversCheckedStops'
      BY <2>1 DEF ShowInv, StopsShape, AccessOf, RouteCoversCheckedStops
    <3> QED BY <3>6, <3>7, <3>8, <3>9 DEF ShowInv
  <2> QED BY <1>10, <2>2, <2>3 DEF RouteLoad
<1>11. ASSUME NEW s \in Slots, RouteInsert(s) PROVE ShowInv'
  <2>1. UNCHANGED stops /\ At(s, "route")
    BY <1>11 DEF RouteInsert
  <2>2. CASE End(s) /\ UNCHANGED routes
    BY <2>1, <2>2, OneHandler DEF End, Idle
  <2>3. CASE /\ routes' = routes \cup {[day |-> job[s].day, seen |-> job[s].seen,
                                       stops |-> Range(job[s].order)]}
             /\ Continue(s, [kind |-> "renumber", order |-> job[s].order,
                             todo |-> DOMAIN job[s].order])
    <3>1. RouteCoversCheckedStops'
      BY <2>1, <2>3 DEF ShowInv, SeenIsLoaded, Seen, RouteCoversCheckedStops
    <3> DEFINE j == [kind |-> "renumber", order |-> job[s].order, todo |-> DOMAIN job[s].order]
    <3>2. job' = [job EXCEPT ![s] = j] /\ j.kind = "renumber"
          /\ j \in [kind : {"renumber"}, order : {j.order}, todo : {j.todo}]
      BY <2>3 DEF Continue
    <3> HIDE DEF j
    <3>3. JobsShape' /\ job'[s] = j /\ \A q \in Slots : q # s => job'[q] = job[q]
      BY <3>2, OneJob DEF ShowInv
    <3>4. StopsShape' /\ SeenIsResolved' /\ SeenIsLoaded'
      BY <2>1, <3>2, <3>3 DEF ShowInv, StopsShape, SeenIsResolved, SeenIsLoaded, Seen, At, AccessOf
    <3> QED BY <3>1, <3>3, <3>4 DEF ShowInv
  <2> QED BY <1>11, <2>2, <2>3 DEF RouteInsert
<1>12. ASSUME NEW s \in Slots, RouteRenumber(s) PROVE ShowInv'
  <2>1. At(s, "renumber") /\ UNCHANGED routes
    BY <1>12 DEF RouteRenumber
  <2>2. PICK n \in job[s].todo :
          /\ stops' = [stops EXCEPT ![job[s].order[n]].order = n - 1]
          /\ IF job[s].todo = {n} THEN End(s) ELSE Continue(s, [job[s] EXCEPT !.todo = @ \ {n}])
    BY <1>12 DEF RouteRenumber
  <2>3. PICK j : /\ job' = [job EXCEPT ![s] = j]
                 /\ j = Idle \/ j = [job[s] EXCEPT !.todo = job[s].todo \ {n}]
    BY <2>2 DEF End, Continue
  <2>4. job[s] \in [kind : {"renumber"}, order : {job[s].order}, todo : {job[s].todo}]
    BY <2>1 DEF ShowInv, JobsShape
  <2>5. /\ j.kind \in {"idle", "renumber"}
        /\ j.kind = "renumber" => j \in [kind : {"renumber"}, order : {j.order}, todo : {j.todo}]
    BY <2>3, <2>4 DEF Idle
  <2> QED BY <2>1, <2>2, <2>3, <2>5, OneStop
<1> QED BY <1>1, <1>2, <1>3, <1>4, <1>5, <1>6, <1>7, <1>8, <1>9, <1>10, <1>11, <1>12
     DEF ShowNext, Handler, EventHandler

\* A route that is recorded holds every stop its task saw when it found nothing
\* unresolved, whatever swipes and negotiations did between its reads.
THEOREM RoutesAreComplete == ShowSpec => []RouteCoversCheckedStops
<1>1. ShowInv => RouteCoversCheckedStops
  BY DEF ShowInv
<1> QED BY <1>1, ShowStart, ShowStep, PTL DEF ShowSpec
-----------------------------------------------------------------------------
(***************************************************************************)
(* The registry of each replica.  While no two calls have built there at   *)
(* once, there is one builder at most, and only while its map is empty,    *)
(* and who works with a coordinator works with the one in the map; a save  *)
(* that is between its row and the coordinator still has to bring what the *)
(* row says, unless the replica is stale.                                  *)
(***************************************************************************)
RegistrySteps == Over \cup BuildSteps \cup {"confirming", "patching", "getting", "using"}
RegistryType ==
  /\ replicaOf \in [GatewayCalls -> Replicas] /\ eager \in BOOLEAN
  /\ at \in [GatewayCalls -> RegistrySteps] /\ got \in [GatewayCalls -> Coordinators \cup {NoCoordinator}]
  /\ entries \in [Replicas -> Coordinators \cup {NoCoordinator}]
  /\ settings \in [Coordinators -> SUBSET SendTypes] /\ dbSettings \in SUBSET SendTypes
  /\ pending \in [Coordinators -> SUBSET Messages] /\ dbCards \in SUBSET Messages
  /\ shown \in SUBSET SendTypes /\ reading \in SUBSET SUBSET SendTypes
  /\ body \in [Saves -> SUBSET SendTypes]
  /\ doubled \subseteq Replicas /\ stale \subseteq Replicas

\* The replica whose calls use a coordinator.
ReplicaIn(k) == IF k \in Replicas THEN k ELSE replicaOf[k]
Owned ==
  /\ \A r \in Replicas : entries[r] # NoCoordinator => ReplicaIn(entries[r]) = r
  /\ \A c \in GatewayCalls :
       /\ at[c] \in BuildSteps => got[c] = c
       /\ at[c] = "using" => got[c] # NoCoordinator /\ ReplicaIn(got[c]) = replicaOf[c]
Builders ==
  \A c \in GatewayCalls : replicaOf[c] \notin doubled =>
    /\ \A d \in GatewayCalls :
         at[c] \in BuildSteps /\ at[d] \in BuildSteps /\ replicaOf[d] = replicaOf[c] => c = d
    /\ at[c] \in BuildSteps => entries[replicaOf[c]] = NoCoordinator
    /\ at[c] = "using" => got[c] = entries[replicaOf[c]]
OneUpdate ==
  \A r \in Replicas \ stale : \A c, d \in UpdatingAt(r) : c = d /\ dbSettings = body[c]
MapFollows ==
  \A r \in Replicas \ (doubled \cup stale) : UpdatingAt(r) = {} =>
    /\ entries[r] # NoCoordinator => settings[entries[r]] = dbSettings
    /\ \A c \in GatewayCalls : replicaOf[c] = r /\ at[c] = "scheduling" => settings[c] = dbSettings
MapServes ==
  \A r \in Replicas \ doubled :
    /\ entries[r] # NoCoordinator => CardsOf(r) \subseteq pending[entries[r]]
    /\ \A c \in GatewayCalls :
         replicaOf[c] = r /\ at[c] \in {"seeding", "scheduling"} => CardsOf(r) \subseteq pending[c]
RegistryInv == RegistryType /\ Owned /\ Builders /\ OneUpdate /\ MapFollows /\ MapServes

LEMMA RegistryStart == RegistryInit => RegistryInv
<1> SUFFICES ASSUME RegistryInit PROVE RegistryInv
  OBVIOUS
<1>1. RegistryType
  BY RegistryAssumption DEF RegistryInit, RegistryType, RegistrySteps, Over, Coordinators
<1>2. \A c \in GatewayCalls : at[c] = "idle"
  BY DEF RegistryInit
<1>3. Builders /\ OneUpdate
  BY <1>2 DEF Builders, OneUpdate, UpdatingAt, BuildSteps, GatewayCalls
<1>4. \A r \in Replicas : entries[r] # NoCoordinator => entries[r] = r /\ settings[r] = dbSettings
  BY DEF RegistryInit, Coordinators
<1>5. \A r \in Replicas : CardsOf(r) = {}
  BY DEF RegistryInit, CardsOf
<1>6. Owned
  BY <1>2, <1>4 DEF Owned, ReplicaIn, BuildSteps
<1>7. MapFollows /\ MapServes
  BY <1>2, <1>4, <1>5 DEF MapFollows, MapServes
<1> QED BY <1>1, <1>3, <1>6, <1>7 DEF RegistryInv

\* One call goes on.
LEMMA CallGoes ==
  ASSUME RegistryType, NEW c \in GatewayCalls, NEW s \in RegistrySteps, Goto(c, s)
  PROVE  /\ at' \in [GatewayCalls -> RegistrySteps] /\ at'[c] = s
         /\ \A d \in GatewayCalls : d # c => at'[d] = at[d]
BY DEF RegistryType, Goto

\* The calls of one replica that are saves between row and coordinator.
LEMMA UpdatingStays ==
  ASSUME RegistryType, NEW c \in GatewayCalls, NEW s \in RegistrySteps, Goto(c, s), replicaOf' = replicaOf
  PROVE  /\ \A r \in Replicas : r # replicaOf[c] => UpdatingAt(r)' = UpdatingAt(r)
         /\ c \notin Saves => \A r \in Replicas : UpdatingAt(r)' = UpdatingAt(r)
         /\ (s \in BuildSteps \cup {"getting", "using"} <=> at[c] \in BuildSteps \cup {"getting", "using"}) =>
              \A r \in Replicas : UpdatingAt(r)' = UpdatingAt(r)
         /\ s \notin BuildSteps \cup {"getting", "using"} =>
              \A r \in Replicas : UpdatingAt(r)' = UpdatingAt(r) \ {c}
<1>1. at'[c] = s /\ \A d \in GatewayCalls : d # c => at'[d] = at[d]
  BY CallGoes
<1>2. \A d \in Saves : d \in GatewayCalls
  BY DEF GatewayCalls
<1> QED BY <1>1, <1>2 DEF UpdatingAt

\* A step that begins neither a build nor the use of a coordinator, and ends no
\* save that is between row and coordinator.
LEMMA RegistryBystander ==
  ASSUME RegistryInv, RegistryType',
         UNCHANGED <<replicaOf, got, entries, settings, pending, dbSettings, dbCards, doubled, stale>>,
         \A c \in GatewayCalls : at'[c] \in BuildSteps \cup {"using"} => at'[c] = at[c],
         \A r \in Replicas : UpdatingAt(r)' = UpdatingAt(r),
         \A r \in Replicas : \A c \in UpdatingAt(r) : body'[c] = body[c]
  PROVE  RegistryInv'
<1>1. Owned' /\ Builders'
  BY DEF RegistryInv, Owned, ReplicaIn, Builders
<1>2. OneUpdate'
  BY DEF RegistryInv, OneUpdate
<1>3. MapFollows'
  BY DEF RegistryInv, MapFollows, BuildSteps
<1>4. MapServes'
  BY DEF RegistryInv, MapServes, BuildSteps, CardsOf
<1> QED BY <1>1, <1>2, <1>3, <1>4 DEF RegistryInv

LEMMA ScreenStep ==
  ASSUME RegistryInv, NEW c \in Saves,
         Enable(c) \/ SavePref(c) \/ \E k \in SendTypes : Toggle(c, k)
  PROVE  RegistryInv'
<1>1. c \in GatewayCalls /\ RegistryType
  BY DEF GatewayCalls, RegistryInv
<1>2. /\ UNCHANGED <<replicaOf, eager, got, entries, settings, pending, dbSettings, dbCards, doubled,
                     stale>>
      /\ \A d \in Saves : d # c => body'[d] = body[d]
      /\ body' \in [Saves -> SUBSET SendTypes] /\ shown' \in SUBSET SendTypes /\ reading' = reading
  <2>1. CASE Enable(c) \/ SavePref(c)
    BY <1>1, <2>1 DEF Enable, SavePref, Past, Phone, Given, RegistryType
  <2>2. CASE \E k \in SendTypes : Toggle(c, k)
    <3>1. PICK k \in SendTypes : Toggle(c, k)
      BY <2>2
    <3>2. PICK b \in SUBSET SendTypes : body' = [body EXCEPT ![c] = b]
      BY <1>1, <3>1 DEF Toggle, RegistryType
    <3> QED BY <1>1, <3>1, <3>2 DEF Toggle, Past, Given, RegistryType
  <2> QED BY <2>1, <2>2
<1>3. PICK s \in {"confirming", "patching", "shown"} : Goto(c, s)
  BY DEF Enable, SavePref, Toggle
<1>4. at[c] \in {"idle", "confirming", "done", "failed"} /\ s \in RegistrySteps
  BY DEF Enable, SavePref, Toggle, RegistrySteps, Over
<1>5. /\ at' \in [GatewayCalls -> RegistrySteps] /\ at'[c] = s
      /\ \A d \in GatewayCalls : d # c => at'[d] = at[d]
  BY <1>1, <1>3, <1>4, CallGoes
<1>6. RegistryType'
  BY <1>1, <1>2, <1>5 DEF RegistryType
<1>7. \A r \in Replicas : UpdatingAt(r)' = UpdatingAt(r)
  BY <1>1, <1>2, <1>3, <1>4, UpdatingStays DEF BuildSteps
<1>8. \A d \in GatewayCalls : at'[d] \in BuildSteps \cup {"using"} => at'[d] = at[d]
  BY <1>5 DEF BuildSteps
<1>9. \A r \in Replicas : \A d \in UpdatingAt(r) : body'[d] = body[d]
  BY <1>2, <1>4 DEF UpdatingAt, BuildSteps
<1> QED BY <1>2, <1>6, <1>7, <1>8, <1>9, RegistryBystander

LEMMA ArriveStep ==
  ASSUME RegistryInv, NEW c \in Messages, Arrive(c)
  PROVE  RegistryInv'
<1>1. c \in GatewayCalls /\ RegistryType /\ c \notin Saves /\ "getting" \in RegistrySteps
  BY RegistryAssumption DEF GatewayCalls, RegistryInv, RegistrySteps
<1>2. /\ at' \in [GatewayCalls -> RegistrySteps] /\ at'[c] = "getting"
      /\ \A d \in GatewayCalls : d # c => at'[d] = at[d]
  BY <1>1, CallGoes DEF Arrive
<1>3. /\ RegistryType'
      /\ UNCHANGED <<replicaOf, got, entries, settings, pending, dbSettings, dbCards, doubled, stale,
                     shown, reading, body>>
  BY <1>1, <1>2 DEF Arrive, RegistryType, Phone, Past, Given
<1>4. \A r \in Replicas : UpdatingAt(r)' = UpdatingAt(r)
  BY <1>1, <1>3, UpdatingStays DEF Arrive
<1>5. \A d \in GatewayCalls : at'[d] \in BuildSteps \cup {"using"} => at'[d] = at[d]
  BY <1>2 DEF BuildSteps
<1> QED BY <1>3, <1>4, <1>5, RegistryBystander

LEMMA ReadingStep ==
  ASSUME RegistryInv, ReadPreferences \/ SetPreferences \/ UNCHANGED registryVars
  PROVE  RegistryInv'
<1>1. /\ UNCHANGED <<replicaOf, eager, at, got, entries, settings, pending, dbSettings, dbCards,
                     doubled, stale, body>>
      /\ shown' \in SUBSET SendTypes /\ reading' \in SUBSET SUBSET SendTypes
  BY DEF RegistryInv, RegistryType, ReadPreferences, SetPreferences, registryVars, Phone, Past, Given
<1>2. RegistryType' /\ \A r \in Replicas : UpdatingAt(r)' = UpdatingAt(r)
  BY <1>1 DEF RegistryInv, RegistryType, UpdatingAt
<1> QED BY <1>1, <1>2, RegistryBystander

\* A build that fails leaves the map as it is, which is empty when the build is the
\* only one at its replica.
LEMMA BuildFailsStep ==
  ASSUME RegistryInv, NEW c \in GatewayCalls, BuildFails(c)
  PROVE  RegistryInv'
<1>1. RegistryType /\ at[c] \in BuildSteps
      /\ UNCHANGED <<replicaOf, eager, got, entries, settings, pending, dbSettings, dbCards, shown,
                     reading, body, doubled, stale>>
  BY DEF RegistryInv, BuildFails, Phone, Past, Given
<1>2. PICK s \in {"done", "failed"} : Goto(c, s)
  BY DEF BuildFails
<1>3. /\ at' \in [GatewayCalls -> RegistrySteps] /\ at'[c] = s /\ s \in RegistrySteps
      /\ \A d \in GatewayCalls : d # c => at'[d] = at[d]
  BY <1>1, <1>2, CallGoes DEF RegistrySteps, Over
<1>4. RegistryType'
  BY <1>1, <1>3 DEF RegistryType
<1>5. \A r \in Replicas : UpdatingAt(r)' = UpdatingAt(r) \ {c} /\ (r # replicaOf[c] => UpdatingAt(r)' = UpdatingAt(r))
  BY <1>1, <1>2, <1>3, UpdatingStays DEF BuildSteps
<1>6. \A d \in GatewayCalls : at'[d] \in BuildSteps \cup {"using"} => at'[d] = at[d] /\ d # c
  BY <1>3 DEF BuildSteps
<1>7. Owned' /\ Builders'
  BY <1>1, <1>6 DEF RegistryInv, Owned, ReplicaIn, Builders
<1>8. OneUpdate'
  BY <1>1, <1>5 DEF RegistryInv, OneUpdate
<1>9. MapFollows'
  <2> SUFFICES ASSUME NEW r \in Replicas \ (doubled \cup stale), UpdatingAt(r)' = {}
               PROVE  /\ entries[r] # NoCoordinator => settings[entries[r]] = dbSettings
                      /\ \A d \in GatewayCalls :
                           replicaOf[d] = r /\ at'[d] = "scheduling" => settings[d] = dbSettings
    BY <1>1 DEF MapFollows
  <2>1. CASE r = replicaOf[c]
    <3>1. entries[r] = NoCoordinator
          /\ \A d \in GatewayCalls : replicaOf[d] = r /\ at[d] \in BuildSteps => d = c
      BY <1>1, <2>1 DEF RegistryInv, Builders
    <3> QED BY <1>6, <3>1 DEF BuildSteps
  <2>2. CASE r # replicaOf[c]
    BY <1>5, <1>6, <2>2 DEF RegistryInv, MapFollows, BuildSteps
  <2> QED BY <2>1, <2>2
<1>10. MapServes'
  BY <1>1, <1>6 DEF RegistryInv, MapServes, BuildSteps, CardsOf
<1> QED BY <1>4, <1>7, <1>8, <1>9, <1>10 DEF RegistryInv

\* PUT has stored the row, and still has to bring it to the coordinator of its own
\* replica; the others that have something older are stale from now on.
LEMMA UpdateRowStep ==
  ASSUME RegistryInv, NEW c \in Saves, UpdateRow(c)
  PROVE  RegistryInv'
<1>1. c \in GatewayCalls /\ RegistryType /\ \A d \in Saves : d \in GatewayCalls
  BY DEF GatewayCalls, RegistryInv
<1>h. PICK home \in Replicas : home = replicaOf[c]
  BY <1>1 DEF RegistryType
<1>2. at[c] = "patching"
      /\ UNCHANGED <<replicaOf, eager, got, entries, settings, pending, dbCards, shown, reading, body,
                     doubled>>
  BY <1>1 DEF UpdateRow, Phone, Given, RegistryType
<1>3. CASE RegMishap /\ Goto(c, "failed") /\ UNCHANGED <<dbSettings, stale>>
  <2>1. /\ at' \in [GatewayCalls -> RegistrySteps] /\ at'[c] = "failed" /\ "failed" \in RegistrySteps
        /\ \A d \in GatewayCalls : d # c => at'[d] = at[d]
    BY <1>1, <1>3, CallGoes DEF RegistrySteps, Over
  <2>2. RegistryType'
    BY <1>1, <1>2, <1>3, <2>1 DEF RegistryType
  <2>3. \A r \in Replicas : UpdatingAt(r)' = UpdatingAt(r)
    BY <1>1, <1>2, <1>3, <2>1, UpdatingStays DEF BuildSteps
  <2>4. \A d \in GatewayCalls : at'[d] \in BuildSteps \cup {"using"} => at'[d] = at[d]
    BY <2>1 DEF BuildSteps
  <2> QED BY <1>2, <1>3, <2>2, <2>3, <2>4, RegistryBystander
<1>4. CASE /\ dbSettings' = body[c] /\ Goto(c, "getting")
           /\ LET passed == {r \in Replicas \ {replicaOf[c]} : HasOlder(r)} IN
                stale' = IF UpdatingAt(replicaOf[c]) = {} THEN (stale \ {replicaOf[c]}) \cup passed
                         ELSE stale \cup passed \cup {replicaOf[c]}
  <2>1. /\ at' \in [GatewayCalls -> RegistrySteps] /\ at'[c] = "getting" /\ "getting" \in RegistrySteps
        /\ \A d \in GatewayCalls : d # c => at'[d] = at[d]
    BY <1>1, <1>4, CallGoes DEF RegistrySteps
  <2>2. /\ stale' \subseteq Replicas
        /\ home \notin stale' => UpdatingAt(home) = {}
        /\ \A r \in Replicas \ stale' : r # home => r \notin stale /\ ~HasOlder(r)
    BY <1>1, <1>h, <1>4 DEF RegistryType
  <2>3. RegistryType'
    BY <1>1, <1>2, <1>4, <2>1, <2>2 DEF RegistryType
  <2>4. \A d \in GatewayCalls : at'[d] \in BuildSteps \cup {"using"} => at'[d] = at[d] /\ d # c
    BY <2>1 DEF BuildSteps
  <2>5. Owned' /\ Builders'
    BY <1>2, <2>4 DEF RegistryInv, Owned, ReplicaIn, Builders
  <2>6. /\ c \in UpdatingAt(home)'
        /\ UpdatingAt(home) = {} => UpdatingAt(home)' = {c}
        /\ \A r \in Replicas : r # home => UpdatingAt(r)' = UpdatingAt(r)
    BY <1>1, <1>2, <1>h, <2>1 DEF UpdatingAt
  <2>7. OneUpdate'
    <3> SUFFICES ASSUME NEW r \in Replicas \ stale', NEW d \in UpdatingAt(r)'
                 PROVE  d = c /\ dbSettings' = body[c]
      BY <1>2 DEF OneUpdate
    <3>1. r = home
      BY <2>2, <2>6 DEF HasOlder
    <3> QED BY <1>4, <2>2, <2>6, <3>1
  <2>8. MapFollows'
    <3> SUFFICES ASSUME NEW r \in Replicas \ stale', UpdatingAt(r)' = {}
                 PROVE  /\ entries[r] = NoCoordinator
                        /\ \A d \in GatewayCalls : ~(replicaOf[d] = r /\ at'[d] = "scheduling")
      BY <1>2 DEF MapFollows
    <3>1. ~HasOlder(r)
      BY <2>2, <2>6
    <3> QED BY <2>4, <3>1 DEF HasOlder, BuildSteps
  <2>9. MapServes'
    BY <1>2, <2>4 DEF RegistryInv, MapServes, BuildSteps, CardsOf
  <2> QED BY <2>3, <2>5, <2>7, <2>8, <2>9 DEF RegistryInv
<1> QED BY <1>3, <1>4 DEF UpdateRow

\* A call finds the coordinator in the map of its replica, or builds one.
LEMMA GetStep ==
  ASSUME RegistryInv, NEW c \in GatewayCalls, Get(c)
  PROVE  RegistryInv'
<1>0. PICK r \in Replicas : r = replicaOf[c]
  BY DEF RegistryInv, RegistryType
<1>1. RegistryType /\ at[c] = "getting" /\ c \in Coordinators /\ c \notin Replicas
  BY RegistryAssumption DEF RegistryInv, Get, Coordinators
<1>2. UNCHANGED <<replicaOf, eager, entries, settings, pending, dbSettings, dbCards, shown, reading, body,
                  stale>>
  BY DEF Get, Phone, Given
<1>3. CASE entries[r] # NoCoordinator
  <2>1. Goto(c, "using") /\ got' = [got EXCEPT ![c] = entries[r]] /\ UNCHANGED doubled
    BY <1>0, <1>3 DEF Get
  <2>2. /\ at' \in [GatewayCalls -> RegistrySteps] /\ at'[c] = "using" /\ "using" \in RegistrySteps
        /\ \A d \in GatewayCalls : d # c => at'[d] = at[d]
    BY <1>1, <2>1, CallGoes DEF RegistrySteps
  <2>3. /\ got' \in [GatewayCalls -> Coordinators \cup {NoCoordinator}] /\ got'[c] = entries[r]
        /\ \A d \in GatewayCalls : d # c => got'[d] = got[d]
    BY <1>1, <2>1 DEF RegistryType
  <2>4. RegistryType'
    BY <1>1, <1>2, <2>1, <2>2, <2>3 DEF RegistryType
  <2>5. Owned'
    <3>1. ReplicaIn(entries[r]) = r
      BY <1>3 DEF RegistryInv, Owned
    <3>2. \A k : ReplicaIn(k)' = ReplicaIn(k)
      BY <1>2 DEF ReplicaIn
    <3> QED BY <1>0, <1>2, <1>3, <2>2, <2>3, <3>1, <3>2 DEF RegistryInv, Owned, BuildSteps
  <2>6. Builders'
    BY <1>0, <1>1, <1>2, <2>1, <2>2, <2>3 DEF RegistryInv, Builders, BuildSteps
  <2>7. \A s \in Replicas : UpdatingAt(s)' = UpdatingAt(s)
    BY <1>1, <1>2, <2>1, <2>2, UpdatingStays
  <2>8. OneUpdate'
    BY <1>2, <2>7 DEF RegistryInv, OneUpdate
  <2>9. MapFollows'
    BY <1>2, <2>1, <2>2, <2>7 DEF RegistryInv, MapFollows
  <2>10. MapServes'
    BY <1>2, <2>1, <2>2 DEF RegistryInv, MapServes, CardsOf
  <2> QED BY <2>4, <2>5, <2>6, <2>8, <2>9, <2>10 DEF RegistryInv
<1>4. CASE entries[r] = NoCoordinator
  <2>1. /\ Goto(c, "loading") /\ got' = [got EXCEPT ![c] = c]
        /\ doubled' = IF BuildingAt(r) = {} THEN doubled ELSE doubled \cup {r}
    BY <1>0, <1>4 DEF Get
  <2>2. /\ at' \in [GatewayCalls -> RegistrySteps] /\ at'[c] = "loading" /\ "loading" \in RegistrySteps
        /\ \A d \in GatewayCalls : d # c => at'[d] = at[d]
    BY <1>1, <2>1, CallGoes DEF RegistrySteps, BuildSteps
  <2>3. /\ got' \in [GatewayCalls -> Coordinators \cup {NoCoordinator}] /\ got'[c] = c
        /\ \A d \in GatewayCalls : d # c => got'[d] = got[d]
    BY <1>1, <2>1 DEF RegistryType
  <2>4. RegistryType'
    BY <1>0, <1>1, <1>2, <2>1, <2>2, <2>3 DEF RegistryType
  <2>5. /\ doubled \subseteq doubled'
        /\ r \notin doubled' => \A d \in GatewayCalls : replicaOf[d] = r => at[d] \notin BuildSteps
    BY <2>1 DEF BuildingAt
  <2>6. Owned'
    <3>1. \A k : ReplicaIn(k)' = ReplicaIn(k)
      BY <1>2 DEF ReplicaIn
    <3> QED BY <1>2, <2>2, <2>3, <3>1 DEF RegistryInv, Owned
  <2>7. Builders'
    <3> SUFFICES ASSUME NEW e \in GatewayCalls, replicaOf[e] \notin doubled'
                 PROVE  /\ \A d \in GatewayCalls :
                             at'[e] \in BuildSteps /\ at'[d] \in BuildSteps /\ replicaOf[d] = replicaOf[e] => e = d
                        /\ at'[e] \in BuildSteps => entries[replicaOf[e]] = NoCoordinator
                        /\ at'[e] = "using" => got'[e] = entries[replicaOf[e]]
      BY <1>2 DEF Builders
    <3>1. CASE replicaOf[e] = r
      BY <1>0, <1>4, <2>2, <2>3, <2>5, <3>1 DEF RegistryInv, Builders
    <3>2. CASE replicaOf[e] # r
      BY <1>0, <2>2, <2>3, <2>5, <3>2 DEF RegistryInv, Builders
    <3> QED BY <3>1, <3>2
  <2>8. \A s \in Replicas : UpdatingAt(s)' = UpdatingAt(s)
    BY <1>1, <1>2, <2>1, <2>2, UpdatingStays DEF BuildSteps
  <2>9. OneUpdate'
    BY <1>2, <2>8 DEF RegistryInv, OneUpdate
  <2>10. MapFollows'
    BY <1>2, <2>2, <2>5, <2>8 DEF RegistryInv, MapFollows
  <2>11. MapServes'
    BY <1>2, <2>2, <2>5 DEF RegistryInv, MapServes, CardsOf
  <2> QED BY <2>4, <2>6, <2>7, <2>9, <2>10, <2>11 DEF RegistryInv
<1> QED BY <1>3, <1>4

\* What is in a map is not what a call builds, unless its replica is doubled.
LEMMA BuiltAside ==
  ASSUME RegistryInv, NEW c \in GatewayCalls, at[c] \in BuildSteps,
         NEW s \in Replicas \ doubled, entries[s] # NoCoordinator
  PROVE  entries[s] # c /\ entries[s] \in Coordinators
<1>1. c \notin Replicas /\ RegistryType
  BY RegistryAssumption DEF RegistryInv
<1>2. CASE replicaOf[c] = s
  BY <1>1, <1>2 DEF RegistryInv, Builders, RegistryType
<1>3. CASE replicaOf[c] # s
  BY <1>1, <1>3 DEF RegistryInv, Owned, ReplicaIn, RegistryType
<1> QED BY <1>2, <1>3

\* The steps of a build before its end: they fill the new coordinator only.
LEMMA FillStep ==
  ASSUME RegistryInv, NEW c \in GatewayCalls, Load(c) \/ Seed(c)
  PROVE  RegistryInv'
<1>1. /\ RegistryType /\ c \in Coordinators /\ replicaOf[c] \in Replicas
      /\ at[c] \in {"loading", "seeding"} /\ at[c] \in BuildSteps
      /\ UNCHANGED <<replicaOf, eager, got, entries, dbSettings, dbCards, shown, reading, body, doubled>>
  BY DEF RegistryInv, RegistryType, Load, Seed, Phone, Past, Given, BuildSteps, Coordinators
<1>2. PICK next \in {"seeding", "scheduling"} :
        next = IF at[c] = "loading" THEN "seeding" ELSE "scheduling"
  BY <1>1
<1>3. Goto(c, next) /\ next \in RegistrySteps
  BY <1>2 DEF Load, Seed, RegistrySteps, BuildSteps
<1>4. /\ at' \in [GatewayCalls -> RegistrySteps] /\ at'[c] = next
      /\ \A d \in GatewayCalls : d # c => at'[d] = at[d]
  BY <1>1, <1>3, CallGoes
<1>5. /\ pending' \in [Coordinators -> SUBSET Messages] /\ settings' \in [Coordinators -> SUBSET SendTypes]
      /\ \A k \in Coordinators : k # c => pending'[k] = pending[k] /\ settings'[k] = settings[k]
      /\ next = "seeding" => pending'[c] = dbCards
      /\ next = "scheduling" => pending' = pending /\ at[c] = "seeding"
      /\ next = "scheduling" /\ replicaOf[c] \notin stale' => settings'[c] = dbSettings
      /\ stale \subseteq stale' /\ stale' \subseteq Replicas
  <2>1. CASE Load(c)
    BY <1>1, <1>2, <2>1 DEF Load, RegistryType, Loaded, Past
  <2>2. CASE Seed(c)
    <3>1. at[c] = "seeding" /\ next = "scheduling" /\ pending' = pending
      BY <1>2, <2>2 DEF Seed
    <3>2. CASE settings' = [settings EXCEPT ![c] = dbSettings] /\ UNCHANGED <<stale, regMishaps>>
      BY <1>1, <3>1, <3>2 DEF RegistryType
    <3>3. CASE RegMishap /\ UNCHANGED settings /\ stale' = stale \cup {replicaOf[c]}
      BY <1>1, <3>1, <3>3 DEF RegistryType
    <3> QED BY <2>2, <3>2, <3>3 DEF Seed
  <2> QED BY <2>1, <2>2
<1>6. RegistryType'
  BY <1>1, <1>4, <1>5 DEF RegistryType
<1>7. \A d \in GatewayCalls :
        /\ at'[d] \in BuildSteps <=> at[d] \in BuildSteps
        /\ at'[d] = "using" => at[d] = "using"
  BY <1>1, <1>4 DEF BuildSteps
<1>8. Owned' /\ Builders'
  BY <1>1, <1>7 DEF RegistryInv, Owned, ReplicaIn, Builders
<1>9. \A s \in Replicas : UpdatingAt(s)' = UpdatingAt(s)
  BY <1>1, <1>3, <1>4, UpdatingStays DEF BuildSteps
<1>10. OneUpdate'
  BY <1>1, <1>5, <1>9 DEF RegistryInv, OneUpdate
<1>11. \A d \in GatewayCalls : d \in Coordinators
  BY DEF Coordinators
<1>12. MapFollows'
  <2> SUFFICES ASSUME NEW s \in Replicas \ (doubled \cup stale'), UpdatingAt(s)' = {}
               PROVE  /\ entries[s] # NoCoordinator => settings'[entries[s]] = dbSettings
                      /\ \A d \in GatewayCalls :
                           replicaOf[d] = s /\ at'[d] = "scheduling" => settings'[d] = dbSettings
    BY <1>1 DEF MapFollows
  <2>1. entries[s] # NoCoordinator => entries[s] # c /\ entries[s] \in Coordinators
    BY <1>1, BuiltAside
  <2>2. UpdatingAt(s) = {} /\ s \notin stale
    BY <1>5, <1>9
  <2> QED BY <1>4, <1>5, <1>11, <2>1, <2>2 DEF RegistryInv, MapFollows
<1>13. MapServes'
  <2> SUFFICES ASSUME NEW s \in Replicas \ doubled
               PROVE  /\ entries[s] # NoCoordinator => CardsOf(s) \subseteq pending'[entries[s]]
                      /\ \A d \in GatewayCalls :
                           replicaOf[d] = s /\ at'[d] \in {"seeding", "scheduling"} => CardsOf(s) \subseteq pending'[d]
    BY <1>1 DEF MapServes, CardsOf
  <2>1. entries[s] # NoCoordinator => entries[s] # c /\ entries[s] \in Coordinators
    BY <1>1, BuiltAside
  <2>2. CardsOf(s) \subseteq dbCards
    BY DEF CardsOf
  <2>3. replicaOf[c] = s => CardsOf(s) \subseteq pending'[c]
    BY <1>5, <2>2 DEF RegistryInv, MapServes
  <2> QED BY <1>4, <1>5, <1>11, <2>1, <2>3 DEF RegistryInv, MapServes
<1> QED BY <1>6, <1>8, <1>10, <1>12, <1>13 DEF RegistryInv

\* The end of a build: whoever looks there from now on finds the new coordinator.
LEMMA RegisterStep ==
  ASSUME RegistryInv, NEW c \in GatewayCalls, Register(c)
  PROVE  RegistryInv'
<1>0. PICK r \in Replicas : r = replicaOf[c]
  BY DEF RegistryInv, RegistryType
<1>1. /\ RegistryType /\ c \in Coordinators /\ c \notin Replicas /\ c # NoCoordinator
      /\ at[c] = "scheduling" /\ at[c] \in BuildSteps /\ got[c] = c
      /\ UNCHANGED <<replicaOf, eager, got, settings, pending, dbSettings, dbCards, shown, reading, body,
                     doubled, stale>>
      /\ entries' = [entries EXCEPT ![r] = c]
  BY <1>0, RegistryAssumption
     DEF RegistryInv, Owned, Register, Phone, Past, Given, BuildSteps, Coordinators
<1>2. /\ at' \in [GatewayCalls -> RegistrySteps] /\ at'[c] = "using" /\ "using" \in RegistrySteps
      /\ \A d \in GatewayCalls : d # c => at'[d] = at[d]
  BY <1>1, CallGoes DEF Register, RegistrySteps
<1>3. /\ entries' \in [Replicas -> Coordinators \cup {NoCoordinator}] /\ entries'[r] = c
      /\ \A s \in Replicas : s # r => entries'[s] = entries[s]
  BY <1>1 DEF RegistryType
<1>4. RegistryType'
  BY <1>1, <1>2, <1>3 DEF RegistryType
<1>5. \A k : ReplicaIn(k)' = ReplicaIn(k)
  BY <1>1 DEF ReplicaIn
<1>6. ReplicaIn(c) = r
  BY <1>0, <1>1 DEF ReplicaIn
<1>7. Owned'
  BY <1>0, <1>1, <1>2, <1>3, <1>5, <1>6 DEF RegistryInv, Owned, BuildSteps
<1>8. ASSUME r \notin doubled
      PROVE  \A d \in GatewayCalls : replicaOf[d] = r /\ d # c => at[d] \notin BuildSteps \cup {"using"}
  <2>1. entries[r] = NoCoordinator
    BY <1>0, <1>1, <1>8 DEF RegistryInv, Builders
  <2> QED BY <1>0, <1>1, <1>8, <2>1 DEF RegistryInv, Builders, Owned
<1>9. Builders'
  <2> SUFFICES ASSUME NEW e \in GatewayCalls, replicaOf[e] \notin doubled
               PROVE  /\ \A d \in GatewayCalls :
                           at'[e] \in BuildSteps /\ at'[d] \in BuildSteps /\ replicaOf[d] = replicaOf[e] => e = d
                      /\ at'[e] \in BuildSteps => entries'[replicaOf[e]] = NoCoordinator
                      /\ at'[e] = "using" => got[e] = entries'[replicaOf[e]]
    BY <1>1 DEF Builders
  <2>1. replicaOf[e] \in Replicas
    BY <1>1 DEF RegistryType
  <2>2. CASE replicaOf[e] = r
    BY <1>1, <1>2, <1>3, <1>8, <2>2 DEF BuildSteps
  <2>3. CASE replicaOf[e] # r
    BY <1>0, <1>2, <1>3, <2>1, <2>3 DEF RegistryInv, Builders
  <2> QED BY <2>2, <2>3
<1>10. \A s \in Replicas : UpdatingAt(s)' = UpdatingAt(s)
  BY <1>1, <1>2, UpdatingStays DEF Register, BuildSteps
<1>11. OneUpdate'
  BY <1>1, <1>10 DEF RegistryInv, OneUpdate
<1>12. MapFollows'
  BY <1>0, <1>1, <1>2, <1>3, <1>10 DEF RegistryInv, MapFollows
<1>13. MapServes'
  BY <1>0, <1>1, <1>2, <1>3 DEF RegistryInv, MapServes, CardsOf
<1> QED BY <1>4, <1>7, <1>9, <1>11, <1>12, <1>13 DEF RegistryInv

\* The save brings the coordinator of its replica what the row says.
LEMMA UpdateSettingsStep ==
  ASSUME RegistryInv, NEW c \in Saves, UpdateSettings(c)
  PROVE  RegistryInv'
<1>0. c \in GatewayCalls /\ RegistryType
  BY DEF RegistryInv, GatewayCalls
<1>1. /\ at[c] = "using"
      /\ UNCHANGED <<replicaOf, eager, got, entries, pending, dbSettings, dbCards, shown, reading, body,
                     doubled, stale>>
      /\ settings' = [settings EXCEPT ![got[c]] = body[c]] /\ Goto(c, "done")
  BY DEF UpdateSettings, Apply, Phone, Past, Given
<1>2. PICK r \in Replicas : r = replicaOf[c]
  BY <1>0 DEF RegistryType
<1>3. PICK k \in Coordinators : k = got[c] /\ ReplicaIn(k) = r
  BY <1>0, <1>1, <1>2 DEF RegistryInv, Owned, RegistryType
<1>4. /\ at' \in [GatewayCalls -> RegistrySteps] /\ at'[c] = "done" /\ "done" \in RegistrySteps
      /\ \A d \in GatewayCalls : d # c => at'[d] = at[d]
  BY <1>0, <1>1, CallGoes DEF RegistrySteps, Over
<1>5. /\ settings' \in [Coordinators -> SUBSET SendTypes] /\ settings'[k] = body[c]
      /\ \A j \in Coordinators : j # k => settings'[j] = settings[j]
  BY <1>0, <1>1, <1>3 DEF RegistryType
<1>6. RegistryType'
  BY <1>0, <1>1, <1>4, <1>5 DEF RegistryType
<1>7. \A d \in GatewayCalls : at'[d] \in BuildSteps \cup {"using"} => at'[d] = at[d]
  BY <1>4 DEF BuildSteps
<1>8. Owned' /\ Builders'
  BY <1>1, <1>7 DEF RegistryInv, Owned, ReplicaIn, Builders
<1>9. c \in UpdatingAt(r) /\ \A s \in Replicas : UpdatingAt(s)' \subseteq UpdatingAt(s)
  BY <1>0, <1>1, <1>2, <1>4, UpdatingStays DEF UpdatingAt, BuildSteps
<1>10. OneUpdate'
  BY <1>1, <1>9 DEF RegistryInv, OneUpdate
<1>11. \A s \in Replicas : s # r => UpdatingAt(s)' = UpdatingAt(s)
  BY <1>0, <1>1, <1>2, <1>4, UpdatingStays
<1>12. MapFollows'
  <2> SUFFICES ASSUME NEW s \in Replicas \ (doubled \cup stale), UpdatingAt(s)' = {}
               PROVE  /\ entries[s] # NoCoordinator => settings'[entries[s]] = dbSettings
                      /\ \A d \in GatewayCalls :
                           replicaOf[d] = s /\ at'[d] = "scheduling" => settings'[d] = dbSettings
    BY <1>1 DEF MapFollows
  <2>1. CASE s = r
    <3>1. k = entries[r] /\ \A d \in GatewayCalls : replicaOf[d] = r => at[d] \notin BuildSteps
      BY <1>0, <1>1, <1>2, <1>3, <2>1 DEF RegistryInv, Builders, Owned
    <3>2. dbSettings = body[c]
      BY <1>9, <2>1 DEF RegistryInv, OneUpdate
    <3> QED BY <1>5, <1>7, <2>1, <3>1, <3>2 DEF BuildSteps
  <2>2. CASE s # r
    <3>1. UpdatingAt(s) = {}
      BY <1>11, <2>2
    <3>2. entries[s] # NoCoordinator => entries[s] # k /\ entries[s] \in Coordinators
      BY <1>0, <1>3, <2>2 DEF RegistryInv, Owned, RegistryType
    <3>3. \A d \in GatewayCalls : replicaOf[d] = s => d # k /\ d \in Coordinators
      BY <1>3, <2>2, RegistryAssumption DEF ReplicaIn, Coordinators
    <3> QED BY <1>5, <1>7, <3>1, <3>2, <3>3 DEF RegistryInv, MapFollows, BuildSteps
  <2> QED BY <2>1, <2>2
<1>13. MapServes'
  BY <1>1, <1>7 DEF RegistryInv, MapServes, BuildSteps, CardsOf
<1> QED BY <1>6, <1>8, <1>10, <1>12, <1>13 DEF RegistryInv

LEMMA CreateApprovalStep ==
  ASSUME RegistryInv, NEW c \in Messages, CreateApproval(c)
  PROVE  RegistryInv'
<1>0. c \in GatewayCalls /\ c \notin Saves /\ RegistryType
  BY RegistryAssumption DEF RegistryInv, GatewayCalls
<1>1. /\ at[c] = "using" /\ Goto(c, "done")
      /\ UNCHANGED <<replicaOf, eager, got, entries, settings, dbSettings, shown, reading, body, doubled,
                     stale>>
      /\ pending' = [pending EXCEPT ![got[c]] = pending[got[c]] \cup {c}]
      /\ dbCards' = dbCards \cup {c}
  BY DEF CreateApproval, Phone, Past, Given
<1>2. PICK r \in Replicas : r = replicaOf[c]
  BY <1>0 DEF RegistryType
<1>3. PICK k \in Coordinators : k = got[c]
  BY <1>0, <1>1 DEF RegistryInv, Owned, RegistryType
<1>4. /\ at' \in [GatewayCalls -> RegistrySteps] /\ at'[c] = "done" /\ "done" \in RegistrySteps
      /\ \A d \in GatewayCalls : d # c => at'[d] = at[d]
  BY <1>0, <1>1, CallGoes DEF RegistrySteps, Over
<1>5. /\ pending' \in [Coordinators -> SUBSET Messages] /\ c \in pending'[k]
      /\ \A j \in Coordinators : pending[j] \subseteq pending'[j]
  BY <1>0, <1>1, <1>3 DEF RegistryType
<1>6. RegistryType'
  BY <1>0, <1>1, <1>4, <1>5 DEF RegistryType
<1>7. \A d \in GatewayCalls : at'[d] \in BuildSteps \cup {"using"} => at'[d] = at[d]
  BY <1>4 DEF BuildSteps
<1>8. Owned' /\ Builders'
  BY <1>1, <1>7 DEF RegistryInv, Owned, ReplicaIn, Builders
<1>9. \A s \in Replicas : UpdatingAt(s)' = UpdatingAt(s)
  BY <1>0, <1>1, <1>4, UpdatingStays
<1>10. OneUpdate'
  BY <1>1, <1>9 DEF RegistryInv, OneUpdate
<1>11. MapFollows'
  BY <1>1, <1>7, <1>9 DEF RegistryInv, MapFollows, BuildSteps
<1>12. MapServes'
  <2> SUFFICES ASSUME NEW s \in Replicas \ doubled
               PROVE  /\ entries[s] # NoCoordinator => CardsOf(s)' \subseteq pending'[entries[s]]
                      /\ \A d \in GatewayCalls :
                           replicaOf[d] = s /\ at'[d] \in {"seeding", "scheduling"} => CardsOf(s)' \subseteq pending'[d]
    BY <1>1 DEF MapServes
  <2>1. \A d \in GatewayCalls : d \in Coordinators
    BY DEF Coordinators
  <2>2. CASE s = r
    <3>1. k = entries[r] /\ \A d \in GatewayCalls : replicaOf[d] = r => at[d] \notin BuildSteps
      BY <1>0, <1>1, <1>2, <1>3, <2>2 DEF RegistryInv, Builders, Owned
    <3>2. CardsOf(r)' \subseteq CardsOf(r) \cup {c}
      BY <1>1 DEF CardsOf
    <3>3. entries[r] # NoCoordinator => CardsOf(r) \subseteq pending[k]
      BY <2>2, <3>1 DEF RegistryInv, MapServes
    <3> QED BY <1>5, <1>7, <2>2, <3>1, <3>2, <3>3 DEF BuildSteps
  <2>3. CASE s # r
    <3>1. CardsOf(s)' = CardsOf(s)
      BY <1>1, <1>2, <2>3 DEF CardsOf
    <3>2. entries[s] # NoCoordinator => entries[s] \in Coordinators
      BY <1>0 DEF RegistryType
    <3>3. \A d \in GatewayCalls : at'[d] \in {"seeding", "scheduling"} => at'[d] = at[d]
      BY <1>7 DEF BuildSteps
    <3> QED BY <1>5, <2>1, <3>1, <3>2, <3>3 DEF RegistryInv, MapServes
  <2> QED BY <2>2, <2>3
<1> QED BY <1>6, <1>8, <1>10, <1>11, <1>12 DEF RegistryInv

\* A replica dies: its calls are over, and what is in its map was just built.
LEMMA RestartStep ==
  ASSUME RegistryInv, NEW r \in Replicas, RestartReplica(r)
  PROVE  RegistryInv'
<1>1. /\ RegistryType /\ r \in Coordinators /\ r # NoCoordinator /\ r \notin GatewayCalls
      /\ UNCHANGED <<replicaOf, eager, got, dbSettings, dbCards, shown, reading, body>>
      /\ doubled' = doubled \ {r} /\ stale' = stale \ {r}
      /\ \A d \in Saves : d \in GatewayCalls
  BY RegistryAssumption DEF RegistryInv, RestartReplica, Phone, Given, Coordinators, GatewayCalls
<1>2. \A c \in GatewayCalls :
        at'[c] = IF replicaOf[c] = r /\ at[c] \notin Over \cup {"confirming"} THEN "lost" ELSE at[c]
  BY DEF RestartReplica
<1>3. \A c \in GatewayCalls :
        IF replicaOf[c] = r THEN at'[c] \notin BuildSteps \cup {"getting", "using"} ELSE at'[c] = at[c]
  BY <1>2 DEF Over, BuildSteps
<1>4. /\ entries' = [entries EXCEPT ![r] = IF eager THEN r ELSE NoCoordinator]
      /\ settings' = IF eager THEN [settings EXCEPT ![r] = dbSettings] ELSE settings
      /\ pending' = IF eager THEN [pending EXCEPT ![r] = dbCards] ELSE pending
      /\ at' = [c \in GatewayCalls |-> at'[c]]
  BY DEF RestartReplica
<1>5. /\ entries' \in [Replicas -> Coordinators \cup {NoCoordinator}]
      /\ settings' \in [Coordinators -> SUBSET SendTypes]
      /\ pending' \in [Coordinators -> SUBSET Messages]
      /\ \A s \in Replicas : s # r => entries'[s] = entries[s]
      /\ \A k \in Coordinators : k # r => settings'[k] = settings[k] /\ pending'[k] = pending[k]
      /\ entries'[r] # NoCoordinator => /\ entries'[r] = r /\ settings'[r] = dbSettings
                                        /\ pending'[r] = dbCards
  BY <1>1, <1>4 DEF RegistryType
<1>6. RegistryType'
  <2>1. \A c \in GatewayCalls : at'[c] \in RegistrySteps
    BY <1>1, <1>2 DEF RegistryType, RegistrySteps, Over
  <2> QED BY <1>1, <1>4, <1>5, <2>1 DEF RegistryType
<1>7. Owned'
  <2>1. \A k : ReplicaIn(k)' = ReplicaIn(k)
    BY <1>1 DEF ReplicaIn
  <2>2. ReplicaIn(r) = r
    BY DEF ReplicaIn
  <2> QED BY <1>1, <1>3, <1>5, <2>1, <2>2 DEF RegistryInv, Owned
<1>8. Builders'
  <2> SUFFICES ASSUME NEW e \in GatewayCalls, replicaOf[e] \notin doubled'
               PROVE  /\ \A d \in GatewayCalls :
                           at'[e] \in BuildSteps /\ at'[d] \in BuildSteps /\ replicaOf[d] = replicaOf[e] => e = d
                      /\ at'[e] \in BuildSteps => entries'[replicaOf[e]] = NoCoordinator
                      /\ at'[e] = "using" => got[e] = entries'[replicaOf[e]]
    BY <1>1 DEF Builders
  <2>1. CASE replicaOf[e] = r
    BY <1>3, <2>1
  <2>2. CASE replicaOf[e] # r
    <3>1. replicaOf[e] \in Replicas /\ replicaOf[e] \notin doubled
      BY <1>1, <2>2 DEF RegistryType
    <3> QED BY <1>3, <1>5, <2>2, <3>1 DEF RegistryInv, Builders
  <2> QED BY <2>1, <2>2
<1>9. UpdatingAt(r)' = {} /\ \A s \in Replicas : s # r => UpdatingAt(s)' = UpdatingAt(s)
  BY <1>1, <1>3 DEF UpdatingAt
<1>10. OneUpdate'
  BY <1>1, <1>9 DEF RegistryInv, OneUpdate
<1>11. \A s \in Replicas : s # r /\ entries[s] # NoCoordinator => entries[s] \in Coordinators /\ entries[s] # r
  BY <1>1 DEF RegistryInv, Owned, ReplicaIn, RegistryType
<1>12. \A d \in GatewayCalls : d \in Coordinators /\ d # r
  BY <1>1 DEF Coordinators
<1>13. MapFollows'
  <2> SUFFICES ASSUME NEW s \in Replicas, s \notin doubled', s \notin stale', UpdatingAt(s)' = {}
               PROVE  /\ entries'[s] # NoCoordinator => settings'[entries'[s]] = dbSettings
                      /\ \A d \in GatewayCalls :
                           replicaOf[d] = s /\ at'[d] = "scheduling" => settings'[d] = dbSettings
    BY <1>1 DEF MapFollows
  <2>1. CASE s = r
    BY <1>3, <1>5, <2>1 DEF BuildSteps
  <2>2. CASE s # r
    <3>1. s \notin doubled \cup stale /\ UpdatingAt(s) = {}
      BY <1>1, <1>9, <2>2
    <3> QED BY <1>3, <1>5, <1>11, <1>12, <2>2, <3>1 DEF RegistryInv, MapFollows
  <2> QED BY <2>1, <2>2
<1>14. MapServes'
  <2> SUFFICES ASSUME NEW s \in Replicas, s \notin doubled'
               PROVE  /\ entries'[s] # NoCoordinator => CardsOf(s) \subseteq pending'[entries'[s]]
                      /\ \A d \in GatewayCalls :
                           replicaOf[d] = s /\ at'[d] \in {"seeding", "scheduling"} => CardsOf(s) \subseteq pending'[d]
    BY <1>1 DEF MapServes, CardsOf
  <2>1. CASE s = r
    BY <1>3, <1>5, <2>1 DEF BuildSteps, CardsOf
  <2>2. CASE s # r
    BY <1>1, <1>3, <1>5, <1>11, <1>12, <2>2 DEF RegistryInv, MapServes
  <2> QED BY <2>1, <2>2
<1> QED BY <1>6, <1>7, <1>8, <1>10, <1>13, <1>14 DEF RegistryInv

LEMMA RegistryStep == RegistryInv /\ [RegistryNext]_registryVars => RegistryInv'
<1> SUFFICES ASSUME RegistryInv, [RegistryNext]_registryVars PROVE RegistryInv'
  OBVIOUS
<1>1. ASSUME NEW c \in GatewayCalls, Get(c) \/ Load(c) \/ Seed(c) \/ Register(c) \/ BuildFails(c)
      PROVE  RegistryInv'
  BY <1>1, GetStep, FillStep, RegisterStep, BuildFailsStep
<1>2. ASSUME NEW c \in Messages, Arrive(c) \/ CreateApproval(c) PROVE RegistryInv'
  BY <1>2, ArriveStep, CreateApprovalStep
<1>3. ASSUME NEW c \in Saves, \/ Enable(c) \/ UpdateRow(c) \/ UpdateSettings(c) \/ SavePref(c)
                              \/ \E k \in SendTypes : Toggle(c, k)
      PROVE  RegistryInv'
  BY <1>3, ScreenStep, UpdateRowStep, UpdateSettingsStep
<1>4. CASE ReadPreferences \/ SetPreferences \/ UNCHANGED registryVars
  BY <1>4, ReadingStep
<1>5. ASSUME NEW r \in Replicas, RestartReplica(r) PROVE RegistryInv'
  BY <1>5, RestartStep
<1> QED BY <1>1, <1>2, <1>3, <1>4, <1>5 DEF RegistryNext

\* Between two calls each replica serves a tenant by the settings and by the approvals
\* it made that are in the database: over any number of replicas, calls, failures and
\* restarts, as long as no two calls built there at once, and, for the settings, no
\* change of the row has passed it by since its last save.
THEOREM ReplicasFollowDb == RegistrySpec => []ReplicaFollowsDb
<1>1. RegistryInv => ReplicaFollowsDb
  <2> SUFFICES ASSUME RegistryInv, Quiet PROVE ReplicaFollowsDb
    BY DEF ReplicaFollowsDb, SettingsFollowDb, ApprovalServed
  <2>1. \A r \in Replicas : UpdatingAt(r) = {}
    BY DEF Quiet, UpdatingAt, GatewayCalls, Over, BuildSteps
  <2>2. SettingsFollowDb
    BY <2>1 DEF SettingsFollowDb, RegistryInv, MapFollows
  <2>3. ApprovalServed
    BY DEF ApprovalServed, RegistryInv, MapServes
  <2> QED BY <2>2, <2>3 DEF ReplicaFollowsDb
<1>2. RegistryInv /\ [RegistryNext]_registryVars => RegistryInv'
  BY RegistryStep
<1> QED BY <1>1, <1>2, RegistryStart, PTL DEF RegistrySpec

(***************************************************************************)
(* The route of a tour. Along the partial routes the time that the first   *)
(* pass has reached is the one that the second pass recomputes, and it     *)
(* leaves each anchor after flexible stops in time.                        *)
(***************************************************************************)
RouteSpec == OptimizerInit /\ [][OptimizerNext]_routeVars

\* What Max returns for two times.
LEMMA MaxOfTwo ==
  ASSUME NEW a \in Int, NEW b \in Int
  PROVE  Max({a, b}) = IF a >= b THEN a ELSE b
<1>1. \E x \in {a, b} : \A y \in {a, b} : x >= y
  BY SMT
<1>2. Max({a, b}) \in {a, b} /\ \A y \in {a, b} : Max({a, b}) >= y
  BY <1>1 DEF Max
<1>3. QED
  BY <1>2

\* A set of stops has a least member.
LEMMA MinOfSet ==
  ASSUME NEW S \in SUBSET Nat, S # {}
  PROVE  Min(S) \in S
<1>1. \E x \in S : \A y \in S : x <= y
  BY LeastNatural
<1>2. QED
  BY <1>1 DEF Min

\* What the types of an input say.
LEMMA InputsAre ==
  ASSUME NEW in \in Inputs
  PROVE  /\ NStops \in Nat /\ Duration \in Nat /\ Tolerance \in Nat
         /\ \A r \in 0..NStops, i \in Stops : in.drive[r][i] \in Nat
         /\ \A i \in Stops : in.fixed[i] \in Int
         /\ in.geocoded \subseteq Stops /\ in.origin \in BOOLEAN
         /\ Fixed(in) \subseteq in.geocoded /\ Flexible(in) \subseteq in.geocoded
         /\ \A i \in Flexible(in) : in.fixed[i] = 0 /\ i \notin Fixed(in)
<1>1. /\ in.drive \in [0..NStops -> [Stops -> Drives]] /\ in.fixed \in [Stops -> Bookings \cup {0}]
      /\ in.geocoded \subseteq Stops /\ in.origin \in BOOLEAN
  BY DEF Inputs
<1>2. NStops \in Nat /\ Duration \in Nat /\ Tolerance \in Nat /\ Drives \subseteq Nat /\ Bookings \subseteq Int
  BY RouteAssumption
<1>3. \A r \in 0..NStops, i \in Stops : in.drive[r][i] \in Nat
  BY <1>1, <1>2
<1>4. ASSUME NEW i \in Stops PROVE in.fixed[i] \in Int
  <2>1. in.fixed[i] \in Bookings \/ in.fixed[i] = 0
    BY <1>1
  <2>2. 0 \in Int
    OBVIOUS
  <2>3. \A b \in Bookings : b \in Int
    BY <1>2
  <2>4. QED
    BY <2>1, <2>2, <2>3
<1>5. /\ Fixed(in) \subseteq in.geocoded /\ Flexible(in) \subseteq in.geocoded
      /\ \A i \in Flexible(in) : in.fixed[i] = 0 /\ i \notin Fixed(in)
  BY DEF Fixed, Flexible
<1>6. QED
  BY <1>1, <1>2, <1>3, <1>4, <1>5

\* The nearest of some stops is one of them.
LEMMA NearestIsOne ==
  ASSUME NEW in \in Inputs, NEW here \in 0..NStops, NEW S \in SUBSET Stops, S # {}
  PROVE  Nearest(in, here, S) \in S
<1> DEFINE M == {i \in S : \A j \in S : in.drive[here][i] <= in.drive[here][j]}
           V == {in.drive[here][i] : i \in S}
<1>1. V \subseteq Nat /\ V # {}
  BY InputsAre
<1>2. PICK v \in V : \A w \in V : v <= w
  <2> HIDE DEF V
  <2>1. QED
    BY <1>1, LeastNatural
<1>3. M # {}
  <2>1. PICK i \in S : v = in.drive[here][i]
    BY <1>2
  <2>2. \A j \in S : in.drive[here][i] <= in.drive[here][j]
    BY <1>2, <2>1
  <2>3. QED
    BY <2>2
<1>4. M \in SUBSET Nat /\ M \subseteq S
  BY DEF Stops
<1>5. Nearest(in, here, S) = Min(M)
  BY DEF Nearest
<1> HIDE DEF M
<1>6. QED
  BY <1>3, <1>4, <1>5, MinOfSet

\* The second pass along an order, and what it finds on time.
Timed(in, order, t) ==
  t[0] = 0 /\ \A n \in 1..Len(order) : t[n] = Scheduled(in, order, n, t[n - 1])
OnTime(in, order, t) ==
  \A n \in 2..Len(order) :
    order[n] \in Fixed(in) /\ order[n - 1] \in Flexible(in) =>
      t[n] <= in.fixed[order[n]] + Tolerance
LastOf(order) == IF Len(order) = 0 THEN 0 ELSE order[Len(order)]
LeavesAt(order, t) == IF Len(order) = 0 THEN 0 ELSE t[Len(order)] + Duration
\* The partial routes whose time is that of the second pass.
Partials(in) ==
  {p \in [order : Seq(in.geocoded), now : Nat, row : 0..NStops] :
     /\ p.row = LastOf(p.order)
     /\ \E t \in [0..Len(p.order) -> Nat] :
          Timed(in, p.order, t) /\ OnTime(in, p.order, t) /\ p.now = LeavesAt(p.order, t)}

\* A visit keeps the two passes together.
LEMMA VisitKeeps ==
  ASSUME NEW in \in Inputs, NEW p \in Partials(in), NEW i \in in.geocoded,
         p.row \in Flexible(in) /\ i \in Fixed(in) =>
           p.now + in.drive[p.row][i] <= in.fixed[i] + Tolerance
  PROVE  /\ Visit(in, p, i, in.fixed[i]) \in Partials(in)
         /\ Visit(in, p, i, in.fixed[i]).row = i
         /\ i \in Flexible(in) =>
              Visit(in, p, i, in.fixed[i]).now = p.now + in.drive[p.row][i] + Duration
<1> DEFINE q == Visit(in, p, i, in.fixed[i])
           len == Len(p.order)
           arrival == Max({p.now + in.drive[p.row][i], in.fixed[i]})
<1>1. /\ p.order \in Seq(in.geocoded) /\ p.now \in Nat /\ p.row \in 0..NStops
      /\ p.row = LastOf(p.order)
  BY DEF Partials
<1>2. PICK t \in [0..len -> Nat] :
        Timed(in, p.order, t) /\ OnTime(in, p.order, t) /\ p.now = LeavesAt(p.order, t)
  BY DEF Partials
<1>3. /\ len \in Nat /\ i \in Stops /\ i \in 0..NStops
      /\ in.drive[p.row][i] \in Nat /\ in.fixed[i] \in Int /\ Duration \in Nat
  BY <1>1, InputsAre, LenProperties DEF Stops
<1>4. /\ arrival \in Nat /\ arrival >= p.now + in.drive[p.row][i]
      /\ arrival = IF p.now + in.drive[p.row][i] >= in.fixed[i]
              THEN p.now + in.drive[p.row][i] ELSE in.fixed[i]
  <2>1. p.now + in.drive[p.row][i] \in Nat
    BY <1>1, <1>3
  <2>2. arrival = IF p.now + in.drive[p.row][i] >= in.fixed[i]
             THEN p.now + in.drive[p.row][i] ELSE in.fixed[i]
    BY <1>3, <2>1, MaxOfTwo
  <2>3. QED
    BY <1>3, <2>1, <2>2
<1>5. /\ q.order = Append(p.order, i) /\ q.now = arrival + Duration /\ q.row = i
      /\ q = [order |-> Append(p.order, i), now |-> arrival + Duration, row |-> i]
  BY DEF Visit
<1> HIDE DEF q, arrival
<1>6. /\ q.order \in Seq(in.geocoded) /\ Len(q.order) = len + 1
      /\ \A n \in 1..len : q.order[n] = p.order[n]
      /\ q.order[len + 1] = i
  <2>1. PICK s \in Seq(in.geocoded) : s = p.order
    BY <1>1
  <2>2. /\ Append(s, i) \in Seq(in.geocoded) /\ Len(Append(s, i)) = Len(s) + 1
        /\ \A n \in 1..Len(s) : Append(s, i)[n] = s[n]
        /\ Append(s, i)[Len(s) + 1] = i
    BY AppendProperties
  <2>3. q.order = Append(s, i) /\ len = Len(s)
    BY <1>5, <2>1
  <2>4. QED
    BY <2>1, <2>2, <2>3
<1> DEFINE u == [n \in 0..(len + 1) |-> IF n = len + 1 THEN arrival ELSE t[n]]
<1>7. u \in [0..(len + 1) -> Nat] /\ u[len + 1] = arrival /\ \A n \in 0..len : u[n] = t[n]
  BY <1>3, <1>4
<1> HIDE DEF u
<1>8. ASSUME NEW n \in 1..(len + 1) PROVE u[n] = Scheduled(in, q.order, n, u[n - 1])
  <2>1. CASE n \in 1..len
    <3>1. n - 1 \in 0..len /\ n \in 0..len /\ (n # 1 => n - 1 \in 1..len)
      BY <1>3, <2>1
    <3>2. t[n] = Scheduled(in, p.order, n, t[n - 1])
      BY <1>2, <2>1 DEF Timed
    <3>3. Scheduled(in, q.order, n, t[n - 1]) = Scheduled(in, p.order, n, t[n - 1])
      BY <1>6, <2>1, <3>1 DEF Scheduled
    <3>4. QED
      BY <1>7, <3>1, <3>2, <3>3
  <2>2. CASE n = len + 1
    <3>1. n - 1 = len /\ len \in 0..len /\ u[n - 1] = t[len]
      <4>1. n - 1 = len /\ len \in 0..len
        BY <1>3, <2>2
      <4>2. QED
        BY <1>7, <4>1
    <3>2. CASE len = 0
      <4>1. p.row = 0 /\ p.now = 0 /\ n = 1
        BY <1>1, <1>2, <2>2, <3>2 DEF LastOf, LeavesAt
      <4>2. Scheduled(in, q.order, n, u[n - 1]) = Max({0 + in.drive[0][i], in.fixed[i]})
        BY <1>6, <2>2, <3>2, <4>1 DEF Scheduled
      <4>3. QED
        BY <1>7, <2>2, <4>1, <4>2 DEF arrival
    <3>3. CASE len # 0
      <4>1. p.row = p.order[len] /\ p.now = t[len] + Duration /\ n # 1 /\ len \in 1..len
        BY <1>1, <1>2, <1>3, <2>2, <3>3 DEF LastOf, LeavesAt
      <4>2. q.order[n - 1] = p.row
        BY <1>6, <3>1, <4>1
      <4>3. Scheduled(in, q.order, n, u[n - 1]) = Max({t[len] + Duration + in.drive[p.row][i], in.fixed[i]})
        BY <1>6, <2>2, <3>1, <4>1, <4>2 DEF Scheduled
      <4>4. QED
        BY <1>7, <2>2, <4>1, <4>3 DEF arrival
    <3>4. QED
      BY <3>2, <3>3
  <2>3. QED
    BY <1>3, <2>1, <2>2
<1>9. Timed(in, q.order, u)
  <2>1. u[0] = 0
    BY <1>2, <1>3, <1>7 DEF Timed
  <2>2. QED
    BY <1>6, <1>8, <2>1 DEF Timed
<1>10. ASSUME NEW n \in 2..(len + 1),
              q.order[n] \in Fixed(in), q.order[n - 1] \in Flexible(in)
       PROVE  u[n] <= in.fixed[q.order[n]] + Tolerance
  <2>1. CASE n \in 2..len
    <3>1. n \in 1..len /\ n - 1 \in 1..len /\ n \in 0..len
      BY <1>3, <2>1
    <3>2. q.order[n] = p.order[n] /\ q.order[n - 1] = p.order[n - 1] /\ u[n] = t[n]
      BY <1>6, <1>7, <3>1
    <3>3. QED
      BY <1>2, <1>10, <2>1, <3>2 DEF OnTime
  <2>2. CASE n = len + 1
    <3>1. len # 0 /\ n - 1 = len /\ len \in 1..len
      BY <1>3, <1>10, <2>2
    <3>2. q.order[n] = i /\ q.order[n - 1] = p.row /\ u[n] = arrival
      BY <1>1, <1>6, <1>7, <2>2, <3>1 DEF LastOf
    <3>3. p.now + in.drive[p.row][i] <= in.fixed[i] + Tolerance
      BY <1>10, <3>2
    <3>4. QED
      BY <1>1, <1>3, <1>4, <3>2, <3>3, InputsAre
  <2>3. QED
    BY <1>3, <2>1, <2>2
<1>11. OnTime(in, q.order, u)
  BY <1>6, <1>10 DEF OnTime
<1>12. q.now = LeavesAt(q.order, u) /\ q.row = LastOf(q.order)
  BY <1>3, <1>5, <1>6, <1>7 DEF LeavesAt, LastOf
<1>13. q \in Partials(in)
  <2>1. q \in [order : Seq(in.geocoded), now : Nat, row : 0..NStops]
    <3>1. arrival + Duration \in Nat
      BY <1>3, <1>4
    <3>2. QED
      BY <1>3, <1>5, <1>6, <3>1
  <2>2. QED
    BY <1>6, <1>7, <1>9, <1>11, <1>12, <2>1 DEF Partials
<1>14. ASSUME i \in Flexible(in) PROVE q.now = p.now + in.drive[p.row][i] + Duration
  <2>1. in.fixed[i] = 0
    BY <1>14, InputsAre
  <2>2. QED
    BY <1>1, <1>3, <1>4, <1>5, <2>1
<1>15. QED
  BY <1>5, <1>13, <1>14 DEF q

\* The tour before its first stop.
LEMMA PartialIs ==
  ASSUME NEW in \in Inputs
  PROVE  Partial \in Partials(in) /\ Partial.row \notin Flexible(in)
<1>1. NStops \in Nat /\ Flexible(in) \subseteq Stops
  BY InputsAre
<1>2. <<>> \in Seq(in.geocoded) /\ Len(<<>>) = 0
  BY EmptySeq
<1>3. Partial.order = <<>> /\ Partial.now = 0 /\ Partial.row = 0
  BY DEF Partial
<1>4. Partial \in [order : Seq(in.geocoded), now : Nat, row : 0..NStops]
  BY <1>1, <1>2 DEF Partial
<1> DEFINE t == [n \in 0..0 |-> 0]
<1>5. t \in [0..0 -> Nat] /\ t[0] = 0
  OBVIOUS
<1> HIDE DEF t
<1>6. /\ Timed(in, Partial.order, t) /\ OnTime(in, Partial.order, t)
      /\ Partial.now = LeavesAt(Partial.order, t) /\ Partial.row = LastOf(Partial.order)
  BY <1>2, <1>3, <1>5 DEF Timed, OnTime, LeavesAt, LastOf
<1>7. Partial \in Partials(in)
  BY <1>2, <1>3, <1>4, <1>5, <1>6 DEF Partials
<1>8. 0 \notin Stops
  BY <1>1 DEF Stops
<1>9. QED
  BY <1>1, <1>3, <1>7, <1>8

\* While a gap is filled its anchor can still be reached in time from a flexible stop.
Gap(in, anchor) ==
  {p \in Partials(in) : p.row \in Flexible(in) =>
                          p.now + in.drive[p.row][anchor] <= in.fixed[anchor] + Tolerance}

\* A pass of the insertion loop still leaves the anchor in time.
LEMMA InsertedKeeps ==
  ASSUME NEW in \in Inputs, NEW anchor \in Fixed(in), NEW p \in Gap(in, anchor)
  PROVE  Inserted(in, p, anchor) \in Gap(in, anchor)
<1>1. p \in Partials(in) /\ p.now \in Nat /\ p.row \in 0..NStops
  BY DEF Gap, Partials
<1>2. CASE Fits(in, p, anchor) = {}
  BY <1>2 DEF Inserted
<1>3. CASE Fits(in, p, anchor) # {}
  <2> DEFINE i == Nearest(in, p.row, Fits(in, p, anchor))
             q == Visit(in, p, i, 0)
  <2>1. Inserted(in, p, anchor) = q
    BY <1>3 DEF Inserted
  <2>2. Fits(in, p, anchor) \subseteq Flexible(in)
    BY DEF Fits, Left
  <2>3. Fits(in, p, anchor) \subseteq Stops
    BY <2>2, InputsAre
  <2>4. i \in Fits(in, p, anchor)
    BY <1>1, <1>3, <2>3, NearestIsOne
  <2> HIDE DEF i
  <2>5. i \in Flexible(in) /\ i \in in.geocoded /\ in.fixed[i] = 0 /\ i \notin Fixed(in)
    BY <2>2, <2>4, InputsAre
  <2>6. q \in Partials(in) /\ q.row = i /\ q.now = p.now + in.drive[p.row][i] + Duration
    <3>1. q = Visit(in, p, i, in.fixed[i])
      BY <2>5
    <3> HIDE DEF q
    <3>2. QED
      BY <1>1, <2>5, <3>1, VisitKeeps
  <2>7. p.now + in.drive[p.row][i] + Duration + in.drive[i][anchor]
          <= in.fixed[anchor] + Tolerance
    BY <2>4 DEF Fits
  <2> HIDE DEF q
  <2>8. QED
    BY <2>1, <2>6, <2>7 DEF Gap
<1>4. QED
  BY <1>2, <1>3

\* So do all of them.
LEMMA GapIsFilled ==
  ASSUME NEW in \in Inputs, NEW anchor \in Fixed(in), NEW p \in Gap(in, anchor)
  PROVE  FillGap(in, p, anchor) \in Gap(in, anchor)
<1> DEFINE D == Gap(in, anchor)
           Passes(h) == [n \in 0..NStops |-> IF n = 0 THEN p ELSE Inserted(in, h[n - 1], anchor)]
           gap == CHOOSE h : h = Passes(h)
           step == [k \in 1..NStops |-> [q \in D |-> Inserted(in, q, anchor)]]
<1>1. NStops \in Nat
  BY InputsAre
<1>2. step \in [1..NStops -> [D -> D]]
  BY InsertedKeeps
<1>3. \A k \in 1..NStops, q \in D : step[k][q] = Inserted(in, q, anchor)
  OBVIOUS
<1> HIDE DEF D, step
<1>4. PICK h \in [0..NStops -> D] : h[0] = p /\ \A k \in 1..NStops : h[k] = step[k][h[k - 1]]
  BY <1>1, <1>2, Iterates DEF D
<1>5. h = Passes(h)
  <2>1. \A k \in 1..NStops : h[k] = Inserted(in, h[k - 1], anchor)
    <3> SUFFICES ASSUME NEW k \in 1..NStops PROVE h[k] = Inserted(in, h[k - 1], anchor)
      OBVIOUS
    <3>1. k - 1 \in 0..NStops
      BY <1>1
    <3>2. QED
      BY <1>3, <1>4, <3>1
  <2>2. QED
    BY <1>1, <1>4, <2>1
<1> HIDE DEF Passes
<1>6. gap = Passes(gap)
  BY <1>5
<1>7. FillGap(in, p, anchor) = gap[NStops]
  BY DEF FillGap, Passes
<1> HIDE DEF gap
<1>8. gap[0] = p /\ \A k \in 1..NStops : gap[k] = Inserted(in, gap[k - 1], anchor)
  BY <1>1, <1>6 DEF Passes
<1>9. \A k \in 0..NStops : k \in {n \in 0..NStops : gap[n] \in D}
  <2> DEFINE T == {n \in 0..NStops : gap[n] \in D}
  <2>1. 0 \in T
    BY <1>1, <1>8 DEF D
  <2>2. \A k \in 1..NStops : k - 1 \in T => k \in T
    BY <1>1, <1>8, InsertedKeeps DEF D
  <2> HIDE DEF T
  <2>3. \A k \in 0..NStops : k \in T
    BY <1>1, <2>1, <2>2, InductionUpTo
  <2>4. QED
    BY <2>3 DEF T
<1>10. QED
  BY <1>1, <1>7, <1>9 DEF D

\* An anchor follows the stops that its gap has room for.
LEMMA ReachedKeeps ==
  ASSUME NEW in \in Inputs, NEW anchor \in Fixed(in), NEW p \in Partials(in),
         p.row \notin Flexible(in)
  PROVE  Reached(in, p, anchor) \in Partials(in) /\ Reached(in, p, anchor).row \notin Flexible(in)
<1> DEFINE q == FillGap(in, p, anchor)
<1>1. p \in Gap(in, anchor)
  BY DEF Gap
<1>2. q \in Gap(in, anchor)
  BY <1>1, GapIsFilled
<1>3. Reached(in, p, anchor) = Visit(in, q, anchor, in.fixed[anchor])
  BY DEF Reached
<1> HIDE DEF q
<1>4. /\ q \in Partials(in) /\ anchor \in in.geocoded
      /\ q.row \in Flexible(in) => q.now + in.drive[q.row][anchor] <= in.fixed[anchor] + Tolerance
  BY <1>2, InputsAre DEF Gap
<1>5. Visit(in, q, anchor, in.fixed[anchor]) \in Partials(in) /\ Visit(in, q, anchor, in.fixed[anchor]).row = anchor
  BY <1>4, VisitKeeps
<1>6. anchor \notin Flexible(in)
  BY InputsAre
<1>7. QED
  BY <1>3, <1>5, <1>6

\* The anchors, ranked, are the booked stops.
LEMMA ByTimeNames ==
  ASSUME NEW in \in Inputs
  PROVE  /\ Cardinality(Fixed(in)) \in Nat
         /\ ByTime(in) \in [1..Cardinality(Fixed(in)) -> Fixed(in)]
<1>1. Fixed(in) \subseteq Stops /\ NStops \in Nat /\ \A i \in Stops : in.fixed[i] \in Int
  BY InputsAre
<1>2. \A i \in Stops : i \in Nat
  BY DEF Stops
<1>3. IsFiniteSet(Fixed(in))
  <2>1. IsFiniteSet(Stops)
    BY <1>1, FS_Interval DEF Stops
  <2>2. QED
    BY <1>1, <2>1, FS_Subset
<1>4. \A i, j \in Stops : <<i, j>> \in Booked(in) <=>
        in.fixed[i] < in.fixed[j] \/ (in.fixed[i] = in.fixed[j] /\ i < j)
  BY DEF Booked
<1>5. StrictOrder(Fixed(in), Booked(in))
  <2>1. \A a \in Fixed(in) : <<a, a>> \notin Booked(in)
    BY <1>1, <1>2, <1>4
  <2>2. \A a, b, c \in Fixed(in) :
          <<a, b>> \in Booked(in) /\ <<b, c>> \in Booked(in) => <<a, c>> \in Booked(in)
    BY <1>1, <1>2, <1>4
  <2>3. \A a, b \in Fixed(in) : a # b => <<a, b>> \in Booked(in) \/ <<b, a>> \in Booked(in)
    BY <1>1, <1>2, <1>4
  <2>4. QED
    BY <2>1, <2>2, <2>3 DEF StrictOrder
<1>6. QED
  BY <1>3, <1>5, FS_CardinalityType, RankedEnumerates DEF ByTime

\* After the last anchor the two passes still agree on the time.
LEMMA AnchorsAreReached ==
  ASSUME NEW in \in Inputs
  PROVE  Anchored(in) \in Partials(in)
<1> DEFINE m == Cardinality(Fixed(in))
           D == {p \in Partials(in) : p.row \notin Flexible(in)}
           Passes(h) == [n \in 0..m |-> IF n = 0 THEN Partial ELSE Reached(in, h[n - 1], ByTime(in)[n])]
           after == CHOOSE h : h = Passes(h)
           step == [k \in 1..m |-> [q \in D |-> Reached(in, q, ByTime(in)[k])]]
<1>1. m \in Nat /\ \A k \in 1..m : ByTime(in)[k] \in Fixed(in)
  BY ByTimeNames
<1>2. Partial \in D
  BY PartialIs
<1> HIDE DEF m
<1>3. \A k \in 1..m, q \in D : Reached(in, q, ByTime(in)[k]) \in D
  BY <1>1, ReachedKeeps
<1>4. step \in [1..m -> [D -> D]]
  BY <1>3
<1>5. \A k \in 1..m, q \in D : step[k][q] = Reached(in, q, ByTime(in)[k])
  OBVIOUS
<1> HIDE DEF D, step
<1>6. PICK h \in [0..m -> D] : h[0] = Partial /\ \A k \in 1..m : h[k] = step[k][h[k - 1]]
  <2>1. PICK p \in D : p = Partial
    BY <1>2
  <2>2. \E h \in [0..m -> D] : h[0] = p /\ \A k \in 1..m : h[k] = step[k][h[k - 1]]
    <3>1. m \in Nat
      BY <1>1
    <3>2. QED
      BY <1>4, <3>1, Iterates
  <2>3. QED
    BY <2>1, <2>2
<1>7. h = Passes(h)
  <2>1. \A k \in 1..m : h[k] = Reached(in, h[k - 1], ByTime(in)[k])
    <3> SUFFICES ASSUME NEW k \in 1..m PROVE h[k] = Reached(in, h[k - 1], ByTime(in)[k])
      OBVIOUS
    <3>1. k - 1 \in 0..m
      BY <1>1
    <3>2. QED
      BY <1>5, <1>6, <3>1
  <2>2. QED
    BY <1>1, <1>6, <2>1
<1> HIDE DEF Passes
<1>8. after = Passes(after)
  BY <1>7
<1>9. Anchored(in) = after[m]
  BY DEF Anchored, Passes, m
<1> HIDE DEF after
<1>10. after[0] = Partial /\ \A k \in 1..m : after[k] = Reached(in, after[k - 1], ByTime(in)[k])
  BY <1>1, <1>8 DEF Passes
<1> DEFINE T == {n \in 0..m : after[n] \in D}
<1>11. 0 \in T
  BY <1>1, <1>2, <1>10
<1>12. \A k \in 1..m : k - 1 \in T => k \in T
  BY <1>1, <1>3, <1>10
<1> HIDE DEF T
<1>13. \A k \in 0..m : k \in T
  BY <1>1, <1>11, <1>12, InductionUpTo
<1>14. m \in T
  BY <1>1, <1>13
<1>15. QED
  BY <1>9, <1>14 DEF T, D

\* They do after each of the remaining stops.
LEMMA ProceededKeeps ==
  ASSUME NEW in \in Inputs, NEW p \in Partials(in)
  PROVE  Proceeded(in, p) \in Partials(in)
<1> DEFINE left == Left(Flexible(in), p)
           i == Nearest(in, p.row, left)
<1>1. p.row \in 0..NStops
  BY DEF Partials
<1>2. CASE left = {}
  BY <1>2 DEF Proceeded
<1>3. CASE left # {}
  <2>1. left \subseteq Flexible(in)
    BY DEF Left
  <2>2. left \subseteq Stops
    BY <2>1, InputsAre
  <2>3. Proceeded(in, p) = Visit(in, p, i, 0)
    BY <1>3 DEF Proceeded
  <2> HIDE DEF left
  <2>4. i \in left
    BY <1>1, <1>3, <2>2, NearestIsOne
  <2> HIDE DEF i
  <2>5. i \in in.geocoded /\ in.fixed[i] = 0 /\ i \notin Fixed(in)
    BY <2>1, <2>4, InputsAre
  <2>6. Visit(in, p, i, in.fixed[i]) \in Partials(in)
    BY <2>5, VisitKeeps
  <2>7. QED
    BY <2>3, <2>5, <2>6
<1>4. QED
  BY <1>2, <1>3

\* They do after all of them.
LEMMA RestIsPartial ==
  ASSUME NEW in \in Inputs, NEW p \in Partials(in)
  PROVE  Rest(in, p) \in Partials(in)
<1> DEFINE D == Partials(in)
           Passes(h) == [n \in 0..NStops |-> IF n = 0 THEN p ELSE Proceeded(in, h[n - 1])]
           rest == CHOOSE h : h = Passes(h)
           step == [k \in 1..NStops |-> [q \in D |-> Proceeded(in, q)]]
<1>1. NStops \in Nat
  BY InputsAre
<1>2. step \in [1..NStops -> [D -> D]]
  BY ProceededKeeps
<1>3. \A k \in 1..NStops, q \in D : step[k][q] = Proceeded(in, q)
  OBVIOUS
<1> HIDE DEF D, step
<1>4. PICK h \in [0..NStops -> D] : h[0] = p /\ \A k \in 1..NStops : h[k] = step[k][h[k - 1]]
  BY <1>1, <1>2, Iterates DEF D
<1>5. h = Passes(h)
  <2>1. \A k \in 1..NStops : h[k] = Proceeded(in, h[k - 1])
    <3> SUFFICES ASSUME NEW k \in 1..NStops PROVE h[k] = Proceeded(in, h[k - 1])
      OBVIOUS
    <3>1. k - 1 \in 0..NStops
      BY <1>1
    <3>2. QED
      BY <1>3, <1>4, <3>1
  <2>2. QED
    BY <1>1, <1>4, <2>1
<1> HIDE DEF Passes
<1>6. rest = Passes(rest)
  BY <1>5
<1>7. Rest(in, p) = rest[NStops]
  BY DEF Rest, Passes
<1> HIDE DEF rest
<1>8. rest[0] = p /\ \A k \in 1..NStops : rest[k] = Proceeded(in, rest[k - 1])
  BY <1>1, <1>6 DEF Passes
<1> DEFINE T == {n \in 0..NStops : rest[n] \in D}
<1>9. 0 \in T
  BY <1>1, <1>8 DEF D
<1>10. \A k \in 1..NStops : k - 1 \in T => k \in T
  BY <1>1, <1>8, ProceededKeeps DEF D
<1> HIDE DEF T
<1>11. \A k \in 0..NStops : k \in T
  BY <1>1, <1>9, <1>10, InductionUpTo
<1>12. QED
  BY <1>1, <1>7, <1>11 DEF T, D

\* The second pass meets the times the first reckoned with.
LEMMA OrderedStopsAre ==
  ASSUME NEW in \in Inputs
  PROVE  \E order \in Seq(in.geocoded) : \E t \in [0..Len(order) -> Nat] :
           /\ OnTime(in, order, t)
           /\ BuildOrderedStops(in, BuildOrderedIndices(in))
                = [n \in 1..Len(order) |-> [stop |-> order[n], at |-> t[n]]]
<1>1. Rest(in, Anchored(in)) \in Partials(in)
  BY AnchorsAreReached, RestIsPartial
<1>2. PICK order \in Seq(in.geocoded) : order = BuildOrderedIndices(in)
  BY <1>1 DEF BuildOrderedIndices, Partials
<1>3. PICK t \in [0..Len(order) -> Nat] : Timed(in, order, t) /\ OnTime(in, order, t)
  BY <1>1, <1>2 DEF BuildOrderedIndices, Partials
<1>4. Len(order) \in Nat
  BY <1>2, LenProperties
<1> DEFINE Passes(h) == [n \in 0..Len(order) |-> IF n = 0 THEN 0 ELSE Scheduled(in, order, n, h[n - 1])]
           times == CHOOSE h : h = Passes(h)
<1>5. t = Passes(t)
  BY <1>3, <1>4 DEF Timed
<1>6. BuildOrderedStops(in, order) = [n \in 1..Len(order) |-> [stop |-> order[n], at |-> times[n]]]
  BY DEF BuildOrderedStops
<1> HIDE DEF Passes
<1>7. times = Passes(times)
  BY <1>5
<1> HIDE DEF times
<1>8. times[0] = 0 /\ \A n \in 1..Len(order) : times[n] = Scheduled(in, order, n, times[n - 1])
  BY <1>4, <1>7 DEF Passes
<1> DEFINE T == {n \in 0..Len(order) : times[n] = t[n]}
<1>9. 0 \in T
  BY <1>3, <1>4, <1>8 DEF Timed
<1>10. \A n \in 1..Len(order) : n - 1 \in T => n \in T
  BY <1>3, <1>4, <1>8 DEF Timed
<1> HIDE DEF T
<1>11. \A n \in 0..Len(order) : n \in T
  BY <1>4, <1>9, <1>10, InductionUpTo
<1>12. \A n \in 1..Len(order) : times[n] = t[n]
  BY <1>4, <1>11 DEF T
<1>13. BuildOrderedStops(in, order) = [n \in 1..Len(order) |-> [stop |-> order[n], at |-> t[n]]]
  BY <1>6, <1>12
<1>14. QED
  BY <1>2, <1>3, <1>13

\* What follows has not been geocoded.
LEMMA TailIsNotGeocoded ==
  ASSUME NEW in \in Inputs
  PROVE  /\ Cardinality(Stops \ in.geocoded) \in Nat
         /\ \A k \in 1..Cardinality(Stops \ in.geocoded) :
              Ranked(Stops \ in.geocoded, Earlier(NStops))[k] \notin in.geocoded
<1>1. NStops \in Nat /\ (Stops \ in.geocoded) \in SUBSET (1..NStops)
  BY InputsAre DEF Stops
<1>2. IsFiniteSet(Stops \ in.geocoded)
  <2>1. IsFiniteSet(1..NStops)
    BY <1>1, FS_Interval
  <2>2. QED
    BY <1>1, <2>1, FS_Subset
<1>3. StrictOrder(Stops \ in.geocoded, Earlier(NStops))
  BY <1>1, EarlierIsStrict
<1>4. Ranked(Stops \ in.geocoded, Earlier(NStops))
        \in [1..Cardinality(Stops \ in.geocoded) -> Stops \ in.geocoded]
  BY <1>2, <1>3, RankedEnumerates
<1>5. Cardinality(Stops \ in.geocoded) \in Nat
  BY <1>2, FS_CardinalityType
<1>6. QED
  BY <1>4, <1>5

\* Of a computed route no anchor is late because of the flexible stop before it.
LEMMA RouteIsOnTime ==
  ASSUME NEW in \in Inputs, in.origin,
         NEW n \in DOMAIN OptimizeRoute(in), n > 1,
         OptimizeRoute(in)[n].stop \in Fixed(in),
         OptimizeRoute(in)[n - 1].stop \in Flexible(in)
  PROVE  OptimizeRoute(in)[n].at <= in.fixed[OptimizeRoute(in)[n].stop] + Tolerance
<1> DEFINE front == BuildOrderedStops(in, BuildOrderedIndices(in))
           r == OptimizeRoute(in)
           others == Ranked(Stops \ in.geocoded, Earlier(NStops))
           m == Cardinality(Stops \ in.geocoded)
           leave == front[Len(front)].at + Duration
           tail == [k \in 1..m |-> [stop |-> others[k], at |-> leave + (k - 1) * Duration]]
<1>1. in.geocoded # {} /\ Fixed(in) \subseteq in.geocoded /\ Flexible(in) \subseteq in.geocoded
  BY InputsAre
<1>2. r = front \o tail
  BY <1>1 DEF OptimizeRoute, Appended
<1>3. PICK order \in Seq(in.geocoded) : \E t \in [0..Len(order) -> Nat] :
        OnTime(in, order, t) /\ front = [k \in 1..Len(order) |-> [stop |-> order[k], at |-> t[k]]]
  BY OrderedStopsAre
<1>4. PICK t \in [0..Len(order) -> Nat] :
        OnTime(in, order, t) /\ front = [k \in 1..Len(order) |-> [stop |-> order[k], at |-> t[k]]]
  BY <1>3
<1>5. m \in Nat /\ \A k \in 1..m : others[k] \notin in.geocoded
  BY TailIsNotGeocoded
<1>6. Len(order) \in Nat
  BY <1>4, LenProperties
<1> HIDE DEF front, others, m, leave, r
<1> DEFINE early(k) == [stop |-> order[k], at |-> t[k]]
           behind(k) == [stop |-> others[k], at |-> leave + (k - 1) * Duration]
           E == {early(k) : k \in 1..Len(order)} \cup {behind(k) : k \in 1..m}
<1>7. front \in Seq(E) /\ Len(front) = Len(order)
  <2>1. \A k \in 1..Len(order) : early(k) \in E
    OBVIOUS
  <2>2. front = [k \in 1..Len(order) |-> early(k)]
    BY <1>4
  <2> HIDE DEF early, E
  <2>3. QED
    BY <1>6, <2>1, <2>2, IsASeq
<1>8. tail \in Seq(E) /\ Len(tail) = m
  <2>1. \A k \in 1..m : behind(k) \in E
    OBVIOUS
  <2>2. tail = [k \in 1..m |-> behind(k)]
    OBVIOUS
  <2> HIDE DEF behind, E, tail
  <2>3. QED
    BY <1>5, <2>1, <2>2, IsASeq
<1>9. \A k \in 1..m : tail[k].stop \notin in.geocoded
  BY <1>5
<1> HIDE DEF tail, E
<1>10. /\ DOMAIN r = 1..(Len(order) + m)
       /\ \A k \in 1..Len(order) : r[k] = front[k]
       /\ \A k \in (Len(order) + 1)..(Len(order) + m) : r[k] = tail[k - Len(order)]
  <2>1. /\ r \in Seq(E) /\ Len(r) = Len(order) + m
        /\ \A k \in 1..(Len(order) + m) :
             r[k] = IF k <= Len(order) THEN front[k] ELSE tail[k - Len(order)]
    BY <1>2, <1>7, <1>8, ConcatProperties
  <2>2. DOMAIN r = 1..(Len(order) + m)
    BY <2>1, LenProperties
  <2>3. QED
    BY <1>5, <1>6, <2>1, <2>2
<1>11. n \in 1..(Len(order) + m) /\ n > 1 /\ r[n].stop \in Fixed(in) /\ r[n - 1].stop \in Flexible(in)
  BY <1>10 DEF r
<1>12. CASE n \in 2..Len(order)
  <2>1. n \in 1..Len(order) /\ n - 1 \in 1..Len(order)
    BY <1>6, <1>12
  <2>2. r[n].stop = order[n] /\ r[n].at = t[n] /\ r[n - 1].stop = order[n - 1]
    BY <1>4, <1>10, <2>1
  <2>3. QED
    BY <1>4, <1>11, <1>12, <2>2 DEF OnTime, r
<1>13. CASE n \in (Len(order) + 1)..(Len(order) + m)
  <2>1. n - Len(order) \in 1..m
    BY <1>5, <1>6, <1>13
  <2>2. r[n].stop \notin in.geocoded
    BY <1>9, <1>10, <1>13, <2>1
  <2>3. QED
    BY <1>1, <1>11, <2>2
<1>14. QED
  BY <1>5, <1>6, <1>11, <1>12, <1>13

\* For any number of stops, any drive times and bookings: a flexible stop put before an
\* anchor never makes it late by more than the tolerance.
THEOREM AnchorsAreOnTime == RouteSpec => []FlexibleNeverDelayAnchors
<1> DEFINE Computed == input \in Inputs /\ (route = <<>> \/ route = OptimizeRoute(input))
<1>1. OptimizerInit => Computed
  BY DEF OptimizerInit
<1>2. Computed /\ [OptimizerNext]_routeVars => Computed'
  BY DEF OptimizerNext, routeVars
<1>3. Computed => FlexibleNeverDelayAnchors
  <2> SUFFICES ASSUME Computed, NEW n \in DOMAIN route, n > 1, input.origin,
                      route[n].stop \in Fixed(input), route[n - 1].stop \in Flexible(input)
               PROVE  route[n].at <= input.fixed[route[n].stop] + Tolerance
    BY DEF FlexibleNeverDelayAnchors
  <2>1. CASE route = <<>>
    BY <2>1
  <2>2. CASE route = OptimizeRoute(input)
    <3>1. PICK in \in Inputs : in = input
      OBVIOUS
    <3>2. QED
      BY <2>2, <3>1, RouteIsOnTime
  <2>3. QED
    BY <2>1, <2>2
<1> HIDE DEF Computed
<1>4. QED
  BY <1>1, <1>2, <1>3, PTL DEF RouteSpec
===============================================================================
