---------------------------- MODULE Integrations ----------------------------
(***************************************************************************)
(* BaseIntegration.authenticatedRequest as GmailIntegration uses it: the   *)
(* sliding window of the rate limiter, the token it carries, the refresh   *)
(* after a 401, the wait after a 429 and the second try after a 5xx.  One  *)
(* request is one call of it, such as the health check that the list of    *)
(* the integrations makes (getStatus stops waiting for it after 5 s).      *)
(*                                                                         *)
(* Gmail and its token endpoint are external: an answer may be any.        *)
(***************************************************************************)
EXTENDS Naturals, FiniteSets

CONSTANTS Posts,         \* calls of authenticatedRequest
          Limit,         \* rateLimitPerMinute
          MaxAnswers     \* bound on refusals that are no success

ASSUME IntegrationsAssumption == Limit \in Nat /\ MaxAnswers \in Nat

VARIABLES post,          \* [Posts -> the step a call is at]
          carries,       \* [Posts -> the token it carries]
          fetches,       \* [Posts -> how often it was sent]
          counts,       \* [Posts -> how often the window counted it]
          token,         \* the access token of the vault: "fresh", "stale" or "none"
          grant,         \* the refresh token of the vault: "good", "refused" or "none"
          window,        \* calls counted in the last minute: <<post, n>>
          refusals
requestVars == <<post, carries, fetches, counts, token, grant, window, refusals>>

RequestsInit ==
  /\ post = [p \in Posts |-> "idle"] /\ carries = [p \in Posts |-> "none"]
  /\ fetches = [p \in Posts |-> 0] /\ counts = [p \in Posts |-> 0]
  /\ token \in {"fresh", "stale", "none"} /\ grant \in {"good", "refused", "none"}
  /\ window = {} /\ refusals = 0

PostStep(p, a, b) == post[p] = a /\ post' = [post EXCEPT ![p] = b]
NoSuccess == refusals < MaxAnswers /\ refusals' = refusals + 1
KeepVault == UNCHANGED <<token, grant>>
KeepCall == UNCHANGED <<carries, fetches, counts>>

---------------------------------------------------------------------------
AuthenticatedRequest(p) ==
  /\ PostStep(p, "idle", "checking") /\ KeepCall
  /\ KeepVault /\ UNCHANGED <<window, refusals>>

\* checkLimit counts the call when it lets it through; the script runs alone.
Allowed(p) == Cardinality(window) < Limit
CheckLimit(p) ==
  /\ \/ /\ Allowed(p) /\ PostStep(p, "checking", "authorizing")
        /\ counts' = [counts EXCEPT ![p] = @ + 1]
        /\ window' = window \cup {<<p, counts[p]>>}
     \/ /\ ~Allowed(p) /\ PostStep(p, "checking", "limited")
        /\ UNCHANGED <<counts, window>>
  /\ KeepVault /\ UNCHANGED <<carries, fetches, refusals>>

\* A call leaves the window a minute after it was counted.
Prune ==
  /\ window # {} /\ \E w \in window : window' = window \ {w}
  /\ KeepVault /\ KeepCall /\ UNCHANGED <<post, refusals>>

\* buildAuthHeaders, before the first try and after a refresh.
BuildAuthHeaders(p) ==
  /\ carries' = [carries EXCEPT ![p] = token]
  /\ \/ token # "none" /\ PostStep(p, "authorizing", "trying")
     \/ token # "none" /\ PostStep(p, "reauthorizing", "retrying")
     \/ token = "none" /\ \E s \in {"authorizing", "reauthorizing"} : PostStep(p, s, "failed")
  /\ KeepVault /\ UNCHANGED <<fetches, counts, window, refusals>>

\* fetch, and what comes back, by the token it carried.
Fetched(p, b) == post' = [post EXCEPT ![p] = b] /\ fetches' = [fetches EXCEPT ![p] = @ + 1]
Refuse(p) == carries[p] = "stale" /\ Fetched(p, "unauthorized") /\ UNCHANGED refusals   \* a 401
Accept(p) == carries[p] = "fresh" /\ Fetched(p, "answered") /\ UNCHANGED refusals

Try(p) ==
  /\ post[p] = "trying"
  /\ \/ Refuse(p) \/ Accept(p)
     \/ NoSuccess /\ Fetched(p, "throttled")   \* a 429
     \/ NoSuccess /\ Fetched(p, "waiting")            \* a 5xx
     \/ NoSuccess /\ Fetched(p, "failed")             \* the network, another status
  /\ KeepVault /\ UNCHANGED <<carries, counts, window>>

\* The second try, whatever comes of it the last; one that comes back badly fails.
LastTryAgain(p) ==   \* mutant: a 5xx is waited for again
  /\ post[p] = "retrying"
  /\ Accept(p) \/ (NoSuccess /\ Fetched(p, "waiting"))
  /\ KeepVault /\ UNCHANGED <<carries, counts, window>>
LastTry(p) ==
  /\ post[p] = "retrying"
  /\ \/ Accept(p)
     \/ carries[p] = "stale" /\ Fetched(p, "failed") /\ UNCHANGED refusals
     \/ NoSuccess /\ Fetched(p, "failed")
  /\ KeepVault /\ UNCHANGED <<carries, counts, window>>

\* After two seconds the same request, with the token of the first; after a 429
\* and its Retry-After the whole call, the check included.
RetryServerError(p) ==
  /\ PostStep(p, "waiting", "retrying") /\ KeepCall
  /\ KeepVault /\ UNCHANGED <<window, refusals>>
RetryAfter(p) ==
  /\ PostStep(p, "throttled", "checking") /\ KeepCall
  /\ KeepVault /\ UNCHANGED <<window, refusals>>

\* handleUnauthorized; an answer without a token is no error, and the vault
\* keeps the old one.
HandleUnauthorized(p) ==
  /\ \/ grant = "none" /\ PostStep(p, "unauthorized", "failed") /\ UNCHANGED token
     \/ grant = "good" /\ PostStep(p, "unauthorized", "reauthorizing") /\ token' = "fresh"
     \/ grant = "refused" /\ PostStep(p, "unauthorized", "reauthorizing") /\ UNCHANGED token
  /\ KeepCall /\ UNCHANGED <<grant, window, refusals>>

\* An hour passes for a token; a user takes the grant back.
Stale ==
  /\ token = "fresh" /\ token' = "stale"
  /\ carries' = [p \in Posts |-> IF carries[p] = "fresh" THEN "stale" ELSE carries[p]]
  /\ UNCHANGED <<post, fetches, counts, grant, window, refusals>>
Withdraw ==
  /\ grant = "good" /\ grant' = "refused"
  /\ KeepCall /\ UNCHANGED <<post, token, window, refusals>>

RequestsNext ==
  \/ \E p \in Posts :
       \/ AuthenticatedRequest(p) \/ CheckLimit(p) \/ BuildAuthHeaders(p) \/ Try(p) \/ LastTry(p)
       \/ RetryServerError(p) \/ RetryAfter(p) \/ HandleUnauthorized(p)
  \/ Prune \/ Stale \/ Withdraw

---------------------------------------------------------------------------
\* The window counts a call and not what the call costs: two requests at most go
\* out for every time it was let through (rate-limiter.ts:66, base-integration.ts:85,
\* 110), whatever mixture of 401, 429, 5xx and lost answers comes back.
TwoFetchesPerCount == \A p \in Posts : fetches[p] <= 2 * counts[p]
=============================================================================
