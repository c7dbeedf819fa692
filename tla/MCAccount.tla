------------------------------- MODULE MCAccount -------------------------------
(* Account on a small instance: who, how many calls, tokens and mishaps.       *)
EXTENDS Account

\* RevenueCat retries until it is answered, the phone is in use and the gateway
\* answers; nothing makes anybody buy, kill the app or sign out.
AccountFairness ==
  /\ \A t \in Tenants : WF_accountVars(Deliver(t, 1))
  /\ WF_accountVars(Boot) /\ WF_accountVars(Tick)
  /\ WF_accountVars(\E c \in Calls : AuthedFetch(c, "use"))
  /\ WF_accountVars(Rotate) /\ WF_accountVars(IssuePair) /\ WF_accountVars(StoreTokens)
  /\ WF_accountVars(SetTokens) /\ WF_accountVars(RefreshRefused)
  /\ \A c \in Calls : WF_accountVars(Answer(c)) /\ WF_accountVars(ClearTokens(c))

AccountSpec == AccountInit /\ [][AccountNext]_accountVars /\ AccountFairness
================================================================================
