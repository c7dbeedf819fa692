------------------------------- MODULE Paywall -------------------------------
(***************************************************************************)
(* What the phone takes the user's plan to be: the subscription store and  *)
(* the screens that sell the plan.  The row of the tenant (see Account)    *)
(* and the SDK's CustomerInfo change on their own: each is whatever it is  *)
(* when it is read.  The developer's tier override and the bypass of test  *)
(* builds are left out.                                                    *)
(***************************************************************************)
EXTENDS Naturals

CONSTANT Loads      \* calls of loadSubscription that may overlap

VARIABLES
  authenticated,
  isProfessional,
  loads,          \* each call: where it stands, the plan it was told
  sheetOpen,      \* PaywallModal
  button,         \* each button: idle, at the store, or loading
  waiting,        \* each button's own load
  verdicts        \* history: what the loads since the last quiet moment came to

buttonVars == <<button, waiting>>
screenVars == <<sheetOpen, buttonVars>>
paywallVars == <<authenticated, isProfessional, loads, screenVars, verdicts>>

\* What tier and status of the row come to: an active status (trialing, active,
\* past_due) with the tier that unlocks, or without it; cancelled or paused.
Plans == {"professional", "starter", "inactive"}
\* The sheet's two, and the one of the subscription screen.
SheetButtons == {"purchase", "restore"}
Buttons == SheetButtons \cup {"restore_here"}

Standing(at, answer) == [at |-> at, told |-> answer]
NotLoading == Standing("idle", "none")

PaywallInit ==
  /\ authenticated = FALSE
  /\ isProfessional = TRUE                        \* optimistic until first load
  /\ loads = [l \in Loads |-> NotLoading]
  /\ sheetOpen = FALSE
  /\ button = [b \in Buttons |-> "idle"] /\ waiting = [b \in Buttons |-> {}]
  /\ verdicts = {}

Spare == {l \in Loads : loads[l].at = "idle"}
Quiet == \A l \in Loads : loads[l].at \in {"idle", "delayed"}

Moves(l, stand) == loads' = [loads EXCEPT ![l] = stand]
Begin(l) == /\ Moves(l, Standing("asked", "none"))
            /\ verdicts' = IF Quiet THEN {} ELSE verdicts

-----------------------------------------------------------------------------
(* loadSubscription, and what calls it.                                    *)

\* RootLayout, on a sign-in or a start with stored tokens: the store is as the
\* last user left it.
RootLayout(l) ==
  /\ ~authenticated /\ authenticated' = TRUE /\ l \in Spare /\ Begin(l)
  /\ UNCHANGED <<isProfessional, screenVars>>

EndOfSession ==
  /\ authenticated /\ authenticated' = FALSE
  /\ UNCHANGED <<isProfessional, loads, screenVars, verdicts>>

\* Each listener answers a new CustomerInfo with syncAfterPurchase, and those that
\* a sign-out did not remove do so too.
SyncsBegin(L) == loads' = [l \in Loads |-> IF l \in L THEN Standing("delayed", "none") ELSE loads[l]]
ListenersHear ==
  /\ \E L \in SUBSET Spare : L # {} /\ SyncsBegin(L)
  /\ UNCHANGED <<authenticated, isProfessional, screenVars, verdicts>>

\* 1.5 seconds later.
SyncAfterPurchase(l) ==
  /\ loads[l].at = "delayed" /\ Begin(l)
  /\ UNCHANGED <<authenticated, isProfessional, screenVars>>

\* GET /v1/subscription: the row at that moment.
GetSubscription(l) ==
  /\ loads[l].at = "asked" /\ \E p \in Plans : Moves(l, Standing("answered", p))
  /\ UNCHANGED <<authenticated, isProfessional, screenVars, verdicts>>

DeriveIsProfessional(p) == p = "professional"
TakeAnswer(l) ==
  /\ loads[l].at = "answered" /\ Moves(l, Standing("checking", loads[l].told))
  /\ isProfessional' = DeriveIsProfessional(loads[l].told)
  /\ UNCHANGED <<authenticated, screenVars, verdicts>>

\* An error or no answer leaves the state; a 401 signs the phone out.
LoadFails(l) ==
  /\ loads[l].at \in {"asked", "answered"} /\ Moves(l, Standing("checking", "none"))
  /\ authenticated' \in {authenticated, FALSE}
  /\ UNCHANGED <<isProfessional, screenVars, verdicts>>

\* What one load comes to, on its own: what the row says, and where it does not
\* say that the plan has ended, what the SDK says.
Verdict(p, entitled) == p = "professional" \/ (entitled /\ p # "inactive")

DefinitivelyInactiveNever(p) == FALSE            \* mutant: the check is gone
DefinitivelyInactive(p) == p = "inactive"

\* handlePurchase, handleRestore, after their load: the sheet closes with its own.
Synced(b) ==
  /\ waiting' = [waiting EXCEPT ![b] = {}] /\ button' = [button EXCEPT ![b] = "idle"]
  /\ sheetOpen' = (sheetOpen /\ b \notin SheetButtons)

\* hasProfessionalEntitlement(getCustomerInfo()): null, and an error, are no.
CustomerInfo == BOOLEAN

\* The end of the load, and of the wait of the button that asked for it.
CheckEntitlement(l) ==
  /\ loads[l].at = "checking" /\ Moves(l, NotLoading)
  /\ \E entitled \in CustomerInfo :
       LET grants == entitled /\ ~DefinitivelyInactive(loads[l].told)
       IN /\ isProfessional' = (isProfessional \/ grants)
          /\ verdicts' = IF grants \/ loads[l].told # "none"
                         THEN verdicts \cup {Verdict(loads[l].told, entitled)} ELSE verdicts
  /\ \/ (\A b \in Buttons : l \notin waiting[b]) /\ UNCHANGED screenVars
     \/ \E b \in Buttons : l \in waiting[b] /\ Synced(b)
  /\ UNCHANGED authenticated

-----------------------------------------------------------------------------
(* The screens.                                                            *)

FeatureLocked == ~isProfessional

ShowSheet ==
  /\ authenticated /\ ~sheetOpen /\ sheetOpen' = TRUE
  /\ UNCHANGED <<authenticated, isProfessional, loads, buttonVars, verdicts>>

\* A card of the Growth screen and, likewise, a locked part of a deal, the Studio
\* and the kiosk when they lock; the upgrade of the subscription screen; the
\* wizard's step, which offers the plan to everybody.
HandleCardPress == FeatureLocked /\ ShowSheet
Upgrade == FeatureLocked /\ ShowSheet
OnboardingPaywallStep == ShowSheet

CloseSheet ==
  /\ sheetOpen /\ sheetOpen' = FALSE
  /\ UNCHANGED <<authenticated, isProfessional, loads, buttonVars, verdicts>>

\* A button is disabled while its own call lasts (and that of the purchase until the
\* offerings have come, which getOfferings loads when the sheet opens).
Press(b) ==
  /\ authenticated /\ (b \in SheetButtons => sheetOpen)
  /\ button[b] = "idle" /\ button' = [button EXCEPT ![b] = "store"]
  /\ UNCHANGED <<authenticated, isProfessional, loads, sheetOpen, waiting, verdicts>>

\* The store completes it: the screen's own sync, and those of the listeners.
StoreCompletes(b) ==
  /\ button[b] = "store" /\ button' = [button EXCEPT ![b] = "loading"]
  /\ \E L \in SUBSET Spare : \E l \in L :
       SyncsBegin(L) /\ waiting' = [waiting EXCEPT ![b] = {l}]
  /\ UNCHANGED <<authenticated, isProfessional, sheetOpen, verdicts>>

\* Cancelled, nothing to restore, or an error.
StoreRefuses(b) ==
  /\ button[b] = "store" /\ button' = [button EXCEPT ![b] = "idle"]
  /\ UNCHANGED <<authenticated, isProfessional, loads, sheetOpen, waiting, verdicts>>

AppEnds ==
  /\ authenticated' = FALSE /\ isProfessional' = TRUE
  /\ loads' = [l \in Loads |-> NotLoading] /\ verdicts' = {}
  /\ sheetOpen' = FALSE
  /\ button' = [b \in Buttons |-> "idle"] /\ waiting' = [b \in Buttons |-> {}]

PaywallNext ==
  \/ \E l \in Loads : \/ RootLayout(l) \/ SyncAfterPurchase(l) \/ GetSubscription(l)
                      \/ TakeAnswer(l) \/ LoadFails(l) \/ CheckEntitlement(l)
  \/ \E b \in Buttons : Press(b) \/ StoreCompletes(b) \/ StoreRefuses(b)
  \/ EndOfSession \/ ListenersHear \/ HandleCardPress \/ Upgrade \/ OnboardingPaywallStep
  \/ CloseSheet \/ AppEnds

-----------------------------------------------------------------------------
\* However the loads overlap (a purchase alone starts two: the screen's and the
\* listener's), once they are done the phone shows what one of them came to on
\* its own: a slow answer can be taken for a newer one, but no mixture of two is
\* shown, and the SDK's cache does not outvote the row that ended a plan
\* (subscription.ts:103).
PlanIsOneLoadsVerdict == Quiet /\ verdicts # {} => (~FeatureLocked) \in verdicts

PSpec == PaywallInit /\ [][PaywallNext]_paywallVars
==============================================================================
