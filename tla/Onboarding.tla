------------------------------ MODULE Onboarding ------------------------------
(***************************************************************************)
(* One phone that several users sign in on, and the setup wizard a new user*)
(* is taken through: app/_layout.tsx fetches the preferences at a sign-in  *)
(* and clears them at a sign-out, (auth)/_layout.tsx picks the first screen*)
(* by them, onboarding.tsx puts the answers at its end, and the settings   *)
(* screen reads them again or takes them back.                             *)
(*                                                                         *)
(* Of a row of tenants there is what the wizard writes last: onboarding_done*)
(* and the tone and the tier, which a pass gives or leaves at their        *)
(* defaults.                                                               *)
(***************************************************************************)
EXTENDS Naturals, Sequences, FiniteSets

CONSTANTS
  Users, Nobody,
  MaxSignIns, MaxReads, MaxOutages, MaxKills, MaxResets   \* bounds

ASSUME OnboardingAssumption ==
  /\ Nobody \notin Users
  /\ {MaxSignIns, MaxReads, MaxOutages, MaxKills, MaxResets} \subseteq Nat

VARIABLES
  tenantRows,  \* tenants: [done, voice] of each user
  user,        \* the auth store: whose tokens the phone holds
  prefs,       \* the preferences store: [loaded, done]
  gets,        \* GET /v1/preferences in flight, each [of, sees]
  screen,
  step,        \* of the wizard
  answers,     \* its toneAnswers and llmTier
  puts,        \* PUT /v1/preferences in flight, each [of, writes]
  misled,      \* history: users the phone showed a screen without knowing their row
  signIns, reads, outages, kills, resets
onboardingVars == <<tenantRows, user, prefs, gets, screen, step, answers, puts, misled,
                    signIns, reads, outages, kills, resets>>
Wizard == <<screen, step, answers>>
Tallies == <<signIns, reads, outages, kills, resets>>

Unread == [loaded |-> FALSE, done |-> FALSE]   \* the store at first and after clear()
NewRow == [done |-> FALSE, voice |-> "unset"]
Outage == outages < MaxOutages /\ outages' = outages + 1

OnboardingInit ==
  /\ tenantRows \in [Users -> {NewRow, [done |-> TRUE, voice |-> "given"]}]
  /\ user = Nobody /\ prefs = Unread /\ gets = {} /\ puts = {}
  /\ screen = "signIn" /\ step = 0 /\ answers = "unset"
  /\ misled = {} /\ signIns = 0 /\ reads = 0 /\ outages = 0 /\ kills = 0 /\ resets = 0

---------------------------------------------------------------------------
\* The root layout: status turns to authenticated, at a sign-in or with stored
\* tokens at a launch, and the preferences are fetched.
Authenticated(u) ==
  /\ user' = u /\ gets' = gets \cup {[of |-> u, sees |-> "sent"]}

SignIn(u) ==
  /\ user = Nobody /\ screen = "signIn" /\ signIns < MaxSignIns
  /\ Authenticated(u) /\ signIns' = signIns + 1
  /\ UNCHANGED <<tenantRows, prefs, Wizard, puts, misled, reads, outages, kills, resets>>

\* The app dies, with the answers it waits for, and is started with its tokens.
Relaunch ==
  /\ kills < MaxKills /\ kills' = kills + 1
  /\ prefs' = Unread /\ screen' = "signIn" /\ step' = 0 /\ answers' = "unset"
  /\ user' = user
  /\ gets' = IF user = Nobody THEN {} ELSE {[of |-> user, sees |-> "sent"]}
  /\ puts' = {[p EXCEPT !.heard = FALSE] : p \in puts}
  /\ UNCHANGED <<tenantRows, misled, signIns, reads, outages, resets>>

\* Sign Out, or a refresh of the tokens that failed: the store is cleared, a GET
\* that waits is not.  Only the main screens leave for the sign-in.
Unauthenticated ==
  /\ user # Nobody /\ user' = Nobody /\ prefs' = Unread
  /\ screen' = IF screen = "main" THEN "signIn" ELSE screen
  /\ UNCHANGED <<tenantRows, gets, step, answers, puts, misled, Tallies>>

\* The gateway reads the row, or has no database and says 503, or fails.
AnswerGet(g) ==
  /\ g.sees = "sent"
  /\ \E seen \in {"done", "new", "noDb", "error"} :
       /\ IF seen \in {"noDb", "error"} THEN Outage
          ELSE seen = (IF tenantRows[g.of].done THEN "done" ELSE "new") /\ UNCHANGED outages
       /\ gets' = (gets \ {g}) \cup {[g EXCEPT !.sees = seen]}
  /\ UNCHANGED <<tenantRows, user, prefs, Wizard, puts, misled, signIns, reads, kills, resets>>

\* The answer is taken as it comes: the body of a 503 has no onboardingDone, and
\* after an error what the store holds is called loaded.
TakeGet(g) ==
  /\ g.sees # "sent" /\ gets' = gets \ {g}
  /\ prefs' = [loaded |-> TRUE,
               done |-> IF g.sees \in {"done", "new"} THEN g.sees = "done" ELSE prefs.done]
  /\ UNCHANGED <<tenantRows, user, Wizard, puts, misled, Tallies>>

\* refreshPreferences of the settings screen, after a tone analysis, looks at the
\* status first.
RefreshPreferences ==
  /\ screen = "main" /\ user # Nobody /\ reads < MaxReads /\ reads' = reads + 1
  /\ prefs' = [prefs EXCEPT !.done = tenantRows[user].done]
  /\ UNCHANGED <<tenantRows, user, gets, Wizard, puts, misled, signIns, outages, kills, resets>>

---------------------------------------------------------------------------
\* AuthLayout: where a user who has signed in goes.
Knows(u) == prefs.loaded /\ prefs.done = tenantRows[u].done
            /\ ~\E p \in puts : p.of = u
GoAtOnce == TRUE   \* mutant: the preferences are not waited for
PrefsLoaded == prefs.loaded
AuthLayout ==
  /\ screen = "signIn" /\ user # Nobody /\ PrefsLoaded
  /\ IF prefs.done THEN screen' = "main" /\ UNCHANGED <<step, answers>>
                   ELSE screen' = "wizard" /\ step' = 0 /\ answers' = "unset"
  /\ misled' = IF prefs.loaded /\ ~Knows(user) THEN misled \cup {user} ELSE misled
  /\ UNCHANGED <<tenantRows, user, prefs, gets, puts, Tallies>>

\* The wizard shows one step at a time, and none leads back.
InWizard(n) == screen = "wizard" /\ step = n
Forth == step' = step + 1

\* The integrations: Connect opens the browser, nothing waits for it.
IntegrationsStep == InWizard(4)

\* The welcome, the profile, the market, whose ZIP may be left out but not be
\* wrong, and the integrations let everybody go on.
Continue ==
  /\ (\E n \in 0..2 : InWizard(n)) \/ IntegrationsStep
  /\ Forth
  /\ UNCHANGED <<tenantRows, user, prefs, gets, screen, answers, puts, misled, Tallies>>

\* The questions about the voice, answered to the last or left at one of them.
AnswerVoice(given) ==
  /\ InWizard(3) /\ Forth
  /\ answers' = IF given THEN "given" ELSE "skipped"
  /\ UNCHANGED <<tenantRows, user, prefs, gets, screen, puts, misled, Tallies>>

\* The tier is balanced unless another one is chosen.
ChooseTier(other) ==
  /\ InWizard(5) /\ Forth
  /\ answers' = IF other THEN "given" ELSE answers
  /\ UNCHANGED <<tenantRows, user, prefs, gets, screen, puts, misled, Tallies>>

\* The last step finishes when it appears, once, and goes on when that has ended.
AllSetStep == InWizard(6) /\ screen' = "finishing"

\* Everything there is, with no one signed in nothing.
PutAnswers ==
  /\ AllSetStep
  /\ puts' = IF user = Nobody THEN puts
             ELSE puts \cup {[of |-> user, heard |-> TRUE,
                              writes |-> [done |-> TRUE, voice |-> answers]]}
  /\ UNCHANGED <<tenantRows, user, prefs, gets, step, answers, misled, Tallies>>

\* UPDATE tenants, or 503; then the answer, whose status nobody looks at.
Stored(p) == [tenantRows EXCEPT ![p.of] = p.writes]
PutPreferences(p) ==
  /\ \/ tenantRows' = Stored(p) /\ UNCHANGED outages
     \/ Outage /\ UNCHANGED tenantRows
  /\ puts' = puts \ {p}
  /\ prefs' = IF p.heard THEN [loaded |-> TRUE, done |-> p.writes.done] ELSE prefs
  /\ UNCHANGED <<user, gets, Wizard, misled, signIns, reads, kills, resets>>

\* The row is stored but the answer lost: the store stays as it is.
PutUnheard(p) ==
  /\ p.heard /\ Outage /\ tenantRows' = Stored(p) /\ puts' = puts \ {p}
  /\ UNCHANGED <<user, prefs, gets, Wizard, misled, signIns, reads, kills, resets>>

\* Whatever became of it, the paywall is next, and the chat, from where one who
\* is not signed in is sent away.
ToTheChat ==
  /\ screen = "finishing" /\ ~\E p \in puts : p.heard
  /\ screen' = IF user = Nobody THEN "signIn" ELSE "main"
  /\ UNCHANGED <<tenantRows, user, prefs, gets, step, answers, puts, misled, Tallies>>

\* Reset Onboarding, for developers: the row, then the store, then the wizard.
ResetOnboarding ==
  /\ screen = "main" /\ user # Nobody /\ resets < MaxResets /\ resets' = resets + 1
  /\ tenantRows' = [tenantRows EXCEPT ![user].done = FALSE]
  /\ prefs' = [prefs EXCEPT !.done = FALSE]
  /\ screen' = "wizard" /\ step' = 0 /\ answers' = "unset"
  /\ UNCHANGED <<user, gets, puts, misled, signIns, reads, outages, kills>>

OnboardingNext ==
  \/ \E u \in Users : SignIn(u)
  \/ Relaunch \/ Unauthenticated \/ RefreshPreferences
  \/ \E g \in gets : AnswerGet(g) \/ TakeGet(g)
  \/ AuthLayout \/ Continue \/ PutAnswers \/ ToTheChat \/ ResetOnboarding
  \/ \E given \in BOOLEAN : AnswerVoice(given) \/ ChooseTier(given)
  \/ \E p \in puts : PutPreferences(p) \/ PutUnheard(p)

---------------------------------------------------------------------------
\* What a user has answered is not overwritten by another pass of the wizard,
\* through sign-outs, other users of the phone and answers that come late, unless
\* the preferences she was sent to her first screen by were not her row's, or a
\* PUT was on its way (app/_layout.tsx:86-100, (auth)/_layout.tsx:13).
AnswersAreKept ==
  [][\A u \in Users :
       tenantRows[u].done /\ tenantRows'[u].voice # tenantRows[u].voice => u \in misled]_onboardingVars
=============================================================================
