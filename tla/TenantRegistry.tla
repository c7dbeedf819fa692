---------------------------- MODULE TenantRegistry ----------------------------
(***************************************************************************)
(* The auto-approval settings of one tenant on their way from the toggles  *)
(* of the settings screen through PUT /v1/preferences into the database    *)
(* and the tenant's coordinator, and class TenantRegistry of src/index.ts: *)
(* a call takes the coordinator out of its replica's map, or builds one    *)
(* across many awaits and puts it there.                                   *)
(*                                                                         *)
(* Settings are the set of action types that go out automatically.  A      *)
(* coordinator is named by the call that built it, the one built when a    *)
(* replica boots by the replica.                                           *)
(***************************************************************************)
EXTENDS Naturals, FiniteSets

CONSTANTS
  Replicas,     \* gateway processes
  Messages,     \* calls that handle a message, each drafting one approval
  Saves,        \* calls of PUT made by the toggles
  SendTypes,
  NoCoordinator,
  MaxRegMishaps   \* bound: failing statements and restarts

GatewayCalls == Messages \cup Saves
Coordinators == GatewayCalls \cup Replicas

ASSUME RegistryAssumption ==
  /\ Messages \cap Saves = {} /\ GatewayCalls \cap Replicas = {}
  /\ NoCoordinator \notin Coordinators
  /\ MaxRegMishaps \in Nat

VARIABLES
  replicaOf,  \* where the load balancer sends each call
  eager,      \* the tenant is the default tenant, built when a replica boots
  at,         \* where each call stands
  got,        \* the coordinator it builds or works with
  entries,    \* TenantRegistry.entries of each replica
  settings,   \* autoApprovalSettings of each coordinator
  pending,      \* approvalManager.pending of each coordinator
  dbSettings, \* tenants.auto_approval_settings
  dbCards,    \* the approvals table
  shown,      \* the preferences store of the phone
  reading,    \* an answer of GET on its way: {} or {settings}
  body,       \* what a save puts
  doubled,    \* history: replicas where two calls built at the same time
  stale,      \* history: replicas that a change of the row has passed by
  regMishaps
Given == <<replicaOf, eager>>
registryVars == <<Given, at, got, entries, settings, pending, dbSettings, dbCards, shown, reading,
                  body, doubled, stale, regMishaps>>
Phone == <<shown, reading, body>>
Past == <<doubled, stale>>

BuildSteps == {"loading", "seeding", "scheduling"}
Over == {"idle", "done", "failed", "lost", "shown"}

RegistryInit ==
  /\ replicaOf \in [GatewayCalls -> Replicas] /\ eager \in BOOLEAN
  /\ at = [c \in GatewayCalls |-> "idle"]
  /\ got = [c \in GatewayCalls |-> NoCoordinator]
  /\ entries = [r \in Replicas |-> IF eager THEN r ELSE NoCoordinator]
  /\ dbSettings \in SUBSET SendTypes
  /\ settings = [k \in Coordinators |-> IF eager /\ k \in Replicas THEN dbSettings ELSE {}]
  /\ pending = [k \in Coordinators |-> {}]
  /\ dbCards = {} /\ shown = {} /\ reading = {dbSettings}
  /\ body = [c \in Saves |-> {}] /\ doubled = {} /\ stale = {}
  /\ regMishaps = 0

Goto(c, step) == at' = [at EXCEPT ![c] = step]
RegMishap == regMishaps < MaxRegMishaps /\ regMishaps' = regMishaps + 1

---------------------------------------------------------------------------
\* The settings screen.  A toggle puts the whole object as rendered with its
\* own key changed; switching on asks first, in an alert that covers the screen.
Toggle(c, k) ==
  /\ at[c] = "idle" /\ \A d \in Saves : at[d] # "confirming"
  /\ IF k \in shown
       THEN /\ body' = [body EXCEPT ![c] = shown \ {k}]
            /\ Goto(c, "patching")
       ELSE /\ body' = [body EXCEPT ![c] = shown \cup {k}]
            /\ Goto(c, "confirming")
  /\ UNCHANGED <<Given, got, entries, settings, pending, dbSettings, dbCards, shown, reading,
                 Past, regMishaps>>

Enable(c) ==
  /\ at[c] = "confirming" /\ Goto(c, "patching")
  /\ UNCHANGED <<Given, got, entries, settings, pending, dbSettings, dbCards, Phone, Past,
                 regMishaps>>

\* savePref: the store is changed once there is an answer, whatever its status.
SavePref(c) ==
  /\ c \in Saves /\ at[c] \in {"done", "failed"} /\ Goto(c, "shown")
  /\ shown' = body[c]
  /\ UNCHANGED <<Given, got, entries, settings, pending, dbSettings, dbCards, reading, body,
                 Past, regMishaps>>

\* GET /v1/preferences, when the app comes up and after a tone analysis.
ReadPreferences ==
  /\ reading = {} /\ reading' = {dbSettings}
  /\ UNCHANGED <<Given, at, got, entries, settings, pending, dbSettings, dbCards, shown, body,
                 Past, regMishaps>>

SetPreferences ==
  /\ reading # {} /\ reading' = {} /\ \E s \in reading : shown' = s
  /\ UNCHANGED <<Given, at, got, entries, settings, pending, dbSettings, dbCards, body,
                 Past, regMishaps>>

---------------------------------------------------------------------------
\* A message reaches the gateway.
Arrive(c) ==
  /\ at[c] = "idle" /\ Goto(c, "getting")
  /\ UNCHANGED <<Given, got, entries, settings, pending, dbSettings, dbCards, Phone, Past,
                 regMishaps>>

\* PUT /v1/preferences: first the row, which no other replica is told of.
UpdatingAt(r) == {c \in Saves : replicaOf[c] = r /\ at[c] \in BuildSteps \cup {"getting", "using"}}
HasOlder(r) == \/ entries[r] # NoCoordinator \/ UpdatingAt(r) # {}
               \/ \E c \in GatewayCalls : replicaOf[c] = r /\ at[c] = "scheduling"
UpdateRow(c) ==
  /\ at[c] = "patching"
  /\ \/ /\ dbSettings' = body[c] /\ Goto(c, "getting")
        /\ LET passed == {r \in Replicas \ {replicaOf[c]} : HasOlder(r)} IN
             stale' = IF UpdatingAt(replicaOf[c]) = {} THEN (stale \ {replicaOf[c]}) \cup passed
                      ELSE stale \cup passed \cup {replicaOf[c]}
        /\ UNCHANGED regMishaps
     \/ RegMishap /\ Goto(c, "failed") /\ UNCHANGED <<dbSettings, stale>>
  /\ UNCHANGED <<Given, got, entries, settings, pending, dbCards, Phone, doubled>>

UpdateRowOnly(c) ==   \* mutant: the coordinator is left as it is
  at[c] = "using" /\ c \in Saves /\ Goto(c, "done") /\ UNCHANGED settings
Apply(c) ==
  /\ at[c] = "using" /\ c \in Saves /\ Goto(c, "done")
  /\ settings' = [settings EXCEPT ![got[c]] = body[c]]
UpdateSettings(c) ==
  /\ Apply(c)
  /\ UNCHANGED <<Given, got, entries, pending, dbSettings, dbCards, Phone, Past, regMishaps>>

---------------------------------------------------------------------------
\* getOrCreate.
BuildingAt(r) == {d \in GatewayCalls : replicaOf[d] = r /\ at[d] \in BuildSteps}
Get(c) ==
  /\ at[c] = "getting"
  /\ LET r == replicaOf[c] IN
       IF entries[r] # NoCoordinator
         THEN Goto(c, "using") /\ got' = [got EXCEPT ![c] = entries[r]] /\ UNCHANGED doubled
         ELSE /\ Goto(c, "loading") /\ got' = [got EXCEPT ![c] = c]
              /\ doubled' = IF BuildingAt(r) = {} THEN doubled ELSE doubled \cup {r}
  /\ UNCHANGED <<Given, entries, settings, pending, dbSettings, dbCards, Phone, stale,
                 regMishaps>>

\* upsertTenant, the integrations, the agents' init, and coordinator.init, which
\* loads the pending approvals.
Loaded == dbCards
Load(c) ==
  /\ at[c] = "loading" /\ Goto(c, "seeding")
  /\ pending' = [pending EXCEPT ![c] = Loaded]
  /\ UNCHANGED <<Given, got, entries, settings, dbSettings, dbCards, Phone, Past, regMishaps>>

\* SELECT auto_approval_settings; when it fails the coordinator asks for all.
Seed(c) ==
  /\ at[c] = "seeding" /\ Goto(c, "scheduling")
  /\ \/ settings' = [settings EXCEPT ![c] = dbSettings] /\ UNCHANGED <<stale, regMishaps>>
     \/ RegMishap /\ UNCHANGED settings /\ stale' = stale \cup {replicaOf[c]}
  /\ UNCHANGED <<Given, got, entries, pending, dbSettings, dbCards, Phone, doubled>>

\* The callbacks are wired and the heartbeat is loaded; the last to get here
\* stays in the map.
Register(c) ==
  /\ at[c] = "scheduling" /\ Goto(c, "using")
  /\ entries' = [entries EXCEPT ![replicaOf[c]] = c]
  /\ UNCHANGED <<Given, got, settings, pending, dbSettings, dbCards, Phone, Past, regMishaps>>

\* A query, a file or Redis fails and nothing is registered: a message gets an
\* error, a save has stored its row and says so.
BuildFails(c) ==
  /\ at[c] \in BuildSteps \ {"seeding"} /\ RegMishap
  /\ Goto(c, IF c \in Saves THEN "done" ELSE "failed")
  /\ UNCHANGED <<Given, got, entries, settings, pending, dbSettings, dbCards, Phone, Past>>

CreateApproval(c) ==
  /\ at[c] = "using" /\ c \in Messages /\ Goto(c, "done")
  /\ pending' = [pending EXCEPT ![got[c]] = @ \cup {c}]
  /\ dbCards' = dbCards \cup {c}
  /\ UNCHANGED <<Given, got, entries, settings, dbSettings, Phone, Past, regMishaps>>

\* The process dies with its calls; the default tenant is built at the boot.
RestartReplica(r) ==
  /\ RegMishap
  /\ at' = [c \in GatewayCalls |->
       IF replicaOf[c] = r /\ at[c] \notin Over \cup {"confirming"} THEN "lost" ELSE at[c]]
  /\ entries' = [entries EXCEPT ![r] = IF eager THEN r ELSE NoCoordinator]
  /\ settings' = IF eager THEN [settings EXCEPT ![r] = dbSettings] ELSE settings
  /\ pending' = IF eager THEN [pending EXCEPT ![r] = dbCards] ELSE pending
  /\ doubled' = doubled \ {r} /\ stale' = stale \ {r}
  /\ UNCHANGED <<Given, got, dbSettings, dbCards, Phone>>

RegistryNext ==
  \/ \E c \in GatewayCalls : Get(c) \/ Load(c) \/ Seed(c) \/ Register(c) \/ BuildFails(c)
  \/ \E c \in Messages : Arrive(c) \/ CreateApproval(c)
  \/ \E c \in Saves : \/ Enable(c) \/ UpdateRow(c) \/ UpdateSettings(c) \/ SavePref(c)
                      \/ \E k \in SendTypes : Toggle(c, k)
  \/ ReadPreferences \/ SetPreferences
  \/ \E r \in Replicas : RestartReplica(r)

RegistrySpec == RegistryInit /\ [][RegistryNext]_registryVars

---------------------------------------------------------------------------
Quiet == \A c \in GatewayCalls : at[c] \in Over \cup {"confirming", "patching"}

\* When no call is under way, a replica splits the next message by the settings in
\* the database, through saves, builds, failures and restarts, from its last save or
\* boot on: unless two calls built there at once, or a change of the row passed it by
\* since, its SELECT failed or two of its saves crossed (index.ts:120, 183, 1103).
SettingsFollowDb ==
  Quiet => \A r \in Replicas \ (doubled \cup stale) :
             entries[r] # NoCoordinator => settings[entries[r]] = dbSettings

\* When no call is under way, every approval made at a replica can be fetched and
\* answered there, unless two calls built at once.
CardsOf(r) == {c \in dbCards : replicaOf[c] = r}
ApprovalServed ==
  Quiet => \A r \in Replicas \ doubled :
             entries[r] # NoCoordinator => CardsOf(r) \subseteq pending[entries[r]]

\* What each replica serves a tenant from, between two calls, is what the database
\* has: the settings and its open approvals (registry built lazily, index.ts:120).
ReplicaFollowsDb == SettingsFollowDb /\ ApprovalServed
================================================================================
