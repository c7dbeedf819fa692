------------------------------ MODULE MCGateway ------------------------------
(***************************************************************************)
(* The parts of the gateway, and of the phone, that are checked for safety *)
(* only, on small instances: the briefing, requests to Gmail, one call of  *)
(* a language model, a request to the comms agent, text messages, the      *)
(* Studio, the open house, the computation of a route, the setup wizard,   *)
(* the heartbeat and the tasks of the other agents. They share no state,   *)
(* so each behaviour is one of them, the part chosen at the start; the     *)
(* others stand still at one initial state.                                *)
(***************************************************************************)
EXTENDS Briefing, Integrations, LlmCall, MCComms, Sms, Studio, Kiosk, RouteOptimizer,
        Onboarding, Heartbeat, Agents

\* config/models.json, with OpenRouter enabled too and Manifest in the chain.
ModelTiers  == [t \in {"fast", "balanced"} |-> "manifest"]
Overridden  == [k \in {<<"research", "fast">>} |-> "ollama"]
ModelChain  == <<"manifest", "anthropic", "openrouter">>
ModelsOf    == [p \in {"manifest", "anthropic", "openrouter", "ollama"} |-> {"fast", "balanced"}]

NoInput == [drive |-> [r \in 0..NStops |-> [i \in Stops |-> Min(Drives)]],
            fixed |-> [i \in Stops |-> 0], geocoded |-> Stops, origin |-> TRUE]

VARIABLE part
gatewayVars == <<briefingVars, requestVars, llmVars, commsVars, smsVars,
                 studioVars, kioskVars, routeVars, onboardingVars,
                 heartbeatVars, agentVars, part>>

Init ==
  /\ part \in {"briefing", "requests", "llm", "comms", "sms",
              "studio", "kiosk", "routes", "onboarding", "heartbeat", "agents"}
  /\ BriefingInit /\ RequestsInit /\ LlmInit /\ CommsInit /\ SmsInit
  /\ StudioInit /\ KioskInit /\ OnboardingInit /\ HeartbeatInit /\ AgentsInit
  /\ part # "llm" => request = Classify
  /\ home = IF shared THEN <<1, 2>> ELSE <<1, 1>>   \* two processes, or two coordinators of one
  /\ part # "comms" => ~shared
  /\ part # "sms" => ~twilio /\ typed = {}
  /\ part # "agents" => linked = {}
  /\ part # "onboarding" => tenantRows = [u \in Users |-> NewRow]
  /\ part # "heartbeat" => scheduler = "bullmq"
  /\ part # "requests" => token = "none" /\ grant = "none"
  /\ IF part = "routes" THEN OptimizerInit ELSE input = NoInput /\ route = <<>>

Next ==
  /\ UNCHANGED part
  /\ \/ /\ part = "briefing" /\ BriefingNext
        /\ UNCHANGED <<requestVars, llmVars, commsVars, smsVars, studioVars,
                       kioskVars, routeVars, onboardingVars, heartbeatVars,
                       agentVars>>
     \/ /\ part = "requests" /\ RequestsNext
        /\ UNCHANGED <<briefingVars, llmVars, commsVars, smsVars,
                       studioVars, kioskVars, routeVars, onboardingVars,
                       heartbeatVars, agentVars>>
     \/ /\ part = "llm" /\ LlmNext
        /\ UNCHANGED <<briefingVars, requestVars, commsVars, smsVars,
                       studioVars, kioskVars, routeVars, onboardingVars,
                       heartbeatVars, agentVars>>
     \/ /\ part = "comms" /\ CommsNext
        /\ UNCHANGED <<briefingVars, requestVars, llmVars, smsVars,
                       studioVars, kioskVars, routeVars, onboardingVars,
                       heartbeatVars, agentVars>>
     \/ /\ part = "sms" /\ SmsNext
        /\ UNCHANGED <<briefingVars, requestVars, llmVars, commsVars,
                       studioVars, kioskVars, routeVars, onboardingVars,
                       heartbeatVars, agentVars>>
     \/ /\ part = "studio" /\ StudioNext
        /\ UNCHANGED <<briefingVars, requestVars, llmVars, commsVars,
                       smsVars, kioskVars, routeVars, onboardingVars,
                       heartbeatVars, agentVars>>
     \/ /\ part = "kiosk" /\ KioskNext
        /\ UNCHANGED <<briefingVars, requestVars, llmVars, commsVars,
                       smsVars, studioVars, routeVars, onboardingVars,
                       heartbeatVars, agentVars>>
     \/ /\ part = "routes" /\ OptimizerNext
        /\ UNCHANGED <<briefingVars, requestVars, llmVars, commsVars,
                       smsVars, studioVars, kioskVars, onboardingVars,
                       heartbeatVars, agentVars>>
     \/ /\ part = "onboarding" /\ OnboardingNext
        /\ UNCHANGED <<briefingVars, requestVars, llmVars, commsVars,
                       smsVars, studioVars, kioskVars, routeVars, heartbeatVars,
                       agentVars>>
     \/ /\ part = "heartbeat" /\ HeartbeatNext
        /\ UNCHANGED <<briefingVars, requestVars, llmVars, commsVars,
                       smsVars, studioVars, kioskVars, routeVars,
                       onboardingVars, agentVars>>
     \/ /\ part = "agents" /\ AgentsNext
        /\ UNCHANGED <<briefingVars, requestVars, llmVars, commsVars,
                       smsVars, studioVars, kioskVars, routeVars,
                       onboardingVars, heartbeatVars>>

Spec == Init /\ [][Next]_gatewayVars
=============================================================================
