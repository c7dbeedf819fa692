------------------------------ MODULE LlmCall -------------------------------
(***************************************************************************)
(* One call of the LLM router and what becomes of it: the provider a tier  *)
(* and an agent resolve to, the providers of the fallback chain, what each *)
(* makes of an HTTP answer, the tokens a streaming call pushes to the      *)
(* phone, and what the caller does when the call throws.  The phone's      *)
(* socket may close at any moment, which aborts the signal.                *)
(***************************************************************************)
EXTENDS Naturals, Sequences, SequencesExt, Ranks

CONSTANTS
  Enabled,         \* providers built from config/models.json
  KeyMissing,      \* those whose environment variable is unset
  TierMapping,     \* [tier -> provider]
  AgentOverrides,  \* [<<agent, tier>> -> provider]
  FallbackChain,   \* a sequence of providers
  TiersOf,         \* [provider -> the tiers it has a model of]
  MaxTokens        \* bound on the tokens of one stream

ASSUME ChainAssumption == FallbackChain \in Seq(STRING)

VARIABLES
  request,   \* the LlmRequest: [by, tier, parts, streams]
  progress,  \* "idle", "fetching", "streaming" or "done"
  asked,     \* the providers called so far, in order
  chain,     \* what is left of the fallback chain
  streamed,  \* tokens the provider in charge has streamed
  pushed,    \* tokens pushed to the phone: <<provider, number>>
  answer,    \* what complete() returned, or what the caller does without it
  aborted    \* the phone is gone
llmVars == <<request, progress, asked, chain, streamed, pushed, answer, aborted>>

---------------------------------------------------------------------------
\* The callers.  Only the synthesizer streams and passes a signal.
Synthesize == [by |-> "coordinator", tier |-> "fast", parts |-> {"text"}, streams |-> TRUE]
Classify   == [by |-> "intent", tier |-> "fast", parts |-> {"text"}, streams |-> FALSE]
CallLlm(by, tier) == [by |-> by, tier |-> tier, parts |-> {"text"}, streams |-> FALSE]
Vision     == [by |-> "content", tier |-> "balanced", parts |-> {"text", "image"}, streams |-> FALSE]
LlmRequests == {Synthesize, Classify, CallLlm("ops", "fast"), CallLlm("research", "fast"),
          CallLlm("research", "balanced"), Vision}

\* What they do with a call that threw: the texts of the agents one after the
\* other, the agent a keyword names, or a failed task.
Concatenate     == <<"texts of the agents">>
DefaultDecision == <<"default agent">>
TaskFails       == <<"failed task">>
WithoutLlm(c) ==
  CASE c = Synthesize -> Concatenate
    [] c = Classify   -> DefaultDecision
    [] OTHER          -> TaskFails

---------------------------------------------------------------------------
\* What complete() throws on an HTTP answer: an LlmProviderError that may be
\* retried ("retry") or not ("final"), the raw error ("raw"), or it returns
\* ("text", "stream").  "odd" is JSON of an unexpected shape.
HttpOutcomes == {"unreachable", "429", "5xx", "4xx", "cut", "odd", "ok"}
RemoteErrors == [unreachable |-> "retry", busy |-> "retry", down |-> "retry", refused |-> "final"]
Fault(o) == CASE o = "unreachable" -> "unreachable" [] o = "429" -> "busy"
              [] o = "5xx" -> "down" [] o = "4xx" -> "refused"
IsFault(o) == o \in {"unreachable", "429", "5xx", "4xx"}

AnthropicComplete(o) == IF IsFault(o) THEN RemoteErrors[Fault(o)] ELSE IF o = "ok" THEN "text" ELSE "raw"
AnthropicStreaming(o) == IF IsFault(o) THEN RemoteErrors[Fault(o)] ELSE "stream"
OpenAiComplete(o) == IF IsFault(o) THEN RemoteErrors[Fault(o)] ELSE IF o = "ok" THEN "text" ELSE "raw"
OpenAiStreaming(o) == IF IsFault(o) THEN RemoteErrors[Fault(o)] ELSE "stream"
ManifestComplete(o) == IF IsFault(o) THEN RemoteErrors[Fault(o)] ELSE IF o = "ok" THEN "text" ELSE "raw"
ManifestStreaming(o) == IF IsFault(o) THEN RemoteErrors[Fault(o)] ELSE "stream"
\* These two take an odd answer for an empty text.
GoogleComplete(o) == IF IsFault(o) THEN RemoteErrors[Fault(o)] ELSE IF o = "cut" THEN "raw" ELSE "text"
OllamaComplete(o) ==
  IF IsFault(o) THEN IF o = "429" THEN "final" ELSE RemoteErrors[Fault(o)]
  ELSE IF o = "cut" THEN "raw" ELSE "text"

Streaming == {"anthropic", "openai", "openrouter", "manifest"}   \* they pass the signal too
Complete(p, o, streams) ==
  CASE p = "anthropic" -> IF streams THEN AnthropicStreaming(o) ELSE AnthropicComplete(o)
    [] p = "manifest"  -> IF streams THEN ManifestStreaming(o) ELSE ManifestComplete(o)
    [] p = "google"    -> GoogleComplete(o)
    [] p = "ollama"    -> OllamaComplete(o)
    [] OTHER           -> IF streams THEN OpenAiStreaming(o) ELSE OpenAiComplete(o)

\* The parts of a request that reach the model.
AnthropicBody == {"text", "image"}
OpenAiBody    == {"text", "image"}
ManifestBody  == {"text", "image"}
GoogleBody    == {"text", "image"}
OllamaBody    == {"text"}
Body(p) ==
  CASE p = "anthropic" -> AnthropicBody [] p = "manifest" -> ManifestBody
    [] p = "google" -> GoogleBody [] p = "ollama" -> OllamaBody [] OTHER -> OpenAiBody

---------------------------------------------------------------------------
\* The router.
Resolve(c) ==
  IF <<c.by, c.tier>> \in DOMAIN AgentOverrides THEN AgentOverrides[<<c.by, c.tier>>]
  ELSE TierMapping[c.tier]

\* config/models.json sends no request with an image to Ollama, which takes none.
ASSUME ImagesAssumption ==
  /\ Resolve(Vision) # "ollama"
  /\ \A i \in 1..Len(FallbackChain) : FallbackChain[i] # "ollama"

CanTakeOver(p, tier, failed) == p # failed /\ p \in Enabled /\ tier \in TiersOf[p]
Fallbacks(tier, failed) ==
  Selected(FallbackChain,
           {i \in 1..Len(FallbackChain) : CanTakeOver(FallbackChain[i], tier, failed)})

LlmInit ==
  /\ request \in LlmRequests /\ progress = "idle" /\ asked = <<>> /\ chain = <<>>
  /\ streamed = 0 /\ pushed = <<>> /\ answer = <<>> /\ aborted = FALSE

InCharge == Last(asked)
IsPrimary == Len(asked) = 1
Settle(text) ==
  /\ progress' = "done" /\ answer' = text
  /\ UNCHANGED <<request, asked, chain, streamed, pushed, aborted>>

\* The next provider of the chain.
TakeOver(rest) ==
  IF rest = <<>> THEN Settle(WithoutLlm(request))
  ELSE /\ asked' = Append(asked, Head(rest)) /\ chain' = Tail(rest)
       /\ progress' = "fetching" /\ streamed' = 0
       /\ UNCHANGED <<request, pushed, answer, aborted>>

\* The primary's error decides; the chain goes on whatever a provider threw.
GoesOnAnyway(error) == TRUE             \* mutant: a raw error starts the chain
GoesOn(error) == ~IsPrimary \/ error = "retry"
Throw(error) ==
  IF ~GoesOn(error) THEN Settle(WithoutLlm(request))
  ELSE TakeOver(IF IsPrimary THEN Fallbacks(request.tier, InCharge) ELSE chain)

\* No caller marks a request as cancelled, so the check before it passes.
Begin ==
  /\ progress = "idle"
  /\ IF Resolve(request) \notin Enabled THEN Settle(WithoutLlm(request))
     ELSE TakeOver(<<Resolve(request)>>)

Respond ==
  /\ progress = "fetching"
  /\ LET p == InCharge  streams == request.streams IN
     IF p \in KeyMissing THEN Throw("final")
     ELSE IF aborted /\ streams /\ p \in Streaming THEN Throw("raw")
     ELSE \E o \in HttpOutcomes :
            LET r == Complete(p, o, streams) IN
            \/ /\ r = "text" /\ progress' = "done"
               /\ answer' = IF o = "odd" THEN <<>> ELSE <<<<p, 1>>>>
               /\ pushed' = IF streams THEN pushed \o answer' ELSE pushed
               /\ UNCHANGED <<request, asked, chain, streamed, aborted>>
            \/ /\ r = "stream" /\ progress' = "streaming"
               /\ UNCHANGED <<request, asked, chain, streamed, pushed, answer, aborted>>
            \/ r \notin {"text", "stream"} /\ Throw(r)

Text(p, n) == [i \in 1..n |-> <<p, i>>]

\* What a read of the stream held is passed on even if the signal is aborted.
Token ==
  /\ progress = "streaming" /\ streamed < MaxTokens
  /\ streamed' = streamed + 1 /\ pushed' = Append(pushed, <<InCharge, streamed + 1>>)
  /\ UNCHANGED <<request, progress, asked, chain, answer, aborted>>

\* [DONE], or a connection that closed early.
StreamEnds == progress = "streaming" /\ Settle(Text(InCharge, streamed))

\* A reset connection, or the signal.
StreamBreaks == progress = "streaming" /\ Throw("raw")

PhoneLeaves ==
  /\ ~aborted /\ aborted' = TRUE
  /\ UNCHANGED <<request, progress, asked, chain, streamed, pushed, answer>>

LlmNext == Begin \/ Respond \/ Token \/ StreamEnds \/ StreamBreaks \/ PhoneLeaves

---------------------------------------------------------------------------
FromLlm == progress = "done" /\ answer # WithoutLlm(request)

\* An answer was made from every part of the request, and it is what the phone was
\* streamed while it was streamed: only a provider of the fallback chain that broke
\* off can have put other words before it, never the primary.
AnswerFitsRequestAndStream ==
  FromLlm =>
    /\ request.parts \subseteq Body(InCharge)
    /\ request.streams =>
         LET before == Len(pushed) - Len(answer) IN
         /\ before >= 0 /\ SubSeq(pushed, before + 1, Len(pushed)) = answer
         /\ \A i \in 1..before : \E k \in 2..(Len(asked) - 1) : pushed[i][1] = asked[k]
=============================================================================
