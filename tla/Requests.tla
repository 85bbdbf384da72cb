------------------------------ MODULE Requests ------------------------------
(***************************************************************************)
(* The providers of crates/agent-llm and what they ask of a server besides *)
(* its messages: create_provider, the parameters of build_body in          *)
(* openai.rs, responses.rs and anthropic.rs, the capabilities, and how the *)
(* tokens of an answer are counted.                                        *)
(*                                                                         *)
(* A request is for the model its provider was made for, streams, and has  *)
(* enable_caching on.                                                      *)
(***************************************************************************)
EXTENDS Integers, Sequences, Dialects

(* InferenceOptions and the rest of a CompletionRequest that is looked at. *)
Thinkings == {{}, {"enabled"}, {"disabled"}, {"adaptive"}}
Efforts   == {{}} \cup {{e} : e \in {"none", "minimal", "low", "medium", "high", "xhigh", "max"}}
HostedTools == [tool : {"search", "fetch"}, format : {"standard", "dash_scope", "open_router"}]

-----------------------------------------------------------------------------
(* create_provider *)

Variants ==
  {"Anthropic", "KimiCodingAnthropic", "ArkAnthropic", "ArkChat", "KimiChat", "OpenAi", "Responses",
   "DeepSeekResponses", "DeepSeekAnthropic", "ArkResponses", "DeepSeek"}

\* Of a base URL the host is kept.
ProviderConfigs ==
  [variant : Variants, kind : STRING, model : STRING, api_key : STRING, host : STRING,
   reasoning : {"drop", "encrypted", "plaintext", "summary"}]

Ok(p)    == [ok |-> TRUE, provider |-> p]
Err(why) == [ok |-> FALSE, error |-> why]

OpenAiProvider(s) ==
  [wire |-> "chat", name |-> "openai", model |-> s.model, host |-> s.host,
   deepseek |-> FALSE, ark_effort |-> FALSE, dialect |-> {}, mode |-> "drop",
   context |-> 128000, output |-> 0, vision |-> TRUE, cache_control |-> FALSE]

ResponsesProvider(s) ==
  [OpenAiProvider(s) EXCEPT !.wire = "responses", !.name = "openai_responses",
                            !.mode = s.reasoning, !.context = 200000]

AnthropicProvider(s) ==
  [OpenAiProvider(s) EXCEPT !.wire = "messages", !.name = "anthropic",
                            !.context = 200000, !.cache_control = TRUE]

WithDialect(p, d) ==
  [p EXCEPT !.dialect = {d}, !.context = d.context, !.output = d.output, !.vision = d.vision,
            !.cache_control = d.cache_control]

AsDeepSeek(p, name, context) ==
  [p EXCEPT !.name = name, !.deepseek = TRUE, !.context = context, !.cache_control = FALSE,
            !.output = IF IsDeepSeekV4Alias(p.model) THEN 393216 ELSE 0,
            !.vision = DeepSeekModelSupportsVision(p.model)]

DeepSeekChat(s) ==
  AsDeepSeek(OpenAiProvider(s), "deepseek", IF IsDeepSeekV4Alias(s.model) THEN 1000000 ELSE 64000)

DeepSeekResponses(s) ==
  [AsDeepSeek(ResponsesProvider(s), "deepseek_responses", 1000000) EXCEPT !.mode = "plaintext"]

DeepSeekAnthropic(s) == AsDeepSeek(AnthropicProvider(s), "deepseek_anthropic", 1000000)

ArkResponses(s) ==
  [ResponsesProvider(s) EXCEPT !.name = "ark_responses", !.mode = "summary", !.ark_effort = TRUE,
                               !.context = IF s.kind = "ark_agent" THEN 1048576 ELSE 256000,
                               !.vision = ArkVision(s.model)]

InDialect(p, kind) ==
  LET d == DialectFor(kind, p.model, p.wire)
  IN  IF d = {} THEN Err("Other") ELSE Ok(WithDialect(p, CHOOSE x \in d : TRUE))

NeedsKey(s) == s.variant \in {"Anthropic", "KimiCodingAnthropic", "ArkAnthropic", "DeepSeekAnthropic"}

(* A dialect is looked for before the key.                                 *)
Created(s) ==
  CASE s.variant = "Anthropic"           -> Ok(AnthropicProvider(s))
    [] s.variant = "KimiCodingAnthropic" ->
         InDialect([AnthropicProvider(s) EXCEPT !.name = "kimi_coding"], "kimi_coding")
    [] s.variant = "ArkAnthropic"        -> InDialect(AnthropicProvider(s), s.kind)
    [] s.variant = "ArkChat"             -> InDialect(OpenAiProvider(s), s.kind)
    [] s.variant = "KimiChat"            -> InDialect(OpenAiProvider(s), "kimi_coding")
    [] s.variant = "OpenAi"              -> Ok(OpenAiProvider(s))
    [] s.variant = "Responses"           -> Ok(ResponsesProvider(s))
    [] s.variant = "DeepSeekResponses"   -> Ok(DeepSeekResponses(s))
    [] s.variant = "DeepSeekAnthropic"   -> Ok(DeepSeekAnthropic(s))
    [] s.variant = "ArkResponses"        -> Ok(ArkResponses(s))
    [] s.variant = "DeepSeek"            -> Ok(DeepSeekChat(s))

CreateProvider(s) ==
  IF Created(s).ok /\ NeedsKey(s) /\ s.api_key = "" THEN Err("AuthFailed") ELSE Created(s)

Capabilities(p) ==
  [vision |-> p.vision, context |-> p.context, output |-> p.output,
   caching |-> p.wire = "messages" \/ p.deepseek]

EchoesReasoning(p) ==
  p.name = "deepseek_responses" \/ \E d \in p.dialect : d.echo_reasoning

-----------------------------------------------------------------------------
(* Parameters.  A body has a thinking and an effort (Options), whether the *)
(* temperature goes with it, whether it asks for a usage at the end of a   *)
(* stream and marks what to cache, and the types of its hosted tools.      *)

(* Mutant: an effort chosen before the off switch stays. *)
StaleEffort(o) ==
  IF o.thinking \in {{"enabled"}, {"adaptive"}} /\ o.effort = {} THEN {"high"} ELSE o.effort

DeepSeekV4Effort(o) ==
  CASE o.thinking = {"disabled"} -> {}
    [] o.thinking \in {{"enabled"}, {"adaptive"}} -> IF o.effort = {} THEN {"high"} ELSE o.effort
    [] OTHER -> o.effort

NativeThinking(v4, o) == IF v4 /\ o.thinking = {"adaptive"} THEN {"enabled"} ELSE o.thinking

OpenRouterTool(h) == IF h.tool = "search" THEN "openrouter:web_search" ELSE "openrouter:web_fetch"

SupportsStreamUsage(p) ==
  \/ p.deepseek
  \/ \E d \in p.dialect : d.force_stream_usage
  \/ p.host \in {"api.openai.com", "api.deepseek.com"}

\* openai.rs

HostedToolToOpenAi(h) == IF h.format = "open_router" THEN {OpenRouterTool(h)} ELSE {}

DeepSeekThinking(p, thinking) ==
  p.dialect = {} /\ (p.deepseek \/ ContainsDeepSeek(p.model)) /\ thinking = {"enabled"}

ChatParameters(p, o) ==
  LET v4 == (p.deepseek \/ ContainsDeepSeek(p.model)) /\ IsDeepSeekV4Alias(p.model)
      thinking == IF p.dialect = {} THEN NativeThinking(v4, o)
                  ELSE UNION {DialectThinkingValue(d, o.thinking) : d \in p.dialect}
      effort == IF p.dialect # {}
                THEN UNION {IF d.effort_wire = "top_level" THEN FilteredEffort(d, o.effort) ELSE {}
                            : d \in p.dialect}
                ELSE IF v4 THEN DeepSeekV4Effort(o) ELSE o.effort
  IN  [thinking |-> IF ContainsQwen(p.model)
                    THEN {IF t = "disabled" THEN "false" ELSE "true" : t \in thinking} ELSE thinking,
       effort   |-> effort,
       temperature |-> /\ o.temperature
                       /\ \A d \in p.dialect : ~d.omit_temperature
                       /\ ~DeepSeekThinking(p, thinking),
       stream_usage |-> SupportsStreamUsage(p), cache_control |-> FALSE,
       hosted   |-> UNION {HostedToolToOpenAi(h) : h \in o.hosted}]

\* responses.rs

HostedToolToResponses(h) ==
  CASE h.format = "open_router" -> {OpenRouterTool(h)}
    [] h.tool = "search"        -> {"web_search"}
    [] h.tool = "fetch"         -> IF h.format = "dash_scope" THEN {"web_extractor"} ELSE {}

ArkEffortVocab == {"low", "medium", "high", "xhigh", "max"}

ResponsesEffort(p, o) ==
  IF p.deepseek /\ ContainsDeepSeekV4(p.model)
  THEN IF o.thinking = {"disabled"} THEN {"none"} ELSE DeepSeekV4Effort(o)
  ELSE IF p.ark_effort
  THEN IF o.effort # {} THEN o.effort \cap ArkEffortVocab
       ELSE IF o.thinking = {"enabled"} THEN {"high"} ELSE {}
  ELSE o.effort

ResponsesParameters(p, o) ==
  [thinking |-> {}, effort |-> ResponsesEffort(p, o), temperature |-> o.temperature,
   stream_usage |-> FALSE, cache_control |-> FALSE,
   hosted |-> UNION {HostedToolToResponses(h) : h \in o.hosted}]

\* anthropic.rs; a nested effort goes only with a thinking

HostedToolToAnthropic(h) ==
  IF h.format = "standard"
  THEN {IF h.tool = "search" THEN "web_search_20250305" ELSE "web_fetch_20250910"}
  ELSE {}

DialectParameters(d, o) ==
  LET thinking == DialectThinkingValue(d, o.thinking)
  IN  [thinking |-> thinking,
       effort   |-> IF d.effort_wire = "nested" /\ thinking # {}
                    THEN FilteredEffort(d, o.effort) ELSE {},
       temperature |-> o.temperature /\ ~d.omit_temperature]

PlainParameters(p, o) ==
  LET v4 == p.deepseek /\ IsDeepSeekV4Alias(p.model)
  IN  [thinking |-> IF o.thinking = {} /\ o.effort # {} /\ ContainsClaude(p.model)
                    THEN {"adaptive"} ELSE NativeThinking(v4, o),
       effort   |-> IF v4 THEN DeepSeekV4Effort(o) ELSE o.effort,
       temperature |-> o.temperature]

MessagesParameters(p, o) ==
  LET body == IF p.dialect = {} THEN PlainParameters(p, o)
              ELSE DialectParameters(CHOOSE d \in p.dialect : TRUE, o)
  IN  [thinking |-> body.thinking, effort |-> body.effort, temperature |-> body.temperature,
       stream_usage |-> FALSE, cache_control |-> p.cache_control,
       hosted |-> UNION {HostedToolToAnthropic(h) : h \in o.hosted}]

Parameters(p, o) ==
  CASE p.wire = "chat"      -> ChatParameters(p, o)
    [] p.wire = "responses" -> ResponsesParameters(p, o)
    [] p.wire = "messages"  -> MessagesParameters(p, o)

-----------------------------------------------------------------------------
(* Usage.  A server counts in fields that may be missing: Options.         *)

Or(a, b)      == IF a # {} THEN a ELSE b
ValueOr(a, n) == IF a = {} THEN n ELSE CHOOSE x \in a : TRUE

ParseCacheTokens(u) ==
  [input |-> u.input, read |-> {ValueOr(Or(u.hit, u.cached), 0)}, write |-> {ValueOr(u.miss, 0)}]

ParseUsage(p, u) ==
  LET read == Or(u.hit, u.cached)
  IN  [input |-> u.input, read |-> read,
       write |-> IF u.miss = {} /\ p.deepseek
                 THEN {IF r > u.input THEN 0 ELSE u.input - r : r \in read} ELSE u.miss]

ParseAnthropicUsage(p, u) ==
  IF p.deepseek /\ (u.cached # {} \/ u.created # {})
  THEN [input |-> u.input + ValueOr(u.cached, 0) + ValueOr(u.created, 0), read |-> u.cached,
        write |-> {u.input + ValueOr(u.created, 0)}]
  ELSE [input |-> u.input, read |-> u.cached, write |-> u.created]

Usage(p, u) ==
  CASE p.wire = "chat"      -> ParseCacheTokens(u)
    [] p.wire = "responses" -> ParseUsage(p, u)
    [] p.wire = "messages"  -> ParseAnthropicUsage(p, u)
=============================================================================
