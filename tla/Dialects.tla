------------------------------ MODULE Dialects ------------------------------
(***************************************************************************)
(* What is known of vendors and models: the dialects of Ark and Kimi       *)
(* (crates/agent-llm/src/dialect.rs) and the names that the adapters look  *)
(* for in a model.  The names are in lower case and without white space.   *)
(* An Option is a set of at most one element.                              *)
(***************************************************************************)
EXTENDS Naturals

ContainsDeepSeek(m)   == m \in {"deepseek-v4-pro", "deepseek-v4-flash-vision-exp",
                                "deepseek-chat", "deepseek-reasoner"}
ContainsDeepSeekV4(m) == m \in {"deepseek-v4-pro", "deepseek-v4-flash-vision-exp"}
ContainsClaude(m)     == m = "claude"
ContainsQwen(m)       == m = "qwen"

IsDeepSeekV4Alias(m) == ContainsDeepSeekV4(m) \/ m = "deepseek-chat"

DeepSeekModelSupportsVision(m) == m = "deepseek-v4-flash-vision-exp"

-----------------------------------------------------------------------------
(* dialect.rs *)

ArkVision(m)       == m = "doubao-seed"
KimiContext(m)     == IF m = "k3" THEN 1048576 ELSE 262144
KimiEffortVocab(m) == IF m \in {"k3", "k3-256k"} THEN {"low", "high", "max"} ELSE {}

(* effort_vocab = {} means that every effort is sent as it is.             *)
Ark(m, context, port) ==
  [thinking_vocab |-> {"enabled", "disabled", "auto", "adaptive", "low"}, adaptive_maps_to |-> {},
   effort_vocab |-> {}, effort_wire |-> IF port = "chat" THEN "top_level" ELSE "none",
   omit_temperature |-> FALSE, force_stream_usage |-> port = "chat", echo_reasoning |-> FALSE,
   context |-> context, output |-> 0, vision |-> ArkVision(m), cache_control |-> port = "messages"]

Kimi(m, port) ==
  [thinking_vocab |-> {"enabled"}, adaptive_maps_to |-> {"enabled"},
   effort_vocab |-> KimiEffortVocab(m), effort_wire |-> IF port = "chat" THEN "top_level" ELSE "nested",
   omit_temperature |-> TRUE, force_stream_usage |-> FALSE, echo_reasoning |-> TRUE,
   context |-> KimiContext(m), output |-> 32768, vision |-> TRUE, cache_control |-> port = "messages"]

DialectFor(kind, m, port) ==
  CASE kind = "ark_coding" /\ port = "messages"    -> {Ark(m, 256000, port)}
    [] kind = "ark_agent" /\ port = "messages"     -> {Ark(m, 1048576, port)}
    [] kind = "ark_coding_openai" /\ port = "chat" -> {Ark(m, 256000, port)}
    [] kind = "kimi_coding"                        -> {Kimi(m, port)}
    [] OTHER -> {}

(* Mutant: values outside the vocabulary are sent as they are. *)
UncheckedThinking(d, thinking) ==
  IF thinking = {"adaptive"} /\ d.adaptive_maps_to # {} THEN d.adaptive_maps_to ELSE thinking

DialectThinkingValue(d, thinking) ==
  IF thinking \subseteq d.thinking_vocab THEN thinking
  ELSE IF thinking = {"adaptive"} THEN d.adaptive_maps_to
  ELSE {}

FilteredEffort(d, effort) ==
  IF d.effort_vocab = {} THEN effort ELSE effort \cap d.effort_vocab
=============================================================================
