------------------------------ MODULE Settings ------------------------------
(***************************************************************************)
(* The configuration (crates/agent-config/src/lib.rs): what a file may     *)
(* say, the defaults for what it leaves out, the environment that goes     *)
(* over it, and the checks a configuration passes before anyone sees it.   *)
(*                                                                         *)
(* Fields that nothing here reads (log level, theme, diagnostics and the   *)
(* choices of the orchestration, which are enumerations) are left out.  An *)
(* Option is a set of at most one element.                                 *)
(***************************************************************************)
EXTENDS Naturals, Sequences, FiniteSets, SequencesExt

(* Identifiers: their value without the white space around it, their       *)
(* length, and whether there is neither such space nor a control character *)
(* (in a prompt, which has lines: whether there is no NUL).                *)
Identifier(value, chars, clean) == [value |-> value, chars |-> chars, clean |-> clean]
Id(value) == Identifier(value, 1, TRUE)

Trimmed(option) == {v.value : v \in {w \in option : w.value # ""}}

-----------------------------------------------------------------------------
(* Defaults *)

DefaultProvider == "anthropic"

DefaultBudget ==
  [max_tool_rounds |-> 60, max_run_seconds |-> 14400, reasoning_budget_chars |-> 120000,
   same_error_limit |-> 3, no_progress_rounds |-> 24, diff_file_limit |-> 60,
   diff_byte_limit |-> 262144, test_fail_limit |-> 3]

DefaultReviewRounds == 1

NoImageModel == [engine |-> "ocr", model_provider |-> {}, model |-> {}]

DefaultConfig ==
  [default_provider |-> DefaultProvider, providers |-> <<>>, mcp_servers |-> {},
   max_review_rounds |-> DefaultReviewRounds, run_budget |-> DefaultBudget,
   subagent_pool |-> <<>>, image |-> NoImageModel, dir |-> TRUE]

-----------------------------------------------------------------------------
(* RunBudgetConfig::validate *)

BudgetBounds ==
  [max_tool_rounds |-> 4 .. 200, max_run_seconds |-> 300 .. 86400,
   reasoning_budget_chars |-> 20000 .. 4000000, same_error_limit |-> 1 .. 10,
   no_progress_rounds |-> 2 .. 200, diff_file_limit |-> 1 .. 1000,
   diff_byte_limit |-> 65536 .. 1073741824, test_fail_limit |-> 1 .. 10]

BudgetIsValid(b) == \A field \in DOMAIN BudgetBounds : b[field] \in BudgetBounds[field]

-----------------------------------------------------------------------------
(* SubagentPoolConfig.  A slot's source is a provider, or {} for the Codex *)
(* command line.                                                           *)

Identifiers == [value : STRING, chars : Nat, clean : BOOLEAN]

SubagentSlots ==
  [slot_id : Identifiers, source : SUBSET Identifiers, model : Identifiers, weight : Nat,
   prompt_template : SUBSET Identifiers, prompt : Identifiers]

Slot(id, source, weight) ==
  [slot_id |-> Id(id), source |-> source, model |-> Id("model"), weight |-> weight,
   prompt_template |-> {}, prompt |-> Identifier("prompt", 10, TRUE)]

MaxSlots == 3
MaxPromptChars == 12000

IsBoundedIdentifier(v, max) == v.clean /\ v.chars \in 1 .. max

SlotIsValid(s) ==
  /\ IsBoundedIdentifier(s.slot_id, 80)
  /\ \A p \in s.source : IsBoundedIdentifier(p, 160)
  /\ IsBoundedIdentifier(s.model, 320)
  /\ s.weight \in 1 .. 100
  /\ \A t \in s.prompt_template : IsBoundedIdentifier(t, 80)
  /\ s.prompt.value # "" /\ s.prompt.clean /\ s.prompt.chars \in 1 .. MaxPromptChars

WeightsUpTo(slots, n) ==
  LET sum[i \in 0 .. n] == IF i = 0 THEN 0 ELSE sum[i - 1] + slots[i].weight
  IN  sum[n]

PoolIsValid(slots) ==
  /\ Len(slots) <= MaxSlots
  /\ slots # <<>> =>
       /\ \A i \in DOMAIN slots : SlotIsValid(slots[i])
       /\ \A i, j \in DOMAIN slots : slots[i].slot_id = slots[j].slot_id => i = j
       /\ WeightsUpTo(slots, Len(slots)) = 100

-----------------------------------------------------------------------------
(* Config::validate *)

ImageModelIsValid(config) ==
  config.image.engine = "model" =>
    /\ Trimmed(config.image.model_provider) # {}
    /\ Trimmed(config.image.model_provider) \subseteq DOMAIN config.providers
    /\ Trimmed(config.image.model) # {}

Validate(config) ==
  /\ config.max_review_rounds \in 1 .. 3
  /\ BudgetIsValid(config.run_budget)
  /\ PoolIsValid(config.subagent_pool)
  /\ ImageModelIsValid(config)
  /\ config.default_provider \in DOMAIN config.providers
  /\ \A name \in DOMAIN config.providers : config.providers[name].api_key # ""
  /\ config.dir   \* its directory exists, or can be made

(* apply_env: the variables go over what is there; they add no provider.   *)
EnvOf(name, env) ==
  CASE name = "anthropic" -> env.ANTHROPIC_API_KEY
    [] name = "openai"    -> env.OPENAI_API_KEY
    [] OTHER              -> {}

ApplyEnv(config, env) ==
  [config EXCEPT !.providers =
    [name \in DOMAIN @ |->
       IF EnvOf(name, env) = {} THEN @[name]
       ELSE [@[name] EXCEPT !.api_key = CHOOSE key \in EnvOf(name, env) : TRUE]]]

(* load: what the file says, defaults filled in, or the defaults if there  *)
(* is no file; nothing if it cannot be read or is not a configuration.     *)
File(config) == [state |-> "read", config |-> config]
NoFile       == [state |-> "absent", config |-> DefaultConfig]
BrokenFile   == [state |-> "broken", config |-> DefaultConfig]

FileConfig(file) == IF file.state = "broken" THEN {} ELSE {file.config}

(* Mutant: the environment goes over a configuration that was checked. *)
EnvAfterChecks(file, env) == {ApplyEnv(c, env) : c \in {d \in FileConfig(file) : Validate(d)}}

Load(file, env) == {c \in {ApplyEnv(d, env) : d \in FileConfig(file)} : Validate(c)}

Provider(config, name) == {config.providers[n] : n \in DOMAIN config.providers \cap {name}}
DefaultProviderConfig(config) == Provider(config, config.default_provider)
=============================================================================
