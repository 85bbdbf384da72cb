--------------------------- MODULE MCApplication ----------------------------
(* An instance of Application for TLC: a good configuration and others     *)
(* that differ from it in one thing each, a provider of every variant, and *)
(* two servers, whose tools have names that look alike.                    *)
EXTENDS Application

MCServers  == {<<"a">>, <<"b">>}
MCTools    == {<<"t">>, <<"b", "t">>}
MCOwnTools == {<<"b", "t">>}
MCNames    == {<<"a", "b", "t">>, <<"b", "t">>, <<"t">>}

S(variant, kind, model, key) ==
  [variant |-> variant, kind |-> kind, model |-> model, api_key |-> key,
   host |-> "other", reasoning |-> "drop"]

Vendors ==
  [anthropic |-> S("Anthropic", "", "claude", "from file"),
   openai    |-> [S("OpenAi", "", "gpt", "from file") EXCEPT !.host = "api.openai.com"],
   qwen      |-> S("OpenAi", "", "qwen", "k"),
   codex     |-> [S("Responses", "", "gpt", "k") EXCEPT !.reasoning = "encrypted"],
   kimi      |-> S("KimiChat", "", "kimi-for-coding", "k"),
   k3        |-> S("KimiCodingAnthropic", "", "k3", "k"),
   ark       |-> S("ArkChat", "ark_coding_openai", "glm", "k"),
   doubao    |-> S("ArkAnthropic", "ark_agent", "doubao-seed", "k"),
   ark_wrong |-> S("ArkChat", "ark_agent", "glm", "k"),
   plan      |-> S("ArkResponses", "ark_agent", "glm", "k"),
   deepseek  |-> S("DeepSeek", "", "deepseek-v4-pro", "k"),
   responses |-> S("DeepSeekResponses", "", "deepseek-v4-pro", "k"),
   messages  |-> S("DeepSeekAnthropic", "", "deepseek-v4-pro", "k"),
   alias     |-> S("DeepSeekAnthropic", "", "deepseek-chat", "k")]

Small(names) == [n \in names |-> Vendors[n]]

Good == [DefaultConfig EXCEPT !.providers = Small({"anthropic", "openai"}),
           !.subagent_pool = <<Slot("one", {Id("openai")}, 60), Slot("two", {}, 40)>>]

WithSlot(slot) == [Good EXCEPT !.subagent_pool = <<Slot("one", {}, 60), slot>>]
WithImage(by, model) ==
  [Good EXCEPT !.image = [engine |-> "model", model_provider |-> by, model |-> model]]

MCFiles ==
  {NoFile, BrokenFile,
   File([Good EXCEPT !.providers = Vendors, !.default_provider = "deepseek"]),
   File([Good EXCEPT !.providers = Small({"kimi"}), !.default_provider = "kimi",
                     !.mcp_servers = MCServers])}
  \cup {File(c) : c \in
   {Good,
    [Good EXCEPT !.default_provider = "mistral"],
    [Good EXCEPT !.max_review_rounds = 4],
    [Good EXCEPT !.run_budget.max_tool_rounds = 3],
    [Good EXCEPT !.dir = FALSE],
    [Good EXCEPT !.providers["openai"].api_key = ""],
    WithSlot(Slot("two", {}, 41)), WithSlot(Slot("one", {}, 40)),
    WithSlot([Slot("two", {}, 40) EXCEPT !.model = Identifier("model", 321, TRUE)]),
    WithImage({Identifier("openai", 8, FALSE)}, {Id("vision")}),
    WithImage({Id("mistral")}, {Id("vision")}), WithImage({Id("openai")}, {Identifier("", 2, FALSE)})}}

Env(anthropic, openai) == [ANTHROPIC_API_KEY |-> anthropic, OPENAI_API_KEY |-> openai]

MCEnvs == {Env({}, {}), Env({"from env"}, {}), Env({""}, {}), Env({}, {"from env"})}

MCTurns == {<<3, 1>>, <<0, 2>>}

MCWishes ==
  {NoOptions} \cup
  [thinking : Thinkings, effort : {{}, {"none"}, {"low"}, {"high"}, {"xhigh"}, {"max"}},
   temperature : {TRUE}, hosted : {HostedTools}]

ASSUME KindsOfVendors == KindsAreTheirs
=============================================================================
