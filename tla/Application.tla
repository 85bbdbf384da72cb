---------------------------- MODULE Application -----------------------------
(***************************************************************************)
(* The application shell (crates/agent-tauri/src/lib.rs) with the parts it *)
(* puts together: it loads a configuration (Settings), makes a tool host   *)
(* of the servers named there (ToolHosts), creates providers from it and   *)
(* asks them (Requests).  The choices of its user and of the product built *)
(* on it are free.                                                         *)
(*                                                                         *)
(* Tool calls and requests share nothing but the configuration: a session  *)
(* here has either, which keeps their states from being multiplied.        *)
(***************************************************************************)
EXTENDS ToolHosts, Settings, Requests

CONSTANTS Files,       \* what the configuration file may be
          Envs,        \* what the environment may hold
          Wishes,      \* what its user may choose for requests
          Turns,       \* what servers may have counted: hits and misses
          MaxAnswers   \* bound on the answers counted in a session

VARIABLES config,      \* an Option: the configuration, once loaded
          provider,    \* an Option: the provider in use
          refused,     \* an Option: why there is none
          options,     \* what the user has chosen for requests
          asked,       \* an Option: the parameters of the last request
          served,      \* what DeepSeek's servers counted in the session
          total        \* what the session counted

askVars == <<provider, refused, options, asked, served, total>>
vars == <<config, askVars, hostVars>>

ASSUME FilesAssumption ==
  \A f \in Files :
    /\ f.config.mcp_servers \in {{}, Servers}
    /\ DOMAIN f.config = DOMAIN DefaultConfig
    /\ \A name \in DOMAIN f.config.providers : f.config.providers[name] \in ProviderConfigs
    /\ f.config.subagent_pool \in Seq(SubagentSlots)
ASSUME EnvsAssumption ==
  Envs \subseteq [ANTHROPIC_API_KEY : SUBSET STRING, OPENAI_API_KEY : SUBSET STRING]
ASSUME WishesAssumption ==
  Wishes \subseteq [thinking : Thinkings, effort : Efforts, temperature : BOOLEAN,
                    hosted : SUBSET HostedTools]
ASSUME TurnsAssumption == Turns \subseteq Nat \X Nat
ASSUME MaxAnswersAssumption == MaxAnswers \in Nat

NoTokens == [input |-> 0, read |-> 0, write |-> 0, answers |-> 0]
NoOptions == [thinking |-> {}, effort |-> {}, temperature |-> FALSE, hosted |-> {}]

AskNothing ==
  /\ provider = {} /\ refused = {} /\ asked = {}
  /\ options = NoOptions
  /\ served = NoTokens /\ total = NoTokens

Off ==
  /\ config = {}
  /\ hosts = <<"null">> /\ composite = FALSE
  /\ connected = {} /\ tools = [s \in Servers |-> {}]

Init == Off /\ NoCall /\ AskNothing

-----------------------------------------------------------------------------
(* init and the end                                                        *)

\* The host init makes: none without servers, or if one cannot be started.
ShellHosts(c) == {"null"} \cup (IF c.mcp_servers = {} THEN {} ELSE {"mcp"})

Start ==
  /\ config = {}
  /\ \E file \in Files, env \in Envs : config' = Load(file, env)
  /\ config' # {}
  /\ \E shell \in UNION {ShellHosts(c) : c \in config'} :
       \/ hosts' = <<shell>> /\ composite' = FALSE
       \/ hosts' \in {<<"own", shell>>, <<shell, "own">>} /\ composite' = TRUE
  /\ UNCHANGED <<connected, tools, callVars, askVars>>

Stop ==
  /\ config # {} /\ config' = {}
  /\ hosts' = <<"null">> /\ composite' = FALSE
  /\ connected' = {} /\ tools' = [s \in Servers |-> {}]
  /\ batch' = <<>> /\ results' = <<>> /\ step' = "idle"
  /\ at' = 1 /\ heard' = <<>> /\ reached' = <<>>
  /\ provider' = {} /\ refused' = {} /\ asked' = {}
  /\ options' = NoOptions /\ served' = NoTokens /\ total' = NoTokens

-----------------------------------------------------------------------------
(* Requests *)

OnlyAsks == config # {} /\ batch = <<>> /\ connected = {}

(* The user picks a provider, at first the default one; the session goes   *)
(* on with it.                                                             *)
UseProvider(settings) ==
  LET created == CreateProvider(settings)
  IN  /\ provider' = IF created.ok THEN {[settings |-> settings, made |-> created.provider]} ELSE {}
      /\ refused'  = IF created.ok THEN {} ELSE {created.error}
      /\ asked'    = {}
      /\ UNCHANGED <<config, options, served, total, hostVars>>

UseDefault ==
  /\ OnlyAsks
  /\ provider = {} /\ refused = {}
  /\ \E c \in config : \E s \in DefaultProviderConfig(c) : UseProvider(s)

SwitchProvider ==
  /\ OnlyAsks
  /\ provider \cup refused # {}
  /\ \E c \in config : \E name \in DOMAIN c.providers : UseProvider(c.providers[name])

Choose ==
  /\ OnlyAsks
  /\ provider # {}
  /\ options' \in Wishes
  /\ asked' = {}
  /\ UNCHANGED <<config, provider, refused, served, total, hostVars>>

Ask ==
  /\ OnlyAsks
  /\ \E p \in provider : asked' = {Parameters(p.made, options)}
  /\ UNCHANGED <<config, provider, refused, options, served, total, hostVars>>

\* What DeepSeek's server writes for h tokens found and m not found in its
\* cache, over each of its APIs.
Counted(wire, h, m) ==
  CASE wire = "chat"      -> [input |-> h + m, hit |-> {h}, miss |-> {m}, cached |-> {}, created |-> {}]
    [] wire = "responses" -> [input |-> h + m, hit |-> {}, miss |-> {}, cached |-> {h}, created |-> {}]
    [] wire = "messages"  -> [input |-> m, hit |-> {}, miss |-> {}, cached |-> {h}, created |-> {0}]

Plus(t, input, read, write) ==
  [input |-> t.input + input, read |-> t.read + read, write |-> t.write + write,
   answers |-> t.answers + 1]

Answered ==
  /\ OnlyAsks
  /\ asked # {}
  /\ total.answers < MaxAnswers
  /\ \E p \in provider, t \in Turns :
       LET u == Usage(p.made, Counted(p.made.wire, t[1], t[2]))
       IN  /\ p.made.deepseek
           /\ served' = Plus(served, t[1] + t[2], t[1], t[2])
           /\ total'  = Plus(total, u.input, ValueOr(u.read, 0), ValueOr(u.write, 0))
  /\ asked' = {}
  /\ UNCHANGED <<config, provider, refused, options, hostVars>>

-----------------------------------------------------------------------------
OnlyCalls == config # {} /\ provider = {} /\ refused = {}

Hosting == OnlyCalls /\ (CallStep \/ ServerStep) /\ UNCHANGED <<config, askVars>>

Next == \/ Start \/ Stop
        \/ UseDefault \/ SwitchProvider \/ Choose \/ Ask \/ Answered
        \/ Hosting

Spec == Init /\ [][Next]_vars

-----------------------------------------------------------------------------
(* Properties *)

\* The slot that a roll of 1 to 100 falls on.
SharesOf(slots, roll) ==
  {i \in DOMAIN slots : WeightsUpTo(slots, i - 1) < roll /\ roll <= WeightsUpTo(slots, i)}

(* Whatever the file and the environment say together, a configuration     *)
(* that is loaded can be worked with: no provider of it is refused for     *)
(* want of a key, the default one and the one that understands images are  *)
(* there, and the subagents' weights share out every roll to one of them   *)
(* (load, apply_env and validate; create_provider).                        *)
LoadedIsUsable ==
  \A c \in config :
    /\ "AuthFailed" \notin refused
    /\ \A name \in DOMAIN c.providers : CreateProvider(c.providers[name]) # Err("AuthFailed")
    /\ DefaultProviderConfig(c) # {}
    /\ c.image.engine = "model" =>
         \A name \in Trimmed(c.image.model_provider) : Provider(c, name) # {}
    /\ c.subagent_pool # <<>> =>
         \A roll \in 1 .. 100 : Cardinality(SharesOf(c.subagent_pool, roll)) = 1

\* What each server was found to take: a thinking and an effort.  Of the
\* others nothing is known, and they get what the user chose.
ArkThinking == {"enabled", "disabled", "auto", "adaptive", "low"}

TakesThinking(s) ==
  CASE s.variant \in {"KimiChat", "KimiCodingAnthropic"} -> {"enabled"}
    [] s.variant \in {"ArkChat", "ArkAnthropic"} -> ArkThinking
    [] s.variant \in {"DeepSeek", "DeepSeekAnthropic"} /\ IsDeepSeekV4Alias(s.model) ->
         {"enabled", "disabled"}
    [] s.variant \in {"Responses", "ArkResponses", "DeepSeekResponses"} -> {}
    [] OTHER -> UNION Thinkings

TakesEffort(s) ==
  CASE s.variant \in {"KimiChat", "KimiCodingAnthropic"} /\ s.model \in {"k3", "k3-256k"} ->
         {"low", "high", "max"}
    [] s.variant = "ArkAnthropic" -> {}
    [] s.variant = "ArkResponses" -> {"low", "medium", "high", "xhigh", "max"}
    [] OTHER -> UNION Efforts

(* A provider of Ark is not given the kind of Kimi's plan, which has a     *)
(* dialect of its own on both wires: the kinds that are meant for it are   *)
(* named beside its variants (ProviderConfig).                             *)
KindsAreTheirs ==
  \A f \in Files : \A name \in DOMAIN f.config.providers :
    f.config.providers[name].variant \in {"ArkChat", "ArkAnthropic"} =>
      f.config.providers[name].kind # "kimi_coding"

(* Whatever a user chose, also with another provider or an earlier model   *)
(* in mind, a request has no thinking and no effort that its server        *)
(* answers with 400, no temperature for Kimi or for a DeepSeek that thinks *)
(* over Chat (the other adapters send one with any thinking), and no       *)
(* hosted tool of another API; whoever reports its cache only when asked   *)
(* to is asked, and whoever caches by itself gets no marks (build_body and *)
(* build_request_body).                                                    *)
VocabularyKept ==
  \A a \in asked : \A p \in provider :
    LET s == p.settings
    IN  /\ a.thinking \subseteq TakesThinking(s) \/ ContainsQwen(s.model)
        /\ a.effort \subseteq TakesEffort(s)
        /\ s.variant \in {"KimiChat", "KimiCodingAnthropic"}
             \/ (s.variant = "DeepSeek" /\ a.thinking = {"enabled"}) => ~a.temperature
        /\ s.variant \in {"DeepSeek", "ArkChat"} => a.stream_usage
        /\ a.cache_control => p.made.wire = "messages" /\ ~p.made.deepseek
        /\ a.hosted \subseteq
             CASE p.made.wire = "chat" -> {"openrouter:web_search", "openrouter:web_fetch"}
               [] p.made.wire = "responses" -> {"web_search", "web_extractor",
                                                "openrouter:web_search", "openrouter:web_fetch"}
               [] p.made.wire = "messages" -> {"web_search_20250305", "web_fetch_20250910"}

\* What a request says about reasoning, in whatever fields.
Reasoning(a) ==
  (IF a.thinking = {"disabled"} THEN {"off"} ELSE {})
    \cup {IF e = "none" THEN "off" ELSE e : e \in a.effort}

OverOther(s, variant) == CreateProvider([s EXCEPT !.variant = variant]).provider

(* DeepSeek's model V4 is the same over its three APIs: what the user      *)
(* chose asks each of them for the same reasoning, it is said to be able   *)
(* to do the same, and the tokens add up to what the servers counted,      *)
(* however often the API was changed in between.                           *)
SameOnEveryWire ==
  /\ total = served
  /\ \A p \in provider : \A variant \in {"DeepSeek", "DeepSeekResponses", "DeepSeekAnthropic"} :
       p.made.deepseek =>
         LET other == OverOther(p.settings, variant)
         IN  /\ IsDeepSeekV4Alias(p.made.model) => Capabilities(other) = Capabilities(p.made)
             /\ ContainsDeepSeekV4(p.made.model) =>
                  Reasoning(Parameters(other, options)) = Reasoning(Parameters(p.made, options))
=============================================================================
