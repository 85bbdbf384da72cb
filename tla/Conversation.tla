---------------------------- MODULE Conversation ----------------------------
(***************************************************************************)
(* A conversation that goes through the adapters of crates/agent-llm turn  *)
(* by turn: the application appends what the user says and what the tools  *)
(* return, each request is built from all of it (no adapter keeps a        *)
(* session at the server), and what the server answers is read into the    *)
(* next message.  In between the application may break off a turn, compact *)
(* the messages (crates/agent-compaction) or go on with another provider.  *)
(*                                                                         *)
(* Requests and responses are those of complete(); what a stream gives its *)
(* consumer is the subject of ProviderTurn.                                *)
(***************************************************************************)
EXTENDS Messages

CONSTANTS Providers,       \* records: see Provider below
          Answers,         \* what servers may say: sequences of kinds
          Strategies,      \* the compaction strategies, in the order of the manager
          MaxTokens,       \* of the compaction manager
          MaxMessages,     \* bound on the length of the history
          MaxDisturbances  \* bound on the kinds of things in `used`

VARIABLES provider,     \* the provider requests go to
          history,      \* every message of the conversation
          prompt,       \* the messages requests are built from
          said,         \* what the server said, one entry per answer
          sent,         \* the last request, or <<>> if the messages or the
                        \* provider were exchanged since
          awaiting,     \* the answer to it is awaited
          used          \* which of "interrupt", "switch" and the strategies
                        \* there have been

vars == <<provider, history, prompt, said, sent, awaiting, used>>

Chat      == INSTANCE ChatWire
Responses == INSTANCE ResponsesWire
Anthropic == INSTANCE MessagesWire
C         == INSTANCE Compaction

(* wire: the API; mode: how reasoning is carried over the Responses API;   *)
(* thinking: DeepSeek's thinking is on; echo: the dialect echoes reasoning *)
Provider == [wire : {"chat", "responses", "messages"}, mode : Responses!ReasoningMode,
             thinking : BOOLEAN, echo : BOOLEAN]

ASSUME ProvidersAssumption == Providers \subseteq Provider /\ Providers # {}
ASSUME StrategiesAssumption == Strategies \in Seq(C!Strategy)
ASSUME BoundsAssumption == MaxMessages \in Nat /\ MaxDisturbances \in Nat

-----------------------------------------------------------------------------
(* What a server says is a sequence of pieces: a kind and a number of its  *)
(* own.  Each API puts the pieces into its own shape.                      *)

Kinds == {"think", "silent think", "text", "hosted", "broken hosted", "call", "cut call"}

Thoughts == {"think", "silent think"}
Calls    == {"call", "cut call"}

\* Ten numbers are set aside for each answer.  A server that thinks in an
\* answer does so, in the same way, before it calls tools.
ASSUME AnswersAssumption ==
  /\ Answers \subseteq Seq(Kinds)
  /\ \A kinds \in Answers :
       /\ Len(kinds) < 10
       /\ \A i, j \in DOMAIN kinds : kinds[i] \in Calls /\ kinds[j] \in Thoughts
            => \E k \in 1 .. i - 1 : kinds[k] = kinds[j]

Pieces(kinds, turn) == [i \in DOMAIN kinds |-> [kind |-> kinds[i], n |-> 10 * turn + i]]

Word(p) == <<<<p.kind, p.n>>>>
Args(p) == IF p.kind = "cut call" THEN "cut" ELSE "object"
IsCall(p) == p.kind \in Calls
ToolName == "tool"

ChatResponse(ps) ==
  LET calls == Filter(ps, IsCall)
  IN  [text   |-> FlatMap(LAMBDA p : IF p.kind = "text" THEN Word(p) ELSE <<>>, ps),
       calls  |-> [i \in DOMAIN calls |->
                     [id |-> calls[i].n, name |-> ToolName, arguments |-> Args(calls[i])]],
       finish |-> IF calls = <<>> THEN "stop" ELSE "tool_calls"]

ResponsesOutput(p) ==
  CASE p.kind = "think" ->
         {Responses!OutputReasoning({<<"reasoning", p.n>>}, Word(p), Word(p))}
    [] p.kind = "silent think" -> {Responses!OutputReasoning({<<"bare", p.n>>}, Empty, Empty)}
    [] p.kind = "text" -> {[type |-> "message", text |-> Word(p)]}
    [] p.kind = "hosted" -> {Responses!HostedItem("web_search_call", <<"whole", p.n>>)}
    [] p.kind = "broken hosted" -> {Responses!HostedItem("web_search_call", <<"failed", p.n>>)}
    [] IsCall(p) -> {Responses!FunctionCall(p.n, ToolName, Args(p))}

ResponsesResponse(ps) ==
  [output |-> FilterMap(ResponsesOutput, ps), status |-> "completed", why |-> ""]

AnthropicContent(p) ==
  CASE p.kind = "think" ->
         {[type |-> "thinking", text |-> Word(p), signature |-> {<<"opaque", p.n>>}]}
    [] p.kind = "silent think" -> {[type |-> "thinking", text |-> Empty, signature |-> {}]}
    [] p.kind = "text" -> {Anthropic!ContentText(Word(p))}
    [] p.kind \in {"hosted", "broken hosted"} ->
         {Anthropic!ContentData("server_tool_use", <<p.kind, p.n>>)}
    [] IsCall(p) -> {[type |-> "tool_use", id |-> p.n, name |-> ToolName, input |-> "object"]}

AnthropicResponse(ps) ==
  [content |-> FilterMap(AnthropicContent, ps),
   stop |-> IF SomeIn(ps, IsCall) THEN "tool_use" ELSE "end_turn"]

(* complete: the response is parsed by the adapter the request went to.    *)
Parsed(ps) ==
  CASE provider.wire = "chat"      -> Chat!ParseOpenAiResponse(ChatResponse(ps))
    [] provider.wire = "responses" -> Responses!ParseResponsesResponse(ResponsesResponse(ps), provider.mode)
    [] provider.wire = "messages"  -> Anthropic!ParseAnthropicResponse(AnthropicResponse(ps))

(* build_body, the messages of it.                                         *)
Request ==
  CASE provider.wire = "chat"      -> Chat!ChatMessages(prompt, provider.echo, provider.thinking)
    [] provider.wire = "responses" ->
         Responses!ResponsesInput(prompt, provider.mode, IF provider.thinking THEN {} ELSE {"none"})
    [] provider.wire = "messages"  -> Anthropic!AnthropicMessages(prompt)

-----------------------------------------------------------------------------
(* The application.  A history ends with nothing, a message of the user,   *)
(* or one of the assistant, whose calls are open then.                     *)

LastOf(ms) == ms[Len(ms)]
OpenCalls == IF prompt # <<>> /\ LastOf(prompt).role = "assistant"
             THEN ToolUses(LastOf(prompt)) ELSE <<>>
UserSpokeLast == prompt # <<>> /\ LastOf(prompt).role = "user"
ToolsSpokeLast == UserSpokeLast /\ SomeIn(LastOf(prompt).content, IsToolResult)

Disturb(what) ==
  /\ used' = used \cup what
  /\ Cardinality(used') <= MaxDisturbances

Push(m) ==
  /\ ~awaiting
  /\ Len(history) < MaxMessages
  /\ history' = Append(history, m)
  /\ prompt'  = Append(prompt, m)

Init ==
  /\ provider \in Providers
  /\ history = <<>> /\ prompt = <<>> /\ said = <<>> /\ sent = <<>>
  /\ awaiting = FALSE /\ used = {}

(* The user says something, the first time perhaps with an image or a file *)
(* (once is enough: it is in every request from then on); if calls were    *)
(* open, they are left open.                                               *)
Extras == IF history # <<>> THEN {<<>>}
          ELSE {<<>>, <<Attachment(0)>>, <<File("text", "other", {}, {<<<<"file", 0>>>>})>>}

UserSays ==
  /\ UserSpokeLast => ToolsSpokeLast
  /\ \E extra \in Extras :
       Push([role |-> "user", content |-> <<Text(<<<<"user", Len(history)>>>>)>> \o extra])
  /\ Disturb(IF OpenCalls = <<>> THEN {} ELSE {"interrupt"})
  /\ UNCHANGED <<provider, said, sent, awaiting>>

ResultFor(call) == ToolResult(call.id, <<<<"result", call.id>>>>, FALSE)

(* The calls are run, one after the other: all results in one message.     *)
(* When the user stops it, the rest is cancelled, or the process is gone   *)
(* and it stays open.                                                      *)
RunTools ==
  /\ OpenCalls # <<>>
  /\ Push([role |-> "user", content |-> [i \in DOMAIN OpenCalls |-> ResultFor(OpenCalls[i])]])
  /\ UNCHANGED <<provider, said, sent, awaiting, used>>

CancelTools ==
  /\ OpenCalls # <<>>
  /\ \E done \in 0 .. Len(OpenCalls) - 1 :
       Push([role |-> "user", content |-> [i \in DOMAIN OpenCalls |->
               IF i <= done THEN ResultFor(OpenCalls[i]) ELSE CancelledToolResult(OpenCalls[i].id)]])
  /\ UNCHANGED <<provider, said, sent, awaiting, used>>

LoseTools ==
  /\ Len(OpenCalls) > 1
  /\ Push([role |-> "user", content |-> <<ResultFor(OpenCalls[1])>>])
  /\ Disturb({"interrupt"})
  /\ UNCHANGED <<provider, said, sent, awaiting>>

(* The runtime replaces the references to attachments by what they stand   *)
(* for; until then no adapter takes the request.                           *)
Loaded(m) == [m EXCEPT !.content = [i \in DOMAIN @ |->
                IF @[i].block = "attachment" THEN Image(@[i].data) ELSE @[i]]]

Materialize ==
  /\ ~AssertNoUnresolvedAttachments(prompt)
  /\ history' = [i \in DOMAIN history |-> Loaded(history[i])]
  /\ prompt'  = [i \in DOMAIN prompt |-> Loaded(prompt[i])]
  /\ UNCHANGED <<provider, said, sent, awaiting, used>>

(* What it is going on with only matters once there is a request to send.  *)
SwitchProvider ==
  /\ ~awaiting
  /\ UserSpokeLast
  /\ "switch" \notin used
  /\ provider' \in Providers \ {provider}
  /\ Disturb({"switch"})
  /\ sent' = <<>>
  /\ UNCHANGED <<history, prompt, said, awaiting>>

-----------------------------------------------------------------------------
(* The code *)

Send ==
  /\ ~awaiting
  /\ UserSpokeLast
  /\ AssertNoUnresolvedAttachments(prompt)
  /\ sent' = Request
  /\ awaiting' = TRUE
  /\ UNCHANGED <<provider, history, prompt, said, used>>

Receive ==
  /\ awaiting
  /\ Len(history) < MaxMessages
  /\ \E kinds \in Answers :
       LET ps == Pieces(kinds, Len(history))
           m  == [role |-> "assistant", content |-> Parsed(ps).content]
       IN  /\ history' = Append(history, m)
           /\ prompt'  = Append(prompt, m)
           /\ said'    = Append(said, ps)
  /\ awaiting' = FALSE
  /\ UNCHANGED <<provider, sent, used>>

Fail ==
  /\ awaiting
  /\ awaiting' = FALSE
  /\ UNCHANGED <<provider, history, prompt, said, sent, used>>

(* The application compacts before a request: by name, or what is due.     *)
(* Its provider may fail, stop early or have nothing to say; an error      *)
(* changes nothing.                                                        *)
SummaryAnswers ==
  {{}, {[stop |-> "max_tokens", text |-> <<<<"summary", 0>>>>]}}
  \cup {{[stop |-> "end_turn", text |-> t]} : t \in {<<>>, <<<<"summary", 0>>>>}}

Install(result, name) ==
  /\ ~awaiting
  /\ UserSpokeLast
  /\ result.ok
  /\ result.messages # prompt
  /\ prompt' = result.messages
  /\ Disturb({name})
  /\ sent' = <<>>
  /\ UNCHANGED <<provider, history, said, awaiting>>

CompactWith ==
  \E i \in DOMAIN Strategies, answer \in SummaryAnswers :
    Install(C!CompactWith(Strategies, Strategies[i].name, prompt, answer), Strategies[i].name)

AutoCompact ==
  \E answer \in SummaryAnswers :
    LET due == C!FirstDue(Strategies, MaxTokens, prompt)
    IN  Install(C!AutoCompact(Strategies, MaxTokens, prompt, answer),
                IF due = 0 THEN "none" ELSE Strategies[due].name)

Next == \/ UserSays \/ RunTools \/ CancelTools \/ LoseTools \/ Materialize
        \/ SwitchProvider \/ Send \/ Receive \/ Fail
        \/ CompactWith \/ AutoCompact

Spec == Init /\ [][Next]_vars

-----------------------------------------------------------------------------
(* What the servers refuse *)

\* Right after a turn that calls tools come the results, one for each call
\* and under its name; there are no others.  DeepSeek also wants the key of
\* a reasoning with each such turn.
ChatIsPaired(w) ==
  \A i \in DOMAIN w :
    /\ Chat!IsToolTurn(w[i]) =>
         LET n == Len(w[i].calls)
         IN  /\ i + n <= Len(w)
             /\ {<<w[k].role, w[k].id, w[k].name>> : k \in i + 1 .. i + n}
                  = {<<"tool", w[i].calls[k].id, w[i].calls[k].name>> : k \in 1 .. n}
             /\ provider.thinking => w[i].reasoning # {}
    /\ w[i].role = "tool" =>
         \E k \in 1 .. i - 1 : Chat!IsToolTurn(w[k]) /\ i <= k + Len(w[k].calls)

\* An output has its call before it, once; a reasoning has its product right
\* after it; in DeepSeek's thinking mode a call has a reasoning before it,
\* with nothing of the user's in between.
OfUser(item) == item.type = "function_call_output"
                \/ (item.type = "message" /\ item.role = "user")

ResponsesIsPaired(w) ==
  \A i \in DOMAIN w :
    /\ w[i].type = "function_call_output" =>
         /\ \E k \in 1 .. i - 1 : w[k].type = "function_call" /\ w[k].id = w[i].id
         /\ \A k \in DOMAIN w : w[k].type = "function_call_output" /\ w[k].id = w[i].id => k = i
    /\ w[i].type = "reasoning" => i < Len(w) /\ Responses!IsReasoningProduct(w[i + 1])
    /\ w[i].type = "function_call" /\ provider.mode = "plaintext" /\ provider.thinking =>
         \E k \in 1 .. i - 1 : /\ w[k].type = "reasoning"
                               /\ \A j \in k .. i : ~OfUser(w[j])

(* Whatever was broken off, compacted or said by another provider:  over   *)
(* Chat every call is answered right after its turn, nothing else is, and  *)
(* DeepSeek finds its key (sanitize_tool_pairing, apply_key_emission);     *)
(* over Responses no output is without its call or comes twice, and no     *)
(* reasoning is without its product, the two refusals sanitize_input_items *)
(* is there to avoid (responses.rs 20-22), and DeepSeek finds a reasoning  *)
(* before its calls.  Calls that were left open stay so over Responses,    *)
(* and over Messages nothing is repaired (CallsAreFollowed).               *)
RequestsArePaired ==
  /\ awaiting /\ provider.wire = "chat" => ChatIsPaired(sent)
  /\ awaiting /\ provider.wire = "responses" => ResponsesIsPaired(sent)

(* What V-MSG-02 says of messages: right after a call comes its result.    *)
(* The application has kept to it; the compaction and the adapter for      *)
(* Messages have to.  They do not: a sliding window parts the two.  No run *)
(* asks for it (README, section 6).                                        *)
CallsAreFollowed ==
  awaiting /\ provider.wire = "messages" /\ "interrupt" \notin used =>
    LET Ids(w, type) == {c.id : c \in {d \in ToSet(w.content) : d.type = type}}
    IN  \A i \in DOMAIN sent : Ids(sent[i], "tool_use")
          \subseteq (IF i < Len(sent) THEN Ids(sent[i + 1], "tool_result") ELSE {})

-----------------------------------------------------------------------------
(* Stateless replay *)

Arguments(p) == IF Args(p) = "cut" THEN "null" ELSE Args(p)

\* A turn goes back over Chat as its calls, without its text, or else as
\* its text (message_to_openai).
ChatReplay(ps) ==
  LET calls == Filter(ps, IsCall)
  IN  IF calls # <<>>
      THEN [role |-> "assistant", reasoning |-> IF provider.thinking THEN {Empty} ELSE {},
            calls |-> [i \in DOMAIN calls |->
                         [id |-> calls[i].n, name |-> ToolName, arguments |-> Arguments(calls[i])]]]
      ELSE [role |-> "assistant", text |-> ChatResponse(ps).text, reasoning |-> {}]

\* Over Responses everything goes back in its order, a reasoning only if
\* the mode carries it and something it led to comes right after it.
ResponsesReplay(ps) ==
  LET mode == provider.mode
      Back(p) ==
        CASE p.kind = "think" /\ mode = "encrypted" ->
               {Responses!Reasoning(mode, <<<<"reasoning", p.n>>>>)}
          [] p.kind = "think" /\ mode \in {"plaintext", "summary"} -> {Responses!Reasoning(mode, Word(p))}
          [] p.kind = "silent think" /\ mode = "plaintext" -> {Responses!Reasoning(mode, Empty)}
          [] p.kind = "text"   -> {Responses!InputMessage("assistant", <<Responses!TextPart(Word(p))>>)}
          [] p.kind = "hosted" -> {Responses!HostedItem("web_search_call", <<"whole", p.n>>)}
          [] IsCall(p) -> {Responses!FunctionCall(p.n, ToolName, Arguments(p))}
          [] OTHER -> {}
      all  == FilterMap(Back, ps)
      kept == SelectAt(all, LAMBDA i : all[i].type = "reasoning"
                              => i < Len(all) /\ all[i + 1].type # "reasoning")
      bare == SomeIn(ps, IsCall) /\ ~SomeIn(all, LAMBDA item : item.type = "reasoning")
  IN  (IF bare /\ mode = "plaintext" /\ provider.thinking
       THEN <<Responses!Reasoning(mode, Empty)>> ELSE <<>>) \o kept

(* As long as one provider has answered and nothing was compacted, a       *)
(* request gives the server back what the adapter keeps of its turns, turn *)
(* by turn, once and in its place, and nothing it did not say, also around *)
(* broken-off turns.  What is kept is in ChatReplay, ResponsesReplay and   *)
(* AnthropicContent: not the text of a Chat turn that calls, not           *)
(* arguments that were cut (they become null), not a hosted item that      *)
(* failed, and a reasoning only where the API has a place for it.          *)
SaidIsReplayed ==
  awaiting /\ used \subseteq {"interrupt"} =>
    CASE provider.wire = "chat" ->
           Filter(sent, LAMBDA w : w.role = "assistant") = [i \in DOMAIN said |-> ChatReplay(said[i])]
      [] provider.wire = "responses" ->
           Filter(sent, LAMBDA w : ~OfUser(w)) = FlatMap(ResponsesReplay, said)
      [] provider.wire = "messages" ->
           Filter(sent, LAMBDA w : w.role = "assistant")
             = [i \in DOMAIN said |-> [role |-> "assistant", content |-> FilterMap(AnthropicContent, said[i])]]

(* A request begins with the whole request before it, so that the server   *)
(* finds the prefix in its cache: repairs, keys and placeholders made for  *)
(* one request are made again, in the same place, for every later one.     *)
PromptOnlyGrows ==
  [][~awaiting /\ awaiting' => IsPrefix(sent, sent')]_vars

-----------------------------------------------------------------------------
(* Compaction *)

\* s is what is left of t when some of its elements are taken away.
InOrder(s, t) == \E kept \in SUBSET DOMAIN t : s = SelectAt(t, LAMBDA i : i \in kept)

(* However often and with whatever strategy the messages are compacted,    *)
(* what is left of them is in order and ends with the newest; and as long  *)
(* as only summaries were made, no tool result has lost the call it        *)
(* answers, which stays in the message before it.                          *)
CompactionKeepsTheThread ==
  LET left == Filter(prompt, LAMBDA m : ~C!IsNote(m))
  IN  /\ InOrder(left, history)
      /\ history # <<>> => left # <<>> /\ LastOf(left) = LastOf(history)
      /\ used \subseteq {"interrupt", "switch", "llm_summary"} =>
           \A i \in DOMAIN prompt :
             {b.id : b \in ResultsIn(<<prompt[i]>>)}
               \subseteq (IF i = 1 THEN {} ELSE {b.id : b \in UsesIn(<<prompt[i - 1]>>)})
=============================================================================
