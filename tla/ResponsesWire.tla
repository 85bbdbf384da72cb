--------------------------- MODULE ResponsesWire ----------------------------
(***************************************************************************)
(* The Responses API (crates/agent-llm/src/responses.rs): how messages     *)
(* become input items, what is kept back because the server would refuse   *)
(* it, and how an output is read.                                          *)
(*                                                                         *)
(* A reasoning is carried in one of four ways (ReasoningMode): not at all, *)
(* as an encrypted block, as plain text, or as a summary.  The signature   *)
(* of a thinking block is a word: "reasoning" if it is one of ours with an *)
(* encrypted block, "bare" if that block is empty, "opaque" if another     *)
(* provider made it.                                                       *)
(***************************************************************************)
EXTENDS Messages

ReasoningMode == {"drop", "encrypted", "plaintext", "summary"}

Reasoning(form, t) == [type |-> "reasoning", form |-> form, text |-> t]
FunctionCall(id, name, arguments) ==
  [type |-> "function_call", id |-> id, name |-> name, arguments |-> arguments]
FunctionOutput(id, t) == [type |-> "function_call_output", id |-> id, text |-> t]
InputMessage(role, parts) == [type |-> "message", role |-> role, parts |-> parts]
HostedItem(type, data) == [type |-> type, data |-> data]

HostedWebTypes == {"web_search_call", "web_fetch_call", "web_extractor_call"}

(* encode_reasoning_signature and its inverse                              *)
DecodeReasoningSignature(w) == IF w[1] = "reasoning" THEN {w} ELSE {}

-----------------------------------------------------------------------------
(* message_to_items *)

TextPart(t) == [part |-> "text", text |-> t]

ResponsesPart(b) ==
  CASE b.block = "text" /\ b.text # <<>> -> {TextPart(b.text)}
    [] b.block = "image" -> {[part |-> "image", data |-> b.data]}
    [] b.block = "file" /\ b.media \in {"image", "pdf"} /\ b.data # {} ->
         {[part |-> b.media, data |-> CHOOSE d \in b.data : TRUE]}
    [] b.block = "file" /\ b.kind = "text" /\ (b.media \notin {"image", "pdf"} \/ b.data = {}) ->
         {TextPart(<<<<"file begins", 0>>>> \o FlattenSeq(SetToSeq(b.body)) \o <<<<"file ends", 0>>>>)}
    [] OTHER -> {}

UserItems(m) ==
  LET results == Filter(m.content, IsToolResult)
  IN  IF results = <<>>
      THEN <<InputMessage("user", FilterMap(ResponsesPart, m.content))>>
      ELSE [i \in DOMAIN results |-> FunctionOutput(results[i].id, results[i].text)]

ReasoningItem(b, mode) ==
  CASE mode = "encrypted" ->
         {Reasoning(mode, <<w>>) : w \in UNION {DecodeReasoningSignature(s) : s \in b.signature}}
    [] mode = "plaintext" -> {Reasoning(mode, b.text)}
    [] mode = "summary" -> IF b.text = <<>> THEN {} ELSE {Reasoning(mode, b.text)}
    [] mode = "drop" -> {}

Replayable(b) == b.type \in HostedWebTypes /\ b.data[1] = "whole"

(* The item a block of the assistant becomes; its text is collected.       *)
AssistantItem(b, mode) ==
  CASE IsThinking(b) -> ReasoningItem(b, mode)
    [] IsToolUse(b)  -> {FunctionCall(b.id, b.name, b.input)}
    [] b.block = "custom" /\ Replayable(b) -> {HostedItem(b.type, b.data)}
    [] OTHER -> {}

FlushAssistantText(acc) ==
  IF acc.buffer = <<>> THEN acc
  ELSE [items  |-> Append(acc.items, InputMessage("assistant", <<TextPart(acc.buffer)>>)),
        buffer |-> <<>>]

(* Mutant: an item overtakes the text that was collected before it. *)
AddAssistantBlockLate(acc, b, mode) ==
  IF b.block = "text" THEN [acc EXCEPT !.buffer = @ \o b.text]
  ELSE [acc EXCEPT !.items = @ \o SetToSeq(AssistantItem(b, mode))]

AddAssistantBlock(acc, b, mode) ==
  IF b.block = "text" THEN [acc EXCEPT !.buffer = @ \o b.text]
  ELSE IF AssistantItem(b, mode) = {} THEN acc
  ELSE [FlushAssistantText(acc) EXCEPT !.items = @ \o SetToSeq(AssistantItem(b, mode))]

AssistantItems(m, mode) ==
  LET added[i \in 0 .. Len(m.content)] ==
        IF i = 0 THEN [items |-> <<>>, buffer |-> <<>>]
        ELSE AddAssistantBlock(added[i - 1], m.content[i], mode)
  IN  FlushAssistantText(added[Len(m.content)]).items

MessageToItems(m, mode) == IF m.role = "user" THEN UserItems(m) ELSE AssistantItems(m, mode)

-----------------------------------------------------------------------------
(* sanitize_input_items: an output needs its call before it, and then a    *)
(* reasoning needs a product of the assistant right after it.              *)

WithoutOrphanOutputs(items) ==
  SelectAt(items, LAMBDA i :
    items[i].type = "function_call_output"
      => \E j \in 1 .. i - 1 : items[j].type = "function_call" /\ items[j].id = items[i].id)

IsReasoningProduct(item) ==
  \/ item.type \in HostedWebTypes \cup {"function_call"}
  \/ item.type = "message" /\ item.role = "assistant"

WithoutLooseReasoning(items) ==
  SelectAt(items, LAMBDA i :
    items[i].type = "reasoning"
      => i < Len(items) /\ IsReasoningProduct(items[i + 1]))

SanitizeInputItems(items) == WithoutLooseReasoning(WithoutOrphanOutputs(items))

(* build_body: DeepSeek in thinking mode wants a reasoning with every turn *)
(* that calls tools, if only an empty one.                                 *)
LacksReasoning(m) ==
  /\ m.role = "assistant"
  /\ SomeIn(m.content, IsToolUse)
  /\ ~SomeIn(m.content, IsThinking)

ItemsInThinking(m, mode, effort) ==
  IF mode = "plaintext" /\ effort # {"none"} /\ LacksReasoning(m)
  THEN <<Reasoning("plaintext", Empty)>> \o MessageToItems(m, mode)
  ELSE MessageToItems(m, mode)

ResponsesInput(ms, mode, effort) ==
  SanitizeInputItems(FlatMap(LAMBDA m : ItemsInThinking(m, mode, effort), ms))

-----------------------------------------------------------------------------
(* parse_responses_response_with_cache.  A reasoning in an output has      *)
(* encrypted content (an Option), a summary and a text, empty if missing.  *)

OutputReasoning(encrypted, summary, t) ==
  [type |-> "reasoning", encrypted |-> encrypted, summary |-> summary, text |-> t]

ParsedReasoning(item, mode) ==
  CASE mode = "encrypted" -> {Thinking(item.summary, {w}) : w \in item.encrypted}
    [] mode = "plaintext" -> {Thinking(item.text, {})}
    [] mode = "summary"   -> IF item.summary = <<>> THEN {} ELSE {Thinking(item.summary, {})}
    [] mode = "drop"      -> {}

ParseArguments(raw) == IF raw \in {"", "cut"} THEN "null" ELSE raw

ParsedItem(item, mode) ==
  CASE item.type = "reasoning"     -> ParsedReasoning(item, mode)
    [] item.type = "function_call" ->
         {ToolUse(item.id, item.name, ParseArguments(item.arguments))}
    [] item.type \in HostedWebTypes -> {Custom(item.type, item.data)}
    [] item.type = "message"       -> IF item.text = <<>> THEN {} ELSE {Text(item.text)}
    [] OTHER -> {}

ResponseStopReason(status, why, sawToolCall) ==
  IF sawToolCall THEN "tool_use"
  ELSE CASE status \in {"completed", ""} -> "end_turn"
         [] status = "incomplete" -> IF why = "max_output_tokens" THEN "max_tokens" ELSE why
         [] OTHER -> status

ParseResponsesResponse(r, mode) ==
  [content |-> FilterMap(LAMBDA item : ParsedItem(item, mode), r.output),
   stop    |-> ResponseStopReason(r.status, r.why,
                  SomeIn(r.output, LAMBDA item : item.type = "function_call"))]
=============================================================================
