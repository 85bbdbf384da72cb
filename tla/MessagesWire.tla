---------------------------- MODULE MessagesWire ----------------------------
(***************************************************************************)
(* The Messages API (crates/agent-llm/src/anthropic.rs): how messages      *)
(* become the messages of a request, and how a response is read.  Its      *)
(* blocks are the ones of our messages, so most go as they are; nothing is *)
(* repaired.                                                               *)
(***************************************************************************)
EXTENDS Messages

(* The types a hosted block may have: a call of a server's tool, or its    *)
(* result, whose name ends with _tool_result.                              *)
HostedContentTypes == {"server_tool_use", "web_search_tool_result", "web_fetch_tool_result"}

ContentText(t) == [type |-> "text", text |-> t]
ContentData(type, d) == [type |-> type, data |-> d]

AnthropicFile(b) ==
  IF b.media = "image" THEN ContentData("image", FlattenSeq(SetToSeq(b.data)))
  ELSE IF b.media = "pdf" THEN ContentData("document", FlattenSeq(SetToSeq(b.data)))
  ELSE ContentText(<<<<"file begins", 0>>>> \o FlattenSeq(SetToSeq(b.body)) \o <<<<"file ends", 0>>>>)

ContentBlockToAnthropic(b) ==
  CASE b.block = "text"     -> ContentText(b.text)
    [] b.block = "thinking" -> [type |-> "thinking", text |-> b.text, signature |-> b.signature]
    [] b.block = "tool_use" -> [type |-> "tool_use", id |-> b.id, name |-> b.name, input |-> b.input]
    [] b.block = "tool_result" ->
         [type |-> "tool_result", id |-> b.id, text |-> b.text, is_error |-> b.is_error]
    [] b.block = "image"    -> ContentData("image", b.data)
    [] b.block = "file"     -> AnthropicFile(b)
    [] b.block = "attachment" -> ContentText(<<<<"unresolved attachment", 0>>>>)
    [] b.block = "custom"   ->
         IF b.type \in HostedContentTypes
         THEN [type |-> b.type, data |-> b.data]
         ELSE ContentText(<<<<"custom", 0>>>>)

MessageToAnthropic(m) ==
  [role |-> m.role, content |-> [i \in DOMAIN m.content |-> ContentBlockToAnthropic(m.content[i])]]

AnthropicMessages(ms) == [i \in DOMAIN ms |-> MessageToAnthropic(ms[i])]

-----------------------------------------------------------------------------
(* parse_anthropic_response *)

ParsedContent(c) ==
  CASE c.type = "text"     -> {Text(c.text)}
    [] c.type = "tool_use" -> {ToolUse(c.id, c.name, c.input)}
    [] c.type = "thinking" -> {Thinking(c.text, c.signature)}
    [] c.type \in HostedContentTypes -> {Custom(c.type, c.data)}
    [] OTHER -> {}

ParseStopReason(s) ==
  IF s \in {"end_turn", "tool_use", "max_tokens", "stop_sequence"} THEN s ELSE "other"

ParseAnthropicResponse(r) ==
  [content |-> FilterMap(ParsedContent, r.content), stop |-> ParseStopReason(r.stop)]
=============================================================================
