------------------------------ MODULE ChatWire ------------------------------
(***************************************************************************)
(* Chat Completions (crates/agent-llm/src/openai.rs): how messages become  *)
(* the messages of a request, how a broken pairing of tool calls and       *)
(* results is repaired on the way, and how a response is read.             *)
(***************************************************************************)
EXTENDS Messages

InterruptedToolResult == <<<<"interrupted", 0>>>>

-----------------------------------------------------------------------------
(* sanitize_tool_pairing: works on a copy, and leaves healthy histories    *)
(* untouched.                                                              *)

Declared(ms) == {b.id : b \in UsesIn(ms)}
Answered(ms) == {b.id : b \in ResultsIn(ms)}

(* Mutant: results whose call is gone are sent. *)
WithOrphans(m, declared) == m.content

WithoutOrphans(m, declared) ==
  Filter(m.content, LAMBDA b : IsToolResult(b) => b.id \in declared)

(* One message with a placeholder for each of the unanswered calls.        *)
Placeholders(m, answered) ==
  LET open == Filter(ToolUses(m), LAMBDA b : b.id \notin answered)
  IN  [i \in DOMAIN open |->
         [role |-> "user", content |-> <<ToolResult(open[i].id, InterruptedToolResult, TRUE)>>]]

RepairedMessage(m, declared, answered) ==
  IF m.role = "assistant" THEN <<m>> \o Placeholders(m, answered)
  ELSE IF ~SomeIn(m.content, IsToolResult) THEN <<m>>
  ELSE IF WithoutOrphans(m, declared) = <<>> THEN <<>>
  ELSE <<[m EXCEPT !.content = WithoutOrphans(m, declared)]>>

(* Mutant: the placeholders go to the end of the request. *)
PlaceholdersLast(ms) ==
  LET plain(m) == RepairedMessage(m, Declared(ms), Declared(ms))
      open(m)  == Placeholders(m, Answered(ms))
  IN  FlatMap(plain, ms) \o FlatMap(open, ms)

SanitizeToolPairing(ms) ==
  IF Declared(ms) = Answered(ms) THEN ms
  ELSE FlatMap(LAMBDA m : RepairedMessage(m, Declared(ms), Answered(ms)), ms)

-----------------------------------------------------------------------------
(* messages_to_openai: results alone if there are any, else calls alone,   *)
(* else parts if there is an image, else one text.                         *)

AttachedFileText(b) ==
  <<<<"file begins", 0>>>> \o FlattenSeq(SetToSeq(b.body)) \o <<<<"file ends", 0>>>>
UnreadableFile == <<<<"unreadable file", 0>>>>

FileText(b) == IF b.kind = "text" THEN AttachedFileText(b) ELSE UnreadableFile

IsImage(b) == b.block = "image" \/ (b.block = "file" /\ b.media = "image")

TextContentWithFiles(m) ==
  FlatMap(LAMBDA b : CASE b.block = "text" -> b.text
                       [] b.block = "file" -> FileText(b)
                       [] OTHER -> <<>>, m.content)

ImagePart(d) == [part |-> "image", data |-> d]
TextPart(t)  == [part |-> "text", text |-> t]

ChatPart(b) ==
  CASE b.block = "text" /\ b.text # <<>>        -> {TextPart(b.text)}
    [] b.block = "image"                        -> {ImagePart({b.data})}
    [] b.block = "file" /\ IsImage(b) /\ b.data # {} -> {ImagePart(b.data)}
    [] b.block = "file"                         -> {TextPart(FileText(b))}
    [] OTHER -> {}

(* The texts of the thinking blocks, a line break between two of them.     *)
ReasoningText(m) ==
  LET texts == FilterMap(LAMBDA b : IF IsThinking(b) THEN {b.text} ELSE {}, m.content)
      lines == FlattenSeq([i \in DOMAIN texts |->
                 IF i = 1 THEN texts[i] ELSE <<<<"line break", 0>>>> \o texts[i]])
  IN  IF lines = <<>> THEN {} ELSE {lines}

ToolMessage(b) == [role |-> "tool", id |-> b.id, text |-> b.text]
CallOf(b)      == [id |-> b.id, name |-> b.name, arguments |-> b.input]
IsToolTurn(w)  == w.role = "assistant" /\ "calls" \in DOMAIN w

ToolTurn(m, reasoning) ==
  [role |-> "assistant", reasoning |-> reasoning,
   calls |-> [i \in DOMAIN ToolUses(m) |-> CallOf(ToolUses(m)[i])]]

MessagesToOpenAi(m, echo) ==
  LET results   == Filter(m.content, IsToolResult)
      reasoning == IF echo THEN ReasoningText(m) ELSE {}
  IN  CASE results # <<>> -> [i \in DOMAIN results |-> ToolMessage(results[i])]
        [] results = <<>> /\ ToolUses(m) # <<>> -> <<ToolTurn(m, reasoning)>>
        [] OTHER ->
             IF m.role = "user" /\ SomeIn(m.content, IsImage)
             THEN <<[role |-> "user", parts |-> FilterMap(ChatPart, m.content)]>>
             ELSE <<[role |-> m.role, text |-> TextContentWithFiles(m),
                     reasoning |-> IF m.role = "assistant" THEN reasoning ELSE {}]>>

(* apply_key_emission: keys that must be there, if only with an empty      *)
(* value.  A reasoning is an Option, a name is added to tool messages.     *)
NameOf(id, ms) ==
  IF \E b \in UsesIn(ms) : b.id = id
  THEN (CHOOSE b \in UsesIn(ms) : b.id = id).name
  ELSE ""

KeyEmission(w, deepseekThinking, ms) ==
  IF w.role = "tool" THEN [role |-> "tool", id |-> w.id, text |-> w.text, name |-> NameOf(w.id, ms)]
  ELSE IF deepseekThinking /\ IsToolTurn(w) /\ w.reasoning = {}
       THEN [w EXCEPT !.reasoning = {Empty}]
       ELSE w

ChatMessages(ms, echo, deepseekThinking) ==
  LET wire == FlatMap(LAMBDA m : MessagesToOpenAi(m, echo), SanitizeToolPairing(ms))
  IN  [i \in DOMAIN wire |-> KeyEmission(wire[i], deepseekThinking, ms)]

-----------------------------------------------------------------------------
(* parse_openai_response.  A response has a text, calls and a reason; the  *)
(* arguments of a call that are not JSON become null.                      *)

ParsedArguments(a) == IF a = "cut" THEN "null" ELSE a

ParseFinishReason(s) ==
  CASE s = "stop" -> "end_turn"
    [] s = "tool_calls" -> "tool_use"
    [] s = "length" -> "max_tokens"
    [] OTHER -> s

ParseOpenAiResponse(r) ==
  [content |-> (IF r.text = <<>> THEN <<>> ELSE <<Text(r.text)>>)
               \o [i \in DOMAIN r.calls |->
                     ToolUse(r.calls[i].id, r.calls[i].name, ParsedArguments(r.calls[i].arguments))],
   stop |-> ParseFinishReason(r.finish)]
=============================================================================
