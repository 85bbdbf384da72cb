------------------------------ MODULE Messages ------------------------------
(***************************************************************************)
(* Messages and their content blocks (crates/agent-contract/src/message.rs *)
(* and assert_no_unresolved_attachments of crates/agent-llm/src/lib.rs).   *)
(*                                                                         *)
(* A text is a sequence of words and a word is a pair <<kind, number>>.    *)
(* Of a file the tokens of its media type that the adapters look at are    *)
(* kept: image, pdf or other.  An Option is a set of at most one element.  *)
(***************************************************************************)
EXTENDS Naturals, Sequences, FiniteSets, SequencesExt

Empty == <<>>

Text(t)            == [block |-> "text", text |-> t]
Thinking(t, sig)   == [block |-> "thinking", text |-> t, signature |-> sig]
ToolUse(id, name, input) ==
  [block |-> "tool_use", id |-> id, name |-> name, input |-> input]
ToolResult(id, t, bad) ==
  [block |-> "tool_result", id |-> id, text |-> t, is_error |-> bad]
Image(d)           == [block |-> "image", data |-> d]
File(kind, media, data, body) ==   \* data and body are Options
  [block |-> "file", kind |-> kind, media |-> media, data |-> data, body |-> body]
Attachment(d)      == [block |-> "attachment", data |-> d]
Custom(type, data) == [block |-> "custom", type |-> type, data |-> data]

UserText(t)      == [role |-> "user", content |-> <<Text(t)>>]
AssistantText(t) == [role |-> "assistant", content |-> <<Text(t)>>]

(* A note of the system is carried by the assistant: there are two roles.  *)
SystemText(t)    == AssistantText(t)

IsToolUse(b)    == b.block = "tool_use"
IsToolResult(b) == b.block = "tool_result"
IsThinking(b)   == b.block = "thinking"

AsText(b) == CASE b.block = "text" -> {b.text}
               [] b.block = "file" -> b.body
               [] OTHER -> {}

CancelledToolResult(id) == ToolResult(id, <<<<"cancelled", 0>>>>, TRUE)

-----------------------------------------------------------------------------
(* Sequences *)

\* The results of F, which are sequences, one after the other.
FlatMap(F(_), s) == FlattenSeq([i \in DOMAIN s |-> F(s[i])])

\* The elements of the Options that F gives, in order.
FilterMap(F(_), s) ==
  LET One(x) == IF F(x) = {} THEN <<>> ELSE <<CHOOSE y \in F(x) : TRUE>>
  IN  FlatMap(One, s)

\* The elements of s at the positions that Keep allows.
SelectAt(s, Keep(_)) ==
  LET kept[i \in 0 .. Len(s)] ==
        IF i = 0 THEN <<>> ELSE IF Keep(i) THEN Append(kept[i - 1], s[i]) ELSE kept[i - 1]
  IN  kept[Len(s)]

\* The elements of s that pass the test.
Filter(s, Test(_)) == SelectAt(s, LAMBDA i : Test(s[i]))

SomeIn(s, Test(_)) == \E i \in DOMAIN s : Test(s[i])

-----------------------------------------------------------------------------
(* Messages *)

TextContent(m) == FlattenSeq(FilterMap(AsText, m.content))
ToolUses(m)    == Filter(m.content, IsToolUse)

UsesIn(ms)    == {b \in UNION {ToSet(ms[i].content) : i \in DOMAIN ms} : IsToolUse(b)}
ResultsIn(ms) == {b \in UNION {ToSet(ms[i].content) : i \in DOMAIN ms} : IsToolResult(b)}

(* The estimate is a quarter of the bytes, rounded down for each block: a  *)
(* word has six bytes, and whatever is not text counts ten.                *)
TextTokens(t) == (6 * Len(t)) \div 4

BlockTokens(b) ==
  CASE b.block \in {"text", "thinking", "tool_result"} -> TextTokens(b.text)
    [] b.block = "tool_use" -> TextTokens(<<b.input>>)
    [] b.block = "file" /\ b.body # {} -> TextTokens(CHOOSE t \in b.body : TRUE)
    [] OTHER -> 10

EstimateTokens(ms) ==
  LET blocks == FlatMap(LAMBDA m : m.content, ms)
  IN  FoldLeft(LAMBDA sum, b : sum + BlockTokens(b), 0, blocks)

AssertNoUnresolvedAttachments(ms) ==
  \A i \in DOMAIN ms : ~SomeIn(ms[i].content, LAMBDA b : b.block = "attachment")
=============================================================================
