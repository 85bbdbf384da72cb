----------------------------- MODULE Compaction -----------------------------
(***************************************************************************)
(* The three compaction strategies and their manager                       *)
(* (crates/agent-compaction/src/strategies.rs and manager.rs), as          *)
(* functions of the messages of a session.                                 *)
(*                                                                         *)
(* A strategy is a record: its name and its numbers.  Compacting gives     *)
(* either messages or an error, in which case nothing is installed.  The   *)
(* answer of the provider that writes summaries is an argument.            *)
(***************************************************************************)
EXTENDS Messages

SlidingWindow(first, recent) ==
  [name |-> "sliding_window", keep_first |-> first, keep_recent |-> recent]
LlmSummary(trigger)     == [name |-> "llm_summary", trigger_messages |-> trigger]
Smart(trigger, recent)  == [name |-> "smart", trigger_messages |-> trigger, keep_recent |-> recent]

(* With no recent messages nothing is left of what a request is about.     *)
Strategy ==
       [name : {"sliding_window"}, keep_first : Nat, keep_recent : Nat \ {0}]
  \cup [name : {"llm_summary"}, trigger_messages : Nat]
  \cup [name : {"smart"}, trigger_messages : Nat, keep_recent : Nat \ {0}]

Ok(ms)   == [ok |-> TRUE, messages |-> ms]
Err(why) == [ok |-> FALSE, error |-> why]

Note(t) == SystemText(<<<<"note", 0>>>> \o t)
IsNote(m) == Contains(TextContent(m), <<"note", 0>>)

-----------------------------------------------------------------------------
(* strategies.rs *)

SlidingCompact(s, ms) ==
  IF Len(ms) <= s.keep_recent + s.keep_first
  THEN Ok(ms)
  ELSE Ok(SubSeq(ms, 1, s.keep_first)
          \o <<Note(<<>>)>>
          \o SubSeq(ms, Len(ms) - s.keep_recent + 1, Len(ms)))

(* Mutant: half of the messages, wherever that is. *)
HalfSplit(ms) == Len(ms) \div 2

(* Half of the messages, and one more if that would part a tool call from  *)
(* its result.                                                             *)
AtomicSummarySplit(ms) ==
  LET split == Len(ms) \div 2
  IN  IF /\ split # 0
         /\ SomeIn(ms[split].content, IsToolUse)
         /\ SomeIn(ms[split + 1].content, IsToolResult)
      THEN split + 1
      ELSE split

(* The answer is {} when the provider fails, or {[stop, text]}.            *)
SummaryCompact(ms, answer) ==
  LET split == AtomicSummarySplit(ms)
  IN  IF split = 0 THEN Ok(ms)
      ELSE IF answer = {} THEN Err("provider")
      ELSE LET a == CHOOSE a \in answer : TRUE
           IN  IF a.stop = "max_tokens" THEN Err("cut")
               ELSE IF a.text = <<>> THEN Err("empty")
               ELSE Ok(<<Note(a.text)>> \o SubSeq(ms, split + 1, Len(ms)))

(* The first message, the last ones and every message with a tool result.  *)
Preserved(s, ms) ==
  {i \in DOMAIN ms : \/ i = 1
                     \/ i + s.keep_recent > Len(ms)
                     \/ SomeIn(ms[i].content, IsToolResult)}

SmartCompact(s, ms) ==
  LET kept == SelectAt(ms, LAMBDA i : i \in Preserved(s, ms))
  IN  Ok(kept \o IF Len(kept) < Len(ms) THEN <<Note(<<>>)>> ELSE <<>>)

ShouldCompact(s, ms, max) ==
  CASE s.name = "sliding_window" -> EstimateTokens(ms) > (max * 80) \div 100
    [] OTHER -> Len(ms) > s.trigger_messages

Compact(s, ms, answer) ==
  CASE s.name = "sliding_window" -> SlidingCompact(s, ms)
    [] s.name = "llm_summary"    -> SummaryCompact(ms, answer)
    [] s.name = "smart"          -> SmartCompact(s, ms)

-----------------------------------------------------------------------------
(* manager.rs *)

NewManager == <<SlidingWindow(2, 10), Smart(30, 10)>>

FirstDue(strategies, max, ms) ==
  SelectInSeq(strategies, LAMBDA s : ShouldCompact(s, ms, max))

AutoCompact(strategies, max, ms, answer) ==
  LET first == FirstDue(strategies, max, ms)
  IN  IF first = 0 THEN Ok(ms) ELSE Compact(strategies[first], ms, answer)

CompactWith(strategies, name, ms, answer) ==
  LET found == SelectInSeq(strategies, LAMBDA s : s.name = name)
  IN  IF found = 0 THEN Err("strategy_not_found") ELSE Compact(strategies[found], ms, answer)
=============================================================================
