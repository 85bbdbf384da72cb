----------------------------- MODULE SseParsers -----------------------------
(***************************************************************************)
(* What the three parsers of crates/agent-llm make of a stream of          *)
(* server-sent events: openai.rs for Chat Completions ("chat"),            *)
(* responses.rs for Responses and anthropic.rs for Messages.  A frame is   *)
(* what a complete event says about the turn: the tool calls it is about,  *)
(* a reason to stop, a sequence number (Responses only, 0 for none), and   *)
(* the tokens it counts (Chat, and message_start).  The parser's buffer is *)
(* left out: the bytes of an event that is not complete change nothing but *)
(* the time of the last activity ("other").                                *)
(*                                                                         *)
(* An event given to the consumer is a completed tool call, a usage with   *)
(* what it counts, or a stop with its reason.  Text, reasoning, deltas and *)
(* the start of a call pass through without touching the parser's state.   *)
(***************************************************************************)
EXTENDS Naturals, Sequences, SequencesExt, FiniteSets

CONSTANT Calls   \* tool calls, the numbers that are their place in the turn

ASSUME CallsAssumption == Calls \subseteq Nat /\ IsFiniteSet(Calls)

Wires == {"chat", "responses", "messages"}

(* MaxTokens, or another word of the server for a turn it cut short.       *)
Normal   == {"end", "tools"}
Short    == "short"
Abnormal == {"idle", "transport", "error"}   \* is_abnormal_stop, and a server's error

(* What a usage counts: the tokens of message_start, those of a turn that  *)
(* goes on (zeros where it is null), those told with its end.              *)
Counts == {"start", "sofar", "total"}
Once   == {"start", "total"}

Complete(c) == [type |-> "complete", call |-> c, reason |-> "none"]
Stop(r)     == [type |-> "stop", call |-> 0, reason |-> r]
Usage(k)    == [type |-> "usage", call |-> 0, reason |-> k]

Events == {Complete(c) : c \in Calls} \cup {Stop(r) : r \in Normal \cup {Short} \cup Abnormal}
            \cup {Usage(k) : k \in Counts}

Frame(t, S, r, n) == [type |-> t, calls |-> S, reason |-> r, seq |-> n, usage |-> "none"]

(* tool_args, tools: calls begun; completed_calls; the flags.              *)
NoParser == [open |-> {}, completed |-> {}, sawTool |-> FALSE, last |-> 0,
             pending |-> "none", stopped |-> FALSE]

ParserType == [open : SUBSET Calls, completed : SUBSET Calls, sawTool : BOOLEAN, last : Nat,
               pending : Normal \cup {Short, "none"}, stopped : BOOLEAN]

(* One event for each call, in their order.                                *)
Completions(S) ==
  [i \in 1 .. Cardinality(S) |->
     Complete(CHOOSE c \in S : Cardinality({d \in S : d < c}) = i - 1)]

Reason(S) == IF S = {} THEN "end" ELSE "tools"

(* Most steps leave the parser and add some events.                        *)
Result(p, es) == [parser |-> p, events |-> es]

-----------------------------------------------------------------------------
(* Chat Completions *)

(* Mutant: only the first call is completed.                               *)
FinishFirstOnly(open, reason) ==
  (IF open = {} THEN <<>> ELSE <<Complete(CHOOSE c \in open : \A d \in open : c <= d)>>)
    \o <<Stop(reason)>>

FinishOpenAiTurn(open, reason) == Completions(open) \o <<Stop(reason)>>

(* A frame with a usage, be it null, gives one, after the stop as before.  *)
ChatUsage(f) == IF f.usage = "none" THEN <<>> ELSE <<Usage(f.usage)>>

ParseOneOpenAi(p, f) ==
  LET open == p.open \cup f.calls
  IN IF f.reason = "none"
     THEN Result([p EXCEPT !.open = open], ChatUsage(f))
     ELSE Result([p EXCEPT !.open = {}, !.stopped = TRUE],
                 FinishOpenAiTurn(open, f.reason) \o ChatUsage(f))

(* [DONE] ends a turn that had no finish_reason.                           *)
ChatDone(p) ==
  IF p.stopped THEN Result(p, <<>>)
  ELSE Result([p EXCEPT !.open = {}, !.stopped = TRUE], FinishOpenAiTurn(p.open, Reason(p.open)))

ParseOpenAiSse(p, f) == CASE f.type = "delta" -> ParseOneOpenAi(p, f)
                          [] f.type = "done"  -> ChatDone(p)
                          [] OTHER            -> Result(p, <<>>)

-----------------------------------------------------------------------------
(* Responses *)

(* The calls of the final frame that no frame of their own has completed.  *)
DrainFinalOutput(p, calls) == calls \ p.completed

ResponsesStop(p, reason) == IF p.stopped THEN <<>> ELSE <<Stop(reason)>>

(* A turn that has seen a call stops for its tools, whatever its status.   *)
ResponseStopReason(saw, reason) ==
  IF saw THEN "tools" ELSE IF reason = Short THEN Short ELSE "end"

(* response.completed, and response.incomplete, the reason of which is     *)
(* Short.                                                                  *)
ResponseCompleted(p, f) ==
  LET left == DrainFinalOutput(p, f.calls)
      saw  == p.sawTool \/ left # {}
  IN Result([p EXCEPT !.completed = @ \cup left, !.sawTool = saw, !.stopped = TRUE],
            Completions(left) \o <<Usage("total")>>
              \o ResponsesStop(p, ResponseStopReason(saw, f.reason)))

(* Mutant: a frame is taken again when it comes again.                     *)
NeverReplayed(p, f) == FALSE

(* The server's gateway may send again what it has sent.                   *)
Replayed(p, f) == f.seq # 0 /\ f.seq <= p.last

ParseOneResponsesEvent(p, f) ==
  LET q == IF f.seq = 0 THEN p ELSE [p EXCEPT !.last = f.seq]
  IN CASE Replayed(p, f) -> Result(p, <<>>)
       [] f.type = "added" /\ ~ Replayed(p, f) -> Result([q EXCEPT !.sawTool = TRUE], <<>>)
       [] f.type = "item" /\ ~ Replayed(p, f) ->
            Result([q EXCEPT !.completed = @ \cup f.calls],
                   Completions(DrainFinalOutput(p, f.calls)))
       [] f.type = "completed" /\ ~ Replayed(p, f) -> ResponseCompleted(q, f)
       [] f.type = "error" /\ ~ Replayed(p, f) ->
            Result([q EXCEPT !.stopped = TRUE], ResponsesStop(p, "error"))
       [] OTHER -> Result(q, <<>>)

ParseResponsesSse(p, f) ==
  IF f.type = "done"
  THEN Result([p EXCEPT !.stopped = TRUE],
              ResponsesStop(p, IF p.sawTool THEN "tools" ELSE "end"))
  ELSE ParseOneResponsesEvent(p, f)

-----------------------------------------------------------------------------
(* Messages *)

(* A message_delta with a reason and output tokens keeps its stop for      *)
(* message_stop; one without tokens ("bare") is the stop, and one without  *)
(* a reason counts tokens only.                                            *)
MessageDelta(p, f) ==
  CASE f.type = "delta" /\ f.reason # "none" ->
         Result([p EXCEPT !.pending = f.reason], <<Usage("total")>>)
    [] f.type = "delta" /\ f.reason = "none" -> Result(p, <<Usage("sofar")>>)
    [] f.type = "bare" -> Result(p, <<Stop(f.reason)>>)

MessageStop(p) ==
  Result([p EXCEPT !.pending = "none"],
         IF p.pending = "none" THEN <<>> ELSE <<Stop(p.pending)>>)

ParseOneSse(p, f) ==
  CASE f.type = "message_start" -> Result(p, <<Usage(f.usage)>>)
    [] f.type = "start" -> Result([p EXCEPT !.open = @ \cup f.calls], <<>>)
    [] f.type = "stop"  -> Result([p EXCEPT !.open = @ \ f.calls], Completions(p.open \cap f.calls))
    [] f.type \in {"delta", "bare"} -> MessageDelta(p, f)
    [] f.type = "message_stop" -> MessageStop(p)
    [] f.type = "error" -> Result(p, <<Stop("error")>>)
    [] OTHER -> Result(p, <<>>)

-----------------------------------------------------------------------------

Parse(wire, p, f) == CASE wire = "chat"      -> ParseOpenAiSse(p, f)
                       [] wire = "responses" -> ParseResponsesSse(p, f)
                       [] wire = "messages"  -> ParseOneSse(p, f)

(* Mutant: a stream that was cut ends like one that was complete.          *)
BrokenQuietly(wire, p, why) ==
  Result([p EXCEPT !.stopped = TRUE], IF p.stopped THEN <<>> ELSE <<Stop("end")>>)

(* The byte stream fails: a stop that tells so, unless the parser has told *)
(* one.  The Messages parser does not remember whether it has, and tells   *)
(* both failures as a transport error.                                     *)
Broken(wire, p, why) ==
  IF wire = "messages" THEN Result(p, <<Stop("transport")>>)
  ELSE Result([p EXCEPT !.stopped = TRUE], ResponsesStop(p, why))
=============================================================================
