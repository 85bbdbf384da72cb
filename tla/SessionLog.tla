----------------------------- MODULE SessionLog -----------------------------
(***************************************************************************)
(* The JSONL log of one session (crates/agent-store/src/session_store.rs): *)
(* what its lines are, what load makes of them, and what the functions     *)
(* that write the file do to its bytes.                                    *)
(*                                                                         *)
(* A line is the record it parses to, or what is wrong with it.  A file is *)
(* its newline-terminated lines followed by a tail: no bytes, or one       *)
(* unterminated piece of a record.  Every record has the same length, so   *)
(* byte offsets are line numbers.                                          *)
(***************************************************************************)
EXTENDS Naturals, Sequences, FiniteSets, SequencesExt

CONSTANTS Messages,     \* contents of messages
          Operations,   \* operation ids of durable user messages
          WordSize      \* 2^32 in the code: totals and counters are u32

ASSUME WordSizeAssumption == WordSize \in Nat \ {0}

(* The variants of SessionEvent.  A staged message and its cancellation    *)
(* are System events; every other System event and RequestHeader is Note,  *)
(* ToolCall and ToolResult are both Tool.                                  *)
Meta             == [kind |-> "meta"]
Message(m)       == [kind |-> "message", message |-> m]
Snapshot(ms)     == [kind |-> "snapshot", messages |-> ms]
Projection(opt)  == [kind |-> "projection", option |-> opt]
Usage(n)         == [kind |-> "usage", tokens |-> n]
Tool             == [kind |-> "tool"]
Note             == [kind |-> "note"]
Stage(op, m)     == [kind |-> "stage", op |-> op, message |-> m]
Cancel(op)       == [kind |-> "cancel", op |-> op]

(* Lines that are no record: JSON cut short or two pieces glued together,  *)
(* bytes that are not UTF-8, and an empty line.                            *)
Garbage  == [kind |-> "garbage"]
BadUtf8  == [kind |-> "badutf8"]
Blank    == [kind |-> "blank"]

(* An Option is a set of at most one element.                              *)
None == {}

LogRecord == {Meta, Tool, Note}
        \cup [kind : {"message"}, message : Messages]
        \cup [kind : {"snapshot"}, messages : Seq(Messages)]
        \cup [kind : {"projection"}, option : SUBSET Seq(Messages)]
        \cup [kind : {"usage"}, tokens : Nat]
        \cup [kind : {"stage"}, op : Operations, message : Messages]
        \cup [kind : {"cancel"}, op : Operations]

Line == LogRecord \cup {Garbage, BadUtf8, Blank}

-----------------------------------------------------------------------------
(* load *)

StagedIn(lines, op) == \E i \in 1 .. Len(lines) :
                          lines[i].kind = "stage" /\ lines[i].op = op

CancelledIn(lines, op) == \E i \in 1 .. Len(lines) :
                             lines[i].kind = "cancel" /\ lines[i].op = op

(* Mutant: the first pass takes every durable record for a cancellation.   *)
CancelledByAnyRecord(lines) ==
  {op \in Operations : CancelledIn(lines, op) \/ StagedIn(lines, op)}

(* cancelled_durable_operation_id over the whole file, the first pass.     *)
CancelledOps(lines) == {op \in Operations : CancelledIn(lines, op)}

EmptyView == [meta |-> FALSE, messages |-> <<>>, projection |-> None,
              usage |-> 0, tools |-> 0, materialized |-> {}]

(* Mutant: once there is a projection, messages go to it alone.            *)
PushToOne(view, m) ==
  IF view.projection = None THEN [view EXCEPT !.messages = Append(@, m)]
  ELSE [view EXCEPT !.projection = {Append(p, m) : p \in @}]

(* A message goes to the transcript, and to the projection if there is one. *)
Push(view, m) == [view EXCEPT !.messages = Append(@, m),
                              !.projection = {Append(p, m) : p \in @}]

(* Mutants: a snapshot leaves the projection as it was, or starts the      *)
(* totals again.                                                           *)
SnapshotKeepsProjection(view, messages) == [view EXCEPT !.messages = messages]

SnapshotResetsTotals(view, messages) ==
  [EmptyView EXCEPT !.meta = view.meta, !.messages = messages,
                    !.materialized = view.materialized]

TakeSnapshot(view, messages) ==
  [view EXCEPT !.messages = messages, !.projection = None]

(* Mutant: a compaction replaces the transcript as well.                   *)
ProjectionReplaces(view, option) ==
  [view EXCEPT !.projection = option,
               !.messages = IF option = None THEN @ ELSE CHOOSE p \in option : TRUE]

TakeProjection(view, option) == [view EXCEPT !.projection = option]

(* Mutants: cancellations are not looked at, or the set of operations      *)
(* already materialized is not.                                            *)
MaterializeCancelled(cancelled, view, r) ==
  IF r.op \in view.materialized THEN view
  ELSE [Push(view, r.message) EXCEPT !.materialized = @ \cup {r.op}]

MaterializeAgain(cancelled, view, r) ==
  IF r.op \in cancelled THEN view ELSE Push(view, r.message)

(* A staged message becomes a normal one, once, unless it was cancelled.   *)
Materialize(cancelled, view, r) ==
  IF r.op \in cancelled \cup view.materialized THEN view
  ELSE [Push(view, r.message) EXCEPT !.materialized = @ \cup {r.op}]

(* The second pass: one event folded into the view of the session.         *)
Fold(cancelled, view, r) ==
  CASE r.kind = "meta"       -> [view EXCEPT !.meta = TRUE]
    [] r.kind = "message"    -> Push(view, r.message)
    [] r.kind = "snapshot"   -> TakeSnapshot(view, r.messages)
    [] r.kind = "projection" -> TakeProjection(view, r.option)
    [] r.kind = "usage"      -> [view EXCEPT !.usage = (@ + r.tokens) % WordSize]
    [] r.kind = "tool"       -> [view EXCEPT !.tools = (@ + 1) % WordSize]
    [] r.kind = "stage"      -> Materialize(cancelled, view, r)
    [] OTHER                 -> view

Replay(lines) == FoldLeft(LAMBDA view, r : Fold(CancelledOps(lines), view, r),
                          EmptyView, lines)

-----------------------------------------------------------------------------
(* The file *)

Piece       == [whole : LogRecord \cup {Garbage}, reads : Line]
FileContent == [lines : Seq(Line), tail : Seq(Piece)]

EmptyFile == [lines |-> <<>>, tail |-> <<>>]

(* A piece of the record whole, which reads as the line reads: cut inside  *)
(* the JSON, inside a character, or just before the newline.               *)
Fragments(whole) == {[whole |-> whole, reads |-> l] : l \in {Garbage, BadUtf8, whole}}

(* What content.lines() yields.                                            *)
Text(file) == file.lines \o [i \in 1 .. Len(file.tail) |-> file.tail[i].reads]

(* read_to_string fails on bytes that are not UTF-8, from_str on every     *)
(* line that is neither blank nor a record, and a log without Meta is      *)
(* refused.                                                                *)
LoadError(file) ==
  LET text == Text(file) IN
  CASE \E i \in 1 .. Len(text) : text[i] = BadUtf8 -> "SessionNotFound"
    [] \E i \in 1 .. Len(text) : text[i] = Garbage -> "Json"
    [] OTHER -> IF Replay(text).meta THEN "none" ELSE "InvalidSession"

Loads(file) == LoadError(file) = "none"

(* Mutant: a session that has nothing but its Meta is left out.            *)
ListedIfUsed(file) == LET text == Text(file) IN
                      /\ \A i \in 1 .. Len(text) : text[i] # BadUtf8
                      /\ Len(text) > 1 /\ text[1] = Meta

(* read_meta, for list: the first line alone decides.                      *)
Listed(file) == LET text == Text(file) IN
                /\ \A i \in 1 .. Len(text) : text[i] # BadUtf8
                /\ text # <<>> /\ text[1] = Meta

(* Bytes added at the end of a file whose last line is unterminated glue   *)
(* the first record to it.                                                 *)
Glued(piece) == IF piece.reads = BadUtf8 THEN BadUtf8 ELSE Garbage

AppendLines(file, records) ==
  IF file.tail = <<>> \/ records = <<>>
  THEN [lines |-> file.lines \o records, tail |-> file.tail]
  ELSE [lines |-> file.lines \o <<Glued(file.tail[1])>> \o Tail(records),
        tail  |-> <<>>]

(* Mutant: the beginning stays a line of its own.                          *)
CompleteAsLine(file, record) ==
  [lines |-> Append(file.lines \o file.tail, record), tail |-> <<>>]

(* The rest of a record whose beginning was written before: it completes   *)
(* that record if the beginning is still the tail of the file, and is      *)
(* garbage otherwise.                                                      *)
CompleteTail(file, record) ==
  IF file.tail # <<>> /\ file.tail[1].whole = record
  THEN [lines |-> Append(file.lines, record), tail |-> <<>>]
  ELSE AppendLines(file, <<Garbage>>)

(* set_len(n lines): drops what is beyond, or fills with NULs up to there. *)
SetLen(file, n) ==
  IF n <= Len(file.lines)
  THEN [lines |-> SubSeq(file.lines, 1, n), tail |-> <<>>]
  ELSE [lines |-> file.lines,
        tail  |-> <<[whole |-> Garbage, reads |-> Garbage]>>]

(* A write at offset 0 leaves what the file has beyond the written bytes.  *)
Overwrite(file, lines) ==
  IF Len(lines) > Len(file.lines)
  THEN [lines |-> lines, tail |-> <<>>]
  ELSE [lines |-> [i \in 1 .. Len(file.lines) |->
                     IF i <= Len(lines) THEN lines[i] ELSE file.lines[i]],
        tail  |-> file.tail]

(* Mutant: the last complete line is cut off with the torn one.            *)
RecoveredShort(file) ==
  IF file.lines = <<>> THEN <<>> ELSE SubSeq(file.lines, 1, Len(file.lines) - 1)

(* recover: ends_with('\n'), and the text it writes back when it does not. *)
EndsWithNewline(file) == file.tail = <<>> /\ file.lines # <<>>

Recovered(file) ==
  IF Text(file) = <<>> THEN <<>>
  ELSE IF file.lines = <<>> THEN <<Blank>>
  ELSE file.lines

(* Mutant: any durable record counts as the one looked for.                *)
HasAnyDurableId(lines, key) ==
  \E i \in 1 .. Len(lines) : lines[i].kind \in {"stage", "cancel"}

(* append_once: the key of a record is durable_operation_id, the operation *)
(* id of a stage or of a cancel record.                                    *)
HasDurableId(lines, key) == StagedIn(lines, key) \/ CancelledIn(lines, key)
=============================================================================
