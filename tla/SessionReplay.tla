--------------------------- MODULE SessionReplay ---------------------------
(***************************************************************************)
(* A session log as a running application writes it, and what load makes   *)
(* of it.  The store is crates/agent-store/src/session_store.rs; the       *)
(* runtime that decides what to append is the application outside this     *)
(* repository, and is modelled by the variants of SessionEvent it has:     *)
(* it appends messages and audit lines, stages a user message before the   *)
(* running model accepts or rejects it, saves its working set as a         *)
(* snapshot, sets or clears the model projection, and restarts from load.  *)
(* Appends are whole here; SessionStore is about how they reach the file.  *)
(***************************************************************************)
EXTENDS SessionLog

CONSTANTS Summary,              \* the message a compaction leaves
          MaxLines,             \* bound on the length of the log
          MaxRestarts,          \* bound on restarts of the application
          SnapshotWhilePending  \* may a snapshot be saved while a staged
                                \* message is neither accepted nor rejected?

(* A staged message has the content of its operation; a summary is one.    *)
ASSUME NamesAssumption == Operations \cup {Summary} \subseteq Messages

ASSUME BoundsAssumption == /\ MaxLines \in Nat /\ MaxRestarts \in Nat
                           /\ SnapshotWhilePending \in BOOLEAN

VARIABLES lines,      \* the log, all of whose lines are records
          work,       \* the runtime's working set of messages
          pending,    \* operations staged, neither accepted nor rejected
          restarts

vars == <<lines, work, pending, restarts>>

View == Replay(lines)

Init == /\ lines = <<Meta>>
        /\ work = <<>>
        /\ pending = {}
        /\ restarts = 0

Write(record) == /\ Len(lines) < MaxLines
                 /\ lines' = Append(lines, record)
                 /\ UNCHANGED restarts

(* A message the runtime produced: its content is new.                     *)
AppendMessage ==
  \E m \in Messages \ (Operations \cup {Summary}) :
    /\ ~ \E i \in 1 .. Len(lines) : lines[i] = Message(m)
    /\ Write(Message(m))
    /\ work' = Append(work, m)
    /\ UNCHANGED pending

(* append_durable_user_message, whose content is the operation's own; a    *)
(* retry of an operation that is on file already appends nothing.          *)
StageMessage ==
  \E op \in Operations :
    /\ ~ HasDurableId(lines, op)
    /\ Write(Stage(op, op))
    /\ pending' = pending \cup {op}
    /\ UNCHANGED work

(* The running model takes the steer; nothing is written.                  *)
AcceptSteer ==
  \E op \in pending : /\ work' = Append(work, op)
                      /\ pending' = pending \ {op}
                      /\ UNCHANGED <<lines, restarts>>

(* The running model declines it: cancel_durable_user_message.             *)
RejectSteer ==
  \E op \in pending : /\ Write(Cancel(op))
                      /\ pending' = pending \ {op}
                      /\ UNCHANGED work

SaveSnapshot == /\ SnapshotWhilePending \/ pending = {}
                /\ Write(Snapshot(work))
                /\ UNCHANGED <<work, pending>>

(* Compaction replaces the projection by a summary of the working set, or  *)
(* clears it; the audit lines change no message.                           *)
SetProjection == /\ \E summary \in {None, {<<Summary>>}} : Write(Projection(summary))
                 /\ UNCHANGED <<work, pending>>

Audit == /\ \E record \in {Usage(1), Tool, Note} : Write(record)
         /\ UNCHANGED <<work, pending>>

(* The application starts again from load, which shows a staged message as *)
(* a normal one.                                                           *)
Restart == /\ restarts < MaxRestarts
           /\ restarts' = restarts + 1
           /\ work' = View.messages
           /\ pending' = {}
           /\ UNCHANGED lines

Next == \/ AppendMessage \/ StageMessage \/ AcceptSteer \/ RejectSteer
        \/ SaveSnapshot \/ SetProjection \/ Audit \/ Restart

Spec == Init /\ [][Next]_vars

-----------------------------------------------------------------------------
(* What load should give, said of the whole log and not line by line.      *)

LastOf(kinds) ==
  LET places == {i \in 1 .. Len(lines) : lines[i].kind \in kinds}
  IN IF places = {} THEN 0 ELSE Max(places)

(* The lines that add a message: a message, or the first stage record of   *)
(* an operation no line cancels.                                           *)
Speaks(i) ==
  \/ lines[i].kind = "message"
  \/ /\ lines[i].kind = "stage"
     /\ ~ CancelledIn(lines, lines[i].op)
     /\ ~ StagedIn(SubSeq(lines, 1, i - 1), lines[i].op)

(* The messages of the lines m + 1 .. n, in the order of the lines: the    *)
(* k-th is that of the last line up to which there are no more than k.     *)
Spoken(m, n) ==
  LET places == {i \in m + 1 .. n : Speaks(i)}
      Nth(k) == Max({i \in places : Cardinality({j \in places : j <= i}) <= k})
  IN [k \in 1 .. Cardinality(places) |-> lines[Nth(k)].message]

SpokenAfter(n) == Spoken(n, Len(lines))

HowMany(kind) == Cardinality({i \in 1 .. Len(lines) : lines[i].kind = kind})

(* Every variable has its type: the log holds records only, and the        *)
(* working set messages only.                                              *)
TypeOK == /\ lines \in Seq(LogRecord)
          /\ work \in Seq(Messages)
          /\ pending \subseteq Operations
          /\ restarts \in 0 .. MaxRestarts

(* load (session_store.rs:210-291), which folds the lines into a view in   *)
(* one pass, gives: the latest snapshot followed by every message said     *)
(* since, a staged message counting once, where it was first staged, and   *)
(* never if any line of the log cancels it.                                *)
TranscriptIsHistory ==
  LET base == LastOf({"snapshot"})
  IN View.messages = (IF base = 0 THEN <<>> ELSE lines[base].messages)
                     \o SpokenAfter(base)

(* The projection load hands to the model is the latest one saved, with    *)
(* every message said since, and none when a snapshot came after it.       *)
ProjectionIsCurrent ==
  LET base == LastOf({"snapshot", "projection"})
  IN View.projection =
       IF base = 0 \/ lines[base].kind = "snapshot" THEN None
       ELSE {p \o SpokenAfter(base) : p \in lines[base].option}

(* Snapshots, projections, restarts and retries never make load forget or  *)
(* count twice an audit line (session_store.rs:256-257).                   *)
TotalsCountEveryLine ==
  LET view == View
  IN /\ view.usage = HowMany("usage") % WordSize
     /\ view.tools = HowMany("tool") % WordSize

(* Everything the runtime works with comes back from load after a restart: *)
(* a message it accepted or produced is in the log's transcript            *)
(* (agent-contract/src/session.rs:173, the complete, recoverable history). *)
WorkIsRecoverable == ToSet(work) \subseteq ToSet(View.messages)

(* The outbox promise, session_store.rs:18-20: loaders materialize a       *)
(* staged message as a normal one unless its cancellation was appended.    *)
StagedIsMaterialized ==
  LET shown == ToSet(View.messages)
  IN \A op \in Operations :
       StagedIn(lines, op) /\ ~ CancelledIn(lines, op) => op \in shown

(* A message load has shown is shown by every later load, across           *)
(* snapshots and restarts, unless a line cancels its operation.            *)
ShownStaysShown ==
  [][\A m \in ToSet(View.messages) \ ToSet(View'.messages) : CancelledIn(lines', m)]_vars
=============================================================================
