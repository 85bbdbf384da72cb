----------------------------- MODULE IpcChannel -----------------------------
(***************************************************************************)
(* One connection between an IpcClient that several tasks share and the    *)
(* task that serves it, crates/agent-ipc/src/client.rs and server.rs, with *)
(* the frames of protocol.rs.  A frame is written in two parts, so a       *)
(* caller may vanish in the middle of one; the server may stop at any      *)
(* time; a caller's timer may fire before, while or after its answer       *)
(* comes.  A request is what its caller asked and how the server takes it: *)
(*   ok, fail   the handler returns a value, or an error                   *)
(*   huge       the handler's value does not fit a frame                   *)
(*   unknown    no handler has the method                                  *)
(*   version    the server speaks another protocol version                 *)
(*   oversized  the request does not fit a frame                           *)
(* IpcClient sends no notifications, so every request has an id.           *)
(***************************************************************************)
EXTENDS Naturals, Sequences

CONSTANTS Callers,    \* tasks that share the client
          Kinds,      \* the kinds of requests they make
          Capacity,   \* frames the socket holds before a write blocks
          MaxCalls, MaxDrops, MaxStops,
          NoCaller

AllKinds == {"ok", "fail", "huge", "unknown", "version", "oversized"}

ASSUME KindsAssumption  == Kinds \subseteq AllKinds
ASSUME CallerAssumption == NoCaller \notin Callers
ASSUME BoundsAssumption == /\ Capacity \in Nat \ {0, 1}
                           /\ MaxCalls \in Nat /\ MaxDrops \in Nat /\ MaxStops \in Nat

VARIABLES
  pc,       \* where each caller is
  req,      \* the request of the call it is in
  inbox,    \* its oneshot channel: at most one answer
  nextId,   \* next_id
  pending,  \* the senders by id: the call each one answers
  writer,   \* the caller that holds the write half
  wire,     \* frames on their way to the server
  server,   \* "read", "run", "reply" or "closed"
  serving,  \* the request the server has read
  answers,  \* frames on their way to the client
  reader,   \* is recv_loop running?
  status, value, executed,  \* history: see RemoteCalls
  calls, drops, stops

client  == <<pc, req, inbox>>
history == <<status, value, executed>>
vars    == <<client, nextId, pending, writer, wire, server, serving, answers, reader,
             history, calls, drops, stops>>

Request   == [id : Nat, call : 0 .. MaxCalls, kind : AllKinds]
Answer    == [id : Nat, ok : BOOLEAN, value : 0 .. MaxCalls]
NoRequest == [id |-> 0, call |-> 0, kind |-> "ok"]

(* A frame the server has the beginning of only.                           *)
Torn == [id |-> 0, call |-> 0, kind |-> "torn"]

Init == /\ pc = [c \in Callers |-> "idle"]
        /\ req = [c \in Callers |-> NoRequest]
        /\ inbox = [c \in Callers |-> {}]
        /\ nextId = 1 /\ pending = {} /\ writer = NoCaller
        /\ wire = <<>> /\ server = "read" /\ serving = NoRequest
        /\ answers = <<>> /\ reader = TRUE
        /\ status = [n \in 1 .. MaxCalls |-> "none"]
        /\ value = [n \in 1 .. MaxCalls |-> 0]
        /\ executed = <<>>
        /\ calls = 0 /\ drops = 0 /\ stops = 0

-----------------------------------------------------------------------------
(* IpcClient::call *)

Goto(c, at) == pc' = [pc EXCEPT ![c] = at]

(* The call is over, its outcome known.                                    *)
Finish(c, outcome) ==
  /\ Goto(c, "idle")
  /\ req' = [req EXCEPT ![c] = NoRequest]
  /\ inbox' = [inbox EXCEPT ![c] = {}]
  /\ status' = [status EXCEPT ![req[c].call] = outcome]

(* Mutant: the id is not taken.                                            *)
CallSameId(c) ==
  /\ pc[c] = "idle" /\ calls < MaxCalls
  /\ calls' = calls + 1
  /\ \E kind \in Kinds :
       req' = [req EXCEPT ![c] = [id |-> nextId, call |-> calls + 1, kind |-> kind]]
  /\ status' = [status EXCEPT ![calls + 1] = "open"]
  /\ Goto(c, "insert")
  /\ UNCHANGED <<inbox, nextId, pending, writer, wire, server, serving, answers,
                 reader, value, executed, drops, stops>>

Call(c) ==
  /\ pc[c] = "idle" /\ calls < MaxCalls
  /\ calls' = calls + 1
  /\ nextId' = nextId + 1
  /\ \E kind \in Kinds :
       req' = [req EXCEPT ![c] = [id |-> nextId, call |-> calls + 1, kind |-> kind]]
  /\ status' = [status EXCEPT ![calls + 1] = "open"]
  /\ Goto(c, "insert")
  /\ UNCHANGED <<inbox, pending, writer, wire, server, serving, answers, reader,
                 value, executed, drops, stops>>

(* The sender is registered before a byte is written.                      *)
Insert(c) ==
  /\ pc[c] = "insert"
  /\ pending' = {p \in pending : p.id # req[c].id}
                \cup {[id |-> req[c].id, call |-> req[c].call]}
  /\ Goto(c, "lock")
  /\ UNCHANGED <<req, inbox, nextId, writer, wire, server, serving, answers, reader,
                 history, calls, drops, stops>>

(* Mutant: the write half is not locked.                                   *)
TakeWriterAnyway(c) ==
  /\ pc[c] = "lock"
  /\ writer' = c
  /\ Goto(c, "write")
  /\ UNCHANGED <<req, inbox, nextId, pending, wire, server, serving, answers, reader,
                 history, calls, drops, stops>>

TakeWriter(c) ==
  /\ pc[c] = "lock" /\ writer = NoCaller
  /\ writer' = c
  /\ Goto(c, "write")
  /\ UNCHANGED <<req, inbox, nextId, pending, wire, server, serving, answers, reader,
                 history, calls, drops, stops>>

(* Mutant: an error leaves the write half locked.                          *)
WriteFailsLocked(c) ==
  /\ \/ pc[c] = "write" /\ req[c].kind = "oversized"
     \/ pc[c] \in {"write", "cut"} /\ server = "closed"
  /\ Finish(c, "failed")
  /\ UNCHANGED <<nextId, pending, writer, wire, server, serving, answers, reader,
                 value, executed, calls, drops, stops>>

(* write_frame refuses what does not fit, and a closed socket refuses      *)
(* everything; the sender stays registered.                                *)
WriteFails(c) ==
  /\ \/ pc[c] = "write" /\ req[c].kind = "oversized"
     \/ pc[c] \in {"write", "cut"} /\ server = "closed"
  /\ Finish(c, "failed")
  /\ writer' = NoCaller
  /\ UNCHANGED <<nextId, pending, wire, server, serving, answers, reader,
                 value, executed, calls, drops, stops>>

WriteStart(c) ==
  /\ pc[c] = "write" /\ req[c].kind # "oversized"
  /\ server # "closed" /\ Len(wire) < Capacity
  /\ wire' = Append(wire, Torn)
  /\ Goto(c, "cut")
  /\ UNCHANGED <<req, inbox, nextId, pending, writer, server, serving, answers, reader,
                 history, calls, drops, stops>>

WriteEnd(c) ==
  /\ pc[c] = "cut" /\ server # "closed"
  /\ wire' = [wire EXCEPT ![Len(wire)] = req[c]]
  /\ writer' = NoCaller
  /\ Goto(c, "wait")
  /\ UNCHANGED <<req, inbox, nextId, pending, server, serving, answers, reader,
                 history, calls, drops, stops>>

(* The answer is there before the timer fires.                             *)
Return(c) ==
  /\ pc[c] = "wait"
  /\ \E answer \in inbox[c] :
       /\ Finish(c, IF answer.ok THEN "returned" ELSE "failed")
       /\ value' = [value EXCEPT ![req[c].call] = IF answer.ok THEN answer.value ELSE 0]
  /\ UNCHANGED <<nextId, pending, writer, wire, server, serving, answers, reader,
                 executed, calls, drops, stops>>

(* The timer fires; then the sender is removed, which may wait for the     *)
(* lock of the map.                                                        *)
Timeout(c) ==
  /\ pc[c] = "wait" /\ inbox[c] = {}
  /\ Goto(c, "forget")
  /\ UNCHANGED <<req, inbox, nextId, pending, writer, wire, server, serving, answers,
                 reader, history, calls, drops, stops>>

Forget(c) ==
  /\ pc[c] = "forget"
  /\ pending' = {p \in pending : p.id # req[c].id}
  /\ Finish(c, "failed")
  /\ UNCHANGED <<nextId, writer, wire, server, serving, answers, reader,
                 value, executed, calls, drops, stops>>

(* The caller's future is dropped at an await, by a timeout or a select    *)
(* around it: the sender stays registered, and a frame stays cut.          *)
Drop(c) ==
  /\ pc[c] # "idle" /\ drops < MaxDrops
  /\ drops' = drops + 1
  /\ Finish(c, "failed")
  /\ writer' = IF writer = c THEN NoCaller ELSE writer
  /\ UNCHANGED <<nextId, pending, wire, server, serving, answers, reader,
                 value, executed, calls, stops>>

-----------------------------------------------------------------------------
(* recv_loop *)

(* The answer goes to whoever is registered under its id, if anybody; a    *)
(* receiver that is gone makes the send fail, which is ignored.            *)
Receive ==
  /\ reader /\ answers # <<>>
  /\ LET answer == Head(answers)
         to == {p.call : p \in {q \in pending : q.id = answer.id}}
     IN /\ inbox' = [c \in Callers |->
                       IF pc[c] = "wait" /\ req[c].call \in to THEN {answer}
                       ELSE inbox[c]]
        /\ pending' = {p \in pending : p.id # answer.id}
  /\ answers' = Tail(answers)
  /\ UNCHANGED <<pc, req, nextId, writer, wire, server, serving, reader,
                 history, calls, drops, stops>>

(* End of file: the loop ends, and the senders stay registered.            *)
ReaderStops ==
  /\ reader /\ answers = <<>> /\ server = "closed"
  /\ reader' = FALSE
  /\ UNCHANGED <<client, nextId, pending, writer, wire, server, serving, answers,
                 history, calls, drops, stops>>

-----------------------------------------------------------------------------
(* handle_connection: one request after the other. *)

Close == server' = "closed" /\ wire' = <<>> /\ serving' = NoRequest

ReadRequest ==
  /\ server = "read" /\ wire # <<>> /\ Head(wire) # Torn
  /\ serving' = Head(wire)
  /\ wire' = Tail(wire)
  /\ server' = IF serving'.kind \in {"version", "unknown"} THEN "reply" ELSE "run"
  /\ UNCHANGED <<client, nextId, pending, writer, answers, reader, history,
                 calls, drops, stops>>

(* The bytes a cut frame lacks are taken from the next one.  What results  *)
(* is no JSON, and ends the connection, unless still more bytes are        *)
(* missing.                                                                *)
ReadGarbage ==
  /\ server = "read" /\ Len(wire) > 1 /\ Head(wire) = Torn
  /\ \/ Close
     \/ wire[2] # Torn /\ wire' = <<Torn>> \o SubSeq(wire, 3, Len(wire))
        /\ UNCHANGED <<server, serving>>
  /\ UNCHANGED <<client, nextId, pending, writer, answers, reader, history,
                 calls, drops, stops>>

RunHandler ==
  /\ server = "run"
  /\ executed' = Append(executed, serving.call)
  /\ server' = "reply"
  /\ UNCHANGED <<client, nextId, pending, writer, wire, serving, answers, reader,
                 status, value, calls, drops, stops>>

(* A value that does not fit a frame ends the connection.                  *)
Reply ==
  /\ server = "reply"
  /\ IF serving.kind = "huge"
     THEN Close /\ UNCHANGED answers
     ELSE /\ answers' = Append(answers, [id |-> serving.id, ok |-> serving.kind = "ok",
                                         value |-> serving.call])
          /\ server' = "read" /\ serving' = NoRequest
          /\ UNCHANGED wire
  /\ UNCHANGED <<client, nextId, pending, writer, reader, history, calls, drops, stops>>

(* The server's process ends.                                              *)
Stop ==
  /\ server # "closed" /\ stops < MaxStops
  /\ stops' = stops + 1
  /\ Close
  /\ UNCHANGED <<client, nextId, pending, writer, answers, reader, history,
                 calls, drops>>

CallerStep(c) == \/ Insert(c) \/ WriteFails(c) \/ WriteStart(c) \/ WriteEnd(c)
                 \/ Return(c) \/ Timeout(c) \/ Forget(c)

ReaderStep == Receive \/ ReaderStops
ServerStep == ReadRequest \/ ReadGarbage \/ RunHandler \/ Reply

Next == \/ \E c \in Callers : Call(c) \/ TakeWriter(c) \/ CallerStep(c) \/ Drop(c)
        \/ ReaderStep \/ ServerStep \/ Stop

Spec == Init /\ [][Next]_vars

(* Tasks are polled, timers fire, handlers end, and the write lock is      *)
(* given in the order it was asked for.                                    *)
FairSpec == /\ Spec
            /\ \A c \in Callers : WF_vars(CallerStep(c)) /\ SF_vars(TakeWriter(c))
            /\ WF_vars(ReaderStep) /\ WF_vars(ServerStep)

-----------------------------------------------------------------------------
(* Properties *)

(* Every variable has its type; ids start at 1 and stay positive.          *)
TypeOK ==
  /\ pc \in [Callers -> {"idle", "insert", "lock", "write", "cut", "wait", "forget"}]
  /\ req \in [Callers -> Request]
  /\ inbox \in [Callers -> SUBSET Answer]
  /\ nextId \in Nat \ {0}
  /\ pending \subseteq [id : Nat, call : 1 .. MaxCalls]
  /\ writer \in Callers \cup {NoCaller}
  /\ wire \in Seq(Request \cup {Torn}) /\ answers \in Seq(Answer)
  /\ server \in {"read", "run", "reply", "closed"} /\ serving \in Request
  /\ reader \in BOOLEAN
  /\ status \in [1 .. MaxCalls -> {"none", "open", "failed", "returned"}]
  /\ value \in [1 .. MaxCalls -> 0 .. MaxCalls]
  /\ executed \in Seq(1 .. MaxCalls)
  /\ calls \in 0 .. MaxCalls /\ drops \in 0 .. MaxDrops /\ stops \in 0 .. MaxStops

(* The connection is an instance of what a caller may count on, whatever   *)
(* is dropped, late or cut (client.rs:121-169, server.rs:150-211).         *)
AtMostOnce == INSTANCE RemoteCalls WITH Unsure <- {}
ImplementsRemoteCalls == AtMostOnce!Spec

(* Frames of two callers are never mixed: as long as nobody was dropped in *)
(* the middle of one, the only cut frame on the wire is the last one, and  *)
(* the task that writes it holds the write half (client.rs:128-131).       *)
OnlyTheWriterIsMidFrame ==
  /\ \A c \in Callers : pc[c] \in {"write", "cut"} => writer = c
  /\ drops = 0 => \A i \in 1 .. Len(wire) :
                    wire[i] = Torn => i = Len(wire) /\ \E c \in Callers : pc[c] = "cut"

(* Every call comes back, through a stopped server, a cut frame, an        *)
(* oversized answer or a caller that vanished while it held the write      *)
(* half.                                                                   *)
EveryCallReturns == \A c \in Callers : pc[c] # "idle" ~> pc[c] = "idle"
=============================================================================
