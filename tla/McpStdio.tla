------------------------------ MODULE McpStdio ------------------------------
(***************************************************************************)
(* One McpServer whose transport is a child process, shared by several     *)
(* tasks: crates/agent-mcp/src/server.rs over StdioTransport of            *)
(* transport.rs.  A request is a line on the child's stdin, written under  *)
(* one lock; its answer is a line on the child's stdout, looked for under  *)
(* another one, by reading and discarding lines until the right id comes.  *)
(* No wait has a time limit.                                               *)
(*                                                                         *)
(* The child is outside this repository: it serves some requests at once,  *)
(* answers in any order, may print lines that are no answer, requests of   *)
(* its own among them, and may exit.                                       *)
(* Nothing starts it again.                                                *)
(***************************************************************************)
EXTENDS Naturals, Sequences, FiniteSets

CONSTANTS Tasks,
          Ops,        \* the operations the tasks use
          Capacity,   \* lines a pipe holds before a write blocks
          Width,      \* requests the child serves at a time
          MaxCalls,
          MaxFaults,  \* bound on dropped callers and stray lines together
          ChildIds,   \* the ids the child gives requests of its own
          NoTask

AllOps == {"connect", "refresh", "call", "ping"}

ASSUME OpsAssumption    == Ops \subseteq AllOps
ASSUME TaskAssumption   == NoTask \notin Tasks /\ IsFiniteSet(Tasks)
ASSUME ChildAssumption  == ChildIds \subseteq 1 .. MaxCalls
ASSUME BoundsAssumption == /\ Capacity \in Nat \ {0, 1} /\ Width \in Nat \ {0}
                           /\ MaxCalls \in Nat /\ MaxFaults \in Nat

VARIABLES
  pc,         \* where each task is
  req,        \* the request it has made
  stdin,      \* the task that holds the lock of the child's stdin
  stdout,     \* the task that holds the lock of its stdout
  nextId,     \* next_id
  connected,  \* McpServer.connected
  tools,      \* McpServer.tools: the tools/list request whose answer gave them,
              \* or 0 for none
  toChild, fromChild,  \* the pipes
  serving,    \* the requests the child works on
  exited,     \* is the child gone?
  status, value, executed,  \* history: see RemoteCalls
  drops, noise

tasks   == <<pc, req>>
server  == <<connected, tools>>
pipes   == <<toChild, fromChild>>
history == <<status, value, executed>>
vars    == <<tasks, stdin, stdout, nextId, server, pipes, serving, exited, history,
             drops, noise>>

Methods   == {"initialize", "tools/list", "tools/call", "ping"}
Request   == [id : 1 .. MaxCalls, method : Methods]
NoRequest == [id |-> 0, method |-> "none"]

(* The beginning of a line, and lines that are no answer: a notification,  *)
(* something that is no JSON-RPC at all, and a request (roots/list, ping). *)
(* A child numbers its requests by itself, so their ids may be ours; one   *)
(* with an id that no call has is skipped as a notification is.            *)
Torn    == [id |-> 0, method |-> "torn"]
Note    == [kind |-> "note", id |-> 0]
Garbage == [kind |-> "garbage", id |-> 0]
Ask(n)    == [kind |-> "ask", id |-> n]
Answer(n) == [kind |-> "answer", id |-> n]
Stray   == {Note, Garbage} \cup {Ask(n) : n \in ChildIds}
OutLine == {Answer(n) : n \in 1 .. MaxCalls} \cup Stray

Places == {"idle", "stdin", "write", "cut", "stdout", "read", "answered"}

Init == /\ pc = [t \in Tasks |-> "idle"]
        /\ req = [t \in Tasks |-> NoRequest]
        /\ stdin = NoTask /\ stdout = NoTask
        /\ nextId = 1
        /\ connected = FALSE /\ tools = 0
        /\ toChild = <<>> /\ fromChild = <<>> /\ serving = {} /\ exited = FALSE
        /\ status = [n \in 1 .. MaxCalls |-> "none"]
        /\ value = [n \in 1 .. MaxCalls |-> 0]
        /\ executed = <<>>
        /\ drops = 0 /\ noise = 0

Goto(t, at) == pc' = [pc EXCEPT ![t] = at]

-----------------------------------------------------------------------------
(* StdioTransport::request *)

(* fetch_add gives every request its own id.                               *)
Send(t, method) ==
  /\ nextId' = nextId + 1
  /\ req' = [req EXCEPT ![t] = [id |-> nextId, method |-> method]]
  /\ status' = [status EXCEPT ![nextId] = "open"]
  /\ Goto(t, "stdin")
  /\ UNCHANGED <<stdin, stdout, pipes, serving, exited, value, executed, drops, noise>>

Fail(t) == /\ Goto(t, "idle")
           /\ req' = [req EXCEPT ![t] = NoRequest]
           /\ status' = [status EXCEPT ![req[t].id] = "failed"]
           /\ UNCHANGED value

(* Mutant: the lock of stdin is not waited for.                            *)
TakeStdinAnyway(t) ==
  /\ pc[t] = "stdin"
  /\ stdin' = t
  /\ Goto(t, "write")
  /\ UNCHANGED <<req, stdout, nextId, server, pipes, serving, exited, history, drops, noise>>

TakeStdin(t) ==
  /\ pc[t] = "stdin" /\ stdin = NoTask
  /\ stdin' = t
  /\ Goto(t, "write")
  /\ UNCHANGED <<req, stdout, nextId, server, pipes, serving, exited, history, drops, noise>>

(* The child is gone: NotConnected.                                        *)
WriteFails(t) ==
  /\ pc[t] \in {"write", "cut"} /\ exited
  /\ Fail(t)
  /\ stdin' = NoTask
  /\ UNCHANGED <<stdout, nextId, server, pipes, serving, exited, executed, drops, noise>>

WriteStart(t) ==
  /\ pc[t] = "write" /\ ~ exited /\ Len(toChild) < Capacity
  /\ toChild' = Append(toChild, Torn)
  /\ Goto(t, "cut")
  /\ UNCHANGED <<req, stdin, stdout, nextId, server, fromChild, serving, exited,
                 history, drops, noise>>

WriteEnd(t) ==
  /\ pc[t] = "cut" /\ ~ exited
  /\ toChild' = [toChild EXCEPT ![Len(toChild)] = req[t]]
  /\ stdin' = NoTask
  /\ Goto(t, "stdout")
  /\ UNCHANGED <<req, stdout, nextId, server, fromChild, serving, exited,
                 history, drops, noise>>

TakeStdout(t) ==
  /\ pc[t] = "stdout" /\ stdout = NoTask
  /\ stdout' = t
  /\ Goto(t, "read")
  /\ UNCHANGED <<req, stdin, nextId, server, pipes, serving, exited, history, drops, noise>>

(* What the caller of request does with Ok: connect goes on to ask for the *)
(* tools, refresh_tools stores them.  The value is that of call v, or 0    *)
(* for Null.                                                               *)
Return(t, v) ==
  /\ IF req[t].method \in {"initialize", "tools/list"}
     THEN Goto(t, "answered") /\ UNCHANGED req
     ELSE Goto(t, "idle") /\ req' = [req EXCEPT ![t] = NoRequest]
  /\ status' = [status EXCEPT ![req[t].id] = "returned"]
  /\ value' = [value EXCEPT ![req[t].id] = v]

(* Mutant: the first answer is taken for one's own.                        *)
ReadAnyLine(t) ==
  /\ pc[t] = "read" /\ fromChild # <<>>
  /\ fromChild' = Tail(fromChild)
  /\ LET line == Head(fromChild) IN
     CASE line = Garbage -> Fail(t) /\ stdout' = NoTask
       [] line = Note    -> UNCHANGED <<tasks, stdout, status, value>>
       [] OTHER          -> /\ Fail(t) \/ Return(t, line.id)
                            /\ stdout' = NoTask
  /\ UNCHANGED <<stdin, nextId, server, toChild, serving, exited, executed, drops, noise>>

(* A line with another id, or none, is skipped; one that does not parse is *)
(* an error at once.  An answer holds a result or an error.  Nothing else  *)
(* is looked at: the child's own request with the id waited for holds      *)
(* neither, and is taken for an answer of Null.                            *)
ReadLine(t) ==
  /\ pc[t] = "read" /\ fromChild # <<>>
  /\ fromChild' = Tail(fromChild)
  /\ LET line == Head(fromChild) IN
     CASE line = Garbage -> Fail(t) /\ stdout' = NoTask
       [] line # Garbage /\ line.id # req[t].id ->
            UNCHANGED <<tasks, stdout, status, value>>
       [] line.id = req[t].id ->
            /\ stdout' = NoTask
            /\ IF line.kind = "ask" THEN Return(t, 0) ELSE Fail(t) \/ Return(t, line.id)
  /\ UNCHANGED <<stdin, nextId, server, toChild, serving, exited, executed, drops, noise>>

(* Mutant: the end of the file is an empty line like any other.            *)
ReadEofAgain(t) ==
  /\ pc[t] = "read" /\ fromChild = <<>> /\ exited
  /\ UNCHANGED vars

ReadEof(t) ==
  /\ pc[t] = "read" /\ fromChild = <<>> /\ exited
  /\ Fail(t)
  /\ stdout' = NoTask
  /\ UNCHANGED <<stdin, nextId, server, pipes, serving, exited, executed, drops, noise>>

(* The caller's future is dropped at an await: its locks are free, a line  *)
(* it was writing stays cut, its answer stays in the pipe, and of a line   *)
(* it was reading the part already read is lost.                           *)
Drop(t) ==
  /\ pc[t] \in {"stdin", "write", "cut", "stdout", "read"} /\ drops + noise < MaxFaults
  /\ drops' = drops + 1
  /\ Fail(t)
  /\ stdin' = IF stdin = t THEN NoTask ELSE stdin
  /\ stdout' = IF stdout = t THEN NoTask ELSE stdout
  /\ \/ UNCHANGED fromChild
     \/ /\ pc[t] = "read" /\ fromChild # <<>>
        /\ fromChild' = [fromChild EXCEPT ![1] = Garbage]
  /\ UNCHANGED <<nextId, server, toChild, serving, exited, executed, noise>>

-----------------------------------------------------------------------------
(* McpServer *)

(* Room for one more request, next to those a connect has still to make.   *)
Room(n) ==
  nextId - 1 + n + Cardinality({t \in Tasks : req[t].method = "initialize"}) <= MaxCalls

Connect(t) == /\ pc[t] = "idle" /\ "connect" \in Ops /\ Room(2)
              /\ Send(t, "initialize") /\ UNCHANGED server

(* connect, initialize answered: the server counts as connected before its *)
(* tools are asked for.                                                    *)
SetConnected(t) == /\ pc[t] = "answered" /\ req[t].method = "initialize"
                   /\ connected' = TRUE
                   /\ Send(t, "tools/list") /\ UNCHANGED tools

(* refresh_tools, by itself or as the rest of connect.                     *)
Refresh(t) == /\ pc[t] = "idle" /\ "refresh" \in Ops /\ Room(1)
              /\ Send(t, "tools/list") /\ UNCHANGED server

(* From Null there are no tools to take.                                   *)
StoreTools(t) ==
  /\ pc[t] = "answered" /\ req[t].method = "tools/list"
  /\ tools' = value[req[t].id]
  /\ req' = [req EXCEPT ![t] = NoRequest]
  /\ Goto(t, "idle")
  /\ UNCHANGED <<stdin, stdout, nextId, connected, pipes, serving, exited,
                 history, drops, noise>>

(* call_tool sends nothing before an initialize was answered.              *)
CallTool(t) == /\ pc[t] = "idle" /\ "call" \in Ops /\ Room(1) /\ connected
               /\ Send(t, "tools/call") /\ UNCHANGED server

HealthCheck(t) == /\ pc[t] = "idle" /\ "ping" \in Ops /\ Room(1)
                  /\ Send(t, "ping") /\ UNCHANGED server

-----------------------------------------------------------------------------
(* The child *)

ChildReads ==
  /\ ~ exited /\ toChild # <<>> /\ Head(toChild) # Torn
  /\ Cardinality(serving) < Width
  /\ toChild' = Tail(toChild)
  /\ serving' = serving \cup {Head(toChild).id}
  /\ executed' = Append(executed, Head(toChild).id)
  /\ UNCHANGED <<tasks, stdin, stdout, nextId, server, fromChild, exited,
                 status, value, drops, noise>>

(* A cut line is glued to the next one, and their sum is no request: the   *)
(* child skips it once it has its end.                                     *)
ChildSkips ==
  /\ ~ exited /\ Len(toChild) > 1 /\ Head(toChild) = Torn
  /\ ~ (toChild[2] = Torn /\ Len(toChild) = 2 /\ \E t \in Tasks : pc[t] = "cut")
  /\ toChild' = IF toChild[2] = Torn THEN Tail(toChild) ELSE Tail(Tail(toChild))
  /\ UNCHANGED <<tasks, stdin, stdout, nextId, server, fromChild, serving, exited,
                 history, drops, noise>>

ChildAnswers ==
  /\ ~ exited /\ Len(fromChild) < Capacity
  /\ \E id \in serving : /\ fromChild' = Append(fromChild, Answer(id))
                         /\ serving' = serving \ {id}
  /\ UNCHANGED <<tasks, stdin, stdout, nextId, server, toChild, exited,
                 history, drops, noise>>

ChildPrints ==
  /\ ~ exited /\ Len(fromChild) < Capacity /\ drops + noise < MaxFaults
  /\ noise' = noise + 1
  /\ \E line \in Stray : fromChild' = Append(fromChild, line)
  /\ UNCHANGED <<tasks, stdin, stdout, nextId, server, toChild, serving, exited,
                 history, drops>>

(* What it printed can still be read.                                      *)
ChildExits ==
  /\ ~ exited
  /\ exited' = TRUE
  /\ toChild' = <<>> /\ serving' = {}
  /\ UNCHANGED <<tasks, stdin, stdout, nextId, server, fromChild,
                 history, drops, noise>>

-----------------------------------------------------------------------------
Begin(t) == Connect(t) \/ Refresh(t) \/ CallTool(t) \/ HealthCheck(t)

Step(t) == \/ TakeStdin(t) \/ TakeStdout(t)
           \/ WriteFails(t) \/ WriteStart(t) \/ WriteEnd(t)
           \/ ReadLine(t) \/ ReadEof(t)
           \/ SetConnected(t) \/ StoreTools(t)

Child == ChildReads \/ ChildSkips \/ ChildAnswers

Next == \/ \E t \in Tasks : Begin(t) \/ Step(t) \/ Drop(t)
        \/ Child \/ ChildPrints \/ ChildExits

Spec == Init /\ [][Next]_vars

(* A task that can go on time and again does: tokio gives its locks in the *)
(* order they were asked for.  A child that is there answers.              *)
FairSpec == /\ Spec
            /\ \A t \in Tasks : SF_vars(Step(t))
            /\ WF_vars(Child)

-----------------------------------------------------------------------------
(* Properties *)

(* Every variable has its type; ids never run over the requests made.      *)
TypeOK ==
  /\ pc \in [Tasks -> Places]
  /\ req \in [Tasks -> Request \cup {NoRequest}]
  /\ stdin \in Tasks \cup {NoTask} /\ stdout \in Tasks \cup {NoTask}
  /\ nextId \in 1 .. MaxCalls + 1
  /\ connected \in BOOLEAN /\ tools \in 0 .. MaxCalls
  /\ toChild \in Seq(Request \cup {Torn}) /\ fromChild \in Seq(OutLine)
  /\ serving \subseteq 1 .. MaxCalls /\ exited \in BOOLEAN
  /\ status \in [1 .. MaxCalls -> {"none", "open", "failed", "returned"}]
  /\ value \in [1 .. MaxCalls -> 0 .. MaxCalls]
  /\ executed \in Seq(1 .. MaxCalls)
  /\ drops \in 0 .. MaxFaults /\ noise \in 0 .. MaxFaults

(* Whatever other tasks read, skip, drop or damage, a request is executed  *)
(* at most once, and one that returns Ok was executed and returns its own  *)
(* answer (transport.rs:157-205), unless its id is one the child uses for  *)
(* a request of its own: such a call may return Null, and be executed      *)
(* later or never.                                                         *)
AtMostOnce == INSTANCE RemoteCalls WITH Unsure <- ChildIds
ImplementsRemoteCalls == AtMostOnce!Spec

(* A call that returns Ok waited for its response: "send a JSON-RPC        *)
(* request and wait for the corresponding response" (transport.rs:41).  No *)
(* run asks for it: a request of the child's own with the id of the call   *)
(* passes for its response (README, section 6).                            *)
OkIsAnAnswer ==
  \A n \in 1 .. MaxCalls :
    status[n] = "returned" => \E i \in DOMAIN executed : executed[i] = n

(* No request is written into another one's line: unless a caller was      *)
(* dropped in the middle of its write, the child has whole requests only,  *)
(* but for the one being written (transport.rs:167-175).                   *)
ChildGetsWholeLines ==
  drops = 0 =>
    \A i \in 1 .. Len(toChild) :
      toChild[i] = Torn => i = Len(toChild) /\ \E t \in Tasks : pc[t] = "cut"

(* When the child is gone every call comes back, the ones that wait for a  *)
(* lock, a line or room in a pipe included, and those made afterwards      *)
(* (V-TOOL-03; transport.rs:172, 185-187).                                 *)
ExitEndsEveryCall ==
  \A t \in Tasks : exited /\ pc[t] # "idle" ~> pc[t] = "idle"
=============================================================================
