-------------------------- MODULE McpStdioProofs ---------------------------
(***************************************************************************)
(* Requests to one child process from any number of tasks: each is         *)
(* executed at most once and answered with its own answer, and none is     *)
(* written into another one's line.                                        *)
(***************************************************************************)
EXTENDS McpStdio, SequenceTheorems, FiniteSetTheorems, TLAPS

Done       == {executed[i] : i \in DOMAIN executed}
Connecting == {t \in Tasks : req[t].method = "initialize"}
Unsent     == {"stdin", "write", "cut"}
Waiting    == Unsent \cup {"stdout", "read"}

(* There are ids left for what connects have still to ask.                 *)
RoomLeft == nextId - 1 + Cardinality(Connecting) <= MaxCalls

(* A request was made exactly if its id was given out.                     *)
Known == \A n \in 1 .. MaxCalls : /\ status[n] = "none" <=> n >= nextId
                                  /\ status[n] # "returned" => value[n] = 0
                                  /\ status[n] = "returned" => n \in Done \cup ChildIds

(* Tasks have requests of their own; what is not written is nowhere else.  *)
Own ==
  /\ \A t \in Tasks :
       /\ pc[t] = "idle" <=> req[t] = NoRequest
       /\ pc[t] # "idle" => req[t].id < nextId
       /\ pc[t] \in Waiting => status[req[t].id] = "open"
       /\ pc[t] \in Unsent => /\ req[t].id \notin Done
                              /\ \A i \in DOMAIN toChild : toChild[i].id # req[t].id
  /\ \A t, u \in Tasks : t # u /\ pc[t] # "idle" /\ pc[u] # "idle" => req[t].id # req[u].id

(* A whole line is a request on its way, which it is once.                 *)
OnTheWay ==
  /\ \A i \in DOMAIN toChild :
       toChild[i].id # 0 => toChild[i].id < nextId /\ toChild[i].id \notin Done
  /\ \A i, j \in DOMAIN toChild : i < j /\ toChild[i].id # 0 => toChild[i].id # toChild[j].id

(* What the child works on and what it has answered, it was asked.         *)
Asked ==
  /\ Done \subseteq 1 .. nextId - 1
  /\ serving \subseteq Done
  /\ \A i \in DOMAIN fromChild : fromChild[i].kind = "answer" => fromChild[i].id \in Done

CallsInv == TypeOK /\ RoomLeft /\ Known /\ Own /\ OnTheWay /\ Asked

-----------------------------------------------------------------------------
(* To change an element of the empty sequence changes nothing.             *)
LEMMA EmptyExcept ==
  ASSUME NEW i, NEW r
  PROVE  [<<>> EXCEPT ![i] = r] = <<>>
OBVIOUS

LEMMA RequestIds ==
  /\ NoRequest.id = 0 /\ NoRequest.method = "none" /\ Torn.id = 0
  /\ \A r \in Request : r.id \in 1 .. MaxCalls /\ r.method \in Methods /\ r # NoRequest
BY BoundsAssumption DEF NoRequest, Torn, Request, Methods

LEMMA OutLineIds ==
  /\ Note.id = 0 /\ Garbage.id = 0 /\ Garbage \in OutLine /\ Garbage.kind # "answer"
  /\ \A line \in Stray : line \in OutLine /\ line.kind # "answer"
  /\ \A n \in 1 .. MaxCalls : Answer(n) \in OutLine /\ Answer(n).id = n
  /\ \A line \in OutLine : /\ line.id \in 0 .. MaxCalls
                           /\ line.kind = "ask" => line.id \in ChildIds
                           /\ line.id # 0 /\ line.kind # "ask" => line.kind = "answer"
BY BoundsAssumption, ChildAssumption DEF Note, Garbage, Ask, Answer, Stray, OutLine

LEMMA LineIds ==
  ASSUME TypeOK
  PROVE  /\ \A i \in DOMAIN toChild : toChild[i] \in Request \cup {Torn} /\ toChild[i].id \in 0 .. MaxCalls
         /\ \A i \in DOMAIN fromChild : fromChild[i] \in OutLine
         /\ DOMAIN toChild = 1 .. Len(toChild) /\ Len(toChild) \in Nat
<1>1. DOMAIN toChild = 1 .. Len(toChild) /\ Len(toChild) \in Nat
  BY LenProperties DEF TypeOK
<1>2. \A i \in DOMAIN toChild : toChild[i] \in Request \cup {Torn}
  BY <1>1, ElementOfSeq DEF TypeOK
<1>3. \A i \in DOMAIN fromChild : fromChild[i] \in OutLine
  BY LenProperties, ElementOfSeq DEF TypeOK
<1> QED BY <1>1, <1>2, <1>3, RequestIds, BoundsAssumption

LEMMA Busy ==
  ASSUME CallsInv, NEW t \in Tasks, pc[t] # "idle"
  PROVE  req[t] \in Request /\ req[t].id \in 1 .. MaxCalls /\ req[t].id < nextId
BY RequestIds DEF CallsInv, TypeOK, Own

LEMMA ConnectingIsFinite ==
  ASSUME NEW S \in SUBSET Tasks
  PROVE  IsFiniteSet(S) /\ Cardinality(S) \in Nat
BY TaskAssumption, FS_Subset, FS_CardinalityType

LEMMA CallsInit == Init => CallsInv
<1> SUFFICES ASSUME Init PROVE CallsInv
  OBVIOUS
<1>1. Connecting = {} /\ Cardinality(Connecting) = 0
  BY RequestIds, FS_EmptySet DEF Init, Connecting
<1>2. Done = {}
  BY DEF Init, Done
<1>3. TypeOK
  <2>1. toChild \in Seq(Request \cup {Torn}) /\ fromChild \in Seq(OutLine) /\ executed \in Seq(1 .. MaxCalls)
    BY EmptySeq DEF Init
  <2>2. /\ status \in [1 .. MaxCalls -> {"none", "open", "failed", "returned"}]
        /\ value \in [1 .. MaxCalls -> 0 .. MaxCalls]
        /\ nextId \in 1 .. MaxCalls + 1
    BY BoundsAssumption DEF Init
  <2>3. /\ pc \in [Tasks -> Places] /\ req \in [Tasks -> Request \cup {NoRequest}]
        /\ stdin \in Tasks \cup {NoTask} /\ stdout \in Tasks \cup {NoTask}
        /\ connected \in BOOLEAN /\ exited \in BOOLEAN /\ serving \subseteq 1 .. MaxCalls
    BY DEF Init, Places
  <2>4. tools \in 0 .. MaxCalls /\ drops \in 0 .. MaxFaults /\ noise \in 0 .. MaxFaults
    BY BoundsAssumption DEF Init
  <2> QED BY <2>1, <2>2, <2>3, <2>4 DEF TypeOK
<1> QED BY <1>1, <1>2, <1>3, BoundsAssumption DEF Init, CallsInv, RoomLeft, Known, Own, OnTheWay, Asked,
                                       Waiting, Unsent

-----------------------------------------------------------------------------
(* A request that is over leaves no less room.                             *)
LEMMA RoomStays ==
  ASSUME CallsInv, Connecting' \subseteq Connecting, nextId' = nextId
  PROVE  RoomLeft'
<1>1. /\ Cardinality(Connecting') <= Cardinality(Connecting)
      /\ Cardinality(Connecting') \in Nat /\ Cardinality(Connecting) \in Nat
  BY ConnectingIsFinite, FS_Subset DEF Connecting
<1>2. nextId \in Nat /\ MaxCalls \in Nat
  BY BoundsAssumption DEF CallsInv, TypeOK
<1>3. nextId - 1 + Cardinality(Connecting) <= MaxCalls
  BY DEF CallsInv, RoomLeft
<1>4. \A m, n, a, b \in Nat : n - 1 + a <= m /\ b <= a => n - 1 + b <= m
  OBVIOUS
<1>5. nextId - 1 + Cardinality(Connecting') <= MaxCalls
  BY <1>1, <1>2, <1>3, <1>4
<1> QED BY <1>5 DEF RoomLeft

(* A request is made: there is an id for it, and it is nobody else's.      *)
LEMMA SendRoom ==
  ASSUME CallsInv, NEW t \in Tasks, NEW method \in Methods, Send(t, method),
         \/ pc[t] = "idle" /\ Room(IF method = "initialize" THEN 2 ELSE 1)
         \/ pc[t] = "answered" /\ req[t].method = "initialize" /\ method = "tools/list"
  PROVE  nextId \in 1 .. MaxCalls /\ RoomLeft'
<1>1. /\ nextId \in Nat /\ nextId >= 1 /\ MaxCalls \in Nat /\ nextId' = nextId + 1
      /\ req' = [req EXCEPT ![t] = [id |-> nextId, method |-> method]]
      /\ req \in [Tasks -> Request \cup {NoRequest}]
  BY BoundsAssumption DEF CallsInv, TypeOK, Send
<1>2. IsFiniteSet(Connecting) /\ Cardinality(Connecting) \in Nat
  BY ConnectingIsFinite DEF Connecting
<1>3. CASE pc[t] = "idle" /\ method = "initialize"
  <2>1. t \notin Connecting
    BY <1>3, RequestIds DEF CallsInv, Own, Connecting
  <2>2. Connecting' = Connecting \cup {t}
    BY <1>1, <1>3 DEF Connecting
  <2>3. Cardinality(Connecting') = Cardinality(Connecting) + 1
    BY <1>2, <2>1, <2>2, FS_AddElement
  <2>4. nextId - 1 + 2 + Cardinality(Connecting) <= MaxCalls
    BY <1>3 DEF Room, Connecting
  <2> QED BY <1>1, <1>2, <2>3, <2>4 DEF RoomLeft
<1>4. CASE pc[t] = "idle" /\ method # "initialize"
  <2>1. t \notin Connecting
    BY <1>4, RequestIds DEF CallsInv, Own, Connecting
  <2>2. Connecting' = Connecting
    BY <1>1, <1>4, <2>1 DEF Connecting
  <2>3. nextId - 1 + 1 + Cardinality(Connecting) <= MaxCalls
    BY <1>4 DEF Room, Connecting
  <2> QED BY <1>1, <1>2, <2>2, <2>3 DEF RoomLeft
<1>5. CASE pc[t] = "answered" /\ req[t].method = "initialize" /\ method = "tools/list"
  <2>1. t \in Connecting
    BY <1>5 DEF Connecting
  <2>2. Connecting' = Connecting \ {t}
    BY <1>1, <1>5 DEF Connecting
  <2>3. Cardinality(Connecting') = Cardinality(Connecting) - 1
    BY <1>2, <2>1, <2>2, FS_RemoveElement
  <2>4. Cardinality(Connecting) >= 1
    BY <1>2, <2>1, FS_EmptySet
  <2> QED BY <1>1, <1>2, <2>3, <2>4 DEF CallsInv, RoomLeft
<1> QED BY <1>3, <1>4, <1>5

LEMMA SendKeeps ==
  ASSUME CallsInv, NEW t \in Tasks, NEW method \in Methods, Send(t, method),
         \/ pc[t] = "idle" /\ Room(IF method = "initialize" THEN 2 ELSE 1)
         \/ pc[t] = "answered" /\ req[t].method = "initialize" /\ method = "tools/list",
         connected' \in BOOLEAN, UNCHANGED tools
  PROVE  CallsInv' /\ AtMostOnce!Open(nextId)
<1>1. nextId \in 1 .. MaxCalls /\ RoomLeft'
  BY SendRoom
<1>2. /\ nextId' = nextId + 1 /\ MaxCalls \in Nat
      /\ req' = [req EXCEPT ![t] = [id |-> nextId, method |-> method]]
      /\ status' = [status EXCEPT ![nextId] = "open"]
      /\ pc' = [pc EXCEPT ![t] = "stdin"]
      /\ UNCHANGED <<toChild, fromChild, serving, executed, value, stdin, stdout, exited, drops, noise>>
      /\ UNCHANGED Done
  BY BoundsAssumption DEF Send, Goto, pipes, Done
<1>3. [id |-> nextId, method |-> method] \in Request
  BY <1>1 DEF Request
<1>4. TypeOK'
  <2>1. nextId' \in 1 .. MaxCalls + 1
    BY <1>1, <1>2
  <2>2. /\ req' \in [Tasks -> Request \cup {NoRequest}] /\ pc' \in [Tasks -> Places]
        /\ status' \in [1 .. MaxCalls -> {"none", "open", "failed", "returned"}]
    BY <1>2, <1>3 DEF CallsInv, TypeOK, Places
  <2> QED BY <1>2, <2>1, <2>2 DEF CallsInv, TypeOK
<1>5. Known'
  BY <1>1, <1>2 DEF CallsInv, TypeOK, Known
<1>6. Own'
  <2>1. \A u \in Tasks \ {t} : UNCHANGED <<req[u], pc[u]>>
    BY <1>2 DEF CallsInv, TypeOK
  <2>2. req'[t].id = nextId /\ req'[t] # NoRequest /\ pc'[t] = "stdin"
    BY <1>1, <1>2, RequestIds DEF CallsInv, TypeOK
  <2>3. nextId \notin Done /\ \A i \in DOMAIN toChild : toChild[i].id # nextId
    BY <1>1 DEF CallsInv, TypeOK, OnTheWay, Asked
  <2>4. ASSUME NEW u \in Tasks
        PROVE  /\ pc'[u] = "idle" <=> req'[u] = NoRequest
               /\ pc'[u] # "idle" => req'[u].id < nextId'
               /\ pc'[u] \in Waiting => status'[req'[u].id] = "open"
               /\ pc'[u] \in Unsent => /\ req'[u].id \notin Done
                                       /\ \A i \in DOMAIN toChild : toChild[i].id # req'[u].id
    <3>1. CASE u = t
      BY <1>1, <1>2, <2>2, <2>3, <3>1 DEF CallsInv, TypeOK
    <3>2. CASE u # t
      <4>1. pc[u] # "idle" => req[u].id \in 1 .. MaxCalls /\ req[u].id < nextId
        BY Busy
      <4> QED BY <1>1, <1>2, <2>1, <3>2, <4>1 DEF CallsInv, TypeOK, Own, Waiting, Unsent
    <3> QED BY <3>1, <3>2
  <2>5. ASSUME NEW u \in Tasks, NEW v \in Tasks, u # v, pc'[u] # "idle", pc'[v] # "idle"
        PROVE  req'[u].id # req'[v].id
    <3>1. \A w \in Tasks \ {t} : pc[w] # "idle" => req[w].id < nextId
      BY DEF CallsInv, Own
    <3> QED BY <1>1, <2>1, <2>2, <2>5, <3>1 DEF CallsInv, TypeOK, Own
  <2> QED BY <1>2, <2>4, <2>5 DEF Own
<1>7. OnTheWay' /\ Asked'
  <2>1. \A i \in DOMAIN toChild : toChild[i].id # 0 => toChild[i].id < nextId + 1
    <3>1. \A i \in DOMAIN toChild : toChild[i].id \in 0 .. MaxCalls
      BY LineIds DEF CallsInv
    <3> QED BY <1>1, <3>1 DEF CallsInv, OnTheWay
  <2>2. Done \subseteq 1 .. nextId
    BY <1>1 DEF CallsInv, Asked
  <2>3. Asked'
    BY <1>1, <1>2, <2>2 DEF CallsInv, Asked
  <2>4. OnTheWay'
    BY <1>2, <2>1 DEF CallsInv, OnTheWay
  <2> QED BY <2>3, <2>4
<1>8. AtMostOnce!Open(nextId)
  BY <1>1, <1>2 DEF AtMostOnce!Open, CallsInv, TypeOK, Known
<1> QED BY <1>1, <1>4, <1>5, <1>6, <1>7, <1>8 DEF CallsInv

-----------------------------------------------------------------------------
(* What is left of the locks, faults and answers in a step that is about   *)
(* something else.                                                         *)
Besides ==
  /\ stdin' \in Tasks \cup {NoTask} /\ stdout' \in Tasks \cup {NoTask}
  /\ drops' \in 0 .. MaxFaults /\ noise' \in 0 .. MaxFaults
  /\ fromChild' \in Seq(OutLine)
  /\ \A i \in DOMAIN fromChild' : fromChild'[i].kind = "answer" => fromChild'[i].id \in Done
  /\ UNCHANGED <<nextId, connected, exited>>

(* A request is over, without its answer or with it.                       *)
LEMMA FailKeeps ==
  ASSUME CallsInv, NEW t \in Tasks, pc[t] \in Waiting, Fail(t), Besides,
         UNCHANGED <<tools, toChild, serving, executed>>
  PROVE  CallsInv' /\ AtMostOnce!Fail(req[t].id)
<1>1. req[t] \in Request /\ req[t].id \in 1 .. MaxCalls /\ req[t].id < nextId /\ status[req[t].id] = "open"
  <2>1. pc[t] # "idle"
    BY DEF Waiting, Unsent
  <2> QED BY <2>1, Busy DEF CallsInv, Own
<1>2. /\ pc' = [pc EXCEPT ![t] = "idle"]
      /\ req' = [req EXCEPT ![t] = NoRequest]
      /\ status' = [status EXCEPT ![req[t].id] = "failed"]
      /\ UNCHANGED <<value, Done>>
  BY DEF Fail, Goto, Done
<1>3. TypeOK'
  BY <1>1, <1>2 DEF CallsInv, TypeOK, Places, Besides
<1>4. RoomLeft'
  <2>1. Connecting' \subseteq Connecting
    BY <1>2, RequestIds DEF CallsInv, TypeOK, Connecting
  <2>2. nextId' = nextId
    BY DEF Besides
  <2> QED BY <2>1, <2>2, RoomStays
<1>5. Known'
  BY <1>1, <1>2 DEF CallsInv, TypeOK, Known, Besides
<1>6. Own'
  <2>1. \A u \in Tasks \ {t} : UNCHANGED <<req[u], pc[u]>>
    BY <1>2 DEF CallsInv, TypeOK
  <2>2. pc'[t] = "idle" /\ req'[t] = NoRequest
    BY <1>2 DEF CallsInv, TypeOK
  <2>3. \A u \in Tasks \ {t} : pc[u] # "idle" => req[u].id # req[t].id /\ req[u].id \in 1 .. MaxCalls
    <3>1. pc[t] # "idle"
      BY DEF Waiting, Unsent
    <3> QED BY <3>1, Busy DEF CallsInv, Own
  <2>4. \A u \in Tasks \ {t} : pc[u] \in Waiting => status'[req[u].id] = "open"
    BY <1>1, <1>2, <2>3 DEF CallsInv, TypeOK, Own, Waiting, Unsent
  <2> QED BY <1>2, <2>1, <2>2, <2>4 DEF CallsInv, Own, Waiting, Unsent, Besides
<1>7. OnTheWay' /\ Asked'
  BY <1>2 DEF CallsInv, OnTheWay, Asked, Besides
<1>8. AtMostOnce!Fail(req[t].id)
  BY <1>1, <1>2 DEF AtMostOnce!Fail
<1> QED BY <1>3, <1>4, <1>5, <1>6, <1>7, <1>8 DEF CallsInv

(* It returns its own answer, or a Null that was none.                     *)
LEMMA ReturnKeeps ==
  ASSUME CallsInv, NEW t \in Tasks, pc[t] = "read", NEW v, Return(t, v), Besides,
         \/ v = req[t].id /\ v \in Done
         \/ v = 0 /\ req[t].id \in ChildIds,
         UNCHANGED <<tools, toChild, serving, executed>>
  PROVE  CallsInv' /\ (AtMostOnce!Return(req[t].id) \/ AtMostOnce!Misread(req[t].id))
<1>1. req[t] \in Request /\ req[t].id \in 1 .. MaxCalls /\ req[t].id < nextId /\ status[req[t].id] = "open"
  BY Busy DEF CallsInv, Own, Waiting
<1>2. /\ status' = [status EXCEPT ![req[t].id] = "returned"]
      /\ value' = [value EXCEPT ![req[t].id] = v]
      /\ UNCHANGED Done
      /\ \/ pc' = [pc EXCEPT ![t] = "answered"] /\ req' = req
         \/ pc' = [pc EXCEPT ![t] = "idle"] /\ req' = [req EXCEPT ![t] = NoRequest]
  BY DEF Return, Goto, Done
<1>3. TypeOK'
  <2>1. pc' \in [Tasks -> Places] /\ req' \in [Tasks -> Request \cup {NoRequest}]
    <3>1. CASE pc' = [pc EXCEPT ![t] = "answered"] /\ req' = req
      BY <3>1 DEF CallsInv, TypeOK, Places
    <3>2. CASE pc' = [pc EXCEPT ![t] = "idle"] /\ req' = [req EXCEPT ![t] = NoRequest]
      BY <3>2 DEF CallsInv, TypeOK, Places
    <3> QED BY <1>2, <3>1, <3>2
  <2>2. /\ status' \in [1 .. MaxCalls -> {"none", "open", "failed", "returned"}]
        /\ value' \in [1 .. MaxCalls -> 0 .. MaxCalls]
    <3>1. v \in 0 .. MaxCalls
      BY <1>1, BoundsAssumption
    <3> QED BY <1>1, <1>2, <3>1 DEF CallsInv, TypeOK
  <2> QED BY <2>1, <2>2 DEF CallsInv, TypeOK, Besides
<1>4. RoomLeft'
  <2>1. Connecting' \subseteq Connecting
    BY <1>2, RequestIds DEF CallsInv, TypeOK, Connecting
  <2>2. nextId' = nextId
    BY DEF Besides
  <2> QED BY <2>1, <2>2, RoomStays
<1>5. Known'
  BY <1>1, <1>2 DEF CallsInv, TypeOK, Known, Besides
<1>6. Own'
  <2>1. \A u \in Tasks \ {t} : UNCHANGED <<req[u], pc[u]>>
    BY <1>2 DEF CallsInv, TypeOK
  <2>2. \/ pc'[t] = "idle" /\ req'[t] = NoRequest
        \/ pc'[t] = "answered" /\ req'[t] = req[t]
    BY <1>2 DEF CallsInv, TypeOK
  <2>3. \A u \in Tasks \ {t} : pc[u] # "idle" => req[u].id # req[t].id /\ req[u].id \in 1 .. MaxCalls
    BY Busy DEF CallsInv, Own
  <2>4. \A u \in Tasks \ {t} : pc[u] \in Waiting => status'[req[u].id] = "open"
    BY <1>1, <1>2, <2>3 DEF CallsInv, TypeOK, Own, Waiting, Unsent
  <2>5. req[t] # NoRequest
    BY <1>1, RequestIds
  <2> QED BY <1>1, <1>2, <2>1, <2>2, <2>3, <2>4, <2>5 DEF CallsInv, Own, Waiting, Unsent, Besides
<1>7. OnTheWay' /\ Asked'
  BY <1>2 DEF CallsInv, OnTheWay, Asked, Besides
<1>8. AtMostOnce!Return(req[t].id) \/ AtMostOnce!Misread(req[t].id)
  <2>1. CASE v = req[t].id /\ v \in Done
    BY <1>1, <1>2, <2>1 DEF AtMostOnce!Return, Done
  <2>2. CASE v = 0 /\ req[t].id \in ChildIds
    <3>1. value[req[t].id] = 0
      BY <1>1 DEF CallsInv, Known
    <3>2. value' = value
      BY <1>1, <1>2, <2>2, <3>1 DEF CallsInv, TypeOK
    <3> QED BY <1>1, <1>2, <2>2, <3>2 DEF AtMostOnce!Misread
  <2> QED BY <2>1, <2>2
<1> QED BY <1>3, <1>4, <1>5, <1>6, <1>7, <1>8 DEF CallsInv

-----------------------------------------------------------------------------
LEMMA BesidesTheLocks ==
  ASSUME CallsInv, stdin' \in Tasks \cup {NoTask}, stdout' \in Tasks \cup {NoTask},
         UNCHANGED <<nextId, connected, exited, fromChild, drops, noise>>
  PROVE  Besides
BY DEF CallsInv, TypeOK, Asked, Besides

(* A request goes on towards its answer: its line may be written by that.  *)
LEMMA MoveKeeps ==
  ASSUME CallsInv, NEW t \in Tasks, NEW at \in Waiting,
         pc[t] \in Waiting, at \in Unsent => pc[t] \in Unsent,
         Goto(t, at), Besides, UNCHANGED <<req, status, value, tools, serving, executed>>,
         toChild' \in Seq(Request \cup {Torn}), OnTheWay',
         \A i \in DOMAIN toChild' :
           \/ toChild'[i].id = 0
           \/ \E j \in DOMAIN toChild : toChild[j].id = toChild'[i].id
           \/ at \notin Unsent /\ toChild'[i].id = req[t].id
  PROVE  CallsInv'
<1>1. pc' = [pc EXCEPT ![t] = at] /\ UNCHANGED <<Done, Connecting>>
  BY DEF Goto, Done, Connecting
<1>2. TypeOK'
  BY <1>1 DEF CallsInv, TypeOK, Places, Besides, Waiting, Unsent
<1>3. RoomLeft' /\ Known' /\ Asked'
  BY <1>1 DEF CallsInv, RoomLeft, Known, Asked, Besides
<1>4. Own'
  <2>1. \A u \in Tasks \ {t} : UNCHANGED pc[u]
    BY <1>1 DEF CallsInv, TypeOK
  <2>2. pc'[t] = at /\ at # "idle" /\ pc[t] # "idle"
    BY <1>1 DEF CallsInv, TypeOK, Waiting, Unsent
  <2>3. \A u \in Tasks : pc[u] # "idle" => req[u].id # 0 /\ (u # t => req[u].id # req[t].id)
    BY <2>2, Busy DEF CallsInv, Own
  <2>4. ASSUME NEW u \in Tasks, pc'[u] \in Unsent
        PROVE  req[u].id \notin Done /\ \A i \in DOMAIN toChild' : toChild'[i].id # req[u].id
    <3>1. pc[u] \in Unsent /\ (u = t => at \in Unsent)
      BY <2>1, <2>2, <2>4
    <3>2. pc[u] # "idle"
      BY <3>1 DEF Unsent
    <3> QED BY <2>3, <3>1, <3>2 DEF CallsInv, Own
  <2>5. \A u \in Tasks : (pc'[u] = "idle" <=> pc[u] = "idle") /\ (pc'[u] \in Waiting => pc[u] \in Waiting)
    BY <2>1, <2>2
  <2> QED BY <1>1, <2>4, <2>5 DEF CallsInv, Own, Besides
<1> QED BY <1>2, <1>3, <1>4 DEF CallsInv

LEMMA LocksKeep ==
  ASSUME CallsInv, NEW t \in Tasks, TakeStdin(t) \/ TakeStdout(t)
  PROVE  CallsInv' /\ UNCHANGED history
<1>1. /\ stdin' \in Tasks \cup {NoTask} /\ stdout' \in Tasks \cup {NoTask}
      /\ UNCHANGED <<nextId, connected, exited, fromChild, drops, noise, toChild,
                     req, status, value, tools, serving, executed>>
  BY DEF TakeStdin, TakeStdout, server, pipes, history, CallsInv, TypeOK
<1>2. Besides
  BY <1>1, BesidesTheLocks
<1>3. OnTheWay' /\ toChild' \in Seq(Request \cup {Torn})
  BY <1>1 DEF CallsInv, TypeOK, OnTheWay, Done
<1>4. CASE TakeStdin(t)
  BY <1>1, <1>2, <1>3, <1>4, MoveKeeps DEF TakeStdin, Waiting, Unsent, history
<1>5. CASE TakeStdout(t)
  BY <1>1, <1>2, <1>3, <1>5, MoveKeeps DEF TakeStdout, Waiting, Unsent, history
<1> QED BY <1>4, <1>5

LEMMA WriteStartKeeps ==
  ASSUME CallsInv, NEW t \in Tasks, WriteStart(t)
  PROVE  CallsInv' /\ UNCHANGED history
<1>1. /\ toChild' = Append(toChild, Torn)
      /\ UNCHANGED <<nextId, connected, exited, fromChild, drops, noise, stdin, stdout,
                     req, status, value, tools, serving, executed>>
  BY DEF WriteStart, server, history
<1>2. Besides
  BY <1>1, BesidesTheLocks DEF CallsInv, TypeOK
<1>3. /\ toChild' \in Seq(Request \cup {Torn})
      /\ DOMAIN toChild' = 1 .. Len(toChild) + 1 /\ DOMAIN toChild = 1 .. Len(toChild)
      /\ Len(toChild) \in Nat
      /\ \A i \in DOMAIN toChild : toChild'[i] = toChild[i]
      /\ toChild'[Len(toChild) + 1] = Torn
  BY <1>1, AppendProperties, LenProperties DEF CallsInv, TypeOK
<1>4. \A i \in DOMAIN toChild' : toChild'[i].id = 0 \/ i \in DOMAIN toChild
  BY <1>3, RequestIds
<1>5. OnTheWay'
  <2>1. Done' = Done /\ nextId' = nextId
    BY <1>1 DEF Done
  <2>2. \A i, j \in DOMAIN toChild' :
          i < j /\ toChild'[i].id # 0 => toChild'[i].id # toChild'[j].id
    <3>1. \A j \in DOMAIN toChild' : j \notin DOMAIN toChild => toChild'[j].id = 0
      BY <1>4
    <3> QED BY <1>3, <3>1 DEF CallsInv, OnTheWay
  <2>3. \A i \in DOMAIN toChild' :
          toChild'[i].id # 0 => toChild'[i].id < nextId /\ toChild'[i].id \notin Done
    BY <1>3, <1>4 DEF CallsInv, OnTheWay
  <2> QED BY <2>1, <2>2, <2>3 DEF OnTheWay
<1> QED BY <1>1, <1>2, <1>3, <1>4, <1>5, MoveKeeps DEF WriteStart, Waiting, Unsent, history

(* The line is whole: the child may read it.                               *)
LEMMA WriteEndKeeps ==
  ASSUME CallsInv, NEW t \in Tasks, WriteEnd(t)
  PROVE  CallsInv' /\ UNCHANGED history
<1>1. /\ pc[t] = "cut" /\ Goto(t, "stdout")
      /\ toChild' = [toChild EXCEPT ![Len(toChild)] = req[t]]
      /\ stdin' = NoTask
      /\ UNCHANGED <<nextId, connected, exited, fromChild, drops, noise, stdout,
                     req, status, value, tools, serving, executed>>
  BY DEF WriteEnd, server, history
<1>2. Besides
  BY <1>1, BesidesTheLocks DEF CallsInv, TypeOK
<1>3. /\ req[t] \in Request /\ req[t].id \in 1 .. MaxCalls /\ req[t].id < nextId
      /\ req[t].id \notin Done /\ \A i \in DOMAIN toChild : toChild[i].id # req[t].id
  BY <1>1, Busy DEF CallsInv, Own, Unsent
<1>4. Len(toChild) \in Nat /\ DOMAIN toChild = 1 .. Len(toChild)
  BY LineIds DEF CallsInv
<1>5. /\ toChild' \in Seq(Request \cup {Torn})
      /\ DOMAIN toChild' = DOMAIN toChild
      /\ \A i \in DOMAIN toChild : toChild'[i] = IF i = Len(toChild) THEN req[t] ELSE toChild[i]
  <2>1. CASE toChild = <<>>
    <3>1. Len(toChild) = 0
      BY <2>1, EmptySeq
    <3>2. toChild' = toChild
      BY <1>1, <2>1, EmptyExcept
    <3> QED BY <1>4, <3>1, <3>2 DEF CallsInv, TypeOK
  <2>2. CASE toChild # <<>>
    <3>1. Len(toChild) \in 1 .. Len(toChild)
      BY <2>2, EmptySeq DEF CallsInv, TypeOK
    <3>2. req[t] \in Request \cup {Torn}
      BY <1>3
    <3> QED BY <1>1, <1>4, <3>1, <3>2, ExceptSeq DEF CallsInv, TypeOK
  <2> QED BY <2>1, <2>2
<1>6. OnTheWay'
  <2>1. Done' = Done /\ nextId' = nextId
    BY <1>1 DEF Done
  <2>2. \A i \in DOMAIN toChild' :
          toChild'[i].id # 0 => toChild'[i].id < nextId /\ toChild'[i].id \notin Done
    BY <1>3, <1>5 DEF CallsInv, OnTheWay
  <2>3. \A i, j \in DOMAIN toChild' :
          i < j /\ toChild'[i].id # 0 => toChild'[i].id # toChild'[j].id
    BY <1>3, <1>4, <1>5 DEF CallsInv, OnTheWay
  <2> QED BY <2>1, <2>2, <2>3 DEF OnTheWay
<1>7. \A i \in DOMAIN toChild' :
        (\E j \in DOMAIN toChild : toChild[j].id = toChild'[i].id) \/ toChild'[i].id = req[t].id
  BY <1>5
<1> QED BY <1>1, <1>2, <1>5, <1>6, <1>7, MoveKeeps DEF Waiting, Unsent, history

(* refresh_tools has its list: the task is free again.                     *)
LEMMA StoreToolsKeeps ==
  ASSUME CallsInv, NEW t \in Tasks, StoreTools(t)
  PROVE  CallsInv' /\ UNCHANGED history
<1>1. req[t] \in Request /\ req[t].id \in 1 .. MaxCalls
  BY Busy DEF StoreTools
<1>2. /\ pc' = [pc EXCEPT ![t] = "idle"] /\ req' = [req EXCEPT ![t] = NoRequest]
      /\ tools' = value[req[t].id] /\ value[req[t].id] \in 0 .. MaxCalls
      /\ UNCHANGED <<stdin, stdout, nextId, connected, toChild, fromChild, serving, exited,
                     status, value, executed, drops, noise, Done>>
  BY <1>1 DEF StoreTools, Goto, pipes, history, Done, CallsInv, TypeOK
<1>3. TypeOK'
  <2>1. pc' \in [Tasks -> Places] /\ req' \in [Tasks -> Request \cup {NoRequest}]
    BY <1>2 DEF CallsInv, TypeOK, Places
  <2>2. tools' \in 0 .. MaxCalls
    BY <1>1, <1>2, BoundsAssumption
  <2> QED BY <1>2, <2>1, <2>2 DEF CallsInv, TypeOK
<1>4. RoomLeft'
  <2>1. Connecting' \subseteq Connecting
    BY <1>2, RequestIds DEF CallsInv, TypeOK, Connecting
  <2>2. nextId' = nextId
    BY <1>2
  <2> QED BY <2>1, <2>2, RoomStays
<1>5. Own'
  <2>1. \A u \in Tasks \ {t} : UNCHANGED <<req[u], pc[u]>>
    BY <1>2 DEF CallsInv, TypeOK
  <2>2. pc'[t] = "idle" /\ req'[t] = NoRequest
    BY <1>2 DEF CallsInv, TypeOK
  <2> QED BY <1>2, <2>1, <2>2 DEF CallsInv, Own, Waiting, Unsent
<1>6. Known' /\ OnTheWay' /\ Asked'
  BY <1>2 DEF CallsInv, Known, OnTheWay, Asked
<1> QED BY <1>2, <1>3, <1>4, <1>5, <1>6 DEF CallsInv, history

-----------------------------------------------------------------------------
(* What comes after the first k lines.                                     *)
LEMMA TailIsLater ==
  ASSUME NEW S, NEW s \in Seq(S), s # <<>>
  PROVE  /\ Tail(s) \in Seq(S)
         /\ \A i \in DOMAIN Tail(s) : i + 1 \in DOMAIN s /\ Tail(s)[i] = s[i + 1]
         /\ DOMAIN s = 1 .. Len(s) /\ Len(s) \in Nat \ {0} /\ Head(s) = s[1]
         /\ DOMAIN Tail(s) = 1 .. Len(s) - 1 /\ Len(Tail(s)) = Len(s) - 1
         /\ Len(s) > 1 => Tail(s) # <<>>
<1>1. /\ Tail(s) \in Seq(S) /\ Len(Tail(s)) = Len(s) - 1
      /\ \A i \in 1 .. Len(Tail(s)) : Tail(s)[i] = s[i + 1]
  BY HeadTailProperties
<1>2. DOMAIN s = 1 .. Len(s) /\ Len(s) \in Nat \ {0} /\ DOMAIN Tail(s) = 1 .. Len(Tail(s))
  BY <1>1, LenProperties, EmptySeq
<1>3. ASSUME Len(s) > 1 PROVE Tail(s) # <<>>
  <2>1. Len(Tail(s)) # 0
    BY <1>1, <1>2, <1>3
  <2>2. Len(<<>>) = 0
    BY EmptySeq
  <2> QED BY <2>1, <2>2
<1> QED BY <1>1, <1>2, <1>3

(* Lines go, from the front, and nothing comes.                            *)
LEMMA FewerLines ==
  ASSUME CallsInv, NEW k \in Nat, UNCHANGED <<nextId, executed>>,
         \A i \in DOMAIN toChild' : /\ i \in Nat /\ i + k \in DOMAIN toChild
                                    /\ toChild'[i] = toChild[i + k]
  PROVE  /\ OnTheWay'
         /\ \A i \in DOMAIN toChild' : \E j \in DOMAIN toChild : toChild[j].id = toChild'[i].id
<1>1. UNCHANGED Done
  BY DEF Done
<1>2. \A i, j \in DOMAIN toChild' : i < j => i + k < j + k
  OBVIOUS
<1> QED BY <1>1, <1>2 DEF CallsInv, OnTheWay

LEMMA ChildReadsKeeps ==
  ASSUME CallsInv, ChildReads
  PROVE  CallsInv' /\ \E n \in 1 .. MaxCalls : AtMostOnce!Execute(n)
<1> DEFINE n == Head(toChild).id
<1>1. /\ toChild # <<>> /\ Head(toChild) # Torn
      /\ toChild' = Tail(toChild)
      /\ serving' = serving \cup {n}
      /\ executed' = Append(executed, n)
      /\ UNCHANGED <<pc, req, stdin, stdout, nextId, connected, tools, fromChild, exited,
                     status, value, drops, noise, Connecting>>
  BY DEF ChildReads, tasks, server, Connecting
<1>2. /\ toChild' \in Seq(Request \cup {Torn})
      /\ \A i \in DOMAIN toChild' : i \in Nat \ {0} /\ i + 1 \in DOMAIN toChild /\ toChild'[i] = toChild[i + 1]
      /\ 1 \in DOMAIN toChild /\ Head(toChild) = toChild[1]
  BY <1>1, TailIsLater DEF CallsInv, TypeOK
<1>3. n \in 1 .. MaxCalls /\ n # 0 /\ n < nextId /\ n \notin Done
  <2>1. toChild[1] \in Request
    BY <1>1, <1>2, LineIds DEF CallsInv
  <2>2. n \in 1 .. MaxCalls /\ n # 0
    BY <1>2, <2>1, RequestIds
  <2> QED BY <1>2, <2>2 DEF CallsInv, OnTheWay
<1> HIDE DEF n
<1>4. executed' \in Seq(1 .. MaxCalls) /\ Done' = Done \cup {n}
  <2>1. /\ executed' \in Seq(1 .. MaxCalls)
        /\ DOMAIN executed = 1 .. Len(executed) /\ Len(executed) \in Nat
        /\ DOMAIN executed' = 1 .. Len(executed) + 1
        /\ \A i \in 1 .. Len(executed) : executed'[i] = executed[i]
        /\ executed'[Len(executed) + 1] = n
    BY <1>1, <1>3, AppendProperties, LenProperties DEF CallsInv, TypeOK
  <2> QED BY <2>1 DEF Done
<1>5. TypeOK'
  BY <1>1, <1>2, <1>3, <1>4 DEF CallsInv, TypeOK
<1>6. RoomLeft' /\ Known'
  BY <1>1, <1>4 DEF CallsInv, RoomLeft, Known
<1>7. Own'
  <2>1. \A t \in Tasks : pc[t] \in Unsent => /\ req[t].id \notin Done'
                                             /\ \A i \in DOMAIN toChild' : toChild'[i].id # req[t].id
    <3>1. toChild[1].id = n
      BY <1>2 DEF n
    <3> QED BY <1>2, <1>4, <3>1 DEF CallsInv, Own
  <2> QED BY <1>1, <2>1 DEF CallsInv, Own
<1>8. OnTheWay'
  <2>1. toChild[1].id = n
    BY <1>2 DEF n
  <2>2. \A i \in DOMAIN toChild' : toChild'[i].id # n
    <3>1. \A i \in DOMAIN toChild' : 1 < i + 1
      BY <1>2
    <3> QED BY <1>2, <1>3, <2>1, <3>1 DEF CallsInv, OnTheWay
  <2>3. \A i \in DOMAIN toChild' :
          toChild'[i].id # 0 => toChild'[i].id < nextId /\ toChild'[i].id \notin Done'
    BY <1>2, <1>4, <2>2 DEF CallsInv, OnTheWay
  <2>4. \A i, j \in DOMAIN toChild' :
          i < j /\ toChild'[i].id # 0 => toChild'[i].id # toChild'[j].id
    <3>1. \A i, j \in DOMAIN toChild' : i < j => i + 1 < j + 1
      BY <1>2
    <3> QED BY <1>2, <3>1 DEF CallsInv, OnTheWay
  <2> QED BY <1>1, <2>3, <2>4 DEF OnTheWay
<1>9. Asked'
  <2>1. n \in 1 .. nextId - 1
    BY <1>3 DEF CallsInv, TypeOK
  <2> QED BY <1>1, <1>4, <2>1 DEF CallsInv, Asked
<1>10. AtMostOnce!Execute(n)
  <2>1. status[n] \in {"open", "failed"} \/ (status[n] = "returned" /\ n \in ChildIds)
    <3>1. status[n] # "none" /\ (status[n] = "returned" => n \in ChildIds)
      BY <1>3 DEF CallsInv, TypeOK, Known
    <3> QED BY <1>3, <3>1 DEF CallsInv, TypeOK
  <2>2. \A i \in DOMAIN executed : executed[i] # n
    BY <1>3 DEF Done
  <2> QED BY <1>1, <2>1, <2>2 DEF AtMostOnce!Execute
<1> QED BY <1>3, <1>5, <1>6, <1>7, <1>8, <1>9, <1>10 DEF CallsInv

(* The child drops lines it has not read, all of them when it exits.       *)
LEMMA DropsLines ==
  ASSUME CallsInv, NEW k \in Nat, toChild' \in Seq(Request \cup {Torn}),
         \A i \in DOMAIN toChild' : /\ i \in Nat /\ i + k \in DOMAIN toChild
                                    /\ toChild'[i] = toChild[i + k],
         serving' \subseteq serving, exited' \in BOOLEAN,
         UNCHANGED <<pc, req, stdin, stdout, nextId, connected, tools, fromChild,
                     status, value, executed, drops, noise>>
  PROVE  CallsInv'
<1>1. /\ OnTheWay'
      /\ \A i \in DOMAIN toChild' : \E j \in DOMAIN toChild : toChild[j].id = toChild'[i].id
  BY FewerLines
<1>2. UNCHANGED <<Done, Connecting>>
  BY DEF Done, Connecting
<1>3. TypeOK'
  BY DEF CallsInv, TypeOK
<1>4. RoomLeft' /\ Known' /\ Asked'
  BY <1>2 DEF CallsInv, RoomLeft, Known, Asked
<1>5. Own'
  BY <1>1, <1>2 DEF CallsInv, Own
<1> QED BY <1>1, <1>3, <1>4, <1>5 DEF CallsInv

LEMMA SkipOrExitKeeps ==
  ASSUME CallsInv, ChildSkips \/ ChildExits
  PROVE  CallsInv' /\ UNCHANGED history
<1>1. /\ UNCHANGED <<pc, req, stdin, stdout, nextId, connected, tools, fromChild,
                     status, value, executed, drops, noise, history>>
      /\ serving' \subseteq serving /\ exited' \in BOOLEAN
  BY DEF ChildSkips, ChildExits, tasks, server, history, CallsInv, TypeOK
<1>2. CASE ChildExits
  <2>1. toChild' \in Seq(Request \cup {Torn}) /\ DOMAIN toChild' = {}
    BY <1>2, EmptySeq DEF ChildExits
  <2> QED BY <1>1, <2>1, DropsLines
<1>3. CASE ChildSkips
  <2>1. Len(toChild) > 1
    BY <1>3 DEF ChildSkips
  <2>2. toChild # <<>>
    BY <2>1, EmptySeq
  <2>3. /\ Tail(toChild) \in Seq(Request \cup {Torn}) /\ Tail(toChild) # <<>>
        /\ \A i \in DOMAIN Tail(toChild) : /\ i \in Nat /\ i + 1 \in DOMAIN toChild
                                           /\ Tail(toChild)[i] = toChild[i + 1]
    <3>1. /\ Tail(toChild) \in Seq(Request \cup {Torn}) /\ Len(Tail(toChild)) = Len(toChild) - 1
          /\ DOMAIN Tail(toChild) = 1 .. Len(toChild) - 1 /\ Len(toChild) \in Nat
          /\ \A i \in DOMAIN Tail(toChild) : i + 1 \in DOMAIN toChild /\ Tail(toChild)[i] = toChild[i + 1]
      BY <2>2, TailIsLater DEF CallsInv, TypeOK
    <3>2. Tail(toChild) # <<>>
      BY <2>1, <2>2, TailIsLater DEF CallsInv, TypeOK
    <3> QED BY <3>1, <3>2
  <2>4. CASE toChild' = Tail(toChild)
    BY <1>1, <2>3, <2>4, DropsLines
  <2>5. CASE toChild' = Tail(Tail(toChild))
    <3>1. /\ toChild' \in Seq(Request \cup {Torn})
          /\ \A i \in DOMAIN toChild' : /\ i \in Nat /\ i + 1 \in DOMAIN Tail(toChild)
                                        /\ toChild'[i] = Tail(toChild)[i + 1]
      BY <2>3, <2>5, TailIsLater
    <3>2. \A i \in DOMAIN toChild' : i + 2 \in DOMAIN toChild /\ toChild'[i] = toChild[i + 2]
      BY <2>3, <3>1
    <3> QED BY <1>1, <3>1, <3>2, DropsLines
  <2> QED BY <1>3, <2>4, <2>5 DEF ChildSkips
<1> QED BY <1>1, <1>2, <1>3

(* The child writes a line: an answer to what it works on, or none.        *)
LEMMA ChildWritesKeeps ==
  ASSUME CallsInv, ChildAnswers \/ ChildPrints
  PROVE  CallsInv' /\ UNCHANGED history
<1>1. /\ UNCHANGED <<pc, req, stdin, stdout, nextId, connected, tools, toChild, exited,
                     status, value, executed, drops, history, Done, Connecting>>
      /\ serving' \subseteq serving
  BY DEF ChildAnswers, ChildPrints, tasks, server, history, Done, Connecting
<1>2. noise' \in 0 .. MaxFaults
  <2>1. noise \in 0 .. MaxFaults /\ drops \in 0 .. MaxFaults /\ MaxFaults \in Nat
    BY BoundsAssumption DEF CallsInv, TypeOK
  <2>2. noise' = noise \/ (drops + noise < MaxFaults /\ noise' = noise + 1)
    BY DEF ChildAnswers, ChildPrints
  <2> QED BY <2>1, <2>2
<1>3. PICK line \in OutLine :
        fromChild' = Append(fromChild, line) /\ (line.kind = "answer" => line.id \in Done)
  <2>1. CASE ChildAnswers
    <3>1. PICK id \in serving : fromChild' = Append(fromChild, Answer(id))
      BY <2>1 DEF ChildAnswers
    <3>2. id \in 1 .. MaxCalls /\ id \in Done
      BY <3>1 DEF CallsInv, TypeOK, Asked
    <3> QED BY <3>1, <3>2, OutLineIds
  <2>2. CASE ChildPrints
    <3>1. \E line \in Stray : fromChild' = Append(fromChild, line)
      BY <2>2 DEF ChildPrints
    <3> QED BY <3>1, OutLineIds
  <2> QED BY <2>1, <2>2
<1>4. /\ fromChild' \in Seq(OutLine)
      /\ \A i \in DOMAIN fromChild' : fromChild'[i].kind = "answer" => fromChild'[i].id \in Done
  <2>1. /\ fromChild' \in Seq(OutLine)
        /\ DOMAIN fromChild' = 1 .. Len(fromChild) + 1 /\ Len(fromChild) \in Nat
        /\ DOMAIN fromChild = 1 .. Len(fromChild)
        /\ \A i \in 1 .. Len(fromChild) : fromChild'[i] = fromChild[i]
        /\ fromChild'[Len(fromChild) + 1] = line
    BY <1>3, AppendProperties, LenProperties DEF CallsInv, TypeOK
  <2> QED BY <1>3, <2>1 DEF CallsInv, Asked
<1>5. TypeOK'
  BY <1>1, <1>2, <1>4 DEF CallsInv, TypeOK
<1> QED BY <1>1, <1>4, <1>5 DEF CallsInv, RoomLeft, Known, Own, OnTheWay, Asked

-----------------------------------------------------------------------------
(* The reader takes a line of the child's.                                 *)
LEMMA ReadBesides ==
  ASSUME CallsInv, fromChild # <<>>, fromChild' = Tail(fromChild), stdout' \in Tasks \cup {NoTask},
         UNCHANGED <<stdin, nextId, connected, exited, drops, noise>>
  PROVE  Besides /\ Head(fromChild) \in OutLine
                 /\ (Head(fromChild).kind = "answer" => Head(fromChild).id \in Done)
<1>1. /\ fromChild' \in Seq(OutLine)
      /\ \A i \in DOMAIN fromChild' : i + 1 \in DOMAIN fromChild /\ fromChild'[i] = fromChild[i + 1]
      /\ 1 \in DOMAIN fromChild /\ Head(fromChild) = fromChild[1]
  BY TailIsLater DEF CallsInv, TypeOK
<1>2. Head(fromChild) \in OutLine
  BY <1>1, LineIds DEF CallsInv
<1>3. Head(fromChild).kind = "answer" => Head(fromChild).id \in Done
  BY <1>1 DEF CallsInv, Asked
<1>4. Besides
  BY <1>1 DEF CallsInv, TypeOK, Asked, Besides
<1> QED BY <1>2, <1>3, <1>4

LEMMA ReadLineKeeps ==
  ASSUME CallsInv, NEW t \in Tasks, ReadLine(t)
  PROVE  CallsInv' /\ \/ UNCHANGED history
                      \/ \E n \in 1 .. MaxCalls :
                           AtMostOnce!Fail(n) \/ AtMostOnce!Return(n) \/ AtMostOnce!Misread(n)
<1> DEFINE line == Head(fromChild)
<1>1. /\ pc[t] = "read" /\ fromChild # <<>> /\ fromChild' = Tail(fromChild)
      /\ UNCHANGED <<stdin, nextId, connected, tools, toChild, serving, exited, executed, drops, noise>>
  BY DEF ReadLine, server
<1>2. pc[t] \in Waiting /\ req[t].id \in 1 .. MaxCalls /\ req[t].id # 0
  BY <1>1, Busy DEF Waiting
<1>3. \/ UNCHANGED <<tasks, stdout, status, value>>
      \/ Fail(t) /\ stdout' = NoTask
      \/ /\ stdout' = NoTask /\ line.id = req[t].id
         /\ \/ line.kind = "ask" /\ Return(t, 0)
            \/ line.kind # "ask" /\ Return(t, line.id)
  BY <1>2, OutLineIds DEF ReadLine
<1>4. CASE UNCHANGED <<tasks, stdout, status, value>>
  <2>1. stdout' \in Tasks \cup {NoTask}
    BY <1>4 DEF CallsInv, TypeOK
  <2>2. Besides
    BY <1>1, <2>1, ReadBesides
  <2>3. UNCHANGED <<pc, req, stdout, Done, Connecting>>
    BY <1>1, <1>4 DEF tasks, Done, Connecting
  <2>4. TypeOK'
    BY <1>1, <1>4, <2>2, <2>3 DEF CallsInv, TypeOK, Besides
  <2> QED BY <1>1, <1>4, <2>2, <2>3, <2>4
          DEF CallsInv, RoomLeft, Known, Own, OnTheWay, Asked, Besides, history
<1>5. CASE Fail(t) /\ stdout' = NoTask
  <2>1. Besides
    BY <1>1, <1>5, ReadBesides
  <2> QED BY <1>1, <1>2, <1>5, <2>1, FailKeeps
<1>6. ASSUME stdout' = NoTask, line.id = req[t].id, line.kind = "ask", Return(t, 0)
      PROVE  CallsInv' /\ \E n \in 1 .. MaxCalls : AtMostOnce!Return(n) \/ AtMostOnce!Misread(n)
  <2>1. Besides /\ line \in OutLine
    BY <1>1, <1>6, ReadBesides
  <2>2. req[t].id \in ChildIds
    BY <1>6, <2>1, OutLineIds
  <2> QED BY <1>1, <1>2, <1>6, <2>1, <2>2, ReturnKeeps
<1>7. ASSUME stdout' = NoTask, line.id = req[t].id, line.kind # "ask", Return(t, line.id)
      PROVE  CallsInv' /\ \E n \in 1 .. MaxCalls : AtMostOnce!Return(n) \/ AtMostOnce!Misread(n)
  <2>1. Besides /\ line \in OutLine /\ (line.kind = "answer" => line.id \in Done)
    BY <1>1, <1>7, ReadBesides
  <2>2. line.id = req[t].id /\ line.id \in Done
    BY <1>2, <1>7, <2>1, OutLineIds
  <2> QED BY <1>1, <1>2, <1>7, <2>1, <2>2, ReturnKeeps
<1> QED BY <1>3, <1>4, <1>5, <1>6, <1>7

(* A caller gives up, or is told to.                                       *)
LEMMA GivenUpKeeps ==
  ASSUME CallsInv, NEW t \in Tasks, WriteFails(t) \/ ReadEof(t) \/ Drop(t)
  PROVE  CallsInv' /\ \E n \in 1 .. MaxCalls : AtMostOnce!Fail(n)
<1>1. /\ pc[t] \in Waiting /\ Fail(t)
      /\ UNCHANGED <<nextId, connected, tools, toChild, serving, exited, executed>>
  BY DEF WriteFails, ReadEof, Drop, Waiting, Unsent, server, pipes
<1>2. pc[t] # "idle"
  BY <1>1 DEF Waiting, Unsent
<1>3. stdin' \in Tasks \cup {NoTask} /\ stdout' \in Tasks \cup {NoTask}
  BY DEF WriteFails, ReadEof, Drop, CallsInv, TypeOK
<1>4. drops' \in 0 .. MaxFaults /\ noise' \in 0 .. MaxFaults
  BY BoundsAssumption DEF WriteFails, ReadEof, Drop, CallsInv, TypeOK
<1>5. /\ fromChild' \in Seq(OutLine)
      /\ \A i \in DOMAIN fromChild' : fromChild'[i].kind = "answer" => fromChild'[i].id \in Done
  <2>1. CASE UNCHANGED fromChild
    BY <2>1 DEF CallsInv, TypeOK, Asked
  <2>2. CASE fromChild # <<>> /\ fromChild' = [fromChild EXCEPT ![1] = Garbage]
    <3>1. 1 \in 1 .. Len(fromChild) /\ DOMAIN fromChild = 1 .. Len(fromChild)
      BY <2>2, EmptySeq, LenProperties DEF CallsInv, TypeOK
    <3>2. /\ fromChild' \in Seq(OutLine) /\ DOMAIN fromChild' = DOMAIN fromChild
          /\ \A i \in DOMAIN fromChild : fromChild'[i] = IF i = 1 THEN Garbage ELSE fromChild[i]
      BY <2>2, <3>1, OutLineIds, ExceptSeq DEF CallsInv, TypeOK
    <3> QED BY <3>2, OutLineIds DEF CallsInv, Asked
  <2> QED BY <2>1, <2>2 DEF WriteFails, ReadEof, Drop, pipes
<1>6. Besides
  BY <1>1, <1>3, <1>4, <1>5 DEF Besides
<1> QED BY <1>1, <1>2, <1>6, FailKeeps, Busy

-----------------------------------------------------------------------------
LEMMA AskKeeps ==
  ASSUME CallsInv, NEW t \in Tasks, Begin(t) \/ SetConnected(t)
  PROVE  CallsInv' /\ \E n \in 1 .. MaxCalls : AtMostOnce!Open(n)
<1>1. PICK method \in Methods :
        /\ Send(t, method)
        /\ \/ pc[t] = "idle" /\ Room(IF method = "initialize" THEN 2 ELSE 1)
           \/ pc[t] = "answered" /\ req[t].method = "initialize" /\ method = "tools/list"
  BY DEF Begin, Connect, Refresh, CallTool, HealthCheck, SetConnected, Methods
<1>2. connected' \in BOOLEAN /\ UNCHANGED tools
  BY DEF Begin, Connect, Refresh, CallTool, HealthCheck, SetConnected, server, CallsInv, TypeOK
<1>3. nextId \in 1 .. MaxCalls
  BY <1>1, SendRoom
<1> QED BY <1>1, <1>2, <1>3, SendKeeps

LEMMA CallsNext ==
  ASSUME CallsInv, [Next]_vars
  PROVE  CallsInv' /\ [AtMostOnce!Next]_(AtMostOnce!vars)
<1>1. \/ \E t \in Tasks : Begin(t) \/ SetConnected(t)
      \/ \E t \in Tasks : TakeStdin(t) \/ TakeStdout(t)
      \/ \E t \in Tasks : WriteStart(t)
      \/ \E t \in Tasks : WriteEnd(t)
      \/ \E t \in Tasks : WriteFails(t) \/ ReadEof(t) \/ Drop(t)
      \/ \E t \in Tasks : ReadLine(t)
      \/ \E t \in Tasks : StoreTools(t)
      \/ ChildReads \/ ChildSkips \/ ChildExits \/ ChildAnswers \/ ChildPrints
      \/ UNCHANGED vars
  BY DEF Next, Step, Child
<1>2. /\ UNCHANGED history => [AtMostOnce!Next]_(AtMostOnce!vars)
      /\ (\E n \in 1 .. MaxCalls : \/ AtMostOnce!Open(n) \/ AtMostOnce!Execute(n)
                                   \/ AtMostOnce!Return(n) \/ AtMostOnce!Misread(n)
                                   \/ AtMostOnce!Fail(n))
           => AtMostOnce!Next
  BY DEF history, AtMostOnce!vars, AtMostOnce!Next
<1>3. CASE UNCHANGED vars
  <2>1. /\ UNCHANGED <<pc, req, stdin, stdout, nextId, connected, tools, toChild, fromChild, serving,
                       exited, status, value, executed, drops, noise, history>>
    BY <1>3 DEF vars, tasks, server, pipes, history
  <2>2. UNCHANGED <<Done, Connecting>>
    BY <2>1 DEF Done, Connecting
  <2> QED BY <1>2, <2>1, <2>2
          DEF CallsInv, TypeOK, RoomLeft, Known, Own, OnTheWay, Asked
<1>4. CASE \E t \in Tasks : Begin(t) \/ SetConnected(t)
  BY <1>2, <1>4, AskKeeps
<1>5. CASE \E t \in Tasks : TakeStdin(t) \/ TakeStdout(t)
  BY <1>2, <1>5, LocksKeep
<1>6. CASE \E t \in Tasks : WriteStart(t)
  BY <1>2, <1>6, WriteStartKeeps
<1>7. CASE \E t \in Tasks : WriteEnd(t)
  BY <1>2, <1>7, WriteEndKeeps
<1>8. CASE \E t \in Tasks : WriteFails(t) \/ ReadEof(t) \/ Drop(t)
  BY <1>2, <1>8, GivenUpKeeps
<1>9. CASE \E t \in Tasks : ReadLine(t)
  BY <1>2, <1>9, ReadLineKeeps
<1>10. CASE \E t \in Tasks : StoreTools(t)
  BY <1>2, <1>10, StoreToolsKeeps
<1>11. CASE ChildReads
  BY <1>2, <1>11, ChildReadsKeeps
<1>12. CASE ChildSkips \/ ChildExits
  BY <1>2, <1>12, SkipOrExitKeeps
<1>13. CASE ChildAnswers \/ ChildPrints
  BY <1>2, <1>13, ChildWritesKeeps
<1> QED BY <1>1, <1>3, <1>4, <1>5, <1>6, <1>7, <1>8, <1>9, <1>10, <1>11, <1>12, <1>13

(* Every variable keeps its type, and ids never run over what was made.    *)
THEOREM McpTypes == Spec => []TypeOK
<1>1. Spec => []CallsInv
  BY CallsInit, CallsNext, PTL DEF Spec
<1>2. CallsInv => TypeOK
  BY DEF CallsInv
<1> QED BY <1>1, <1>2, PTL

(* However many tasks share the child, whatever they read, skip, drop or   *)
(* damage and whatever it prints, a request is executed at most once and   *)
(* one that returns Ok was executed and returns its own answer, but for    *)
(* the ids the child uses for requests of its own (transport.rs:157-205).  *)
THEOREM McpAtMostOnce == Spec => ImplementsRemoteCalls
<1>1. Init => AtMostOnce!Init
  BY DEF Init, AtMostOnce!Init
<1>2. Spec => []CallsInv
  BY CallsInit, CallsNext, PTL DEF Spec
<1> QED BY <1>1, <1>2, CallsNext, PTL DEF Spec, ImplementsRemoteCalls, AtMostOnce!Spec

-----------------------------------------------------------------------------
(* Who is writing has the lock of stdin, and without a child there is      *)
(* nothing for it to read.                                                 *)
Writing == {"write", "cut"}
Held    == \A t \in Tasks : pc[t] \in Writing => stdin = t

LinesInv == Held /\ (exited => toChild = <<>>) /\ ChildGetsWholeLines

LEMMA LinesInit == Init => LinesInv
<1>1. Init => Held
  BY DEF Init, Held, Writing
<1>2. Init => ChildGetsWholeLines
  BY EmptySeq DEF Init, ChildGetsWholeLines
<1> QED BY <1>1, <1>2 DEF Init, LinesInv

(* Steps that write nothing.                                               *)
LEMMA ElsewhereKeepsLines ==
  ASSUME CallsInv, LinesInv, UNCHANGED <<stdin, toChild, exited, drops>>,
         \/ UNCHANGED pc
         \/ \E t \in Tasks, at \in Places : pc[t] \notin Writing /\ at \notin Writing /\ Goto(t, at)
  PROVE  LinesInv'
<1>1. \A t \in Tasks : pc'[t] # pc[t] => pc'[t] \notin Writing /\ pc[t] \notin Writing
  BY DEF CallsInv, TypeOK, Goto
<1>2. Held'
  BY <1>1 DEF LinesInv, Held
<1>3. \A t \in Tasks : pc[t] = "cut" => pc'[t] = "cut"
  BY <1>1 DEF Writing
<1>4. ChildGetsWholeLines'
  BY <1>3 DEF LinesInv, ChildGetsWholeLines
<1> QED BY <1>2, <1>4 DEF LinesInv

LEMMA WritersKeepLines ==
  ASSUME CallsInv, LinesInv, NEW t \in Tasks, TakeStdin(t) \/ WriteStart(t) \/ WriteEnd(t)
  PROVE  LinesInv'
<1>1. \A u \in Tasks : u # t => UNCHANGED pc[u]
  BY DEF CallsInv, TypeOK, TakeStdin, WriteStart, WriteEnd, Goto
<1>2. Len(toChild) \in Nat /\ DOMAIN toChild = 1 .. Len(toChild)
  BY LineIds DEF CallsInv
<1>3. CASE TakeStdin(t)
  <2>1. stdin = NoTask /\ stdin' = t /\ pc'[t] = "write" /\ pc[t] = "stdin"
        /\ UNCHANGED <<toChild, exited, drops>>
    BY <1>3 DEF CallsInv, TypeOK, TakeStdin, Goto, pipes
  <2>2. Held'
    BY <1>1, <2>1, TaskAssumption DEF LinesInv, Held
  <2>3. \A u \in Tasks : pc[u] = "cut" => pc'[u] = "cut"
    BY <1>1, <2>1
  <2> QED BY <2>1, <2>2, <2>3 DEF LinesInv, ChildGetsWholeLines
<1>4. CASE WriteStart(t)
  <2>1. /\ pc[t] = "write" /\ pc'[t] = "cut" /\ ~ exited
        /\ toChild' = Append(toChild, Torn)
        /\ UNCHANGED <<stdin, exited, drops>>
    BY <1>4 DEF CallsInv, TypeOK, WriteStart, Goto
  <2>2. stdin = t /\ Held'
    BY <1>1, <2>1 DEF LinesInv, Held, Writing
  <2>3. \A u \in Tasks : pc[u] # "cut"
    BY <2>1, <2>2 DEF LinesInv, Held, Writing
  <2>4. /\ Len(toChild') = Len(toChild) + 1
        /\ \A i \in 1 .. Len(toChild) : toChild'[i] = toChild[i]
    BY <2>1, AppendProperties DEF CallsInv, TypeOK
  <2>5. ASSUME NEW i \in 1 .. Len(toChild'), drops' = 0, toChild'[i] = Torn
        PROVE  i = Len(toChild')
    <3>1. CASE i \in 1 .. Len(toChild)
      BY <2>1, <2>3, <2>4, <2>5, <3>1 DEF LinesInv, ChildGetsWholeLines
    <3>2. CASE i \notin 1 .. Len(toChild)
      BY <1>2, <2>4, <3>2
    <3> QED BY <3>1, <3>2
  <2>6. ChildGetsWholeLines'
    BY <2>1, <2>5 DEF ChildGetsWholeLines
  <2> QED BY <2>1, <2>2, <2>6 DEF LinesInv
<1>5. CASE WriteEnd(t)
  <2>1. /\ pc[t] = "cut" /\ pc'[t] = "stdout" /\ ~ exited
        /\ toChild' = [toChild EXCEPT ![Len(toChild)] = req[t]]
        /\ UNCHANGED <<exited, drops>>
    BY <1>5 DEF CallsInv, TypeOK, WriteEnd, Goto
  <2>2. Held'
    BY <1>1, <2>1 DEF LinesInv, Held, Writing
  <2>3. req[t] \in Request /\ req[t] # Torn
    <3>1. req[t] \in Request /\ req[t].id # 0
      BY <2>1, Busy
    <3> QED BY <3>1, RequestIds
  <2>4. ChildGetsWholeLines'
    <3>1. CASE toChild = <<>>
      <4>1. Len(toChild) = 0
        BY <3>1, EmptySeq
      <4>2. toChild' = [<<>> EXCEPT ![Len(toChild)] = req[t]]
        BY <2>1, <3>1, Zenon
      <4>3. toChild' = toChild
        BY <3>1, <4>2, EmptyExcept, Zenon
      <4> QED BY <4>1, <4>3 DEF ChildGetsWholeLines
    <3>2. CASE toChild # <<>>
      <4>1. Len(toChild) \in 1 .. Len(toChild)
        BY <3>2, EmptySeq DEF CallsInv, TypeOK
      <4>2. /\ Len(toChild') = Len(toChild)
            /\ \A i \in 1 .. Len(toChild) : toChild'[i] = IF i = Len(toChild) THEN req[t] ELSE toChild[i]
        <5>1. req[t] \in Request \cup {Torn}
          BY <2>3
        <5> QED BY <2>1, <4>1, <5>1, ExceptSeq DEF CallsInv, TypeOK
      <4> QED BY <1>2, <2>1, <2>3, <4>2 DEF LinesInv, ChildGetsWholeLines
    <3> QED BY <3>1, <3>2
  <2> QED BY <2>1, <2>2, <2>4 DEF LinesInv
<1> QED BY <1>3, <1>4, <1>5

(* A writer is told that the child is gone, or is dropped.                 *)
LEMMA GivenUpKeepsLines ==
  ASSUME CallsInv, LinesInv, NEW t \in Tasks, WriteFails(t) \/ Drop(t)
  PROVE  LinesInv'
<1>1. /\ \A u \in Tasks : u # t => UNCHANGED pc[u]
      /\ pc'[t] = "idle" /\ UNCHANGED <<toChild, exited>>
  BY DEF CallsInv, TypeOK, WriteFails, Drop, Fail, Goto, pipes
<1>2. Held'
  BY <1>1 DEF LinesInv, Held, Writing, WriteFails, Drop
<1>3. ChildGetsWholeLines'
  <2>1. CASE WriteFails(t)
    <3>1. toChild' = <<>>
      BY <1>1, <2>1 DEF WriteFails, LinesInv
    <3> QED BY <3>1, EmptySeq DEF ChildGetsWholeLines
  <2>2. CASE Drop(t)
    BY <2>2 DEF Drop, CallsInv, TypeOK, ChildGetsWholeLines
  <2> QED BY <2>1, <2>2
<1> QED BY <1>1, <1>2, <1>3 DEF LinesInv

LEMMA ChildKeepsLines ==
  ASSUME CallsInv, LinesInv, ChildReads \/ ChildSkips \/ ChildExits
  PROVE  LinesInv'
<1>1. UNCHANGED <<pc, stdin, drops>> /\ (exited' => toChild' = <<>>)
  BY DEF ChildReads, ChildSkips, ChildExits, tasks
<1>2. Held'
  BY <1>1 DEF LinesInv, Held
<1>3. ChildGetsWholeLines'
  <2>1. CASE ChildExits
    BY <2>1, EmptySeq DEF ChildExits, ChildGetsWholeLines
  <2>2. CASE ChildReads
    <3>1. toChild # <<>> /\ toChild' = Tail(toChild)
      BY <2>2 DEF ChildReads
    <3>2. /\ Len(toChild) \in Nat /\ Len(toChild') = Len(toChild) - 1
          /\ \A i \in 1 .. Len(toChild') : toChild'[i] = toChild[i + 1]
      BY <3>1, HeadTailProperties, LenProperties DEF CallsInv, TypeOK
    <3> QED BY <1>1, <3>2 DEF LinesInv, ChildGetsWholeLines
  <2>3. CASE ChildSkips
    <3>1. Len(toChild) > 1 /\ Head(toChild) = Torn
      BY <2>3 DEF ChildSkips
    <3>2. toChild # <<>>
      BY <3>1, EmptySeq
    <3>3. toChild[1] = Torn /\ Len(toChild) \in Nat
      BY <3>1, <3>2, TailIsLater DEF CallsInv, TypeOK
    <3> QED BY <1>1, <3>1, <3>3 DEF LinesInv, ChildGetsWholeLines
  <2> QED BY <2>1, <2>2, <2>3
<1> QED BY <1>1, <1>2, <1>3 DEF LinesInv

LEMMA LinesNext ==
  ASSUME CallsInv, LinesInv, [Next]_vars
  PROVE  LinesInv'
<1>1. CASE \E t \in Tasks : TakeStdin(t) \/ WriteStart(t) \/ WriteEnd(t)
  BY <1>1, WritersKeepLines
<1>2. CASE \E t \in Tasks : WriteFails(t) \/ Drop(t)
  BY <1>2, GivenUpKeepsLines
<1>3. CASE ChildReads \/ ChildSkips \/ ChildExits
  BY <1>3, ChildKeepsLines
<1>4. CASE ChildAnswers \/ ChildPrints \/ UNCHANGED vars
  <2>1. UNCHANGED <<pc, stdin, toChild, exited, drops>>
    BY <1>4 DEF ChildAnswers, ChildPrints, vars, tasks, pipes
  <2> QED BY <2>1, ElsewhereKeepsLines
<1>5. ASSUME NEW t \in Tasks, Begin(t) \/ SetConnected(t) \/ TakeStdout(t) \/ StoreTools(t)
      PROVE  LinesInv'
  <2>1. UNCHANGED <<stdin, toChild, exited, drops>>
    BY <1>5 DEF Begin, Connect, Refresh, CallTool, HealthCheck, SetConnected, Send,
                TakeStdout, StoreTools, pipes
  <2>2. /\ pc[t] \notin Writing
        /\ \E at \in Places : at \notin Writing /\ Goto(t, at)
    BY <1>5 DEF Begin, Connect, Refresh, CallTool, HealthCheck, SetConnected, Send,
                TakeStdout, StoreTools, Writing, Places
  <2> QED BY <2>1, <2>2, ElsewhereKeepsLines
<1>6. ASSUME NEW t \in Tasks, ReadLine(t) \/ ReadEof(t)
      PROVE  LinesInv'
  <2>1. UNCHANGED <<stdin, toChild, exited, drops>> /\ pc[t] = "read" /\ pc[t] \notin Writing
    BY <1>6 DEF ReadLine, ReadEof, pipes, Writing
  <2>2. UNCHANGED pc \/ \E at \in {"idle", "answered"} : Goto(t, at)
    <3>1. CASE ReadEof(t)
      BY <3>1 DEF ReadEof, Fail
    <3>2. CASE ReadLine(t)
      <4>1. req[t].id # 0
        BY <2>1, Busy
      <4>2. \/ UNCHANGED <<tasks, stdout, status, value>>
            \/ Fail(t)
            \/ Return(t, Head(fromChild).id)
            \/ Return(t, 0)
        BY <3>2, <4>1, OutLineIds DEF ReadLine
      <4> QED BY <4>2 DEF tasks, Fail, Return
    <3> QED BY <1>6, <3>1, <3>2
  <2>3. UNCHANGED pc \/ \E at \in Places : at \notin Writing /\ Goto(t, at)
    BY <2>2 DEF Places, Writing
  <2> QED BY <2>1, <2>3, ElsewhereKeepsLines
<1> QED BY <1>1, <1>2, <1>3, <1>4, <1>5, <1>6 DEF Next, Step, Child

(* Unless a caller was dropped in the middle of its write, the child gets  *)
(* whole requests, but for the one being written (transport.rs:167-175).   *)
THEOREM McpWholeLines == Spec => []ChildGetsWholeLines
<1>1. Spec => []CallsInv
  BY CallsInit, CallsNext, PTL DEF Spec
<1>2. Spec => []LinesInv
  BY <1>1, LinesInit, LinesNext, PTL DEF Spec
<1>3. LinesInv => ChildGetsWholeLines
  BY DEF LinesInv
<1> QED BY <1>2, <1>3, PTL
=============================================================================
