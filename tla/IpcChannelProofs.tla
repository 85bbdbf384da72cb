-------------------------- MODULE IpcChannelProofs -------------------------
(***************************************************************************)
(* Calls over one connection from any number of tasks: each is executed    *)
(* at most once, one that returns returns its own value, and the frames of *)
(* two callers are never mixed.                                            *)
(***************************************************************************)
EXTENDS IpcChannel, SequenceTheorems, TLAPS

Done   == {executed[i] : i \in DOMAIN executed}
Unsent == {"insert", "lock", "write", "cut"}
Busy   == Unsent \cup {"wait", "forget"}

(* Ids are given in the order of the calls: an id stands for one call, in  *)
(* the map, in a frame and at the server.                                  *)
Numbers ==
  /\ nextId = calls + 1
  /\ \A c \in Callers : req[c].id = req[c].call
  /\ \A p \in pending : p.id = p.call
  /\ \A i \in DOMAIN wire : wire[i].id = wire[i].call /\ (wire[i] # Torn => wire[i].call # 0)
  /\ serving.id = serving.call

Known ==
  /\ Done \subseteq 1 .. calls
  /\ \A n \in 1 .. MaxCalls : /\ status[n] = "none" <=> n > calls
                              /\ status[n] = "returned" => n \in Done
                              /\ status[n] # "returned" => value[n] = 0

(* Callers have calls of their own; what is not written is nowhere else.   *)
Own ==
  /\ \A c \in Callers :
       /\ pc[c] = "idle" <=> req[c].call = 0
       /\ pc[c] # "idle" => req[c].call <= calls /\ status[req[c].call] = "open"
       /\ pc[c] \in Unsent => /\ req[c].call \notin Done /\ req[c].call # serving.call
                              /\ \A i \in DOMAIN wire : wire[i].call # req[c].call
  /\ \A c, d \in Callers : c # d /\ pc[c] # "idle" => req[c].call # req[d].call

(* A whole frame is a call on its way, which it is once.                   *)
OnTheWay ==
  /\ \A i \in DOMAIN wire : wire[i].call # 0 => /\ wire[i].call <= calls
                                                /\ wire[i].call \notin Done
                                                /\ wire[i].call # serving.call
  /\ \A i, j \in DOMAIN wire : i < j /\ wire[i].call # 0 => wire[i].call # wire[j].call

(* What the server has read; a handler's value is sent after it ran.       *)
AtServer ==
  /\ server \in {"run", "reply"} => serving.call \in 1 .. calls
  /\ server \in {"read", "closed"} => serving.call = 0
  /\ server = "run" => serving.call \notin Done
  /\ server = "reply" /\ serving.kind = "ok" => serving.call \in Done

(* An answer carries the value of the call it has the id of.               *)
Fits(answer) == answer.value = answer.id /\ (answer.ok => answer.id \in Done)

Answered ==
  /\ \A i \in DOMAIN answers : Fits(answers[i])
  /\ \A c \in Callers : /\ pc[c] # "wait" => inbox[c] = {}
                        /\ \A answer \in inbox[c] : Fits(answer) /\ answer.id = req[c].call

CallsInv == TypeOK /\ Numbers /\ Known /\ Own /\ OnTheWay /\ AtServer /\ Answered

-----------------------------------------------------------------------------
(* To change an element of the empty sequence changes nothing.             *)
LEMMA EmptyExcept ==
  ASSUME NEW i, NEW r
  PROVE  [<<>> EXCEPT ![i] = r] = <<>>
OBVIOUS

LEMMA Records ==
  /\ NoRequest \in Request /\ NoRequest.id = 0 /\ NoRequest.call = 0
  /\ Torn.id = 0 /\ Torn.call = 0 /\ Torn \notin Request
  /\ \A r \in Request : r.id \in Nat /\ r.call \in 0 .. MaxCalls /\ r.kind \in AllKinds
BY BoundsAssumption DEF NoRequest, Torn, Request, AllKinds

LEMMA Frames ==
  ASSUME TypeOK
  PROVE  /\ \A i \in DOMAIN wire : wire[i] \in Request \cup {Torn} /\ wire[i].call \in 0 .. MaxCalls
         /\ \A i \in DOMAIN answers : answers[i] \in Answer
         /\ DOMAIN wire = 1 .. Len(wire) /\ Len(wire) \in Nat
<1>1. DOMAIN wire = 1 .. Len(wire) /\ Len(wire) \in Nat
  BY LenProperties DEF TypeOK
<1>2. \A i \in DOMAIN wire : wire[i] \in Request \cup {Torn}
  BY <1>1, ElementOfSeq DEF TypeOK
<1>3. \A i \in DOMAIN answers : answers[i] \in Answer
  BY LenProperties, ElementOfSeq DEF TypeOK
<1> QED BY <1>1, <1>2, <1>3, Records, BoundsAssumption

LEMMA Caller ==
  ASSUME CallsInv, NEW c \in Callers, pc[c] # "idle"
  PROVE  /\ req[c] \in Request /\ req[c].call \in 1 .. calls /\ req[c].call \in 1 .. MaxCalls
         /\ status[req[c].call] = "open"
<1>1. req[c] \in Request /\ req[c].call \in 0 .. MaxCalls /\ calls \in Nat
  BY Records DEF CallsInv, TypeOK
<1> QED BY <1>1 DEF CallsInv, Own

LEMMA CallsInit == Init => CallsInv
<1> SUFFICES ASSUME Init PROVE CallsInv
  OBVIOUS
<1>1. Done = {} /\ DOMAIN wire = {} /\ DOMAIN answers = {}
  BY EmptySeq DEF Init, Done
<1>2. TypeOK
  <2>1. wire \in Seq(Request \cup {Torn}) /\ answers \in Seq(Answer) /\ executed \in Seq(1 .. MaxCalls)
    BY EmptySeq DEF Init
  <2>2. /\ pc \in [Callers -> {"idle", "insert", "lock", "write", "cut", "wait", "forget"}]
        /\ req \in [Callers -> Request] /\ inbox \in [Callers -> SUBSET Answer]
        /\ pending \subseteq [id : Nat, call : 1 .. MaxCalls] /\ writer \in Callers \cup {NoCaller}
        /\ server \in {"read", "run", "reply", "closed"} /\ serving \in Request /\ reader \in BOOLEAN
    BY Records DEF Init
  <2>3. /\ status \in [1 .. MaxCalls -> {"none", "open", "failed", "returned"}]
        /\ value \in [1 .. MaxCalls -> 0 .. MaxCalls] /\ nextId \in Nat \ {0}
        /\ calls \in 0 .. MaxCalls /\ drops \in 0 .. MaxDrops /\ stops \in 0 .. MaxStops
    BY BoundsAssumption DEF Init
  <2> QED BY <2>1, <2>2, <2>3 DEF TypeOK
<1>3. Numbers /\ Known
  BY <1>1, Records, BoundsAssumption DEF Init, Numbers, Known
<1>4. Own /\ OnTheWay /\ AtServer /\ Answered
  BY <1>1, Records DEF Init, Own, OnTheWay, AtServer, Answered, Unsent
<1> QED BY <1>2, <1>3, <1>4 DEF CallsInv

-----------------------------------------------------------------------------
(* A call gets the next number, which nobody has.                          *)
LEMMA CallKeeps ==
  ASSUME CallsInv, NEW c \in Callers, Call(c)
  PROVE  CallsInv' /\ \E n \in 1 .. MaxCalls : AtMostOnce!Open(n)
<1> DEFINE n == calls + 1
<1>1. PICK kind \in Kinds : req' = [req EXCEPT ![c] = [id |-> nextId, call |-> n, kind |-> kind]]
  BY DEF Call
<1>2. /\ pc[c] = "idle" /\ calls \in Nat /\ n \in 1 .. MaxCalls /\ calls' = n
      /\ nextId' = nextId + 1 /\ nextId = n
      /\ status' = [status EXCEPT ![n] = "open"]
      /\ pc' = [pc EXCEPT ![c] = "insert"]
      /\ UNCHANGED <<inbox, pending, writer, wire, server, serving, answers, reader,
                     value, executed, drops, stops, Done>>
  BY BoundsAssumption DEF Call, Goto, CallsInv, TypeOK, Numbers, Done
<1>3. [id |-> nextId, call |-> n, kind |-> kind] \in Request
  BY <1>2, KindsAssumption DEF Request
<1>4. /\ \A d \in Callers \ {c} : UNCHANGED <<req[d], pc[d]>>
      /\ req'[c].call = n /\ req'[c].id = n /\ pc'[c] = "insert"
  BY <1>1, <1>2 DEF CallsInv, TypeOK
<1>5. TypeOK'
  <2>1. pc' \in [Callers -> {"idle", "insert", "lock", "write", "cut", "wait", "forget"}]
    BY <1>2 DEF CallsInv, TypeOK
  <2>2. req' \in [Callers -> Request]
    BY <1>1, <1>3 DEF CallsInv, TypeOK
  <2>3. /\ status' \in [1 .. MaxCalls -> {"none", "open", "failed", "returned"}]
        /\ calls' \in 0 .. MaxCalls /\ nextId' \in Nat \ {0}
    BY <1>2, BoundsAssumption DEF CallsInv, TypeOK
  <2> QED BY <1>2, <2>1, <2>2, <2>3 DEF CallsInv, TypeOK
<1>6. Numbers' /\ Known'
  <2>1. Numbers'
    BY <1>2, <1>4 DEF CallsInv, Numbers
  <2>2. \A m \in 1 .. MaxCalls : status'[m] = IF m = n THEN "open" ELSE status[m]
    BY <1>2 DEF CallsInv, TypeOK
  <2>3. status[n] = "none" /\ value[n] = 0
    BY <1>2 DEF CallsInv, Known
  <2>4. \A m \in 1 .. MaxCalls : m > n <=> m > calls /\ m # n
    BY <1>2
  <2>5. Known'
    BY <1>2, <2>2, <2>3, <2>4 DEF CallsInv, Known
  <2> QED BY <2>1, <2>5
<1>7. n \notin Done /\ serving.call # n /\ \A i \in DOMAIN wire : wire[i].call # n
  <2>1. serving.call # n
    <3>1. serving.call \in 0 .. calls
      BY <1>2, Records DEF CallsInv, TypeOK, AtServer
    <3> QED BY <1>2, <3>1
  <2> QED BY <1>2, <2>1 DEF CallsInv, Known, OnTheWay
<1> HIDE DEF n
<1>8. Own'
  <2>1. ASSUME NEW d \in Callers
        PROVE  /\ pc'[d] = "idle" <=> req'[d].call = 0
               /\ pc'[d] # "idle" => req'[d].call <= n /\ status'[req'[d].call] = "open"
               /\ pc'[d] \in Unsent => /\ req'[d].call \notin Done /\ req'[d].call # serving.call
                                       /\ \A i \in DOMAIN wire : wire[i].call # req'[d].call
    <3>1. CASE d = c
      BY <1>2, <1>4, <1>7, <3>1 DEF CallsInv, TypeOK
    <3>2. CASE d # c
      <4>1. pc[d] # "idle" => req[d].call \in 1 .. calls /\ status[req[d].call] = "open"
        BY Caller
      <4>2. pc[d] # "idle" => req[d].call # n /\ req[d].call <= n
        BY <1>2, <4>1 DEF n
      <4> QED BY <1>2, <1>4, <3>2, <4>1, <4>2 DEF CallsInv, TypeOK, Own, Unsent
    <3> QED BY <3>1, <3>2
  <2>2. \A d \in Callers : req[d].call # n
    <3>1. \A d \in Callers : pc[d] # "idle" => req[d].call \in 1 .. calls
      BY Caller
    <3> QED BY <1>2, <3>1 DEF CallsInv, Own, n
  <2>3. \A d, e \in Callers : d # e /\ pc'[d] # "idle" => req'[d].call # req'[e].call
    BY <1>4, <2>2 DEF CallsInv, Own
  <2> QED BY <1>2, <2>1, <2>3 DEF Own
<1>9. OnTheWay' /\ AtServer'
  <2>1. \A i \in DOMAIN wire : wire[i].call # 0 => wire[i].call <= n
    <3>1. \A i \in DOMAIN wire : wire[i].call \in Nat
      BY Frames, BoundsAssumption DEF CallsInv
    <3> QED BY <1>2, <3>1 DEF CallsInv, OnTheWay, n
  <2>2. OnTheWay'
    BY <1>2, <2>1 DEF CallsInv, OnTheWay
  <2>3. AtServer'
    BY <1>2 DEF CallsInv, AtServer, n
  <2> QED BY <2>2, <2>3
<1>10. Answered'
  BY <1>2, <1>4 DEF CallsInv, Answered, Fits
<1>11. AtMostOnce!Open(n)
  <2>1. status[n] = "none"
    BY <1>2 DEF CallsInv, Known, n
  <2> QED BY <1>2, <2>1 DEF AtMostOnce!Open
<1> QED BY <1>2, <1>5, <1>6, <1>8, <1>9, <1>10, <1>11 DEF CallsInv

-----------------------------------------------------------------------------
(* A call is over.                                                         *)
LEMMA FinishKeeps ==
  ASSUME CallsInv, NEW c \in Callers, pc[c] # "idle", NEW outcome \in {"failed", "returned"},
         Finish(c, outcome),
         outcome = "returned" => req[c].call \in Done /\ value' = [value EXCEPT ![req[c].call] = req[c].call],
         outcome = "failed" => UNCHANGED value,
         pending' \subseteq pending, writer' \in Callers \cup {NoCaller}, drops' \in 0 .. MaxDrops,
         UNCHANGED <<nextId, wire, server, serving, answers, reader, executed, calls, stops>>
  PROVE  CallsInv' /\ (AtMostOnce!Fail(req[c].call) \/ AtMostOnce!Return(req[c].call))
<1>1. /\ req[c] \in Request /\ req[c].call \in 1 .. calls /\ req[c].call \in 1 .. MaxCalls
      /\ status[req[c].call] = "open"
  BY Caller
<1>2. /\ pc' = [pc EXCEPT ![c] = "idle"] /\ req' = [req EXCEPT ![c] = NoRequest]
      /\ inbox' = [inbox EXCEPT ![c] = {}] /\ status' = [status EXCEPT ![req[c].call] = outcome]
      /\ UNCHANGED Done
  BY DEF Finish, Goto, Done
<1>3. /\ \A d \in Callers \ {c} : UNCHANGED <<req[d], pc[d], inbox[d]>>
      /\ req'[c].call = 0 /\ req'[c].id = 0 /\ pc'[c] = "idle" /\ inbox'[c] = {}
  BY <1>2, Records DEF CallsInv, TypeOK
<1>4. TypeOK'
  <2>1. /\ pc' \in [Callers -> {"idle", "insert", "lock", "write", "cut", "wait", "forget"}]
        /\ req' \in [Callers -> Request] /\ inbox' \in [Callers -> SUBSET Answer]
    BY <1>2, Records DEF CallsInv, TypeOK
  <2>2. status' \in [1 .. MaxCalls -> {"none", "open", "failed", "returned"}]
    BY <1>1, <1>2 DEF CallsInv, TypeOK
  <2>3. value' \in [1 .. MaxCalls -> 0 .. MaxCalls]
    <3>1. req[c].call \in 0 .. MaxCalls
      BY <1>1, BoundsAssumption
    <3> QED BY <1>1, <3>1 DEF CallsInv, TypeOK
  <2> QED BY <1>2, <2>1, <2>2, <2>3 DEF CallsInv, TypeOK
<1>5. Numbers'
  BY <1>3 DEF CallsInv, Numbers
<1>6. Known'
  BY <1>1, <1>2 DEF CallsInv, TypeOK, Known
<1>7. Own'
  <2>1. \A d \in Callers \ {c} : pc[d] # "idle" => /\ req[d].call # req[c].call
                                                   /\ req[d].call \in 1 .. MaxCalls
                                                   /\ req[d].call # 0
    BY Caller DEF CallsInv, Own
  <2>2. \A d \in Callers \ {c} : pc[d] # "idle" => status'[req[d].call] = "open"
    BY <1>1, <1>2, <2>1 DEF CallsInv, TypeOK, Own
  <2> QED BY <1>2, <1>3, <2>1, <2>2 DEF CallsInv, Own, Unsent
<1>8. OnTheWay' /\ AtServer'
  BY <1>2 DEF CallsInv, OnTheWay, AtServer
<1>9. Answered'
  BY <1>2, <1>3 DEF CallsInv, Answered, Fits
<1>10. CASE outcome = "failed"
  BY <1>1, <1>2, <1>4, <1>5, <1>6, <1>7, <1>8, <1>9, <1>10 DEF CallsInv, AtMostOnce!Fail
<1>11. CASE outcome = "returned"
  <2>1. AtMostOnce!Return(req[c].call)
    BY <1>1, <1>2, <1>11 DEF AtMostOnce!Return, Done
  <2> QED BY <1>4, <1>5, <1>6, <1>7, <1>8, <1>9, <2>1 DEF CallsInv
<1> QED BY <1>10, <1>11

LEMMA GivenUpKeeps ==
  ASSUME CallsInv, NEW c \in Callers, WriteFails(c) \/ Forget(c) \/ Drop(c)
  PROVE  CallsInv' /\ \E n \in 1 .. MaxCalls : AtMostOnce!Fail(n) \/ AtMostOnce!Return(n)
<1>1. /\ pc[c] # "idle" /\ Finish(c, "failed") /\ UNCHANGED value
      /\ pending' \subseteq pending
      /\ UNCHANGED <<nextId, wire, server, serving, answers, reader, executed, calls, stops>>
  BY DEF WriteFails, Forget, Drop
<1>2. writer' \in Callers \cup {NoCaller} /\ drops' \in 0 .. MaxDrops
  BY BoundsAssumption DEF WriteFails, Forget, Drop, CallsInv, TypeOK
<1> QED BY <1>1, <1>2, FinishKeeps, Caller

LEMMA ReturnKeeps ==
  ASSUME CallsInv, NEW c \in Callers, Return(c)
  PROVE  CallsInv' /\ \E n \in 1 .. MaxCalls : AtMostOnce!Fail(n) \/ AtMostOnce!Return(n)
<1>1. PICK answer \in inbox[c] :
        /\ Finish(c, IF answer.ok THEN "returned" ELSE "failed")
        /\ value' = [value EXCEPT ![req[c].call] = IF answer.ok THEN answer.value ELSE 0]
  BY DEF Return
<1>2. /\ pc[c] # "idle"
      /\ UNCHANGED <<nextId, pending, writer, wire, server, serving, answers, reader,
                     executed, calls, drops, stops>>
      /\ writer' \in Callers \cup {NoCaller} /\ drops' \in 0 .. MaxDrops
  BY DEF Return, CallsInv, TypeOK
<1>3. /\ req[c].call \in 1 .. MaxCalls /\ status[req[c].call] = "open"
      /\ req[c].call = req[c].id /\ answer.value = req[c].call
      /\ answer.ok => req[c].call \in Done
  BY <1>1, <1>2, Caller DEF CallsInv, Answered, Fits, Numbers
<1>4. CASE answer.ok
  <2>1. Finish(c, "returned") /\ value' = [value EXCEPT ![req[c].call] = req[c].call]
    BY <1>1, <1>3, <1>4
  <2> QED BY <1>2, <1>3, <1>4, <2>1, FinishKeeps
<1>5. CASE ~ answer.ok
  <2>1. Finish(c, "failed") /\ value' = [value EXCEPT ![req[c].call] = 0]
    BY <1>1, <1>5
  <2>2. value[req[c].call] = 0
    BY <1>3 DEF CallsInv, Known
  <2>3. UNCHANGED value
    BY <1>3, <2>1, <2>2 DEF CallsInv, TypeOK
  <2> QED BY <1>2, <1>3, <2>1, <2>3, FinishKeeps
<1> QED BY <1>4, <1>5

-----------------------------------------------------------------------------
(* A call goes on towards its answer: its frame may be written by that.    *)
LEMMA MoveKeeps ==
  ASSUME CallsInv, NEW c \in Callers, NEW at \in Busy,
         pc[c] # "idle", at \in Unsent => pc[c] \in Unsent, at # "wait" => inbox[c] = {},
         Goto(c, at),
         pending' \subseteq pending \cup {[id |-> req[c].id, call |-> req[c].call]},
         writer' \in Callers \cup {NoCaller},
         wire' \in Seq(Request \cup {Torn}), OnTheWay',
         \A i \in DOMAIN wire' :
           \/ wire'[i] = Torn
           \/ \E j \in DOMAIN wire : wire[j] = wire'[i]
           \/ at \notin Unsent /\ wire'[i] = req[c],
         UNCHANGED <<req, inbox, nextId, server, serving, answers, reader, status, value, executed,
                     calls, drops, stops>>
  PROVE  CallsInv'
<1>1. pc' = [pc EXCEPT ![c] = at] /\ UNCHANGED Done
  BY DEF Goto, Done
<1>2. req[c] \in Request /\ req[c].call \in 1 .. MaxCalls /\ req[c].id \in Nat
  BY Caller, Records
<1>3. TypeOK'
  <2>1. pending' \subseteq [id : Nat, call : 1 .. MaxCalls]
    BY <1>2 DEF CallsInv, TypeOK
  <2> QED BY <1>1, <2>1 DEF CallsInv, TypeOK, Busy, Unsent
<1>4. Numbers'
  BY <1>2, Records DEF CallsInv, Numbers
<1>5. Known' /\ AtServer'
  BY <1>1 DEF CallsInv, Known, AtServer
<1>6. /\ \A d \in Callers \ {c} : UNCHANGED pc[d]
      /\ pc'[c] = at /\ at # "idle"
  BY <1>1 DEF CallsInv, TypeOK, Busy, Unsent
<1>7. Own'
  <2>1. \A d \in Callers : pc[d] # "idle" => req[d].call # 0 /\ (d # c => req[d].call # req[c].call)
    BY Caller DEF CallsInv, Own
  <2>2. ASSUME NEW d \in Callers, pc'[d] \in Unsent
        PROVE  /\ req[d].call \notin Done /\ req[d].call # serving.call
               /\ \A i \in DOMAIN wire' : wire'[i].call # req[d].call
    <3>1. pc[d] \in Unsent /\ (d = c => at \in Unsent)
      BY <1>6, <2>2
    <3>2. pc[d] # "idle"
      BY <3>1 DEF Unsent
    <3> QED BY <2>1, <3>1, <3>2, Records DEF CallsInv, Own
  <2>3. \A d \in Callers : pc'[d] = "idle" <=> pc[d] = "idle"
    BY <1>6
  <2> QED BY <1>1, <2>2, <2>3 DEF CallsInv, Own
<1>8. Answered'
  BY <1>1, <1>6 DEF CallsInv, Answered, Fits
<1> QED BY <1>3, <1>4, <1>5, <1>7, <1>8 DEF CallsInv

LEMMA WaitsKeep ==
  ASSUME CallsInv, NEW c \in Callers, Insert(c) \/ TakeWriter(c) \/ Timeout(c)
  PROVE  CallsInv' /\ UNCHANGED history
<1>1. /\ UNCHANGED <<req, inbox, nextId, wire, server, serving, answers, reader, status, value,
                     executed, calls, drops, stops, Done, history>>
      /\ writer' \in Callers \cup {NoCaller}
      /\ pending' \subseteq pending \cup {[id |-> req[c].id, call |-> req[c].call]}
  BY DEF Insert, TakeWriter, Timeout, history, Done, CallsInv, TypeOK
<1>2. OnTheWay' /\ wire' \in Seq(Request \cup {Torn})
  BY <1>1 DEF CallsInv, TypeOK, OnTheWay
<1>3. PICK at \in Busy : /\ Goto(c, at) /\ pc[c] # "idle" /\ inbox[c] = {}
                         /\ at \in Unsent => pc[c] \in Unsent
  BY DEF Insert, TakeWriter, Timeout, Busy, Unsent, CallsInv, Answered
<1> QED BY <1>1, <1>2, <1>3, MoveKeeps

LEMMA WriteStartKeeps ==
  ASSUME CallsInv, NEW c \in Callers, WriteStart(c)
  PROVE  CallsInv' /\ UNCHANGED history
<1>1. /\ pc[c] = "write" /\ Goto(c, "cut") /\ wire' = Append(wire, Torn)
      /\ UNCHANGED <<req, inbox, nextId, pending, writer, server, serving, answers, reader,
                     status, value, executed, calls, drops, stops, Done, history>>
  BY DEF WriteStart, history, Done
<1>2. /\ wire' \in Seq(Request \cup {Torn})
      /\ DOMAIN wire' = 1 .. Len(wire) + 1 /\ DOMAIN wire = 1 .. Len(wire) /\ Len(wire) \in Nat
      /\ \A i \in DOMAIN wire : wire'[i] = wire[i]
      /\ wire'[Len(wire) + 1] = Torn
  BY <1>1, AppendProperties, LenProperties DEF CallsInv, TypeOK
<1>3. \A i \in DOMAIN wire' : (wire'[i] = Torn /\ wire'[i].call = 0) \/ i \in DOMAIN wire
  BY <1>2, Records
<1>4. OnTheWay'
  <2>1. \A i, j \in DOMAIN wire' : i < j /\ wire'[i].call # 0 => wire'[i].call # wire'[j].call
    BY <1>2, <1>3 DEF CallsInv, OnTheWay
  <2>2. \A i \in DOMAIN wire' : wire'[i].call # 0 => /\ wire'[i].call <= calls
                                                     /\ wire'[i].call \notin Done
                                                     /\ wire'[i].call # serving.call
    BY <1>2, <1>3 DEF CallsInv, OnTheWay
  <2> QED BY <1>1, <2>1, <2>2 DEF OnTheWay
<1>5. inbox[c] = {} /\ writer' \in Callers \cup {NoCaller}
  BY <1>1 DEF CallsInv, TypeOK, Answered
<1>6. \A i \in DOMAIN wire' : wire'[i] = Torn \/ \E j \in DOMAIN wire : wire[j] = wire'[i]
  BY <1>2, <1>3
<1>7. "cut" \in Busy /\ "write" \in Unsent
  BY DEF Busy, Unsent
<1> QED BY <1>1, <1>2, <1>4, <1>5, <1>6, <1>7, MoveKeeps

(* The frame is whole: the server may read it.                             *)
LEMMA WriteEndKeeps ==
  ASSUME CallsInv, NEW c \in Callers, WriteEnd(c)
  PROVE  CallsInv' /\ UNCHANGED history
<1>1. /\ pc[c] = "cut" /\ Goto(c, "wait") /\ wire' = [wire EXCEPT ![Len(wire)] = req[c]]
      /\ writer' = NoCaller
      /\ UNCHANGED <<req, inbox, nextId, pending, server, serving, answers, reader,
                     status, value, executed, calls, drops, stops, Done, history>>
  BY DEF WriteEnd, history, Done
<1>2. /\ req[c] \in Request /\ req[c].call \in 1 .. calls
      /\ req[c].call \notin Done /\ req[c].call # serving.call
      /\ \A i \in DOMAIN wire : wire[i].call # req[c].call
  BY <1>1, Caller DEF CallsInv, Own, Unsent
<1>3. Len(wire) \in Nat /\ DOMAIN wire = 1 .. Len(wire)
  BY Frames DEF CallsInv
<1>4. /\ wire' \in Seq(Request \cup {Torn}) /\ DOMAIN wire' = DOMAIN wire
      /\ \A i \in DOMAIN wire : wire'[i] = IF i = Len(wire) THEN req[c] ELSE wire[i]
  <2>1. CASE wire = <<>>
    <3>1. Len(wire) = 0
      BY <2>1, EmptySeq
    <3>2. wire' = wire
      BY <1>1, <2>1, EmptyExcept
    <3> QED BY <1>3, <3>1, <3>2 DEF CallsInv, TypeOK
  <2>2. CASE wire # <<>>
    <3>1. Len(wire) \in 1 .. Len(wire)
      BY <2>2, EmptySeq DEF CallsInv, TypeOK
    <3>2. req[c] \in Request \cup {Torn}
      BY <1>2
    <3> QED BY <1>1, <1>3, <3>1, <3>2, ExceptSeq DEF CallsInv, TypeOK
  <2> QED BY <2>1, <2>2
<1>5. OnTheWay'
  <2>1. \A i \in DOMAIN wire' : wire'[i].call # 0 => /\ wire'[i].call <= calls
                                                     /\ wire'[i].call \notin Done
                                                     /\ wire'[i].call # serving.call
    BY <1>2, <1>4 DEF CallsInv, OnTheWay
  <2>2. \A i, j \in DOMAIN wire' : i < j /\ wire'[i].call # 0 => wire'[i].call # wire'[j].call
    BY <1>2, <1>3, <1>4 DEF CallsInv, OnTheWay
  <2> QED BY <1>1, <2>1, <2>2 DEF OnTheWay
<1>6. \A i \in DOMAIN wire' : wire'[i] = req[c] \/ \E j \in DOMAIN wire : wire[j] = wire'[i]
  BY <1>4
<1>7. "wait" \in Busy /\ "wait" \notin Unsent
  BY DEF Busy, Unsent
<1> QED BY <1>1, <1>4, <1>5, <1>6, <1>7, MoveKeeps

-----------------------------------------------------------------------------
(* recv_loop hands an answer to the call that has its id, and to no other. *)
LEMMA TailIsLater ==
  ASSUME NEW S, NEW s \in Seq(S), s # <<>>
  PROVE  /\ Tail(s) \in Seq(S) /\ 1 \in DOMAIN s /\ Head(s) = s[1] /\ Head(s) \in S
         /\ \A i \in DOMAIN Tail(s) : i \in Nat \ {0} /\ i + 1 \in DOMAIN s /\ Tail(s)[i] = s[i + 1]
<1>1. /\ Tail(s) \in Seq(S) /\ Len(Tail(s)) = Len(s) - 1
      /\ \A i \in 1 .. Len(Tail(s)) : Tail(s)[i] = s[i + 1]
  BY HeadTailProperties
<1>2. DOMAIN s = 1 .. Len(s) /\ Len(s) \in Nat \ {0} /\ DOMAIN Tail(s) = 1 .. Len(Tail(s))
  BY <1>1, LenProperties, EmptySeq
<1> QED BY <1>1, <1>2, HeadTailProperties

LEMMA ReaderKeeps ==
  ASSUME CallsInv, ReaderStep
  PROVE  CallsInv' /\ UNCHANGED history
<1>1. /\ UNCHANGED <<pc, req, nextId, writer, wire, server, serving, status, value, executed,
                     calls, drops, stops, Done, history>>
      /\ reader' \in BOOLEAN /\ pending' \subseteq pending
  BY DEF ReaderStep, Receive, ReaderStops, client, history, Done, CallsInv, TypeOK
<1>2. /\ inbox' \in [Callers -> SUBSET Answer] /\ answers' \in Seq(Answer) /\ Answered'
  <2>1. CASE ReaderStops
    <3>1. UNCHANGED <<inbox, answers>>
      BY <2>1 DEF ReaderStops, client
    <3> QED BY <1>1, <3>1 DEF CallsInv, TypeOK, Answered, Fits
  <2>2. CASE Receive
    <3> DEFINE answer == Head(answers)
               to == {p.call : p \in {q \in pending : q.id = answer.id}}
    <3>1. /\ answers # <<>> /\ answers' = Tail(answers)
          /\ inbox' = [c \in Callers |-> IF pc[c] = "wait" /\ req[c].call \in to THEN {answer}
                                         ELSE inbox[c]]
      BY <2>2 DEF Receive
    <3>2. /\ answers' \in Seq(Answer) /\ answer \in Answer
          /\ 1 \in DOMAIN answers /\ answer = answers[1]
          /\ \A i \in DOMAIN answers' : i + 1 \in DOMAIN answers /\ answers'[i] = answers[i + 1]
      BY <3>1, TailIsLater DEF CallsInv, TypeOK
    <3>3. Fits(answer)
      BY <3>2 DEF CallsInv, Answered
    <3>4. \A c \in Callers : req[c].call \in to => answer.id = req[c].call
      BY DEF CallsInv, Numbers
    <3> HIDE DEF answer, to
    <3>5. inbox' \in [Callers -> SUBSET Answer]
      BY <3>1, <3>2 DEF CallsInv, TypeOK
    <3>6. \A c \in Callers : /\ pc'[c] # "wait" => inbox'[c] = {}
                             /\ \A a \in inbox'[c] : Fits(a)' /\ a.id = req'[c].call
      BY <1>1, <3>1, <3>3, <3>4 DEF CallsInv, Answered, Fits
    <3>7. \A i \in DOMAIN answers' : Fits(answers[i])'
      BY <1>1, <3>2 DEF CallsInv, Answered, Fits
    <3> QED BY <3>2, <3>5, <3>6, <3>7 DEF Answered
  <2> QED BY <2>1, <2>2 DEF ReaderStep
<1>3. TypeOK'
  BY <1>1, <1>2 DEF CallsInv, TypeOK
<1> QED BY <1>1, <1>2, <1>3 DEF CallsInv, Numbers, Known, Own, OnTheWay, AtServer

-----------------------------------------------------------------------------
(* The server takes frames from the front of the wire, reads one perhaps,  *)
(* answers or closes; no handler runs.                                     *)
LEMMA ServerKeeps ==
  ASSUME CallsInv, NEW k \in Nat, wire' \in Seq(Request \cup {Torn}),
         \A i \in DOMAIN wire' :
           /\ i \in Nat
           /\ \/ wire'[i] = Torn
              \/ i + k \in DOMAIN wire /\ wire'[i] = wire[i + k],
         server' \in {"read", "run", "reply", "closed"},
         serving' \in Request, serving'.id = serving'.call, AtServer',
         \/ serving'.call \in {0, serving.call}
         \/ /\ \E j \in DOMAIN wire : serving' = wire[j]
            /\ \A i \in DOMAIN wire' : wire'[i].call # serving'.call,
         answers' \in Seq(Answer), \A i \in DOMAIN answers' : Fits(answers'[i]),
         stops' \in 0 .. MaxStops,
         UNCHANGED <<client, nextId, pending, writer, reader, history, calls, drops>>
  PROVE  CallsInv'
<1>1. UNCHANGED <<pc, req, inbox, status, value, executed, Done>>
  BY DEF client, history, Done
<1>2. TypeOK'
  BY <1>1 DEF CallsInv, TypeOK
<1>3. Numbers'
  BY <1>1, Records DEF CallsInv, Numbers
<1>4. Known'
  BY <1>1 DEF CallsInv, Known
<1>5. \A i \in DOMAIN wire' : /\ wire'[i].call # 0 => wire'[i].call # serving'.call
                              /\ wire'[i].call = 0 \/ \E j \in DOMAIN wire : wire[j] = wire'[i]
  BY Records DEF CallsInv, OnTheWay
<1>6. Own'
  <2>1. ASSUME NEW c \in Callers, pc[c] \in Unsent
        PROVE  req[c].call # serving'.call /\ \A i \in DOMAIN wire' : wire'[i].call # req[c].call
    <3>1. req[c].call # 0
      BY <2>1, Caller DEF Unsent
    <3> QED BY <1>5, <2>1, <3>1 DEF CallsInv, Own
  <2> QED BY <1>1, <2>1 DEF CallsInv, Own
<1>7. OnTheWay'
  <2>1. \A i, j \in DOMAIN wire' : i < j /\ wire'[i].call # 0 => wire'[i].call # wire'[j].call
    <3>1. \A i, j \in DOMAIN wire' : i < j => i + k < j + k
      OBVIOUS
    <3>2. Torn.call = 0
      BY Records
    <3> QED BY <3>1, <3>2 DEF CallsInv, OnTheWay
  <2>2. \A i \in DOMAIN wire' : wire'[i].call # 0 => wire'[i].call <= calls /\ wire'[i].call \notin Done
    BY <1>5 DEF CallsInv, OnTheWay
  <2> QED BY <1>1, <1>5, <2>1, <2>2 DEF OnTheWay
<1>8. Answered'
  BY <1>1 DEF CallsInv, Answered, Fits
<1> QED BY <1>2, <1>3, <1>4, <1>6, <1>7, <1>8 DEF CallsInv

LEMMA CloseKeeps ==
  ASSUME CallsInv, Close, stops' \in 0 .. MaxStops,
         UNCHANGED <<client, nextId, pending, writer, answers, reader, history, calls, drops>>
  PROVE  CallsInv'
<1>1. wire' \in Seq(Request \cup {Torn}) /\ DOMAIN wire' = {}
  BY EmptySeq DEF Close
<1>2. /\ server' = "closed" /\ serving' \in Request /\ serving'.id = 0 /\ serving'.call = 0
      /\ AtServer'
  BY Records DEF Close, AtServer
<1>3. answers' \in Seq(Answer) /\ \A i \in DOMAIN answers' : Fits(answers'[i])
  BY DEF CallsInv, TypeOK, Answered
<1> QED BY <1>1, <1>2, <1>3, ServerKeeps

LEMMA ReadRequestKeeps ==
  ASSUME CallsInv, ReadRequest
  PROVE  CallsInv' /\ UNCHANGED history
<1>1. /\ wire # <<>> /\ Head(wire) # Torn /\ wire' = Tail(wire) /\ serving' = Head(wire)
      /\ server' = IF serving'.kind \in {"version", "unknown"} THEN "reply" ELSE "run"
      /\ UNCHANGED <<client, nextId, pending, writer, answers, reader, history, calls, drops, stops>>
  BY DEF ReadRequest
<1>2. /\ wire' \in Seq(Request \cup {Torn}) /\ 1 \in DOMAIN wire /\ serving' = wire[1]
      /\ \A i \in DOMAIN wire' : i \in Nat \ {0} /\ i + 1 \in DOMAIN wire /\ wire'[i] = wire[i + 1]
  BY <1>1, TailIsLater DEF CallsInv, TypeOK
<1>3. serving' \in Request /\ serving'.call \in Nat
  BY <1>1, <1>2, Frames, Records, BoundsAssumption DEF CallsInv
<1>4. /\ serving'.id = serving'.call /\ serving'.call # 0
      /\ serving'.call <= calls /\ serving'.call \notin Done
  BY <1>1, <1>2 DEF CallsInv, Numbers, OnTheWay
<1>5. \A i \in DOMAIN wire' : wire'[i].call # serving'.call
  <2>1. \A i \in DOMAIN wire' : 1 < i + 1
    BY <1>2
  <2> QED BY <1>2, <1>4, <2>1 DEF CallsInv, OnTheWay
<1>6. AtServer'
  <2>1. UNCHANGED <<Done, calls>> /\ calls \in Nat
    BY <1>1 DEF history, Done, CallsInv, TypeOK
  <2>2. serving'.call \in 1 .. calls
    BY <1>3, <1>4, <2>1
  <2> QED BY <1>1, <1>4, <2>1, <2>2 DEF AtServer
<1>7. /\ answers' \in Seq(Answer) /\ stops' \in 0 .. MaxStops
      /\ \A i \in DOMAIN answers' : Fits(answers'[i])
  BY <1>1 DEF CallsInv, TypeOK, Answered
<1>8. server' \in {"read", "run", "reply", "closed"}
  BY <1>1
<1>9. \A i \in DOMAIN wire' : i \in Nat /\ i + 1 \in DOMAIN wire /\ wire'[i] = wire[i + 1]
  BY <1>2
<1> QED BY <1>1, <1>2, <1>3, <1>4, <1>5, <1>6, <1>7, <1>8, <1>9, ServerKeeps

(* A torn frame and the start of the next one.                             *)
LEMMA GluedIsLater ==
  ASSUME NEW S, NEW s \in Seq(S), NEW e \in S, Len(s) > 1
  PROVE  /\ <<e>> \o SubSeq(s, 3, Len(s)) \in Seq(S)
         /\ \A i \in DOMAIN (<<e>> \o SubSeq(s, 3, Len(s))) :
              /\ i \in Nat /\ i + 1 \in DOMAIN s
              /\ \/ (<<e>> \o SubSeq(s, 3, Len(s)))[i] = e
                 \/ (<<e>> \o SubSeq(s, 3, Len(s)))[i] = s[i + 1]
<1> DEFINE rest == SubSeq(s, 3, Len(s))
           glued == <<e>> \o rest
<1>1. Len(s) \in Nat /\ DOMAIN s = 1 .. Len(s) /\ \A i \in 3 .. Len(s) : s[i] \in S
  BY LenProperties, ElementOfSeq
<1>2. /\ rest \in Seq(S) /\ Len(rest) = Len(s) - 2
      /\ \A i \in 1 .. Len(rest) : rest[i] = s[i + 2]
  <2>1. /\ rest \in Seq(S) /\ Len(rest) = IF 3 <= Len(s) THEN Len(s) - 3 + 1 ELSE 0
        /\ \A i \in 1 .. Len(s) - 3 + 1 : rest[i] = s[3 + i - 1]
    BY <1>1, SubSeqProperties, 3 \in Int, Len(s) \in Int
  <2> QED BY <1>1, <2>1
<1>3. <<e>> \in Seq(S) /\ Len(<<e>>) = 1 /\ <<e>>[1] = e
  OBVIOUS
<1> HIDE DEF rest
<1>4. /\ glued \in Seq(S) /\ Len(glued) = 1 + Len(rest)
      /\ \A i \in 1 .. 1 + Len(rest) : glued[i] = IF i <= 1 THEN <<e>>[i] ELSE rest[i - 1]
  BY <1>2, <1>3, ConcatProperties
<1> HIDE DEF glued
<1>5. DOMAIN glued = 1 .. Len(s) - 1 /\ 1 + Len(rest) = Len(s) - 1
  BY <1>1, <1>2, <1>4, LenProperties
<1>6. ASSUME NEW i \in 1 .. Len(s) - 1 PROVE glued[i] = e \/ glued[i] = s[i + 1]
  <2>1. CASE i = 1
    BY <1>1, <1>3, <1>4, <1>5, <2>1
  <2>2. CASE i # 1
    <3>1. i - 1 \in 1 .. Len(rest) /\ i - 1 + 2 = i + 1 /\ ~ i <= 1 /\ i \in 1 .. 1 + Len(rest)
      BY <1>1, <1>2, <1>5, <2>2
    <3>2. glued[i] = rest[i - 1]
      BY <1>4, <3>1
    <3>3. rest[i - 1] = s[i - 1 + 2]
      BY <1>2, <3>1
    <3> QED BY <3>1, <3>2, <3>3
  <2> QED BY <2>1, <2>2
<1>7. \A i \in DOMAIN glued : i \in Nat /\ i + 1 \in DOMAIN s /\ (glued[i] = e \/ glued[i] = s[i + 1])
  BY <1>1, <1>5, <1>6
<1> QED BY <1>4, <1>7 DEF glued, rest

LEMMA ReadGarbageKeeps ==
  ASSUME CallsInv, ReadGarbage
  PROVE  CallsInv' /\ UNCHANGED history
<1>1. /\ Len(wire) > 1
      /\ UNCHANGED <<client, nextId, pending, writer, answers, reader, history, calls, drops, stops>>
      /\ stops' \in 0 .. MaxStops
  BY DEF ReadGarbage, CallsInv, TypeOK
<1>2. CASE Close
  BY <1>1, <1>2, CloseKeeps
<1>3. CASE /\ wire' = <<Torn>> \o SubSeq(wire, 3, Len(wire))
           /\ UNCHANGED <<server, serving>>
  <2>1. /\ wire' \in Seq(Request \cup {Torn})
        /\ \A i \in DOMAIN wire' : /\ i \in Nat
                                   /\ \/ wire'[i] = Torn
                                      \/ i + 1 \in DOMAIN wire /\ wire'[i] = wire[i + 1]
    <3>1. Torn \in Request \cup {Torn} /\ wire \in Seq(Request \cup {Torn})
      BY DEF CallsInv, TypeOK
    <3> QED BY <1>1, <1>3, <3>1, GluedIsLater
  <2>2. /\ answers' \in Seq(Answer) /\ \A i \in DOMAIN answers' : Fits(answers'[i])
        /\ server' \in {"read", "run", "reply", "closed"} /\ serving' \in Request
        /\ serving'.id = serving'.call /\ serving'.call = serving.call
    BY <1>1, <1>3 DEF CallsInv, TypeOK, Answered, Numbers
  <2>3. AtServer'
    BY <1>1, <1>3 DEF CallsInv, AtServer, history, Done
  <2> QED BY <1>1, <2>1, <2>2, <2>3, ServerKeeps
<1> QED BY <1>1, <1>2, <1>3 DEF ReadGarbage

LEMMA ReplyKeeps ==
  ASSUME CallsInv, Reply
  PROVE  CallsInv' /\ UNCHANGED history
<1>1. /\ server = "reply"
      /\ UNCHANGED <<client, nextId, pending, writer, reader, history, calls, drops, stops>>
      /\ stops' \in 0 .. MaxStops
  BY DEF Reply, CallsInv, TypeOK
<1>2. CASE serving.kind = "huge"
  BY <1>1, <1>2, CloseKeeps DEF Reply
<1>3. CASE serving.kind # "huge"
  <2> DEFINE answer == [id |-> serving.id, ok |-> serving.kind = "ok", value |-> serving.call]
  <2>1. /\ answers' = Append(answers, answer) /\ server' = "read" /\ serving' = NoRequest
        /\ UNCHANGED wire
    BY <1>3 DEF Reply
  <2>2. answer \in Answer
    <3>1. serving.id \in Nat /\ serving.call \in 0 .. MaxCalls
      BY Records DEF CallsInv, TypeOK
    <3>2. (serving.kind = "ok") \in BOOLEAN
      OBVIOUS
    <3> QED BY <3>1, <3>2 DEF Answer
  <2>3. Fits(answer)
    <3>1. answer.value = serving.id /\ answer.id = serving.id
      BY DEF CallsInv, Numbers
    <3>2. answer.ok => serving.id \in Done
      BY <1>1 DEF CallsInv, Numbers, AtServer
    <3> QED BY <3>1, <3>2 DEF Fits
  <2> HIDE DEF answer
  <2>4. answers' \in Seq(Answer) /\ \A i \in DOMAIN answers' : Fits(answers'[i])
    <3>1. /\ answers' \in Seq(Answer)
          /\ DOMAIN answers' = 1 .. Len(answers) + 1 /\ Len(answers) \in Nat
          /\ DOMAIN answers = 1 .. Len(answers)
          /\ \A i \in 1 .. Len(answers) : answers'[i] = answers[i]
          /\ answers'[Len(answers) + 1] = answer
      BY <2>1, <2>2, AppendProperties, LenProperties DEF CallsInv, TypeOK
    <3> QED BY <2>3, <3>1 DEF CallsInv, Answered
  <2>5. /\ wire' \in Seq(Request \cup {Torn})
        /\ \A i \in DOMAIN wire' : i \in Nat /\ i + 0 \in DOMAIN wire /\ wire'[i] = wire[i + 0]
    BY <2>1, Frames DEF CallsInv, TypeOK
  <2>6. /\ serving' \in Request /\ serving'.id = 0 /\ serving'.call = 0 /\ AtServer'
        /\ server' \in {"read", "run", "reply", "closed"}
    BY <2>1, Records DEF AtServer
  <2> QED BY <1>1, <2>4, <2>5, <2>6, ServerKeeps
<1> QED BY <1>2, <1>3

(* The handler runs, for a call it never ran for.                          *)
LEMMA RunHandlerKeeps ==
  ASSUME CallsInv, RunHandler
  PROVE  CallsInv' /\ \E n \in 1 .. MaxCalls : AtMostOnce!Execute(n)
<1> DEFINE n == serving.call
<1>1. /\ server = "run" /\ server' = "reply" /\ executed' = Append(executed, n)
      /\ UNCHANGED <<pc, req, inbox, nextId, pending, writer, wire, serving, answers, reader,
                     status, value, calls, drops, stops>>
  BY DEF RunHandler, client
<1>2. n \in 1 .. calls /\ n \in 1 .. MaxCalls /\ n \notin Done /\ serving' = serving
  BY <1>1, BoundsAssumption DEF CallsInv, TypeOK, AtServer
<1>3. executed' \in Seq(1 .. MaxCalls) /\ Done' = Done \cup {n}
  <2>1. /\ executed' \in Seq(1 .. MaxCalls)
        /\ DOMAIN executed = 1 .. Len(executed) /\ Len(executed) \in Nat
        /\ DOMAIN executed' = 1 .. Len(executed) + 1
        /\ \A i \in 1 .. Len(executed) : executed'[i] = executed[i]
        /\ executed'[Len(executed) + 1] = n
    BY <1>1, <1>2, AppendProperties, LenProperties DEF CallsInv, TypeOK
  <2> QED BY <2>1 DEF Done
<1>4. TypeOK'
  BY <1>1, <1>3 DEF CallsInv, TypeOK
<1>5. Numbers' /\ Known' /\ AtServer'
  BY <1>1, <1>2, <1>3 DEF CallsInv, Numbers, Known, AtServer
<1>6. Own' /\ OnTheWay'
  BY <1>1, <1>2, <1>3 DEF CallsInv, Own, OnTheWay
<1>7. Answered'
  BY <1>1, <1>3 DEF CallsInv, Answered, Fits
<1>8. AtMostOnce!Execute(n)
  <2>1. status[n] \in {"open", "failed"}
    <3>1. status[n] # "none" /\ status[n] # "returned"
      BY <1>2 DEF CallsInv, TypeOK, Known
    <3> QED BY <1>2, <3>1 DEF CallsInv, TypeOK
  <2>2. \A i \in DOMAIN executed : executed[i] # n
    BY <1>2 DEF Done
  <2> QED BY <1>1, <2>1, <2>2 DEF AtMostOnce!Execute
<1> QED BY <1>2, <1>4, <1>5, <1>6, <1>7, <1>8 DEF CallsInv

LEMMA StopKeeps ==
  ASSUME CallsInv, Stop
  PROVE  CallsInv' /\ UNCHANGED history
<1>1. stops' \in 0 .. MaxStops
  BY BoundsAssumption DEF Stop, CallsInv, TypeOK
<1> QED BY <1>1, CloseKeeps DEF Stop

-----------------------------------------------------------------------------
LEMMA CallsNext ==
  ASSUME CallsInv, [Next]_vars
  PROVE  CallsInv' /\ [AtMostOnce!Next]_(AtMostOnce!vars)
<1>1. \/ \E c \in Callers : Call(c)
      \/ \E c \in Callers : Insert(c) \/ TakeWriter(c) \/ Timeout(c)
      \/ \E c \in Callers : WriteStart(c)
      \/ \E c \in Callers : WriteEnd(c)
      \/ \E c \in Callers : WriteFails(c) \/ Forget(c) \/ Drop(c)
      \/ \E c \in Callers : Return(c)
      \/ ReaderStep \/ ReadRequest \/ ReadGarbage \/ RunHandler \/ Reply \/ Stop
      \/ UNCHANGED vars
  BY DEF Next, CallerStep, ServerStep
<1>2. /\ UNCHANGED history => [AtMostOnce!Next]_(AtMostOnce!vars)
      /\ (\E n \in 1 .. MaxCalls : \/ AtMostOnce!Open(n) \/ AtMostOnce!Execute(n)
                                   \/ AtMostOnce!Return(n) \/ AtMostOnce!Fail(n))
           => AtMostOnce!Next
  BY DEF history, AtMostOnce!vars, AtMostOnce!Next
<1>3. CASE UNCHANGED vars
  <2>1. UNCHANGED <<pc, req, inbox, nextId, pending, writer, wire, server, serving, answers, reader,
                    status, value, executed, calls, drops, stops, history, Done>>
    BY <1>3 DEF vars, client, history, Done
  <2> QED BY <1>2, <2>1
          DEF CallsInv, TypeOK, Numbers, Known, Own, OnTheWay, AtServer, Answered, Fits
<1>4. CASE \E c \in Callers : Call(c)
  BY <1>2, <1>4, CallKeeps
<1>5. CASE \E c \in Callers : Insert(c) \/ TakeWriter(c) \/ Timeout(c)
  BY <1>2, <1>5, WaitsKeep
<1>6. CASE \E c \in Callers : WriteStart(c)
  BY <1>2, <1>6, WriteStartKeeps
<1>7. CASE \E c \in Callers : WriteEnd(c)
  BY <1>2, <1>7, WriteEndKeeps
<1>8. CASE \E c \in Callers : WriteFails(c) \/ Forget(c) \/ Drop(c)
  BY <1>2, <1>8, GivenUpKeeps
<1>9. CASE \E c \in Callers : Return(c)
  BY <1>2, <1>9, ReturnKeeps
<1>10. CASE ReaderStep
  BY <1>2, <1>10, ReaderKeeps
<1>11. CASE ReadRequest \/ ReadGarbage
  BY <1>2, <1>11, ReadRequestKeeps, ReadGarbageKeeps
<1>12. CASE RunHandler
  BY <1>2, <1>12, RunHandlerKeeps
<1>13. CASE Reply \/ Stop
  BY <1>2, <1>13, ReplyKeeps, StopKeeps
<1> QED BY <1>1, <1>3, <1>4, <1>5, <1>6, <1>7, <1>8, <1>9, <1>10, <1>11, <1>12, <1>13

(* Every variable keeps its type.                                          *)
THEOREM IpcTypes == Spec => []TypeOK
<1>1. CallsInv => TypeOK
  BY DEF CallsInv
<1> QED BY <1>1, CallsInit, CallsNext, PTL DEF Spec

(* However many tasks share the connection, whatever is dropped, late or   *)
(* cut, a call is executed at most once and one that returns returns its   *)
(* own value (client.rs:121-169, server.rs:150-211).                       *)
THEOREM IpcAtMostOnce == Spec => ImplementsRemoteCalls
<1>1. Init => AtMostOnce!Init
  BY DEF Init, AtMostOnce!Init
<1>2. Spec => []CallsInv
  BY CallsInit, CallsNext, PTL DEF Spec
<1> QED BY <1>1, <1>2, CallsNext, PTL DEF Spec, ImplementsRemoteCalls, AtMostOnce!Spec

-----------------------------------------------------------------------------
(* Nothing is on the wire to a server that is gone.                        *)
FramesInv == OnlyTheWriterIsMidFrame /\ (server = "closed" => wire = <<>>)

Writing == {"write", "cut"}

LEMMA FramesInit == Init => FramesInv
BY EmptySeq DEF Init, FramesInv, OnlyTheWriterIsMidFrame

(* Steps that write nothing.                                               *)
LEMMA ElsewhereKeepsFrames ==
  ASSUME CallsInv, FramesInv, UNCHANGED <<writer, wire, drops>>,
         server' = "closed" => wire' = <<>>,
         \/ UNCHANGED pc
         \/ \E c \in Callers, at \in Busy \cup {"idle"} :
              pc[c] \notin Writing /\ at \notin Writing /\ Goto(c, at)
  PROVE  FramesInv'
<1>1. \A c \in Callers : pc'[c] # pc[c] => pc'[c] \notin Writing /\ pc[c] \notin Writing
  BY DEF CallsInv, TypeOK, Goto
<1>2. \A c \in Callers : /\ pc'[c] \in Writing => pc[c] \in Writing
                         /\ pc[c] = "cut" => pc'[c] = "cut"
  BY <1>1 DEF Writing
<1> QED BY <1>2 DEF FramesInv, OnlyTheWriterIsMidFrame, Writing

LEMMA WritersKeepFrames ==
  ASSUME CallsInv, FramesInv, NEW c \in Callers, TakeWriter(c) \/ WriteStart(c) \/ WriteEnd(c)
  PROVE  FramesInv'
<1>1. \A d \in Callers : d # c => UNCHANGED pc[d]
  BY DEF CallsInv, TypeOK, TakeWriter, WriteStart, WriteEnd, Goto
<1>2. Len(wire) \in Nat /\ DOMAIN wire = 1 .. Len(wire)
  BY Frames DEF CallsInv
<1>3. CASE TakeWriter(c)
  <2>1. /\ writer = NoCaller /\ writer' = c /\ pc'[c] = "write" /\ pc[c] = "lock"
        /\ UNCHANGED <<wire, server, drops>>
    BY <1>3 DEF CallsInv, TypeOK, TakeWriter, Goto
  <2>2. \A d \in Callers : pc[d] \notin {"write", "cut"}
    BY <2>1, CallerAssumption DEF FramesInv, OnlyTheWriterIsMidFrame
  <2> QED BY <1>1, <2>1, <2>2 DEF FramesInv, OnlyTheWriterIsMidFrame
<1>4. CASE WriteStart(c)
  <2>1. /\ pc[c] = "write" /\ pc'[c] = "cut" /\ server # "closed"
        /\ wire' = Append(wire, Torn)
        /\ UNCHANGED <<writer, server, drops>>
    BY <1>4 DEF CallsInv, TypeOK, WriteStart, Goto
  <2>2. writer = c /\ \A d \in Callers : pc[d] # "cut"
    BY <2>1 DEF FramesInv, OnlyTheWriterIsMidFrame
  <2>3. /\ Len(wire') = Len(wire) + 1
        /\ \A i \in 1 .. Len(wire) : wire'[i] = wire[i]
    BY <2>1, AppendProperties DEF CallsInv, TypeOK
  <2>4. ASSUME NEW i \in 1 .. Len(wire'), drops' = 0, wire'[i] = Torn
        PROVE  i = Len(wire')
    <3>1. CASE i \in 1 .. Len(wire)
      BY <2>1, <2>2, <2>3, <2>4, <3>1 DEF FramesInv, OnlyTheWriterIsMidFrame
    <3>2. CASE i \notin 1 .. Len(wire)
      BY <1>2, <2>3, <3>2
    <3> QED BY <3>1, <3>2
  <2>5. \A d \in Callers : pc'[d] \in {"write", "cut"} => writer' = d
    BY <1>1, <2>1, <2>2 DEF FramesInv, OnlyTheWriterIsMidFrame
  <2> QED BY <2>1, <2>4, <2>5 DEF FramesInv, OnlyTheWriterIsMidFrame
<1>5. CASE WriteEnd(c)
  <2>1. /\ pc[c] = "cut" /\ pc'[c] = "wait" /\ server # "closed"
        /\ wire' = [wire EXCEPT ![Len(wire)] = req[c]]
        /\ UNCHANGED <<server, drops>>
    BY <1>5 DEF CallsInv, TypeOK, WriteEnd, Goto
  <2>2. \A d \in Callers : pc'[d] \notin {"write", "cut"}
    BY <1>1, <2>1 DEF FramesInv, OnlyTheWriterIsMidFrame
  <2>3. req[c] \in Request /\ req[c] # Torn
    BY <2>1, Caller, Records
  <2>4. \A i \in 1 .. Len(wire') : wire'[i] = Torn => drops # 0
    <3>1. CASE wire = <<>>
      <4>1. Len(wire) = 0
        BY <3>1, EmptySeq
      <4>2. wire' = [<<>> EXCEPT ![Len(wire)] = req[c]]
        BY <2>1, <3>1, Zenon
      <4>3. wire' = wire
        BY <3>1, <4>2, EmptyExcept, Zenon
      <4> QED BY <4>1, <4>3
    <3>2. CASE wire # <<>>
      <4>1. Len(wire) \in 1 .. Len(wire) /\ req[c] \in Request \cup {Torn}
        BY <2>3, <3>2, EmptySeq DEF CallsInv, TypeOK
      <4>2. /\ Len(wire') = Len(wire)
            /\ \A i \in 1 .. Len(wire) : wire'[i] = IF i = Len(wire) THEN req[c] ELSE wire[i]
        BY <2>1, <4>1, ExceptSeq DEF CallsInv, TypeOK
      <4> QED BY <1>2, <2>3, <4>2 DEF FramesInv, OnlyTheWriterIsMidFrame
    <3> QED BY <3>1, <3>2
  <2> QED BY <2>1, <2>2, <2>4 DEF FramesInv, OnlyTheWriterIsMidFrame
<1> QED BY <1>3, <1>4, <1>5

(* A call ends in the middle of its frame, or before it.                   *)
LEMMA GivenUpKeepsFrames ==
  ASSUME CallsInv, FramesInv, NEW c \in Callers, WriteFails(c) \/ Drop(c)
  PROVE  FramesInv'
<1>1. /\ \A d \in Callers : d # c => UNCHANGED pc[d]
      /\ pc'[c] = "idle" /\ UNCHANGED <<wire, server>>
  BY DEF CallsInv, TypeOK, WriteFails, Drop, Finish, Goto
<1>2. \A d \in Callers : pc'[d] \in {"write", "cut"} => writer' = d
  BY <1>1 DEF FramesInv, OnlyTheWriterIsMidFrame, WriteFails, Drop
<1>3. ASSUME drops' = 0, NEW i \in 1 .. Len(wire), wire[i] = Torn
      PROVE  i = Len(wire) /\ \E d \in Callers : pc'[d] = "cut"
  <2>1. WriteFails(c) /\ drops = 0
    BY <1>3 DEF WriteFails, Drop, CallsInv, TypeOK
  <2>2. i = Len(wire) /\ \E d \in Callers : pc[d] = "cut"
    BY <1>3, <2>1 DEF FramesInv, OnlyTheWriterIsMidFrame
  <2>3. CASE server = "closed"
    <3>1. Len(wire) = 0
      BY <2>3, EmptySeq DEF FramesInv
    <3> QED BY <1>3, <3>1
  <2>4. CASE pc[c] = "write"
    BY <1>1, <2>2, <2>4
  <2> QED BY <2>1, <2>3, <2>4 DEF WriteFails
<1> QED BY <1>1, <1>2, <1>3 DEF FramesInv, OnlyTheWriterIsMidFrame

LEMMA ServerKeepsFrames ==
  ASSUME CallsInv, FramesInv, ServerStep \/ Stop
  PROVE  FramesInv'
<1>1. UNCHANGED <<pc, writer, drops>>
  BY DEF ServerStep, ReadRequest, ReadGarbage, RunHandler, Reply, Stop, client
<1>2. CASE Close
  <2>1. wire' = <<>> /\ Len(wire') = 0
    BY <1>2, EmptySeq DEF Close
  <2> QED BY <1>1, <2>1 DEF FramesInv, OnlyTheWriterIsMidFrame
<1>3. CASE ReadRequest
  <2>1. wire # <<>> /\ wire' = Tail(wire) /\ server' # "closed"
    BY <1>3 DEF ReadRequest
  <2>2. /\ Len(wire) \in Nat /\ Len(wire') = Len(wire) - 1
        /\ \A i \in 1 .. Len(wire') : wire'[i] = wire[i + 1]
    BY <2>1, HeadTailProperties, LenProperties DEF CallsInv, TypeOK
  <2>3. ASSUME drops = 0, NEW i \in 1 .. Len(wire'), wire'[i] = Torn
        PROVE  i = Len(wire') /\ \E c \in Callers : pc[c] = "cut"
    <3>1. i + 1 \in 1 .. Len(wire) /\ wire[i + 1] = Torn
      BY <2>2, <2>3
    <3>2. i + 1 = Len(wire) /\ \E c \in Callers : pc[c] = "cut"
      BY <2>3, <3>1 DEF FramesInv, OnlyTheWriterIsMidFrame
    <3> QED BY <2>2, <3>2
  <2> QED BY <1>1, <2>1, <2>3 DEF FramesInv, OnlyTheWriterIsMidFrame
<1>4. CASE ReadGarbage /\ ~ Close
  <2>1. Len(wire) > 1 /\ Head(wire) = Torn /\ server' # "closed"
    BY <1>4 DEF ReadGarbage
  <2>2. wire[1] = Torn /\ Len(wire) \in Nat
    <3>1. wire # <<>>
      BY <2>1, EmptySeq
    <3> QED BY <2>1, <3>1, TailIsLater, Frames DEF CallsInv, TypeOK
  <2>3. drops # 0
    BY <2>1, <2>2 DEF FramesInv, OnlyTheWriterIsMidFrame
  <2> QED BY <1>1, <2>1, <2>3 DEF FramesInv, OnlyTheWriterIsMidFrame
<1>5. CASE RunHandler \/ (Reply /\ ~ Close)
  <2>1. UNCHANGED wire /\ server' # "closed"
    BY <1>5 DEF RunHandler, Reply
  <2> QED BY <1>1, <2>1, ElsewhereKeepsFrames
<1> QED BY <1>2, <1>3, <1>4, <1>5 DEF ServerStep, Stop

LEMMA FramesNext ==
  ASSUME CallsInv, FramesInv, [Next]_vars
  PROVE  FramesInv'
<1>1. CASE \E c \in Callers : TakeWriter(c) \/ WriteStart(c) \/ WriteEnd(c)
  BY <1>1, WritersKeepFrames
<1>2. CASE \E c \in Callers : WriteFails(c) \/ Drop(c)
  BY <1>2, GivenUpKeepsFrames
<1>3. CASE ServerStep \/ Stop
  BY <1>3, ServerKeepsFrames
<1>4. CASE ReaderStep \/ UNCHANGED vars
  <2>1. UNCHANGED <<pc, writer, wire, server, drops>>
    BY <1>4 DEF ReaderStep, Receive, ReaderStops, client, vars
  <2> QED BY <2>1, ElsewhereKeepsFrames DEF FramesInv
<1>5. ASSUME NEW c \in Callers, Call(c) \/ Insert(c) \/ Return(c) \/ Timeout(c) \/ Forget(c)
      PROVE  FramesInv'
  <2>1. UNCHANGED <<writer, wire, server, drops>>
    BY <1>5 DEF Call, Insert, Return, Timeout, Forget
  <2>2. pc[c] \notin Writing /\ \E at \in Busy \cup {"idle"} : at \notin Writing /\ Goto(c, at)
    BY <1>5 DEF Call, Insert, Return, Timeout, Forget, Finish, Busy, Unsent, Writing
  <2> QED BY <2>1, <2>2, ElsewhereKeepsFrames DEF FramesInv
<1> QED BY <1>1, <1>2, <1>3, <1>4, <1>5 DEF Next, CallerStep

(* Whoever is in the middle of a frame holds the write half, and as long   *)
(* as nobody was dropped there the wire holds whole frames, but for that   *)
(* one (client.rs:128-131).                                                *)
THEOREM IpcWholeFrames == Spec => []OnlyTheWriterIsMidFrame
<1>1. Spec => []CallsInv
  BY CallsInit, CallsNext, PTL DEF Spec
<1>2. Spec => []FramesInv
  BY <1>1, FramesInit, FramesNext, PTL DEF Spec
<1>3. FramesInv => OnlyTheWriterIsMidFrame
  BY DEF FramesInv
<1> QED BY <1>2, <1>3, PTL
=============================================================================
