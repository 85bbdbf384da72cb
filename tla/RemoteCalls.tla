---------------------------- MODULE RemoteCalls ----------------------------
(***************************************************************************)
(* What a caller of IpcClient::call (crates/agent-ipc/src/client.rs:       *)
(* 121-150) may count on, without frames, ids or a connection: a call is   *)
(* executed at most once, and one that returns a value was executed and    *)
(* returns its own value.  A call that fails may have been executed, or be *)
(* executed after its caller gave up.                                      *)
(*                                                                         *)
(* Nothing is promised of when the calls in Unsure return: the other side  *)
(* says something of its own that cannot be told from their answers.       *)
(***************************************************************************)
EXTENDS Naturals, Sequences

CONSTANTS MaxCalls,
          Unsure

VARIABLES status,   \* per call, "none", "open", "failed" or "returned"
          value,    \* per call, the call whose value it returned, or 0
          executed  \* the calls a handler was run for, in that order

vars == <<status, value, executed>>

Init == /\ status = [n \in 1 .. MaxCalls |-> "none"]
        /\ value = [n \in 1 .. MaxCalls |-> 0]
        /\ executed = <<>>

Open(n) == /\ status[n] = "none"
           /\ status' = [status EXCEPT ![n] = "open"]
           /\ UNCHANGED <<value, executed>>

Execute(n) == /\ \/ status[n] \in {"open", "failed"}
                 \/ status[n] = "returned" /\ n \in Unsure
              /\ \A i \in DOMAIN executed : executed[i] # n
              /\ executed' = Append(executed, n)
              /\ UNCHANGED <<status, value>>

Return(n) == /\ status[n] = "open"
             /\ \E i \in DOMAIN executed : executed[i] = n
             /\ status' = [status EXCEPT ![n] = "returned"]
             /\ value' = [value EXCEPT ![n] = n]
             /\ UNCHANGED executed

Misread(n) == /\ n \in Unsure /\ status[n] = "open"
              /\ status' = [status EXCEPT ![n] = "returned"]
              /\ UNCHANGED <<value, executed>>

Fail(n) == /\ status[n] = "open"
           /\ status' = [status EXCEPT ![n] = "failed"]
           /\ UNCHANGED <<value, executed>>

Next == \E n \in 1 .. MaxCalls :
          Open(n) \/ Execute(n) \/ Return(n) \/ Misread(n) \/ Fail(n)

Spec == Init /\ [][Next]_vars
=============================================================================
