--------------------------- MODULE DurableOutbox ---------------------------
(***************************************************************************)
(* What append_durable_user_message and cancel_durable_user_message        *)
(* promise the application (crates/agent-store/src/session_store.rs:17-20, *)
(* 114 and 139-140), without files, tasks or locks: every operation is     *)
(* staged at most once, and cancelled for good.  An operation whose log    *)
(* could not be read (166) is in doubt, and nothing is promised for it.    *)
(***************************************************************************)
CONSTANT Operations

VARIABLES state,    \* state[op] = "none", "staged", "cancelled" or "unsure"
          promised, \* operations whose staging was answered Ok
          declined  \* operations whose cancellation was answered Ok

vars == <<state, promised, declined>>

(* Every variable has its type.                                            *)
TypeOK == /\ state \in [Operations -> {"none", "staged", "cancelled", "unsure"}]
          /\ promised \subseteq Operations
          /\ declined \subseteq Operations

Init == /\ state = [op \in Operations |-> "none"]
        /\ promised = {}
        /\ declined = {}

(* Staging takes effect once, and not at all after a cancellation.         *)
Stage(op) == /\ state[op] = "none"
             /\ state' = [state EXCEPT ![op] = "staged"]
             /\ UNCHANGED <<promised, declined>>

(* A message may be cancelled before its staging ever took effect.         *)
Cancel(op) == /\ state[op] # "unsure"
              /\ state' = [state EXCEPT ![op] = "cancelled"]
              /\ UNCHANGED <<promised, declined>>

(* A call could not tell what the log says of the operation.               *)
Doubt(op) == /\ state' = [state EXCEPT ![op] = "unsure"]
             /\ UNCHANGED <<promised, declined>>

AnswerStage(op) == /\ state[op] # "none"
                   /\ promised' = promised \cup {op}
                   /\ UNCHANGED <<state, declined>>

AnswerCancel(op) == /\ state[op] \in {"cancelled", "unsure"}
                    /\ declined' = declined \cup {op}
                    /\ UNCHANGED <<state, promised>>

Next == \E op \in Operations : \/ Stage(op) \/ Cancel(op) \/ Doubt(op)
                               \/ AnswerStage(op) \/ AnswerCancel(op)

Spec == Init /\ [][Next]_vars

=============================================================================
