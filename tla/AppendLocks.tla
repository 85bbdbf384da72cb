---------------------------- MODULE AppendLocks ----------------------------
(***************************************************************************)
(* The process-wide registry of append locks, append_lock_for in           *)
(* crates/agent-store/src/session_store.rs:37-56, and the way appends use  *)
(* the lock they get from it.  The registry maps a path to a Weak          *)
(* reference; a lock is alive while some task holds an Arc of it.  One     *)
(* std::sync::Mutex makes a lookup atomic; dropping an Arc, and locking    *)
(* and unlocking the tokio::sync::Mutex inside, happen without it.         *)
(***************************************************************************)
EXTENDS Naturals, FiniteSets

CONSTANTS Tasks, Paths,
          Locks,       \* addresses a lock may be allocated at
          Threshold,   \* APPEND_LOCK_RETAIN_THRESHOLD, 256 in the code
          NoTask, NoLock

ASSUME NamesAssumption     == NoTask \notin Tasks /\ NoLock \notin Locks
ASSUME TasksAssumption     == IsFiniteSet(Tasks)
ASSUME ThresholdAssumption == Threshold \in Nat

VARIABLES registry, \* per path, the lock its Weak refers to, or NoLock
          owner,    \* per lock, the task that has it locked
          arc,      \* per task, the lock it holds an Arc of
          on,       \* per task, the path it appends to
          pc

vars == <<registry, owner, arc, on, pc>>

Init == /\ registry = [p \in Paths |-> NoLock]
        /\ owner = [l \in Locks |-> NoTask]
        /\ arc = [t \in Tasks |-> NoLock]
        /\ on \in [Tasks -> Paths]
        /\ pc = [t \in Tasks |-> "idle"]

-----------------------------------------------------------------------------
(* strong_count() > 0, and whether upgrade() succeeds. *)
Alive(l) == l # NoLock /\ \E t \in Tasks : arc[t] = l

Entries(reg) == {p \in Paths : reg[p] # NoLock}

(* Mutants: the sweep drops the locks in use as well, or never happens.    *)
SweptOfAll == IF Cardinality(Entries(registry)) < Threshold THEN registry
              ELSE [p \in Paths |-> NoLock]

NeverSwept == registry

(* retain, when the table has reached the threshold.                       *)
Swept == IF Cardinality(Entries(registry)) < Threshold THEN registry
         ELSE [p \in Paths |-> IF Alive(registry[p]) THEN registry[p] ELSE NoLock]

(* A new lock is at an address no Arc and no Weak keeps allocated; the     *)
(* Weak of its own path is the one it replaces.                            *)
Unallocated(reg, p) ==
  {l \in Locks : ~ Alive(l) /\ \A q \in Paths \ {p} : reg[q] # l}

(* append_lock_for                                                         *)
Lookup(t, p) ==
  /\ pc[t] = "idle"
  /\ \/ /\ Alive(Swept[p])
        /\ registry' = Swept
        /\ arc' = [arc EXCEPT ![t] = Swept[p]]
        /\ UNCHANGED owner
     \/ /\ ~ Alive(Swept[p])
        /\ \E l \in Unallocated(Swept, p) :
             /\ registry' = [Swept EXCEPT ![p] = l]
             /\ arc' = [arc EXCEPT ![t] = l]
             /\ owner' = [owner EXCEPT ![l] = NoTask]
  /\ on' = [on EXCEPT ![t] = p]
  /\ pc' = [pc EXCEPT ![t] = "waiting"]

(* lock().await                                                            *)
Lock(t) == /\ pc[t] = "waiting" /\ owner[arc[t]] = NoTask
           /\ owner' = [owner EXCEPT ![arc[t]] = t]
           /\ pc' = [pc EXCEPT ![t] = "appending"]
           /\ UNCHANGED <<registry, arc, on>>

(* Mutant: the guard goes only when nobody else has the lock's Arc.        *)
UnlockWhenAlone(t) == /\ pc[t] = "appending"
                      /\ \A u \in Tasks \ {t} : arc[u] # arc[t]
                      /\ owner' = [owner EXCEPT ![arc[t]] = NoTask]
                      /\ pc' = [pc EXCEPT ![t] = "leaving"]
                      /\ UNCHANGED <<registry, arc, on>>

(* _guard is dropped, at the end of the append or with its future.         *)
Unlock(t) == /\ pc[t] = "appending"
             /\ owner' = [owner EXCEPT ![arc[t]] = NoTask]
             /\ pc' = [pc EXCEPT ![t] = "leaving"]
             /\ UNCHANGED <<registry, arc, on>>

(* Mutant: the Arc outlives the append.                                    *)
KeepArc(t) == /\ pc[t] \in {"waiting", "leaving"}
              /\ pc' = [pc EXCEPT ![t] = "idle"]
              /\ UNCHANGED <<registry, owner, arc, on>>

(* Then append_lock, the Arc; a future dropped while it waits has only     *)
(* that.                                                                   *)
DropArc(t) == /\ pc[t] \in {"waiting", "leaving"}
              /\ arc' = [arc EXCEPT ![t] = NoLock]
              /\ pc' = [pc EXCEPT ![t] = "idle"]
              /\ UNCHANGED <<registry, owner, on>>

Next == \E t \in Tasks : \/ \E p \in Paths : Lookup(t, p)
                         \/ Lock(t) \/ Unlock(t) \/ DropArc(t)

Spec == Init /\ [][Next]_vars

(* tokio's Mutex is fair to its waiters, and an append ends.               *)
FairSpec == Spec /\ \A t \in Tasks : /\ SF_vars(Lock(t))
                                     /\ WF_vars(Unlock(t))
                                     /\ WF_vars(pc[t] = "leaving" /\ DropArc(t))

-----------------------------------------------------------------------------
(* Every variable has its type, and a task holds an Arc from append_lock_for *)
(* to the end of its append and at no other time.                          *)
TypeOK == /\ registry \in [Paths -> Locks \cup {NoLock}]
          /\ owner \in [Locks -> Tasks \cup {NoTask}]
          /\ arc \in [Tasks -> Locks \cup {NoLock}]
          /\ on \in [Tasks -> Paths]
          /\ pc \in [Tasks -> {"idle", "waiting", "appending", "leaving"}]
          /\ \A t \in Tasks : arc[t] = NoLock <=> pc[t] = "idle"

(* Two tasks never append to one file at the same time, although the lock  *)
(* of a path may have been dropped, swept and made again since the other   *)
(* task looked it up (session_store.rs:89-93).                             *)
OneAppender == \A t, u \in Tasks :
                 pc[t] = "appending" /\ pc[u] = "appending" /\ on[t] = on[u] => t = u

(* The table stays as small as the threshold, or as the number of tasks    *)
(* if that is larger, however many sessions there are                      *)
(* (session_store.rs:37-39, 45-49).                                        *)
RegistryBounded ==
  LET n == Cardinality(Entries(registry))
  IN n <= Threshold \/ n <= Cardinality(Tasks)

(* A task that goes on waiting for the lock gets it.                       *)
WaiterAppends == \A t \in Tasks : pc[t] = "waiting" ~> pc[t] # "waiting"
=============================================================================
