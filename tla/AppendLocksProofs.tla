------------------------- MODULE AppendLocksProofs -------------------------
(***************************************************************************)
(* Proofs about AppendLocks: for any number of tasks, paths and locks, and *)
(* any threshold, at most one task appends to a path, and the registry is  *)
(* no larger than the threshold or the number of tasks.                    *)
(***************************************************************************)
EXTENDS AppendLocks, Functions, FiniteSetTheorems, TLAPS

(* While a task has to do with a path, the registry gives its lock for     *)
(* that path: the lock is alive, so it is neither swept nor replaced.      *)
Registered == \A t \in Tasks : pc[t] # "idle" => /\ arc[t] \in Locks
                                                 /\ registry[on[t]] = arc[t]

OwnsIts == \A t \in Tasks : pc[t] = "appending" => owner[arc[t]] = t

LockInv == TypeOK /\ Registered /\ OwnsIts

-----------------------------------------------------------------------------
(* A sweep forgets no lock that a task still holds an Arc of.              *)
LEMMA SweptKeepsAlive ==
  ASSUME TypeOK, NEW p \in Paths, Alive(registry[p])
  PROVE  Swept[p] = registry[p]
BY DEF Swept, TypeOK

LEMMA SweptType ==
  ASSUME TypeOK
  PROVE  Swept \in [Paths -> Locks \cup {NoLock}]
BY DEF Swept, TypeOK

(* The registry only changes its mind about paths nobody uses.             *)
LEMMA LookupKeepsRegistered ==
  ASSUME LockInv, NEW t \in Tasks, NEW p \in Paths, Lookup(t, p)
  PROVE  Registered'
<1> SUFFICES ASSUME NEW u \in Tasks, pc'[u] # "idle"
             PROVE  arc'[u] \in Locks /\ registry'[on'[u]] = arc'[u]
  BY DEF Registered
<1> USE NamesAssumption DEF LockInv, TypeOK
<1>1. Swept \in [Paths -> Locks \cup {NoLock}]
  BY SweptType
<1>2. CASE u = t
  <2>1. CASE Alive(Swept[p])
    BY <1>1, <1>2, <2>1 DEF Lookup, Alive
  <2>2. CASE ~ Alive(Swept[p])
    BY <1>1, <1>2, <2>2 DEF Lookup, Unallocated
  <2> QED BY <2>1, <2>2
<1>3. CASE u # t
  <2>1. pc[u] # "idle" /\ arc'[u] = arc[u] /\ on'[u] = on[u] /\ on[u] \in Paths
    BY <1>3 DEF Lookup
  <2>2. arc[u] \in Locks /\ registry[on[u]] = arc[u] /\ Alive(registry[on[u]])
    BY <2>1 DEF Registered, Alive
  <2>3. Swept[on[u]] = arc[u]
    BY <2>1, <2>2, SweptKeepsAlive
  <2>4. CASE Alive(Swept[p])
    BY <2>1, <2>2, <2>3, <2>4 DEF Lookup
  <2>5. CASE ~ Alive(Swept[p])
    <3>1. on[u] # p
      BY <2>2, <2>3, <2>5
    <3> QED BY <1>1, <2>1, <2>2, <2>3, <2>5, <3>1 DEF Lookup
  <2> QED BY <2>4, <2>5
<1> QED BY <1>2, <1>3

(* A new lock is at an address no task has to do with.                     *)
LEMMA LookupKeepsOwners ==
  ASSUME LockInv, NEW t \in Tasks, NEW p \in Paths, Lookup(t, p)
  PROVE  OwnsIts'
<1> SUFFICES ASSUME NEW u \in Tasks, pc'[u] = "appending"
             PROVE  owner'[arc'[u]] = u
  BY DEF OwnsIts
<1> USE NamesAssumption DEF LockInv, TypeOK
<1>1. u # t /\ pc[u] = "appending" /\ arc'[u] = arc[u]
  BY DEF Lookup
<1>2. owner[arc[u]] = u /\ arc[u] \in Locks /\ Alive(arc[u])
  BY <1>1 DEF OwnsIts, Registered, Alive
<1>3. CASE Alive(Swept[p])
  BY <1>1, <1>2, <1>3 DEF Lookup
<1>4. CASE ~ Alive(Swept[p])
  BY <1>1, <1>2, <1>4 DEF Lookup, Unallocated
<1> QED BY <1>3, <1>4

LEMMA LookupKeepsType ==
  ASSUME TypeOK, NEW t \in Tasks, NEW p \in Paths, Lookup(t, p)
  PROVE  TypeOK'
<1>1. Swept \in [Paths -> Locks \cup {NoLock}]
  BY SweptType
<1>2. CASE Alive(Swept[p])
  <2>1. Swept[p] # NoLock
    BY <1>2 DEF Alive
  <2>2. \A u \in Tasks : arc'[u] = NoLock <=> pc'[u] = "idle"
    BY <1>2, <2>1 DEF Lookup, TypeOK
  <2> QED BY <1>1, <1>2, <2>2 DEF Lookup, TypeOK
<1>3. CASE ~ Alive(Swept[p])
  <2>1. PICK l \in Unallocated(Swept, p) : /\ registry' = [Swept EXCEPT ![p] = l]
                                          /\ arc' = [arc EXCEPT ![t] = l]
                                          /\ owner' = [owner EXCEPT ![l] = NoTask]
    BY <1>3 DEF Lookup
  <2>2. l \in Locks /\ l # NoLock
    BY NamesAssumption DEF Unallocated
  <2>3. \A u \in Tasks : arc'[u] = NoLock <=> pc'[u] = "idle"
    BY <2>1, <2>2 DEF Lookup, TypeOK
  <2> QED BY <1>1, <2>1, <2>2, <2>3 DEF Lookup, TypeOK
<1> QED BY <1>2, <1>3

LEMMA LockInvInit == Init => LockInv
BY DEF Init, LockInv, TypeOK, Registered, OwnsIts

LEMMA LockInvNext == LockInv /\ [Next]_vars => LockInv'
<1> SUFFICES ASSUME LockInv, [Next]_vars PROVE LockInv'
  OBVIOUS
<1> USE NamesAssumption DEF LockInv
<1>1. ASSUME NEW t \in Tasks, NEW p \in Paths, Lookup(t, p) PROVE LockInv'
  BY <1>1, LookupKeepsType, LookupKeepsRegistered, LookupKeepsOwners
<1>2. ASSUME NEW t \in Tasks, Lock(t) PROVE LockInv'
  <2>1. TypeOK' BY <1>2 DEF Lock, TypeOK
  <2>2. Registered' BY <1>2 DEF Lock, TypeOK, Registered
  <2>3. OwnsIts'
    <3> SUFFICES ASSUME NEW u \in Tasks, pc'[u] = "appending"
                 PROVE  owner'[arc'[u]] = u
      BY DEF OwnsIts
    <3>1. arc[t] \in Locks /\ owner[arc[t]] = NoTask
      BY <1>2 DEF Lock, Registered
    <3>2. CASE u = t BY <1>2, <3>1, <3>2 DEF Lock, TypeOK
    <3>3. CASE u # t
      <4>1. pc[u] = "appending" /\ owner[arc[u]] = u /\ arc[u] \in Locks
        BY <1>2, <3>3 DEF Lock, TypeOK, OwnsIts, Registered
      <4>2. arc[u] # arc[t]
        BY <3>1, <4>1
      <4> QED BY <1>2, <4>1, <4>2 DEF Lock, TypeOK
    <3> QED BY <3>2, <3>3
  <2> QED BY <2>1, <2>2, <2>3
<1>3. ASSUME NEW t \in Tasks, Unlock(t) PROVE LockInv'
  <2>1. TypeOK' BY <1>3 DEF Unlock, TypeOK
  <2>2. Registered' BY <1>3 DEF Unlock, TypeOK, Registered
  <2>3. OwnsIts'
    <3> SUFFICES ASSUME NEW u \in Tasks, pc'[u] = "appending"
                 PROVE  owner'[arc'[u]] = u
      BY DEF OwnsIts
    <3>1. u # t /\ pc[u] = "appending" /\ owner[arc[u]] = u /\ arc[u] \in Locks
      BY <1>3 DEF Unlock, TypeOK, OwnsIts, Registered
    <3>2. arc[u] # arc[t]
      BY <1>3, <3>1 DEF Unlock, OwnsIts
    <3> QED BY <1>3, <3>1, <3>2 DEF Unlock, TypeOK
  <2> QED BY <2>1, <2>2, <2>3
<1>4. ASSUME NEW t \in Tasks, DropArc(t) PROVE LockInv'
  <2>1. TypeOK' BY <1>4 DEF DropArc, TypeOK
  <2>2. Registered' BY <1>4 DEF DropArc, TypeOK, Registered
  <2>3. OwnsIts' BY <1>4 DEF DropArc, TypeOK, OwnsIts
  <2> QED BY <2>1, <2>2, <2>3
<1>5. CASE UNCHANGED vars
  BY <1>5 DEF vars, TypeOK, Registered, OwnsIts
<1> QED BY <1>1, <1>2, <1>3, <1>4, <1>5 DEF Next

(* Every variable has its type, and a task holds an Arc exactly from its   *)
(* lookup to the end of its append.                                        *)
THEOREM LocksTypeCorrect == Spec => []TypeOK
<1>1. LockInv => TypeOK BY DEF LockInv
<1> QED BY <1>1, LockInvInit, LockInvNext, PTL DEF Spec

(* At most one task appends to a path, for every number of tasks, paths    *)
(* and locks and every threshold: the lock append_lock_for returns for a   *)
(* path is the same for all tasks that are using it.                       *)
THEOREM LocksExclude == Spec => []OneAppender
<1>1. LockInv => OneAppender
  BY DEF LockInv, OneAppender, Registered, OwnsIts
<1> QED BY <1>1, LockInvInit, LockInvNext, PTL DEF Spec

-----------------------------------------------------------------------------
(* No two paths have the same lock, so a lock in use is in the registry    *)
(* for the path it is used for.                                            *)
Apart == \A p, q \in Paths : p # q /\ registry[p] = registry[q] => registry[p] = NoLock

SizeInv == Apart /\ IsFiniteSet(Entries(registry)) /\ RegistryBounded

LEMMA SweptEntries ==
  ASSUME LockInv, Apart, Cardinality(Entries(registry)) >= Threshold, Cardinality(Entries(registry)) \in Nat
  PROVE  \A p \in Entries(Swept) : \E t \in Tasks : on[t] = p /\ pc[t] # "idle"
<1> SUFFICES ASSUME NEW p \in Entries(Swept)
             PROVE  \E t \in Tasks : on[t] = p /\ pc[t] # "idle"
  OBVIOUS
<1>1. p \in Paths /\ Swept = [q \in Paths |-> IF Alive(registry[q]) THEN registry[q] ELSE NoLock]
  BY ThresholdAssumption DEF Entries, Swept
<1>2. Alive(registry[p])
  BY <1>1 DEF Entries
<1>3. PICK t \in Tasks : registry[p] # NoLock /\ arc[t] = registry[p]
  BY <1>2 DEF Alive
<1>4. pc[t] # "idle" /\ on[t] \in Paths /\ registry[on[t]] = registry[p]
  BY <1>3 DEF LockInv, TypeOK, Registered
<1> QED BY <1>1, <1>3, <1>4 DEF Apart

(* A lookup adds the path it is for, after a sweep if the table is full.   *)
LEMMA LookupEntries ==
  ASSUME LockInv, NEW t \in Tasks, NEW p \in Paths, Lookup(t, p)
  PROVE  Entries(registry)' \subseteq Entries(Swept) \cup {p}
<1>1. Swept \in [Paths -> Locks \cup {NoLock}]
  BY SweptType DEF LockInv
<1>2. \A q \in Paths \ {p} : registry'[q] = Swept[q]
  <2>1. CASE registry' = Swept
    BY <2>1
  <2>2. CASE \E l \in Unallocated(Swept, p) : registry' = [Swept EXCEPT ![p] = l]
    BY <1>1, <2>2
  <2> QED BY <2>1, <2>2 DEF Lookup
<1> QED BY <1>2 DEF Entries

LEMMA LookupKeepsApart ==
  ASSUME LockInv, Apart, NEW t \in Tasks, NEW p \in Paths, Lookup(t, p)
  PROVE  Apart'
<1>1. /\ Swept \in [Paths -> Locks \cup {NoLock}]
      /\ \A q \in Paths : Swept[q] \in {registry[q], NoLock}
  BY SweptType DEF LockInv, TypeOK, Swept
<1>2. \A q, r \in Paths : q # r /\ Swept[q] = Swept[r] => Swept[q] = NoLock
  BY <1>1 DEF Apart
<1>3. CASE registry' = Swept
  BY <1>2, <1>3 DEF Apart
<1>4. CASE \E l \in Unallocated(Swept, p) : registry' = [Swept EXCEPT ![p] = l]
  <2>1. PICK l \in Unallocated(Swept, p) : registry' = [Swept EXCEPT ![p] = l]
    BY <1>4
  <2>2. registry'[p] = l /\ \A q \in Paths \ {p} : registry'[q] = Swept[q] /\ Swept[q] # l
    BY <1>1, <2>1 DEF Unallocated
  <2> QED BY <1>2, <2>2 DEF Apart
<1> QED BY <1>3, <1>4 DEF Lookup

LEMMA LookupKeepsSize ==
  ASSUME LockInv, SizeInv, NEW t \in Tasks, NEW p \in Paths, Lookup(t, p)
  PROVE  SizeInv'
<1> DEFINE old == Entries(registry)
           new == Entries(registry)'
<1>1. IsFiniteSet(old) /\ Cardinality(old) \in Nat
  BY FS_CardinalityType DEF SizeInv
<1>2. new \subseteq Entries(Swept) \cup {p}
  BY LookupEntries
<1>3. CASE Cardinality(old) < Threshold
  <2>1. new \subseteq old \cup {p}
    BY <1>2, <1>3 DEF Swept
  <2>2. /\ IsFiniteSet(old \cup {p}) /\ Cardinality(old \cup {p}) \in Nat
        /\ Cardinality(old \cup {p}) <= Cardinality(old) + 1
    <3>1. /\ IsFiniteSet(old \cup {p})
          /\ Cardinality(old \cup {p}) = IF p \in old THEN Cardinality(old) ELSE Cardinality(old) + 1
      BY <1>1, FS_AddElement
    <3> HIDE DEF old
    <3> QED BY <1>1, <3>1, FS_CardinalityType
  <2>3. IsFiniteSet(new) /\ Cardinality(new) <= Cardinality(old \cup {p}) /\ Cardinality(new) \in Nat
    BY <2>1, <2>2, FS_Subset, FS_CardinalityType
  <2>4. Cardinality(new) <= Threshold
    BY <1>1, <1>3, <2>2, <2>3, ThresholdAssumption
  <2> QED BY <2>3, <2>4, LookupKeepsApart DEF SizeInv, RegistryBounded
<1>4. CASE ~ Cardinality(old) < Threshold
  <2> DEFINE Used == {on'[u] : u \in Tasks}
  <2>1. Cardinality(old) >= Threshold
    BY <1>1, <1>4, ThresholdAssumption
  <2>2. on' = [on EXCEPT ![t] = p] /\ on \in [Tasks -> Paths] /\ pc[t] = "idle"
    BY DEF Lookup, LockInv, TypeOK
  <2>3. \A q \in Entries(Swept) : \E u \in Tasks : on[u] = q /\ pc[u] # "idle"
    BY <1>1, <2>1, SweptEntries DEF SizeInv
  <2>4. new \subseteq Used
    BY <1>2, <2>2, <2>3
  <2>5. on' \in Surjection(Tasks, Used)
    BY <2>2 DEF Surjection
  <2>6. IsFiniteSet(Used) /\ Cardinality(Used) <= Cardinality(Tasks)
    BY <2>5, FS_Surjection, TasksAssumption
  <2>7. IsFiniteSet(new) /\ Cardinality(new) <= Cardinality(Used)
    BY <2>4, <2>6, FS_Subset
  <2>8. Cardinality(new) \in Nat /\ Cardinality(Used) \in Nat /\ Cardinality(Tasks) \in Nat
    BY <2>6, <2>7, FS_CardinalityType, TasksAssumption
  <2>9. Cardinality(new) <= Cardinality(Tasks)
    BY <2>6, <2>7, <2>8
  <2> QED BY <2>7, <2>9, LookupKeepsApart DEF SizeInv, RegistryBounded
<1> QED BY <1>3, <1>4

LEMMA SizeInvInit == Init => SizeInv
<1> SUFFICES ASSUME Init PROVE SizeInv
  OBVIOUS
<1>1. Apart /\ Entries(registry) = {}
  BY DEF Init, Apart, Entries
<1>2. IsFiniteSet({}) /\ Cardinality({}) = 0
  BY FS_EmptySet
<1> QED BY <1>1, <1>2, ThresholdAssumption DEF SizeInv, RegistryBounded

LEMMA SizeInvNext == LockInv /\ SizeInv /\ [Next]_vars => SizeInv'
<1> SUFFICES ASSUME LockInv, SizeInv, [Next]_vars PROVE SizeInv'
  OBVIOUS
<1>1. CASE \E t \in Tasks, p \in Paths : Lookup(t, p)
  BY <1>1, LookupKeepsSize
<1>2. CASE UNCHANGED registry
  BY <1>2 DEF SizeInv, Apart, RegistryBounded, Entries
<1> QED BY <1>1, <1>2 DEF Next, Lock, Unlock, DropArc, vars

(* However many sessions there are, the registry has no more entries than  *)
(* the threshold, or than there are tasks (session_store.rs:37-39, 45-49). *)
THEOREM RegistryStaysSmall == Spec => []RegistryBounded
<1>1. Spec => []LockInv
  BY LockInvInit, LockInvNext, PTL DEF Spec
<1>2. Spec => []SizeInv
  BY <1>1, SizeInvInit, SizeInvNext, PTL DEF Spec
<1>3. SizeInv => RegistryBounded
  BY DEF SizeInv
<1> QED BY <1>2, <1>3, PTL
=============================================================================
