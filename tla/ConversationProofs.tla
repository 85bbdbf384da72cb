------------------------- MODULE ConversationProofs -------------------------
(***************************************************************************)
(* Proofs about Conversation, for all providers, answers, strategies and   *)
(* bounds.  First what the operators on sequences give, then what the      *)
(* adapters read from a response, then what a strategy keeps, and last the *)
(* inductive invariant and what follows from it.                           *)
(***************************************************************************)
EXTENDS Conversation, SequenceTheorems, FiniteSetTheorems, WellFoundedInduction, TLAPS

(* A set of numbers has a least one, and so induction over sets of numbers *)
(* holds.                                                                  *)
LEMMA LeastNumber ==
  ASSUME NEW T \in SUBSET Nat, T # {}
  PROVE  \E n \in T : \A m \in T : n <= m
<1> DEFINE R == OpToRel(<, Nat)
<1>1. IsWellFoundedOn(R, Nat)
  BY NatLessThanWellFounded, Zenon
<1>2. \A x, y \in Nat : <<y, x>> \in R <=> y < x
  BY DEF OpToRel
<1> HIDE DEF R
<1>3. PICK n \in T : \A m \in T : ~ (<<m, n>> \in R)
  <2>1. \E n \in T : \A m \in T : ~ (<<m, n>> \in R)
    BY <1>1, WFMin
  <2> QED BY <2>1
<1>4. \A m \in T : ~ (m < n)
  BY <1>2, <1>3
<1> QED BY <1>4

LEMMA InductionOnNat ==
  ASSUME NEW S \in SUBSET Nat, 0 \in S, \A n \in S : n + 1 \in S
  PROVE  S = Nat
<1> SUFFICES ASSUME Nat \ S # {} PROVE FALSE
  OBVIOUS
<1>1. PICK n \in Nat \ S : \A m \in Nat \ S : n <= m
  BY LeastNumber
<1>2. n - 1 \in Nat /\ n - 1 < n
  BY <1>1
<1>3. n - 1 \in S
  BY <1>1, <1>2
<1> QED BY <1>1, <1>2, <1>3


(* SelectAt, with the set of the positions it keeps. *)
IsPick(g, s, K, n) ==
  g = [i \in 0 .. n |-> IF i = 0 THEN <<>>
                        ELSE IF i \in K THEN Append(g[i - 1], s[i]) ELSE g[i - 1]]

LEMMA PickExists ==
  ASSUME NEW s, NEW K
  PROVE  \A n \in Nat : \E g : IsPick(g, s, K, n)
<1> DEFINE S == {n \in Nat : \E g : IsPick(g, s, K, n)}
<1>1. 0 \in S
  <2>1. IsPick([i \in 0 .. 0 |-> <<>>], s, K, 0)
    BY DEF IsPick
  <2> QED BY <2>1
<1>2. ASSUME NEW n \in S PROVE n + 1 \in S
  <2>1. PICK g : IsPick(g, s, K, n)
    OBVIOUS
  <2> DEFINE h == [i \in 0 .. n + 1 |->
                     IF i <= n THEN g[i] ELSE IF n + 1 \in K THEN Append(g[n], s[n + 1]) ELSE g[n]]
  <2>2. \A i \in 0 .. n + 1 :
          h[i] = IF i = 0 THEN <<>> ELSE IF i \in K THEN Append(h[i - 1], s[i]) ELSE h[i - 1]
    <3> SUFFICES ASSUME NEW i \in 0 .. n + 1
                 PROVE  h[i] = IF i = 0 THEN <<>>
                               ELSE IF i \in K THEN Append(h[i - 1], s[i]) ELSE h[i - 1]
      OBVIOUS
    <3>1. CASE i = n + 1
      <4>1. h[n + 1] = IF n + 1 \in K THEN Append(g[n], s[n + 1]) ELSE g[n]
        OBVIOUS
      <4>2. h[n] = g[n] /\ i - 1 = n /\ i # 0
        BY <3>1
      <4> QED BY <3>1, <4>1, <4>2
    <3>2. CASE i <= n
      <4>1. i \in 0 .. n /\ h[i] = g[i]
        BY <3>2
      <4>2. i # 0 => h[i - 1] = g[i - 1]
        BY <3>2
      <4>3. g[i] = IF i = 0 THEN <<>> ELSE IF i \in K THEN Append(g[i - 1], s[i]) ELSE g[i - 1]
        BY <2>1, <4>1 DEF IsPick
      <4> QED BY <4>1, <4>2, <4>3
    <3> QED BY <3>1, <3>2
  <2>3. h = [i \in 0 .. n + 1 |-> h[i]]
    OBVIOUS
  <2> HIDE DEF h
  <2>4. IsPick(h, s, K, n + 1)
    BY <2>2, <2>3 DEF IsPick
  <2> QED BY <2>4
<1>3. S = Nat
  <2> HIDE DEF S
  <2> QED BY <1>1, <1>2, InductionOnNat DEF S
<1> QED BY <1>3

LEMMA PickUnique ==
  ASSUME NEW s, NEW K, NEW n \in Nat, NEW g, NEW h, IsPick(g, s, K, n), IsPick(h, s, K, n)
  PROVE  g = h
<1> DEFINE S == {m \in Nat : m <= n => g[m] = h[m]}
<1>1. 0 \in S
  BY DEF IsPick
<1>2. ASSUME NEW m \in S PROVE m + 1 \in S
  <2>1. CASE m + 1 <= n
    <3>1. m + 1 \in 0 .. n /\ m + 1 # 0 /\ (m + 1) - 1 = m /\ m <= n
      BY <2>1
    <3>2. g[m + 1] = IF m + 1 \in K THEN Append(g[m], s[m + 1]) ELSE g[m]
      BY <3>1 DEF IsPick
    <3>3. h[m + 1] = IF m + 1 \in K THEN Append(h[m], s[m + 1]) ELSE h[m]
      BY <3>1 DEF IsPick
    <3> QED BY <3>1, <3>2, <3>3
  <2> QED BY <2>1
<1>3. S = Nat
  <2> HIDE DEF S
  <2> QED BY <1>1, <1>2, InductionOnNat DEF S
<1>4. \A i \in 0 .. n : g[i] = h[i]
  BY <1>3
<1>5. g = [i \in 0 .. n |-> g[i]] /\ h = [i \in 0 .. n |-> h[i]]
  BY DEF IsPick
<1> QED BY <1>4, <1>5

LEMMA PickStep ==
  ASSUME NEW s, NEW K, NEW n \in Nat, NEW g, IsPick(g, s, K, n)
  PROVE  /\ g[0] = <<>>
         /\ \A m \in 1 .. n : g[m] = IF m \in K THEN Append(g[m - 1], s[m]) ELSE g[m - 1]
<1>1. g[0] = <<>>
  BY DEF IsPick
<1>2. ASSUME NEW m \in 1 .. n
      PROVE  g[m] = IF m \in K THEN Append(g[m - 1], s[m]) ELSE g[m - 1]
  <2>1. m \in 0 .. n /\ m # 0
    OBVIOUS
  <2> QED BY <2>1 DEF IsPick
<1> QED BY <1>1, <1>2

Picked(s, K) == SelectAt(s, LAMBDA i : i \in K)

LEMMA PickedIs ==
  ASSUME NEW s, NEW K, Len(s) \in Nat, NEW g, IsPick(g, s, K, Len(s))
  PROVE  Picked(s, K) = g[Len(s)]
<1> DEFINE h == CHOOSE h : IsPick(h, s, K, Len(s))
<1>1. IsPick(h, s, K, Len(s))
  BY PickExists
<1>2. Picked(s, K) = h[Len(s)]
  BY DEF Picked, SelectAt, IsPick
<1> HIDE DEF h
<1> QED BY <1>1, <1>2, PickUnique

(* Which elements are picked, in which order. *)
Places(e, s, K, w) ==
  /\ e \in [1 .. Len(w) -> {i \in K : i \in 1 .. Len(s)}]
  /\ \A k \in 1 .. Len(w) : w[k] = s[e[k]]
  /\ \A j, k \in 1 .. Len(w) : j < k => e[j] < e[k]
  /\ \A i \in K : i \in 1 .. Len(s) => \E k \in 1 .. Len(w) : e[k] = i

LEMMA PickedPlaces ==
  ASSUME NEW S, NEW s \in Seq(S), NEW K
  PROVE  Picked(s, K) \in Seq(S) /\ \E e : Places(e, s, K, Picked(s, K))
<1> DEFINE n == Len(s)
<1>0. n \in Nat
  OBVIOUS
<1>1. PICK g : IsPick(g, s, K, n)
  BY <1>0, PickExists
<1>2. Picked(s, K) = g[n]
  BY <1>0, <1>1, PickedIs
<1> DEFINE At(e, m) ==
             /\ e \in [1 .. Len(g[m]) -> {i \in K : i \in 1 .. m}]
             /\ \A k \in 1 .. Len(g[m]) : g[m][k] = s[e[k]]
             /\ \A j, k \in 1 .. Len(g[m]) : j < k => e[j] < e[k]
             /\ \A i \in K : i \in 1 .. m => \E k \in 1 .. Len(g[m]) : e[k] = i
           T == {m \in Nat : m <= n => g[m] \in Seq(S) /\ \E e : At(e, m)}
<1>3. 0 \in T
  <2>1. g[0] = <<>>
    BY <1>0, <1>1 DEF IsPick
  <2>2. At([k \in {} |-> k], 0)
    BY <2>1
  <2>3. \E e : At(e, 0)
    BY <2>2, Zenon
  <2>4. g[0] \in Seq(S)
    BY <2>1
  <2> HIDE DEF At
  <2> QED BY <2>3, <2>4
<1>4. ASSUME NEW m \in T PROVE m + 1 \in T
  <2> HIDE DEF At
  <2> SUFFICES ASSUME m + 1 <= n
               PROVE  g[m + 1] \in Seq(S) /\ \E e : At(e, m + 1)
    OBVIOUS
  <2>1. m \in Nat /\ m <= n /\ m + 1 \in 1 .. n /\ s[m + 1] \in S
    OBVIOUS
  <2>2. g[m] \in Seq(S)
    BY <2>1
  <2>3. PICK e : At(e, m)
    BY <2>1
  <2> USE DEF At
  <2>4. g[m + 1] = IF m + 1 \in K THEN Append(g[m], s[m + 1]) ELSE g[m]
    BY <1>0, <1>1, <2>1, PickStep
  <2>5. CASE m + 1 \in K
    <3>1. g[m + 1] = Append(g[m], s[m + 1])
      BY <2>4, <2>5
    <3>2. g[m + 1] \in Seq(S) /\ Len(g[m + 1]) = Len(g[m]) + 1 /\ Len(g[m]) \in Nat
      BY <2>1, <2>2, <3>1
    <3>3. /\ \A k \in 1 .. Len(g[m]) : g[m + 1][k] = g[m][k]
          /\ g[m + 1][Len(g[m]) + 1] = s[m + 1]
      BY <2>1, <2>2, <3>1
    <3> DEFINE l == Len(g[m])
               f == [k \in 1 .. l + 1 |-> IF k = l + 1 THEN m + 1 ELSE e[k]]
    <3>4. \A k \in 1 .. l : f[k] = e[k] /\ e[k] \in K /\ e[k] \in 1 .. m
      <4> SUFFICES ASSUME NEW k \in 1 .. l PROVE f[k] = e[k] /\ e[k] \in K /\ e[k] \in 1 .. m
        OBVIOUS
      <4>1. k \in 1 .. l + 1 /\ k # l + 1
        BY <3>2
      <4>2. e[k] \in {i \in K : i \in 1 .. m}
        BY <2>3
      <4>3. f[k] = e[k]
        BY <4>1
      <4> HIDE DEF f
      <4> QED BY <4>2, <4>3
    <3>5. f[l + 1] = m + 1
      BY <3>2
    <3>6. f \in [1 .. l + 1 -> {i \in K : i \in 1 .. m + 1}]
      <4> SUFFICES ASSUME NEW k \in 1 .. l + 1 PROVE f[k] \in K /\ f[k] \in 1 .. m + 1
        OBVIOUS
      <4>1. k = l + 1 \/ k \in 1 .. l
        BY <3>2
      <4> HIDE DEF f
      <4> QED BY <2>1, <2>5, <3>4, <3>5, <4>1
    <3>7. \A k \in 1 .. l + 1 : g[m + 1][k] = s[f[k]]
      <4> SUFFICES ASSUME NEW k \in 1 .. l + 1 PROVE g[m + 1][k] = s[f[k]]
        OBVIOUS
      <4>1. k = l + 1 \/ k \in 1 .. l
        BY <3>2
      <4>2. \A i \in 1 .. l : g[m][i] = s[e[i]]
        BY <2>3
      <4> HIDE DEF f
      <4> QED BY <3>3, <3>4, <3>5, <4>1, <4>2
    <3>8. \A j, k \in 1 .. l + 1 : j < k => f[j] < f[k]
      <4> SUFFICES ASSUME NEW j \in 1 .. l + 1, NEW k \in 1 .. l + 1, j < k PROVE f[j] < f[k]
        OBVIOUS
      <4>1. j \in 1 .. l /\ (k = l + 1 \/ k \in 1 .. l)
        BY <3>2
      <4>2. f[j] = e[j] /\ e[j] \in 1 .. m
        BY <3>4, <4>1
      <4>3. CASE k = l + 1
        BY <2>1, <3>5, <4>2, <4>3
      <4>4. CASE k \in 1 .. l
        BY <2>3, <3>4, <4>1, <4>2, <4>4
      <4> QED BY <4>1, <4>3, <4>4
    <3>9. \A i \in K : i \in 1 .. m + 1 => \E k \in 1 .. l + 1 : f[k] = i
      <4> SUFFICES ASSUME NEW i \in K, i \in 1 .. m + 1 PROVE \E k \in 1 .. l + 1 : f[k] = i
        OBVIOUS
      <4>1. CASE i = m + 1
        <5> l + 1 \in 1 .. l + 1
          BY <3>2
        <5> HIDE DEF f
        <5> QED BY <3>5, <4>1
      <4>2. CASE i \in 1 .. m
        <5>1. PICK k \in 1 .. l : e[k] = i
          BY <2>3, <4>2
        <5>2. k \in 1 .. l + 1 /\ f[k] = i
          <6> HIDE DEF f
          <6> QED BY <3>2, <3>4, <5>1
        <5> HIDE DEF f
        <5> QED BY <5>2
      <4>3. i = m + 1 \/ i \in 1 .. m
        BY <2>1
      <4> QED BY <4>1, <4>2, <4>3
    <3> HIDE DEF f
    <3>10. At(f, m + 1)
      BY <3>2, <3>6, <3>7, <3>8, <3>9
    <3> HIDE DEF At
    <3> QED BY <3>2, <3>10
  <2>6. CASE m + 1 \notin K
    <3>1. g[m + 1] = g[m]
      BY <2>4, <2>6
    <3>2. \A i \in K : i \in 1 .. m + 1 <=> i \in 1 .. m
      BY <2>1, <2>6
    <3>3. {i \in K : i \in 1 .. m + 1} = {i \in K : i \in 1 .. m}
      BY <3>2
    <3>4. At(e, m + 1)
      BY <2>3, <3>1, <3>2, <3>3
    <3> HIDE DEF At
    <3> QED BY <2>2, <3>1, <3>4
  <2> QED BY <2>5, <2>6
<1>5. n \in T
  <2> HIDE DEF T
  <2>1. T = Nat
    <3>1. T \subseteq Nat
      BY DEF T
    <3> QED BY <1>3, <1>4, <3>1, InductionOnNat
  <2> QED BY <1>0, <2>1
<1>6. g[n] \in Seq(S) /\ \E e : At(e, n)
  BY <1>0, <1>5
<1> QED BY <1>2, <1>6 DEF Places

LEMMA PickedAll ==
  ASSUME NEW S, NEW s \in Seq(S), NEW K, 1 .. Len(s) \subseteq K
  PROVE  Picked(s, K) = s
<1> DEFINE n == Len(s)
<1>0. n \in Nat
  OBVIOUS
<1>1. PICK g : IsPick(g, s, K, n)
  BY <1>0, PickExists
<1> DEFINE T == {m \in Nat : m <= n => g[m] = SubSeq(s, 1, m)}
<1>2. 0 \in T
  BY <1>0, <1>1 DEF IsPick
<1>3. ASSUME NEW m \in T PROVE m + 1 \in T
  <2> SUFFICES ASSUME m + 1 <= n PROVE g[m + 1] = SubSeq(s, 1, m + 1)
    OBVIOUS
  <2>1. m + 1 \in 1 .. n /\ m + 1 \in K
    OBVIOUS
  <2>2. g[m + 1] = Append(g[m], s[m + 1])
    BY <1>0, <1>1, <2>1 DEF IsPick
  <2>3. g[m] = SubSeq(s, 1, m)
    OBVIOUS
  <2> QED BY <2>1, <2>2, <2>3
<1>4. T = Nat
  <2> HIDE DEF T
  <2> QED BY <1>2, <1>3, InductionOnNat DEF T
<1>5. g[n] = SubSeq(s, 1, n)
  BY <1>0, <1>4
<1> QED BY <1>0, <1>1, <1>5, PickedIs

(* What is kept of s, which is embedded in t, is what is kept of t at the  *)
(* places where it is embedded.                                            *)
LEMMA PickedEmbedded ==
  ASSUME NEW S, NEW s \in Seq(S), NEW t \in Seq(S), NEW K \in SUBSET (1 .. Len(s)),
         NEW f \in [K -> 1 .. Len(t)],
         \A i \in K : s[i] = t[f[i]],
         \A i, j \in K : i < j => f[i] < f[j]
  PROVE  Picked(s, K) = Picked(t, {f[i] : i \in K})
<1> DEFINE a == Len(s)
           b == Len(t)
           L == {f[i] : i \in K}
<1>0. a \in Nat /\ b \in Nat
  OBVIOUS
<1>1. PICK g : IsPick(g, s, K, a)
  BY <1>0, PickExists
<1>2. PICK h : IsPick(h, t, L, b)
  <2> HIDE DEF L
  <2> QED BY <1>0, PickExists
<1> DEFINE Same(m, n) == \A i \in K : i <= m <=> f[i] <= n
           T == {z \in Nat : \A m \in 0 .. a, n \in 0 .. b : m + n <= z /\ Same(m, n) => g[m] = h[n]}
<1>3. \A m \in 1 .. a : g[m] = IF m \in K THEN Append(g[m - 1], s[m]) ELSE g[m - 1]
  BY <1>0, <1>1, PickStep
<1>4. h[0] = <<>> /\ \A n \in 1 .. b : h[n] = IF n \in L THEN Append(h[n - 1], t[n]) ELSE h[n - 1]
  <2> HIDE DEF L
  <2> QED BY <1>0, <1>2, PickStep
<1>5. g[0] = <<>> /\ h[0] = <<>>
  <2> HIDE DEF L
  <2>1. g[0] = <<>>
    BY <1>0, <1>1, PickStep
  <2>2. h[0] = <<>>
    BY <1>4
  <2> QED BY <2>1, <2>2
<1>6. 0 \in T
  BY <1>0, <1>5
<1>7. ASSUME NEW z \in T PROVE z + 1 \in T
  <2> SUFFICES ASSUME NEW m \in 0 .. a, NEW n \in 0 .. b, m + n <= z + 1, Same(m, n)
               PROVE  g[m] = h[n]
    OBVIOUS
  <2>0. z \in Nat /\ \A x \in 0 .. a, y \in 0 .. b : x + y <= z /\ Same(x, y) => g[x] = h[y]
    OBVIOUS
  <2>1. \A i \in K : i \in 1 .. a /\ f[i] \in 1 .. b
    OBVIOUS
  <2>2. CASE m # 0 /\ m \notin K
    <3>1. m - 1 \in 0 .. a /\ (m - 1) + n <= z /\ m \in 1 .. a
      BY <1>0, <2>0, <2>2
    <3>2. Same(m - 1, n)
      <4> SUFFICES ASSUME NEW i \in K PROVE i <= m - 1 <=> f[i] <= n
        OBVIOUS
      <4>1. i # m /\ (i <= m <=> f[i] <= n) /\ i \in Nat
        BY <2>1, <2>2
      <4> QED BY <1>0, <3>1, <4>1
    <3>3. g[m - 1] = h[n]
      <4> HIDE DEF Same
      <4> QED BY <2>0, <3>1, <3>2
    <3> QED BY <1>3, <2>2, <3>1, <3>3
  <2>3. CASE n # 0 /\ n \notin L
    <3>1. n - 1 \in 0 .. b /\ m + (n - 1) <= z /\ n \in 1 .. b
      BY <1>0, <2>0, <2>3
    <3>2. Same(m, n - 1)
      <4> SUFFICES ASSUME NEW i \in K PROVE i <= m <=> f[i] <= n - 1
        OBVIOUS
      <4>1. f[i] # n /\ (i <= m <=> f[i] <= n) /\ f[i] \in Nat
        BY <2>1, <2>3
      <4> QED BY <1>0, <3>1, <4>1
    <3>3. g[m] = h[n - 1]
      <4> HIDE DEF Same
      <4> QED BY <2>0, <3>1, <3>2
    <3> QED BY <1>4, <2>3, <3>1, <3>3
  <2>4. CASE m \in K /\ n \in L
    <3>1. m \in 1 .. a /\ n \in 1 .. b /\ f[m] <= n
      BY <1>0, <2>1, <2>4
    <3>2. PICK j \in K : n = f[j]
      BY <2>4
    <3>3. j <= m
      BY <3>1, <3>2
    <3>4. j = m
      <4>1. CASE j < m
        <5>1. f[j] < f[m]
          BY <2>4, <4>1
        <5> QED BY <2>1, <2>4, <3>1, <3>2, <5>1
      <4> QED BY <2>1, <2>4, <3>3, <4>1
    <3>5. s[m] = t[n]
      BY <2>4, <3>2, <3>4
    <3>6. m - 1 \in 0 .. a /\ n - 1 \in 0 .. b /\ (m - 1) + (n - 1) <= z
      BY <1>0, <2>0, <3>1
    <3>7. Same(m - 1, n - 1)
      <4> SUFFICES ASSUME NEW i \in K PROVE i <= m - 1 <=> f[i] <= n - 1
        OBVIOUS
      <4>1. i < m => f[i] < n
        BY <2>4, <3>2, <3>4
      <4>2. m < i => n < f[i]
        BY <2>4, <3>2, <3>4
      <4>3. i = m => f[i] = n
        BY <3>2, <3>4
      <4>4. i \in Nat /\ f[i] \in Nat /\ m \in Nat /\ n \in Nat
        BY <2>1, <3>1
      <4> QED BY <4>1, <4>2, <4>3, <4>4
    <3>8. g[m - 1] = h[n - 1]
      <4> HIDE DEF Same
      <4> QED BY <2>0, <3>6, <3>7
    <3>9. g[m] = Append(g[m - 1], s[m])
      BY <1>3, <2>4, <3>1
    <3>10. h[n] = Append(h[n - 1], t[n])
      BY <1>4, <2>4, <3>1
    <3> QED BY <3>5, <3>8, <3>9, <3>10
  <2>5. CASE m = 0 /\ n \in L
    <3>1. PICK j \in K : n = f[j]
      BY <2>5
    <3>2. j <= m
      BY <2>1, <3>1
    <3> QED BY <2>1, <2>5, <3>2
  <2>6. CASE n = 0 /\ m \in K
    <3>1. f[m] <= n
      BY <1>0, <2>1, <2>6
    <3> QED BY <2>1, <2>6, <3>1
  <2>7. CASE m = 0 /\ n = 0
    BY <1>5, <2>7
  <2> QED BY <2>2, <2>3, <2>4, <2>5, <2>6, <2>7
<1>8. T = Nat
  <2>1. T \subseteq Nat
    OBVIOUS
  <2> HIDE DEF T
  <2> QED BY <1>6, <1>7, <2>1, InductionOnNat
<1>9. a + b \in T /\ Same(a, b)
  <2>1. a + b \in Nat
    BY <1>0
  <2>2. Same(a, b)
    OBVIOUS
  <2> HIDE DEF T, Same
  <2> QED BY <1>8, <2>1, <2>2
<1>10. g[a] = h[b]
  <2>1. a \in 0 .. a /\ b \in 0 .. b /\ a + b <= a + b
    BY <1>0
  <2> HIDE DEF Same
  <2> QED BY <1>9, <2>1
<1> HIDE DEF L
<1>11. Picked(s, K) = g[a] /\ Picked(t, L) = h[b]
  BY <1>0, <1>1, <1>2, PickedIs
<1> QED BY <1>10, <1>11 DEF L

(* FlattenSeq: where the elements of each sequence end up. *)
IsFlat(g, ss, n) == g = [i \in 1 .. n |-> IF i = 1 THEN ss[i] ELSE g[i - 1] \o ss[i]]

LEMMA FlatExists ==
  ASSUME NEW ss
  PROVE  \A n \in Nat : \E g : IsFlat(g, ss, n)
<1> DEFINE S == {n \in Nat : \E g : IsFlat(g, ss, n)}
<1>1. 0 \in S
  <2>1. IsFlat([i \in 1 .. 0 |-> <<>>], ss, 0)
    BY DEF IsFlat
  <2> QED BY <2>1
<1>2. ASSUME NEW n \in S PROVE n + 1 \in S
  <2>1. PICK g : IsFlat(g, ss, n)
    OBVIOUS
  <2> DEFINE h == [i \in 1 .. n + 1 |->
                     IF i <= n THEN g[i] ELSE IF n = 0 THEN ss[1] ELSE g[n] \o ss[n + 1]]
  <2>2. \A i \in 1 .. n + 1 : h[i] = IF i = 1 THEN ss[i] ELSE h[i - 1] \o ss[i]
    <3> SUFFICES ASSUME NEW i \in 1 .. n + 1
                 PROVE  h[i] = IF i = 1 THEN ss[i] ELSE h[i - 1] \o ss[i]
      OBVIOUS
    <3>1. CASE i = n + 1
      <4>1. h[n + 1] = IF n = 0 THEN ss[1] ELSE g[n] \o ss[n + 1]
        OBVIOUS
      <4>2. n # 0 => h[n] = g[n]
        OBVIOUS
      <4>3. i - 1 = n /\ (i = 1 <=> n = 0)
        BY <3>1
      <4> QED BY <3>1, <4>1, <4>2, <4>3
    <3>2. CASE i <= n
      <4>1. i \in 1 .. n /\ h[i] = g[i]
        BY <3>2
      <4>2. i # 1 => h[i - 1] = g[i - 1]
        BY <3>2
      <4>3. g[i] = IF i = 1 THEN ss[i] ELSE g[i - 1] \o ss[i]
        BY <2>1, <4>1 DEF IsFlat
      <4> QED BY <4>1, <4>2, <4>3
    <3> QED BY <3>1, <3>2
  <2>3. h = [i \in 1 .. n + 1 |-> h[i]]
    OBVIOUS
  <2> HIDE DEF h
  <2>4. IsFlat(h, ss, n + 1)
    BY <2>2, <2>3 DEF IsFlat
  <2> QED BY <2>4
<1>3. S = Nat
  <2> HIDE DEF S
  <2> QED BY <1>1, <1>2, InductionOnNat DEF S
<1> QED BY <1>3

\* off[i] is the length of the first i sequences together.
Laid(w, off, ss) ==
  /\ off \in [0 .. Len(ss) -> Nat] /\ off[0] = 0 /\ off[Len(ss)] = Len(w)
  /\ \A i \in 1 .. Len(ss) : off[i] = off[i - 1] + Len(ss[i])
  /\ \A i, j \in 0 .. Len(ss) : i <= j => off[i] <= off[j]
  /\ \A i \in 1 .. Len(ss) : \A k \in 1 .. Len(ss[i]) : w[off[i - 1] + k] = ss[i][k]
  /\ \A p \in 1 .. Len(w) : \E i \in 1 .. Len(ss) : \E k \in 1 .. Len(ss[i]) : p = off[i - 1] + k

LEMMA FlattenLaid ==
  ASSUME NEW S, NEW ss \in Seq(Seq(S))
  PROVE  FlattenSeq(ss) \in Seq(S) /\ \E off : Laid(FlattenSeq(ss), off, ss)
<1> DEFINE n == Len(ss)
<1>0. n \in Nat /\ \A i \in 1 .. n : ss[i] \in Seq(S) /\ Len(ss[i]) \in Nat
  OBVIOUS
<1>1. CASE n = 0
  <2>1. FlattenSeq(ss) = <<>> /\ ss = <<>>
    BY <1>1 DEF FlattenSeq
  <2>2. Laid(<<>>, [i \in {0} |-> 0], <<>>)
    BY DEF Laid
  <2> QED BY <2>1, <2>2
<1>2. CASE n # 0
  <2> DEFINE g == CHOOSE g : IsFlat(g, ss, n)
  <2>1. IsFlat(g, ss, n)
    BY <1>0, FlatExists
  <2>2. FlattenSeq(ss) = g[n]
    BY <1>2 DEF FlattenSeq, IsFlat
  <2> HIDE DEF g
  <2>3. g[1] = ss[1]
    BY <1>0, <1>2, <2>1 DEF IsFlat
  <2>4. \A i \in 1 .. n : i # 1 => g[i] = g[i - 1] \o ss[i]
    BY <1>0, <2>1 DEF IsFlat
  <2> DEFINE off == [i \in 0 .. n |-> IF i = 0 THEN 0 ELSE Len(g[i])]
             T1 == {m \in Nat : m \in 1 .. n => g[m] \in Seq(S)}
  <2>5. \A i \in 1 .. n : g[i] \in Seq(S)
    <3>1. 0 \in T1
      OBVIOUS
    <3>2. ASSUME NEW m \in T1 PROVE m + 1 \in T1
      <4>1. CASE m = 0
        BY <1>0, <2>3, <4>1
      <4>2. CASE m # 0 /\ m + 1 <= n
        <5>1. m \in 1 .. n /\ m + 1 \in 1 .. n /\ m + 1 # 1 /\ (m + 1) - 1 = m
          BY <1>0, <4>2
        <5>2. g[m + 1] = g[m] \o ss[m + 1]
          BY <2>4, <5>1
        <5>3. g[m] \in Seq(S) /\ ss[m + 1] \in Seq(S)
          BY <1>0, <5>1
        <5>4. g[m + 1] \in Seq(S)
          BY <5>2, <5>3, ConcatProperties
        <5> QED BY <5>4
      <4>3. CASE m + 1 > n
        BY <1>0, <4>3
      <4> QED BY <1>0, <4>1, <4>2, <4>3
    <3>3. T1 = Nat
      <4> HIDE DEF T1
      <4> QED BY <3>1, <3>2, InductionOnNat DEF T1
    <3> QED BY <1>0, <3>3
  <2>6. \A i \in 1 .. n : off[i] = Len(g[i]) /\ Len(g[i]) \in Nat
    BY <1>0, <2>5
  <2>7. off[0] = 0 /\ off \in [0 .. n -> Nat]
    <3>1. ASSUME NEW i \in 0 .. n PROVE (IF i = 0 THEN 0 ELSE Len(g[i])) \in Nat
      BY <1>0, <2>6
    <3> QED BY <1>0, <3>1
  <2>8. \A i \in 1 .. n : off[i] = off[i - 1] + Len(ss[i])
    <3> SUFFICES ASSUME NEW i \in 1 .. n PROVE off[i] = off[i - 1] + Len(ss[i])
      OBVIOUS
    <3>1. CASE i = 1
      BY <1>0, <2>3, <2>6, <2>7, <3>1
    <3>2. CASE i # 1
      <4>1. i - 1 \in 1 .. n
        BY <1>0, <3>2
      <4>2. g[i] = g[i - 1] \o ss[i] /\ g[i - 1] \in Seq(S) /\ ss[i] \in Seq(S)
        BY <1>0, <2>4, <2>5, <3>2, <4>1
      <4>3. Len(g[i]) = Len(g[i - 1]) + Len(ss[i])
        BY <4>2, ConcatProperties
      <4> QED BY <2>6, <4>1, <4>3
    <3> QED BY <3>1, <3>2
  <2>9. \A i, j \in 0 .. n : i <= j => off[i] <= off[j]
    <3> HIDE DEF off
    <3> DEFINE T2 == {j \in Nat : j \in 0 .. n => \A i \in 0 .. n : i <= j => off[i] <= off[j]}
    <3>1. 0 \in T2
      BY <1>0, <2>7
    <3>2. ASSUME NEW j \in T2 PROVE j + 1 \in T2
      <4> SUFFICES ASSUME j + 1 \in 0 .. n, NEW i \in 0 .. n, i <= j + 1
                   PROVE  off[i] <= off[j + 1]
        OBVIOUS
      <4>1. j \in 0 .. n /\ j + 1 \in 1 .. n /\ (j + 1) - 1 = j
        BY <1>0
      <4>2. off[j + 1] = off[j] + Len(ss[j + 1]) /\ Len(ss[j + 1]) \in Nat
        BY <1>0, <2>8, <4>1
      <4>3. off[j] \in Nat /\ off[i] \in Nat
        BY <2>7, <4>1
      <4>4. CASE i <= j
        <5>1. off[i] <= off[j]
          BY <4>1, <4>4
        <5> QED BY <4>2, <4>3, <5>1
      <4>5. CASE i = j + 1
        BY <4>3, <4>5
      <4> QED BY <1>0, <4>4, <4>5
    <3>3. T2 = Nat
      <4> HIDE DEF T2
      <4> QED BY <3>1, <3>2, InductionOnNat DEF T2
    <3> QED BY <1>0, <3>3
  <2>10. ASSUME NEW m \in 1 .. n, m # 1, NEW p \in 1 .. off[m]
         PROVE  g[m][p] = IF p <= off[m - 1] THEN g[m - 1][p] ELSE ss[m][p - off[m - 1]]
    <3>1. m - 1 \in 1 .. n
      BY <1>0, <2>10
    <3>2. g[m] = g[m - 1] \o ss[m] /\ g[m - 1] \in Seq(S) /\ ss[m] \in Seq(S)
      BY <1>0, <2>4, <2>5, <2>10, <3>1
    <3>3. off[m - 1] = Len(g[m - 1]) /\ p \in 1 .. Len(g[m - 1]) + Len(ss[m])
      BY <2>6, <2>8, <3>1
    <3> HIDE DEF off
    <3> QED BY <3>2, <3>3, ConcatProperties
  <2>11. \A i \in 1 .. n : \A k \in 1 .. Len(ss[i]) : g[n][off[i - 1] + k] = ss[i][k]
    <3> HIDE DEF off
    <3> DEFINE T3 == {m \in Nat : m \in 1 .. n =>
                        \A i \in 1 .. m : \A k \in 1 .. Len(ss[i]) : g[m][off[i - 1] + k] = ss[i][k]}
    <3>1. 0 \in T3
      OBVIOUS
    <3>2. ASSUME NEW m \in T3 PROVE m + 1 \in T3
      <4> SUFFICES ASSUME m + 1 \in 1 .. n, NEW i \in 1 .. m + 1, NEW k \in 1 .. Len(ss[i])
                   PROVE  g[m + 1][off[i - 1] + k] = ss[i][k]
        OBVIOUS
      <4>1. m \in Nat /\ m \in 0 .. n /\ (m + 1) - 1 = m /\ i \in 1 .. n /\ i - 1 \in 0 .. n /\ i \in 0 .. n
        BY <1>0
      <4>2. off[i - 1] \in Nat /\ k \in Nat /\ off[i] = off[i - 1] + Len(ss[i]) /\ Len(ss[i]) \in Nat
        <5>1. off[i - 1] \in Nat /\ Len(ss[i]) \in Nat
          BY <1>0, <2>7, <4>1
        <5>2. off[i] = off[i - 1] + Len(ss[i])
          BY <2>8, <4>1
        <5> QED BY <5>1, <5>2
      <4>3. off[i] <= off[m + 1]
        BY <2>9, <4>1
      <4>4. off[i - 1] + k \in 1 .. off[m + 1] /\ off[i - 1] + k <= off[i]
        <5>1. off[m + 1] \in Nat
          BY <2>7
        <5>2. \A a, l \in Nat : \A c \in 1 .. l : a + l \in Nat /\ a + c \in Nat /\ a + c >= 1 /\ a + c <= a + l
          OBVIOUS
        <5>3. off[i - 1] + k \in Nat /\ off[i - 1] + k >= 1 /\ off[i - 1] + k <= off[i] /\ off[i] \in Nat
          <6>1. off[i - 1] \in Nat /\ Len(ss[i]) \in Nat /\ k \in 1 .. Len(ss[i])
            BY <4>2
          <6>2. /\ off[i - 1] + Len(ss[i]) \in Nat /\ off[i - 1] + k \in Nat
                /\ off[i - 1] + k >= 1 /\ off[i - 1] + k <= off[i - 1] + Len(ss[i])
            BY <5>2, <6>1
          <6> QED BY <4>2, <6>2
        <5>4. \A a, b, c \in Nat : a >= 1 /\ a <= b /\ b <= c => a \in 1 .. c
          OBVIOUS
        <5> QED BY <4>3, <5>1, <5>3, <5>4
      <4>5. CASE m = 0
        BY <2>3, <2>7, <4>1, <4>2, <4>5
      <4>6. CASE m # 0 /\ i = m + 1
        <5>1. off[i - 1] = off[m] /\ ~ (off[i - 1] + k <= off[m])
          BY <2>7, <4>1, <4>2, <4>6
        <5>2. g[m + 1][off[i - 1] + k] = ss[m + 1][(off[i - 1] + k) - off[m]]
          BY <2>10, <4>1, <4>4, <4>6, <5>1
        <5> QED BY <4>2, <4>6, <5>1, <5>2
      <4>7. CASE m # 0 /\ i <= m
        <5>1. off[i] <= off[m] /\ off[m] \in Nat
          BY <2>7, <2>9, <4>1, <4>7
        <5>2. off[i - 1] + k <= off[m]
          <6>1. off[i - 1] + k \in Nat /\ off[i] \in Nat /\ off[i - 1] + k <= off[i]
            BY <2>7, <4>1, <4>4
          <6>2. \A a, b, c \in Nat : a <= b /\ b <= c => a <= c
            OBVIOUS
          <6> QED BY <5>1, <6>1, <6>2
        <5>3. g[m + 1][off[i - 1] + k] = g[m][off[i - 1] + k]
          BY <2>10, <4>1, <4>4, <4>7, <5>2
        <5>4. m \in 1 .. n /\ i \in 1 .. m
          BY <4>1, <4>7
        <5> QED BY <5>3, <5>4
      <4> QED BY <4>1, <4>5, <4>6, <4>7
    <3>3. T3 = Nat
      <4> HIDE DEF T3
      <4> QED BY <3>1, <3>2, InductionOnNat DEF T3
    <3>4. n \in T3 /\ n \in 1 .. n
      <4> HIDE DEF T3
      <4> QED BY <1>0, <1>2, <3>3
    <3> QED BY <3>4
  <2>12. \A p \in 1 .. off[n] : \E i \in 1 .. n : \E k \in 1 .. Len(ss[i]) : p = off[i - 1] + k
    <3> HIDE DEF off
    <3> DEFINE T4 == {m \in Nat : m \in 0 .. n =>
                        \A p \in 1 .. off[m] : \E i \in 1 .. m : \E k \in 1 .. Len(ss[i]) : p = off[i - 1] + k}
    <3>1. 0 \in T4
      BY <2>7
    <3>2. ASSUME NEW m \in T4 PROVE m + 1 \in T4
      <4> SUFFICES ASSUME m + 1 \in 0 .. n, NEW p \in 1 .. off[m + 1]
                   PROVE  \E i \in 1 .. m + 1 : \E k \in 1 .. Len(ss[i]) : p = off[i - 1] + k
        OBVIOUS
      <4>1. m \in 0 .. n /\ m + 1 \in 1 .. n /\ (m + 1) - 1 = m
        BY <1>0
      <4>2. off[m + 1] = off[m] + Len(ss[m + 1]) /\ Len(ss[m + 1]) \in Nat /\ off[m] \in Nat
        BY <1>0, <2>7, <2>8, <4>1
      <4>3. CASE p <= off[m]
        <5>1. PICK i \in 1 .. m : \E k \in 1 .. Len(ss[i]) : p = off[i - 1] + k
          <6>1. p \in 1 .. off[m] /\ m \in 0 .. n
            BY <4>1, <4>2, <4>3
          <6> QED BY <6>1
        <5>2. i \in 1 .. m + 1
          OBVIOUS
        <5> QED BY <5>1, <5>2
      <4>4. CASE ~ (p <= off[m])
        <5>1. p - off[m] \in 1 .. Len(ss[m + 1]) /\ p = off[m] + (p - off[m])
          BY <4>2, <4>4
        <5>2. m + 1 \in 1 .. m + 1
          BY <4>1
        <5>3. \E k \in 1 .. Len(ss[m + 1]) : p = off[(m + 1) - 1] + k
          BY <4>1, <5>1
        <5> QED BY <5>2, <5>3
      <4> QED BY <4>3, <4>4
    <3>3. T4 = Nat
      <4> HIDE DEF T4
      <4> QED BY <3>1, <3>2, InductionOnNat DEF T4
    <3> QED BY <1>0, <3>3
  <2>13. off[n] = Len(g[n]) /\ g[n] \in Seq(S)
    BY <1>0, <1>2, <2>5, <2>6
  <2> HIDE DEF off
  <2>14. Laid(g[n], off, ss)
    BY <2>7, <2>8, <2>9, <2>11, <2>12, <2>13 DEF Laid
  <2> QED BY <2>2, <2>13, <2>14
<1> QED BY <1>1, <1>2

HasElement(s, x) == \E p \in 1 .. Len(s) : s[p] = x

\* The elements of the whole are those of the parts.
LEMMA FlattenElements ==
  ASSUME NEW S, NEW ss \in Seq(Seq(S)), NEW x
  PROVE  HasElement(FlattenSeq(ss), x) <=> \E i \in 1 .. Len(ss) : HasElement(ss[i], x)
<1> DEFINE w == FlattenSeq(ss)
<1>1. PICK off : Laid(w, off, ss)
  BY FlattenLaid
<1>2. w \in Seq(S) /\ Len(w) \in Nat /\ Len(ss) \in Nat
  BY FlattenLaid
<1> HIDE DEF w
<1>3. ASSUME NEW p \in 1 .. Len(w), w[p] = x
      PROVE  \E i \in 1 .. Len(ss) : \E k \in 1 .. Len(ss[i]) : ss[i][k] = x
  <2>1. PICK i \in 1 .. Len(ss) : \E k \in 1 .. Len(ss[i]) : p = off[i - 1] + k
    BY <1>1 DEF Laid
  <2>2. PICK k \in 1 .. Len(ss[i]) : p = off[i - 1] + k
    BY <2>1
  <2>3. w[p] = ss[i][k]
    BY <1>1, <2>2 DEF Laid
  <2> QED BY <1>3, <2>3
<1>4. ASSUME NEW i \in 1 .. Len(ss), NEW k \in 1 .. Len(ss[i]), ss[i][k] = x
      PROVE  \E p \in 1 .. Len(w) : w[p] = x
  <2>1. i - 1 \in 0 .. Len(ss) /\ i \in 0 .. Len(ss) /\ Len(ss) \in 0 .. Len(ss)
    BY <1>2
  <2>2. off[i] = off[i - 1] + Len(ss[i]) /\ off[i] <= Len(w) /\ off[i - 1] \in Nat
    <3>1. off[i] = off[i - 1] + Len(ss[i]) /\ off[Len(ss)] = Len(w)
      BY <1>1 DEF Laid
    <3>2. off[i] <= off[Len(ss)]
      <4>1. \A a, b \in 0 .. Len(ss) : a <= b => off[a] <= off[b]
        BY <1>1, Zenon DEF Laid
      <4> QED BY <1>2, <2>1, <4>1
    <3>3. off[i - 1] \in Nat
      BY <1>1, <2>1 DEF Laid
    <3> QED BY <3>1, <3>2, <3>3
  <2>3. Len(ss[i]) \in Nat
    BY <1>2
  <2>4. off[i - 1] + k \in 1 .. Len(w)
    BY <1>2, <2>2, <2>3
  <2>5. w[off[i - 1] + k] = x
    BY <1>1, <1>4 DEF Laid
  <2> QED BY <2>4, <2>5
<1>5. HasElement(w, x) <=> \E i \in 1 .. Len(ss) : HasElement(ss[i], x)
  BY <1>3, <1>4 DEF HasElement
<1> QED BY <1>5 DEF w

(* FilterMap, with the sequence of the Options. *)
Somes(os) == FlattenSeq([i \in DOMAIN os |->
               IF os[i] = {} THEN <<>> ELSE <<CHOOSE y \in os[i] : TRUE>>])

Options(T) == {o \in SUBSET T : \A x, y \in o : x = y}

\* e[k] is the place of the Option that the k-th element comes from.
SomePlaces(e, os, w) ==
  /\ e \in [1 .. Len(w) -> 1 .. Len(os)]
  /\ \A k \in 1 .. Len(w) : os[e[k]] = {w[k]}
  /\ \A j, k \in 1 .. Len(w) : j < k => e[j] < e[k]
  /\ \A i \in 1 .. Len(os) : os[i] # {} => \E k \in 1 .. Len(w) : e[k] = i

LEMMA SomesPlaces ==
  ASSUME NEW T, NEW os \in Seq(Options(T))
  PROVE  Somes(os) \in Seq(T) /\ \E e : SomePlaces(e, os, Somes(os))
<1> DEFINE One(o) == IF o = {} THEN <<>> ELSE <<CHOOSE y \in o : TRUE>>
           ss == [i \in DOMAIN os |-> One(os[i])]
           n == Len(os)
           w == Somes(os)
<1>0. n \in Nat /\ DOMAIN os = 1 .. n
  OBVIOUS
<1>1. ASSUME NEW i \in 1 .. n
      PROVE  /\ os[i] # {} => /\ (CHOOSE y \in os[i] : TRUE) \in T
                              /\ os[i] = {CHOOSE y \in os[i] : TRUE}
  <2>1. os[i] \in Options(T)
    OBVIOUS
  <2>2. os[i] # {} => (CHOOSE y \in os[i] : TRUE) \in os[i]
    OBVIOUS
  <2> QED BY <2>1, <2>2 DEF Options
<1>2. \A i \in 1 .. n : One(os[i]) \in Seq(T)
  <2> SUFFICES ASSUME NEW i \in 1 .. n PROVE One(os[i]) \in Seq(T)
    OBVIOUS
  <2>1. CASE os[i] = {}
    BY <2>1
  <2>2. CASE os[i] # {}
    <3>1. (CHOOSE y \in os[i] : TRUE) \in T
      BY <1>1, <2>2
    <3> QED BY <2>2, <3>1
  <2> QED BY <2>1, <2>2
<1>3. ss \in Seq(Seq(T)) /\ Len(ss) = n /\ \A i \in 1 .. n : ss[i] = One(os[i])
  <2> HIDE DEF One
  <2> QED BY <1>0, <1>2
<1>4. w = FlattenSeq(ss)
  BY Zenon DEF Somes
<1>5. w \in Seq(T)
  <2> HIDE DEF ss, w
  <2> QED BY <1>3, <1>4, FlattenLaid
<1>6. PICK off : Laid(w, off, ss)
  <2> HIDE DEF ss, w
  <2> QED BY <1>3, <1>4, FlattenLaid
<1>7. \A i \in 1 .. n : /\ os[i] = {} => Len(ss[i]) = 0
                        /\ os[i] # {} => Len(ss[i]) = 1 /\ os[i] = {ss[i][1]}
  <2> SUFFICES ASSUME NEW i \in 1 .. n
               PROVE  /\ os[i] = {} => Len(ss[i]) = 0
                      /\ os[i] # {} => Len(ss[i]) = 1 /\ os[i] = {ss[i][1]}
    OBVIOUS
  <2>1. ss[i] = IF os[i] = {} THEN <<>> ELSE <<CHOOSE y \in os[i] : TRUE>>
    BY <1>3
  <2> HIDE DEF ss, One
  <2>2. CASE os[i] = {}
    BY <2>1, <2>2
  <2>3. CASE os[i] # {}
    <3>1. ss[i] = <<CHOOSE y \in os[i] : TRUE>>
      BY <2>1, <2>3
    <3>2. Len(ss[i]) = 1 /\ ss[i][1] = CHOOSE y \in os[i] : TRUE
      BY <3>1
    <3> QED BY <1>1, <2>3, <3>2
  <2> QED BY <2>2, <2>3
<1> HIDE DEF ss, w, One
<1>8. Len(w) \in Nat
  BY <1>5
<1>9. \A p \in 1 .. Len(w) : \E i \in 1 .. n : os[i] = {w[p]} /\ p = off[i - 1] + 1
  <2> SUFFICES ASSUME NEW p \in 1 .. Len(w)
               PROVE  \E i \in 1 .. n : os[i] = {w[p]} /\ p = off[i - 1] + 1
    OBVIOUS
  <2>1. PICK i \in 1 .. n : \E k \in 1 .. Len(ss[i]) : p = off[i - 1] + k
    BY <1>3, <1>6 DEF Laid
  <2>2. PICK k \in 1 .. Len(ss[i]) : p = off[i - 1] + k
    BY <2>1
  <2>3. os[i] # {} /\ k = 1
    <3>1. Len(ss[i]) = 1 /\ os[i] # {}
      BY <1>7
    <3> QED BY <3>1
  <2>4. w[off[i - 1] + k] = ss[i][k]
    BY <1>3, <1>6 DEF Laid
  <2> QED BY <1>7, <2>2, <2>3, <2>4
<1> DEFINE e == [p \in 1 .. Len(w) |-> CHOOSE i \in 1 .. n : os[i] = {w[p]} /\ p = off[i - 1] + 1]
<1>10. \A p \in 1 .. Len(w) : e[p] \in 1 .. n /\ os[e[p]] = {w[p]} /\ p = off[e[p] - 1] + 1
  BY <1>9
<1>11. e \in [1 .. Len(w) -> 1 .. n]
  BY <1>9
<1> HIDE DEF e
<1>12. \A j, k \in 1 .. Len(w) : j < k => e[j] < e[k]
  <2> SUFFICES ASSUME NEW j \in 1 .. Len(w), NEW k \in 1 .. Len(w), j < k, ~ (e[j] < e[k])
               PROVE  FALSE
    BY <1>8, <1>10
  <2>1. e[k] - 1 \in 0 .. n /\ e[j] - 1 \in 0 .. n /\ e[k] - 1 <= e[j] - 1
    BY <1>0, <1>10
  <2>2. \A a, b \in 0 .. n : a <= b => off[a] <= off[b]
    BY <1>3, <1>6 DEF Laid
  <2>3. off[e[k] - 1] <= off[e[j] - 1]
    BY <2>1, <2>2
  <2>4. off[e[k] - 1] \in Nat /\ off[e[j] - 1] \in Nat
    BY <1>3, <1>6, <2>1 DEF Laid
  <2>5. j = off[e[j] - 1] + 1 /\ k = off[e[k] - 1] + 1
    BY <1>10
  <2> QED BY <2>3, <2>4, <2>5
<1>13. \A i \in 1 .. n : os[i] # {} => \E k \in 1 .. Len(w) : e[k] = i
  <2> SUFFICES ASSUME NEW i \in 1 .. n, os[i] # {}
               PROVE  \E k \in 1 .. Len(w) : e[k] = i
    OBVIOUS
  <2> DEFINE p == off[i - 1] + 1
  <2>1. i \in 0 .. n /\ i - 1 \in 0 .. n /\ n \in 0 .. n /\ i <= n
    BY <1>0
  <2>2. off[i] = off[i - 1] + 1 /\ off[i - 1] \in Nat
    <3>1. off[i] = off[i - 1] + Len(ss[i]) /\ off[i - 1] \in Nat
      BY <1>3, <1>6, <2>1 DEF Laid
    <3> QED BY <1>7, <3>1
  <2>3. \A a, b \in 0 .. n : a <= b => off[a] <= off[b]
    BY <1>3, <1>6 DEF Laid
  <2>4. off[i] <= off[n] /\ off[n] = Len(w)
    <3>1. off[n] = Len(w)
      BY <1>3, <1>6 DEF Laid
    <3> QED BY <2>1, <2>3, <3>1
  <2>5. p \in 1 .. Len(w)
    BY <1>8, <2>2, <2>4
  <2>6. e[p] \in 1 .. n /\ os[e[p]] # {} /\ p = off[e[p] - 1] + 1
    BY <1>10, <2>5
  <2>7. off[e[p] - 1] = off[i - 1] /\ e[p] - 1 \in 0 .. n /\ e[p] \in 0 .. n
    <3>1. e[p] - 1 \in 0 .. n /\ e[p] \in 0 .. n
      BY <1>0, <2>6
    <3>2. off[e[p] - 1] \in Nat
      BY <1>3, <1>6, <3>1 DEF Laid
    <3>3. off[e[p] - 1] = off[i - 1]
      <4>1. off[e[p] - 1] + 1 = off[i - 1] + 1
        BY <2>6
      <4> HIDE DEF p
      <4> QED BY <2>2, <3>2, <4>1
    <3> QED BY <3>1, <3>3
  <2>8. off[e[p]] = off[e[p] - 1] + 1
    <3>1. off[e[p]] = off[e[p] - 1] + Len(ss[e[p]])
      BY <1>3, <1>6, <2>6 DEF Laid
    <3> QED BY <1>7, <2>6, <3>1
  <2> HIDE DEF p
  <2>9. ASSUME e[p] < i PROVE FALSE
    <3>1. e[p] <= i - 1
      BY <1>0, <2>6, <2>9
    <3>2. off[e[p]] <= off[i - 1]
      BY <2>1, <2>3, <2>7, <3>1
    <3> QED BY <2>2, <2>7, <2>8, <3>2
  <2>10. ASSUME i < e[p] PROVE FALSE
    <3>1. i <= e[p] - 1
      BY <1>0, <2>6, <2>10
    <3>2. off[i] <= off[e[p] - 1]
      BY <2>1, <2>3, <2>7, <3>1
    <3> QED BY <2>2, <2>7, <3>2
  <2>11. e[p] = i
    <3>1. e[p] \in Nat /\ i \in Nat
      BY <1>0, <2>6
    <3> QED BY <2>9, <2>10, <3>1
  <2> QED BY <2>5, <2>11
<1>14. SomePlaces(e, os, w)
  BY <1>10, <1>11, <1>12, <1>13 DEF SomePlaces
<1> QED BY <1>5, <1>14 DEF w

-----------------------------------------------------------------------------
(* What messages are made of *)

Words  == (Kinds \cup {"user", "file", "result", "cancelled", "summary", "note"}) \X Nat
Spoken == {w \in Words : w[1] # "note"}

Marks  == {"reasoning", "bare", "opaque", "whole", "failed", "hosted", "broken hosted"} \X Nat

TextBlk   == [block : {"text"}, text : Seq(Spoken)]
ThinkBlk  == [block : {"thinking"}, text : Seq(Spoken), signature : Options(Marks)]
UseBlk    == [block : {"tool_use"}, id : Nat, name : {ToolName}, input : {"object", "null"}]
ResBlk    == [block : {"tool_result"}, id : Nat, text : Seq(Spoken), is_error : BOOLEAN]
ImageBlk  == [block : {"image"}, data : Nat]
AttBlk    == [block : {"attachment"}, data : Nat]
FileBlk   == [block : {"file"}, kind : {"text"}, media : {"other"}, data : {{}},
              body : {{<<<<"file", 0>>>>}}]
CustomBlk == [block : {"custom"}, type : {"web_search_call", "server_tool_use"}, data : Marks]

SpeechBlk == TextBlk \cup ImageBlk \cup AttBlk \cup FileBlk
AnswerBlk == TextBlk \cup ThinkBlk \cup UseBlk \cup CustomBlk
Blk       == SpeechBlk \cup AnswerBlk \cup ResBlk

SpeechMsg == [role : {"user"}, content : Seq(SpeechBlk)]
ResultMsg == [role : {"user"}, content : Seq(ResBlk)]
AnswerMsg == [role : {"assistant"}, content : Seq(AnswerBlk)]
NoteMsg   == {C!Note(t) : t \in {<<>>, <<<<"summary", 0>>>>}}
Spk       == SpeechMsg \cup ResultMsg \cup AnswerMsg

LEMMA BlockKinds ==
  ASSUME NEW b \in Blk
  PROVE  /\ IsToolUse(b) <=> b \in UseBlk
         /\ IsToolResult(b) <=> b \in ResBlk
         /\ b.block = "attachment" <=> b \in AttBlk
         /\ b.block = "text" <=> b \in TextBlk
         /\ IsThinking(b) <=> b \in ThinkBlk
BY DEF Blk, SpeechBlk, AnswerBlk, TextBlk, ThinkBlk, UseBlk, ResBlk, ImageBlk, AttBlk, FileBlk,
       CustomBlk, IsToolUse, IsToolResult, IsThinking

\* The texts of a block, and that none of them has the word of a note.
LEMMA BlockTexts ==
  ASSUME NEW b \in Blk
  PROVE  /\ AsText(b) \in Options(Seq(Words))
         /\ \A t \in AsText(b) : \A k \in 1 .. Len(t) : t[k] # <<"note", 0>>
<1>1. CASE b \in TextBlk
  <2>1. AsText(b) = {b.text} /\ b.text \in Seq(Spoken)
    BY <1>1 DEF TextBlk, AsText
  <2>2. b.text \in Seq(Words)
    BY <2>1, SeqMonotonic DEF Spoken
  <2> QED BY <2>1, <2>2 DEF Options, Spoken
<1>2. CASE b \in FileBlk
  <2>1. AsText(b) = {<<<<"file", 0>>>>}
    BY <1>2 DEF FileBlk, AsText
  <2>2. <<"file", 0>> \in Words /\ <<"file", 0>> # <<"note", 0>>
    BY DEF Words
  <2>3. <<<<"file", 0>>>> \in Seq(Words)
    BY <2>2
  <2>4. \A k \in 1 .. Len(<<<<"file", 0>>>>) : <<<<"file", 0>>>>[k] = <<"file", 0>>
    OBVIOUS
  <2> QED BY <2>1, <2>2, <2>3, <2>4 DEF Options
<1>3. CASE b \notin TextBlk /\ b \notin FileBlk
  <2>1. b.block # "text" /\ b.block # "file"
    BY <1>3 DEF Blk, SpeechBlk, AnswerBlk, TextBlk, ThinkBlk, UseBlk, ResBlk, ImageBlk, AttBlk,
                FileBlk, CustomBlk
  <2>2. AsText(b) = {}
    BY <2>1 DEF AsText
  <2> QED BY <2>2 DEF Options
<1> QED BY <1>1, <1>2, <1>3

\* The words of a text.
LEMMA TextWords ==
  ASSUME NEW m, NEW n \in Nat, DOMAIN m.content = 1 .. n,
         \A i \in 1 .. n : AsText(m.content[i]) \in Options(Seq(Words)), NEW x
  PROVE  Contains(TextContent(m), x)
           <=> \E i \in 1 .. n : \E t \in AsText(m.content[i]) : \E k \in 1 .. Len(t) : t[k] = x
<1> DEFINE os == [i \in 1 .. n |-> AsText(m.content[i])]
           w  == FilterMap(AsText, m.content)
<1>1. os \in Seq(Options(Seq(Words))) /\ Len(os) = n
  OBVIOUS
<1>2. w = Somes(os)
  <2>1. w = FlattenSeq([i \in DOMAIN m.content |->
              IF AsText(m.content[i]) = {} THEN <<>> ELSE <<CHOOSE y \in AsText(m.content[i]) : TRUE>>])
    BY DEF FilterMap, FlatMap
  <2>2. [i \in DOMAIN m.content |->
              IF AsText(m.content[i]) = {} THEN <<>> ELSE <<CHOOSE y \in AsText(m.content[i]) : TRUE>>]
          = [i \in DOMAIN os |-> IF os[i] = {} THEN <<>> ELSE <<CHOOSE y \in os[i] : TRUE>>]
    OBVIOUS
  <2> HIDE DEF w, os
  <2> QED BY <2>1, <2>2 DEF Somes
<1>3. \A i \in 1 .. n : os[i] = AsText(m.content[i])
  OBVIOUS
<1> HIDE DEF os, w
<1>4. w \in Seq(Seq(Words))
  BY <1>1, <1>2, SomesPlaces
<1>5. PICK e : SomePlaces(e, os, w)
  BY <1>1, <1>2, SomesPlaces
<1>6. Contains(TextContent(m), x) <=> \E p \in 1 .. Len(FlattenSeq(w)) : FlattenSeq(w)[p] = x
  BY DEF Contains, TextContent, w
<1>7. Contains(TextContent(m), x) <=> \E i \in 1 .. Len(w) : \E k \in 1 .. Len(w[i]) : w[i][k] = x
  <2>1. (\E p \in 1 .. Len(FlattenSeq(w)) : FlattenSeq(w)[p] = x)
          <=> \E i \in 1 .. Len(w) : \E k \in 1 .. Len(w[i]) : w[i][k] = x
    <3>1. HasElement(FlattenSeq(w), x) <=> \E i \in 1 .. Len(w) : HasElement(w[i], x)
      BY <1>4, FlattenElements
    <3> QED BY <3>1 DEF HasElement
  <2> QED BY <1>6, <2>1, Zenon
<1>8. ASSUME NEW i \in 1 .. Len(w), NEW k \in 1 .. Len(w[i]), w[i][k] = x
      PROVE  \E j \in 1 .. n : \E t \in AsText(m.content[j]) : \E l \in 1 .. Len(t) : t[l] = x
  <2>1. e[i] \in 1 .. n /\ w[i] \in AsText(m.content[e[i]])
    BY <1>1, <1>3, <1>5 DEF SomePlaces
  <2> QED BY <1>8, <2>1
<1>9. ASSUME NEW i \in 1 .. n, NEW t \in AsText(m.content[i]), NEW k \in 1 .. Len(t), t[k] = x
      PROVE  \E j \in 1 .. Len(w) : \E l \in 1 .. Len(w[j]) : w[j][l] = x
  <2>1. os[i] # {} /\ t \in os[i]
    BY <1>3
  <2>2. PICK j \in 1 .. Len(w) : e[j] = i
    BY <1>1, <1>5, <2>1 DEF SomePlaces
  <2>3. w[j] = t
    BY <1>5, <2>1, <2>2 DEF SomePlaces
  <2> QED BY <1>9, <2>3
<1> QED BY <1>7, <1>8, <1>9

LEMMA TextContentOfNotes ==
  ASSUME NEW m
  PROVE  C!TextContent(m) = TextContent(m)
BY DEF C!TextContent, TextContent, C!FilterMap, FilterMap, C!FlatMap, FlatMap, C!AsText, AsText,
       C!FlattenSeq, FlattenSeq

(* The calls of a message.                                                 *)
LEMMA ToolUsesPicked ==
  ASSUME NEW m, Len(m.content) \in Nat
  PROVE  ToolUses(m) = Picked(m.content, {i \in 1 .. Len(m.content) : IsToolUse(m.content[i])})
<1> DEFINE s == m.content
           K == {i \in 1 .. Len(s) : IsToolUse(s[i])}
           Is(g) == g = [i \in 0 .. Len(s) |-> IF i = 0 THEN <<>>
                        ELSE IF IsToolUse(s[i]) THEN Append(g[i - 1], s[i]) ELSE g[i - 1]]
           g == CHOOSE g : Is(g)
<1>1. ASSUME NEW h PROVE Is(h) <=> IsPick(h, s, K, Len(s))
  BY DEF IsPick
<1>2. ToolUses(m) = g[Len(s)]
  BY DEF ToolUses, Filter, SelectAt
<1> HIDE DEF Is, K
<1>3. IsPick(g, s, K, Len(s))
  BY <1>1, PickExists
<1> HIDE DEF g, s
<1>4. Picked(s, K) = g[Len(s)]
  BY <1>3, PickedIs DEF s
<1> QED BY <1>2, <1>4 DEF K, s

LEMMA NoToolUses ==
  ASSUME NEW S, NEW m, m.content \in Seq(S), ~ SomeIn(m.content, IsToolUse)
  PROVE  ToolUses(m) = <<>>
<1> DEFINE K == {i \in 1 .. Len(m.content) : IsToolUse(m.content[i])}
<1>1. K = {} /\ Len(m.content) \in Nat
  BY DEF SomeIn
<1>2. ToolUses(m) = Picked(m.content, K)
  BY <1>1, ToolUsesPicked
<1> HIDE DEF K
<1>3. PICK e : Places(e, m.content, K, Picked(m.content, K))
  BY PickedPlaces
<1>4. Picked(m.content, K) \in Seq(S)
  BY PickedPlaces
<1>5. Len(Picked(m.content, K)) = 0
  BY <1>1, <1>3, <1>4 DEF Places
<1> QED BY <1>2, <1>4, <1>5

LEMMA SpokenIsNoNote ==
  ASSUME NEW m \in Spk
  PROVE  ~ C!IsNote(m)
<1>1. m.content \in Seq(Blk)
  <2>1. SpeechBlk \subseteq Blk /\ AnswerBlk \subseteq Blk /\ ResBlk \subseteq Blk
    BY DEF Blk
  <2>2. m.content \in Seq(SpeechBlk) \/ m.content \in Seq(AnswerBlk) \/ m.content \in Seq(ResBlk)
    BY DEF Spk, SpeechMsg, ResultMsg, AnswerMsg
  <2> QED BY <2>1, <2>2, SeqMonotonic
<1>2. PICK n \in Nat : DOMAIN m.content = 1 .. n /\ \A i \in 1 .. n : m.content[i] \in Blk
  BY <1>1
<1>3. ~ Contains(TextContent(m), <<"note", 0>>)
  BY <1>2, BlockTexts, TextWords
<1> QED BY <1>3, TextContentOfNotes DEF C!IsNote, C!Contains, Contains

LEMMA NoteIsNote ==
  ASSUME NEW m \in NoteMsg
  PROVE  /\ C!IsNote(m) /\ m.role = "assistant"
         /\ m.content \in Seq([block : {"text"}, text : Seq(Words)]) /\ Len(m.content) = 1
         /\ ToolUses(m) = <<>>
         /\ ~ SomeIn(m.content, IsToolUse) /\ ~ SomeIn(m.content, IsToolResult)
<1>1. PICK u \in {<<>>, <<<<"summary", 0>>>>} : m = C!Note(u)
  BY DEF NoteMsg
<1> DEFINE t == <<<<"note", 0>>>> \o u
<1>2. m = [role |-> "assistant", content |-> <<[block |-> "text", text |-> t]>>]
  BY <1>1 DEF C!Note, C!SystemText, C!AssistantText, C!Text
<1>3. t \in Seq(Words) /\ t[1] = <<"note", 0>> /\ 1 \in 1 .. Len(t)
  <2>1. <<"note", 0>> \in Words /\ <<"summary", 0>> \in Words
    BY DEF Words
  <2>2. CASE u = <<>>
    BY <2>1, <2>2
  <2>3. CASE u = <<<<"summary", 0>>>>
    BY <2>1, <2>3
  <2> QED BY <2>2, <2>3
<1> DEFINE b == [block |-> "text", text |-> t]
<1>4. b \in [block : {"text"}, text : Seq(Words)] /\ AsText(b) = {t} /\ b.block = "text"
  BY <1>3 DEF AsText
<1> HIDE DEF t, b
<1>5. /\ m.role = "assistant" /\ m.content = <<b>> /\ Len(m.content) = 1
      /\ DOMAIN m.content = 1 .. 1 /\ m.content[1] = b
  BY <1>2 DEF b
<1>6. m.content \in Seq([block : {"text"}, text : Seq(Words)])
  BY <1>4, <1>5
<1>7. AsText(b) \in Options(Seq(Words))
  BY <1>3, <1>4 DEF Options
<1>8. Contains(TextContent(m), <<"note", 0>>)
  <2>1. \A i \in 1 .. 1 : AsText(m.content[i]) \in Options(Seq(Words))
    BY <1>5, <1>7
  <2>2. \E i \in 1 .. 1 : \E s \in AsText(m.content[i]) : \E k \in 1 .. Len(s) : s[k] = <<"note", 0>>
    BY <1>3, <1>4, <1>5
  <2> QED BY <1>5, <2>1, <2>2, TextWords
<1>9. C!IsNote(m)
  BY <1>8, TextContentOfNotes DEF C!IsNote, C!Contains, Contains
<1>10. ~ IsToolUse(b) /\ ~ IsToolResult(b)
  BY <1>4 DEF IsToolUse, IsToolResult
<1>11. ~ SomeIn(m.content, IsToolUse) /\ ~ SomeIn(m.content, IsToolResult)
  BY <1>5, <1>10 DEF SomeIn
<1>12. ToolUses(m) = <<>>
  BY <1>11, NoToolUses, <1>6
<1> QED BY <1>5, <1>6, <1>9, <1>11, <1>12

(* A set of numbers is counted upwards in one way only.                    *)
Ascending(e, m) == e \in [1 .. m -> Nat] /\ \A j, k \in 1 .. m : j < k => e[j] < e[k]
Within(e, m, f, n) == \A j \in 1 .. m : \E k \in 1 .. n : f[k] = e[j]

LEMMA OneCount ==
  ASSUME NEW m \in Nat, NEW n \in Nat, NEW e, NEW f,
         Ascending(e, m), Ascending(f, n), Within(e, m, f, n), Within(f, n, e, m)
  PROVE  m = n /\ e = f
<1>a. \A j \in 1 .. m : e[j] \in Nat
  BY DEF Ascending
<1>b. \A j \in 1 .. n : f[j] \in Nat
  BY DEF Ascending
<1>c. ASSUME NEW j \in 1 .. m, NEW k \in 1 .. m, j < k PROVE e[j] < e[k]
  BY <1>c DEF Ascending
<1>d. ASSUME NEW j \in 1 .. n, NEW k \in 1 .. n, j < k PROVE f[j] < f[k]
  BY <1>d DEF Ascending
<1> DEFINE T == {k \in Nat : \A j \in 1 .. k : j <= m /\ j <= n => e[j] = f[j]}
<1>1. 0 \in T
  OBVIOUS
<1>2. ASSUME NEW k \in T PROVE k + 1 \in T
  <2>0. k \in Nat /\ \A j \in 1 .. k : j <= m /\ j <= n => e[j] = f[j]
    OBVIOUS
  <2> HIDE DEF T
  <2>1. ASSUME k + 1 <= m, k + 1 <= n PROVE e[k + 1] = f[k + 1]
    <3>1. \A j \in 1 .. k : e[j] = f[j] /\ j \in 1 .. m /\ j \in 1 .. n
      BY <2>0, <2>1
    <3>2. k + 1 \in 1 .. m /\ k + 1 \in 1 .. n
      BY <2>0, <2>1
    <3>3. PICK a \in 1 .. n : f[a] = e[k + 1]
      BY <3>2 DEF Within
    <3>4. PICK b \in 1 .. m : e[b] = f[k + 1]
      BY <3>2 DEF Within
    <3>5. a >= k + 1
      <4>1. ASSUME a <= k PROVE FALSE
        <5>1. e[a] = f[a] /\ a \in 1 .. m /\ a < k + 1
          BY <2>0, <3>1, <4>1
        <5>2. e[a] < e[k + 1]
          BY <1>c, <3>2, <5>1
        <5>3. e[a] \in Nat
          BY <1>a, <5>1
        <5> QED BY <3>3, <5>1, <5>2, <5>3
      <4> QED BY <2>0, <4>1
    <3>6. b >= k + 1
      <4>1. ASSUME b <= k PROVE FALSE
        <5>1. e[b] = f[b] /\ b \in 1 .. n /\ b < k + 1
          BY <2>0, <3>1, <4>1
        <5>2. f[b] < f[k + 1]
          BY <1>d, <3>2, <5>1
        <5>3. f[b] \in Nat
          BY <1>b, <5>1
        <5> QED BY <3>4, <5>1, <5>2, <5>3
      <4> QED BY <2>0, <4>1
    <3>7. f[k + 1] <= f[a] /\ f[a] \in Nat /\ f[k + 1] \in Nat
      <4>1. f[a] \in Nat /\ f[k + 1] \in Nat
        BY <1>b, <3>2
      <4>2. CASE a = k + 1
        BY <4>1, <4>2
      <4>3. CASE k + 1 < a
        <5>1. f[k + 1] < f[a]
          BY <1>d, <3>2, <4>3
        <5> QED BY <4>1, <5>1
      <4> QED BY <2>0, <3>5, <4>2, <4>3
    <3>8. e[k + 1] <= e[b] /\ e[b] \in Nat /\ e[k + 1] \in Nat
      <4>1. e[b] \in Nat /\ e[k + 1] \in Nat
        BY <1>a, <3>2
      <4>2. CASE b = k + 1
        BY <4>1, <4>2
      <4>3. CASE k + 1 < b
        <5>1. e[k + 1] < e[b]
          BY <1>c, <3>2, <4>3
        <5> QED BY <4>1, <5>1
      <4> QED BY <2>0, <3>6, <4>2, <4>3
    <3> QED BY <3>3, <3>4, <3>7, <3>8
  <2>2. \A j \in 1 .. k + 1 : j \in 1 .. k \/ j = k + 1
    BY <2>0
  <2>3. \A j \in 1 .. k + 1 : j <= m /\ j <= n => e[j] = f[j]
    BY <2>0, <2>1, <2>2
  <2> QED BY <2>0, <2>3 DEF T
<1>3. T = Nat
  <2> HIDE DEF T
  <2> QED BY <1>1, <1>2, InductionOnNat DEF T
<1>4. ASSUME NEW j \in Nat, j >= 1, j <= m, j <= n PROVE e[j] = f[j]
  <2>1. j \in T
    <3> HIDE DEF T
    <3> QED BY <1>3
  <2>2. j \in 1 .. j
    BY <1>4
  <2> QED BY <1>4, <2>1, <2>2
<1>5. ASSUME m < n PROVE FALSE
  <2>1. m + 1 \in 1 .. n
    BY <1>5
  <2>2. PICK j \in 1 .. m : e[j] = f[m + 1]
    BY <2>1 DEF Within
  <2>3. e[j] = f[j] /\ j \in 1 .. n /\ j < m + 1
    BY <1>4, <1>5
  <2>4. f[j] < f[m + 1] /\ f[j] \in Nat
    BY <1>b, <1>d, <2>1, <2>3
  <2> QED BY <2>2, <2>3, <2>4
<1>6. ASSUME n < m PROVE FALSE
  <2>1. n + 1 \in 1 .. m
    BY <1>6
  <2>2. PICK j \in 1 .. n : f[j] = e[n + 1]
    BY <2>1 DEF Within
  <2>3. e[j] = f[j] /\ j \in 1 .. m /\ j < n + 1
    BY <1>4, <1>6
  <2>4. e[j] < e[n + 1] /\ e[j] \in Nat
    BY <1>a, <1>c, <2>1, <2>3
  <2> QED BY <2>2, <2>3, <2>4
<1>7. m = n
  BY <1>5, <1>6
<1>8. \A j \in 1 .. m : e[j] = f[j]
  BY <1>4, <1>7
<1> QED BY <1>7, <1>8 DEF Ascending

LEMMA SomesUnique ==
  ASSUME NEW T, NEW os \in Seq(Options(T)), NEW w \in Seq(T), NEW e, SomePlaces(e, os, w)
  PROVE  w = Somes(os)
<1> DEFINE v == Somes(os)
<1>1. v \in Seq(T)
  BY SomesPlaces
<1>2. PICK f : SomePlaces(f, os, v)
  BY SomesPlaces
<1> HIDE DEF v
<1>3. Len(w) \in Nat /\ Len(v) \in Nat /\ Len(os) \in Nat
  BY <1>1
<1>4. e \in [1 .. Len(w) -> Nat] /\ f \in [1 .. Len(v) -> Nat]
  BY <1>2, <1>3 DEF SomePlaces
<1>5. Within(e, Len(w), f, Len(v))
  <2> SUFFICES ASSUME NEW j \in 1 .. Len(w) PROVE \E k \in 1 .. Len(v) : f[k] = e[j]
    BY DEF Within
  <2>1. e[j] \in 1 .. Len(os) /\ os[e[j]] # {}
    BY DEF SomePlaces
  <2> QED BY <1>2, <2>1 DEF SomePlaces
<1>6. Within(f, Len(v), e, Len(w))
  <2> SUFFICES ASSUME NEW k \in 1 .. Len(v) PROVE \E j \in 1 .. Len(w) : e[j] = f[k]
    BY DEF Within
  <2>1. f[k] \in 1 .. Len(os) /\ os[f[k]] # {}
    BY <1>2 DEF SomePlaces
  <2> QED BY <2>1 DEF SomePlaces
<1>7. Ascending(e, Len(w)) /\ Ascending(f, Len(v))
  BY <1>2, <1>4 DEF SomePlaces, Ascending
<1>8. Len(w) = Len(v) /\ e = f
  BY <1>3, <1>5, <1>6, <1>7, OneCount
<1>9. \A k \in 1 .. Len(w) : w[k] = v[k]
  <2> SUFFICES ASSUME NEW k \in 1 .. Len(w) PROVE w[k] = v[k]
    OBVIOUS
  <2>1. os[e[k]] = {w[k]} /\ os[e[k]] = {v[k]}
    BY <1>2, <1>8 DEF SomePlaces
  <2> QED BY <2>1
<1>10. w = v
  BY <1>1, <1>8, <1>9, SeqEqual
<1> QED BY <1>10 DEF v

(* What two FilterMaps make of a sequence, one after the other.            *)
InTurn(os, gs, hs) ==
  /\ Len(hs) = Len(os) /\ Len(gs) = Len(Somes(os))
  /\ \A i \in 1 .. Len(os) : os[i] = {} => hs[i] = {}
  /\ \A i \in 1 .. Len(os), k \in 1 .. Len(gs) : os[i] = {Somes(os)[k]} => hs[i] = gs[k]

LEMMA SomesOfSomes ==
  ASSUME NEW T, NEW U, NEW os \in Seq(Options(T)), NEW gs \in Seq(Options(U)),
         NEW hs \in Seq(Options(U)), InTurn(os, gs, hs)
  PROVE  Somes(gs) = Somes(hs)
<1> DEFINE v == Somes(os)
           w == Somes(gs)
<1>1. v \in Seq(T) /\ w \in Seq(U)
  BY SomesPlaces
<1>2. PICK e : SomePlaces(e, os, v)
  BY SomesPlaces
<1>3. PICK f : SomePlaces(f, gs, w)
  BY SomesPlaces
<1>4. /\ Len(gs) = Len(v)
      /\ \A i \in 1 .. Len(os) : os[i] = {} => hs[i] = {}
      /\ \A i \in 1 .. Len(os), k \in 1 .. Len(gs) : os[i] = {v[k]} => hs[i] = gs[k]
      /\ Len(hs) = Len(os)
  BY DEF InTurn
<1> HIDE DEF v, w
<1> DEFINE h == [k \in 1 .. Len(w) |-> e[f[k]]]
<1>5. Len(v) \in Nat /\ Len(w) \in Nat /\ Len(os) \in Nat
  BY <1>1
<1>6. \A k \in 1 .. Len(w) : f[k] \in 1 .. Len(v) /\ gs[f[k]] = {w[k]}
  BY <1>3, <1>4 DEF SomePlaces
<1>7. \A k \in 1 .. Len(v) : e[k] \in 1 .. Len(os) /\ os[e[k]] = {v[k]}
  BY <1>2 DEF SomePlaces
<1>8. \A k \in 1 .. Len(w) : h[k] \in 1 .. Len(hs) /\ hs[h[k]] = {w[k]}
  BY <1>4, <1>6, <1>7
<1>9. h \in [1 .. Len(w) -> 1 .. Len(hs)]
  BY <1>4, <1>6, <1>7
<1>10. \A j, k \in 1 .. Len(w) : j < k => h[j] < h[k]
  <2> SUFFICES ASSUME NEW j \in 1 .. Len(w), NEW k \in 1 .. Len(w), j < k PROVE h[j] < h[k]
    OBVIOUS
  <2>1. f[j] < f[k]
    BY <1>3 DEF SomePlaces
  <2>2. e[f[j]] < e[f[k]]
    BY <1>2, <1>6, <2>1 DEF SomePlaces
  <2> QED BY <2>2
<1>11. \A i \in 1 .. Len(hs) : hs[i] # {} => \E k \in 1 .. Len(w) : h[k] = i
  <2> SUFFICES ASSUME NEW i \in 1 .. Len(hs), hs[i] # {} PROVE \E k \in 1 .. Len(w) : h[k] = i
    OBVIOUS
  <2>1. os[i] # {} /\ i \in 1 .. Len(os)
    BY <1>4
  <2>2. PICK k \in 1 .. Len(v) : e[k] = i
    BY <1>2, <2>1 DEF SomePlaces
  <2>3. hs[i] = gs[k]
    BY <1>4, <1>7, <2>2
  <2>4. PICK l \in 1 .. Len(w) : f[l] = k
    BY <1>3, <1>4, <2>3 DEF SomePlaces
  <2> QED BY <2>2, <2>4
<1> HIDE DEF h
<1>12. SomePlaces(h, hs, w)
  BY <1>8, <1>9, <1>10, <1>11 DEF SomePlaces
<1> QED BY <1>1, <1>12, SomesUnique DEF w

(* What the pieces of an answer become. *)
PieceSeq(ps, n) == DOMAIN ps = 1 .. n /\ \A i \in 1 .. n : ps[i].kind \in Kinds /\ ps[i].n \in Nat

LEMMA OptionsAre ==
  ASSUME NEW n \in Nat, NEW os, os = [i \in 1 .. n |-> os[i]],
         \A i \in 1 .. n : \A x, y \in os[i] : x = y
  PROVE  os \in Seq(Options(UNION {os[i] : i \in 1 .. n})) /\ Len(os) = n
<1> DEFINE T == UNION {os[i] : i \in 1 .. n}
<1>1. \A i \in 1 .. n : os[i] \in Options(T)
  BY DEF Options
<1> HIDE DEF T
<1>2. os \in [1 .. n -> Options(T)]
  BY <1>1
<1>3. os \in Seq(Options(T)) /\ Len(os) = n
  BY <1>2
<1> QED BY <1>3 DEF T

AnthropicBlock(p) ==
  CASE p.kind = "think"        -> {Thinking(Word(p), {<<"opaque", p.n>>})}
    [] p.kind = "silent think" -> {Thinking(Empty, {})}
    [] p.kind = "text"         -> {Text(Word(p))}
    [] p.kind \in {"hosted", "broken hosted"} -> {Custom("server_tool_use", <<p.kind, p.n>>)}
    [] IsCall(p)               -> {ToolUse(p.n, ToolName, "object")}

ResponsesBlock(p, mode) ==
  CASE p.kind = "think" -> IF mode = "drop" THEN {}
                           ELSE {Thinking(Word(p), IF mode = "encrypted" THEN {<<"reasoning", p.n>>} ELSE {})}
    [] p.kind = "silent think" -> IF mode \in {"drop", "summary"} THEN {}
                           ELSE {Thinking(Empty, IF mode = "encrypted" THEN {<<"bare", p.n>>} ELSE {})}
    [] p.kind = "text"   -> {Text(Word(p))}
    [] p.kind = "hosted" -> {Custom("web_search_call", <<"whole", p.n>>)}
    [] p.kind = "broken hosted" -> {Custom("web_search_call", <<"failed", p.n>>)}
    [] IsCall(p)         -> {ToolUse(p.n, ToolName, Arguments(p))}

LEMMA AnthropicPiece ==
  ASSUME NEW p, p.kind \in Kinds
  PROVE  \E x : AnthropicContent(p) = {x} /\ Anthropic!ParsedContent(x) = AnthropicBlock(p)
<1>1. CASE p.kind = "think"
  <2> DEFINE x == [type |-> "thinking", text |-> Word(p), signature |-> {<<"opaque", p.n>>}]
  <2>1. AnthropicContent(p) = {x}
    BY <1>1 DEF AnthropicContent, IsCall, Calls
  <2>2. Anthropic!ParsedContent(x) = {Anthropic!Thinking(x.text, x.signature)}
    BY DEF Anthropic!ParsedContent, Anthropic!HostedContentTypes
  <2>3. AnthropicBlock(p) = {Thinking(Word(p), {<<"opaque", p.n>>})}
    BY <1>1 DEF AnthropicBlock, IsCall, Calls
  <2> QED BY <2>1, <2>2, <2>3 DEF Anthropic!Thinking, Thinking
<1>2. CASE p.kind = "silent think"
  <2> DEFINE x == [type |-> "thinking", text |-> Empty, signature |-> {}]
  <2>1. AnthropicContent(p) = {x}
    BY <1>2 DEF AnthropicContent, IsCall, Calls
  <2>2. Anthropic!ParsedContent(x) = {Anthropic!Thinking(x.text, x.signature)}
    BY DEF Anthropic!ParsedContent, Anthropic!HostedContentTypes
  <2>3. AnthropicBlock(p) = {Thinking(Empty, {})}
    BY <1>2 DEF AnthropicBlock, IsCall, Calls
  <2> QED BY <2>1, <2>2, <2>3 DEF Anthropic!Thinking, Thinking
<1>3. CASE p.kind = "text"
  <2> DEFINE x == Anthropic!ContentText(Word(p))
  <2>1. AnthropicContent(p) = {x}
    BY <1>3 DEF AnthropicContent, IsCall, Calls
  <2>2. x.type = "text" /\ x.text = Word(p)
    BY DEF Anthropic!ContentText
  <2> HIDE DEF x
  <2>3. Anthropic!ParsedContent(x) = {Anthropic!Text(x.text)}
    BY <2>2 DEF Anthropic!ParsedContent, Anthropic!HostedContentTypes
  <2>4. AnthropicBlock(p) = {Text(Word(p))}
    BY <1>3 DEF AnthropicBlock, IsCall, Calls
  <2> QED BY <2>1, <2>2, <2>3, <2>4 DEF Anthropic!Text, Text
<1>4. CASE p.kind \in {"hosted", "broken hosted"}
  <2> DEFINE x == Anthropic!ContentData("server_tool_use", <<p.kind, p.n>>)
  <2>1. AnthropicContent(p) = {x}
    BY <1>4 DEF AnthropicContent, IsCall, Calls
  <2>2. x.type = "server_tool_use" /\ x.data = <<p.kind, p.n>>
    BY DEF Anthropic!ContentData
  <2> HIDE DEF x
  <2>3. Anthropic!ParsedContent(x) = {Anthropic!Custom(x.type, x.data)}
    BY <2>2 DEF Anthropic!ParsedContent, Anthropic!HostedContentTypes
  <2>4. AnthropicBlock(p) = {Custom("server_tool_use", <<p.kind, p.n>>)}
    BY <1>4 DEF AnthropicBlock, IsCall, Calls
  <2> QED BY <2>1, <2>2, <2>3, <2>4 DEF Anthropic!Custom, Custom
<1>5. CASE IsCall(p)
  <2> DEFINE x == [type |-> "tool_use", id |-> p.n, name |-> ToolName, input |-> "object"]
  <2>0. p.kind \in {"call", "cut call"}
    BY <1>5 DEF IsCall, Calls
  <2>1. AnthropicContent(p) = {x}
    BY <1>5, <2>0 DEF AnthropicContent, IsCall, Calls
  <2>2. Anthropic!ParsedContent(x) = {Anthropic!ToolUse(x.id, x.name, x.input)}
    BY DEF Anthropic!ParsedContent, Anthropic!HostedContentTypes
  <2>3. AnthropicBlock(p) = {ToolUse(p.n, ToolName, "object")}
    BY <1>5, <2>0 DEF AnthropicBlock, IsCall, Calls
  <2> QED BY <2>1, <2>2, <2>3 DEF Anthropic!ToolUse, ToolUse
<1> QED BY <1>1, <1>2, <1>3, <1>4, <1>5 DEF Kinds, IsCall, Calls

LEMMA ResponsesPiece ==
  ASSUME NEW p, p.kind \in Kinds, NEW mode \in Responses!ReasoningMode
  PROVE  \E x : ResponsesOutput(p) = {x} /\ Responses!ParsedItem(x, mode) = ResponsesBlock(p, mode)
<1>0. mode \in {"drop", "encrypted", "plaintext", "summary"}
  BY DEF Responses!ReasoningMode
<1>1. CASE p.kind = "think"
  <2> DEFINE x == Responses!OutputReasoning({<<"reasoning", p.n>>}, Word(p), Word(p))
  <2>1. ResponsesOutput(p) = {x}
    BY <1>1 DEF ResponsesOutput, IsCall, Calls
  <2>2. x.type = "reasoning" /\ x.encrypted = {<<"reasoning", p.n>>} /\ x.summary = Word(p) /\ x.text = Word(p)
    BY DEF Responses!OutputReasoning
  <2> HIDE DEF x
  <2>3. Responses!ParsedItem(x, mode) = Responses!ParsedReasoning(x, mode)
    BY <2>2 DEF Responses!ParsedItem, Responses!HostedWebTypes
  <2>4. Word(p) # <<>>
    BY DEF Word
  <2>5. ResponsesBlock(p, mode) = IF mode = "drop" THEN {}
                           ELSE {Thinking(Word(p), IF mode = "encrypted" THEN {<<"reasoning", p.n>>} ELSE {})}
    BY <1>1 DEF ResponsesBlock, IsCall, Calls
  <2>6. Responses!ParsedReasoning(x, mode) = ResponsesBlock(p, mode)
    <3>1. CASE mode = "encrypted"
      <4>1. Responses!ParsedReasoning(x, mode) = {Responses!Thinking(Word(p), {w}) : w \in {<<"reasoning", p.n>>}}
        BY <2>2, <3>1 DEF Responses!ParsedReasoning
      <4> QED BY <2>5, <3>1, <4>1 DEF Responses!Thinking, Thinking
    <3>2. CASE mode = "plaintext"
      BY <2>2, <2>5, <3>2 DEF Responses!ParsedReasoning, Responses!Thinking, Thinking
    <3>3. CASE mode = "summary"
      BY <2>2, <2>4, <2>5, <3>3 DEF Responses!ParsedReasoning, Responses!Thinking, Thinking
    <3>4. CASE mode = "drop"
      BY <2>5, <3>4 DEF Responses!ParsedReasoning
    <3> QED BY <1>0, <3>1, <3>2, <3>3, <3>4
  <2> QED BY <2>1, <2>3, <2>6
<1>2. CASE p.kind = "silent think"
  <2> DEFINE x == Responses!OutputReasoning({<<"bare", p.n>>}, Empty, Empty)
  <2>1. ResponsesOutput(p) = {x}
    BY <1>2 DEF ResponsesOutput, IsCall, Calls
  <2>2. x.type = "reasoning" /\ x.encrypted = {<<"bare", p.n>>} /\ x.summary = <<>> /\ x.text = <<>>
    BY DEF Responses!OutputReasoning, Empty
  <2> HIDE DEF x
  <2>3. Responses!ParsedItem(x, mode) = Responses!ParsedReasoning(x, mode)
    BY <2>2 DEF Responses!ParsedItem, Responses!HostedWebTypes
  <2>5. ResponsesBlock(p, mode) = IF mode \in {"drop", "summary"} THEN {}
                           ELSE {Thinking(Empty, IF mode = "encrypted" THEN {<<"bare", p.n>>} ELSE {})}
    BY <1>2 DEF ResponsesBlock, IsCall, Calls
  <2>6. Responses!ParsedReasoning(x, mode) = ResponsesBlock(p, mode)
    <3>1. CASE mode = "encrypted"
      <4>1. Responses!ParsedReasoning(x, mode) = {Responses!Thinking(<<>>, {w}) : w \in {<<"bare", p.n>>}}
        BY <2>2, <3>1 DEF Responses!ParsedReasoning
      <4> QED BY <2>5, <3>1, <4>1 DEF Responses!Thinking, Thinking, Empty
    <3>2. CASE mode = "plaintext"
      BY <2>2, <2>5, <3>2 DEF Responses!ParsedReasoning, Responses!Thinking, Thinking, Empty
    <3>3. CASE mode = "summary"
      BY <2>2, <2>5, <3>3 DEF Responses!ParsedReasoning
    <3>4. CASE mode = "drop"
      BY <2>5, <3>4 DEF Responses!ParsedReasoning
    <3> QED BY <1>0, <3>1, <3>2, <3>3, <3>4
  <2> QED BY <2>1, <2>3, <2>6
<1>3. CASE p.kind = "text"
  <2> DEFINE x == [type |-> "message", text |-> Word(p)]
  <2>1. ResponsesOutput(p) = {x}
    BY <1>3 DEF ResponsesOutput, IsCall, Calls
  <2>2. x.type = "message" /\ x.text = Word(p) /\ Word(p) # <<>>
    BY DEF Word
  <2> HIDE DEF x
  <2>3. Responses!ParsedItem(x, mode) = {Responses!Text(x.text)}
    BY <2>2 DEF Responses!ParsedItem, Responses!HostedWebTypes
  <2>4. ResponsesBlock(p, mode) = {Text(Word(p))}
    BY <1>3 DEF ResponsesBlock, IsCall, Calls
  <2> QED BY <2>1, <2>2, <2>3, <2>4 DEF Responses!Text, Text
<1>4. CASE p.kind = "hosted" \/ p.kind = "broken hosted"
  <2> DEFINE d == IF p.kind = "hosted" THEN "whole" ELSE "failed"
             x == Responses!HostedItem("web_search_call", <<d, p.n>>)
  <2>1. ResponsesOutput(p) = {x}
    BY <1>4 DEF ResponsesOutput, IsCall, Calls
  <2>2. x.type = "web_search_call" /\ x.data = <<d, p.n>>
    BY DEF Responses!HostedItem
  <2> HIDE DEF x
  <2>3. Responses!ParsedItem(x, mode) = {Responses!Custom(x.type, x.data)}
    BY <2>2 DEF Responses!ParsedItem, Responses!HostedWebTypes
  <2>4. ResponsesBlock(p, mode) = {Custom("web_search_call", <<d, p.n>>)}
    BY <1>4 DEF ResponsesBlock, IsCall, Calls
  <2> QED BY <2>1, <2>2, <2>3, <2>4 DEF Responses!Custom, Custom
<1>5. CASE IsCall(p)
  <2> DEFINE x == Responses!FunctionCall(p.n, ToolName, Args(p))
  <2>0. p.kind \in {"call", "cut call"}
    BY <1>5 DEF IsCall, Calls
  <2>1. ResponsesOutput(p) = {x}
    BY <1>5, <2>0 DEF ResponsesOutput, IsCall, Calls
  <2>2. x.type = "function_call" /\ x.id = p.n /\ x.name = ToolName /\ x.arguments = Args(p)
    BY DEF Responses!FunctionCall
  <2> HIDE DEF x
  <2>3. Responses!ParsedItem(x, mode) = {Responses!ToolUse(x.id, x.name, Responses!ParseArguments(x.arguments))}
    BY <2>2 DEF Responses!ParsedItem, Responses!HostedWebTypes
  <2>4. ResponsesBlock(p, mode) = {ToolUse(p.n, ToolName, Arguments(p))}
    BY <1>5, <2>0 DEF ResponsesBlock, IsCall, Calls
  <2>5. Responses!ParseArguments(Args(p)) = Arguments(p)
    BY DEF Responses!ParseArguments, Arguments, Args
  <2> QED BY <2>1, <2>2, <2>3, <2>4, <2>5 DEF Responses!ToolUse, ToolUse
<1> QED BY <1>1, <1>2, <1>3, <1>4, <1>5 DEF Kinds, IsCall, Calls

LEMMA AnthropicParsed ==
  ASSUME NEW n \in Nat, NEW ps, PieceSeq(ps, n)
  PROVE  Anthropic!ParseAnthropicResponse(AnthropicResponse(ps)).content
           = Somes([i \in 1 .. n |-> AnthropicBlock(ps[i])])
<1> DEFINE os == [i \in 1 .. n |-> AnthropicContent(ps[i])]
           T  == UNION {os[i] : i \in 1 .. n}
           v  == FilterMap(AnthropicContent, ps)
           gs == [k \in 1 .. Len(v) |-> Anthropic!ParsedContent(v[k])]
           hs == [i \in 1 .. n |-> AnthropicBlock(ps[i])]
           U  == UNION {hs[i] : i \in 1 .. n}
<1>1. \A i \in 1 .. n : /\ os[i] # {} /\ \A x, y \in os[i] : x = y
                        /\ \A x \in os[i] : Anthropic!ParsedContent(x) = hs[i]
  <2> SUFFICES ASSUME NEW i \in 1 .. n
               PROVE  /\ os[i] # {} /\ \A x, y \in os[i] : x = y
                      /\ \A x \in os[i] : Anthropic!ParsedContent(x) = hs[i]
    OBVIOUS
  <2>1. ps[i].kind \in Kinds
    BY DEF PieceSeq
  <2>2. PICK x : AnthropicContent(ps[i]) = {x} /\ Anthropic!ParsedContent(x) = AnthropicBlock(ps[i])
    BY <2>1, AnthropicPiece
  <2>3. os[i] = AnthropicContent(ps[i]) /\ hs[i] = AnthropicBlock(ps[i])
    OBVIOUS
  <2> HIDE DEF os, hs
  <2> QED BY <2>2, <2>3
<1>2. \A i \in 1 .. n : \A x, y \in hs[i] : x = y
  <2> SUFFICES ASSUME NEW i \in 1 .. n PROVE \A x, y \in hs[i] : x = y
    OBVIOUS
  <2>1. ps[i].kind \in Kinds /\ hs[i] = AnthropicBlock(ps[i])
    BY DEF PieceSeq
  <2> HIDE DEF hs
  <2>2. \A x, y \in AnthropicBlock(ps[i]) : x = y
    BY <2>1 DEF AnthropicBlock, Kinds, IsCall, Calls
  <2> QED BY <2>1, <2>2
<1>3. v = Somes(os)
  <2>1. v = FlattenSeq([i \in DOMAIN ps |->
              IF AnthropicContent(ps[i]) = {} THEN <<>> ELSE <<CHOOSE y \in AnthropicContent(ps[i]) : TRUE>>])
    BY DEF FilterMap, FlatMap
  <2>2. [i \in DOMAIN ps |->
              IF AnthropicContent(ps[i]) = {} THEN <<>> ELSE <<CHOOSE y \in AnthropicContent(ps[i]) : TRUE>>]
          = [i \in DOMAIN os |-> IF os[i] = {} THEN <<>> ELSE <<CHOOSE y \in os[i] : TRUE>>]
    BY DEF PieceSeq
  <2> HIDE DEF v, os
  <2> QED BY <2>1, <2>2 DEF Somes
<1>4. os \in Seq(Options(T)) /\ Len(os) = n
  <2>1. os = [i \in 1 .. n |-> os[i]]
    OBVIOUS
  <2> HIDE DEF os
  <2> QED BY <1>1, <2>1, OptionsAre
<1>5. hs \in Seq(Options(U)) /\ Len(hs) = n
  <2>1. hs = [i \in 1 .. n |-> hs[i]]
    OBVIOUS
  <2> HIDE DEF hs
  <2> QED BY <1>2, <2>1, OptionsAre
<1> HIDE DEF os, hs, v, T, U
<1>6. v \in Seq(T) /\ Len(v) \in Nat /\ DOMAIN v = 1 .. Len(v)
  BY <1>3, <1>4, SomesPlaces
<1>7. PICK e : SomePlaces(e, os, v)
  BY <1>3, <1>4, SomesPlaces
<1>8. \A k \in 1 .. Len(v) : e[k] \in 1 .. n /\ os[e[k]] = {v[k]}
  BY <1>4, <1>7 DEF SomePlaces
<1>9. \A i \in 1 .. n, k \in 1 .. Len(v) : os[i] = {v[k]} => hs[i] = gs[k]
  BY <1>1
<1>10. \A k \in 1 .. Len(v) : gs[k] = hs[e[k]]
  BY <1>1, <1>8
<1>11. gs \in Seq(Options(U)) /\ Len(gs) = Len(v)
  <2>1. \A k \in 1 .. Len(v) : gs[k] \in Options(U)
    BY <1>5, <1>8, <1>10
  <2>2. gs = [k \in 1 .. Len(v) |-> gs[k]]
    OBVIOUS
  <2> HIDE DEF gs
  <2>3. gs \in [1 .. Len(v) -> Options(U)]
    BY <2>1, <2>2
  <2> QED BY <1>6, <2>3
<1>12. Anthropic!ParseAnthropicResponse(AnthropicResponse(ps)).content
         = FlattenSeq([k \in DOMAIN v |->
              IF Anthropic!ParsedContent(v[k]) = {} THEN <<>>
              ELSE <<CHOOSE y \in Anthropic!ParsedContent(v[k]) : TRUE>>])
  BY DEF Anthropic!ParseAnthropicResponse, AnthropicResponse, Anthropic!FilterMap, Anthropic!FlatMap,
         Anthropic!FlattenSeq, FlattenSeq, v
<1>13. [k \in DOMAIN v |->
              IF Anthropic!ParsedContent(v[k]) = {} THEN <<>>
              ELSE <<CHOOSE y \in Anthropic!ParsedContent(v[k]) : TRUE>>]
         = [k \in DOMAIN gs |-> IF gs[k] = {} THEN <<>> ELSE <<CHOOSE y \in gs[k] : TRUE>>]
  BY <1>6
<1> HIDE DEF gs
<1>14. Anthropic!ParseAnthropicResponse(AnthropicResponse(ps)).content = Somes(gs)
  BY <1>12, <1>13 DEF Somes
<1>15. Somes(gs) = Somes(hs)
  <2>1. Len(gs) = Len(Somes(os)) /\ Len(hs) = Len(os)
    BY <1>3, <1>4, <1>5, <1>11
  <2>2. \A i \in 1 .. Len(os) : os[i] = {} => hs[i] = {}
    BY <1>1, <1>4
  <2>3. \A i \in 1 .. Len(os), k \in 1 .. Len(gs) : os[i] = {Somes(os)[k]} => hs[i] = gs[k]
    BY <1>3, <1>4, <1>9, <1>11
  <2>4. InTurn(os, gs, hs)
    BY <2>1, <2>2, <2>3 DEF InTurn
  <2> QED BY <1>4, <1>5, <1>11, <2>4, SomesOfSomes
<1> QED BY <1>14, <1>15 DEF hs

LEMMA ResponsesParsed ==
  ASSUME NEW n \in Nat, NEW ps, PieceSeq(ps, n), NEW mode \in Responses!ReasoningMode
  PROVE  Responses!ParseResponsesResponse(ResponsesResponse(ps), mode).content
           = Somes([i \in 1 .. n |-> ResponsesBlock(ps[i], mode)])
<1> DEFINE os == [i \in 1 .. n |-> ResponsesOutput(ps[i])]
           T  == UNION {os[i] : i \in 1 .. n}
           v  == FilterMap(ResponsesOutput, ps)
           gs == [k \in 1 .. Len(v) |-> Responses!ParsedItem(v[k], mode)]
           hs == [i \in 1 .. n |-> ResponsesBlock(ps[i], mode)]
           U  == UNION {hs[i] : i \in 1 .. n}
<1>1. \A i \in 1 .. n : /\ os[i] # {} /\ \A x, y \in os[i] : x = y
                        /\ \A x \in os[i] : Responses!ParsedItem(x, mode) = hs[i]
  <2> SUFFICES ASSUME NEW i \in 1 .. n
               PROVE  /\ os[i] # {} /\ \A x, y \in os[i] : x = y
                      /\ \A x \in os[i] : Responses!ParsedItem(x, mode) = hs[i]
    OBVIOUS
  <2>1. ps[i].kind \in Kinds
    BY DEF PieceSeq
  <2>2. PICK x : ResponsesOutput(ps[i]) = {x} /\ Responses!ParsedItem(x, mode) = ResponsesBlock(ps[i], mode)
    BY <2>1, ResponsesPiece
  <2>3. os[i] = ResponsesOutput(ps[i]) /\ hs[i] = ResponsesBlock(ps[i], mode)
    OBVIOUS
  <2> HIDE DEF os, hs
  <2> QED BY <2>2, <2>3
<1>2. \A i \in 1 .. n : \A x, y \in hs[i] : x = y
  <2> SUFFICES ASSUME NEW i \in 1 .. n, NEW x \in hs[i], NEW y \in hs[i] PROVE x = y
    OBVIOUS
  <2>1. ps[i].kind \in Kinds /\ x \in ResponsesBlock(ps[i], mode) /\ y \in ResponsesBlock(ps[i], mode)
    BY DEF PieceSeq
  <2> HIDE DEF hs
  <2>2. CASE ps[i].kind = "think"
    BY <2>1, <2>2 DEF ResponsesBlock, IsCall, Calls
  <2>3. CASE ps[i].kind = "silent think"
    <3>1. ResponsesBlock(ps[i], mode)
            = IF mode \in {"drop", "summary"} THEN {}
              ELSE {Thinking(Empty, IF mode = "encrypted" THEN {<<"bare", ps[i].n>>} ELSE {})}
      BY <2>3 DEF ResponsesBlock, IsCall, Calls
    <3> QED BY <2>1, <3>1
  <2>4. CASE ps[i].kind = "text"
    BY <2>1, <2>4 DEF ResponsesBlock, IsCall, Calls
  <2>5. CASE ps[i].kind = "hosted"
    BY <2>1, <2>5 DEF ResponsesBlock, IsCall, Calls
  <2>6. CASE ps[i].kind = "broken hosted"
    BY <2>1, <2>6 DEF ResponsesBlock, IsCall, Calls
  <2>7. CASE ps[i].kind \in Calls
    BY <2>1, <2>7 DEF ResponsesBlock, IsCall, Calls
  <2> QED BY <2>1, <2>2, <2>3, <2>4, <2>5, <2>6, <2>7 DEF Kinds, Calls
<1>3. v = Somes(os)
  <2>1. v = FlattenSeq([i \in DOMAIN ps |->
              IF ResponsesOutput(ps[i]) = {} THEN <<>> ELSE <<CHOOSE y \in ResponsesOutput(ps[i]) : TRUE>>])
    BY DEF FilterMap, FlatMap
  <2>2. [i \in DOMAIN ps |->
              IF ResponsesOutput(ps[i]) = {} THEN <<>> ELSE <<CHOOSE y \in ResponsesOutput(ps[i]) : TRUE>>]
          = [i \in DOMAIN os |-> IF os[i] = {} THEN <<>> ELSE <<CHOOSE y \in os[i] : TRUE>>]
    BY DEF PieceSeq
  <2> HIDE DEF v, os
  <2> QED BY <2>1, <2>2 DEF Somes
<1>4. os \in Seq(Options(T)) /\ Len(os) = n
  <2>1. os = [i \in 1 .. n |-> os[i]]
    OBVIOUS
  <2> HIDE DEF os
  <2> QED BY <1>1, <2>1, OptionsAre
<1>5. hs \in Seq(Options(U)) /\ Len(hs) = n
  <2>1. hs = [i \in 1 .. n |-> hs[i]]
    OBVIOUS
  <2> HIDE DEF hs
  <2> QED BY <1>2, <2>1, OptionsAre
<1> HIDE DEF os, hs, v, T, U
<1>6. v \in Seq(T) /\ Len(v) \in Nat /\ DOMAIN v = 1 .. Len(v)
  BY <1>3, <1>4, SomesPlaces
<1>7. PICK e : SomePlaces(e, os, v)
  BY <1>3, <1>4, SomesPlaces
<1>8. \A k \in 1 .. Len(v) : e[k] \in 1 .. n /\ os[e[k]] = {v[k]}
  BY <1>4, <1>7 DEF SomePlaces
<1>9. \A i \in 1 .. n, k \in 1 .. Len(v) : os[i] = {v[k]} => hs[i] = gs[k]
  BY <1>1
<1>10. \A k \in 1 .. Len(v) : gs[k] = hs[e[k]]
  BY <1>1, <1>8
<1>11. gs \in Seq(Options(U)) /\ Len(gs) = Len(v)
  <2>1. \A k \in 1 .. Len(v) : gs[k] \in Options(U)
    BY <1>5, <1>8, <1>10
  <2>2. gs = [k \in 1 .. Len(v) |-> gs[k]]
    OBVIOUS
  <2> HIDE DEF gs
  <2>3. gs \in [1 .. Len(v) -> Options(U)]
    BY <2>1, <2>2
  <2> QED BY <1>6, <2>3
<1>12. Responses!ParseResponsesResponse(ResponsesResponse(ps), mode).content
         = FlattenSeq([k \in DOMAIN v |->
              IF Responses!ParsedItem(v[k], mode) = {} THEN <<>>
              ELSE <<CHOOSE y \in Responses!ParsedItem(v[k], mode) : TRUE>>])
  BY DEF Responses!ParseResponsesResponse, ResponsesResponse, Responses!FilterMap, Responses!FlatMap,
         Responses!FlattenSeq, FlattenSeq, v
<1>13. [k \in DOMAIN v |->
              IF Responses!ParsedItem(v[k], mode) = {} THEN <<>>
              ELSE <<CHOOSE y \in Responses!ParsedItem(v[k], mode) : TRUE>>]
         = [k \in DOMAIN gs |-> IF gs[k] = {} THEN <<>> ELSE <<CHOOSE y \in gs[k] : TRUE>>]
  BY <1>6
<1> HIDE DEF gs
<1>14. Responses!ParseResponsesResponse(ResponsesResponse(ps), mode).content = Somes(gs)
  BY <1>12, <1>13 DEF Somes
<1>15. Somes(gs) = Somes(hs)
  <2>1. Len(gs) = Len(Somes(os)) /\ Len(hs) = Len(os)
    BY <1>3, <1>4, <1>5, <1>11
  <2>2. \A i \in 1 .. Len(os) : os[i] = {} => hs[i] = {}
    BY <1>1, <1>4
  <2>3. \A i \in 1 .. Len(os), k \in 1 .. Len(gs) : os[i] = {Somes(os)[k]} => hs[i] = gs[k]
    BY <1>3, <1>4, <1>9, <1>11
  <2>4. InTurn(os, gs, hs)
    BY <2>1, <2>2, <2>3 DEF InTurn
  <2> QED BY <1>4, <1>5, <1>11, <2>4, SomesOfSomes
<1> QED BY <1>14, <1>15 DEF hs

(* What a message of the assistant is like, whoever said it.               *)
Numbers(turn) == {10 * turn + i : i \in 1 .. 9}

GoodAnswer(c, turn) ==
  /\ c \in Seq(AnswerBlk)
  /\ \A i \in 1 .. Len(c) : IsToolUse(c[i]) => c[i].id \in Numbers(turn)
  /\ \A i, j \in 1 .. Len(c) : IsToolUse(c[i]) /\ IsToolUse(c[j]) /\ c[i].id = c[j].id => i = j
  /\ \A i, j \in 1 .. Len(c) : IsToolUse(c[i]) /\ IsThinking(c[j])
       => \E k \in 1 .. i - 1 : IsThinking(c[k])

LEMMA PiecesAre ==
  ASSUME NEW kinds \in Answers, NEW turn \in Nat
  PROVE  /\ Len(kinds) \in 0 .. 9 /\ PieceSeq(Pieces(kinds, turn), Len(kinds))
         /\ \A i \in 1 .. Len(kinds) : /\ Pieces(kinds, turn)[i].kind = kinds[i]
                                       /\ Pieces(kinds, turn)[i].n = 10 * turn + i
<1>1. kinds \in Seq(Kinds) /\ Len(kinds) < 10
  BY AnswersAssumption
<1>0. Len(kinds) \in Nat
  BY <1>1
<1>2. Len(kinds) \in 0 .. 9 /\ DOMAIN kinds = 1 .. Len(kinds) /\ \A i \in 1 .. Len(kinds) : kinds[i] \in Kinds
  <2>1. Len(kinds) \in 0 .. 9
    <3>1. \A k \in Nat : k < 10 => k \in 0 .. 9
      OBVIOUS
    <3> QED BY <1>0, <1>1, <3>1
  <2>2. DOMAIN kinds = 1 .. Len(kinds) /\ \A i \in 1 .. Len(kinds) : kinds[i] \in Kinds
    BY <1>1
  <2> QED BY <2>1, <2>2
<1>3. \A i \in 1 .. Len(kinds) : /\ Pieces(kinds, turn)[i].kind = kinds[i]
                                 /\ Pieces(kinds, turn)[i].n = 10 * turn + i
  BY <1>2 DEF Pieces
<1>4. DOMAIN Pieces(kinds, turn) = 1 .. Len(kinds)
  BY <1>2 DEF Pieces
<1>5. \A i \in 1 .. Len(kinds) : 10 * turn + i \in Nat
  OBVIOUS
<1> QED BY <1>2, <1>3, <1>4, <1>5 DEF PieceSeq

\* hs[i] is what becomes of the i-th piece.
FromPieces(hs, ps, n) ==
  \A i \in 1 .. n :
    /\ \A x \in hs[i] : /\ IsToolUse(x) => IsCall(ps[i]) /\ x.id = ps[i].n
                        /\ IsThinking(x) <=> ps[i].kind \in Thoughts
    /\ \A j \in 1 .. n : ps[i].kind = ps[j].kind /\ hs[i] # {} => hs[j] # {}

LEMMA GoodFromPieces ==
  ASSUME NEW kinds \in Answers, NEW turn \in Nat, NEW hs \in Seq(Options(AnswerBlk)),
         Len(hs) = Len(kinds), FromPieces(hs, Pieces(kinds, turn), Len(kinds))
  PROVE  GoodAnswer(Somes(hs), turn)
<1> DEFINE n  == Len(kinds)
           ps == Pieces(kinds, turn)
           c  == Somes(hs)
<1>1. n \in 0 .. 9 /\ \A i \in 1 .. n : ps[i].kind = kinds[i] /\ ps[i].n = 10 * turn + i
  BY PiecesAre
<1>2. c \in Seq(AnswerBlk)
  BY SomesPlaces
<1>3. PICK e : SomePlaces(e, hs, c)
  BY SomesPlaces
<1>4. /\ Len(hs) = n
      /\ \A i \in 1 .. n : \A x \in hs[i] : /\ IsToolUse(x) => IsCall(ps[i]) /\ x.id = ps[i].n
                                            /\ IsThinking(x) <=> ps[i].kind \in Thoughts
      /\ \A i, j \in 1 .. n : ps[i].kind = ps[j].kind /\ hs[i] # {} => hs[j] # {}
  BY DEF FromPieces
<1>5. kinds \in Seq(Kinds) /\ DOMAIN kinds = 1 .. n
  BY AnswersAssumption
<1> HIDE DEF n, ps, c
<1>6. Len(c) \in Nat
  BY <1>2
<1>7. \A k \in 1 .. Len(c) : e[k] \in 1 .. n /\ hs[e[k]] = {c[k]}
  BY <1>3, <1>4 DEF SomePlaces
<1>8. \A k \in 1 .. Len(c) : /\ IsToolUse(c[k]) => kinds[e[k]] \in Calls /\ c[k].id = 10 * turn + e[k]
                             /\ IsThinking(c[k]) <=> kinds[e[k]] \in Thoughts
  <2> SUFFICES ASSUME NEW k \in 1 .. Len(c)
               PROVE  /\ IsToolUse(c[k]) => kinds[e[k]] \in Calls /\ c[k].id = 10 * turn + e[k]
                      /\ IsThinking(c[k]) <=> kinds[e[k]] \in Thoughts
    OBVIOUS
  <2>1. e[k] \in 1 .. n /\ c[k] \in hs[e[k]]
    BY <1>7
  <2> QED BY <1>1, <1>4, <2>1 DEF IsCall
<1>9. \A i \in 1 .. Len(c) : IsToolUse(c[i]) => c[i].id \in Numbers(turn)
  <2> SUFFICES ASSUME NEW i \in 1 .. Len(c), IsToolUse(c[i]) PROVE c[i].id \in Numbers(turn)
    OBVIOUS
  <2>1. c[i].id = 10 * turn + e[i] /\ e[i] \in 1 .. n
    BY <1>7, <1>8
  <2>2. e[i] \in 1 .. 9
    <3>1. \A l \in 0 .. 9 : \A k \in 1 .. l : k \in 1 .. 9
      OBVIOUS
    <3> QED BY <1>1, <2>1, <3>1
  <2> QED BY <2>1, <2>2 DEF Numbers
<1>10. \A i, j \in 1 .. Len(c) : IsToolUse(c[i]) /\ IsToolUse(c[j]) /\ c[i].id = c[j].id => i = j
  <2> SUFFICES ASSUME NEW i \in 1 .. Len(c), NEW j \in 1 .. Len(c),
                      IsToolUse(c[i]), IsToolUse(c[j]), c[i].id = c[j].id
               PROVE  i = j
    OBVIOUS
  <2>1. 10 * turn + e[i] = 10 * turn + e[j] /\ e[i] \in Nat /\ e[j] \in Nat
    BY <1>1, <1>7, <1>8
  <2>2. e[i] = e[j]
    BY <2>1
  <2>3. \A a, b \in 1 .. Len(c) : a < b => e[a] < e[b]
    BY <1>3 DEF SomePlaces
  <2> QED BY <1>6, <2>1, <2>2, <2>3
<1>11. \A i, j \in 1 .. Len(c) : IsToolUse(c[i]) /\ IsThinking(c[j])
         => \E k \in 1 .. i - 1 : IsThinking(c[k])
  <2> SUFFICES ASSUME NEW i \in 1 .. Len(c), NEW j \in 1 .. Len(c), IsToolUse(c[i]), IsThinking(c[j])
               PROVE  \E k \in 1 .. i - 1 : IsThinking(c[k])
    OBVIOUS
  <2>1. e[i] \in 1 .. n /\ e[j] \in 1 .. n /\ kinds[e[i]] \in Calls /\ kinds[e[j]] \in Thoughts
    BY <1>7, <1>8
  <2>2. PICK a \in 1 .. e[i] - 1 : kinds[a] = kinds[e[j]]
    <3>1. \A x, y \in DOMAIN kinds : kinds[x] \in Calls /\ kinds[y] \in Thoughts
            => \E k \in 1 .. x - 1 : kinds[k] = kinds[y]
      BY AnswersAssumption
    <3> QED BY <1>5, <2>1, <3>1
  <2>3. a \in 1 .. n /\ a < e[i]
    <3>1. n \in Nat /\ e[i] \in Nat /\ e[i] <= n /\ a \in Nat /\ 1 <= a /\ a <= e[i] - 1
      BY <1>1, <2>1
    <3> QED BY <3>1
  <2>4. hs[a] # {}
    <3>1. hs[e[j]] # {}
      BY <1>7
    <3>2. ps[e[j]].kind = ps[a].kind
      BY <1>1, <2>1, <2>2, <2>3
    <3>3. \A x, y \in 1 .. n : ps[x].kind = ps[y].kind /\ hs[x] # {} => hs[y] # {}
      BY <1>4
    <3> QED BY <2>1, <2>3, <3>1, <3>2, <3>3
  <2>5. PICK k \in 1 .. Len(c) : e[k] = a
    BY <1>3, <1>4, <2>3, <2>4 DEF SomePlaces
  <2>6. IsThinking(c[k])
    BY <1>8, <2>1, <2>2, <2>5
  <2>7. k < i
    <3>1. \A x, y \in 1 .. Len(c) : x < y => e[x] < e[y]
      BY <1>3 DEF SomePlaces
    <3>2. e[k] < e[i]
      BY <2>3, <2>5
    <3>3. e[k] \in Nat /\ e[i] \in Nat
      <4>1. e[k] \in 1 .. n /\ e[i] \in 1 .. n
        BY <1>7
      <4> QED BY <4>1
    <3>4. ~ (i < k)
      BY <3>1, <3>2, <3>3
    <3>5. i # k
      BY <3>2, <3>3
    <3> QED BY <1>6, <3>4, <3>5
  <2> QED BY <1>6, <2>6, <2>7
<1>12. GoodAnswer(c, turn)
  BY <1>2, <1>9, <1>10, <1>11 DEF GoodAnswer
<1> QED BY <1>12 DEF c

LEMMA PieceBlocks ==
  ASSUME NEW p, p.kind \in Kinds, p.n \in Nat, NEW mode
  PROVE  /\ Word(p) \in Seq(Spoken)
         /\ Thinking(Word(p), {<<"opaque", p.n>>}) \in AnswerBlk
         /\ Thinking(Word(p), {<<"reasoning", p.n>>}) \in AnswerBlk
         /\ Thinking(Empty, {<<"bare", p.n>>}) \in AnswerBlk
         /\ Thinking(Empty, {}) \in AnswerBlk /\ Thinking(Word(p), {}) \in AnswerBlk
         /\ Text(Word(p)) \in AnswerBlk
         /\ ToolUse(p.n, ToolName, "object") \in AnswerBlk
         /\ ToolUse(p.n, ToolName, Arguments(p)) \in AnswerBlk
         /\ Custom("web_search_call", <<"whole", p.n>>) \in AnswerBlk
         /\ Custom("web_search_call", <<"failed", p.n>>) \in AnswerBlk
<1>1. <<p.kind, p.n>> \in Spoken
  BY DEF Spoken, Words, Kinds
<1>2. Word(p) \in Seq(Spoken) /\ Empty \in Seq(Spoken)
  BY <1>1 DEF Word, Empty
<1>3. /\ {<<"opaque", p.n>>} \in Options(Marks) /\ {<<"reasoning", p.n>>} \in Options(Marks)
      /\ {<<"bare", p.n>>} \in Options(Marks) /\ {} \in Options(Marks)
      /\ <<"whole", p.n>> \in Marks /\ <<"failed", p.n>> \in Marks
  <2>1. \A m \in {"reasoning", "bare", "opaque", "whole", "failed"} : <<m, p.n>> \in Marks
    BY DEF Marks
  <2> QED BY <2>1 DEF Options
<1>4. \A t \in Seq(Spoken), sig \in Options(Marks) : Thinking(t, sig) \in AnswerBlk
  BY DEF Thinking, AnswerBlk, ThinkBlk
<1>5. Text(Word(p)) \in AnswerBlk
  BY <1>2 DEF Text, AnswerBlk, TextBlk
<1>6. Arguments(p) \in {"object", "null"}
  BY DEF Arguments, Args
<1>7. \A a \in {"object", "null"} : ToolUse(p.n, ToolName, a) \in AnswerBlk
  BY DEF ToolUse, AnswerBlk, UseBlk
<1>8. \A d \in Marks : Custom("web_search_call", d) \in AnswerBlk
  BY DEF Custom, AnswerBlk, CustomBlk
<1> QED BY <1>2, <1>3, <1>4, <1>5, <1>6, <1>7, <1>8

LEMMA AnthropicGood ==
  ASSUME NEW kinds \in Answers, NEW turn \in Nat
  PROVE  GoodAnswer(Anthropic!ParseAnthropicResponse(AnthropicResponse(Pieces(kinds, turn))).content, turn)
<1> DEFINE n  == Len(kinds)
           ps == Pieces(kinds, turn)
           hs == [i \in 1 .. n |-> AnthropicBlock(ps[i])]
<1>1. n \in Nat /\ PieceSeq(ps, n)
  BY PiecesAre
<1> HIDE DEF ps, n
<1>2. ASSUME NEW i \in 1 .. n
      PROVE  /\ hs[i] \in Options(AnswerBlk) /\ hs[i] # {}
             /\ \A x \in hs[i] : /\ IsToolUse(x) => IsCall(ps[i]) /\ x.id = ps[i].n
                                 /\ IsThinking(x) <=> ps[i].kind \in Thoughts
  <2> DEFINE p == ps[i]
  <2>0. p.kind \in Kinds /\ p.n \in Nat /\ hs[i] = AnthropicBlock(p)
    BY <1>1 DEF PieceSeq
  <2> HIDE DEF p, hs
  <2> SUFFICES \E x \in AnswerBlk : /\ AnthropicBlock(p) = {x}
                                    /\ IsToolUse(x) => IsCall(p) /\ x.id = p.n
                                    /\ IsThinking(x) <=> p.kind \in Thoughts
    BY <2>0 DEF Options, p
  <2>1. CASE p.kind = "think"
    <3>1. AnthropicBlock(p) = {Thinking(Word(p), {<<"opaque", p.n>>})}
      BY <2>1 DEF AnthropicBlock, IsCall, Calls
    <3>2. Thinking(Word(p), {<<"opaque", p.n>>}) \in AnswerBlk
      BY <2>0, PieceBlocks
    <3> QED BY <2>1, <3>1, <3>2 DEF Thinking, IsToolUse, IsThinking, Thoughts
  <2>2. CASE p.kind = "silent think"
    <3>1. AnthropicBlock(p) = {Thinking(Empty, {})}
      BY <2>2 DEF AnthropicBlock, IsCall, Calls
    <3>2. Thinking(Empty, {}) \in AnswerBlk
      BY <2>0, PieceBlocks
    <3> QED BY <2>2, <3>1, <3>2 DEF Thinking, IsToolUse, IsThinking, Thoughts
  <2>3. CASE p.kind = "text"
    <3>1. AnthropicBlock(p) = {Text(Word(p))}
      BY <2>3 DEF AnthropicBlock, IsCall, Calls
    <3>2. Text(Word(p)) \in AnswerBlk
      BY <2>0, PieceBlocks
    <3> QED BY <2>3, <3>1, <3>2 DEF Text, IsToolUse, IsThinking, Thoughts
  <2>4. CASE p.kind \in {"hosted", "broken hosted"}
    <3>1. AnthropicBlock(p) = {Custom("server_tool_use", <<p.kind, p.n>>)}
      BY <2>4 DEF AnthropicBlock, IsCall, Calls
    <3>2. <<p.kind, p.n>> \in Marks
      BY <2>0, <2>4 DEF Marks
    <3>3. Custom("server_tool_use", <<p.kind, p.n>>) \in AnswerBlk
      BY <3>2 DEF Custom, AnswerBlk, CustomBlk
    <3> QED BY <2>4, <3>1, <3>3 DEF Custom, IsToolUse, IsThinking, Thoughts
  <2>5. CASE p.kind \in Calls
    <3>1. AnthropicBlock(p) = {ToolUse(p.n, ToolName, "object")}
      BY <2>5 DEF AnthropicBlock, IsCall, Calls
    <3>2. ToolUse(p.n, ToolName, "object") \in AnswerBlk
      BY <2>0, PieceBlocks
    <3> QED BY <2>5, <3>1, <3>2 DEF ToolUse, IsToolUse, IsThinking, Thoughts, Calls, IsCall
  <2> QED BY <2>0, <2>1, <2>2, <2>3, <2>4, <2>5 DEF Kinds, Calls
<1>3. hs \in Seq(Options(AnswerBlk)) /\ Len(hs) = n
  <2>1. hs = [i \in 1 .. n |-> hs[i]]
    OBVIOUS
  <2> HIDE DEF hs
  <2>2. hs \in [1 .. n -> Options(AnswerBlk)]
    BY <1>2, <2>1
  <2> QED BY <1>1, <2>2
<1> HIDE DEF hs
<1>4. FromPieces(hs, ps, n)
  BY <1>2 DEF FromPieces
<1>5. GoodAnswer(Somes(hs), turn)
  BY <1>3, <1>4, GoodFromPieces DEF ps, n
<1>6. Anthropic!ParseAnthropicResponse(AnthropicResponse(ps)).content = Somes(hs)
  BY <1>1, AnthropicParsed DEF hs
<1> QED BY <1>5, <1>6 DEF ps
LEMMA ResponsesGood ==
  ASSUME NEW kinds \in Answers, NEW turn \in Nat, NEW mode \in Responses!ReasoningMode
  PROVE  GoodAnswer(Responses!ParseResponsesResponse(
                      ResponsesResponse(Pieces(kinds, turn)), mode).content, turn)
<1> DEFINE n  == Len(kinds)
           ps == Pieces(kinds, turn)
           hs == [i \in 1 .. n |-> ResponsesBlock(ps[i], mode)]
<1>1. n \in Nat /\ PieceSeq(ps, n)
  BY PiecesAre
<1> HIDE DEF ps, n
<1>m. mode \in {"drop", "encrypted", "plaintext", "summary"}
  BY DEF Responses!ReasoningMode
<1>2. ASSUME NEW i \in 1 .. n
      PROVE  /\ hs[i] \in Options(AnswerBlk)
             /\ \A x \in hs[i] : /\ IsToolUse(x) => IsCall(ps[i]) /\ x.id = ps[i].n
                                 /\ IsThinking(x) <=> ps[i].kind \in Thoughts
  <2> DEFINE p == ps[i]
  <2>0. p.kind \in Kinds /\ p.n \in Nat /\ hs[i] = ResponsesBlock(p, mode)
    BY <1>1 DEF PieceSeq
  <2> HIDE DEF p, hs
  <2> SUFFICES \/ ResponsesBlock(p, mode) = {}
               \/ \E x \in AnswerBlk : /\ ResponsesBlock(p, mode) = {x}
                                       /\ IsToolUse(x) => IsCall(p) /\ x.id = p.n
                                       /\ IsThinking(x) <=> p.kind \in Thoughts
    BY <2>0 DEF Options, p
  <2>1. CASE p.kind = "think"
    <3>1. ResponsesBlock(p, mode)
            = IF mode = "drop" THEN {}
              ELSE {Thinking(Word(p), IF mode = "encrypted" THEN {<<"reasoning", p.n>>} ELSE {})}
      BY <2>1 DEF ResponsesBlock, IsCall, Calls
    <3>2. /\ Thinking(Word(p), {<<"reasoning", p.n>>}) \in AnswerBlk
          /\ Thinking(Word(p), {}) \in AnswerBlk
      BY <2>0, PieceBlocks
    <3>3. \A t, sig : ~ IsToolUse(Thinking(t, sig)) /\ IsThinking(Thinking(t, sig))
      BY DEF Thinking, IsToolUse, IsThinking
    <3> QED BY <2>1, <3>1, <3>2, <3>3 DEF Thoughts
  <2>2. CASE p.kind = "silent think"
    <3>1. ResponsesBlock(p, mode)
            = IF mode \in {"drop", "summary"} THEN {}
              ELSE {Thinking(Empty, IF mode = "encrypted" THEN {<<"bare", p.n>>} ELSE {})}
      BY <2>2 DEF ResponsesBlock, IsCall, Calls
    <3>2. Thinking(Empty, {<<"bare", p.n>>}) \in AnswerBlk /\ Thinking(Empty, {}) \in AnswerBlk
      BY <2>0, PieceBlocks
    <3>3. \A t, sig : ~ IsToolUse(Thinking(t, sig)) /\ IsThinking(Thinking(t, sig))
      BY DEF Thinking, IsToolUse, IsThinking
    <3> QED BY <2>2, <3>1, <3>2, <3>3 DEF Thoughts
  <2>3. CASE p.kind = "text"
    <3>1. ResponsesBlock(p, mode) = {Text(Word(p))}
      BY <2>3 DEF ResponsesBlock, IsCall, Calls
    <3>2. Text(Word(p)) \in AnswerBlk
      BY <2>0, PieceBlocks
    <3> QED BY <2>3, <3>1, <3>2 DEF Text, IsToolUse, IsThinking, Thoughts
  <2>4. CASE p.kind = "hosted"
    <3>1. ResponsesBlock(p, mode) = {Custom("web_search_call", <<"whole", p.n>>)}
      BY <2>4 DEF ResponsesBlock, IsCall, Calls
    <3>2. Custom("web_search_call", <<"whole", p.n>>) \in AnswerBlk
      BY <2>0, PieceBlocks
    <3> QED BY <2>4, <3>1, <3>2 DEF Custom, IsToolUse, IsThinking, Thoughts
  <2>5. CASE p.kind = "broken hosted"
    <3>1. ResponsesBlock(p, mode) = {Custom("web_search_call", <<"failed", p.n>>)}
      BY <2>5 DEF ResponsesBlock, IsCall, Calls
    <3>2. Custom("web_search_call", <<"failed", p.n>>) \in AnswerBlk
      BY <2>0, PieceBlocks
    <3> QED BY <2>5, <3>1, <3>2 DEF Custom, IsToolUse, IsThinking, Thoughts
  <2>6. CASE p.kind \in Calls
    <3>1. ResponsesBlock(p, mode) = {ToolUse(p.n, ToolName, Arguments(p))}
      BY <2>6 DEF ResponsesBlock, IsCall, Calls
    <3>2. ToolUse(p.n, ToolName, Arguments(p)) \in AnswerBlk
      BY <2>0, PieceBlocks
    <3> QED BY <2>6, <3>1, <3>2 DEF ToolUse, IsToolUse, IsThinking, Thoughts, Calls, IsCall
  <2> QED BY <2>0, <2>1, <2>2, <2>3, <2>4, <2>5, <2>6 DEF Kinds, Calls
<1>3. hs \in Seq(Options(AnswerBlk)) /\ Len(hs) = n
  <2>1. hs = [i \in 1 .. n |-> hs[i]]
    OBVIOUS
  <2> HIDE DEF hs
  <2>2. hs \in [1 .. n -> Options(AnswerBlk)]
    BY <1>2, <2>1
  <2> QED BY <1>1, <2>2
<1>4. ASSUME NEW i \in 1 .. n, NEW j \in 1 .. n, ps[i].kind = ps[j].kind, hs[i] # {}
      PROVE  hs[j] # {}
  <2>1. hs[i] = ResponsesBlock(ps[i], mode) /\ hs[j] = ResponsesBlock(ps[j], mode)
    OBVIOUS
  <2>2. ps[i].kind \in Kinds
    BY <1>1 DEF PieceSeq
  <2> HIDE DEF hs
  <2>3. CASE ps[i].kind = "think"
    <3>1. mode # "drop"
      BY <1>4, <2>1, <2>3 DEF ResponsesBlock, IsCall, Calls
    <3>2. ps[j].kind = "think"
      BY <1>4, <2>3
    <3> QED BY <2>1, <3>1, <3>2 DEF ResponsesBlock, IsCall, Calls
  <2>4. CASE ps[i].kind = "silent think"
    <3>0. ResponsesBlock(ps[i], mode)
            = IF mode \in {"drop", "summary"} THEN {}
              ELSE {Thinking(Empty, IF mode = "encrypted" THEN {<<"bare", ps[i].n>>} ELSE {})}
      BY <2>4 DEF ResponsesBlock, IsCall, Calls
    <3>1. mode \notin {"drop", "summary"}
      BY <1>4, <2>1, <3>0
    <3>2. ps[j].kind = "silent think"
      BY <1>4, <2>4
    <3>3. ResponsesBlock(ps[j], mode)
            = IF mode \in {"drop", "summary"} THEN {}
              ELSE {Thinking(Empty, IF mode = "encrypted" THEN {<<"bare", ps[j].n>>} ELSE {})}
      BY <3>2 DEF ResponsesBlock, IsCall, Calls
    <3> QED BY <2>1, <3>1, <3>3
  <2>5. CASE ps[i].kind = "text"
    BY <1>4, <2>1, <2>5 DEF ResponsesBlock, IsCall, Calls
  <2>6. CASE ps[i].kind = "hosted"
    BY <1>4, <2>1, <2>6 DEF ResponsesBlock, IsCall, Calls
  <2>7. CASE ps[i].kind = "broken hosted"
    BY <1>4, <2>1, <2>7 DEF ResponsesBlock, IsCall, Calls
  <2>8. CASE ps[i].kind \in Calls
    BY <1>4, <2>1, <2>8 DEF ResponsesBlock, IsCall, Calls
  <2> QED BY <2>2, <2>3, <2>4, <2>5, <2>6, <2>7, <2>8 DEF Kinds, Calls
<1> HIDE DEF hs
<1>5. FromPieces(hs, ps, n)
  BY <1>2, <1>4 DEF FromPieces
<1>6. GoodAnswer(Somes(hs), turn)
  BY <1>3, <1>5, GoodFromPieces DEF ps, n
<1>7. Responses!ParseResponsesResponse(ResponsesResponse(ps), mode).content = Somes(hs)
  BY <1>1, ResponsesParsed DEF hs
<1> QED BY <1>6, <1>7 DEF ps

LEMMA CallsPicked ==
  ASSUME NEW ps, Len(ps) \in Nat
  PROVE  Filter(ps, IsCall) = Picked(ps, {i \in 1 .. Len(ps) : IsCall(ps[i])})
<1> DEFINE K == {i \in 1 .. Len(ps) : IsCall(ps[i])}
           Is(g) == g = [i \in 0 .. Len(ps) |-> IF i = 0 THEN <<>>
                        ELSE IF IsCall(ps[i]) THEN Append(g[i - 1], ps[i]) ELSE g[i - 1]]
           g == CHOOSE g : Is(g)
<1>1. ASSUME NEW h PROVE Is(h) <=> IsPick(h, ps, K, Len(ps))
  BY DEF IsPick
<1>2. Filter(ps, IsCall) = g[Len(ps)]
  BY DEF Filter, SelectAt
<1> HIDE DEF Is, K
<1>3. IsPick(g, ps, K, Len(ps))
  BY <1>1, PickExists
<1> HIDE DEF g
<1>4. Picked(ps, K) = g[Len(ps)]
  BY <1>3, PickedIs
<1> QED BY <1>2, <1>4 DEF K

\* The calls of the pieces, in order.
CallsOf(calls, turn) ==
  /\ Len(calls) \in Nat /\ DOMAIN calls = 1 .. Len(calls)
  /\ \A k \in 1 .. Len(calls) : IsCall(calls[k]) /\ calls[k].n \in Numbers(turn)
  /\ \A j, k \in 1 .. Len(calls) : j < k => calls[j].n < calls[k].n

LEMMA CallPieces ==
  ASSUME NEW kinds \in Answers, NEW turn \in Nat
  PROVE  CallsOf(Filter(Pieces(kinds, turn), IsCall), turn)
<1> DEFINE ps    == Pieces(kinds, turn)
           n     == Len(kinds)
           calls == Filter(ps, IsCall)
           K     == {i \in 1 .. n : IsCall(ps[i])}
           R     == {ps[i] : i \in 1 .. n}
<1>1. /\ n \in 0 .. 9 /\ DOMAIN ps = 1 .. n
      /\ \A i \in 1 .. n : ps[i].n = 10 * turn + i
  BY PiecesAre DEF PieceSeq
<1>2. ps \in Seq(R) /\ Len(ps) = n
  <2>1. ps = [i \in 1 .. n |-> ps[i]]
    BY <1>1 DEF Pieces
  <2> HIDE DEF ps, n
  <2>2. ps \in [1 .. n -> R]
    BY <2>1
  <2>3. n \in Nat
    BY <1>1
  <2> QED BY <2>2, <2>3
<1> HIDE DEF ps, n, R
<1>3. calls = Picked(ps, K)
  <2>1. Len(ps) \in Nat /\ Len(ps) = n
    BY <1>1, <1>2
  <2>2. Filter(ps, IsCall) = Picked(ps, {i \in 1 .. Len(ps) : IsCall(ps[i])})
    BY <2>1, CallsPicked
  <2> QED BY <2>1, <2>2
<1>4. calls \in Seq(R)
  <2> HIDE DEF K, calls
  <2> QED BY <1>2, <1>3, PickedPlaces
<1>5. PICK e : Places(e, ps, K, calls)
  <2> HIDE DEF K, calls
  <2> QED BY <1>2, <1>3, PickedPlaces
<1> HIDE DEF calls
<1>6. \A k \in 1 .. Len(calls) : e[k] \in K /\ e[k] \in 1 .. n /\ calls[k] = ps[e[k]]
  BY <1>2, <1>5 DEF Places
<1>7. \A k \in 1 .. Len(calls) : IsCall(calls[k]) /\ calls[k].n = 10 * turn + e[k]
  BY <1>1, <1>6
<1>8. \A k \in 1 .. Len(calls) : calls[k].n \in Numbers(turn)
  <2> SUFFICES ASSUME NEW k \in 1 .. Len(calls) PROVE calls[k].n \in Numbers(turn)
    OBVIOUS
  <2>1. calls[k].n = 10 * turn + e[k] /\ e[k] \in 1 .. n
    BY <1>6, <1>7
  <2>2. e[k] \in 1 .. 9
    <3>1. \A l \in 0 .. 9 : \A j \in 1 .. l : j \in 1 .. 9
      OBVIOUS
    <3> QED BY <1>1, <2>1, <3>1
  <2> QED BY <2>1, <2>2 DEF Numbers
<1>9. \A j, k \in 1 .. Len(calls) : j < k => calls[j].n < calls[k].n
  <2> SUFFICES ASSUME NEW j \in 1 .. Len(calls), NEW k \in 1 .. Len(calls), j < k
               PROVE  calls[j].n < calls[k].n
    OBVIOUS
  <2>1. e[j] < e[k]
    BY <1>5 DEF Places
  <2>2. e[j] \in Nat /\ e[k] \in Nat
    BY <1>1, <1>6
  <2>3. calls[j].n = 10 * turn + e[j] /\ calls[k].n = 10 * turn + e[k]
    BY <1>7
  <2> QED BY <2>1, <2>2, <2>3
<1>10. CallsOf(calls, turn)
  BY <1>4, <1>7, <1>8, <1>9 DEF CallsOf
<1> QED BY <1>10 DEF calls, ps

LEMMA ChatTextIs ==
  ASSUME NEW kinds \in Answers, NEW turn \in Nat
  PROVE  ChatResponse(Pieces(kinds, turn)).text \in Seq(Spoken)
<1> DEFINE ps == Pieces(kinds, turn)
           n  == Len(kinds)
           ss == [i \in DOMAIN ps |-> IF ps[i].kind = "text" THEN Word(ps[i]) ELSE <<>>]
<1>1. n \in Nat /\ PieceSeq(ps, n)
  BY PiecesAre
<1>2. ChatResponse(ps).text = FlattenSeq(ss)
  BY DEF ChatResponse, FlatMap
<1> HIDE DEF ps, n
<1>3. ASSUME NEW i \in 1 .. n PROVE ss[i] \in Seq(Spoken)
  <2>1. ps[i].kind \in Kinds /\ ps[i].n \in Nat /\ i \in DOMAIN ps
    BY <1>1 DEF PieceSeq
  <2>2. Word(ps[i]) \in Seq(Spoken)
    BY <2>1, PieceBlocks
  <2>3. <<>> \in Seq(Spoken)
    OBVIOUS
  <2> QED BY <2>1, <2>2, <2>3
<1>4. ss = [i \in 1 .. n |-> ss[i]]
  BY <1>1 DEF PieceSeq
<1> HIDE DEF ss
<1>5. ss \in [1 .. n -> Seq(Spoken)]
  BY <1>3, <1>4
<1>6. ss \in Seq(Seq(Spoken))
  BY <1>1, <1>5
<1> QED BY <1>2, <1>6, FlattenLaid DEF ps

LEMMA ChatGood ==
  ASSUME NEW kinds \in Answers, NEW turn \in Nat
  PROVE  GoodAnswer(Chat!ParseOpenAiResponse(ChatResponse(Pieces(kinds, turn))).content, turn)
<1> DEFINE ps    == Pieces(kinds, turn)
           r     == ChatResponse(ps)
           calls == Filter(ps, IsCall)
           head  == IF r.text = <<>> THEN <<>> ELSE <<Text(r.text)>>
           tail  == [i \in 1 .. Len(calls) |->
                       ToolUse(calls[i].n, ToolName, Chat!ParsedArguments(Args(calls[i])))]
           c     == Chat!ParseOpenAiResponse(r).content
<1>1. /\ Len(calls) \in Nat /\ DOMAIN calls = 1 .. Len(calls)
      /\ \A k \in 1 .. Len(calls) : IsCall(calls[k]) /\ calls[k].n \in Numbers(turn)
      /\ \A j, k \in 1 .. Len(calls) : j < k => calls[j].n < calls[k].n
  BY CallPieces DEF CallsOf
<1>2. r.text \in Seq(Spoken)
  BY ChatTextIs
<1>3. r.calls = [i \in DOMAIN calls |->
                   [id |-> calls[i].n, name |-> ToolName, arguments |-> Args(calls[i])]]
  BY DEF ChatResponse
<1>4. c = head \o [i \in DOMAIN r.calls |->
                ToolUse(r.calls[i].id, r.calls[i].name, Chat!ParsedArguments(r.calls[i].arguments))]
  BY DEF Chat!ParseOpenAiResponse, Chat!Text, Text, Chat!ToolUse, ToolUse
<1> HIDE DEF ps, r, calls, c
<1>5. DOMAIN r.calls = 1 .. Len(calls)
      /\ \A i \in 1 .. Len(calls) : r.calls[i] = [id |-> calls[i].n, name |-> ToolName, arguments |-> Args(calls[i])]
  BY <1>1, <1>3
<1>6. c = head \o tail
  <2>1. [i \in DOMAIN r.calls |->
                ToolUse(r.calls[i].id, r.calls[i].name, Chat!ParsedArguments(r.calls[i].arguments))]
         = tail
    <3>1. \A i \in 1 .. Len(calls) :
            ToolUse(r.calls[i].id, r.calls[i].name, Chat!ParsedArguments(r.calls[i].arguments))
              = ToolUse(calls[i].n, ToolName, Chat!ParsedArguments(Args(calls[i])))
      <4> SUFFICES ASSUME NEW i \in 1 .. Len(calls)
                   PROVE  ToolUse(r.calls[i].id, r.calls[i].name, Chat!ParsedArguments(r.calls[i].arguments))
                            = ToolUse(calls[i].n, ToolName, Chat!ParsedArguments(Args(calls[i])))
        OBVIOUS
      <4>1. \E x : x = r.calls[i] /\ x = [id |-> calls[i].n, name |-> ToolName, arguments |-> Args(calls[i])]
        BY <1>5
      <4>2. /\ r.calls[i].id = calls[i].n /\ r.calls[i].name = ToolName
            /\ r.calls[i].arguments = Args(calls[i])
        BY <4>1
      <4> QED BY <4>2
    <3> QED BY <1>5, <3>1
  <2> QED BY <1>4, <2>1
<1>7. head \in Seq(AnswerBlk) /\ \A i \in 1 .. Len(head) : ~ IsToolUse(head[i]) /\ ~ IsThinking(head[i])
  <2>1. Text(r.text) \in AnswerBlk /\ ~ IsToolUse(Text(r.text)) /\ ~ IsThinking(Text(r.text))
    BY <1>2 DEF Text, AnswerBlk, TextBlk, IsToolUse, IsThinking
  <2> QED BY <2>1
<1>8. \A i \in 1 .. Len(calls) :
        /\ tail[i] \in AnswerBlk /\ IsToolUse(tail[i]) /\ ~ IsThinking(tail[i])
        /\ tail[i].id = calls[i].n
  <2> SUFFICES ASSUME NEW i \in 1 .. Len(calls)
               PROVE  /\ tail[i] \in AnswerBlk /\ IsToolUse(tail[i]) /\ ~ IsThinking(tail[i])
                      /\ tail[i].id = calls[i].n
    OBVIOUS
  <2>1. tail[i] = ToolUse(calls[i].n, ToolName, Chat!ParsedArguments(Args(calls[i])))
    OBVIOUS
  <2>2. Chat!ParsedArguments(Args(calls[i])) \in {"object", "null"}
    BY DEF Chat!ParsedArguments, Args
  <2>3. calls[i].n \in Nat
    BY <1>1 DEF Numbers
  <2> HIDE DEF tail
  <2> QED BY <2>1, <2>2, <2>3 DEF ToolUse, AnswerBlk, UseBlk, IsToolUse, IsThinking
<1>9. tail \in Seq(AnswerBlk) /\ Len(tail) = Len(calls)
  <2>1. tail = [i \in 1 .. Len(calls) |-> tail[i]]
    OBVIOUS
  <2> HIDE DEF tail
  <2>2. tail \in [1 .. Len(calls) -> AnswerBlk]
    BY <1>8, <2>1
  <2> QED BY <1>1, <2>2
<1> HIDE DEF head, tail
<1>10. /\ c \in Seq(AnswerBlk) /\ Len(c) = Len(head) + Len(tail) /\ Len(head) \in Nat
       /\ \A i \in 1 .. Len(head) + Len(tail) :
            c[i] = IF i <= Len(head) THEN head[i] ELSE tail[i - Len(head)]
  <2>1. head \in Seq(AnswerBlk) /\ tail \in Seq(AnswerBlk) /\ Len(head) \in Nat
    BY <1>7, <1>9
  <2>2. /\ head \o tail \in Seq(AnswerBlk) /\ Len(head \o tail) = Len(head) + Len(tail)
        /\ \A i \in 1 .. Len(head) + Len(tail) :
             (head \o tail)[i] = IF i <= Len(head) THEN head[i] ELSE tail[i - Len(head)]
    BY <2>1, ConcatProperties
  <2> QED BY <1>6, <2>1, <2>2
<1>11. \A i \in 1 .. Len(c) :
         /\ ~ IsThinking(c[i])
         /\ IsToolUse(c[i]) => i - Len(head) \in 1 .. Len(calls) /\ c[i].id = calls[i - Len(head)].n
  <2> SUFFICES ASSUME NEW i \in 1 .. Len(c)
               PROVE  /\ ~ IsThinking(c[i])
                      /\ IsToolUse(c[i]) => i - Len(head) \in 1 .. Len(calls) /\ c[i].id = calls[i - Len(head)].n
    OBVIOUS
  <2>1. CASE i <= Len(head)
    BY <1>7, <1>10, <2>1
  <2>2. CASE ~ (i <= Len(head))
    <3>1. c[i] = tail[i - Len(head)] /\ i - Len(head) \in 1 .. Len(calls)
      BY <1>1, <1>9, <1>10, <2>2
    <3> QED BY <1>8, <3>1
  <2> QED BY <2>1, <2>2
<1>12. \A i \in 1 .. Len(c) : IsToolUse(c[i]) => c[i].id \in Numbers(turn)
  BY <1>1, <1>11
<1>13. \A i, j \in 1 .. Len(c) : IsToolUse(c[i]) /\ IsToolUse(c[j]) /\ c[i].id = c[j].id => i = j
  <2> SUFFICES ASSUME NEW i \in 1 .. Len(c), NEW j \in 1 .. Len(c), IsToolUse(c[i]), IsToolUse(c[j]), c[i].id = c[j].id
               PROVE  i = j
    OBVIOUS
  <2> DEFINE a == i - Len(head)
             b == j - Len(head)
  <2>1. a \in 1 .. Len(calls) /\ b \in 1 .. Len(calls) /\ calls[a].n = calls[b].n
    BY <1>11
  <2>2. calls[a].n \in Nat /\ calls[b].n \in Nat
    <3>1. calls[a].n \in Numbers(turn) /\ calls[b].n \in Numbers(turn)
      <4> HIDE DEF a, b
      <4> QED BY <1>1, <2>1
    <3>2. Numbers(turn) \subseteq Nat
      BY DEF Numbers
    <3> QED BY <3>1, <3>2
  <2>3. i \in Nat /\ j \in Nat
    BY <1>10
  <2>4. a < b \/ b < a \/ i = j
    BY <1>10, <2>3
  <2> HIDE DEF a, b
  <2> QED BY <1>1, <2>1, <2>2, <2>4
<1>14. GoodAnswer(c, turn)
  BY <1>10, <1>11, <1>12, <1>13 DEF GoodAnswer
<1> QED BY <1>14 DEF c, r, ps

LEMMA AnswersAreGood ==
  ASSUME NEW kinds \in Answers, NEW turn \in Nat, provider \in Providers
  PROVE  GoodAnswer(Parsed(Pieces(kinds, turn)).content, turn)
<1>1. provider.wire \in {"chat", "responses", "messages"} /\ provider.mode \in Responses!ReasoningMode
  BY ProvidersAssumption DEF Provider
<1>2. CASE provider.wire = "chat"
  BY <1>2, ChatGood DEF Parsed
<1>3. CASE provider.wire = "responses"
  BY <1>1, <1>3, ResponsesGood DEF Parsed
<1>4. CASE provider.wire = "messages"
  BY <1>4, AnthropicGood DEF Parsed
<1> QED BY <1>1, <1>2, <1>3, <1>4

-----------------------------------------------------------------------------
(* What a strategy keeps *)

Msg == Spk \cup NoteMsg

HasResults(m) == SomeIn(m.content, IsToolResult)

\* qs are the messages of ps at the places g, and notes.
Kept(ps, qs, K, g) ==
  /\ K \in SUBSET (1 .. Len(qs)) /\ g \in [K -> 1 .. Len(ps)]
  /\ \A i \in K : qs[i] = ps[g[i]]
  /\ \A i \in 1 .. Len(qs) : i \notin K => qs[i] \in NoteMsg
  /\ \A i, j \in K : i < j => g[i] < g[j]
  /\ \E i \in K : g[i] = Len(ps)
  /\ 1 \in K => g[1] = 1
  /\ \A i, j \in K : g[i] = g[j] + 1 => i = j + 1

LEMMA SlidingKept ==
  ASSUME NEW s \in C!Strategy, s.name = "sliding_window", NEW ps \in Seq(Msg),
         NEW r, r = C!SlidingCompact(s, ps), r.messages # ps
  PROVE  r.messages \in Seq(Msg) /\ \E K, g : Kept(ps, r.messages, K, g)
<1> DEFINE n  == Len(ps)
           a  == s.keep_first
           b  == s.keep_recent
           w  == <<C!Note(<<>>)>>
           p1 == SubSeq(ps, 1, a)
           p2 == SubSeq(ps, n - b + 1, n)
           qs == (p1 \o w) \o p2
<1>1. a \in Nat /\ b \in Nat /\ b > 0 /\ n \in Nat
  <2>1. s \in [name : {"sliding_window"}, keep_first : Nat, keep_recent : Nat \ {0}]
    BY DEF C!Strategy
  <2> QED BY <2>1
<1>2. n > a + b /\ r.messages = qs
  <2>1. CASE n <= b + a
    <3>1. r.messages = ps
      BY <2>1 DEF C!SlidingCompact, C!Ok
    <3> QED BY <3>1
  <2>2. CASE ~ (n <= b + a)
    <3>1. r.messages = qs
      BY <2>2 DEF C!SlidingCompact, C!Ok
    <3> HIDE DEF qs, n, a, b
    <3> QED BY <1>1, <2>2, <3>1
  <2> QED BY <2>1, <2>2
<1>3. p1 \in Seq(Msg) /\ Len(p1) = a /\ \A i \in 1 .. a : p1[i] = ps[i]
  <2>1. \A i \in 1 .. a : i \in 1 .. n /\ ps[i] \in Msg
    <3> SUFFICES ASSUME NEW i \in 1 .. a PROVE i \in 1 .. n /\ ps[i] \in Msg
      OBVIOUS
    <3>1. i \in 1 .. n
      <4> HIDE DEF n, a, b
      <4> QED BY <1>1, <1>2
    <3> HIDE DEF a
    <3> QED BY <3>1, ElementOfSeq
  <2>2. /\ p1 \in Seq(Msg) /\ Len(p1) = IF 1 <= a THEN a - 1 + 1 ELSE 0
        /\ \A i \in 1 .. a - 1 + 1 : p1[i] = ps[1 + i - 1]
    <3> HIDE DEF a
    <3> QED BY <1>1, <2>1, SubSeqProperties
  <2> HIDE DEF p1, a
  <2> QED BY <1>1, <2>2
<1>4. p2 \in Seq(Msg) /\ Len(p2) = b /\ \A i \in 1 .. b : p2[i] = ps[(n - b) + i]
  <2>1. \A i \in n - b + 1 .. n : i \in 1 .. n /\ ps[i] \in Msg
    <3>1. \A i \in n - b + 1 .. n : i \in 1 .. n
      <4> HIDE DEF n, a, b
      <4> QED BY <1>1, <1>2
    <3>2. \A i \in 1 .. n : ps[i] \in Msg
      OBVIOUS
    <3> QED BY <3>1, <3>2
  <2>2. n - b + 1 \in Int /\ n \in Int /\ n - b + 1 <= n /\ n - (n - b + 1) + 1 = b
    <3> HIDE DEF n, a, b
    <3> QED BY <1>1, <1>2
  <2>3. /\ p2 \in Seq(Msg) /\ Len(p2) = n - (n - b + 1) + 1
        /\ \A i \in 1 .. n - (n - b + 1) + 1 : p2[i] = ps[(n - b + 1) + i - 1]
    <3> HIDE DEF n, b
    <3> QED BY <2>1, <2>2, SubSeqProperties
  <2> HIDE DEF p2, n, b
  <2> QED BY <1>1, <2>2, <2>3
<1>5. w \in Seq(Msg) /\ Len(w) = 1 /\ w[1] \in NoteMsg
  <2>1. C!Note(<<>>) \in NoteMsg
    BY DEF NoteMsg
  <2> QED BY <2>1 DEF Msg
<1> HIDE DEF p1, p2, w, a, b, n
<1>6. /\ p1 \o w \in Seq(Msg) /\ Len(p1 \o w) = a + 1
      /\ \A i \in 1 .. a + 1 : (p1 \o w)[i] = IF i <= a THEN p1[i] ELSE w[i - a]
  <2>1. /\ p1 \o w \in Seq(Msg) /\ Len(p1 \o w) = Len(p1) + Len(w)
        /\ \A i \in 1 .. Len(p1) + Len(w) : (p1 \o w)[i] = IF i <= Len(p1) THEN p1[i] ELSE w[i - Len(p1)]
    BY <1>3, <1>5, ConcatProperties
  <2>2. Len(p1) = a /\ Len(w) = 1
    BY <1>3, <1>5
  <2> QED BY <2>1, <2>2
<1>7. /\ qs \in Seq(Msg) /\ Len(qs) = (a + 1) + b
      /\ \A i \in 1 .. (a + 1) + b : qs[i] = IF i <= a + 1 THEN (p1 \o w)[i] ELSE p2[i - (a + 1)]
  <2> DEFINE u == p1 \o w
  <2>1. u \in Seq(Msg) /\ Len(u) = a + 1
    BY <1>6
  <2> HIDE DEF u
  <2>2. /\ u \o p2 \in Seq(Msg) /\ Len(u \o p2) = (a + 1) + b
        /\ \A i \in 1 .. (a + 1) + b : (u \o p2)[i] = IF i <= a + 1 THEN u[i] ELSE p2[i - (a + 1)]
    <3>1. /\ u \o p2 \in Seq(Msg) /\ Len(u \o p2) = Len(u) + Len(p2)
          /\ \A i \in 1 .. Len(u) + Len(p2) : (u \o p2)[i] = IF i <= Len(u) THEN u[i] ELSE p2[i - Len(u)]
      <4>1. u \in Seq(Msg) /\ p2 \in Seq(Msg)
        BY <1>4, <2>1
      <4> QED BY <4>1, ConcatProperties
    <3>2. Len(u) = a + 1 /\ Len(p2) = b
      BY <1>4, <2>1
    <3> QED BY <3>1, <3>2
  <2> QED BY <2>2 DEF u
<1> HIDE DEF qs
<1>8. /\ \A i \in 1 .. a : qs[i] = ps[i]
      /\ qs[a + 1] \in NoteMsg
      /\ \A i \in a + 2 .. a + 1 + b : qs[i] = ps[(n - b) + (i - (a + 1))]
  <2>1. \A i \in 1 .. a : qs[i] = ps[i]
    BY <1>1, <1>3, <1>6, <1>7
  <2>2. qs[a + 1] \in NoteMsg
    <3>1. a + 1 \in 1 .. a + 1 /\ ~ (a + 1 <= a) /\ (a + 1) - a = 1 /\ a + 1 \in 1 .. (a + 1) + b
      BY <1>1
    <3>2. qs[a + 1] = (p1 \o w)[a + 1]
      <4>1. qs[a + 1] = IF a + 1 <= a + 1 THEN (p1 \o w)[a + 1] ELSE p2[(a + 1) - (a + 1)]
        BY <1>7, <3>1, Zenon
      <4>2. a + 1 <= a + 1
        BY <1>1
      <4> QED BY <4>1, <4>2, Zenon
    <3>3. (p1 \o w)[a + 1] = w[(a + 1) - a]
      BY <1>6, <3>1
    <3> QED BY <1>5, <3>1, <3>2, <3>3
  <2>3. ASSUME NEW i \in a + 2 .. a + 1 + b PROVE qs[i] = ps[(n - b) + (i - (a + 1))]
    <3>1. i \in 1 .. (a + 1) + b /\ ~ (i <= a + 1) /\ i - (a + 1) \in 1 .. b
      BY <1>1
    <3> QED BY <1>4, <1>7, <3>1
  <2> QED BY <2>1, <2>2, <2>3
<1> DEFINE K == 1 .. Len(qs) \ {a + 1}
           g == [i \in K |-> IF i <= a THEN i ELSE (n - b) + (i - (a + 1))]
<1>9. \A i \in K : /\ i \in Nat /\ g[i] \in 1 .. n /\ g[i] = IF i <= a THEN i ELSE (n - b) + (i - (a + 1))
                   /\ i <= a \/ i \in a + 2 .. a + 1 + b
  <2> SUFFICES ASSUME NEW i \in K
               PROVE  /\ i \in Nat /\ g[i] \in 1 .. n /\ g[i] = IF i <= a THEN i ELSE (n - b) + (i - (a + 1))
                      /\ i <= a \/ i \in a + 2 .. a + 1 + b
    OBVIOUS
  <2>1. i \in 1 .. a + 1 + b /\ i # a + 1
    BY <1>1, <1>7
  <2>2. i <= a \/ i \in a + 2 .. a + 1 + b
    BY <1>1, <2>1
  <2>3. g[i] = IF i <= a THEN i ELSE (n - b) + (i - (a + 1))
    OBVIOUS
  <2> HIDE DEF g, K
  <2>4. g[i] \in 1 .. n
    BY <1>1, <1>2, <2>1, <2>2, <2>3
  <2> QED BY <2>1, <2>2, <2>3, <2>4
<1>10. g \in [K -> 1 .. n]
  <2>1. g = [i \in K |-> g[i]]
    OBVIOUS
  <2> HIDE DEF g, K
  <2> QED BY <1>9, <2>1
<1>11. \A i \in K : qs[i] = ps[g[i]]
  <2> SUFFICES ASSUME NEW i \in K PROVE qs[i] = ps[g[i]]
    OBVIOUS
  <2>1. i \in 1 .. Len(qs)
    OBVIOUS
  <2> HIDE DEF g, K
  <2>2. CASE i <= a
    BY <1>1, <1>7, <1>8, <1>9, <2>1, <2>2
  <2>3. CASE ~ (i <= a)
    BY <1>1, <1>8, <1>9, <2>3
  <2> QED BY <2>2, <2>3
<1>12. \A i \in 1 .. Len(qs) : i \notin K => qs[i] \in NoteMsg
  BY <1>8
<1>13. (a + 1 + b) \in K /\ g[a + 1 + b] = n
  <2>1. a + 1 + b \in 1 .. Len(qs) /\ a + 1 + b # a + 1 /\ ~ (a + 1 + b <= a)
    BY <1>1, <1>7
  <2>2. a + 1 + b \in K
    BY <2>1
  <2> HIDE DEF g, K
  <2> QED BY <1>1, <1>9, <2>1, <2>2
<1>14. K \subseteq 1 .. Len(qs)
  OBVIOUS
<1> HIDE DEF g, K
<1>15. \A i, j \in K : i < j => g[i] < g[j]
  <2> SUFFICES ASSUME NEW i \in K, NEW j \in K, i < j PROVE g[i] < g[j]
    OBVIOUS
  <2>1. CASE j <= a
    BY <1>1, <1>9, <2>1
  <2>2. CASE ~ (j <= a) /\ i <= a
    BY <1>1, <1>2, <1>9, <2>2
  <2>3. CASE ~ (j <= a) /\ ~ (i <= a)
    BY <1>1, <1>9, <2>3
  <2> QED BY <2>1, <2>2, <2>3
<1>16. 1 \in K => g[1] = 1
  <2> SUFFICES ASSUME 1 \in K PROVE g[1] = 1
    OBVIOUS
  <2>1. 1 <= a
    BY <1>1, <1>9
  <2> QED BY <1>9, <2>1
<1>17. \A i, j \in K : g[i] = g[j] + 1 => i = j + 1
  <2> SUFFICES ASSUME NEW i \in K, NEW j \in K, g[i] = g[j] + 1 PROVE i = j + 1
    OBVIOUS
  <2>1. CASE i <= a /\ j <= a
    BY <1>9, <2>1
  <2>2. CASE i <= a /\ ~ (j <= a)
    <3>1. g[i] = i /\ g[j] = (n - b) + (j - (a + 1)) /\ i \in Nat /\ j \in Nat
      BY <1>9, <2>2
    <3> QED BY <1>1, <1>2, <2>2, <3>1
  <2>3. CASE ~ (i <= a) /\ j <= a
    <3>1. g[j] = j /\ g[i] = (n - b) + (i - (a + 1)) /\ i \in Nat /\ j \in Nat /\ i \in a + 2 .. a + 1 + b
      BY <1>9, <2>3
    <3> QED BY <1>1, <1>2, <2>3, <3>1
  <2>4. CASE ~ (i <= a) /\ ~ (j <= a)
    <3>1. g[j] = (n - b) + (j - (a + 1)) /\ g[i] = (n - b) + (i - (a + 1)) /\ i \in Nat /\ j \in Nat
      BY <1>9, <2>4
    <3> QED BY <1>1, <3>1
  <2> QED BY <2>1, <2>2, <2>3, <2>4
<1>18. Kept(ps, qs, K, g)
  <2>1. \E i \in K : g[i] = Len(ps)
    BY <1>13 DEF n
  <2> QED BY <1>10, <1>11, <1>12, <1>14, <1>15, <1>16, <1>17, <2>1 DEF Kept, n
<1> QED BY <1>2, <1>7, <1>18

(* The messages after a split, behind a note.                              *)
LEMMA NoteAndRest ==
  ASSUME NEW ps \in Seq(Msg), NEW split \in 1 .. Len(ps) - 1, NEW note \in NoteMsg,
         NEW qs, qs = <<note>> \o SubSeq(ps, split + 1, Len(ps))
  PROVE  /\ qs \in Seq(Msg) /\ Len(qs) = Len(ps) - split + 1
         /\ Kept(ps, qs, 2 .. Len(qs), [i \in 2 .. Len(qs) |-> split + i - 1])
<1> DEFINE n == Len(ps)
           w == <<note>>
           p == SubSeq(ps, split + 1, n)
           g == [i \in 2 .. Len(qs) |-> split + i - 1]
<1>1. n \in Nat /\ split \in Nat /\ split >= 1 /\ split < n
  OBVIOUS
<1>2. p \in Seq(Msg) /\ Len(p) = n - split /\ \A i \in 1 .. n - split : p[i] = ps[split + i]
  <2>1. \A i \in split + 1 .. n : i \in 1 .. n /\ ps[i] \in Msg
    BY <1>1
  <2>2. split + 1 \in Int /\ n \in Int /\ split + 1 <= n /\ n - (split + 1) + 1 = n - split
    BY <1>1
  <2>3. /\ p \in Seq(Msg) /\ Len(p) = n - (split + 1) + 1
        /\ \A i \in 1 .. n - (split + 1) + 1 : p[i] = ps[(split + 1) + i - 1]
    <3> HIDE DEF n
    <3> QED BY <2>1, <2>2, SubSeqProperties
  <2> HIDE DEF p, n
  <2> QED BY <1>1, <2>2, <2>3
<1>3. w \in Seq(Msg) /\ Len(w) = 1 /\ w[1] = note
  BY DEF Msg
<1> HIDE DEF p, w, n
<1>4. /\ qs \in Seq(Msg) /\ Len(qs) = 1 + (n - split)
      /\ \A i \in 1 .. 1 + (n - split) : qs[i] = IF i <= 1 THEN w[i] ELSE p[i - 1]
  <2>1. qs = w \o p
    BY DEF w, p, n
  <2>2. /\ w \o p \in Seq(Msg) /\ Len(w \o p) = Len(w) + Len(p)
        /\ \A i \in 1 .. Len(w) + Len(p) : (w \o p)[i] = IF i <= Len(w) THEN w[i] ELSE p[i - Len(w)]
    BY <1>2, <1>3, ConcatProperties
  <2> QED BY <1>2, <1>3, <2>1, <2>2
<1>5. \A i \in 2 .. Len(qs) : /\ g[i] = split + i - 1 /\ g[i] \in 1 .. n /\ i \in Nat
                              /\ qs[i] = ps[g[i]]
  <2> SUFFICES ASSUME NEW i \in 2 .. Len(qs)
               PROVE  /\ g[i] = split + i - 1 /\ g[i] \in 1 .. n /\ i \in Nat
                      /\ qs[i] = ps[g[i]]
    OBVIOUS
  <2>1. g[i] = split + i - 1
    OBVIOUS
  <2> HIDE DEF g
  <2>2. i \in 1 .. 1 + (n - split) /\ ~ (i <= 1) /\ i - 1 \in 1 .. n - split
    BY <1>1, <1>4
  <2>3. qs[i] = ps[split + (i - 1)]
    BY <1>2, <1>4, <2>2
  <2>4. split + (i - 1) = split + i - 1 /\ split + i - 1 \in 1 .. n /\ i \in Nat
    BY <1>1, <2>2
  <2>5. g[i] \in 1 .. n /\ qs[i] = ps[g[i]]
    BY <2>1, <2>3, <2>4
  <2> QED BY <2>1, <2>4, <2>5
<1>6. g \in [2 .. Len(qs) -> 1 .. n]
  <2>1. g = [i \in 2 .. Len(qs) |-> g[i]]
    OBVIOUS
  <2> HIDE DEF g
  <2> QED BY <1>5, <2>1
<1>7. \A i \in 1 .. Len(qs) : i \notin 2 .. Len(qs) => qs[i] \in NoteMsg
  BY <1>1, <1>3, <1>4
<1> HIDE DEF g
<1>8. \A i, j \in 2 .. Len(qs) : i < j => g[i] < g[j]
  <2> SUFFICES ASSUME NEW i \in 2 .. Len(qs), NEW j \in 2 .. Len(qs), i < j PROVE g[i] < g[j]
    OBVIOUS
  <2>1. g[i] = split + i - 1 /\ g[j] = split + j - 1
    BY <1>5
  <2> QED BY <1>1, <1>4, <2>1
<1>9. \E i \in 2 .. Len(qs) : g[i] = n
  <2>1. Len(qs) \in 2 .. Len(qs) /\ split + Len(qs) - 1 = n
    BY <1>1, <1>4
  <2> QED BY <1>5, <2>1
<1>10. \A i, j \in 2 .. Len(qs) : g[i] = g[j] + 1 => i = j + 1
  <2> SUFFICES ASSUME NEW i \in 2 .. Len(qs), NEW j \in 2 .. Len(qs), g[i] = g[j] + 1 PROVE i = j + 1
    OBVIOUS
  <2>1. g[i] = split + i - 1 /\ g[j] = split + j - 1
    BY <1>5
  <2> QED BY <1>1, <1>4, <2>1
<1>11. 2 .. Len(qs) \subseteq 1 .. Len(qs) /\ 1 \notin 2 .. Len(qs)
  BY <1>1, <1>4
<1>12. Kept(ps, qs, 2 .. Len(qs), g)
  BY <1>5, <1>6, <1>7, <1>8, <1>9, <1>10, <1>11 DEF Kept, n
<1> QED BY <1>1, <1>4, <1>12 DEF g, n

LEMMA SmartKept ==
  ASSUME NEW s \in C!Strategy, s.name = "smart", NEW ps \in Seq(Msg), ps # <<>>,
         NEW r, r = C!SmartCompact(s, ps)
  PROVE  r.messages \in Seq(Msg) /\ \E K, g : Kept(ps, r.messages, K, g)
<1> DEFINE n    == Len(ps)
           P    == C!Preserved(s, ps)
           kept == Picked(ps, P)
           w    == IF Len(kept) < n THEN <<C!Note(<<>>)>> ELSE <<>>
           qs   == kept \o w
<1>1. s.keep_recent \in Nat /\ s.keep_recent > 0 /\ n \in Nat /\ n >= 1
  <2>1. s \in [name : {"smart"}, trigger_messages : Nat, keep_recent : Nat \ {0}]
    BY DEF C!Strategy
  <2>2. n \in Nat /\ n # 0
    OBVIOUS
  <2> HIDE DEF n
  <2> QED BY <2>1, <2>2
<1>2. P \subseteq 1 .. n /\ 1 \in P /\ n \in P
  <2>1. DOMAIN ps = 1 .. n
    OBVIOUS
  <2>2. 1 \in 1 .. n /\ n \in 1 .. n /\ n + s.keep_recent > n
    <3> HIDE DEF n
    <3> QED BY <1>1
  <2> QED BY <2>1, <2>2 DEF C!Preserved
<1>3. r.messages = qs
  <2>1. C!SelectAt(ps, LAMBDA i : i \in C!Preserved(s, ps)) = kept
    BY DEF Picked, C!SelectAt, SelectAt
  <2> QED BY <2>1 DEF C!SmartCompact, C!Ok
<1> HIDE DEF P
<1>4. kept \in Seq(Msg)
  BY PickedPlaces
<1>5. PICK e : Places(e, ps, P, kept)
  BY PickedPlaces
<1> HIDE DEF kept
<1>6. w \in Seq(Msg) /\ Len(w) \in 0 .. 1 /\ \A i \in 1 .. Len(w) : w[i] \in NoteMsg
  <2>1. C!Note(<<>>) \in NoteMsg
    BY DEF NoteMsg
  <2>2. CASE Len(kept) < n
    <3>1. w = <<C!Note(<<>>)>>
      BY <2>2
    <3> HIDE DEF w
    <3> QED BY <2>1, <3>1 DEF Msg
  <2>3. CASE ~ (Len(kept) < n)
    <3>1. w = <<>>
      BY <2>3
    <3> HIDE DEF w
    <3> QED BY <3>1
  <2> QED BY <2>2, <2>3
<1> HIDE DEF w
<1> DEFINE l == Len(kept)
           K == 1 .. l
<1>7. /\ qs \in Seq(Msg) /\ Len(qs) = l + Len(w) /\ l \in Nat
      /\ \A i \in 1 .. l + Len(w) : qs[i] = IF i <= l THEN kept[i] ELSE w[i - l]
  BY <1>4, <1>6, ConcatProperties
<1> HIDE DEF qs, n
<1>8. \A k \in 1 .. l : e[k] \in P /\ e[k] \in 1 .. n /\ kept[k] = ps[e[k]]
  BY <1>5 DEF Places, n
<1>9. \A j, k \in 1 .. l : j < k => e[j] < e[k]
  BY <1>5 DEF Places
<1>10. \A i \in P : i \in 1 .. n => \E k \in 1 .. l : e[k] = i
  BY <1>5 DEF Places, n
<1>11. e \in [K -> 1 .. n]
  BY <1>5, <1>8 DEF Places
<1> HIDE DEF l
<1>12. \A i \in K : qs[i] = ps[e[i]]
  <2> SUFFICES ASSUME NEW i \in K PROVE qs[i] = ps[e[i]]
    OBVIOUS
  <2>1. i \in 1 .. l + Len(w) /\ i <= l
    BY <1>6, <1>7
  <2>2. qs[i] = kept[i]
    BY <1>7, <2>1
  <2> QED BY <1>8, <2>2
<1>13. \A i \in 1 .. Len(qs) : i \notin K => qs[i] \in NoteMsg
  <2> SUFFICES ASSUME NEW i \in 1 .. Len(qs), i \notin K PROVE qs[i] \in NoteMsg
    OBVIOUS
  <2>1. i \in 1 .. l + Len(w) /\ ~ (i <= l) /\ i - l \in 1 .. Len(w)
    BY <1>6, <1>7
  <2> QED BY <1>6, <1>7, <2>1
<1>14. \E i \in K : e[i] = n
  <2>1. n \in P /\ n \in 1 .. n
    BY <1>2
  <2> QED BY <1>10, <2>1
<1>15. e[1] = 1
  <2>1. 1 \in P /\ 1 \in 1 .. n
    BY <1>2
  <2>2. PICK k \in 1 .. l : e[k] = 1
    BY <1>10, <2>1
  <2>3. 1 \in 1 .. l /\ e[1] \in 1 .. n
    BY <1>7, <1>8
  <2>4. CASE k = 1
    BY <2>2, <2>4
  <2>5. CASE 1 < k
    <3>1. e[1] < e[k]
      BY <1>9, <2>3, <2>5
    <3> QED BY <1>1, <2>2, <2>3, <3>1
  <2> QED BY <1>7, <2>4, <2>5
<1>16. \A i, j \in K : e[i] = e[j] + 1 => i = j + 1
  <2> SUFFICES ASSUME NEW i \in K, NEW j \in K, e[i] = e[j] + 1, i # j + 1 PROVE FALSE
    OBVIOUS
  <2>0. e[i] \in Nat /\ e[j] \in Nat /\ i \in Nat /\ j \in Nat
    BY <1>1, <1>7, <1>8
  <2>1. ~ (i < j) /\ i # j
    BY <1>9, <2>0
  <2>2. j < j + 1 /\ j + 1 < i /\ j + 1 \in K
    BY <1>7, <2>0, <2>1
  <2>3. e[j] < e[j + 1] /\ e[j + 1] < e[i] /\ e[j + 1] \in Nat
    BY <1>1, <1>8, <1>9, <2>2
  <2> QED BY <2>0, <2>3
<1>17. K \subseteq 1 .. Len(qs)
  BY <1>6, <1>7
<1>18. Kept(ps, qs, K, e)
  <2> HIDE DEF K
  <2> QED BY <1>9, <1>11, <1>12, <1>13, <1>14, <1>15, <1>16, <1>17 DEF Kept, n, K
<1> QED BY <1>3, <1>7, <1>18

HasUses(m) == SomeIn(m.content, IsToolUse)

\* No message with results is parted from the calls in the message before.
Tied(ps, K, g) ==
  \A i \in K : HasResults(ps[g[i]]) =>
    \/ \E j \in K : g[j] = g[i] - 1
    \/ ~ HasUses(ps[g[i] - 1])
    \/ HasResults(ps[g[i] - 1])

LEMMA SummaryKept ==
  ASSUME NEW ps \in Seq(Msg), ps # <<>>, ~ HasUses(ps[1]), NEW answer \in SummaryAnswers,
         NEW r, r = C!SummaryCompact(ps, answer), r.ok, r.messages # ps
  PROVE  r.messages \in Seq(Msg) /\ \E K, g : Kept(ps, r.messages, K, g) /\ Tied(ps, K, g)
<1> DEFINE n     == Len(ps)
           half  == n \div 2
           split == C!AtomicSummarySplit(ps)
<1>1. n \in Nat /\ n >= 1
  <2>1. n \in Nat /\ n # 0
    OBVIOUS
  <2> HIDE DEF n
  <2> QED BY <2>1
<1>2. half \in Nat /\ half < n /\ (half > 1 => half + 1 < n)
  <2>1. half \in Nat /\ 2 * half <= n /\ n <= 2 * half + 1
    <3> HIDE DEF n
    <3> QED BY <1>1
  <2> HIDE DEF n, half
  <2> QED BY <1>1, <2>1
<1>3. \A m, k : C!SomeIn(m, C!IsToolUse) <=> SomeIn(m, IsToolUse)
  BY DEF C!SomeIn, SomeIn, C!IsToolUse, IsToolUse
<1>4. \A m, k : C!SomeIn(m, C!IsToolResult) <=> SomeIn(m, IsToolResult)
  BY DEF C!SomeIn, SomeIn, C!IsToolResult, IsToolResult
<1>5. split = IF half # 0 /\ HasUses(ps[half]) /\ HasResults(ps[half + 1]) THEN half + 1 ELSE half
  BY <1>3, <1>4 DEF C!AtomicSummarySplit, HasUses, HasResults
<1> HIDE DEF n, half, split
<1>6. \/ split = half
      \/ split = half + 1 /\ half > 1 /\ HasResults(ps[split])
  <2>1. CASE half # 0 /\ HasUses(ps[half]) /\ HasResults(ps[half + 1])
    <3>1. half > 1
      <4>1. half # 1
        BY <2>1
      <4> QED BY <1>2, <2>1, <4>1
    <3> QED BY <1>5, <2>1, <3>1
  <2>2. CASE ~ (half # 0 /\ HasUses(ps[half]) /\ HasResults(ps[half + 1]))
    BY <1>5, <2>2
  <2> QED BY <2>1, <2>2
<1>7. split \in Nat /\ split < n
  BY <1>2, <1>6
<1>8. ~ (HasUses(ps[split]) /\ HasResults(ps[split + 1])) \/ HasResults(ps[split]) \/ split = 0
  <2>1. CASE half # 0 /\ HasUses(ps[half]) /\ HasResults(ps[half + 1])
    <3>1. split = half + 1
      BY <1>5, <2>1
    <3> QED BY <2>1, <3>1
  <2>2. CASE ~ (half # 0 /\ HasUses(ps[half]) /\ HasResults(ps[half + 1]))
    <3>1. split = half
      BY <1>5, <2>2
    <3> QED BY <2>2, <3>1
  <2> QED BY <2>1, <2>2
<1>9. \E t \in {<<>>, <<<<"summary", 0>>>>} :
        split # 0 /\ r.messages = <<C!Note(t)>> \o SubSeq(ps, split + 1, Len(ps))
  <2>1. CASE split = 0
    <3>1. r.messages = ps
      BY <2>1 DEF C!SummaryCompact, C!Ok, split
    <3> QED BY <3>1
  <2>2. CASE split # 0
    <3>1. r = IF answer = {} THEN C!Err("provider")
              ELSE LET a == CHOOSE a \in answer : TRUE
                   IN  IF a.stop = "max_tokens" THEN C!Err("cut")
                       ELSE IF a.text = <<>> THEN C!Err("empty")
                       ELSE C!Ok(<<C!Note(a.text)>> \o SubSeq(ps, split + 1, Len(ps)))
      BY <2>2 DEF C!SummaryCompact, split
    <3>2. \A why : ~ C!Err(why).ok
      BY DEF C!Err
    <3>3. answer # {}
      <4> SUFFICES ASSUME answer = {} PROVE FALSE
        OBVIOUS
      <4>1. r = C!Err("provider")
        BY <3>1
      <4> QED BY <3>2, <4>1
    <3> DEFINE a == CHOOSE a \in answer : TRUE
    <3>4. a \in answer
      BY <3>3
    <3> HIDE DEF a
    <3>5. a.stop # "max_tokens"
      <4> SUFFICES ASSUME a.stop = "max_tokens" PROVE FALSE
        OBVIOUS
      <4>1. r = C!Err("cut")
        BY <3>1, <3>3 DEF a
      <4> QED BY <3>2, <4>1
    <3>6. a.text # <<>>
      <4> SUFFICES ASSUME a.text = <<>> PROVE FALSE
        OBVIOUS
      <4>1. r = C!Err("empty")
        BY <3>1, <3>3, <3>5 DEF a
      <4> QED BY <3>2, <4>1
    <3>7. r = C!Ok(<<C!Note(a.text)>> \o SubSeq(ps, split + 1, Len(ps)))
      BY <3>1, <3>3, <3>5, <3>6 DEF a
    <3>8. r.messages = <<C!Note(a.text)>> \o SubSeq(ps, split + 1, Len(ps))
      <4>1. \A ms : C!Ok(ms).messages = ms
        BY DEF C!Ok
      <4> QED BY <3>7, <4>1
    <3>9. a.text \in {<<>>, <<<<"summary", 0>>>>}
      BY <3>4 DEF SummaryAnswers
    <3> QED BY <2>2, <3>8, <3>9
  <2> QED BY <2>1, <2>2
<1>10. PICK t \in {<<>>, <<<<"summary", 0>>>>} :
         split # 0 /\ r.messages = <<C!Note(t)>> \o SubSeq(ps, split + 1, Len(ps))
  BY <1>9
<1> DEFINE note == C!Note(t)
           qs   == r.messages
           K    == 2 .. Len(qs)
           g    == [i \in 2 .. Len(qs) |-> split + i - 1]
<1>11. note \in NoteMsg
  BY DEF NoteMsg
<1>12. split \in 1 .. Len(ps) - 1
  BY <1>1, <1>7, <1>10 DEF n
<1>13. qs = <<note>> \o SubSeq(ps, split + 1, Len(ps))
  BY <1>10
<1> HIDE DEF note, qs
<1>14. qs \in Seq(Msg) /\ Len(qs) = n - split + 1 /\ Kept(ps, qs, K, g)
  BY <1>11, <1>12, <1>13, NoteAndRest DEF n
<1>15. Tied(ps, K, g)
  <2> SUFFICES ASSUME NEW i \in K, HasResults(ps[g[i]])
               PROVE  \/ \E j \in K : g[j] = g[i] - 1
                      \/ ~ HasUses(ps[g[i] - 1])
                      \/ HasResults(ps[g[i] - 1])
    BY DEF Tied
  <2>1. g[i] = split + i - 1 /\ i \in Nat /\ i >= 2 /\ i <= Len(qs)
    BY <1>1, <1>7, <1>14
  <2>2. CASE i = 2
    <3>1. g[i] = split + 1 /\ g[i] - 1 = split
      <4> HIDE DEF g
      <4> QED BY <1>7, <2>1, <2>2
    <3> QED BY <1>8, <1>10, <3>1
  <2>3. CASE i # 2
    <3>1. i - 1 \in K /\ split + (i - 1) - 1 = (split + i - 1) - 1
      BY <1>7, <2>1, <2>3
    <3>2. g[i - 1] = g[i] - 1
      BY <2>1, <3>1
    <3> QED BY <3>1, <3>2
  <2> QED BY <2>2, <2>3
<1> QED BY <1>14, <1>15 DEF qs

(* The three strategies.                                                   *)
LEMMA CompactKept ==
  ASSUME NEW s \in C!Strategy, NEW ps \in Seq(Msg), ps # <<>>, ~ HasUses(ps[1]),
         NEW answer \in SummaryAnswers,
         NEW r, r = C!Compact(s, ps, answer), r.ok, r.messages # ps
  PROVE  /\ r.messages \in Seq(Msg)
         /\ \E K, g : /\ Kept(ps, r.messages, K, g)
                      /\ s.name = "llm_summary" => Tied(ps, K, g)
<1>1. s.name \in {"sliding_window", "llm_summary", "smart"}
  BY DEF C!Strategy
<1>2. CASE s.name = "sliding_window"
  <2>1. r = C!SlidingCompact(s, ps)
    BY <1>2 DEF C!Compact
  <2>2. r.messages \in Seq(Msg) /\ \E K, g : Kept(ps, r.messages, K, g)
    BY <1>2, <2>1, SlidingKept
  <2> QED BY <1>2, <2>2
<1>3. CASE s.name = "llm_summary"
  <2>1. r = C!SummaryCompact(ps, answer)
    BY <1>3 DEF C!Compact
  <2> QED BY <2>1, SummaryKept
<1>4. CASE s.name = "smart"
  <2>1. r = C!SmartCompact(s, ps)
    BY <1>4 DEF C!Compact
  <2>2. r.messages \in Seq(Msg) /\ \E K, g : Kept(ps, r.messages, K, g)
    BY <1>4, <2>1, SmartKept
  <2> QED BY <1>4, <2>2
<1> QED BY <1>1, <1>2, <1>3, <1>4

-----------------------------------------------------------------------------
(* The history, and how the messages hang together with it *)

AnswersOf(c, uses) ==
  /\ Len(c) \in 1 .. Len(uses)
  /\ \A k \in 1 .. Len(c) : c[k].id = uses[k].id

MessageAt(hs, h) ==
  \/ hs[h] \in SpeechMsg
  \/ /\ h > 1 /\ hs[h] \in ResultMsg /\ hs[h - 1] \in AnswerMsg
     /\ AnswersOf(hs[h].content, ToolUses(hs[h - 1]))
  \/ hs[h] \in AnswerMsg /\ GoodAnswer(hs[h].content, h - 1)

History(hs) ==
  /\ hs \in Seq(Spk)
  /\ \A h \in 1 .. Len(hs) : MessageAt(hs, h)
  /\ hs # <<>> => hs[1] \in SpeechMsg

\* K are the places of the messages that are no notes, f those in the history.
Thread(ps, hs, K, f) ==
  /\ K \in SUBSET (1 .. Len(ps)) /\ f \in [K -> 1 .. Len(hs)]
  /\ \A i \in K : ps[i] = hs[f[i]]
  /\ \A i \in 1 .. Len(ps) : i \notin K => ps[i] \in NoteMsg
  /\ \A i, j \in K : i < j => f[i] < f[j]
  /\ hs = <<>> => ps = <<>>
  /\ hs # <<>> => \E i \in K : f[i] = Len(hs)
  /\ 1 \in K => f[1] = 1
  /\ \A i, j \in K : f[i] = f[j] + 1 /\ HasResults(ps[i]) => i = j + 1

\* No result has lost its call.
Whole(ps, K, f) == \A i \in K : HasResults(ps[i]) => \E j \in K : f[i] = f[j] + 1

LEMMA MessageKinds ==
  ASSUME NEW m \in Msg
  PROVE  /\ m \in SpeechMsg => m.role = "user" /\ m.content \in Seq(SpeechBlk) /\ ~ HasUses(m) /\ ~ HasResults(m)
         /\ m \in ResultMsg => m.role = "user" /\ m.content \in Seq(ResBlk) /\ ~ HasUses(m)
         /\ m \in AnswerMsg => m.role = "assistant" /\ m.content \in Seq(AnswerBlk) /\ ~ HasResults(m)
         /\ m \in NoteMsg => m.role = "assistant" /\ ~ HasUses(m) /\ ~ HasResults(m) /\ ToolUses(m) = <<>>
<1>1. CASE m \in SpeechMsg
  <2>1. m.role = "user" /\ m.content \in Seq(SpeechBlk)
    BY <1>1 DEF SpeechMsg
  <2>2. \A b \in SpeechBlk : ~ IsToolUse(b) /\ ~ IsToolResult(b)
    BY DEF SpeechBlk, TextBlk, ImageBlk, AttBlk, FileBlk, IsToolUse, IsToolResult
  <2>3. ~ HasUses(m) /\ ~ HasResults(m)
    BY <2>1, <2>2 DEF HasUses, HasResults, SomeIn
  <2>4. m \notin AnswerMsg /\ m \notin NoteMsg
    BY <2>1, NoteIsNote DEF AnswerMsg
  <2>5. m \in ResultMsg => m.content \in Seq(ResBlk)
    BY DEF ResultMsg
  <2> QED BY <2>1, <2>3, <2>4, <2>5
<1>2. CASE m \in ResultMsg
  <2>1. m.role = "user" /\ m.content \in Seq(ResBlk)
    BY <1>2 DEF ResultMsg
  <2>2. \A b \in ResBlk : ~ IsToolUse(b)
    BY DEF ResBlk, IsToolUse
  <2>3. ~ HasUses(m)
    BY <2>1, <2>2 DEF HasUses, SomeIn
  <2>4. m \notin AnswerMsg /\ m \notin NoteMsg
    BY <2>1, NoteIsNote DEF AnswerMsg
  <2> QED BY <1>1, <2>1, <2>3, <2>4
<1>3. CASE m \in AnswerMsg
  <2>1. m.role = "assistant" /\ m.content \in Seq(AnswerBlk)
    BY <1>3 DEF AnswerMsg
  <2>2. \A b \in AnswerBlk : ~ IsToolResult(b)
    BY DEF AnswerBlk, TextBlk, ThinkBlk, UseBlk, CustomBlk, IsToolResult
  <2>3. ~ HasResults(m)
    BY <2>1, <2>2 DEF HasResults, SomeIn
  <2>4. m \notin SpeechMsg /\ m \notin ResultMsg
    BY <2>1 DEF SpeechMsg, ResultMsg
  <2>5. m \in NoteMsg => ~ HasUses(m) /\ ToolUses(m) = <<>>
    BY NoteIsNote DEF HasUses
  <2> QED BY <2>1, <2>3, <2>4, <2>5
<1>4. CASE m \in NoteMsg
  <2>1. m.role = "assistant" /\ ~ HasUses(m) /\ ~ HasResults(m) /\ ToolUses(m) = <<>>
    BY <1>4, NoteIsNote DEF HasUses, HasResults
  <2>2. m \notin SpeechMsg /\ m \notin ResultMsg
    BY <2>1 DEF SpeechMsg, ResultMsg
  <2> QED BY <1>3, <2>1, <2>2
<1> QED BY <1>1, <1>2, <1>3, <1>4 DEF Msg, Spk

\* The calls of an answer.
LEMMA UsesOfAnswer ==
  ASSUME NEW m \in AnswerMsg
  PROVE  /\ ToolUses(m) \in Seq(UseBlk)
         /\ Len(ToolUses(m)) > 0 => HasUses(m)
         /\ \A k \in 1 .. Len(ToolUses(m)) :
              \E i \in 1 .. Len(m.content) : m.content[i] = ToolUses(m)[k] /\ IsToolUse(m.content[i])
         /\ \A i \in 1 .. Len(m.content) : IsToolUse(m.content[i]) =>
              \E k \in 1 .. Len(ToolUses(m)) : m.content[i] = ToolUses(m)[k]
<1> DEFINE c == m.content
           u == ToolUses(m)
           K == {i \in 1 .. Len(c) : IsToolUse(c[i])}
<1>1. c \in Seq(AnswerBlk) /\ Len(c) \in Nat
  BY DEF AnswerMsg
<1>2. u = Picked(c, K)
  BY <1>1, ToolUsesPicked
<1> HIDE DEF c, K, u
<1>3. PICK e : Places(e, c, K, u)
  BY <1>1, <1>2, PickedPlaces
<1>4. u \in Seq(AnswerBlk)
  BY <1>1, <1>2, PickedPlaces
<1>5. \A k \in 1 .. Len(u) : e[k] \in K /\ u[k] = c[e[k]]
  BY <1>3 DEF Places
<1>6. \A k \in 1 .. Len(u) : e[k] \in 1 .. Len(c) /\ IsToolUse(c[e[k]]) /\ u[k] = c[e[k]]
  BY <1>5 DEF K
<1>7. \A k \in 1 .. Len(u) : u[k] \in UseBlk
  <2> SUFFICES ASSUME NEW k \in 1 .. Len(u) PROVE u[k] \in UseBlk
    OBVIOUS
  <2>1. u[k] \in Blk /\ IsToolUse(u[k])
    BY <1>4, <1>6 DEF Blk
  <2> QED BY <2>1, BlockKinds
<1>8. u \in Seq(UseBlk)
  <2>1. u = [k \in 1 .. Len(u) |-> u[k]] /\ Len(u) \in Nat
    BY <1>4
  <2>2. u \in [1 .. Len(u) -> UseBlk]
    BY <1>7, <2>1
  <2> QED BY <2>1, <2>2
<1>9. \A i \in 1 .. Len(c) : IsToolUse(c[i]) => \E k \in 1 .. Len(u) : c[i] = u[k]
  <2> SUFFICES ASSUME NEW i \in 1 .. Len(c), IsToolUse(c[i]) PROVE \E k \in 1 .. Len(u) : c[i] = u[k]
    OBVIOUS
  <2>1. i \in K
    BY DEF K
  <2>2. PICK k \in 1 .. Len(u) : e[k] = i
    BY <1>3, <2>1 DEF Places
  <2> QED BY <1>6, <2>2
<1>10. Len(u) > 0 => HasUses(m)
  <2> SUFFICES ASSUME Len(u) > 0 PROVE HasUses(m)
    OBVIOUS
  <2>1. 1 \in 1 .. Len(u)
    BY <1>8
  <2>2. e[1] \in 1 .. Len(c) /\ IsToolUse(c[e[1]])
    BY <1>6, <2>1
  <2>3. e[1] \in DOMAIN m.content
    BY <1>1, <2>2 DEF c
  <2> QED BY <2>2, <2>3 DEF HasUses, SomeIn, c
<1>11. \A k \in 1 .. Len(u) : \E i \in 1 .. Len(c) : c[i] = u[k] /\ IsToolUse(c[i])
  BY <1>6
<1> QED BY <1>8, <1>9, <1>10, <1>11 DEF c, u

\* Results follow an answer with calls.
LEMMA ResultsFollow ==
  ASSUME NEW hs, History(hs), NEW h \in 1 .. Len(hs), HasResults(hs[h])
  PROVE  /\ h > 1 /\ h - 1 \in 1 .. Len(hs) /\ hs[h] \in ResultMsg /\ hs[h - 1] \in AnswerMsg
         /\ AnswersOf(hs[h].content, ToolUses(hs[h - 1]))
         /\ HasUses(hs[h - 1]) /\ ~ HasResults(hs[h - 1])
<1>1. hs \in Seq(Spk) /\ MessageAt(hs, h)
  BY DEF History
<1>2. hs[h] \in Msg /\ Len(hs) \in Nat
  BY <1>1 DEF Msg
<1>3. h > 1 /\ hs[h] \in ResultMsg /\ hs[h - 1] \in AnswerMsg /\ AnswersOf(hs[h].content, ToolUses(hs[h - 1]))
  BY <1>1, <1>2, MessageKinds DEF MessageAt
<1>4. h - 1 \in 1 .. Len(hs)
  BY <1>2, <1>3
<1>5. ToolUses(hs[h - 1]) \in Seq(UseBlk)
  BY <1>3, UsesOfAnswer
<1>6. Len(ToolUses(hs[h - 1])) > 0
  BY <1>3, <1>5 DEF AnswersOf
<1>7. HasUses(hs[h - 1])
  BY <1>3, <1>6, UsesOfAnswer
<1>8. ~ HasResults(hs[h - 1])
  BY <1>3, MessageKinds DEF Msg, Spk
<1> QED BY <1>3, <1>4, <1>7, <1>8

LEMMA ThreadEnds ==
  ASSUME NEW ps, NEW hs, NEW K, NEW f, Thread(ps, hs, K, f), hs \in Seq(Spk), ps \in Seq(Msg),
         hs # <<>>, Len(ps) \in K
  PROVE  f[Len(ps)] = Len(hs)
<1>1. PICK i \in K : f[i] = Len(hs)
  BY DEF Thread
<1>2. i \in 1 .. Len(ps) /\ Len(ps) \in Nat /\ Len(hs) \in Nat
  BY DEF Thread
<1>3. f[Len(ps)] \in 1 .. Len(hs)
  BY DEF Thread
<1>4. i < Len(ps) => f[i] < f[Len(ps)]
  BY DEF Thread
<1>5. i < Len(ps) \/ i = Len(ps)
  BY <1>2
<1> QED BY <1>1, <1>2, <1>3, <1>4, <1>5

\* What a strategy keeps hangs together as before.
LEMMA ThreadCompacted ==
  ASSUME NEW ps \in Seq(Msg), NEW qs \in Seq(Msg), NEW hs, History(hs), hs # <<>>,
         NEW K, NEW f, Thread(ps, hs, K, f), Len(ps) \in K,
         NEW L, NEW g, Kept(ps, qs, L, g)
  PROVE  \E M, h : /\ Thread(qs, hs, M, h)
                   /\ Whole(ps, K, f) /\ Tied(ps, L, g) => Whole(qs, M, h)
<1> DEFINE M == {i \in L : g[i] \in K}
           h == [i \in M |-> f[g[i]]]
<1>0. hs \in Seq(Spk) /\ Len(ps) \in Nat /\ Len(qs) \in Nat /\ Len(hs) \in Nat
  BY DEF History
<1>t. /\ K \in SUBSET (1 .. Len(ps)) /\ f \in [K -> 1 .. Len(hs)]
      /\ \A i \in K : ps[i] = hs[f[i]]
      /\ \A i \in 1 .. Len(ps) : i \notin K => ps[i] \in NoteMsg
      /\ \A i, j \in K : i < j => f[i] < f[j]
      /\ 1 \in K => f[1] = 1
      /\ \A i, j \in K : f[i] = f[j] + 1 /\ HasResults(ps[i]) => i = j + 1
  BY DEF Thread
<1>k. /\ L \in SUBSET (1 .. Len(qs)) /\ g \in [L -> 1 .. Len(ps)]
      /\ \A i \in L : qs[i] = ps[g[i]]
      /\ \A i \in 1 .. Len(qs) : i \notin L => qs[i] \in NoteMsg
      /\ \A i, j \in L : i < j => g[i] < g[j]
      /\ \E i \in L : g[i] = Len(ps)
      /\ 1 \in L => g[1] = 1
      /\ \A i, j \in L : g[i] = g[j] + 1 => i = j + 1
  BY DEF Kept
<1>1. \A i \in M : i \in L /\ g[i] \in K /\ h[i] = f[g[i]]
  OBVIOUS
<1>2. h \in [M -> 1 .. Len(hs)]
  BY <1>t, <1>k
<1>3. \A i \in L : g[i] \in K => i \in M
  OBVIOUS
<1> HIDE DEF M, h
<1>4. M \in SUBSET (1 .. Len(qs))
  BY <1>1, <1>k
<1>5. \A i \in M : qs[i] = hs[h[i]]
  <2> SUFFICES ASSUME NEW i \in M PROVE qs[i] = hs[h[i]]
    OBVIOUS
  <2>1. i \in L /\ g[i] \in K /\ h[i] = f[g[i]]
    BY <1>1
  <2>2. qs[i] = ps[g[i]]
    BY <1>k, <2>1
  <2>3. ps[g[i]] = hs[f[g[i]]]
    BY <1>t, <2>1
  <2> QED BY <2>1, <2>2, <2>3
<1>6. \A i \in 1 .. Len(qs) : i \notin M => qs[i] \in NoteMsg
  <2> SUFFICES ASSUME NEW i \in 1 .. Len(qs), i \notin M PROVE qs[i] \in NoteMsg
    OBVIOUS
  <2>1. CASE i \in L
    <3>1. g[i] \notin K /\ g[i] \in 1 .. Len(ps) /\ qs[i] = ps[g[i]]
      BY <1>3, <1>k, <2>1
    <3> QED BY <1>t, <3>1
  <2> QED BY <1>k, <2>1
<1>7. \A i, j \in M : i < j => h[i] < h[j]
  <2> SUFFICES ASSUME NEW i \in M, NEW j \in M, i < j PROVE h[i] < h[j]
    OBVIOUS
  <2>1. i \in L /\ j \in L /\ g[i] \in K /\ g[j] \in K /\ h[i] = f[g[i]] /\ h[j] = f[g[j]]
    BY <1>1
  <2>2. g[i] < g[j]
    BY <1>k, <2>1
  <2>3. f[g[i]] < f[g[j]]
    BY <1>t, <2>1, <2>2
  <2> QED BY <2>1, <2>3
<1>8. \E i \in M : h[i] = Len(hs)
  <2>1. PICK i \in L : g[i] = Len(ps)
    BY <1>k
  <2>2. i \in M
    BY <1>3, <2>1
  <2>3. f[Len(ps)] = Len(hs)
    BY <1>0, ThreadEnds
  <2> QED BY <1>1, <2>1, <2>2, <2>3
<1>9. 1 \in M => h[1] = 1
  BY <1>1, <1>t, <1>k
<1>10. \A i, j \in M : h[i] = h[j] + 1 /\ HasResults(qs[i]) => i = j + 1
  <2> SUFFICES ASSUME NEW i \in M, NEW j \in M, h[i] = h[j] + 1, HasResults(qs[i]) PROVE i = j + 1
    OBVIOUS
  <2>1. g[i] \in K /\ g[j] \in K /\ f[g[i]] = f[g[j]] + 1 /\ HasResults(ps[g[i]])
    BY <1>1, <1>k
  <2>2. g[i] = g[j] + 1
    BY <1>t, <2>1
  <2> QED BY <1>1, <1>k, <2>2
<1>11. Thread(qs, hs, M, h)
  BY <1>2, <1>4, <1>5, <1>6, <1>7, <1>8, <1>9, <1>10 DEF Thread
<1>12. ASSUME Whole(ps, K, f), Tied(ps, L, g) PROVE Whole(qs, M, h)
  <2> SUFFICES ASSUME NEW i \in M, HasResults(qs[i]) PROVE \E j \in M : h[i] = h[j] + 1
    BY DEF Whole
  <2>1. g[i] \in K /\ i \in L /\ HasResults(ps[g[i]]) /\ h[i] = f[g[i]]
    BY <1>1, <1>k
  <2>2. PICK k \in K : f[g[i]] = f[k] + 1
    BY <1>12, <2>1 DEF Whole
  <2>3. g[i] = k + 1 /\ k \in Nat
    <3>1. k \in 1 .. Len(ps)
      BY <1>t
    <3>2. g[i] = k + 1
      BY <1>t, <2>1, <2>2
    <3> QED BY <1>0, <3>1, <3>2
  <2>4. k = g[i] - 1
    BY <2>3
  <2>5. HasUses(ps[k]) /\ ~ HasResults(ps[k])
    <3>1. f[g[i]] \in 1 .. Len(hs) /\ f[k] \in 1 .. Len(hs) /\ f[k] = f[g[i]] - 1
      <4>1. f[g[i]] \in 1 .. Len(hs) /\ f[k] \in 1 .. Len(hs)
        BY <1>t, <2>1
      <4> QED BY <1>0, <2>2, <4>1
    <3>2. HasResults(hs[f[g[i]]]) /\ ps[k] = hs[f[g[i]] - 1]
      BY <1>t, <2>1, <3>1
    <3> QED BY <3>1, <3>2, ResultsFollow
  <2>6. PICK j \in L : g[j] = g[i] - 1
    BY <1>12, <2>1, <2>4, <2>5 DEF Tied
  <2>7. j \in M /\ h[j] = f[k]
    BY <1>1, <1>3, <2>4, <2>6
  <2> QED BY <2>1, <2>2, <2>7
<1> QED BY <1>11, <1>12

\* The next message hangs on to the end.
LEMMA ThreadAppended ==
  ASSUME NEW ps \in Seq(Msg), NEW hs \in Seq(Spk), NEW K, NEW f, Thread(ps, hs, K, f), NEW m \in Spk,
         HasResults(m) => hs # <<>> /\ Len(ps) \in K
  PROVE  \E M, h : /\ Thread(Append(ps, m), Append(hs, m), M, h)
                   /\ Whole(ps, K, f) => Whole(Append(ps, m), M, h)
<1> DEFINE a == Len(ps)
           b == Len(hs)
           qs == Append(ps, m)
           ks == Append(hs, m)
           M == K \cup {a + 1}
           h == [i \in M |-> IF i = a + 1 THEN b + 1 ELSE f[i]]
<1>0. a \in Nat /\ b \in Nat
  OBVIOUS
<1>1. /\ Len(qs) = a + 1 /\ qs[a + 1] = m /\ \A i \in 1 .. a : qs[i] = ps[i]
      /\ Len(ks) = b + 1 /\ ks[b + 1] = m /\ \A i \in 1 .. b : ks[i] = hs[i]
      /\ ks # <<>>
  BY AppendProperties DEF Msg
<1>t. /\ K \in SUBSET (1 .. a) /\ f \in [K -> 1 .. b]
      /\ \A i \in K : ps[i] = hs[f[i]]
      /\ \A i \in 1 .. a : i \notin K => ps[i] \in NoteMsg
      /\ \A i, j \in K : i < j => f[i] < f[j]
      /\ hs = <<>> => ps = <<>>
      /\ 1 \in K => f[1] = 1
      /\ \A i, j \in K : f[i] = f[j] + 1 /\ HasResults(ps[i]) => i = j + 1
  BY DEF Thread
<1>2. hs # <<>> /\ a \in K => f[a] = b
  BY ThreadEnds
<1>3. hs = <<>> => a = 0 /\ b = 0
  BY <1>t
<1> HIDE DEF a, b, qs, ks
<1>4. \A i \in K : i \in M /\ h[i] = f[i] /\ i \in 1 .. a /\ f[i] \in 1 .. b
  <2> SUFFICES ASSUME NEW i \in K PROVE i \in M /\ h[i] = f[i] /\ i \in 1 .. a /\ f[i] \in 1 .. b
    OBVIOUS
  <2>1. i \in 1 .. a /\ i # a + 1
    BY <1>0, <1>t
  <2> QED BY <1>t, <2>1
<1>5. a + 1 \in M /\ h[a + 1] = b + 1
  OBVIOUS
<1>6. \A i \in M : i \in K \/ i = a + 1
  OBVIOUS
<1>7. h = [i \in M |-> h[i]]
  OBVIOUS
<1> HIDE DEF M, h
<1>8. h \in [M -> 1 .. b + 1]
  <2>1. \A i \in M : h[i] \in 1 .. b + 1
    BY <1>0, <1>4, <1>5, <1>6
  <2> QED BY <1>7, <2>1
<1>9. M \in SUBSET (1 .. a + 1)
  BY <1>0, <1>4, <1>6
<1>10. \A i \in M : qs[i] = ks[h[i]]
  <2> SUFFICES ASSUME NEW i \in M PROVE qs[i] = ks[h[i]]
    OBVIOUS
  <2>1. CASE i \in K
    BY <1>1, <1>4, <1>t, <2>1
  <2>2. CASE i = a + 1
    BY <1>1, <1>5, <2>2
  <2> QED BY <1>6, <2>1, <2>2
<1>11. \A i \in 1 .. a + 1 : i \notin M => qs[i] \in NoteMsg
  <2> SUFFICES ASSUME NEW i \in 1 .. a + 1, i \notin M PROVE qs[i] \in NoteMsg
    OBVIOUS
  <2>1. i \in 1 .. a /\ i \notin K
    BY <1>0, <1>4, <1>5
  <2> QED BY <1>1, <1>t, <2>1
<1>12. \A i, j \in M : i < j => h[i] < h[j]
  <2> SUFFICES ASSUME NEW i \in M, NEW j \in M, i < j PROVE h[i] < h[j]
    OBVIOUS
  <2>1. i \in K
    BY <1>0, <1>4, <1>6
  <2>2. CASE j \in K
    BY <1>4, <1>t, <2>1, <2>2
  <2>3. CASE j = a + 1
    BY <1>0, <1>4, <1>5, <2>1, <2>3
  <2> QED BY <1>6, <2>2, <2>3
<1>13. 1 \in M => h[1] = 1
  <2> SUFFICES ASSUME 1 \in M PROVE h[1] = 1
    OBVIOUS
  <2>1. CASE 1 \in K
    BY <1>4, <1>t, <2>1
  <2>2. CASE 1 = a + 1
    <3>1. a = 0
      BY <1>0, <2>2
    <3>2. b = 0
      <4> SUFFICES ASSUME b # 0 PROVE FALSE
        OBVIOUS
      <4>1. hs # <<>>
        BY <1>3
      <4>2. PICK i \in K : f[i] = Len(hs)
        BY <4>1 DEF Thread
      <4> QED BY <1>4, <3>1, <4>2
    <3> QED BY <1>5, <2>2, <3>1, <3>2
  <2> QED BY <1>6, <2>1, <2>2
<1>14. \A i, j \in M : h[i] = h[j] + 1 /\ HasResults(qs[i]) => i = j + 1
  <2> SUFFICES ASSUME NEW i \in M, NEW j \in M, h[i] = h[j] + 1, HasResults(qs[i]) PROVE i = j + 1
    OBVIOUS
  <2>1. CASE i \in K /\ j \in K
    BY <1>1, <1>4, <1>t, <2>1
  <2>2. CASE i \in K /\ j = a + 1
    BY <1>0, <1>4, <1>5, <2>2
  <2>3. CASE i = a + 1 /\ j \in K
    <3>1. hs # <<>> /\ a \in K
      BY <1>1, <2>3 DEF a
    <3>2. f[j] = b /\ f[a] = b
      BY <1>0, <1>2, <1>4, <1>5, <2>3, <3>1
    <3>3. ~ (j < a)
      BY <1>0, <1>t, <2>3, <3>1, <3>2
    <3> QED BY <1>0, <1>4, <2>3, <3>3
  <2>4. CASE i = a + 1 /\ j = a + 1
    BY <1>0, <1>5, <2>4
  <2> QED BY <1>6, <2>1, <2>2, <2>3, <2>4
<1>15. Thread(qs, ks, M, h)
  <2>1. \E i \in M : h[i] = Len(ks)
    BY <1>1, <1>5
  <2> QED BY <1>1, <1>8, <1>9, <1>10, <1>11, <1>12, <1>13, <1>14, <2>1 DEF Thread
<1>16. ASSUME Whole(ps, K, f) PROVE Whole(qs, M, h)
  <2> SUFFICES ASSUME NEW i \in M, HasResults(qs[i]) PROVE \E j \in M : h[i] = h[j] + 1
    BY DEF Whole
  <2>1. CASE i \in K
    <3>1. qs[i] = ps[i] /\ h[i] = f[i]
      BY <1>1, <1>4, <2>1
    <3>2. PICK j \in K : f[i] = f[j] + 1
      BY <1>16, <2>1, <3>1 DEF Whole
    <3> QED BY <1>4, <3>1, <3>2
  <2>2. CASE i = a + 1
    <3>1. hs # <<>> /\ a \in K
      BY <1>1, <2>2 DEF a
    <3> QED BY <1>2, <1>4, <1>5, <2>2, <3>1
  <2> QED BY <1>6, <2>1, <2>2
<1> QED BY <1>15, <1>16 DEF qs, ks

LEMMA ResultsInOne ==
  ASSUME NEW m
  PROVE  ResultsIn(<<m>>) = {m.content[k] : k \in {k \in DOMAIN m.content : IsToolResult(m.content[k])}}
BY DEF ResultsIn, ToSet

LEMMA UsesInOne ==
  ASSUME NEW m
  PROVE  UsesIn(<<m>>) = {m.content[k] : k \in {k \in DOMAIN m.content : IsToolUse(m.content[k])}}
BY DEF UsesIn, ToSet

\* What is left is where it was in the history, up to the newest.
LEMMA LeftOver ==
  ASSUME NEW ps \in Seq(Msg), NEW hs, History(hs), NEW K, NEW f, Thread(ps, hs, K, f),
         NEW left, left = Filter(ps, LAMBDA m : ~ C!IsNote(m))
  PROVE  /\ InOrder(left, hs)
         /\ hs # <<>> => left # <<>> /\ LastOf(left) = LastOf(hs)
<1> DEFINE n == Len(ps)
           N == {i \in 1 .. n : ~ C!IsNote(ps[i])}
           Is(g) == g = [i \in 0 .. n |-> IF i = 0 THEN <<>>
                        ELSE IF ~ C!IsNote(ps[i]) THEN Append(g[i - 1], ps[i]) ELSE g[i - 1]]
           g == CHOOSE g : Is(g)
<1>0. n \in Nat /\ hs \in Seq(Spk) /\ Len(hs) \in Nat
  BY DEF History
<1>t. /\ K \in SUBSET (1 .. n) /\ f \in [K -> 1 .. Len(hs)]
      /\ \A i \in K : ps[i] = hs[f[i]]
      /\ \A i \in 1 .. n : i \notin K => ps[i] \in NoteMsg
      /\ \A i, j \in K : i < j => f[i] < f[j]
  BY DEF Thread
<1>1. N = K
  <2>1. \A i \in K : hs[f[i]] \in Spk /\ ~ C!IsNote(ps[i])
    BY <1>0, <1>t, SpokenIsNoNote
  <2>2. \A i \in 1 .. n : i \notin K => C!IsNote(ps[i])
    BY <1>t, NoteIsNote
  <2> QED BY <1>t, <2>1, <2>2
<1>2. left = Picked(ps, N)
  <2>1. ASSUME NEW h PROVE Is(h) <=> IsPick(h, ps, N, n)
    BY DEF IsPick
  <2>2. left = g[n]
    BY DEF Filter, SelectAt
  <2> HIDE DEF Is, N
  <2>3. IsPick(g, ps, N, n)
    BY <1>0, <2>1, PickExists
  <2> HIDE DEF g
  <2>4. Picked(ps, N) = g[n]
    BY <1>0, <2>3, PickedIs
  <2> QED BY <2>2, <2>4
<1>3. left = Picked(ps, K)
  BY <1>1, <1>2
<1> HIDE DEF N, g, Is
<1>4. InOrder(left, hs)
  <2> DEFINE T == {f[i] : i \in K}
  <2>1. T \in SUBSET DOMAIN hs
    BY <1>0, <1>t
  <2>2. Picked(ps, K) = Picked(hs, T)
    <3>1. hs \in Seq(Msg)
      BY <1>0, SeqMonotonic DEF Msg
    <3> QED BY <1>t, <3>1, PickedEmbedded
  <2>3. left = SelectAt(hs, LAMBDA i : i \in T)
    BY <1>3, <2>2 DEF Picked
  <2> HIDE DEF T
  <2> QED BY <2>1, <2>3 DEF InOrder
<1>5. ASSUME hs # <<>> PROVE left # <<>> /\ LastOf(left) = LastOf(hs)
  <2>1. PICK i \in K : f[i] = Len(hs)
    BY <1>5 DEF Thread
  <2>2. left \in Seq(Msg)
    BY <1>3, PickedPlaces
  <2>3. PICK e : Places(e, ps, K, left)
    BY <1>3, PickedPlaces
  <2>4. \A k \in 1 .. Len(left) : e[k] \in K /\ left[k] = ps[e[k]]
    BY <2>3 DEF Places
  <2>5. PICK k \in 1 .. Len(left) : e[k] = i
    BY <1>t, <2>1, <2>3 DEF Places
  <2>6. Len(left) \in Nat /\ Len(left) \in 1 .. Len(left)
    BY <2>2, <2>5
  <2>7. k = Len(left)
    <3> SUFFICES ASSUME k < Len(left) PROVE FALSE
      BY <2>5, <2>6
    <3>1. e[k] < e[Len(left)] /\ e[Len(left)] \in K
      BY <2>3, <2>4, <2>6 DEF Places
    <3>2. f[i] < f[e[Len(left)]] /\ f[e[Len(left)]] \in 1 .. Len(hs)
      BY <1>t, <2>5, <3>1
    <3> QED BY <1>0, <2>1, <3>2
  <2>8. left[Len(left)] = hs[Len(hs)]
    BY <1>t, <2>1, <2>4, <2>5, <2>6, <2>7
  <2>9. left # <<>>
    BY <2>6
  <2> QED BY <2>8, <2>9 DEF LastOf
<1> QED BY <1>4, <1>5

\* The results of a message have their calls in the message before.
LEMMA ResultsBehind ==
  ASSUME NEW ps \in Seq(Msg), NEW hs, History(hs), NEW K, NEW f, Thread(ps, hs, K, f),
         NEW i \in 1 .. Len(ps), HasResults(ps[i]) => \E j \in K : f[i] = f[j] + 1
  PROVE  {b.id : b \in ResultsIn(<<ps[i]>>)}
           \subseteq (IF i = 1 THEN {} ELSE {b.id : b \in UsesIn(<<ps[i - 1]>>)})
<1>0. hs \in Seq(Spk) /\ Len(hs) \in Nat /\ Len(ps) \in Nat /\ ps[i] \in Msg
  BY DEF History
<1>1. CASE ~ HasResults(ps[i])
  <2>1. ResultsIn(<<ps[i]>>) = {}
    BY <1>1, ResultsInOne DEF HasResults, SomeIn
  <2> QED BY <2>1
<1>2. CASE HasResults(ps[i])
  <2>1. i \in K
    <3>1. i \notin K => ps[i] \in NoteMsg
      BY DEF Thread
    <3> QED BY <1>0, <1>2, <3>1, MessageKinds
  <2>2. PICK j \in K : f[i] = f[j] + 1
    BY <1>2
  <2>3. i = j + 1 /\ ps[i] = hs[f[i]] /\ ps[j] = hs[f[j]] /\ f[i] \in 1 .. Len(hs) /\ f[j] \in 1 .. Len(hs)
    BY <1>2, <2>1, <2>2 DEF Thread
  <2>4. j \in 1 .. Len(ps)
    BY DEF Thread
  <2>5. i # 1 /\ i - 1 = j /\ f[j] = f[i] - 1
    BY <1>0, <2>2, <2>3, <2>4
  <2>6. ps[i] \in ResultMsg /\ ps[j] \in AnswerMsg /\ AnswersOf(ps[i].content, ToolUses(ps[j]))
    BY <1>2, <2>3, <2>5, ResultsFollow
  <2> DEFINE c == ps[i].content
             u == ToolUses(ps[j])
  <2>7. c \in Seq(ResBlk) /\ DOMAIN c = 1 .. Len(c) /\ Len(c) \in Nat
    BY <2>6 DEF ResultMsg
  <2>8. u \in Seq(UseBlk) /\ Len(u) \in Nat
    BY <2>6, UsesOfAnswer
  <2>9. Len(c) <= Len(u) /\ \A k \in 1 .. Len(c) : c[k].id = u[k].id
    BY <2>6, <2>7, <2>8 DEF AnswersOf
  <2>10. ASSUME NEW b \in ResultsIn(<<ps[i]>>) PROVE \E d \in UsesIn(<<ps[j]>>) : d.id = b.id
    <3>1. PICK k \in 1 .. Len(c) : b = c[k]
      BY <2>7, ResultsInOne
    <3>2. k \in 1 .. Len(u) /\ b.id = u[k].id
      BY <2>7, <2>8, <2>9, <3>1
    <3>3. PICK l \in 1 .. Len(ps[j].content) : ps[j].content[l] = u[k] /\ IsToolUse(ps[j].content[l])
      BY <2>6, <3>2, UsesOfAnswer
    <3>4. DOMAIN ps[j].content = 1 .. Len(ps[j].content)
      BY <2>6 DEF AnswerMsg
    <3>5. u[k] \in UsesIn(<<ps[j]>>)
      BY <3>3, <3>4, UsesInOne
    <3> QED BY <3>2, <3>5
  <2> QED BY <2>5, <2>10
<1> QED BY <1>1, <1>2

-----------------------------------------------------------------------------
(* The inductive invariant *)

Mild == {"interrupt", "switch", "llm_summary"}

ThreadInv ==
  \E K, f : Thread(prompt, history, K, f) /\ (used \subseteq Mild => Whole(prompt, K, f))

ConvInv ==
  /\ provider \in Providers
  /\ History(history) /\ prompt \in Seq(Msg) /\ ThreadInv
  /\ awaiting => UserSpokeLast /\ AssertNoUnresolvedAttachments(prompt) /\ sent = Request

LEMMA InvKeepsTheThread ==
  ASSUME ConvInv
  PROVE  CompactionKeepsTheThread
<1>1. PICK K, f : Thread(prompt, history, K, f) /\ (used \subseteq Mild => Whole(prompt, K, f))
  BY DEF ConvInv, ThreadInv
<1>2. History(history) /\ prompt \in Seq(Msg)
  BY DEF ConvInv
<1> DEFINE left == Filter(prompt, LAMBDA m : ~ C!IsNote(m))
<1>3. InOrder(left, history) /\ (history # <<>> => left # <<>> /\ LastOf(left) = LastOf(history))
  BY <1>1, <1>2, LeftOver
<1>4. ASSUME used \subseteq Mild, NEW i \in DOMAIN prompt
      PROVE  {b.id : b \in ResultsIn(<<prompt[i]>>)}
               \subseteq (IF i = 1 THEN {} ELSE {b.id : b \in UsesIn(<<prompt[i - 1]>>)})
  <2>1. i \in 1 .. Len(prompt)
    BY <1>2
  <2>2. Whole(prompt, K, f)
    BY <1>1, <1>4
  <2>3. HasResults(prompt[i]) => \E j \in K : f[i] = f[j] + 1
    <3>1. i \notin K => ~ HasResults(prompt[i])
      BY <1>1, <1>2, <2>1, MessageKinds DEF Thread
    <3> QED BY <2>2, <3>1 DEF Whole
  <2> QED BY <1>1, <1>2, <2>1, <2>3, ResultsBehind
<1> HIDE DEF left
<1> QED BY <1>3, <1>4 DEF CompactionKeepsTheThread, Mild, left

\* What may be appended to a history.
LEMMA HistoryAppended ==
  ASSUME NEW hs, History(hs), NEW m,
         \/ m \in SpeechMsg
         \/ /\ hs # <<>> /\ m \in ResultMsg /\ hs[Len(hs)] \in AnswerMsg
            /\ AnswersOf(m.content, ToolUses(hs[Len(hs)]))
         \/ hs # <<>> /\ m \in AnswerMsg /\ GoodAnswer(m.content, Len(hs))
  PROVE  History(Append(hs, m))
<1> DEFINE n == Len(hs)
           ks == Append(hs, m)
<1>1. hs \in Seq(Spk) /\ n \in Nat /\ m \in Spk
  BY DEF History, Spk
<1>2. ks \in Seq(Spk) /\ Len(ks) = n + 1 /\ ks[n + 1] = m /\ \A i \in 1 .. n : ks[i] = hs[i]
  BY <1>1, AppendProperties
<1> HIDE DEF ks
<1>3. ASSUME NEW h \in 1 .. n PROVE MessageAt(ks, h)
  <2>1. MessageAt(hs, h) /\ ks[h] = hs[h]
    BY <1>2 DEF History
  <2>2. h > 1 => ks[h - 1] = hs[h - 1]
    BY <1>1, <1>2
  <2> QED BY <2>1, <2>2 DEF MessageAt
<1>4. MessageAt(ks, n + 1)
  <2>1. hs # <<>> => n > 0
    BY <1>1
  <2> HIDE DEF n
  <2>2. (n + 1) - 1 = n /\ (hs # <<>> => n + 1 > 1 /\ ks[n] = hs[n])
    BY <1>1, <1>2, <2>1
  <2> QED BY <1>2, <2>2 DEF MessageAt, n
<1>5. ks[1] \in SpeechMsg
  <2>1. CASE hs = <<>>
    BY <1>2, <2>1
  <2>2. CASE hs # <<>>
    <3>1. n \in Nat /\ n # 0
      BY <1>1, <2>2
    <3>2. 1 \in 1 .. n
      <4> HIDE DEF n
      <4> QED BY <3>1
    <3> QED BY <1>2, <2>2, <3>2 DEF History
  <2> QED BY <2>1, <2>2
<1>6. \A h \in 1 .. Len(ks) : MessageAt(ks, h)
  <2> HIDE DEF n
  <2>1. \A h \in 1 .. n + 1 : h \in 1 .. n \/ h = n + 1
    BY <1>1
  <2> QED BY <1>2, <1>3, <1>4, <2>1
<1> QED BY <1>2, <1>5, <1>6 DEF History, ks

\* Loading concerns what the user says.
LEMMA LoadedMsg ==
  ASSUME NEW m \in Msg
  PROVE  /\ m \in SpeechMsg => Loaded(m) \in SpeechMsg
         /\ m \notin SpeechMsg => Loaded(m) = m
         /\ Loaded(m) \in Msg
         /\ HasResults(Loaded(m)) <=> HasResults(m)
         /\ Loaded(m).role = m.role
<1> DEFINE c == m.content
           d == [i \in DOMAIN c |-> IF c[i].block = "attachment" THEN Image(c[i].data) ELSE c[i]]
<1>1. Loaded(m) = [m EXCEPT !.content = d]
  BY DEF Loaded
<1>2. CASE m \in SpeechMsg
  <2>1. m = [role |-> "user", content |-> c] /\ c \in Seq(SpeechBlk)
    BY <1>2 DEF SpeechMsg
  <2>2. Loaded(m) = [role |-> "user", content |-> d]
    <3> HIDE DEF c, d
    <3> QED BY <1>1, <2>1
  <2>3. \A i \in DOMAIN c : d[i] \in SpeechBlk
    <3> SUFFICES ASSUME NEW i \in DOMAIN c PROVE d[i] \in SpeechBlk
      OBVIOUS
    <3>1. c[i] \in SpeechBlk
      BY <2>1
    <3>2. CASE c[i].block = "attachment"
      <4>1. c[i].data \in Nat
        <5>1. c[i] \in AttBlk
          BY <3>1, <3>2 DEF SpeechBlk, TextBlk, ImageBlk, AttBlk, FileBlk
        <5> QED BY <5>1 DEF AttBlk
      <4>2. d[i] = Image(c[i].data)
        BY <3>2
      <4> QED BY <4>1, <4>2 DEF Image, SpeechBlk, ImageBlk
    <3>3. CASE c[i].block # "attachment"
      BY <3>1, <3>3
    <3> QED BY <3>2, <3>3
  <2>4. d \in Seq(SpeechBlk)
    <3>1. d = [i \in DOMAIN c |-> d[i]] /\ DOMAIN c = 1 .. Len(c) /\ Len(c) \in Nat
      BY <2>1
    <3> HIDE DEF c, d
    <3>2. d \in [1 .. Len(c) -> SpeechBlk]
      BY <2>3, <3>1
    <3> QED BY <3>1, <3>2
  <2>5. Loaded(m) \in SpeechMsg /\ Loaded(m).role = "user"
    BY <2>2, <2>4 DEF SpeechMsg
  <2>6. Loaded(m) \in Msg
    BY <2>5 DEF Msg, Spk
  <2> QED BY <1>2, <2>1, <2>5, <2>6, MessageKinds
<1>3. CASE m \notin SpeechMsg
  <2>1. /\ m = [role |-> m.role, content |-> c]
        /\ c = [i \in DOMAIN c |-> c[i]] /\ \A i \in DOMAIN c : c[i].block # "attachment"
    <3>1. CASE m \in ResultMsg
      <4>1. m = [role |-> m.role, content |-> c] /\ c \in Seq(ResBlk)
        BY <3>1 DEF ResultMsg
      <4>2. \A b \in ResBlk : b.block # "attachment"
        BY DEF ResBlk
      <4> QED BY <4>1, <4>2
    <3>2. CASE m \in AnswerMsg
      <4>1. m = [role |-> m.role, content |-> c] /\ c \in Seq(AnswerBlk)
        BY <3>2 DEF AnswerMsg
      <4>2. \A b \in AnswerBlk : b.block # "attachment"
        BY DEF AnswerBlk, TextBlk, ThinkBlk, UseBlk, CustomBlk
      <4> QED BY <4>1, <4>2
    <3>3. CASE m \in NoteMsg
      <4>1. m = [role |-> m.role, content |-> c]
        BY <3>3 DEF NoteMsg, C!Note, C!SystemText, C!AssistantText
      <4>2. c \in Seq([block : {"text"}, text : Seq(Words)])
        BY <3>3, NoteIsNote
      <4>3. c = [i \in DOMAIN c |-> c[i]]
        BY <4>2
      <4>4. \A b \in [block : {"text"}, text : Seq(Words)] : b.block # "attachment"
        OBVIOUS
      <4>5. \A i \in DOMAIN c : c[i].block # "attachment"
        <5>1. \A i \in DOMAIN c : c[i] \in [block : {"text"}, text : Seq(Words)]
          <6> DEFINE T == [block : {"text"}, text : Seq(Words)]
          <6>1. c \in Seq(T)
            BY <4>2
          <6> HIDE DEF c, T
          <6>2. \A i \in DOMAIN c : c[i] \in T
            BY <6>1
          <6> QED BY <6>2 DEF T
        <5> HIDE DEF c
        <5> QED BY <4>4, <5>1
      <4> QED BY <4>1, <4>3, <4>5
    <3> QED BY <1>3, <3>1, <3>2, <3>3 DEF Msg, Spk
  <2>2. d = c
    <3>1. \A i \in DOMAIN c : d[i] = c[i]
      BY <2>1
    <3> QED BY <2>1, <3>1
  <2> HIDE DEF c, d
  <2>3. Loaded(m) = m
    BY <1>1, <2>1, <2>2
  <2> QED BY <1>3, <2>3
<1> QED BY <1>2, <1>3

LEMMA LoadedHistory ==
  ASSUME NEW hs, History(hs), NEW ks, ks = [i \in DOMAIN hs |-> Loaded(hs[i])]
  PROVE  History(ks) /\ Len(ks) = Len(hs)
<1> DEFINE n == Len(hs)
<1>1. hs \in Seq(Spk) /\ n \in Nat /\ DOMAIN hs = 1 .. n /\ \A i \in 1 .. n : hs[i] \in Msg /\ hs[i] \in Spk
  BY DEF History, Msg
<1>2. \A i \in 1 .. n : ks[i] = Loaded(hs[i])
  BY <1>1
<1> HIDE DEF n
<1>3. \A i \in 1 .. n : ks[i] \in Spk
  <2> SUFFICES ASSUME NEW i \in 1 .. n PROVE ks[i] \in Spk
    OBVIOUS
  <2>1. hs[i] \in Msg /\ hs[i] \in Spk /\ ks[i] = Loaded(hs[i])
    BY <1>1, <1>2
  <2> QED BY <2>1, LoadedMsg DEF Spk
<1>4. ks \in Seq(Spk) /\ Len(ks) = n
  <2>1. ks = [i \in 1 .. n |-> ks[i]]
    BY <1>1
  <2>2. ks \in [1 .. n -> Spk]
    BY <1>3, <2>1
  <2> QED BY <1>1, <2>2
<1>5. ASSUME NEW h \in 1 .. n PROVE MessageAt(ks, h)
  <2>1. MessageAt(hs, h)
    BY DEF History, n
  <2>2. hs[h] \in Msg /\ ks[h] = Loaded(hs[h])
    BY <1>1, <1>2
  <2>3. CASE hs[h] \in SpeechMsg
    <3>1. ks[h] \in SpeechMsg
      BY <2>2, <2>3, LoadedMsg
    <3> QED BY <3>1 DEF MessageAt
  <2>4. CASE hs[h] \notin SpeechMsg
    <3>1. ks[h] = hs[h]
      BY <2>2, <2>4, LoadedMsg
    <3>2. CASE h > 1
      <4>1. h - 1 \in 1 .. n
        BY <1>1, <3>2
      <4>2. hs[h - 1] \in Msg /\ ks[h - 1] = Loaded(hs[h - 1])
        BY <1>1, <1>2, <4>1
      <4>3. hs[h - 1] \in AnswerMsg => ks[h - 1] = hs[h - 1]
        BY <4>2, LoadedMsg, MessageKinds
      <4> QED BY <2>1, <2>4, <3>1, <4>3 DEF MessageAt
    <3>3. CASE ~ (h > 1)
      BY <2>1, <2>4, <3>1, <3>3 DEF MessageAt
    <3> QED BY <3>2, <3>3
  <2> QED BY <2>3, <2>4
<1>6. ks # <<>> => ks[1] \in SpeechMsg
  <2> SUFFICES ASSUME ks # <<>> PROVE ks[1] \in SpeechMsg
    OBVIOUS
  <2>1. n # 0
    BY <1>4
  <2>2. 1 \in 1 .. n /\ hs # <<>>
    <3>1. hs # <<>>
      BY <2>1 DEF n
    <3> QED BY <1>1, <2>1, <3>1
  <2>3. hs[1] \in SpeechMsg /\ hs[1] \in Msg /\ ks[1] = Loaded(hs[1])
    BY <1>1, <1>2, <2>2 DEF History
  <2> QED BY <2>3, LoadedMsg
<1> QED BY <1>4, <1>5, <1>6 DEF History, n

LEMMA LoadedThread ==
  ASSUME NEW ps \in Seq(Msg), NEW hs, History(hs), NEW K, NEW f, Thread(ps, hs, K, f),
         NEW qs, qs = [i \in DOMAIN ps |-> Loaded(ps[i])],
         NEW ks, ks = [i \in DOMAIN hs |-> Loaded(hs[i])]
  PROVE  /\ qs \in Seq(Msg) /\ Len(qs) = Len(ps) /\ Thread(qs, ks, K, f)
         /\ Whole(ps, K, f) => Whole(qs, K, f)
<1>0. /\ hs \in Seq(Spk) /\ Len(hs) \in Nat /\ Len(ps) \in Nat /\ Len(ks) = Len(hs)
      /\ DOMAIN ps = 1 .. Len(ps) /\ DOMAIN hs = 1 .. Len(hs)
  BY LoadedHistory DEF History
<1>1. \A i \in 1 .. Len(ps) : qs[i] = Loaded(ps[i]) /\ ps[i] \in Msg
  BY <1>0
<1>2. \A i \in 1 .. Len(hs) : ks[i] = Loaded(hs[i])
  BY <1>0
<1>3. qs \in Seq(Msg) /\ Len(qs) = Len(ps)
  <2>1. \A i \in 1 .. Len(ps) : qs[i] \in Msg
    BY <1>1, LoadedMsg
  <2>2. qs = [i \in 1 .. Len(ps) |-> qs[i]]
    BY <1>0
  <2>3. qs \in [1 .. Len(ps) -> Msg]
    BY <2>1, <2>2
  <2> QED BY <1>0, <2>3
<1>t. /\ K \in SUBSET (1 .. Len(ps)) /\ f \in [K -> 1 .. Len(hs)]
      /\ \A i \in K : ps[i] = hs[f[i]]
      /\ \A i \in 1 .. Len(ps) : i \notin K => ps[i] \in NoteMsg
      /\ \A i, j \in K : i < j => f[i] < f[j]
      /\ hs = <<>> => ps = <<>>
      /\ hs # <<>> => \E i \in K : f[i] = Len(hs)
      /\ 1 \in K => f[1] = 1
      /\ \A i, j \in K : f[i] = f[j] + 1 /\ HasResults(ps[i]) => i = j + 1
  BY DEF Thread
<1>4. \A i \in K : qs[i] = ks[f[i]]
  BY <1>1, <1>2, <1>t
<1>5. \A i \in 1 .. Len(ps) : i \notin K => qs[i] \in NoteMsg
  <2> SUFFICES ASSUME NEW i \in 1 .. Len(ps), i \notin K PROVE qs[i] \in NoteMsg
    OBVIOUS
  <2>1. ps[i] \in NoteMsg /\ ps[i] \in Msg
    BY <1>1, <1>t
  <2>2. ps[i] \notin SpeechMsg
    BY <2>1, MessageKinds
  <2> QED BY <1>1, <2>1, <2>2, LoadedMsg
<1>6. \A i \in K : HasResults(qs[i]) <=> HasResults(ps[i])
  BY <1>1, <1>t, LoadedMsg
<1>7. (ks = <<>> <=> hs = <<>>) /\ (qs = <<>> <=> ps = <<>>)
  <2>1. ks \in Seq(Spk)
    BY LoadedHistory DEF History
  <2>2. ks = <<>> <=> hs = <<>>
    <3>1. ks = <<>> <=> Len(ks) = 0
      BY <2>1
    <3>2. hs = <<>> <=> Len(hs) = 0
      BY <1>0
    <3> QED BY <1>0, <3>1, <3>2
  <2>3. qs = <<>> <=> ps = <<>>
    BY <1>0, <1>3
  <2> QED BY <2>2, <2>3
<1>8. Thread(qs, ks, K, f)
  BY <1>0, <1>3, <1>4, <1>5, <1>6, <1>7, <1>t DEF Thread
<1>9. Whole(ps, K, f) => Whole(qs, K, f)
  BY <1>6 DEF Whole
<1> QED BY <1>3, <1>8, <1>9

\* What follows from the invariant.
LEMMA InvFacts ==
  ASSUME ConvInv
  PROVE  /\ history \in Seq(Spk) /\ Len(history) \in Nat /\ prompt \in Seq(Msg) /\ Len(prompt) \in Nat
         /\ DOMAIN prompt = 1 .. Len(prompt) /\ DOMAIN history = 1 .. Len(history)
         /\ history # <<>> <=> prompt # <<>>
<1>1. history \in Seq(Spk) /\ prompt \in Seq(Msg)
  BY DEF ConvInv, History
<1>2. PICK K, f : Thread(prompt, history, K, f)
  BY DEF ConvInv, ThreadInv
<1>3. history # <<>> => prompt # <<>>
  BY <1>1, <1>2 DEF Thread
<1>4. history = <<>> => prompt = <<>>
  BY <1>2 DEF Thread
<1> QED BY <1>1, <1>3, <1>4

\* The last message, when it is no note, is the newest.
LEMMA LastIsNewest ==
  ASSUME ConvInv, prompt # <<>>, LastOf(prompt) \notin NoteMsg, NEW K, NEW f, Thread(prompt, history, K, f)
  PROVE  /\ Len(prompt) \in K /\ history # <<>>
         /\ LastOf(prompt) = history[Len(history)]
         /\ history[Len(history)] \in Spk /\ MessageAt(history, Len(history))
<1>1. /\ history \in Seq(Spk) /\ Len(history) \in Nat /\ prompt \in Seq(Msg) /\ Len(prompt) \in Nat
      /\ history # <<>>
  BY InvFacts
<1>2. Len(prompt) # 0 /\ Len(history) # 0
  BY <1>1
<1>3. Len(prompt) \in 1 .. Len(prompt) /\ Len(history) \in 1 .. Len(history)
  BY <1>1, <1>2
<1>4. Len(prompt) \in K
  BY <1>3 DEF Thread, LastOf
<1>5. f[Len(prompt)] = Len(history)
  BY <1>1, <1>4, ThreadEnds
<1>6. LastOf(prompt) = history[Len(history)]
  BY <1>4, <1>5 DEF Thread, LastOf
<1> QED BY <1>1, <1>3, <1>4, <1>6 DEF ConvInv, History

LEMMA InitInv ==
  ASSUME Init
  PROVE  ConvInv
<1>1. provider \in Providers /\ history = <<>> /\ prompt = <<>> /\ awaiting = FALSE /\ used = {}
  BY DEF Init
<1>2. History(history) /\ prompt \in Seq(Msg)
  BY <1>1 DEF History
<1> DEFINE f == [i \in {} |-> 0]
<1>3. f \in [{} -> 1 .. Len(history)]
  OBVIOUS
<1> HIDE DEF f
<1>4. Thread(prompt, history, {}, f) /\ Whole(prompt, {}, f)
  BY <1>1, <1>3 DEF Thread, Whole
<1> QED BY <1>1, <1>2, <1>4 DEF ConvInv, ThreadInv

\* A step that appends one message.
LEMMA Pushed ==
  ASSUME ConvInv, NEW m \in Spk, history' = Append(history, m), prompt' = Append(prompt, m),
         provider' = provider, awaiting' = FALSE, used \subseteq used',
         History(history'),
         HasResults(m) => \E K, f : /\ Thread(prompt, history, K, f)
                                    /\ history # <<>> /\ prompt # <<>> /\ LastOf(prompt) \notin NoteMsg
  PROVE  ConvInv'
<1>1. history \in Seq(Spk) /\ prompt \in Seq(Msg) /\ provider \in Providers
  BY InvFacts DEF ConvInv
<1>2. PICK K, f : Thread(prompt, history, K, f) /\ (used \subseteq Mild => Whole(prompt, K, f))
  BY DEF ConvInv, ThreadInv
<1>3. HasResults(m) => history # <<>> /\ Len(prompt) \in K
  BY <1>2, LastIsNewest
<1>4. PICK M, h : /\ Thread(prompt', history', M, h)
                  /\ Whole(prompt, K, f) => Whole(prompt', M, h)
  BY <1>1, <1>2, <1>3, ThreadAppended
<1>5. ThreadInv'
  BY <1>2, <1>4 DEF ThreadInv
<1>6. prompt' \in Seq(Msg)
  BY <1>1, AppendProperties DEF Msg
<1> QED BY <1>1, <1>5, <1>6 DEF ConvInv

LEMMA UserSaysInv ==
  ASSUME ConvInv, UserSays
  PROVE  ConvInv'
<1>1. PICK extra \in Extras :
        Push([role |-> "user", content |-> <<Text(<<<<"user", Len(history)>>>>)>> \o extra])
  BY DEF UserSays
<1> DEFINE u == <<Text(<<<<"user", Len(history)>>>>)>>
           m == [role |-> "user", content |-> u \o extra]
<1>0. history \in Seq(Spk) /\ Len(history) \in Nat
  BY InvFacts
<1>2. u \in Seq(SpeechBlk)
  <2> DEFINE w == <<"user", Len(history)>>
  <2>1. w \in Spoken
    <3>1. w \in Words
      BY <1>0 DEF Words
    <3> QED BY <3>1 DEF Spoken
  <2> HIDE DEF w
  <2>2. <<w>> \in Seq(Spoken)
    BY <2>1
  <2>3. Text(<<w>>) \in SpeechBlk
    BY <2>2 DEF Text, SpeechBlk, TextBlk
  <2>4. <<Text(<<w>>)>> \in Seq(SpeechBlk)
    BY <2>3
  <2> QED BY <2>4 DEF w
<1>3. extra \in Seq(SpeechBlk)
  <2>1. Attachment(0) \in SpeechBlk
    BY DEF Attachment, SpeechBlk, AttBlk
  <2>2. File("text", "other", {}, {<<<<"file", 0>>>>}) \in SpeechBlk
    BY DEF File, SpeechBlk, FileBlk
  <2>3. <<Attachment(0)>> \in Seq(SpeechBlk)
    BY <2>1
  <2>4. <<File("text", "other", {}, {<<<<"file", 0>>>>})>> \in Seq(SpeechBlk)
    BY <2>2
  <2>5. <<>> \in Seq(SpeechBlk)
    OBVIOUS
  <2> QED BY <2>3, <2>4, <2>5 DEF Extras
<1> HIDE DEF u
<1>4. u \o extra \in Seq(SpeechBlk)
  BY <1>2, <1>3, ConcatProperties
<1>5. m \in SpeechMsg /\ m \in Spk
  BY <1>4 DEF SpeechMsg, Spk
<1>6. /\ ~ awaiting /\ history' = Append(history, m) /\ prompt' = Append(prompt, m)
      /\ provider' = provider /\ awaiting' = awaiting /\ used' = used \cup (IF OpenCalls = <<>> THEN {} ELSE {"interrupt"})
  BY <1>1 DEF Push, UserSays, Disturb, u
<1> HIDE DEF m
<1>7. History(history')
  BY <1>5, <1>6, HistoryAppended DEF ConvInv
<1>8. ~ HasResults(m)
  BY <1>5, MessageKinds DEF Msg
<1>9. awaiting' = FALSE
  BY <1>6
<1> QED BY <1>5, <1>6, <1>7, <1>8, <1>9, Pushed

\* Open calls are those of the newest message.
LEMMA OpenIsNewest ==
  ASSUME ConvInv, OpenCalls # <<>>
  PROVE  /\ history # <<>> /\ prompt # <<>> /\ LastOf(prompt) \notin NoteMsg
         /\ \E K, f : Thread(prompt, history, K, f)
         /\ history[Len(history)] \in AnswerMsg
         /\ OpenCalls = ToolUses(history[Len(history)])
         /\ OpenCalls \in Seq(UseBlk) /\ Len(OpenCalls) \in Nat
         /\ DOMAIN OpenCalls = 1 .. Len(OpenCalls) /\ Len(OpenCalls) > 0
<1>1. prompt # <<>> /\ LastOf(prompt).role = "assistant" /\ OpenCalls = ToolUses(LastOf(prompt))
  BY DEF OpenCalls
<1>2. LastOf(prompt) \notin NoteMsg
  BY <1>1, NoteIsNote
<1>3. PICK K, f : Thread(prompt, history, K, f)
  BY DEF ConvInv, ThreadInv
<1>4. /\ history # <<>> /\ LastOf(prompt) = history[Len(history)] /\ history[Len(history)] \in Spk
  BY <1>1, <1>2, <1>3, LastIsNewest
<1>5. history[Len(history)] \in AnswerMsg
  BY <1>1, <1>4 DEF Spk, SpeechMsg, ResultMsg
<1>6. OpenCalls \in Seq(UseBlk)
  BY <1>1, <1>4, <1>5, UsesOfAnswer
<1>7. Len(OpenCalls) \in Nat /\ DOMAIN OpenCalls = 1 .. Len(OpenCalls) /\ Len(OpenCalls) # 0
  BY <1>6
<1> QED BY <1>1, <1>2, <1>3, <1>4, <1>5, <1>6, <1>7

\* Results are appended to open calls.
LEMMA ResultsPushed ==
  ASSUME ConvInv, OpenCalls # <<>>, NEW c, DOMAIN c = 1 .. Len(c), Len(c) \in 1 .. Len(OpenCalls), c \in Seq(ResBlk),
         \A k \in 1 .. Len(c) : c[k].id = OpenCalls[k].id,
         Push([role |-> "user", content |-> c]), provider' = provider, awaiting' = awaiting, used \subseteq used'
  PROVE  ConvInv'
<1> DEFINE m == [role |-> "user", content |-> c]
<1>1. /\ history # <<>> /\ prompt # <<>> /\ LastOf(prompt) \notin NoteMsg
      /\ \E K, f : Thread(prompt, history, K, f)
      /\ history[Len(history)] \in AnswerMsg /\ OpenCalls = ToolUses(history[Len(history)])
  BY OpenIsNewest
<1>2. m \in ResultMsg /\ m \in Spk /\ m.content = c
  BY DEF ResultMsg, Spk
<1>3. ~ awaiting /\ history' = Append(history, m) /\ prompt' = Append(prompt, m)
  BY DEF Push
<1> HIDE DEF m
<1>4. AnswersOf(m.content, ToolUses(history[Len(history)]))
  BY <1>1, <1>2 DEF AnswersOf
<1>5. History(history)
  BY DEF ConvInv
<1>6. History(history')
  BY <1>1, <1>2, <1>3, <1>4, <1>5, HistoryAppended
<1>7. awaiting' = FALSE
  BY <1>3 DEF Push
<1> QED BY <1>1, <1>2, <1>3, <1>6, <1>7, Pushed

LEMMA ResultBlocks ==
  ASSUME NEW b \in UseBlk
  PROVE  /\ ResultFor(b) \in ResBlk /\ ResultFor(b).id = b.id
         /\ CancelledToolResult(b.id) \in ResBlk /\ CancelledToolResult(b.id).id = b.id
<1>1. b.id \in Nat
  BY DEF UseBlk
<1>2. \A w \in Spoken : <<w>> \in Seq(Spoken)
  OBVIOUS
<1>3. <<"result", b.id>> \in Spoken /\ <<"cancelled", 0>> \in Spoken
  BY <1>1 DEF Spoken, Words
<1>4. <<<<"result", b.id>>>> \in Seq(Spoken) /\ <<<<"cancelled", 0>>>> \in Seq(Spoken)
  BY <1>2, <1>3
<1> QED BY <1>1, <1>4 DEF ResultFor, CancelledToolResult, ToolResult, ResBlk

LEMMA ToolStepsInv ==
  ASSUME ConvInv, RunTools \/ CancelTools \/ LoseTools
  PROVE  ConvInv'
<1>0. OpenCalls # <<>>
  BY DEF RunTools, CancelTools, LoseTools
<1>1. /\ OpenCalls \in Seq(UseBlk) /\ Len(OpenCalls) \in Nat
      /\ DOMAIN OpenCalls = 1 .. Len(OpenCalls) /\ Len(OpenCalls) > 0
  BY <1>0, OpenIsNewest
<1>2. \A i \in 1 .. Len(OpenCalls) :
        /\ ResultFor(OpenCalls[i]) \in ResBlk /\ ResultFor(OpenCalls[i]).id = OpenCalls[i].id
        /\ CancelledToolResult(OpenCalls[i].id) \in ResBlk
        /\ CancelledToolResult(OpenCalls[i].id).id = OpenCalls[i].id
  BY <1>1, ResultBlocks
<1>3. ASSUME NEW c, NEW n \in 1 .. Len(OpenCalls), c = [i \in 1 .. n |-> c[i]],
             \A i \in 1 .. n : c[i] \in ResBlk /\ c[i].id = OpenCalls[i].id,
             Push([role |-> "user", content |-> c]), provider' = provider, awaiting' = awaiting, used \subseteq used'
      PROVE  ConvInv'
  <2>1. n \in Nat
    BY <1>1
  <2>2. c \in [1 .. n -> ResBlk]
    BY <1>3
  <2>3. c \in Seq(ResBlk) /\ Len(c) = n /\ DOMAIN c = 1 .. n
    BY <2>1, <2>2
  <2> QED BY <1>0, <1>3, <2>3, ResultsPushed
<1>4. CASE RunTools
  <2> DEFINE c == [i \in DOMAIN OpenCalls |-> ResultFor(OpenCalls[i])]
  <2>1. /\ Push([role |-> "user", content |-> c]) /\ provider' = provider /\ awaiting' = awaiting /\ used' = used
    BY <1>4 DEF RunTools
  <2>2. c = [i \in 1 .. Len(OpenCalls) |-> c[i]]
    BY <1>1
  <2>3. \A i \in 1 .. Len(OpenCalls) : c[i] \in ResBlk /\ c[i].id = OpenCalls[i].id
    BY <1>1, <1>2
  <2>4. Len(OpenCalls) \in 1 .. Len(OpenCalls)
    BY <1>1
  <2> HIDE DEF c
  <2> QED BY <1>3, <2>1, <2>2, <2>3, <2>4
<1>5. CASE CancelTools
  <2>1. PICK done \in 0 .. Len(OpenCalls) - 1 :
          Push([role |-> "user", content |-> [i \in DOMAIN OpenCalls |->
               IF i <= done THEN ResultFor(OpenCalls[i]) ELSE CancelledToolResult(OpenCalls[i].id)]])
    BY <1>5 DEF CancelTools
  <2> DEFINE c == [i \in DOMAIN OpenCalls |->
               IF i <= done THEN ResultFor(OpenCalls[i]) ELSE CancelledToolResult(OpenCalls[i].id)]
  <2>2. provider' = provider /\ awaiting' = awaiting /\ used' = used
    BY <1>5 DEF CancelTools
  <2>3. c = [i \in 1 .. Len(OpenCalls) |-> c[i]]
    BY <1>1
  <2>4. \A i \in 1 .. Len(OpenCalls) : c[i] \in ResBlk /\ c[i].id = OpenCalls[i].id
    BY <1>1, <1>2
  <2>5. Len(OpenCalls) \in 1 .. Len(OpenCalls) /\ Push([role |-> "user", content |-> c])
    BY <1>1, <2>1
  <2> HIDE DEF c
  <2> QED BY <1>3, <2>2, <2>3, <2>4, <2>5
<1>6. CASE LoseTools
  <2> DEFINE c == <<ResultFor(OpenCalls[1])>>
  <2>1. /\ Push([role |-> "user", content |-> c]) /\ provider' = provider /\ awaiting' = awaiting
        /\ used \subseteq used'
    BY <1>6 DEF LoseTools, Disturb
  <2>2. c = [i \in 1 .. 1 |-> c[i]] /\ c[1] = ResultFor(OpenCalls[1])
    OBVIOUS
  <2>3. 1 \in 1 .. Len(OpenCalls)
    BY <1>1
  <2> HIDE DEF c
  <2>4. \A i \in 1 .. 1 : c[i] \in ResBlk /\ c[i].id = OpenCalls[i].id
    BY <1>2, <2>2, <2>3
  <2> QED BY <1>3, <2>1, <2>2, <2>3, <2>4
<1> QED BY <1>4, <1>5, <1>6

LEMMA MaterializeInv ==
  ASSUME ConvInv, Materialize
  PROVE  ConvInv'
<1>1. /\ history' = [i \in DOMAIN history |-> Loaded(history[i])]
      /\ prompt' = [i \in DOMAIN prompt |-> Loaded(prompt[i])]
      /\ provider' = provider /\ used' = used /\ awaiting' = awaiting
      /\ ~ AssertNoUnresolvedAttachments(prompt)
  BY DEF Materialize
<1>2. PICK K, f : Thread(prompt, history, K, f) /\ (used \subseteq Mild => Whole(prompt, K, f))
  BY DEF ConvInv, ThreadInv
<1>3. History(history) /\ prompt \in Seq(Msg) /\ provider \in Providers /\ ~ awaiting
  BY <1>1 DEF ConvInv
<1>4. History(history')
  BY <1>1, <1>3, LoadedHistory
<1>5. prompt' \in Seq(Msg) /\ Thread(prompt', history', K, f) /\ (Whole(prompt, K, f) => Whole(prompt', K, f))
  BY <1>1, <1>2, <1>3, LoadedThread
<1>6. ThreadInv'
  BY <1>1, <1>2, <1>5 DEF ThreadInv
<1> QED BY <1>1, <1>3, <1>4, <1>5, <1>6 DEF ConvInv

LEMMA QuietInv ==
  ASSUME ConvInv, SwitchProvider \/ Send \/ Fail \/ UNCHANGED vars
  PROVE  ConvInv'
<1>1. CASE SwitchProvider
  <2>1. /\ history' = history /\ prompt' = prompt /\ provider' \in Providers /\ ~ awaiting' /\ used \subseteq used'
    BY <1>1 DEF SwitchProvider, Disturb
  <2> QED BY <2>1 DEF ConvInv, ThreadInv
<1>2. CASE Send
  <2>1. /\ history' = history /\ prompt' = prompt /\ provider' = provider /\ used' = used
        /\ UserSpokeLast /\ AssertNoUnresolvedAttachments(prompt) /\ sent' = Request
    BY <1>2 DEF Send
  <2>2. UserSpokeLast' /\ AssertNoUnresolvedAttachments(prompt)'
    BY <2>1 DEF UserSpokeLast, LastOf
  <2>3. Request' = Request
    BY <2>1 DEF Request
  <2> QED BY <2>1, <2>2, <2>3 DEF ConvInv, ThreadInv
<1>3. CASE Fail
  <2>1. history' = history /\ prompt' = prompt /\ provider' = provider /\ used' = used /\ ~ awaiting'
    BY <1>3 DEF Fail
  <2> QED BY <2>1 DEF ConvInv, ThreadInv
<1>4. CASE UNCHANGED vars
  <2>1. /\ history' = history /\ prompt' = prompt /\ provider' = provider /\ used' = used
        /\ awaiting' = awaiting /\ sent' = sent
    BY <1>4 DEF vars
  <2>2. UserSpokeLast' = UserSpokeLast /\ AssertNoUnresolvedAttachments(prompt)' = AssertNoUnresolvedAttachments(prompt)
    BY <2>1 DEF UserSpokeLast, LastOf
  <2>3. Request' = Request
    BY <2>1 DEF Request
  <2> QED BY <2>1, <2>2, <2>3 DEF ConvInv, ThreadInv
<1> QED BY <1>1, <1>2, <1>3, <1>4

LEMMA ReceiveInv ==
  ASSUME ConvInv, Receive
  PROVE  ConvInv'
<1>1. PICK kinds \in Answers :
        LET ps == Pieces(kinds, Len(history))
            m  == [role |-> "assistant", content |-> Parsed(ps).content]
        IN  history' = Append(history, m) /\ prompt' = Append(prompt, m)
  BY DEF Receive
<1> DEFINE c == Parsed(Pieces(kinds, Len(history))).content
           m == [role |-> "assistant", content |-> c]
<1>2. history' = Append(history, m) /\ prompt' = Append(prompt, m)
  BY <1>1
<1>3. awaiting /\ awaiting' = FALSE /\ provider' = provider /\ used' = used
  BY DEF Receive
<1>4. history # <<>> /\ Len(history) \in Nat /\ provider \in Providers
  BY <1>3, InvFacts DEF ConvInv, UserSpokeLast
<1>5. GoodAnswer(c, Len(history))
  BY <1>4, AnswersAreGood
<1>6. m \in AnswerMsg /\ m \in Spk /\ m.content = c
  <2>1. c \in Seq(AnswerBlk)
    BY <1>5 DEF GoodAnswer
  <2> HIDE DEF c
  <2> QED BY <2>1 DEF AnswerMsg, Spk
<1> HIDE DEF m, c
<1>7. History(history')
  BY <1>2, <1>4, <1>5, <1>6, HistoryAppended DEF ConvInv
<1>8. ~ HasResults(m)
  BY <1>6, MessageKinds DEF Msg
<1> QED BY <1>2, <1>3, <1>6, <1>7, <1>8, Pushed

\* A position that SelectInSeq gives.
LEMMA FirstThat ==
  ASSUME NEW n \in Nat, NEW I \in SUBSET (1 .. n), NEW k, k = IF I # {} THEN C!Min(I) ELSE 0
  PROVE  k = 0 \/ k \in I
<1>1. CASE I = {}
  BY <1>1
<1>2. CASE I # {}
  <2>1. PICK m \in I : \A l \in I : m <= l
    <3>1. I \in SUBSET Nat
      OBVIOUS
    <3> QED BY <1>2, <3>1, LeastNumber
  <2>2. k = CHOOSE x \in I : \A y \in I : x <= y
    BY <1>2 DEF C!Min
  <2> QED BY <2>1, <2>2
<1> QED BY <1>1, <1>2

\* What is compacted, is compacted by a strategy of that name.
LEMMA Named ==
  ASSUME NEW name, NEW answer, NEW r, r = C!CompactWith(Strategies, name, prompt, answer), r.ok
  PROVE  \E s \in C!Strategy : s.name = name /\ r = C!Compact(s, prompt, answer)
<1> DEFINE I == {i \in 1 .. Len(Strategies) : Strategies[i].name = name}
           k == IF I # {} THEN C!Min(I) ELSE 0
<1>1. Strategies \in Seq(C!Strategy) /\ Len(Strategies) \in Nat
  BY StrategiesAssumption
<1>2. r = IF k = 0 THEN C!Err("strategy_not_found") ELSE C!Compact(Strategies[k], prompt, answer)
  BY DEF C!CompactWith, C!SelectInSeq
<1>3. k = 0 \/ k \in I
  <2>1. I \in SUBSET (1 .. Len(Strategies))
    OBVIOUS
  <2> HIDE DEF I
  <2> QED BY <1>1, <2>1, FirstThat
<1> HIDE DEF k
<1>4. k # 0
  BY <1>2 DEF C!Err
<1>5. k \in 1 .. Len(Strategies) /\ Strategies[k].name = name /\ r = C!Compact(Strategies[k], prompt, answer)
  BY <1>2, <1>3, <1>4
<1>6. Strategies[k] \in C!Strategy
  BY <1>1, <1>5
<1> QED BY <1>5, <1>6

LEMMA Due ==
  ASSUME NEW answer, NEW r, r = C!AutoCompact(Strategies, MaxTokens, prompt, answer), r.messages # prompt
  PROVE  LET due == C!FirstDue(Strategies, MaxTokens, prompt)
         IN  due # 0 /\ Strategies[due] \in C!Strategy /\ r = C!Compact(Strategies[due], prompt, answer)
<1> DEFINE I == {i \in 1 .. Len(Strategies) : C!ShouldCompact(Strategies[i], prompt, MaxTokens)}
           k == IF I # {} THEN C!Min(I) ELSE 0
           due == C!FirstDue(Strategies, MaxTokens, prompt)
<1>1. Strategies \in Seq(C!Strategy) /\ Len(Strategies) \in Nat
  BY StrategiesAssumption
<1>2. due = k
  BY DEF C!FirstDue, C!SelectInSeq
<1>3. k = 0 \/ k \in I
  <2>1. I \in SUBSET (1 .. Len(Strategies))
    OBVIOUS
  <2> HIDE DEF I
  <2> QED BY <1>1, <2>1, FirstThat
<1>4. r = IF due = 0 THEN C!Ok(prompt) ELSE C!Compact(Strategies[due], prompt, answer)
  BY DEF C!AutoCompact
<1>5. due # 0
  BY <1>4 DEF C!Ok
<1> HIDE DEF k, due
<1>6. due \in 1 .. Len(Strategies)
  BY <1>2, <1>3, <1>5
<1>7. Strategies[due] \in C!Strategy
  BY <1>1, <1>6
<1> QED BY <1>4, <1>5, <1>7 DEF due

\* The first message has no calls: it is what the user said first, or a note.
LEMMA FirstHasNoUses ==
  ASSUME ConvInv, prompt # <<>>
  PROVE  ~ HasUses(prompt[1])
<1>1. /\ history \in Seq(Spk) /\ Len(history) \in Nat /\ prompt \in Seq(Msg) /\ Len(prompt) \in Nat
      /\ history # <<>>
  BY InvFacts
<1>2. PICK K, f : Thread(prompt, history, K, f)
  BY DEF ConvInv, ThreadInv
<1>3. 1 \in 1 .. Len(prompt) /\ prompt[1] \in Msg
  BY <1>1
<1>4. 1 \in K => prompt[1] = history[1]
  BY <1>2 DEF Thread
<1>5. history[1] \in SpeechMsg
  BY <1>1 DEF ConvInv, History
<1>6. 1 \notin K => prompt[1] \in NoteMsg
  BY <1>2, <1>3 DEF Thread
<1> QED BY <1>3, <1>4, <1>5, <1>6, MessageKinds

LEMMA InstallInv ==
  ASSUME ConvInv, NEW s \in C!Strategy, NEW answer \in SummaryAnswers,
         Install(C!Compact(s, prompt, answer), s.name)
  PROVE  ConvInv'
<1> DEFINE r == C!Compact(s, prompt, answer)
<1>1. /\ ~ awaiting' /\ UserSpokeLast /\ r.ok /\ r.messages # prompt /\ prompt' = r.messages
      /\ used' = used \cup {s.name} /\ provider' = provider /\ history' = history
  BY DEF Install, Disturb
<1>2. prompt # <<>> /\ LastOf(prompt) \notin NoteMsg
  BY <1>1, NoteIsNote DEF UserSpokeLast
<1>3. History(history) /\ prompt \in Seq(Msg) /\ provider \in Providers
  BY DEF ConvInv
<1>4. ~ HasUses(prompt[1])
  BY <1>2, FirstHasNoUses
<1> HIDE DEF r
<1>5. r = C!Compact(s, prompt, answer)
  BY DEF r
<1>6. /\ r.messages \in Seq(Msg)
      /\ \E L, g : Kept(prompt, r.messages, L, g) /\ (s.name = "llm_summary" => Tied(prompt, L, g))
  BY <1>1, <1>2, <1>3, <1>4, <1>5, CompactKept
<1>7. PICK L, g : Kept(prompt, r.messages, L, g) /\ (s.name = "llm_summary" => Tied(prompt, L, g))
  BY <1>6
<1>8. PICK K, f : Thread(prompt, history, K, f) /\ (used \subseteq Mild => Whole(prompt, K, f))
  BY DEF ConvInv, ThreadInv
<1>9. Len(prompt) \in K /\ history # <<>>
  BY <1>2, <1>8, LastIsNewest
<1>10. PICK M, h : /\ Thread(r.messages, history, M, h)
                   /\ Whole(prompt, K, f) /\ Tied(prompt, L, g) => Whole(r.messages, M, h)
  BY <1>3, <1>6, <1>7, <1>8, <1>9, ThreadCompacted
<1>11. used' \subseteq Mild => used \subseteq Mild /\ s.name = "llm_summary"
  <2>1. s.name \in {"sliding_window", "llm_summary", "smart"}
    BY DEF C!Strategy
  <2> QED BY <1>1, <2>1 DEF Mild
<1>12. ThreadInv'
  BY <1>1, <1>7, <1>8, <1>10, <1>11 DEF ThreadInv
<1> QED BY <1>1, <1>3, <1>6, <1>12 DEF ConvInv

LEMMA CompactInv ==
  ASSUME ConvInv, CompactWith \/ AutoCompact
  PROVE  ConvInv'
<1>1. CASE CompactWith
  <2>1. PICK i \in DOMAIN Strategies, answer \in SummaryAnswers :
          Install(C!CompactWith(Strategies, Strategies[i].name, prompt, answer), Strategies[i].name)
    BY <1>1 DEF CompactWith
  <2> DEFINE r == C!CompactWith(Strategies, Strategies[i].name, prompt, answer)
  <2>2. r.ok
    BY <2>1 DEF Install
  <2>3. PICK s \in C!Strategy : s.name = Strategies[i].name /\ r = C!Compact(s, prompt, answer)
    <3> HIDE DEF r
    <3>1. r = C!CompactWith(Strategies, Strategies[i].name, prompt, answer)
      BY DEF r
    <3> QED BY <2>2, <3>1, Named
  <2>4. Install(C!Compact(s, prompt, answer), s.name)
    BY <2>1, <2>3
  <2> QED BY <2>4, InstallInv
<1>2. CASE AutoCompact
  <2> DEFINE due == C!FirstDue(Strategies, MaxTokens, prompt)
  <2>1. PICK answer \in SummaryAnswers :
          Install(C!AutoCompact(Strategies, MaxTokens, prompt, answer),
                  IF due = 0 THEN "none" ELSE Strategies[due].name)
    BY <1>2 DEF AutoCompact
  <2> DEFINE r == C!AutoCompact(Strategies, MaxTokens, prompt, answer)
  <2>2. r.messages # prompt
    BY <2>1 DEF Install
  <2>3. due # 0 /\ Strategies[due] \in C!Strategy /\ r = C!Compact(Strategies[due], prompt, answer)
    <3> HIDE DEF r
    <3>1. r = C!AutoCompact(Strategies, MaxTokens, prompt, answer)
      BY DEF r
    <3> QED BY <2>2, <3>1, Due
  <2>4. Install(C!Compact(Strategies[due], prompt, answer), Strategies[due].name)
    BY <2>1, <2>3
  <2> QED BY <2>3, <2>4, InstallInv
<1> QED BY <1>1, <1>2

(* The messages hang together with the history in every state: ConvInv is  *)
(* inductive, for all providers, answers and strategies.                   *)
THEOREM ConversationHangsTogether == Spec => []ConvInv
<1>1. Init => ConvInv
  BY InitInv
<1>2. ConvInv /\ [Next]_vars => ConvInv'
  <2> SUFFICES ASSUME ConvInv, [Next]_vars PROVE ConvInv'
    OBVIOUS
  <2>1. CASE UserSays
    BY <2>1, UserSaysInv
  <2>2. CASE RunTools \/ CancelTools \/ LoseTools
    BY <2>2, ToolStepsInv
  <2>3. CASE Materialize
    BY <2>3, MaterializeInv
  <2>4. CASE SwitchProvider \/ Send \/ Fail \/ UNCHANGED vars
    BY <2>4, QuietInv
  <2>5. CASE Receive
    BY <2>5, ReceiveInv
  <2>6. CASE CompactWith \/ AutoCompact
    BY <2>6, CompactInv
  <2> QED BY <2>1, <2>2, <2>3, <2>4, <2>5, <2>6 DEF Next
<1> QED BY <1>1, <1>2, PTL DEF Spec

(* Compacting leaves what is left in order and up to the newest message,   *)
(* and a summary never parts a tool result from its call.                  *)
THEOREM TheThreadIsKept == Spec => []CompactionKeepsTheThread
<1>1. ConvInv => CompactionKeepsTheThread
  BY InvKeepsTheThread
<1> QED BY <1>1, ConversationHangsTogether, PTL

-----------------------------------------------------------------------------
(* Requests: the sanitizer of the Responses API *)

\* What stood next to what is picked, and is picked as well, stands next to it.
NextIs(e, s, K, w) ==
  \A k \in 1 .. Len(w) : e[k] + 1 \in K /\ e[k] + 1 \in 1 .. Len(s)
    => k + 1 \in 1 .. Len(w) /\ e[k + 1] = e[k] + 1

LEMMA PickedNext ==
  ASSUME NEW s, Len(s) \in Nat, NEW K, NEW w, Len(w) \in Nat, NEW e, Places(e, s, K, w)
  PROVE  NextIs(e, s, K, w)
<1> SUFFICES ASSUME NEW k \in 1 .. Len(w), e[k] + 1 \in K, e[k] + 1 \in 1 .. Len(s)
             PROVE  k + 1 \in 1 .. Len(w) /\ e[k + 1] = e[k] + 1
  BY DEF NextIs
<1>0. Len(w) \in Nat /\ Len(s) \in Nat
  OBVIOUS
<1>1. \A i \in 1 .. Len(w) : e[i] \in 1 .. Len(s) /\ e[i] \in K
  BY DEF Places
<1>2. PICK l \in 1 .. Len(w) : e[l] = e[k] + 1
  BY DEF Places
<1>3. \A i, j \in 1 .. Len(w) : i < j => e[i] < e[j]
  BY DEF Places
<1>4. e[k] \in Nat /\ e[l] \in Nat
  BY <1>0, <1>1
<1>5. k < l
  <2> SUFFICES ASSUME ~ (k < l) PROVE FALSE
    OBVIOUS
  <2>1. l < k \/ l = k
    BY <1>0
  <2> QED BY <1>2, <1>3, <1>4, <2>1
<1>6. k + 1 \in 1 .. Len(w)
  BY <1>0, <1>5
<1>7. l = k + 1
  <2> SUFFICES ASSUME k + 1 < l PROVE FALSE
    BY <1>0, <1>5
  <2>1. e[k] < e[k + 1] /\ e[k + 1] < e[l] /\ e[k + 1] \in Nat
    BY <1>0, <1>1, <1>3, <1>6
  <2> QED BY <1>2, <1>4, <2>1
<1> QED BY <1>2, <1>6, <1>7

IsOutput(x) == x.type = "function_call_output"
IsFCall(x)  == x.type = "function_call"
IsReason(x) == x.type = "reasoning"

OutputsOnce(X) ==
  \A i, j \in 1 .. Len(X) : IsOutput(X[i]) /\ IsOutput(X[j]) /\ X[i].id = X[j].id => i = j

HasCall(X, i) == \E j \in 1 .. i - 1 : IsFCall(X[j]) /\ X[j].id = X[i].id

\* Before a call there is a reasoning, and only what came of it in between.
Reasoned(X, i) ==
  \E j \in 1 .. i - 1 : IsReason(X[j]) /\ \A k \in j + 1 .. i : Responses!IsReasoningProduct(X[k])

LEMMA ItemKinds ==
  ASSUME NEW x
  PROVE  /\ Responses!IsReasoningProduct(x) => ~ IsOutput(x) /\ ~ IsReason(x) /\ ~ OfUser(x)
         /\ IsReason(x) => ~ IsOutput(x) /\ ~ IsFCall(x) /\ ~ OfUser(x)
         /\ IsFCall(x) => ~ IsOutput(x) /\ Responses!IsReasoningProduct(x)
BY DEF Responses!IsReasoningProduct, Responses!HostedWebTypes, IsOutput, IsReason, IsFCall, OfUser

LEMMA OutputsPicked ==
  ASSUME NEW X, Len(X) \in Nat
  PROVE  Responses!WithoutOrphanOutputs(X)
           = Picked(X, {i \in 1 .. Len(X) : IsOutput(X[i]) => HasCall(X, i)})
<1> DEFINE n == Len(X)
           K == {i \in 1 .. n : IsOutput(X[i]) => HasCall(X, i)}
           Is(g) == g = [i \in 0 .. n |-> IF i = 0 THEN <<>>
                        ELSE IF X[i].type = "function_call_output"
                                  => \E j \in 1 .. i - 1 : X[j].type = "function_call" /\ X[j].id = X[i].id
                             THEN Append(g[i - 1], X[i]) ELSE g[i - 1]]
           g == CHOOSE g : Is(g)
<1>1. ASSUME NEW h PROVE Is(h) <=> IsPick(h, X, K, n)
  <2>1. \A i \in 1 .. n : (X[i].type = "function_call_output"
                              => \E j \in 1 .. i - 1 : X[j].type = "function_call" /\ X[j].id = X[i].id)
                          <=> i \in K
    BY DEF IsOutput, HasCall, IsFCall
  <2>2. \A i \in 0 .. n : i = 0 \/ i \in 1 .. n
    OBVIOUS
  <2> HIDE DEF K, n
  <2> QED BY <2>1, <2>2 DEF IsPick
<1>2. Responses!WithoutOrphanOutputs(X) = g[n]
  BY DEF Responses!WithoutOrphanOutputs, Responses!SelectAt
<1> HIDE DEF Is, K
<1>3. IsPick(g, X, K, n)
  BY <1>1, PickExists
<1> HIDE DEF g
<1>4. Picked(X, K) = g[n]
  BY <1>3, PickedIs
<1> QED BY <1>2, <1>4 DEF K

LEMMA ReasoningPicked ==
  ASSUME NEW X, Len(X) \in Nat
  PROVE  Responses!WithoutLooseReasoning(X)
           = Picked(X, {i \in 1 .. Len(X) :
                          IsReason(X[i]) => i < Len(X) /\ Responses!IsReasoningProduct(X[i + 1])})
<1> DEFINE n == Len(X)
           K == {i \in 1 .. n : IsReason(X[i]) => i < Len(X) /\ Responses!IsReasoningProduct(X[i + 1])}
           Is(g) == g = [i \in 0 .. n |-> IF i = 0 THEN <<>>
                        ELSE IF X[i].type = "reasoning" => i < Len(X) /\ Responses!IsReasoningProduct(X[i + 1])
                             THEN Append(g[i - 1], X[i]) ELSE g[i - 1]]
           g == CHOOSE g : Is(g)
<1>1. ASSUME NEW h PROVE Is(h) <=> IsPick(h, X, K, n)
  BY DEF IsPick, IsReason
<1>2. Responses!WithoutLooseReasoning(X) = g[n]
  BY DEF Responses!WithoutLooseReasoning, Responses!SelectAt
<1> HIDE DEF Is, K
<1>3. IsPick(g, X, K, n)
  BY <1>1, PickExists
<1> HIDE DEF g
<1>4. Picked(X, K) = g[n]
  BY <1>3, PickedIs
<1> QED BY <1>2, <1>4 DEF K

\* What is picked keeps what it says of its items, if it keeps what that is about.
LEMMA OncePicked ==
  ASSUME NEW X, Len(X) \in Nat, NEW K, NEW Y, Len(Y) \in Nat, NEW e, Places(e, X, K, Y), OutputsOnce(X)
  PROVE  OutputsOnce(Y)
<1> SUFFICES ASSUME NEW i \in 1 .. Len(Y), NEW j \in 1 .. Len(Y),
                    IsOutput(Y[i]), IsOutput(Y[j]), Y[i].id = Y[j].id, i # j
             PROVE  FALSE
  BY DEF OutputsOnce
<1>1. /\ Y[i] = X[e[i]] /\ Y[j] = X[e[j]] /\ e[i] \in 1 .. Len(X) /\ e[j] \in 1 .. Len(X)
  BY DEF Places
<1>2. e[i] = e[j]
  BY <1>1 DEF OutputsOnce
<1>3. i < j \/ j < i
  OBVIOUS
<1>4. e[i] < e[j] \/ e[j] < e[i]
  BY <1>3 DEF Places
<1> QED BY <1>1, <1>2, <1>4

LEMMA CallsPickedBefore ==
  ASSUME NEW X, Len(X) \in Nat, NEW K, NEW Y, Len(Y) \in Nat, NEW e, Places(e, X, K, Y),
         \A i \in 1 .. Len(X) : IsFCall(X[i]) => i \in K
  PROVE  \A i \in 1 .. Len(Y) : HasCall(X, e[i]) => HasCall(Y, i)
<1> SUFFICES ASSUME NEW i \in 1 .. Len(Y), HasCall(X, e[i]) PROVE HasCall(Y, i)
  OBVIOUS
<1>0. Len(Y) \in Nat /\ Len(X) \in Nat
  OBVIOUS
<1>1. PICK j \in 1 .. e[i] - 1 : IsFCall(X[j]) /\ X[j].id = X[e[i]].id
  BY DEF HasCall
<1>2. e[i] \in 1 .. Len(X) /\ Y[i] = X[e[i]]
  BY DEF Places
<1>3. j \in 1 .. Len(X) /\ j < e[i]
  BY <1>0, <1>2
<1>4. PICK k \in 1 .. Len(Y) : e[k] = j
  BY <1>1, <1>3 DEF Places
<1>5. Y[k] = X[j]
  BY <1>4 DEF Places
<1>6. k < i
  <2> SUFFICES ASSUME ~ (k < i) PROVE FALSE
    OBVIOUS
  <2>1. i = k \/ i < k
    BY <1>0
  <2>2. i < k => e[i] < e[k]
    BY DEF Places
  <2> QED BY <1>2, <1>3, <1>4, <2>1, <2>2
<1>7. k \in 1 .. i - 1
  BY <1>0, <1>6
<1> QED BY <1>1, <1>2, <1>5, <1>7 DEF HasCall

PlaceIs(e, s, K, w) == \A i \in 1 .. Len(w) : e[i] \in 1 .. Len(s) /\ e[i] \in K /\ w[i] = s[e[i]]

LEMMA PlacesAt ==
  ASSUME NEW s, NEW K, NEW w, NEW e, Places(e, s, K, w)
  PROVE  PlaceIs(e, s, K, w)
BY DEF Places, PlaceIs

LEMMA PlacesOrder ==
  ASSUME NEW s, Len(s) \in Nat, NEW K, NEW w, Len(w) \in Nat, NEW e, Places(e, s, K, w)
  PROVE  /\ \A i \in 1 .. Len(w) : e[i] \in 1 .. Len(s) /\ e[i] \in K /\ w[i] = s[e[i]]
         /\ \A i, j \in 1 .. Len(w) : (i <= j => e[i] <= e[j]) /\ (e[i] < e[j] => i < j)
<1> SUFFICES ASSUME NEW i \in 1 .. Len(w), NEW j \in 1 .. Len(w)
             PROVE  /\ e[i] \in 1 .. Len(s) /\ e[i] \in K /\ w[i] = s[e[i]]
                    /\ (i <= j => e[i] <= e[j]) /\ (e[i] < e[j] => i < j)
  OBVIOUS
<1>1. e[i] \in 1 .. Len(s) /\ e[j] \in 1 .. Len(s) /\ e[i] \in K /\ w[i] = s[e[i]]
  BY DEF Places
<1>2. (i < j => e[i] < e[j]) /\ (j < i => e[j] < e[i])
  BY DEF Places
<1>3. i \in Nat /\ j \in Nat /\ e[i] \in Nat /\ e[j] \in Nat
  BY <1>1
<1>4. i <= j => e[i] <= e[j]
  BY <1>2, <1>3
<1>5. e[i] < e[j] => i < j
  BY <1>2, <1>3
<1> QED BY <1>1, <1>4, <1>5

LEMMA SanitizedItems ==
  ASSUME NEW S, NEW X \in Seq(S), OutputsOnce(X), NEW Z, Z = Responses!SanitizeInputItems(X)
  PROVE  /\ Z \in Seq(S) /\ OutputsOnce(Z)
         /\ \A i \in 1 .. Len(Z) : IsOutput(Z[i]) => HasCall(Z, i)
         /\ \A i \in 1 .. Len(Z) : IsReason(Z[i]) => i < Len(Z) /\ Responses!IsReasoningProduct(Z[i + 1])
         /\ (\A x \in 1 .. Len(X) : IsFCall(X[x]) => Reasoned(X, x))
              => \A i \in 1 .. Len(Z) : IsFCall(Z[i]) =>
                   \E k \in 1 .. i - 1 : IsReason(Z[k]) /\ \A j \in k .. i : ~ OfUser(Z[j])
<1> DEFINE A == {i \in 1 .. Len(X) : IsOutput(X[i]) => HasCall(X, i)}
           Y == Responses!WithoutOrphanOutputs(X)
           B == {i \in 1 .. Len(Y) : IsReason(Y[i]) => i < Len(Y) /\ Responses!IsReasoningProduct(Y[i + 1])}
<1>0. Len(X) \in Nat
  OBVIOUS
<1>1. Y = Picked(X, A)
  BY <1>0, OutputsPicked
<1>a. \A i \in 1 .. Len(X) : i \in A <=> (IsOutput(X[i]) => HasCall(X, i))
  OBVIOUS
<1> HIDE DEF A
<1>2. Y \in Seq(S)
  BY <1>1, PickedPlaces
<1>3. PICK e : Places(e, X, A, Y)
  BY <1>1, PickedPlaces
<1>4. Z = Responses!WithoutLooseReasoning(Y)
  BY DEF Responses!SanitizeInputItems
<1> HIDE DEF Y
<1>5. Len(Y) \in Nat
  BY <1>2
<1>6. Z = Picked(Y, B)
  BY <1>4, <1>5, ReasoningPicked
<1>b. \A i \in 1 .. Len(Y) :
        i \in B <=> (IsReason(Y[i]) => i < Len(Y) /\ Responses!IsReasoningProduct(Y[i + 1]))
  OBVIOUS
<1> HIDE DEF B
<1>7. Z \in Seq(S)
  BY <1>2, <1>6, PickedPlaces
<1>8. PICK f : Places(f, Y, B, Z)
  BY <1>2, <1>6, PickedPlaces
<1>9. Len(Z) \in Nat
  BY <1>7
<1>10. OutputsOnce(Z)
  <2>1. OutputsOnce(Y)
    BY <1>0, <1>5, <1>3, OncePicked
  <2> QED BY <1>5, <1>9, <1>8, <2>1, OncePicked
<1>11. \A i \in 1 .. Len(Y) : e[i] \in 1 .. Len(X) /\ e[i] \in A /\ Y[i] = X[e[i]]
  BY <1>0, <1>5, <1>3, PlacesOrder
<1>12. \A i \in 1 .. Len(Z) : f[i] \in 1 .. Len(Y) /\ f[i] \in B /\ Z[i] = Y[f[i]]
  <2>1. PlaceIs(f, Y, B, Z)
    BY <1>8, PlacesAt
  <2> QED BY <2>1 DEF PlaceIs
<1>16. /\ \A i, j \in 1 .. Len(Y) : (i <= j => e[i] <= e[j]) /\ (e[i] < e[j] => i < j)
       /\ \A i \in 1 .. Len(Y) : e[i] + 1 \in A /\ e[i] + 1 \in 1 .. Len(X)
            => i + 1 \in 1 .. Len(Y) /\ e[i + 1] = e[i] + 1
  <2>1. \A i, j \in 1 .. Len(Y) : (i <= j => e[i] <= e[j]) /\ (e[i] < e[j] => i < j)
    BY <1>0, <1>5, <1>3, PlacesOrder
  <2>2. \A i \in 1 .. Len(Y) : e[i] + 1 \in A /\ e[i] + 1 \in 1 .. Len(X)
            => i + 1 \in 1 .. Len(Y) /\ e[i + 1] = e[i] + 1
    <3>1. NextIs(e, X, A, Y)
      BY <1>0, <1>5, <1>3, PickedNext
    <3> QED BY <3>1 DEF NextIs
  <2> QED BY <2>1, <2>2
<1>17. /\ \A i, j \in 1 .. Len(Z) : (i <= j => f[i] <= f[j]) /\ (f[i] < f[j] => i < j)
       /\ \A i \in 1 .. Len(Z) : f[i] + 1 \in B /\ f[i] + 1 \in 1 .. Len(Y)
            => i + 1 \in 1 .. Len(Z) /\ f[i + 1] = f[i] + 1
  <2>1. \A i, j \in 1 .. Len(Z) : (i <= j => f[i] <= f[j]) /\ (f[i] < f[j] => i < j)
    BY <1>5, <1>9, <1>8, PlacesOrder, Zenon
  <2>2. \A i \in 1 .. Len(Z) : f[i] + 1 \in B /\ f[i] + 1 \in 1 .. Len(Y)
            => i + 1 \in 1 .. Len(Z) /\ f[i + 1] = f[i] + 1
    <3>1. NextIs(f, Y, B, Z)
      BY <1>5, <1>9, <1>8, PickedNext
    <3> QED BY <3>1 DEF NextIs
  <2> QED BY <2>1, <2>2
<1>13. ASSUME NEW i \in 1 .. Len(Z), IsOutput(Z[i]) PROVE HasCall(Z, i)
  <2>1. f[i] \in 1 .. Len(Y) /\ IsOutput(Y[f[i]])
    BY <1>12, <1>13
  <2>2. e[f[i]] \in 1 .. Len(X) /\ e[f[i]] \in A /\ IsOutput(X[e[f[i]]])
    BY <1>11, <2>1
  <2>3. HasCall(X, e[f[i]])
    BY <1>a, <2>2
  <2>4. \A x \in 1 .. Len(X) : IsFCall(X[x]) => x \in A
    BY <1>a, ItemKinds
  <2>5. HasCall(Y, f[i])
    BY <1>0, <1>5, <1>3, <2>1, <2>3, <2>4, CallsPickedBefore
  <2>6. \A x \in 1 .. Len(Y) : IsFCall(Y[x]) => x \in B
    BY <1>b, ItemKinds
  <2> QED BY <1>5, <1>9, <1>8, <2>5, <2>6, CallsPickedBefore
<1>14. ASSUME NEW i \in 1 .. Len(Z), IsReason(Z[i])
       PROVE  i < Len(Z) /\ Responses!IsReasoningProduct(Z[i + 1])
  <2>1. f[i] \in 1 .. Len(Y) /\ f[i] \in B /\ IsReason(Y[f[i]])
    BY <1>12, <1>14
  <2>2. f[i] < Len(Y) /\ Responses!IsReasoningProduct(Y[f[i] + 1])
    BY <1>b, <2>1
  <2>3. f[i] + 1 \in 1 .. Len(Y)
    BY <1>5, <2>1, <2>2
  <2>4. f[i] + 1 \in B
    BY <1>b, <2>2, <2>3, ItemKinds
  <2>5. i + 1 \in 1 .. Len(Z) /\ f[i + 1] = f[i] + 1
    BY <1>17, <2>3, <2>4
  <2>6. Z[i + 1] = Y[f[i] + 1]
    BY <1>12, <2>5
  <2> QED BY <1>9, <2>2, <2>5, <2>6
<1>15. ASSUME \A x \in 1 .. Len(X) : IsFCall(X[x]) => Reasoned(X, x),
              NEW i \in 1 .. Len(Z), IsFCall(Z[i])
       PROVE  \E k \in 1 .. i - 1 : IsReason(Z[k]) /\ \A j \in k .. i : ~ OfUser(Z[j])
  <2> DEFINE a == f[i]
             x == e[a]
  <2>1. a \in 1 .. Len(Y) /\ IsFCall(Y[a])
    BY <1>12, <1>15
  <2>2. x \in 1 .. Len(X) /\ IsFCall(X[x])
    BY <1>11, <2>1
  <2>3. PICK y \in 1 .. x - 1 : IsReason(X[y]) /\ \A k \in y + 1 .. x : Responses!IsReasoningProduct(X[k])
    BY <1>15, <2>2 DEF Reasoned
  <2> HIDE DEF x
  <2>4. y \in 1 .. Len(X) /\ y < x /\ y + 1 \in 1 .. Len(X) /\ y + 1 \in y + 1 .. x
    BY <1>0, <2>2
  <2>5. y \in A /\ y + 1 \in A
    <3>1. ~ IsOutput(X[y]) /\ ~ IsOutput(X[y + 1])
      BY <2>3, <2>4, ItemKinds
    <3> QED BY <1>a, <2>4, <3>1
  <2>6. PICK b \in 1 .. Len(Y) : e[b] = y
    BY <1>3, <2>4, <2>5 DEF Places
  <2>7. b + 1 \in 1 .. Len(Y) /\ e[b + 1] = y + 1
    BY <1>16, <2>4, <2>5, <2>6
  <2>8. b < a
    BY <1>16, <2>1, <2>4, <2>6 DEF x
  <2>9. b \in B
    <3>1. Y[b + 1] = X[y + 1] /\ Responses!IsReasoningProduct(X[y + 1])
      BY <1>11, <2>3, <2>4, <2>7
    <3>2. b < Len(Y)
      BY <1>5, <2>7
    <3> QED BY <1>b, <3>1, <3>2
  <2>10. PICK c \in 1 .. Len(Z) : f[c] = b
    BY <1>8, <2>9 DEF Places
  <2>11. c < i
    BY <1>17, <2>8, <2>10
  <2>12. IsReason(Z[c])
    BY <1>11, <1>12, <2>3, <2>6, <2>10
  <2>13. ASSUME NEW j \in c .. i PROVE ~ OfUser(Z[j])
    <3>1. j \in 1 .. Len(Z) /\ c <= j /\ j <= i
      BY <1>9
    <3>2. f[c] <= f[j] /\ f[j] <= f[i] /\ f[j] \in 1 .. Len(Y) /\ Z[j] = Y[f[j]]
      BY <1>12, <1>17, <3>1
    <3>3. e[b] <= e[f[j]] /\ e[f[j]] <= e[a] /\ e[f[j]] \in 1 .. Len(X) /\ Y[f[j]] = X[e[f[j]]]
      BY <1>11, <1>16, <2>1, <2>10, <3>2
    <3>4. y <= e[f[j]] /\ e[f[j]] <= x
      BY <2>6, <3>3 DEF x
    <3>5. e[f[j]] = y \/ e[f[j]] \in y + 1 .. x
      BY <1>0, <2>2, <2>4, <3>3, <3>4
    <3> QED BY <2>3, <3>2, <3>3, <3>5, ItemKinds
  <2>14. c \in 1 .. i - 1
    BY <1>9, <2>11
  <2> QED BY <2>12, <2>13, <2>14
<1> QED BY <1>7, <1>10, <1>13, <1>14, <1>15

-----------------------------------------------------------------------------
(* Requests: what the assistant's messages are over the Responses API *)

LEMMA OneElement ==
  ASSUME NEW x
  PROVE  Responses!SetToSeq({x}) = <<x>>
<1> DEFINE F == [1 .. Responses!Cardinality({x}) -> {x}]
           f == CHOOSE f \in F : Responses!IsInjective(f)
<1>1. Responses!Cardinality({x}) = 1
  <2>1. Cardinality({x}) = 1
    BY FS_Singleton
  <2>2. Responses!Cardinality({x}) = Cardinality({x})
    BY DEF Responses!Cardinality, Cardinality
  <2> QED BY <2>1, <2>2
<1>2. \A g : g \in F <=> g = <<x>>
  <2>1. \A g : g \in [1 .. 1 -> {x}] => g = <<x>>
    <3> SUFFICES ASSUME NEW g \in [1 .. 1 -> {x}] PROVE g = <<x>>
      OBVIOUS
    <3>1. g = [i \in 1 .. 1 |-> x]
      OBVIOUS
    <3>2. <<x>> = [i \in 1 .. 1 |-> x]
      OBVIOUS
    <3> QED BY <3>1, <3>2
  <2>2. <<x>> \in [1 .. 1 -> {x}]
    OBVIOUS
  <2> QED BY <1>1, <2>1, <2>2
<1>3. Responses!IsInjective(<<x>>)
  BY DEF Responses!IsInjective
<1>4. \E g \in F : Responses!IsInjective(g)
  <2> HIDE DEF F
  <2> QED BY <1>2, <1>3
<1>5. f \in F
  <2> HIDE DEF F
  <2> QED BY <1>4
<1>6. f = <<x>>
  <2> HIDE DEF F, f
  <2> QED BY <1>2, <1>5
<1>7. Responses!SetToSeq({x}) = f
  BY DEF Responses!SetToSeq
<1> QED BY <1>6, <1>7

(* The items of the assistant, and the blocks they come from.              *)
NoteBlk == [block : {"text"}, text : Seq(Words)]
PastBlk == AnswerBlk \cup NoteBlk

AReason == [type : {"reasoning"}, form : Responses!ReasoningMode, text : Seq(Words \cup Marks)]
ACall   == [type : {"function_call"}, id : Nat, name : {ToolName}, arguments : {"object", "null"}]
AHosted == [type : {"web_search_call"}, data : Marks]
AText   == [type : {"message"}, role : {"assistant"},
            parts : Seq([part : {"text"}, text : Seq(Words)])]
AItem   == AReason \cup ACall \cup AHosted \cup AText

LEMMA AItemKinds ==
  ASSUME NEW x \in AItem
  PROVE  ~ IsOutput(x) /\ (IsReason(x) \/ Responses!IsReasoningProduct(x))
BY DEF AItem, AReason, ACall, AHosted, AText, IsOutput, IsReason, Responses!IsReasoningProduct,
       Responses!HostedWebTypes

LEMMA PastBlkKinds ==
  ASSUME NEW b \in PastBlk
  PROVE  /\ b \in TextBlk \cup NoteBlk <=> b.block = "text"
         /\ b \in ThinkBlk <=> IsThinking(b)
         /\ b \in UseBlk <=> IsToolUse(b)
         /\ b \in CustomBlk <=> b.block = "custom"
         /\ b \in TextBlk \cup NoteBlk \/ b \in ThinkBlk \/ b \in UseBlk \/ b \in CustomBlk
BY DEF PastBlk, NoteBlk, AnswerBlk, TextBlk, ThinkBlk, UseBlk, CustomBlk, IsThinking, IsToolUse

\* What a block that is no text becomes.
LEMMA ItemOfBlock ==
  ASSUME NEW b \in PastBlk, NEW mode \in Responses!ReasoningMode, b.block # "text",
         NEW o, o = Responses!AssistantItem(b, mode)
  PROVE  /\ o \in Options(AItem)
         /\ \A x \in o : IsFCall(x) => IsToolUse(b)
         /\ IsThinking(b) /\ mode = "plaintext" => \E x \in o : IsReason(x)
<1>1. CASE b \in ThinkBlk
  <2>1. b.block = "thinking" /\ b.text \in Seq(Spoken) /\ b.signature \in Options(Marks)
    BY <1>1 DEF ThinkBlk
  <2>2. o = Responses!ReasoningItem(b, mode)
    BY <2>1 DEF Responses!AssistantItem, Responses!IsThinking, Responses!IsToolUse
  <2>3. b.text \in Seq(Words \cup Marks)
    <3>1. Spoken \subseteq Words \cup Marks
      BY DEF Spoken
    <3> QED BY <2>1, <3>1, SeqMonotonic
  <2>4. \A t \in Seq(Words \cup Marks) : Responses!Reasoning(mode, t) \in AReason
    BY DEF Responses!Reasoning, AReason
  <2>5. CASE mode = "encrypted"
    <3> DEFINE W == UNION {Responses!DecodeReasoningSignature(s) : s \in b.signature}
    <3>1. o = {Responses!Reasoning(mode, <<w>>) : w \in W}
      BY <2>2, <2>5 DEF Responses!ReasoningItem
    <3>2. W \subseteq Marks /\ \A v, w \in W : v = w
      BY <2>1 DEF Responses!DecodeReasoningSignature, Options
    <3>3. \A w \in W : <<w>> \in Seq(Words \cup Marks)
      BY <3>2
    <3> HIDE DEF W
    <3>4. o \subseteq AReason /\ \A x, y \in o : x = y
      BY <2>4, <3>1, <3>2, <3>3
    <3>5. \A x \in AReason : ~ IsFCall(x)
      BY DEF AReason, IsFCall
    <3> QED BY <2>5, <3>4, <3>5 DEF Options, AItem
  <2>6. CASE mode = "plaintext"
    <3>1. o = {Responses!Reasoning(mode, b.text)}
      BY <2>2, <2>6 DEF Responses!ReasoningItem
    <3>2. IsReason(Responses!Reasoning(mode, b.text)) /\ ~ IsFCall(Responses!Reasoning(mode, b.text))
      BY DEF Responses!Reasoning, IsReason, IsFCall
    <3> QED BY <2>3, <2>4, <3>1, <3>2 DEF Options, AItem
  <2>7. CASE mode = "summary"
    <3>1. o \subseteq {Responses!Reasoning(mode, b.text)}
      BY <2>2, <2>7 DEF Responses!ReasoningItem
    <3>2. ~ IsFCall(Responses!Reasoning(mode, b.text))
      BY DEF Responses!Reasoning, IsFCall
    <3>3. o \in Options(AItem)
      BY <2>3, <2>4, <3>1 DEF Options, AItem
    <3> QED BY <2>7, <3>1, <3>2, <3>3
  <2>8. CASE mode = "drop"
    <3>1. o = {}
      BY <2>2, <2>8 DEF Responses!ReasoningItem
    <3> QED BY <2>8, <3>1 DEF Options
  <2> QED BY <2>5, <2>6, <2>7, <2>8 DEF Responses!ReasoningMode
<1>2. CASE b \in UseBlk
  <2>1. b.block = "tool_use" /\ b.id \in Nat /\ b.name = ToolName /\ b.input \in {"object", "null"}
    BY <1>2 DEF UseBlk
  <2>2. o = {Responses!FunctionCall(b.id, b.name, b.input)}
    BY <2>1 DEF Responses!AssistantItem, Responses!IsThinking, Responses!IsToolUse
  <2>3. Responses!FunctionCall(b.id, b.name, b.input) \in ACall
    BY <2>1 DEF Responses!FunctionCall, ACall
  <2>4. IsToolUse(b) /\ ~ IsThinking(b)
    BY <2>1 DEF IsToolUse, IsThinking
  <2> QED BY <2>2, <2>3, <2>4 DEF Options, AItem
<1>3. CASE b \in CustomBlk
  <2>1. b.block = "custom" /\ b.type \in {"web_search_call", "server_tool_use"} /\ b.data \in Marks
    BY <1>3 DEF CustomBlk
  <2>2. ~ IsThinking(b)
    BY <2>1 DEF IsThinking
  <2>3. CASE Responses!Replayable(b)
    <3>1. o = {Responses!HostedItem(b.type, b.data)}
      BY <2>1, <2>3 DEF Responses!AssistantItem, Responses!IsThinking, Responses!IsToolUse
    <3>2. b.type = "web_search_call"
      BY <2>1, <2>3 DEF Responses!Replayable, Responses!HostedWebTypes
    <3>3. Responses!HostedItem(b.type, b.data) \in AHosted /\ ~ IsFCall(Responses!HostedItem(b.type, b.data))
      BY <2>1, <3>2 DEF Responses!HostedItem, AHosted, IsFCall
    <3> QED BY <2>2, <3>1, <3>3 DEF Options, AItem
  <2>4. CASE ~ Responses!Replayable(b)
    <3>1. o = {}
      BY <2>1, <2>4 DEF Responses!AssistantItem, Responses!IsThinking, Responses!IsToolUse
    <3> QED BY <2>2, <3>1 DEF Options
  <2> QED BY <2>3, <2>4
<1> QED BY <1>1, <1>2, <1>3, PastBlkKinds

(* The items after i of the blocks: a call comes of a call, and with       *)
(* DeepSeek after a reasoning if there is any.                             *)
ThinkBy(c, i) == \E k \in 1 .. i : IsThinking(c[k])
UseBy(c, i)   == \E k \in 1 .. i : IsToolUse(c[k])
ReasonIn(s, n) == \E j \in 1 .. n : IsReason(s[j])

ItemsOK(s, c, i, mode) ==
  /\ \A p \in 1 .. Len(s) : IsFCall(s[p]) => UseBy(c, i)
  /\ mode = "plaintext" /\ ThinkBy(c, i) => ReasonIn(s, Len(s))
  /\ mode = "plaintext" /\ ThinkBy(c, Len(c)) =>
       \A p \in 1 .. Len(s) : IsFCall(s[p]) => ReasonIn(s, p - 1)

LEMMA ItemsAppend ==
  ASSUME NEW s \in Seq(AItem), NEW c, NEW i, NEW j, NEW mode, ItemsOK(s, c, i, mode),
         UseBy(c, i) => UseBy(c, j), NEW x \in AItem,
         IsFCall(x) => UseBy(c, j),
         mode = "plaintext" /\ IsFCall(x) /\ ThinkBy(c, Len(c)) => ThinkBy(c, i),
         mode = "plaintext" /\ ThinkBy(c, j) => ThinkBy(c, i) \/ IsReason(x)
  PROVE  Append(s, x) \in Seq(AItem) /\ ItemsOK(Append(s, x), c, j, mode)
<1> DEFINE t == Append(s, x)
           n == Len(s)
<1>1. /\ t \in Seq(AItem) /\ n \in Nat /\ Len(t) = n + 1 /\ t[n + 1] = x
      /\ \A p \in 1 .. n : t[p] = s[p]
  OBVIOUS
<1> HIDE DEF t
<1>2. \A p \in 1 .. Len(t) : p \in 1 .. n \/ p = n + 1
  BY <1>1
<1>3. ASSUME NEW k, k \in Nat, k <= n, ReasonIn(s, k) PROVE ReasonIn(t, k)
  <2>1. PICK l \in 1 .. k : IsReason(s[l])
    BY <1>3 DEF ReasonIn
  <2>2. l \in 1 .. n
    BY <1>1, <1>3
  <2> QED BY <1>1, <2>1, <2>2 DEF ReasonIn
<1>4. \A p \in 1 .. Len(t) : IsFCall(t[p]) => UseBy(c, j)
  BY <1>1, <1>2 DEF ItemsOK
<1>5. ASSUME mode = "plaintext", ThinkBy(c, j) PROVE ReasonIn(t, Len(t))
  <2>1. CASE ThinkBy(c, i)
    <3>1. PICK l \in 1 .. n : IsReason(s[l])
      BY <1>5, <2>1 DEF ItemsOK, ReasonIn
    <3>2. l \in 1 .. Len(t) /\ t[l] = s[l]
      BY <1>1
    <3> QED BY <3>1, <3>2 DEF ReasonIn
  <2>2. CASE IsReason(x)
    <3>1. Len(t) \in 1 .. Len(t) /\ t[Len(t)] = x
      BY <1>1
    <3> QED BY <2>2, <3>1 DEF ReasonIn
  <2> QED BY <1>5, <2>1, <2>2
<1>6. ASSUME mode = "plaintext", ThinkBy(c, Len(c)), NEW p \in 1 .. Len(t), IsFCall(t[p])
      PROVE  ReasonIn(t, p - 1)
  <2>1. CASE p \in 1 .. n
    <3>1. IsFCall(s[p])
      BY <1>1, <1>6, <2>1
    <3>2. ReasonIn(s, p - 1)
      BY <1>6, <2>1, <3>1 DEF ItemsOK
    <3>3. p - 1 \in Nat /\ p - 1 <= n
      BY <1>1, <2>1
    <3> QED BY <1>3, <3>2, <3>3
  <2>2. CASE p = n + 1
    <3>1. ThinkBy(c, i)
      BY <1>1, <1>6, <2>2
    <3>2. ReasonIn(s, n)
      BY <1>6, <3>1 DEF ItemsOK
    <3>3. p - 1 = n
      BY <1>1, <2>2
    <3> QED BY <1>1, <1>3, <3>2, <3>3
  <2> QED BY <1>2, <2>1, <2>2
<1> QED BY <1>1, <1>4, <1>5, <1>6 DEF ItemsOK, t

Acc == [items : Seq(AItem), buffer : Seq(Words)]

LEMMA FlushOK ==
  ASSUME NEW a \in Acc, NEW c, NEW i, NEW mode, ItemsOK(a.items, c, i, mode)
  PROVE  /\ Responses!FlushAssistantText(a) \in Acc
         /\ ItemsOK(Responses!FlushAssistantText(a).items, c, i, mode)
<1>1. CASE a.buffer = <<>>
  BY <1>1 DEF Responses!FlushAssistantText
<1>2. CASE a.buffer # <<>>
  <2> DEFINE x == Responses!InputMessage("assistant", <<Responses!TextPart(a.buffer)>>)
             t == Append(a.items, x)
             f == Responses!FlushAssistantText(a)
  <2>1. f = [items |-> t, buffer |-> <<>>]
    BY <1>2 DEF Responses!FlushAssistantText
  <2>2. x \in AText
    <3>1. Responses!TextPart(a.buffer) \in [part : {"text"}, text : Seq(Words)]
      BY DEF Acc, Responses!TextPart
    <3>2. <<Responses!TextPart(a.buffer)>> \in Seq([part : {"text"}, text : Seq(Words)])
      BY <3>1
    <3> QED BY <3>2 DEF Responses!InputMessage, AText
  <2>3. x \in AItem /\ ~ IsFCall(x)
    BY <2>2 DEF AItem, AText, IsFCall
  <2>4. a.items \in Seq(AItem)
    BY DEF Acc
  <2> HIDE DEF x
  <2>5. t \in Seq(AItem) /\ ItemsOK(t, c, i, mode)
    BY <2>3, <2>4, ItemsAppend
  <2> HIDE DEF t, f
  <2>6. f \in Acc /\ f.items = t
    BY <2>1, <2>5 DEF Acc
  <2> QED BY <2>5, <2>6 DEF f
<1> QED BY <1>1, <1>2

ThinksFirst(c) ==
  \A i, j \in 1 .. Len(c) : IsToolUse(c[i]) /\ IsThinking(c[j]) => \E k \in 1 .. i - 1 : IsThinking(c[k])

LEMMA AddOK ==
  ASSUME NEW c \in Seq(PastBlk), ThinksFirst(c), NEW mode \in Responses!ReasoningMode,
         NEW i \in 1 .. Len(c), NEW a \in Acc, ItemsOK(a.items, c, i - 1, mode),
         NEW r, r = Responses!AddAssistantBlock(a, c[i], mode)
  PROVE  r \in Acc /\ ItemsOK(r.items, c, i, mode)
<1> DEFINE b == c[i]
           o == Responses!AssistantItem(b, mode)
           f == Responses!FlushAssistantText(a)
<1>0. b \in PastBlk /\ Len(c) \in Nat /\ i \in Nat /\ i - 1 \in Nat
  OBVIOUS
<1>1. UseBy(c, i - 1) => UseBy(c, i)
  BY <1>0 DEF UseBy
<1>2. ThinkBy(c, i) => ThinkBy(c, i - 1) \/ IsThinking(b)
  <2>1. \A k \in 1 .. i : k \in 1 .. i - 1 \/ k = i
    BY <1>0
  <2> QED BY <2>1 DEF ThinkBy
<1>3. IsToolUse(b) => UseBy(c, i)
  <2>1. i \in 1 .. i
    BY <1>0
  <2> QED BY <2>1 DEF UseBy
<1>4. IsToolUse(b) /\ ThinkBy(c, Len(c)) => ThinkBy(c, i - 1)
  BY DEF ThinkBy, ThinksFirst
<1>5. ASSUME ~ (IsThinking(b) /\ mode = "plaintext") PROVE ItemsOK(a.items, c, i, mode)
  BY <1>1, <1>2, <1>5 DEF ItemsOK
<1>6. CASE b.block = "text"
  <2>1. r = [a EXCEPT !.buffer = @ \o b.text]
    BY <1>6 DEF Responses!AddAssistantBlock
  <2>2. b.text \in Seq(Words)
    <3>1. b \in TextBlk \cup NoteBlk
      BY <1>0, <1>6, PastBlkKinds
    <3>2. Spoken \subseteq Words
      BY DEF Spoken
    <3> QED BY <3>1, <3>2, SeqMonotonic DEF TextBlk, NoteBlk
  <2>3. a.buffer \o b.text \in Seq(Words)
    BY <2>2 DEF Acc
  <2>4. r \in Acc /\ r.items = a.items
    BY <2>1, <2>3 DEF Acc
  <2>5. ~ IsThinking(b)
    BY <1>6 DEF IsThinking
  <2> QED BY <1>5, <2>4, <2>5
<1>7. CASE b.block # "text" /\ o = {}
  <2>1. r = a
    BY <1>7 DEF Responses!AddAssistantBlock
  <2>2. ~ (IsThinking(b) /\ mode = "plaintext")
    <3> HIDE DEF b
    <3> QED BY <1>0, <1>7, ItemOfBlock
  <2> QED BY <1>5, <2>1, <2>2
<1>8. CASE b.block # "text" /\ o # {}
  <2>1. /\ o \in Options(AItem) /\ \A x \in o : IsFCall(x) => IsToolUse(b)
        /\ IsThinking(b) /\ mode = "plaintext" => \E x \in o : IsReason(x)
    <3> HIDE DEF b
    <3> QED BY <1>0, <1>8, ItemOfBlock
  <2>2. PICK x \in AItem : o = {x}
    <3> HIDE DEF o
    <3> QED BY <1>8, <2>1 DEF Options
  <2>3. f \in Acc /\ ItemsOK(f.items, c, i - 1, mode)
    BY FlushOK
  <2> DEFINE t == Append(f.items, x)
  <2>4. t \in Seq(AItem) /\ ItemsOK(t, c, i, mode)
    <3> HIDE DEF f, b, o
    <3>1. f.items \in Seq(AItem)
      BY <2>3 DEF Acc
    <3>2. IsFCall(x) => IsToolUse(b)
      BY <2>1, <2>2
    <3>3. IsThinking(b) /\ mode = "plaintext" => IsReason(x)
      BY <2>1, <2>2
    <3>4. IsFCall(x) => UseBy(c, i)
      BY <1>3, <3>2
    <3>5. mode = "plaintext" /\ IsFCall(x) /\ ThinkBy(c, Len(c)) => ThinkBy(c, i - 1)
      BY <1>4, <3>2
    <3>6. mode = "plaintext" /\ ThinkBy(c, i) => ThinkBy(c, i - 1) \/ IsReason(x)
      BY <1>2, <3>3
    <3> QED BY <1>1, <2>3, <3>1, <3>4, <3>5, <3>6, ItemsAppend
  <2>5. r = [f EXCEPT !.items = @ \o Responses!SetToSeq(o)]
    BY <1>8 DEF Responses!AddAssistantBlock
  <2> HIDE DEF f, o
  <2>6. Responses!SetToSeq(o) = <<x>>
    BY <2>2, OneElement
  <2>7. f.items \o <<x>> = t
    BY <2>3 DEF Acc
  <2>8. r = [f EXCEPT !.items = t]
    BY <2>5, <2>6, <2>7
  <2> HIDE DEF t
  <2>9. r \in Acc /\ r.items = t
    BY <2>3, <2>4, <2>8 DEF Acc
  <2> QED BY <2>4, <2>9
<1> QED BY <1>6, <1>7, <1>8

(* AssistantItems, with the function that adds up the blocks.              *)
NoItems == [items |-> <<>>, buffer |-> <<>>]

IsAdded(g, c, mode, n) ==
  g = [i \in 0 .. n |-> IF i = 0 THEN NoItems ELSE Responses!AddAssistantBlock(g[i - 1], c[i], mode)]

LEMMA AddedExists ==
  ASSUME NEW c, NEW mode
  PROVE  \A n \in Nat : \E g : IsAdded(g, c, mode, n)
<1> DEFINE S == {n \in Nat : \E g : IsAdded(g, c, mode, n)}
<1>1. 0 \in S
  <2>1. IsAdded([i \in 0 .. 0 |-> NoItems], c, mode, 0)
    BY DEF IsAdded
  <2> QED BY <2>1
<1>2. ASSUME NEW n \in S PROVE n + 1 \in S
  <2>1. PICK g : IsAdded(g, c, mode, n)
    OBVIOUS
  <2> DEFINE h == [i \in 0 .. n + 1 |->
                     IF i <= n THEN g[i] ELSE Responses!AddAssistantBlock(g[n], c[n + 1], mode)]
  <2>2. \A i \in 0 .. n + 1 :
          h[i] = IF i = 0 THEN NoItems ELSE Responses!AddAssistantBlock(h[i - 1], c[i], mode)
    <3> SUFFICES ASSUME NEW i \in 0 .. n + 1
                 PROVE  h[i] = IF i = 0 THEN NoItems ELSE Responses!AddAssistantBlock(h[i - 1], c[i], mode)
      OBVIOUS
    <3>1. CASE i = n + 1
      <4>1. h[n + 1] = Responses!AddAssistantBlock(g[n], c[n + 1], mode)
        OBVIOUS
      <4>2. h[n] = g[n] /\ i - 1 = n /\ i # 0
        BY <3>1
      <4> QED BY <3>1, <4>1, <4>2
    <3>2. CASE i <= n
      <4>1. i \in 0 .. n /\ h[i] = g[i]
        BY <3>2
      <4>2. i # 0 => h[i - 1] = g[i - 1]
        BY <3>2
      <4>3. g[i] = IF i = 0 THEN NoItems ELSE Responses!AddAssistantBlock(g[i - 1], c[i], mode)
        BY <2>1, <4>1 DEF IsAdded
      <4> QED BY <4>1, <4>2, <4>3
    <3> QED BY <3>1, <3>2
  <2>3. h = [i \in 0 .. n + 1 |-> h[i]]
    OBVIOUS
  <2> HIDE DEF h
  <2>4. IsAdded(h, c, mode, n + 1)
    BY <2>2, <2>3 DEF IsAdded
  <2> QED BY <2>4
<1>3. S = Nat
  <2> HIDE DEF S
  <2> QED BY <1>1, <1>2, InductionOnNat DEF S
<1> QED BY <1>3

LEMMA AddedOK ==
  ASSUME NEW c \in Seq(PastBlk), ThinksFirst(c), NEW mode \in Responses!ReasoningMode,
         NEW g, IsAdded(g, c, mode, Len(c))
  PROVE  g[Len(c)] \in Acc /\ ItemsOK(g[Len(c)].items, c, Len(c), mode)
<1> DEFINE n == Len(c)
           S == {i \in Nat : i <= n => g[i] \in Acc /\ ItemsOK(g[i].items, c, i, mode)}
<1>0. n \in Nat
  OBVIOUS
<1>1. 0 \in S
  <2>1. g[0] = NoItems
    BY <1>0 DEF IsAdded
  <2>2. NoItems \in Acc /\ NoItems.items = <<>>
    BY DEF NoItems, Acc
  <2>3. ItemsOK(<<>>, c, 0, mode)
    BY DEF ItemsOK, ThinkBy
  <2> QED BY <2>1, <2>2, <2>3
<1>2. ASSUME NEW i \in S PROVE i + 1 \in S
  <2> SUFFICES ASSUME i + 1 <= n PROVE g[i + 1] \in Acc /\ ItemsOK(g[i + 1].items, c, i + 1, mode)
    OBVIOUS
  <2>1. i + 1 \in 1 .. n /\ i + 1 \in 0 .. n /\ i + 1 # 0 /\ (i + 1) - 1 = i
    OBVIOUS
  <2>2. g[i] \in Acc /\ ItemsOK(g[i].items, c, i, mode)
    BY <1>0
  <2>3. g[i + 1] = Responses!AddAssistantBlock(g[i], c[i + 1], mode)
    BY <2>1 DEF IsAdded
  <2> HIDE DEF S, n
  <2> DEFINE k == i + 1
  <2>4. k \in 1 .. Len(c) /\ ItemsOK(g[i].items, c, k - 1, mode) /\ g[k] = Responses!AddAssistantBlock(g[i], c[k], mode)
    BY <2>1, <2>2, <2>3 DEF n
  <2> HIDE DEF k
  <2>5. g[k] \in Acc /\ ItemsOK(g[k].items, c, k, mode)
    BY <2>2, <2>4, AddOK
  <2> QED BY <2>5 DEF k
<1>3. S = Nat
  <2> HIDE DEF S
  <2> QED BY <1>1, <1>2, InductionOnNat DEF S
<1> QED BY <1>0, <1>3

LEMMA AssistantItemsOK ==
  ASSUME NEW m, m.content \in Seq(PastBlk), ThinksFirst(m.content), NEW mode \in Responses!ReasoningMode
  PROVE  /\ Responses!AssistantItems(m, mode) \in Seq(AItem)
         /\ ItemsOK(Responses!AssistantItems(m, mode), m.content, Len(m.content), mode)
<1> DEFINE c == m.content
           n == Len(c)
           Is(g) == g = [i \in 0 .. n |-> IF i = 0 THEN [items |-> <<>>, buffer |-> <<>>]
                                          ELSE Responses!AddAssistantBlock(g[i - 1], c[i], mode)]
           g == CHOOSE g : Is(g)
<1>0. n \in Nat
  OBVIOUS
<1>1. ASSUME NEW h PROVE Is(h) <=> IsAdded(h, c, mode, n)
  BY DEF IsAdded, NoItems
<1>2. Responses!AssistantItems(m, mode) = Responses!FlushAssistantText(g[n]).items
  BY DEF Responses!AssistantItems
<1> HIDE DEF Is
<1>3. IsAdded(g, c, mode, n)
  BY <1>0, <1>1, AddedExists
<1> HIDE DEF g
<1>4. g[n] \in Acc /\ ItemsOK(g[n].items, c, n, mode)
  BY <1>3, AddedOK
<1> DEFINE f == Responses!FlushAssistantText(g[n])
<1>5. f \in Acc /\ ItemsOK(f.items, c, n, mode)
  <2> HIDE DEF c, n
  <2> QED BY <1>4, FlushOK
<1>6. f.items \in Seq(AItem)
  <2> HIDE DEF f
  <2> QED BY <1>5 DEF Acc
<1> QED BY <1>2, <1>5, <1>6

(* Between the last reasoning before a call and the call there are only    *)
(* products of it.                                                         *)
LEMMA LastReason ==
  ASSUME NEW s \in Seq(AItem), NEW p \in 1 .. Len(s), IsFCall(s[p]), ReasonIn(s, p - 1)
  PROVE  Reasoned(s, p)
<1> DEFINE T == {d \in 1 .. p - 1 : IsReason(s[p - d])}
<1>0. Len(s) \in Nat /\ p \in Nat /\ p <= Len(s)
  OBVIOUS
<1>1. T \in SUBSET Nat /\ T # {}
  <2>1. PICK j \in 1 .. p - 1 : IsReason(s[j])
    BY DEF ReasonIn
  <2>2. p - j \in 1 .. p - 1 /\ p - (p - j) = j
    BY <1>0
  <2>3. p - j \in T
    BY <2>1, <2>2
  <2>4. T \subseteq 1 .. p - 1
    OBVIOUS
  <2>5. \A d \in 1 .. p - 1 : d \in Nat
    BY <1>0
  <2> HIDE DEF T
  <2> QED BY <2>3, <2>4, <2>5
<1>2. PICK d \in T : \A e \in T : d <= e
  BY <1>1, LeastNumber
<1>3. p - d \in 1 .. p - 1 /\ IsReason(s[p - d])
  BY <1>0, <1>2
<1>4. ASSUME NEW k \in p - d + 1 .. p PROVE Responses!IsReasoningProduct(s[k])
  <2>0. d \in 1 .. p - 1
    BY <1>2
  <2>1. k \in 1 .. Len(s) /\ s[k] \in AItem
    BY <1>0, <2>0
  <2>2. CASE k = p
    BY <2>2, ItemKinds
  <2>3. CASE k # p
    <3>1. p - k \in 1 .. p - 1 /\ p - k < d /\ p - (p - k) = k
      BY <1>0, <2>0, <2>3
    <3>2. p - k \notin T
      <4> HIDE DEF T
      <4> QED BY <1>0, <1>2, <2>0, <3>1
    <3>3. ~ IsReason(s[k])
      BY <3>1, <3>2
    <3> QED BY <2>1, <3>3, AItemKinds
  <2> QED BY <2>2, <2>3
<1> QED BY <1>3, <1>4 DEF Reasoned

\* The items of a message of the assistant.
AnswerItems(s, thinking) ==
  s \in Seq(AItem) /\ (thinking => \A p \in 1 .. Len(s) : IsFCall(s[p]) => Reasoned(s, p))

LEMMA ItemsOfAnswer ==
  ASSUME NEW m, m.role = "assistant", m.content \in Seq(PastBlk), ThinksFirst(m.content),
         NEW mode \in Responses!ReasoningMode, NEW effort
  PROVE  AnswerItems(Responses!ItemsInThinking(m, mode, effort), mode = "plaintext" /\ effort # {"none"})
<1> DEFINE c == m.content
           n == Len(c)
           s == Responses!AssistantItems(m, mode)
           r == Responses!ItemsInThinking(m, mode, effort)
           x == Responses!Reasoning("plaintext", Responses!Empty)
           lacks == mode = "plaintext" /\ effort # {"none"} /\ Responses!LacksReasoning(m)
<1>0. n \in Nat /\ DOMAIN c = 1 .. n
  OBVIOUS
<1>1. s \in Seq(AItem) /\ ItemsOK(s, c, n, mode)
  BY AssistantItemsOK
<1>2. Responses!MessageToItems(m, mode) = s
  BY DEF Responses!MessageToItems
<1>3. r = IF lacks THEN <<x>> \o s ELSE s
  BY <1>2 DEF Responses!ItemsInThinking
<1>4. Responses!LacksReasoning(m) <=> UseBy(c, n) /\ ~ ThinkBy(c, n)
  <2>1. Responses!LacksReasoning(m) <=> /\ \E i \in DOMAIN c : Responses!IsToolUse(c[i])
                                        /\ ~ \E i \in DOMAIN c : Responses!IsThinking(c[i])
    BY DEF Responses!LacksReasoning, Responses!SomeIn
  <2>2. \A b : (Responses!IsToolUse(b) <=> IsToolUse(b)) /\ (Responses!IsThinking(b) <=> IsThinking(b))
    BY DEF Responses!IsToolUse, IsToolUse, Responses!IsThinking, IsThinking
  <2> HIDE DEF c, n
  <2> QED BY <1>0, <2>1, <2>2 DEF UseBy, ThinkBy
<1>5. x \in AItem /\ IsReason(x) /\ ~ IsFCall(x)
  <2>1. <<>> \in Seq(Words \cup Marks)
    OBVIOUS
  <2> QED BY <2>1 DEF Responses!Reasoning, Responses!Empty, AItem, AReason, IsReason, IsFCall,
                      Responses!ReasoningMode
<1> HIDE DEF s, c, n, x, lacks, r
<1>6. CASE lacks
  <2>1. r = <<x>> \o s
    BY <1>3, <1>6
  <2>2. r \in Seq(AItem) /\ Len(r) = Len(s) + 1 /\ r[1] = x /\ Len(s) \in Nat
    BY <1>1, <1>5, <2>1
  <2>3. ASSUME NEW p \in 1 .. Len(r), IsFCall(r[p]) PROVE Reasoned(r, p)
    <3>1. p # 1
      BY <1>5, <2>2, <2>3
    <3>2. 1 \in 1 .. p - 1
      BY <2>2, <3>1
    <3>3. ReasonIn(r, p - 1)
      BY <1>5, <2>2, <3>2 DEF ReasonIn
    <3> QED BY <2>2, <2>3, <3>3, LastReason
  <2> QED BY <2>2, <2>3 DEF AnswerItems, r
<1>7. CASE ~ lacks
  <2>1. r = s
    BY <1>3, <1>7
  <2>2. ASSUME mode = "plaintext" /\ effort # {"none"}, NEW p \in 1 .. Len(s), IsFCall(s[p])
        PROVE  Reasoned(s, p)
    <3>1. UseBy(c, n)
      BY <1>1, <2>2 DEF ItemsOK
    <3>2. ThinkBy(c, n)
      BY <1>4, <1>7, <2>2, <3>1 DEF lacks
    <3>3. ReasonIn(s, p - 1)
      BY <1>1, <2>2, <3>2 DEF ItemsOK, n
    <3> QED BY <1>1, <2>2, <3>3, LastReason
  <2> QED BY <1>1, <2>1, <2>2 DEF AnswerItems, r
<1> QED BY <1>6, <1>7

(* The results of a message, and what they are over the Responses API.     *)
LEMMA ResultsPicked ==
  ASSUME NEW c, Len(c) \in Nat
  PROVE  Filter(c, IsToolResult) = Picked(c, {i \in 1 .. Len(c) : IsToolResult(c[i])})
<1> DEFINE n == Len(c)
           K == {i \in 1 .. n : IsToolResult(c[i])}
           Is(g) == g = [i \in 0 .. n |-> IF i = 0 THEN <<>>
                        ELSE IF IsToolResult(c[i]) THEN Append(g[i - 1], c[i]) ELSE g[i - 1]]
           g == CHOOSE g : Is(g)
<1>1. ASSUME NEW h PROVE Is(h) <=> IsPick(h, c, K, n)
  BY DEF IsPick
<1>2. Filter(c, IsToolResult) = g[n]
  BY DEF Filter, SelectAt
<1> HIDE DEF Is, K
<1>3. IsPick(g, c, K, n)
  BY <1>1, PickExists
<1> HIDE DEF g
<1>4. Picked(c, K) = g[n]
  BY <1>3, PickedIs
<1> QED BY <1>2, <1>4 DEF K

LEMMA AllOrNoResults ==
  ASSUME NEW S, NEW c \in Seq(S)
  PROVE  /\ (\A i \in 1 .. Len(c) : IsToolResult(c[i])) => Filter(c, IsToolResult) = c
         /\ (\A i \in 1 .. Len(c) : ~ IsToolResult(c[i])) => Filter(c, IsToolResult) = <<>>
<1> DEFINE K == {i \in 1 .. Len(c) : IsToolResult(c[i])}
           w == Filter(c, IsToolResult)
<1>0. Len(c) \in Nat
  OBVIOUS
<1>1. w = Picked(c, K)
  BY <1>0, ResultsPicked
<1>2. ASSUME \A i \in 1 .. Len(c) : IsToolResult(c[i]) PROVE w = c
  <2>1. 1 .. Len(c) \subseteq K
    BY <1>2
  <2> HIDE DEF K, w
  <2> QED BY <1>1, <2>1, PickedAll
<1>3. ASSUME \A i \in 1 .. Len(c) : ~ IsToolResult(c[i]) PROVE w = <<>>
  <2>1. K = {}
    BY <1>3
  <2> HIDE DEF K, w
  <2>2. w \in Seq(S)
    BY <1>1, PickedPlaces
  <2>3. PICK e : Places(e, c, K, w)
    BY <1>1, PickedPlaces
  <2>4. Len(w) = 0
    BY <2>1, <2>2, <2>3 DEF Places
  <2> QED BY <2>2, <2>4
<1> QED BY <1>2, <1>3

LEMMA ResponsesFilter ==
  ASSUME NEW c
  PROVE  Responses!Filter(c, Responses!IsToolResult) = Filter(c, IsToolResult)
BY DEF Responses!Filter, Filter, Responses!SelectAt, SelectAt, Responses!IsToolResult, IsToolResult

IsSeq(s) == Len(s) \in Nat /\ s = [k \in 1 .. Len(s) |-> s[k]]

\* The items of a message.
Segment(s, m, thinking) ==
  /\ IsSeq(s)
  /\ \A k \in 1 .. Len(s) : IsOutput(s[k]) =>
       m \in ResultMsg /\ k \in 1 .. Len(m.content) /\ s[k].id = m.content[k].id
  /\ thinking => \A k \in 1 .. Len(s) : IsFCall(s[k]) => Reasoned(s, k)

LEMMA UserItemsAre ==
  ASSUME NEW m \in SpeechMsg \cup ResultMsg, NEW thinking
  PROVE  Segment(Responses!UserItems(m), m, thinking)
<1> DEFINE c == m.content
           w == Filter(c, IsToolResult)
           s == Responses!UserItems(m)
           x == Responses!InputMessage("user", Responses!FilterMap(Responses!ResponsesPart, c))
<1>1. s = IF w = <<>> THEN <<x>> ELSE [i \in DOMAIN w |-> Responses!FunctionOutput(w[i].id, w[i].text)]
  BY ResponsesFilter DEF Responses!UserItems
<1>2. ~ IsOutput(x) /\ ~ IsFCall(x)
  BY DEF Responses!InputMessage, IsOutput, IsFCall
<1> HIDE DEF s, x
<1>3. CASE w = <<>>
  <2>1. s = <<x>>
    BY <1>1, <1>3
  <2>2. Len(s) = 1 /\ IsSeq(s) /\ \A k \in 1 .. Len(s) : s[k] = x
    BY <2>1 DEF IsSeq
  <2> QED BY <1>2, <2>2 DEF Segment, s
<1>4. CASE w # <<>>
  <2>1. m \in ResultMsg /\ w = c
    <3>1. CASE m \in SpeechMsg
      <4>1. c \in Seq(SpeechBlk)
        BY <3>1 DEF SpeechMsg
      <4>2. \A i \in 1 .. Len(c) : ~ IsToolResult(c[i])
        <5>1. \A b \in SpeechBlk : ~ IsToolResult(b)
          BY DEF SpeechBlk, TextBlk, ImageBlk, AttBlk, FileBlk, IsToolResult
        <5> QED BY <4>1, <5>1
      <4> HIDE DEF c
      <4> QED BY <1>4, <4>1, <4>2, AllOrNoResults
    <3>2. CASE m \in ResultMsg
      <4>1. c \in Seq(ResBlk)
        BY <3>2 DEF ResultMsg
      <4>2. \A i \in 1 .. Len(c) : IsToolResult(c[i])
        <5>1. \A b \in ResBlk : IsToolResult(b)
          BY DEF ResBlk, IsToolResult
        <5> QED BY <4>1, <5>1
      <4> HIDE DEF c
      <4> QED BY <3>2, <4>1, <4>2, AllOrNoResults
    <3> QED BY <3>1, <3>2
  <2>2. c \in Seq(ResBlk)
    BY <2>1 DEF ResultMsg
  <2>3. Len(c) \in Nat /\ DOMAIN c = 1 .. Len(c)
    BY <2>2
  <2> HIDE DEF c, w
  <2>4. s = [i \in 1 .. Len(c) |-> Responses!FunctionOutput(c[i].id, c[i].text)]
    BY <1>1, <1>4, <2>1, <2>3
  <2>5. Len(s) = Len(c) /\ IsSeq(s)
    BY <2>3, <2>4 DEF IsSeq
  <2>6. \A k \in 1 .. Len(s) : s[k].id = c[k].id /\ ~ IsFCall(s[k])
    <3> SUFFICES ASSUME NEW k \in 1 .. Len(s) PROVE s[k].id = c[k].id /\ ~ IsFCall(s[k])
      OBVIOUS
    <3>1. s[k] = Responses!FunctionOutput(c[k].id, c[k].text)
      BY <2>4, <2>5
    <3> QED BY <3>1 DEF Responses!FunctionOutput, IsFCall
  <2> QED BY <2>1, <2>5, <2>6 DEF Segment, c, s
<1> QED BY <1>3, <1>4

LEMMA SegmentOf ==
  ASSUME NEW m \in Msg, m \in AnswerMsg => ThinksFirst(m.content),
         NEW mode \in Responses!ReasoningMode, NEW effort
  PROVE  Segment(Responses!ItemsInThinking(m, mode, effort), m, mode = "plaintext" /\ effort # {"none"})
<1> DEFINE s == Responses!ItemsInThinking(m, mode, effort)
           thinking == mode = "plaintext" /\ effort # {"none"}
<1>1. CASE m \in SpeechMsg \cup ResultMsg
  <2>1. m.role = "user"
    BY <1>1, MessageKinds
  <2>2. s = Responses!UserItems(m)
    BY <2>1 DEF Responses!ItemsInThinking, Responses!LacksReasoning, Responses!MessageToItems
  <2> HIDE DEF s, thinking
  <2>3. Segment(s, m, thinking)
    BY <1>1, <2>2, UserItemsAre
  <2> QED BY <2>3 DEF s, thinking
<1>2. CASE m \in AnswerMsg \cup NoteMsg
  <2>1. m.role = "assistant"
    BY <1>2, MessageKinds
  <2>2. m.content \in Seq(PastBlk) /\ ThinksFirst(m.content)
    <3>1. CASE m \in AnswerMsg
      <4>1. m.content \in Seq(AnswerBlk) /\ AnswerBlk \subseteq PastBlk
        BY <3>1 DEF AnswerMsg, PastBlk
      <4> QED BY <3>1, <4>1, SeqMonotonic
    <3>2. CASE m \in NoteMsg
      <4>1. m.content \in Seq(NoteBlk) /\ NoteBlk \subseteq PastBlk
        BY <3>2, NoteIsNote DEF NoteBlk, PastBlk
      <4>2. \A i \in 1 .. Len(m.content) : ~ IsToolUse(m.content[i])
        <5>1. \A b \in NoteBlk : ~ IsToolUse(b)
          BY DEF NoteBlk, IsToolUse
        <5> QED BY <4>1, <5>1
      <4> QED BY <4>1, <4>2, SeqMonotonic DEF ThinksFirst
    <3> QED BY <1>2, <3>1, <3>2
  <2>3. AnswerItems(s, thinking)
    BY <2>1, <2>2, ItemsOfAnswer
  <2> HIDE DEF s, thinking
  <2>4. s \in Seq(AItem) /\ (thinking => \A p \in 1 .. Len(s) : IsFCall(s[p]) => Reasoned(s, p))
    BY <2>3 DEF AnswerItems
  <2>5. IsSeq(s)
    BY <2>4 DEF IsSeq
  <2>6. \A k \in 1 .. Len(s) : ~ IsOutput(s[k])
    BY <2>4, AItemKinds
  <2> QED BY <2>4, <2>5, <2>6 DEF Segment, s, thinking
<1> QED BY <1>1, <1>2 DEF Msg, Spk

(* The calls of an answer have the numbers of its turn, each its own.      *)
LEMMA UsesApart ==
  ASSUME NEW m \in AnswerMsg, NEW turn \in Nat, GoodAnswer(m.content, turn)
  PROVE  /\ \A k \in 1 .. Len(ToolUses(m)) : ToolUses(m)[k].id \in Numbers(turn)
         /\ \A k, l \in 1 .. Len(ToolUses(m)) : ToolUses(m)[k].id = ToolUses(m)[l].id => k = l
<1> DEFINE c == m.content
           u == ToolUses(m)
           K == {i \in 1 .. Len(c) : IsToolUse(c[i])}
<1>1. c \in Seq(AnswerBlk) /\ Len(c) \in Nat
  BY DEF AnswerMsg
<1>2. u = Picked(c, K)
  BY <1>1, ToolUsesPicked
<1>3. /\ \A i \in 1 .. Len(c) : IsToolUse(c[i]) => c[i].id \in Numbers(turn)
      /\ \A i, j \in 1 .. Len(c) : IsToolUse(c[i]) /\ IsToolUse(c[j]) /\ c[i].id = c[j].id => i = j
  BY DEF GoodAnswer
<1> HIDE DEF c, K, u
<1>4. PICK e : Places(e, c, K, u)
  BY <1>1, <1>2, PickedPlaces
<1>5. \A k \in 1 .. Len(u) : e[k] \in K /\ u[k] = c[e[k]]
  BY <1>4 DEF Places
<1>6. \A k \in 1 .. Len(u) : e[k] \in 1 .. Len(c) /\ IsToolUse(c[e[k]]) /\ u[k] = c[e[k]]
  BY <1>5 DEF K
<1>7. ASSUME NEW k \in 1 .. Len(u), NEW l \in 1 .. Len(u), u[k].id = u[l].id, k # l
      PROVE  FALSE
  <2>1. e[k] = e[l]
    BY <1>3, <1>6, <1>7
  <2>2. k < l \/ l < k
    BY <1>7
  <2>3. e[k] < e[l] \/ e[l] < e[k]
    BY <1>4, <2>2 DEF Places
  <2> QED BY <1>1, <1>6, <2>1, <2>3
<1>8. \A k \in 1 .. Len(u) : u[k].id \in Numbers(turn)
  BY <1>3, <1>6
<1> QED BY <1>7, <1>8 DEF u

LEMMA NumbersApart ==
  ASSUME NEW g \in Nat, NEW h \in Nat, NEW x, x \in Numbers(g), x \in Numbers(h)
  PROVE  g = h
<1>1. PICK i \in 1 .. 9 : x = 10 * g + i
  BY DEF Numbers
<1>2. PICK j \in 1 .. 9 : x = 10 * h + j
  BY DEF Numbers
<1> QED BY <1>1, <1>2

\* Each result is in one place of the history, and so of the prompt.
ResultsOnce(ps) ==
  \A i, j \in 1 .. Len(ps) : ps[i] \in ResultMsg /\ ps[j] \in ResultMsg =>
    \A k \in 1 .. Len(ps[i].content), l \in 1 .. Len(ps[j].content) :
      ps[i].content[k].id = ps[j].content[l].id => i = j /\ k = l

LEMMA ResultIds ==
  ASSUME NEW hs, History(hs), NEW h \in 1 .. Len(hs), hs[h] \in ResultMsg, hs[h].content # <<>>
  PROVE  /\ h - 1 \in 1 .. Len(hs) /\ h - 2 \in Nat /\ hs[h - 1] \in AnswerMsg
         /\ GoodAnswer(hs[h - 1].content, h - 2)
         /\ AnswersOf(hs[h].content, ToolUses(hs[h - 1]))
         /\ \A k \in 1 .. Len(hs[h].content) :
              /\ k \in 1 .. Len(ToolUses(hs[h - 1]))
              /\ hs[h].content[k].id = ToolUses(hs[h - 1])[k].id
              /\ hs[h].content[k].id \in Numbers(h - 2)
         /\ \A k, l \in 1 .. Len(hs[h].content) :
              hs[h].content[k].id = hs[h].content[l].id => k = l
<1> DEFINE c == hs[h].content
           u == ToolUses(hs[h - 1])
<1>0. hs \in Seq(Spk) /\ Len(hs) \in Nat /\ \A i \in 1 .. Len(hs) : MessageAt(hs, i)
  BY DEF History
<1>1. c \in Seq(ResBlk) /\ Len(c) \in Nat /\ Len(c) # 0
  BY DEF ResultMsg
<1>2. HasResults(hs[h])
  <2>1. 1 \in DOMAIN c /\ c[1] \in ResBlk
    BY <1>1
  <2>2. IsToolResult(c[1])
    BY <2>1 DEF ResBlk, IsToolResult
  <2> QED BY <2>1, <2>2 DEF HasResults, SomeIn
<1>3. /\ h > 1 /\ h - 1 \in 1 .. Len(hs) /\ hs[h - 1] \in AnswerMsg
      /\ AnswersOf(hs[h].content, ToolUses(hs[h - 1])) /\ HasUses(hs[h - 1])
  BY <1>2, ResultsFollow
<1>4. h - 2 \in Nat /\ (h - 1) - 1 = h - 2
  BY <1>0, <1>3
<1>5. GoodAnswer(hs[h - 1].content, h - 2)
  <2>1. MessageAt(hs, h - 1)
    BY <1>0, <1>3
  <2>2. hs[h - 1] \notin SpeechMsg /\ hs[h - 1] \notin ResultMsg
    <3>1. hs[h - 1] \in Msg
      BY <1>0, <1>3 DEF Msg
    <3> QED BY <1>3, <3>1, MessageKinds
  <2> QED BY <1>4, <2>1, <2>2 DEF MessageAt
<1>6. u \in Seq(UseBlk) /\ Len(u) \in Nat
  BY <1>3, UsesOfAnswer
<1>7. /\ \A k \in 1 .. Len(u) : u[k].id \in Numbers(h - 2)
      /\ \A k, l \in 1 .. Len(u) : u[k].id = u[l].id => k = l
  BY <1>3, <1>4, <1>5, UsesApart
<1>8. Len(c) <= Len(u) /\ \A k \in 1 .. Len(c) : c[k].id = u[k].id
  BY <1>3, <1>6 DEF AnswersOf
<1>9. \A k \in 1 .. Len(c) : k \in 1 .. Len(u)
  BY <1>1, <1>6, <1>8
<1> HIDE DEF c, u
<1>10. \A k \in 1 .. Len(c) : k \in 1 .. Len(u) /\ c[k].id = u[k].id /\ c[k].id \in Numbers(h - 2)
  BY <1>7, <1>8, <1>9
<1>11. \A k, l \in 1 .. Len(c) : c[k].id = c[l].id => k = l
  BY <1>7, <1>10
<1> QED BY <1>3, <1>4, <1>5, <1>10, <1>11 DEF c, u

LEMMA ResultsAreOnce ==
  ASSUME NEW ps \in Seq(Msg), NEW hs, History(hs), NEW K, NEW f, Thread(ps, hs, K, f)
  PROVE  ResultsOnce(ps)
<1> SUFFICES ASSUME NEW i \in 1 .. Len(ps), NEW j \in 1 .. Len(ps), ps[i] \in ResultMsg, ps[j] \in ResultMsg,
                    NEW k \in 1 .. Len(ps[i].content), NEW l \in 1 .. Len(ps[j].content),
                    ps[i].content[k].id = ps[j].content[l].id
             PROVE  i = j /\ k = l
  BY DEF ResultsOnce
<1>0. hs \in Seq(Spk) /\ Len(hs) \in Nat /\ Len(ps) \in Nat
  BY DEF History
<1>1. i \in K /\ j \in K
  <2>1. ps[i] \notin NoteMsg /\ ps[j] \notin NoteMsg
    BY NoteIsNote DEF ResultMsg
  <2> QED BY <2>1 DEF Thread
<1>2. ps[i] = hs[f[i]] /\ ps[j] = hs[f[j]] /\ f[i] \in 1 .. Len(hs) /\ f[j] \in 1 .. Len(hs)
  BY <1>1 DEF Thread
<1>3. ps[i].content # <<>> /\ ps[j].content # <<>>
  OBVIOUS
<1> DEFINE g == f[i]
           h == f[j]
<1>4. g \in 1 .. Len(hs) /\ hs[g] \in ResultMsg /\ hs[g].content # <<>> /\ k \in 1 .. Len(hs[g].content)
  BY <1>2, <1>3
<1>5. h \in 1 .. Len(hs) /\ hs[h] \in ResultMsg /\ hs[h].content # <<>> /\ l \in 1 .. Len(hs[h].content)
  BY <1>2, <1>3
<1>6. hs[g].content[k].id = hs[h].content[l].id
  BY <1>2
<1> HIDE DEF g, h
<1>7. g - 2 \in Nat /\ hs[g].content[k].id \in Numbers(g - 2)
  BY <1>4, ResultIds
<1>8. h - 2 \in Nat /\ hs[h].content[l].id \in Numbers(h - 2)
  BY <1>5, ResultIds
<1>9. g - 2 = h - 2
  BY <1>6, <1>7, <1>8, NumbersApart
<1>10. g = h
  BY <1>4, <1>5, <1>9
<1>11. k = l
  <2>1. \A a, b \in 1 .. Len(hs[g].content) : hs[g].content[a].id = hs[g].content[b].id => a = b
    BY <1>4, ResultIds
  <2> QED BY <1>4, <1>5, <1>6, <1>10, <2>1
<1>12. i = j
  <2>1. i < j => g < h
    BY <1>1 DEF Thread, g, h
  <2>2. j < i => h < g
    BY <1>1 DEF Thread, g, h
  <2> QED BY <1>0, <1>4, <1>10, <2>1, <2>2
<1> QED BY <1>11, <1>12

(* The input of a request, segment by segment.                             *)
LEMMA SeqsOfSeqs ==
  ASSUME NEW n \in Nat, NEW ss, ss = [i \in 1 .. n |-> ss[i]], \A i \in 1 .. n : IsSeq(ss[i])
  PROVE  \E S : ss \in Seq(Seq(S))
<1> DEFINE T == UNION {{ss[i][k] : k \in 1 .. Len(ss[i])} : i \in 1 .. n}
<1>1. ASSUME NEW i \in 1 .. n PROVE ss[i] \in Seq(T)
  <2>1. Len(ss[i]) \in Nat /\ ss[i] = [k \in 1 .. Len(ss[i]) |-> ss[i][k]]
    BY DEF IsSeq
  <2>2. \A k \in 1 .. Len(ss[i]) : ss[i][k] \in T
    OBVIOUS
  <2> HIDE DEF T
  <2>3. ss[i] \in [1 .. Len(ss[i]) -> T]
    BY <2>1, <2>2
  <2> QED BY <2>1, <2>3
<1> HIDE DEF T
<1>2. ss \in [1 .. n -> Seq(T)]
  BY <1>1
<1>3. ss \in Seq(Seq(T))
  BY <1>2
<1> QED BY <1>3

Segments(ss, ps, thinking) ==
  /\ ss = [i \in 1 .. Len(ps) |-> ss[i]]
  /\ \A i \in 1 .. Len(ps) : Segment(ss[i], ps[i], thinking)

\* The place of the k-th item of a segment in the whole.
LEMMA LaidPlaces ==
  ASSUME NEW S, NEW ss \in Seq(Seq(S)), NEW w \in Seq(S), NEW off, Laid(w, off, ss)
  PROVE  /\ \A i \in 1 .. Len(ss) : /\ off[i - 1] \in Nat /\ Len(ss[i]) \in Nat
                                    /\ \A k \in 1 .. Len(ss[i]) : off[i - 1] + k \in 1 .. Len(w)
         /\ \A i \in 1 .. Len(ss) : \A k \in 1 .. Len(ss[i]) : w[off[i - 1] + k] = ss[i][k]
         /\ \A p \in 1 .. Len(w) : \E i \in 1 .. Len(ss) : \E k \in 1 .. Len(ss[i]) : p = off[i - 1] + k
<1>0. Len(ss) \in Nat /\ Len(w) \in Nat
  OBVIOUS
<1>1. ASSUME NEW i \in 1 .. Len(ss)
      PROVE  off[i - 1] \in Nat /\ Len(ss[i]) \in Nat /\ \A k \in 1 .. Len(ss[i]) : off[i - 1] + k \in 1 .. Len(w)
  <2>1. i - 1 \in 0 .. Len(ss) /\ i \in 0 .. Len(ss) /\ Len(ss) \in 0 .. Len(ss) /\ i <= Len(ss)
    BY <1>0
  <2>2. off[i - 1] \in Nat /\ off[i] = off[i - 1] + Len(ss[i]) /\ off[Len(ss)] = Len(w)
    BY <2>1 DEF Laid
  <2>3. \A a, b \in 0 .. Len(ss) : a <= b => off[a] <= off[b]
    BY Zenon DEF Laid
  <2>4. off[i] <= Len(w)
    BY <2>1, <2>2, <2>3
  <2>5. Len(ss[i]) \in Nat
    OBVIOUS
  <2>6. ASSUME NEW k \in 1 .. Len(ss[i]) PROVE off[i - 1] + k \in 1 .. Len(w)
    <3> DEFINE y == off[i - 1]
               m == Len(ss[i])
               t == Len(w)
    <3>1. y \in Nat /\ m \in Nat /\ t \in Nat /\ y + m <= t /\ k \in 1 .. m
      BY <1>0, <2>2, <2>4, <2>5
    <3> HIDE DEF y, m, t
    <3>2. y + k \in 1 .. t
      BY <3>1
    <3> QED BY <3>2 DEF y, t
  <2> QED BY <2>2, <2>5, <2>6
<1>2. \A i \in 1 .. Len(ss) : \A k \in 1 .. Len(ss[i]) : w[off[i - 1] + k] = ss[i][k]
  BY DEF Laid
<1>3. \A p \in 1 .. Len(w) : \E i \in 1 .. Len(ss) : \E k \in 1 .. Len(ss[i]) : p = off[i - 1] + k
  BY DEF Laid
<1> QED BY <1>1, <1>2, <1>3

LEMMA WholeInput ==
  ASSUME NEW ps, Len(ps) \in Nat, ResultsOnce(ps), NEW thinking, NEW ss, Segments(ss, ps, thinking),
         NEW X, X = FlattenSeq(ss)
  PROVE  /\ \E S : X \in Seq(S)
         /\ OutputsOnce(X)
         /\ thinking => \A x \in 1 .. Len(X) : IsFCall(X[x]) => Reasoned(X, x)
<1> DEFINE n == Len(ps)
<1>1. ss = [i \in 1 .. n |-> ss[i]] /\ \A i \in 1 .. n : IsSeq(ss[i])
  BY DEF Segments, Segment
<1>2. PICK S : ss \in Seq(Seq(S))
  BY <1>1, SeqsOfSeqs
<1>3. Len(ss) = n
  BY <1>1
<1>4. X \in Seq(S)
  BY <1>2, FlattenLaid
<1>5. PICK off : Laid(X, off, ss)
  BY <1>2, FlattenLaid
<1>6. /\ \A i \in 1 .. n : /\ off[i - 1] \in Nat /\ Len(ss[i]) \in Nat
                           /\ \A k \in 1 .. Len(ss[i]) : off[i - 1] + k \in 1 .. Len(X)
      /\ \A i \in 1 .. n : \A k \in 1 .. Len(ss[i]) : X[off[i - 1] + k] = ss[i][k]
      /\ \A p \in 1 .. Len(X) : \E i \in 1 .. n : \E k \in 1 .. Len(ss[i]) : p = off[i - 1] + k
  <2>1. \A i \in 1 .. Len(ss) : /\ off[i - 1] \in Nat /\ Len(ss[i]) \in Nat
                                 /\ \A k \in 1 .. Len(ss[i]) : off[i - 1] + k \in 1 .. Len(X)
    BY <1>2, <1>4, <1>5, LaidPlaces
  <2>2. \A i \in 1 .. Len(ss) : \A k \in 1 .. Len(ss[i]) : X[off[i - 1] + k] = ss[i][k]
    BY <1>2, <1>4, <1>5, LaidPlaces
  <2>3. \A p \in 1 .. Len(X) : \E i \in 1 .. Len(ss) : \E k \in 1 .. Len(ss[i]) : p = off[i - 1] + k
    BY <1>2, <1>4, <1>5, LaidPlaces
  <2> HIDE DEF n
  <2> QED BY <1>3, <2>1, <2>2, <2>3
<1>7. OutputsOnce(X)
  <2> SUFFICES ASSUME NEW p \in 1 .. Len(X), NEW q \in 1 .. Len(X),
                      IsOutput(X[p]), IsOutput(X[q]), X[p].id = X[q].id
               PROVE  p = q
    BY DEF OutputsOnce
  <2>1. PICK i \in 1 .. n : \E k \in 1 .. Len(ss[i]) : p = off[i - 1] + k
    BY <1>6
  <2>2. PICK k \in 1 .. Len(ss[i]) : p = off[i - 1] + k
    BY <2>1
  <2>3. PICK j \in 1 .. n : \E l \in 1 .. Len(ss[j]) : q = off[j - 1] + l
    BY <1>6
  <2>4. PICK l \in 1 .. Len(ss[j]) : q = off[j - 1] + l
    BY <2>3
  <2>5. X[p] = ss[i][k] /\ X[q] = ss[j][l]
    BY <1>6, <2>2, <2>4
  <2>6. ps[i] \in ResultMsg /\ k \in 1 .. Len(ps[i].content) /\ ss[i][k].id = ps[i].content[k].id
    BY <2>5 DEF Segments, Segment
  <2>7. ps[j] \in ResultMsg /\ l \in 1 .. Len(ps[j].content) /\ ss[j][l].id = ps[j].content[l].id
    BY <2>5 DEF Segments, Segment
  <2>8. ps[i].content[k].id = ps[j].content[l].id
    BY <2>5, <2>6, <2>7
  <2>9. i = j /\ k = l
    BY <2>6, <2>7, <2>8 DEF ResultsOnce
  <2> QED BY <2>2, <2>4, <2>9
<1>8. ASSUME thinking, NEW p \in 1 .. Len(X), IsFCall(X[p]) PROVE Reasoned(X, p)
  <2>1. PICK i \in 1 .. n : \E k \in 1 .. Len(ss[i]) : p = off[i - 1] + k
    BY <1>6
  <2>2. PICK k \in 1 .. Len(ss[i]) : p = off[i - 1] + k
    BY <2>1
  <2> DEFINE s == ss[i]
             o == off[i - 1]
  <2>3. X[p] = s[k]
    BY <1>6, <2>2
  <2>4. Reasoned(s, k)
    BY <1>8, <2>3 DEF Segments, Segment
  <2>5. o \in Nat /\ Len(s) \in Nat /\ k \in 1 .. Len(s) /\ p = o + k /\ \A l \in 1 .. Len(s) : X[o + l] = s[l]
    BY <1>6, <2>2
  <2> HIDE DEF s, o
  <2>6. PICK j \in 1 .. k - 1 : IsReason(s[j]) /\ \A l \in j + 1 .. k : Responses!IsReasoningProduct(s[l])
    BY <2>4 DEF Reasoned
  <2>7. j \in 1 .. Len(s) /\ o + j \in 1 .. p - 1 /\ X[o + j] = s[j]
    BY <2>5
  <2>8. ASSUME NEW q \in o + j + 1 .. p PROVE Responses!IsReasoningProduct(X[q])
    <3>1. q - o \in j + 1 .. k /\ q - o \in 1 .. Len(s) /\ o + (q - o) = q
      <4>1. o \in Nat /\ k \in Nat /\ j \in Nat /\ p = o + k /\ k <= Len(s) /\ Len(s) \in Nat
        BY <2>5, <2>7
      <4>2. q \in Int /\ o + j + 1 <= q /\ q <= o + k
        BY <4>1
      <4>3. q - o \in Int /\ j + 1 <= q - o /\ q - o <= k /\ o + (q - o) = q
        BY <4>1, <4>2
      <4> QED BY <4>1, <4>3
    <3>2. X[q] = s[q - o]
      BY <2>5, <3>1
    <3> QED BY <2>6, <3>1, <3>2
  <2> QED BY <2>6, <2>7, <2>8 DEF Reasoned
<1> QED BY <1>4, <1>7, <1>8

(* Answers in the prompt are those of the history.                         *)
LEMMA AnswerInThread ==
  ASSUME NEW ps \in Seq(Msg), NEW hs, History(hs), NEW K, NEW f, Thread(ps, hs, K, f),
         NEW i \in 1 .. Len(ps), ps[i] \in AnswerMsg, ps[i] \notin NoteMsg
  PROVE  /\ i \in K /\ f[i] \in 1 .. Len(hs) /\ f[i] - 1 \in Nat /\ ps[i] = hs[f[i]]
         /\ GoodAnswer(ps[i].content, f[i] - 1)
<1>0. hs \in Seq(Spk) /\ Len(hs) \in Nat /\ Len(ps) \in Nat /\ \A h \in 1 .. Len(hs) : MessageAt(hs, h)
  BY DEF History
<1>1. i \in K /\ ps[i] = hs[f[i]] /\ f[i] \in 1 .. Len(hs)
  BY DEF Thread
<1>2. f[i] - 1 \in Nat /\ MessageAt(hs, f[i])
  BY <1>0, <1>1
<1>3. ps[i] \notin SpeechMsg /\ ps[i] \notin ResultMsg
  BY DEF AnswerMsg, SpeechMsg, ResultMsg
<1>4. GoodAnswer(ps[i].content, f[i] - 1)
  BY <1>1, <1>2, <1>3 DEF MessageAt
<1> QED BY <1>1, <1>2, <1>4

\* What each message becomes is a segment.
LEMMA PromptSegments ==
  ASSUME NEW ps \in Seq(Msg), NEW hs, History(hs), NEW K, NEW f, Thread(ps, hs, K, f),
         NEW mode \in Responses!ReasoningMode, NEW effort, NEW i \in 1 .. Len(ps)
  PROVE  Segment(Responses!ItemsInThinking(ps[i], mode, effort), ps[i], mode = "plaintext" /\ effort # {"none"})
<1>1. ps[i] \in Msg
  OBVIOUS
<1>2. ps[i] \in AnswerMsg => ThinksFirst(ps[i].content)
  <2>1. CASE ps[i] \in NoteMsg
    <3>1. ~ HasUses(ps[i]) /\ DOMAIN ps[i].content = 1 .. Len(ps[i].content)
      <4>1. ps[i].content \in Seq([block : {"text"}, text : Seq(Words)])
        BY <2>1, NoteIsNote
      <4> QED BY <2>1, <4>1, NoteIsNote DEF HasUses
    <3> QED BY <3>1 DEF HasUses, SomeIn, ThinksFirst
  <2>2. CASE ps[i] \notin NoteMsg /\ ps[i] \in AnswerMsg
    <3>1. GoodAnswer(ps[i].content, f[i] - 1)
      BY <2>2, AnswerInThread
    <3> QED BY <3>1 DEF GoodAnswer, ThinksFirst
  <2> QED BY <2>1, <2>2
<1> QED BY <1>1, <1>2, SegmentOf

LEMMA ResponsesPaired ==
  ASSUME ConvInv, awaiting, provider.wire = "responses"
  PROVE  ResponsesIsPaired(sent)
<1> DEFINE ps == prompt
           n == Len(ps)
           mode == provider.mode
           effort == IF provider.thinking THEN {} ELSE {"none"}
           thinking == mode = "plaintext" /\ effort # {"none"}
           ss == [i \in 1 .. n |-> Responses!ItemsInThinking(ps[i], mode, effort)]
           X == FlattenSeq(ss)
           Z == Responses!SanitizeInputItems(X)
<1>1. ps \in Seq(Msg) /\ n \in Nat /\ DOMAIN ps = 1 .. n /\ History(history)
  BY InvFacts DEF ConvInv
<1>2. PICK K, f : Thread(ps, history, K, f)
  BY DEF ConvInv, ThreadInv
<1>3. mode \in Responses!ReasoningMode /\ provider.thinking \in BOOLEAN
  BY ProvidersAssumption DEF ConvInv, Provider
<1>4. thinking <=> mode = "plaintext" /\ provider.thinking
  BY <1>3
<1>5. sent = Z
  <2>1. sent = Responses!ResponsesInput(ps, mode, effort)
    BY DEF ConvInv, Request
  <2>2. Responses!ResponsesInput(ps, mode, effort)
          = Responses!SanitizeInputItems(Responses!FlattenSeq(
              [i \in DOMAIN ps |-> Responses!ItemsInThinking(ps[i], mode, effort)]))
    BY DEF Responses!ResponsesInput, Responses!FlatMap
  <2>3. \A s : Responses!FlattenSeq(s) = FlattenSeq(s)
    BY DEF Responses!FlattenSeq, FlattenSeq
  <2>4. ss = [i \in DOMAIN ps |-> Responses!ItemsInThinking(ps[i], mode, effort)]
    BY <1>1
  <2> HIDE DEF ss, ps, mode, effort
  <2> QED BY <2>1, <2>2, <2>3, <2>4
<1>6. Segments(ss, ps, thinking)
  <2>1. ss = [i \in 1 .. n |-> ss[i]]
    OBVIOUS
  <2>2. ASSUME NEW i \in 1 .. n PROVE Segment(ss[i], ps[i], thinking)
    <3>1. Segment(Responses!ItemsInThinking(ps[i], mode, effort), ps[i], mode = "plaintext" /\ effort # {"none"})
      <4> HIDE DEF ps, mode, effort
      <4> QED BY <1>1, <1>2, <1>3, PromptSegments DEF n
    <3>2. ss[i] = Responses!ItemsInThinking(ps[i], mode, effort)
      OBVIOUS
    <3> HIDE DEF ss, ps, mode, effort
    <3> QED BY <3>1, <3>2 DEF thinking
  <2> HIDE DEF ss, thinking, ps
  <2> QED BY <2>1, <2>2 DEF Segments, n
<1>7. ResultsOnce(ps)
  <2> HIDE DEF ps
  <2> QED BY <1>1, <1>2, ResultsAreOnce
<1>8. /\ \E S : X \in Seq(S)
      /\ OutputsOnce(X)
      /\ thinking => \A x \in 1 .. Len(X) : IsFCall(X[x]) => Reasoned(X, x)
  <2> HIDE DEF ss, thinking, ps
  <2> QED BY <1>1, <1>6, <1>7, WholeInput DEF n
<1> HIDE DEF X, ss, thinking, ps
<1>9. PICK S : X \in Seq(S)
  BY <1>8
<1>10. /\ Z \in Seq(S) /\ OutputsOnce(Z)
       /\ \A i \in 1 .. Len(Z) : IsOutput(Z[i]) => HasCall(Z, i)
       /\ \A i \in 1 .. Len(Z) : IsReason(Z[i]) => i < Len(Z) /\ Responses!IsReasoningProduct(Z[i + 1])
       /\ (\A x \in 1 .. Len(X) : IsFCall(X[x]) => Reasoned(X, x))
              => \A i \in 1 .. Len(Z) : IsFCall(Z[i]) =>
                   \E k \in 1 .. i - 1 : IsReason(Z[k]) /\ \A j \in k .. i : ~ OfUser(Z[j])
  BY <1>8, <1>9, SanitizedItems
<1> HIDE DEF Z
<1>11. DOMAIN Z = 1 .. Len(Z)
  BY <1>10
<1>12. ASSUME NEW i \in DOMAIN Z, Z[i].type = "function_call_output"
       PROVE  /\ \E k \in 1 .. i - 1 : Z[k].type = "function_call" /\ Z[k].id = Z[i].id
              /\ \A k \in DOMAIN Z : Z[k].type = "function_call_output" /\ Z[k].id = Z[i].id => k = i
  BY <1>10, <1>11, <1>12 DEF IsOutput, HasCall, IsFCall, OutputsOnce
<1>13. ASSUME NEW i \in DOMAIN Z, Z[i].type = "reasoning"
       PROVE  i < Len(Z) /\ Responses!IsReasoningProduct(Z[i + 1])
  BY <1>10, <1>11, <1>13 DEF IsReason
<1>14. ASSUME NEW i \in DOMAIN Z, Z[i].type = "function_call", provider.mode = "plaintext", provider.thinking
       PROVE  \E k \in 1 .. i - 1 : /\ Z[k].type = "reasoning"
                                    /\ \A j \in k .. i : ~ OfUser(Z[j])
  BY <1>4, <1>8, <1>10, <1>11, <1>14 DEF IsFCall, IsReason
<1>15. ResponsesIsPaired(Z)
  BY <1>12, <1>13, <1>14 DEF ResponsesIsPaired
<1> QED BY <1>5, <1>15

-----------------------------------------------------------------------------
(* Requests: what each message is over Chat Completions *)

LEMMA ChatSame ==
  /\ \A c : Chat!Filter(c, Chat!IsToolResult) = Filter(c, IsToolResult)
  /\ \A m : Chat!ToolUses(m) = ToolUses(m)
  /\ \A s : Chat!FlattenSeq(s) = FlattenSeq(s)
  /\ \A b : (Chat!IsToolResult(b) <=> IsToolResult(b)) /\ (Chat!IsToolUse(b) <=> IsToolUse(b))
<1>1. \A c : Chat!Filter(c, Chat!IsToolResult) = Filter(c, IsToolResult)
  BY DEF Chat!Filter, Filter, Chat!SelectAt, SelectAt, Chat!IsToolResult, IsToolResult
<1>2. \A m : Chat!ToolUses(m) = ToolUses(m)
  BY DEF Chat!ToolUses, ToolUses, Chat!Filter, Filter, Chat!SelectAt, SelectAt, Chat!IsToolUse, IsToolUse
<1>3. \A s : Chat!FlattenSeq(s) = FlattenSeq(s)
  BY DEF Chat!FlattenSeq, FlattenSeq
<1>4. \A b : (Chat!IsToolResult(b) <=> IsToolResult(b)) /\ (Chat!IsToolUse(b) <=> IsToolUse(b))
  BY DEF Chat!IsToolResult, IsToolResult, Chat!IsToolUse, IsToolUse
<1> QED BY <1>1, <1>2, <1>3, <1>4

LEMMA ResultMessages ==
  ASSUME NEW S, NEW m, m.content \in Seq(S), m.content # <<>>,
         \A i \in 1 .. Len(m.content) : IsToolResult(m.content[i]), NEW echo
  PROVE  Chat!MessagesToOpenAi(m, echo) = [i \in 1 .. Len(m.content) |-> Chat!ToolMessage(m.content[i])]
<1> DEFINE c == m.content
           w == Chat!Filter(c, Chat!IsToolResult)
<1>1. w = Filter(c, IsToolResult)
  BY ChatSame
<1>2. Filter(c, IsToolResult) = c
  BY AllOrNoResults
<1>3. w = c /\ c # <<>> /\ DOMAIN c = 1 .. Len(c)
  BY <1>1, <1>2
<1>4. w # <<>> => Chat!MessagesToOpenAi(m, echo) = [i \in DOMAIN w |-> Chat!ToolMessage(w[i])]
  BY DEF Chat!MessagesToOpenAi
<1> HIDE DEF w
<1> QED BY <1>3, <1>4

LEMMA NoResultsOf ==
  ASSUME NEW S, NEW m, m.content \in Seq(S), ~ HasResults(m)
  PROVE  Chat!Filter(m.content, Chat!IsToolResult) = <<>>
<1>1. \A i \in 1 .. Len(m.content) : ~ IsToolResult(m.content[i])
  BY DEF HasResults, SomeIn
<1>2. Filter(m.content, IsToolResult) = <<>>
  BY <1>1, AllOrNoResults
<1> QED BY <1>2, ChatSame

\* A turn over Chat, with the calls of m.
Turn(m, r) ==
  [role |-> "assistant", reasoning |-> r,
   calls |-> [k \in 1 .. Len(ToolUses(m)) |-> Chat!CallOf(ToolUses(m)[k])]]

LEMMA TurnMessage ==
  ASSUME NEW m \in AnswerMsg, ToolUses(m) # <<>>, NEW echo
  PROVE  \E r : Chat!MessagesToOpenAi(m, echo) = <<Turn(m, r)>>
<1> DEFINE r == IF echo THEN Chat!ReasoningText(m) ELSE {}
           w == Chat!Filter(m.content, Chat!IsToolResult)
           u == Chat!ToolUses(m)
<1>1. m.content \in Seq(AnswerBlk) /\ ~ HasResults(m)
  BY MessageKinds DEF Msg, Spk, AnswerMsg
<1>2. w = <<>>
  BY <1>1, NoResultsOf
<1>3. u = ToolUses(m) /\ u \in Seq(UseBlk)
  BY ChatSame, UsesOfAnswer
<1>4. w = <<>> /\ u # <<>> => Chat!MessagesToOpenAi(m, echo) = <<Chat!ToolTurn(m, r)>>
  BY DEF Chat!MessagesToOpenAi
<1>5. Chat!ToolTurn(m, r) = [role |-> "assistant", reasoning |-> r, calls |-> [k \in DOMAIN u |-> Chat!CallOf(u[k])]]
  BY DEF Chat!ToolTurn
<1> HIDE DEF r, w, u
<1>6. DOMAIN u = 1 .. Len(u)
  BY <1>3
<1>7. Chat!ToolTurn(m, r) = Turn(m, r)
  BY <1>3, <1>5, <1>6 DEF Turn
<1>8. Chat!MessagesToOpenAi(m, echo) = <<Turn(m, r)>>
  BY <1>2, <1>3, <1>4, <1>7
<1> QED BY <1>8

LEMMA PlainMessage ==
  ASSUME NEW m \in Msg, ~ HasResults(m), ToolUses(m) = <<>>, NEW echo
  PROVE  \E x : Chat!MessagesToOpenAi(m, echo) = <<x>> /\ x.role # "tool" /\ ~ Chat!IsToolTurn(x)
<1> DEFINE r == IF echo THEN Chat!ReasoningText(m) ELSE {}
           w == Chat!Filter(m.content, Chat!IsToolResult)
           u == Chat!ToolUses(m)
           y == [role |-> "user", parts |-> Chat!FilterMap(Chat!ChatPart, m.content)]
           z == [role |-> m.role, text |-> Chat!TextContentWithFiles(m),
                 reasoning |-> IF m.role = "assistant" THEN r ELSE {}]
           image == m.role = "user" /\ Chat!SomeIn(m.content, Chat!IsImage)
<1>1. m.role \in {"user", "assistant"} /\ \E S : m.content \in Seq(S)
  <2>1. CASE m \in SpeechMsg \cup ResultMsg \cup AnswerMsg
    BY <2>1, MessageKinds
  <2>2. CASE m \in NoteMsg
    BY <2>2, NoteIsNote
  <2> QED BY <2>1, <2>2 DEF Msg, Spk
<1>2. w = <<>>
  BY <1>1, NoResultsOf
<1>3. u = <<>>
  BY ChatSame
<1>4. w = <<>> /\ u = <<>> => Chat!MessagesToOpenAi(m, echo) = IF image THEN <<y>> ELSE <<z>>
  BY DEF Chat!MessagesToOpenAi
<1>5. y.role # "tool" /\ ~ Chat!IsToolTurn(y)
  BY DEF Chat!IsToolTurn
<1>6. z.role # "tool" /\ ~ Chat!IsToolTurn(z)
  <2>1. z.role = m.role /\ DOMAIN z = {"role", "text", "reasoning"}
    OBVIOUS
  <2>2. "calls" \notin DOMAIN z
    BY <2>1
  <2> HIDE DEF z
  <2> QED BY <1>1, <2>1, <2>2 DEF Chat!IsToolTurn
<1> HIDE DEF w, u, y, z, image
<1> QED BY <1>2, <1>3, <1>4, <1>5, <1>6

(* What sanitize_tool_pairing makes of a message.                          *)
LEMMA PickedTail ==
  ASSUME NEW S, NEW s \in Seq(S), NEW a \in 0 .. Len(s), NEW K,
         \A k \in 1 .. Len(s) : k \in K <=> a < k
  PROVE  /\ Len(Picked(s, K)) = Len(s) - a
         /\ \A k \in 1 .. Len(s) - a : Picked(s, K)[k] = s[a + k]
<1> DEFINE w == Picked(s, K)
           n == Len(s)
           d == [k \in 1 .. n - a |-> a + k]
<1>0. n \in Nat /\ a \in Nat /\ n - a \in Nat
  OBVIOUS
<1>1. w \in Seq(S)
  BY PickedPlaces
<1>2. PICK e : Places(e, s, K, w)
  BY PickedPlaces
<1> HIDE DEF w
<1>3. Len(w) \in Nat
  BY <1>1
<1>4. \A k \in 1 .. Len(w) : e[k] \in 1 .. n /\ e[k] \in K /\ w[k] = s[e[k]]
  BY <1>2 DEF Places
<1>5. Ascending(e, Len(w))
  <2>1. e \in [1 .. Len(w) -> Nat]
    <3>1. DOMAIN e = 1 .. Len(w) /\ e = [k \in DOMAIN e |-> e[k]]
      BY <1>2 DEF Places
    <3>2. \A k \in 1 .. Len(w) : e[k] \in Nat
      BY <1>0, <1>4
    <3> QED BY <3>1, <3>2
  <2>2. \A j, k \in 1 .. Len(w) : j < k => e[j] < e[k]
    BY <1>2 DEF Places
  <2> QED BY <2>1, <2>2 DEF Ascending
<1>6. Ascending(d, n - a)
  BY <1>0 DEF Ascending
<1>7. Within(e, Len(w), d, n - a)
  <2> SUFFICES ASSUME NEW j \in 1 .. Len(w) PROVE \E k \in 1 .. n - a : d[k] = e[j]
    BY DEF Within
  <2>1. e[j] \in 1 .. n /\ a < e[j]
    BY <1>4
  <2>2. e[j] - a \in 1 .. n - a /\ a + (e[j] - a) = e[j]
    BY <1>0, <2>1
  <2> QED BY <2>2
<1>8. Within(d, n - a, e, Len(w))
  <2> SUFFICES ASSUME NEW j \in 1 .. n - a PROVE \E k \in 1 .. Len(w) : e[k] = a + j
    BY DEF Within
  <2>1. a + j \in 1 .. n /\ a < a + j
    BY <1>0
  <2>2. a + j \in K
    BY <2>1
  <2> QED BY <1>2, <2>1, <2>2 DEF Places
<1> HIDE DEF d
<1>9. Len(w) = n - a /\ e = d
  BY <1>0, <1>3, <1>5, <1>6, <1>7, <1>8, OneCount
<1> QED BY <1>4, <1>9 DEF w, d

LEMMA OpenPicked ==
  ASSUME NEW u, Len(u) \in Nat, NEW A
  PROVE  Chat!Filter(u, LAMBDA b : b.id \notin A) = Picked(u, {k \in 1 .. Len(u) : u[k].id \notin A})
<1> DEFINE n == Len(u)
           K == {k \in 1 .. n : u[k].id \notin A}
           Is(g) == g = [i \in 0 .. n |-> IF i = 0 THEN <<>>
                        ELSE IF u[i].id \notin A THEN Append(g[i - 1], u[i]) ELSE g[i - 1]]
           g == CHOOSE g : Is(g)
<1>1. ASSUME NEW h PROVE Is(h) <=> IsPick(h, u, K, n)
  BY DEF IsPick
<1>2. Chat!Filter(u, LAMBDA b : b.id \notin A) = g[n]
  BY DEF Chat!Filter, Chat!SelectAt
<1> HIDE DEF Is, K
<1>3. IsPick(g, u, K, n)
  BY <1>1, PickExists
<1> HIDE DEF g
<1>4. Picked(u, K) = g[n]
  BY <1>3, PickedIs
<1> QED BY <1>2, <1>4 DEF K

LEMMA KeptPicked ==
  ASSUME NEW m, Len(m.content) \in Nat, NEW D
  PROVE  Chat!WithoutOrphans(m, D)
           = Picked(m.content, {k \in 1 .. Len(m.content) : IsToolResult(m.content[k]) => m.content[k].id \in D})
<1> DEFINE c == m.content
           n == Len(c)
           K == {k \in 1 .. n : IsToolResult(c[k]) => c[k].id \in D}
           Is(g) == g = [i \in 0 .. n |-> IF i = 0 THEN <<>>
                        ELSE IF Chat!IsToolResult(c[i]) => c[i].id \in D THEN Append(g[i - 1], c[i]) ELSE g[i - 1]]
           g == CHOOSE g : Is(g)
<1>1. ASSUME NEW h PROVE Is(h) <=> IsPick(h, c, K, n)
  <2>1. \A i : Chat!IsToolResult(c[i]) <=> IsToolResult(c[i])
    BY ChatSame
  <2> QED BY <2>1 DEF IsPick
<1>2. Chat!WithoutOrphans(m, D) = g[n]
  BY DEF Chat!WithoutOrphans, Chat!Filter, Chat!SelectAt
<1> HIDE DEF Is, K
<1>3. IsPick(g, c, K, n)
  BY <1>1, PickExists
<1> HIDE DEF g
<1>4. Picked(c, K) = g[n]
  BY <1>3, PickedIs
<1> QED BY <1>2, <1>4 DEF K

Placeholder(id) ==
  [role |-> "user", content |-> <<Chat!ToolResult(id, Chat!InterruptedToolResult, TRUE)>>]

\* The first a calls are answered: a placeholder for each of the others.
LEMMA RepairedAnswer ==
  ASSUME NEW m \in AnswerMsg, NEW D, NEW A, NEW a \in 0 .. Len(ToolUses(m)),
         \A k \in 1 .. Len(ToolUses(m)) : ToolUses(m)[k].id \in A <=> k <= a
  PROVE  Chat!RepairedMessage(m, D, A)
           = <<m>> \o [k \in 1 .. Len(ToolUses(m)) - a |-> Placeholder(ToolUses(m)[a + k].id)]
<1> DEFINE u == ToolUses(m)
           n == Len(u)
           K == {k \in 1 .. n : u[k].id \notin A}
           w == Picked(u, K)
<1>1. u \in Seq(UseBlk) /\ n \in Nat /\ a \in Nat /\ a \in 0 .. n
  BY UsesOfAnswer
<1>2. Chat!Filter(Chat!ToolUses(m), LAMBDA b : b.id \notin A) = w
  <2>1. Chat!ToolUses(m) = u
    BY ChatSame
  <2>2. Chat!Filter(u, LAMBDA b : b.id \notin A) = w
    BY <1>1, OpenPicked
  <2> QED BY <2>1, <2>2
<1>3. \A k \in 1 .. n : k \in K <=> a < k
  BY <1>1
<1>4. w \in Seq(UseBlk)
  <2> HIDE DEF u, K
  <2> QED BY <1>1, PickedPlaces
<1>5. Len(w) = n - a /\ \A k \in 1 .. n - a : w[k] = u[a + k]
  <2> HIDE DEF u, K
  <2> QED BY <1>1, <1>3, PickedTail
<1>6. Chat!Placeholders(m, A) = [i \in DOMAIN w |-> Placeholder(w[i].id)]
  BY <1>2 DEF Chat!Placeholders, Placeholder
<1> HIDE DEF w, u, K
<1>7. DOMAIN w = 1 .. n - a
  BY <1>4, <1>5
<1>8. Chat!Placeholders(m, A) = [k \in 1 .. n - a |-> Placeholder(u[a + k].id)]
  BY <1>5, <1>6, <1>7
<1>9. m.role = "assistant"
  BY DEF AnswerMsg
<1> QED BY <1>8, <1>9 DEF Chat!RepairedMessage, u

LEMMA RepairedNote ==
  ASSUME NEW m \in Msg, ~ HasResults(m), ToolUses(m) = <<>>, NEW D, NEW A
  PROVE  Chat!RepairedMessage(m, D, A) = <<m>>
<1>1. CASE m \in SpeechMsg \cup ResultMsg
  <2>1. m.role = "user"
    BY <1>1, MessageKinds
  <2>2. ~ Chat!SomeIn(m.content, Chat!IsToolResult)
    BY ChatSame DEF HasResults, SomeIn, Chat!SomeIn
  <2> QED BY <2>1, <2>2 DEF Chat!RepairedMessage
<1>2. CASE m \in AnswerMsg \cup NoteMsg
  <2>1. m.role = "assistant"
    BY <1>2, MessageKinds
  <2>2. Chat!ToolUses(m) = <<>>
    BY ChatSame
  <2> DEFINE u == Chat!ToolUses(m)
             w == Chat!Filter(u, LAMBDA b : b.id \notin A)
             K == {k \in 1 .. Len(u) : u[k].id \notin A}
  <2> HIDE DEF u
  <2>3. w = <<>>
    <3>1. u = <<>> /\ Len(u) \in Nat
      BY <2>2 DEF u
    <3>2. w = Picked(u, K)
      <4>1. Len(u) \in Nat
        BY <3>1
      <4> QED BY <4>1, OpenPicked
    <3>3. u \in Seq({}) /\ 1 .. Len(u) \subseteq K
      BY <3>1
    <3> HIDE DEF K, w
    <3>4. Picked(u, K) = u
      BY <3>3, PickedAll
    <3> QED BY <3>1, <3>2, <3>4
  <2>4. Chat!Placeholders(m, A) = [i \in DOMAIN w |-> Placeholder(w[i].id)]
    BY DEF Chat!Placeholders, Placeholder, u
  <2> HIDE DEF w
  <2>5. Chat!Placeholders(m, A) = <<>>
    BY <2>3, <2>4
  <2>6. <<m>> \o <<>> = <<m>>
    OBVIOUS
  <2> QED BY <2>1, <2>5, <2>6 DEF Chat!RepairedMessage
<1> QED BY <1>1, <1>2 DEF Msg, Spk

LEMMA RepairedResults ==
  ASSUME NEW m \in ResultMsg, HasResults(m), NEW D, NEW A
  PROVE  /\ (\A k \in 1 .. Len(m.content) : m.content[k].id \in D) => Chat!RepairedMessage(m, D, A) = <<m>>
         /\ (\A k \in 1 .. Len(m.content) : m.content[k].id \notin D) => Chat!RepairedMessage(m, D, A) = <<>>
<1> DEFINE c == m.content
           K == {k \in 1 .. Len(c) : IsToolResult(c[k]) => c[k].id \in D}
           w == Chat!WithoutOrphans(m, D)
<1>1. m.role = "user" /\ c \in Seq(ResBlk) /\ Len(c) \in Nat /\ c # <<>> /\ m = [role |-> "user", content |-> c]
  BY DEF ResultMsg, HasResults, SomeIn
<1>2. Chat!SomeIn(c, Chat!IsToolResult)
  BY ChatSame DEF HasResults, SomeIn, Chat!SomeIn
<1>3. w = Picked(c, K)
  BY <1>1, KeptPicked
<1>4. \A k \in 1 .. Len(c) : IsToolResult(c[k])
  <2>1. \A b \in ResBlk : IsToolResult(b)
    BY DEF ResBlk, IsToolResult
  <2> QED BY <1>1, <2>1
<1>5. Chat!RepairedMessage(m, D, A) = IF w = <<>> THEN <<>> ELSE <<[m EXCEPT !.content = w]>>
  BY <1>1, <1>2 DEF Chat!RepairedMessage
<1> HIDE DEF w
<1>6. ASSUME \A k \in 1 .. Len(c) : c[k].id \in D PROVE Chat!RepairedMessage(m, D, A) = <<m>>
  <2>1. 1 .. Len(c) \subseteq K
    BY <1>6
  <2> HIDE DEF c, K
  <2>2. w = c
    BY <1>1, <1>3, <2>1, PickedAll
  <2>3. [m EXCEPT !.content = c] = m
    BY <1>1
  <2> QED BY <1>1, <1>5, <2>2, <2>3
<1>7. ASSUME \A k \in 1 .. Len(c) : c[k].id \notin D PROVE Chat!RepairedMessage(m, D, A) = <<>>
  <2>1. K = {}
    BY <1>4, <1>7
  <2> HIDE DEF c, K
  <2>2. w \in Seq(ResBlk)
    BY <1>1, <1>3, PickedPlaces
  <2>3. PICK e : Places(e, c, K, w)
    BY <1>1, <1>3, PickedPlaces
  <2>4. Len(w) = 0
    BY <2>1, <2>2, <2>3 DEF Places
  <2>5. w = <<>>
    BY <2>2, <2>4
  <2> QED BY <1>5, <2>5
<1> QED BY <1>6, <1>7

(* Which calls of the prompt are answered, and which results have a call.  *)
LEMMA AnswerIsNoNote ==
  ASSUME NEW m \in AnswerMsg
  PROVE  m \notin NoteMsg
BY SpokenIsNoNote, NoteIsNote DEF Spk

LEMMA DeclaredAre ==
  ASSUME NEW ps \in Seq(Msg), NEW x
  PROVE  x \in Chat!Declared(ps) <=>
           \E i \in 1 .. Len(ps) : /\ ps[i] \in AnswerMsg
                                   /\ \E k \in 1 .. Len(ToolUses(ps[i])) : ToolUses(ps[i])[k].id = x
<1>0. DOMAIN ps = 1 .. Len(ps)
  OBVIOUS
<1>1. x \in Chat!Declared(ps) <=>
        \E i \in 1 .. Len(ps) : \E k \in DOMAIN ps[i].content :
          IsToolUse(ps[i].content[k]) /\ ps[i].content[k].id = x
  <2>1. \A b : b \in Chat!UsesIn(ps) <=>
          \E i \in 1 .. Len(ps) : \E k \in DOMAIN ps[i].content : b = ps[i].content[k] /\ IsToolUse(b)
    <3>1. \A s, b : b \in Chat!ToSet(s) <=> \E k \in DOMAIN s : b = s[k]
      BY DEF Chat!ToSet
    <3>2. \A b : b \in Chat!UsesIn(ps) <=>
            (\E i \in DOMAIN ps : b \in Chat!ToSet(ps[i].content)) /\ Chat!IsToolUse(b)
      BY DEF Chat!UsesIn
    <3>3. \A b : Chat!IsToolUse(b) <=> IsToolUse(b)
      BY ChatSame
    <3> QED BY <1>0, <3>1, <3>2, <3>3
  <2>2. x \in Chat!Declared(ps) <=> \E b \in Chat!UsesIn(ps) : b.id = x
    BY DEF Chat!Declared
  <2> QED BY <2>1, <2>2
<1>2. ASSUME NEW i \in 1 .. Len(ps), NEW k \in DOMAIN ps[i].content, IsToolUse(ps[i].content[k]),
             ps[i].content[k].id = x
      PROVE  ps[i] \in AnswerMsg /\ \E l \in 1 .. Len(ToolUses(ps[i])) : ToolUses(ps[i])[l].id = x
  <2>1. HasUses(ps[i]) /\ ps[i] \in Msg
    BY <1>2 DEF HasUses, SomeIn
  <2>2. ps[i] \in AnswerMsg
    BY <2>1, MessageKinds DEF Msg, Spk
  <2>3. k \in 1 .. Len(ps[i].content)
    BY <2>2 DEF AnswerMsg
  <2>4. PICK l \in 1 .. Len(ToolUses(ps[i])) : ps[i].content[k] = ToolUses(ps[i])[l]
    BY <1>2, <2>2, <2>3, UsesOfAnswer
  <2> QED BY <1>2, <2>2, <2>4
<1>3. ASSUME NEW i \in 1 .. Len(ps), ps[i] \in AnswerMsg, NEW l \in 1 .. Len(ToolUses(ps[i])),
             ToolUses(ps[i])[l].id = x
      PROVE  \E k \in DOMAIN ps[i].content : IsToolUse(ps[i].content[k]) /\ ps[i].content[k].id = x
  <2>1. PICK k \in 1 .. Len(ps[i].content) :
          ps[i].content[k] = ToolUses(ps[i])[l] /\ IsToolUse(ps[i].content[k])
    BY <1>3, UsesOfAnswer
  <2>2. k \in DOMAIN ps[i].content
    BY <1>3 DEF AnswerMsg
  <2> QED BY <1>3, <2>1, <2>2
<1> QED BY <1>1, <1>2, <1>3

LEMMA AnsweredAre ==
  ASSUME NEW ps \in Seq(Msg), NEW x
  PROVE  x \in Chat!Answered(ps) <=>
           \E i \in 1 .. Len(ps) : /\ ps[i] \in ResultMsg
                                   /\ \E k \in 1 .. Len(ps[i].content) : ps[i].content[k].id = x
<1>0. DOMAIN ps = 1 .. Len(ps)
  OBVIOUS
<1>1. x \in Chat!Answered(ps) <=>
        \E i \in 1 .. Len(ps) : \E k \in DOMAIN ps[i].content :
          IsToolResult(ps[i].content[k]) /\ ps[i].content[k].id = x
  <2>1. \A b : b \in Chat!ResultsIn(ps) <=>
          \E i \in 1 .. Len(ps) : \E k \in DOMAIN ps[i].content : b = ps[i].content[k] /\ IsToolResult(b)
    <3>1. \A s, b : b \in Chat!ToSet(s) <=> \E k \in DOMAIN s : b = s[k]
      BY DEF Chat!ToSet
    <3>2. \A b : b \in Chat!ResultsIn(ps) <=>
            (\E i \in DOMAIN ps : b \in Chat!ToSet(ps[i].content)) /\ Chat!IsToolResult(b)
      BY DEF Chat!ResultsIn
    <3>3. \A b : Chat!IsToolResult(b) <=> IsToolResult(b)
      BY ChatSame
    <3> QED BY <1>0, <3>1, <3>2, <3>3
  <2>2. x \in Chat!Answered(ps) <=> \E b \in Chat!ResultsIn(ps) : b.id = x
    BY DEF Chat!Answered
  <2> QED BY <2>1, <2>2
<1>2. ASSUME NEW i \in 1 .. Len(ps), NEW k \in DOMAIN ps[i].content, IsToolResult(ps[i].content[k])
      PROVE  ps[i] \in ResultMsg /\ k \in 1 .. Len(ps[i].content)
  <2>1. HasResults(ps[i]) /\ ps[i] \in Msg
    BY <1>2 DEF HasResults, SomeIn
  <2>2. ps[i] \in ResultMsg
    BY <2>1, MessageKinds DEF Msg, Spk
  <2> QED BY <2>2 DEF ResultMsg
<1>3. ASSUME NEW i \in 1 .. Len(ps), ps[i] \in ResultMsg, NEW k \in 1 .. Len(ps[i].content)
      PROVE  k \in DOMAIN ps[i].content /\ IsToolResult(ps[i].content[k])
  <2>1. ps[i].content \in Seq(ResBlk)
    BY <1>3 DEF ResultMsg
  <2>2. k \in DOMAIN ps[i].content /\ ps[i].content[k] \in ResBlk
    BY <2>1
  <2> QED BY <2>2 DEF ResBlk, IsToolResult
<1> QED BY <1>1, <1>2, <1>3

\* The message after the i-th has results, of the calls of the i-th.
Followed(ps, K, f, i) == i + 1 \in K /\ HasResults(ps[i + 1]) /\ f[i + 1] = f[i] + 1

LEMMA ResultInThread ==
  ASSUME NEW ps \in Seq(Msg), NEW hs, History(hs), NEW K, NEW f, Thread(ps, hs, K, f),
         NEW j \in 1 .. Len(ps), ps[j] \in ResultMsg, ps[j].content # <<>>
  PROVE  /\ j \in K /\ f[j] \in 1 .. Len(hs) /\ ps[j] = hs[f[j]] /\ hs[f[j]] \in ResultMsg
         /\ hs[f[j]].content # <<>> /\ HasResults(ps[j])
<1>1. ps[j].content \in Seq(ResBlk) /\ Len(ps[j].content) \in Nat
  BY DEF ResultMsg
<1>2. ps[j] \notin NoteMsg
  BY NoteIsNote DEF ResultMsg
<1>3. j \in K /\ f[j] \in 1 .. Len(hs) /\ ps[j] = hs[f[j]]
  BY <1>2 DEF Thread
<1>4. HasResults(ps[j])
  <2>1. 1 \in DOMAIN ps[j].content /\ ps[j].content[1] \in ResBlk
    BY <1>1
  <2>2. IsToolResult(ps[j].content[1])
    BY <2>1 DEF ResBlk, IsToolResult
  <2> QED BY <2>1, <2>2 DEF HasResults, SomeIn
<1> QED BY <1>3, <1>4

\* A result answers a call of the message before it, or none of the prompt.
LEMMA ResultsMeet ==
  ASSUME NEW ps \in Seq(Msg), NEW hs, History(hs), NEW K, NEW f, Thread(ps, hs, K, f),
         NEW i \in 1 .. Len(ps), ps[i] \in AnswerMsg, NEW j \in 1 .. Len(ps), ps[j] \in ResultMsg,
         NEW k \in 1 .. Len(ToolUses(ps[i])), NEW q \in 1 .. Len(ps[j].content),
         ToolUses(ps[i])[k].id = ps[j].content[q].id
  PROVE  j = i + 1 /\ Followed(ps, K, f, i) /\ k = q
<1>0. Len(hs) \in Nat /\ Len(ps) \in Nat
  BY DEF History
<1>1. i \in K /\ f[i] \in 1 .. Len(hs) /\ f[i] - 1 \in Nat /\ ps[i] = hs[f[i]] /\ GoodAnswer(ps[i].content, f[i] - 1)
  BY AnswerIsNoNote, AnswerInThread
<1>2. ps[j].content # <<>>
  OBVIOUS
<1>3. /\ j \in K /\ f[j] \in 1 .. Len(hs) /\ ps[j] = hs[f[j]] /\ hs[f[j]] \in ResultMsg
      /\ hs[f[j]].content # <<>> /\ HasResults(ps[j])
  BY <1>2, ResultInThread
<1> DEFINE g == f[i]
           h == f[j]
           u == ToolUses(ps[i])
           c == ps[j].content
<1>4. /\ \A l \in 1 .. Len(u) : u[l].id \in Numbers(g - 1)
      /\ \A l, p \in 1 .. Len(u) : u[l].id = u[p].id => l = p
  BY <1>1, UsesApart
<1>5. h - 2 \in Nat
  BY <1>3, ResultIds
<1>6. \A l \in 1 .. Len(c) :
        l \in 1 .. Len(ToolUses(hs[h - 1])) /\ c[l].id = ToolUses(hs[h - 1])[l].id /\ c[l].id \in Numbers(h - 2)
  <2>1. h \in 1 .. Len(hs) /\ hs[h] \in ResultMsg /\ hs[h].content # <<>> /\ c = hs[h].content
    BY <1>3
  <2> HIDE DEF h, c
  <2>2. \A l \in 1 .. Len(hs[h].content) :
          /\ l \in 1 .. Len(ToolUses(hs[h - 1]))
          /\ hs[h].content[l].id = ToolUses(hs[h - 1])[l].id
          /\ hs[h].content[l].id \in Numbers(h - 2)
    BY <2>1, ResultIds
  <2> QED BY <2>1, <2>2
<1>7. g - 1 = h - 2
  <2> HIDE DEF g, h, u, c
  <2>1. u[k].id \in Numbers(g - 1) /\ u[k].id \in Numbers(h - 2)
    BY <1>4, <1>6 DEF u, c
  <2> QED BY <1>1, <1>5, <2>1, NumbersApart DEF g
<1>8. h = g + 1 /\ h - 1 = g
  <2>1. g \in Int /\ h \in Int
    BY <1>0, <1>1, <1>3
  <2> HIDE DEF g, h
  <2> QED BY <1>7, <2>1
<1>9. j = i + 1
  <2>1. f[j] = f[i] + 1
    BY <1>8
  <2> QED BY <1>1, <1>3, <2>1 DEF Thread
<1>10. q \in 1 .. Len(u) /\ c[q].id = u[q].id
  <2>1. hs[h - 1] = ps[i]
    BY <1>1, <1>8
  <2> HIDE DEF h
  <2> QED BY <1>6, <2>1
<1>11. k = q
  BY <1>4, <1>10
<1>12. Followed(ps, K, f, i)
  BY <1>3, <1>8, <1>9 DEF Followed
<1> QED BY <1>9, <1>11, <1>12

\* How many of the calls of the i-th message are answered.
AnswerCount(ps, K, f, i) == IF Followed(ps, K, f, i) THEN Len(ps[i + 1].content) ELSE 0

LEMMA FollowedBy ==
  ASSUME NEW ps \in Seq(Msg), NEW hs, History(hs), NEW K, NEW f, Thread(ps, hs, K, f),
         NEW i \in 1 .. Len(ps), ps[i] \in AnswerMsg, Followed(ps, K, f, i)
  PROVE  /\ i + 1 \in 1 .. Len(ps) /\ ps[i + 1] \in ResultMsg /\ HasResults(ps[i + 1])
         /\ Len(ps[i + 1].content) \in 1 .. Len(ToolUses(ps[i]))
         /\ \A k \in 1 .. Len(ps[i + 1].content) : ps[i + 1].content[k].id = ToolUses(ps[i])[k].id
<1>0. Len(hs) \in Nat /\ Len(ps) \in Nat
  BY DEF History
<1>1. i \in K /\ f[i] \in 1 .. Len(hs) /\ ps[i] = hs[f[i]]
  BY AnswerIsNoNote, AnswerInThread
<1>2. i + 1 \in K /\ HasResults(ps[i + 1]) /\ f[i + 1] = f[i] + 1
  BY DEF Followed
<1>3. i + 1 \in 1 .. Len(ps) /\ f[i + 1] \in 1 .. Len(hs) /\ ps[i + 1] = hs[f[i + 1]]
  BY <1>2 DEF Thread
<1> DEFINE h == f[i + 1]
<1>4. h \in 1 .. Len(hs) /\ HasResults(hs[h]) /\ hs[h] = ps[i + 1] /\ h - 1 = f[i]
  BY <1>0, <1>1, <1>2, <1>3
<1> HIDE DEF h
<1>5. hs[h] \in ResultMsg /\ AnswersOf(hs[h].content, ToolUses(hs[h - 1]))
  BY <1>4, ResultsFollow
<1>6. hs[h - 1] = ps[i]
  BY <1>1, <1>4
<1> QED BY <1>2, <1>3, <1>4, <1>5, <1>6 DEF AnswersOf

LEMMA CallsAnswered ==
  ASSUME NEW ps \in Seq(Msg), NEW hs, History(hs), NEW K, NEW f, Thread(ps, hs, K, f),
         NEW i \in 1 .. Len(ps), ps[i] \in AnswerMsg
  PROVE  /\ AnswerCount(ps, K, f, i) \in 0 .. Len(ToolUses(ps[i]))
         /\ \A k \in 1 .. Len(ToolUses(ps[i])) :
              ToolUses(ps[i])[k].id \in Chat!Answered(ps) <=> k <= AnswerCount(ps, K, f, i)
<1> DEFINE u == ToolUses(ps[i])
           a == AnswerCount(ps, K, f, i)
<1>0. u \in Seq(UseBlk) /\ Len(u) \in Nat
  BY UsesOfAnswer
<1>1. a \in 0 .. Len(u)
  <2>1. CASE Followed(ps, K, f, i)
    <3>1. Len(ps[i + 1].content) \in 1 .. Len(u)
      BY <2>1, FollowedBy
    <3>2. a = Len(ps[i + 1].content)
      BY <2>1 DEF AnswerCount
    <3> HIDE DEF a, u
    <3> QED BY <1>0, <3>1, <3>2
  <2>2. CASE ~ Followed(ps, K, f, i)
    BY <1>0, <2>2 DEF AnswerCount
  <2> QED BY <2>1, <2>2
<1>2. ASSUME NEW k \in 1 .. Len(u), u[k].id \in Chat!Answered(ps) PROVE k <= a
  <2>1. PICK j \in 1 .. Len(ps) : ps[j] \in ResultMsg /\ \E q \in 1 .. Len(ps[j].content) : ps[j].content[q].id = u[k].id
    <3>1. \A x : x \in Chat!Answered(ps) =>
            \E j \in 1 .. Len(ps) : ps[j] \in ResultMsg /\ \E q \in 1 .. Len(ps[j].content) : ps[j].content[q].id = x
      BY AnsweredAre
    <3> QED BY <1>2, <3>1
  <2>2. PICK q \in 1 .. Len(ps[j].content) : ps[j].content[q].id = u[k].id
    BY <2>1
  <2>3. j = i + 1 /\ Followed(ps, K, f, i) /\ k = q
    BY <2>1, <2>2, ResultsMeet
  <2>4. a = Len(ps[j].content)
    BY <2>3 DEF AnswerCount
  <2>5. Len(ps[j].content) \in Nat
    BY <2>1 DEF ResultMsg
  <2> HIDE DEF a
  <2> QED BY <2>3, <2>4, <2>5
<1>3. ASSUME NEW k \in 1 .. Len(u), k <= a PROVE u[k].id \in Chat!Answered(ps)
  <2>1. Followed(ps, K, f, i) /\ a = Len(ps[i + 1].content)
    BY <1>3 DEF AnswerCount
  <2>2. /\ i + 1 \in 1 .. Len(ps) /\ ps[i + 1] \in ResultMsg
        /\ \A l \in 1 .. Len(ps[i + 1].content) : ps[i + 1].content[l].id = u[l].id
    BY <2>1, FollowedBy
  <2>3. k \in 1 .. Len(ps[i + 1].content)
    <3> HIDE DEF a
    <3> QED BY <1>0, <1>1, <1>3, <2>1
  <2>4. ps[i + 1].content[k].id = u[k].id
    BY <2>2, <2>3
  <2> HIDE DEF a, u
  <2> QED BY <2>2, <2>3, <2>4, AnsweredAre
<1> HIDE DEF a, u
<1>4. \A k \in 1 .. Len(u) : u[k].id \in Chat!Answered(ps) <=> k <= a
  BY <1>2, <1>3
<1> QED BY <1>1, <1>4 DEF a, u

\* The results at j follow the message with their calls.
Met(ps, K, f, j) == \E i \in 1 .. Len(ps) : ps[i] \in AnswerMsg /\ j = i + 1 /\ Followed(ps, K, f, i)

LEMMA ResultsDeclared ==
  ASSUME NEW ps \in Seq(Msg), NEW hs, History(hs), NEW K, NEW f, Thread(ps, hs, K, f),
         NEW j \in 1 .. Len(ps), HasResults(ps[j])
  PROVE  /\ ps[j] \in ResultMsg
         /\ Met(ps, K, f, j) => \A q \in 1 .. Len(ps[j].content) : ps[j].content[q].id \in Chat!Declared(ps)
         /\ ~ Met(ps, K, f, j) => \A q \in 1 .. Len(ps[j].content) : ps[j].content[q].id \notin Chat!Declared(ps)
<1>1. ps[j] \in ResultMsg
  <2>1. ps[j] \in Msg
    OBVIOUS
  <2> QED BY <2>1, MessageKinds DEF Msg, Spk
<1>2. ASSUME Met(ps, K, f, j), NEW q \in 1 .. Len(ps[j].content)
      PROVE  ps[j].content[q].id \in Chat!Declared(ps)
  <2>1. PICK i \in 1 .. Len(ps) : ps[i] \in AnswerMsg /\ j = i + 1 /\ Followed(ps, K, f, i)
    BY <1>2 DEF Met
  <2>2. /\ Len(ps[j].content) \in 1 .. Len(ToolUses(ps[i]))
        /\ \A k \in 1 .. Len(ps[j].content) : ps[j].content[k].id = ToolUses(ps[i])[k].id
    BY <2>1, FollowedBy
  <2>3. Len(ToolUses(ps[i])) \in Nat /\ Len(ps[j].content) \in Nat
    <3>1. ToolUses(ps[i]) \in Seq(UseBlk)
      BY <2>1, UsesOfAnswer
    <3> QED BY <1>1, <3>1 DEF ResultMsg
  <2>4. q \in 1 .. Len(ToolUses(ps[i])) /\ ToolUses(ps[i])[q].id = ps[j].content[q].id
    BY <2>2, <2>3
  <2> QED BY <2>1, <2>4, DeclaredAre
<1>3. ASSUME NEW q \in 1 .. Len(ps[j].content), ps[j].content[q].id \in Chat!Declared(ps)
      PROVE  Met(ps, K, f, j)
  <2>1. PICK i \in 1 .. Len(ps) : /\ ps[i] \in AnswerMsg
                                  /\ \E k \in 1 .. Len(ToolUses(ps[i])) : ToolUses(ps[i])[k].id = ps[j].content[q].id
    <3>1. \A x : x \in Chat!Declared(ps) =>
            \E i \in 1 .. Len(ps) : ps[i] \in AnswerMsg /\ \E k \in 1 .. Len(ToolUses(ps[i])) : ToolUses(ps[i])[k].id = x
      BY DeclaredAre
    <3> QED BY <1>3, <3>1
  <2>2. PICK k \in 1 .. Len(ToolUses(ps[i])) : ToolUses(ps[i])[k].id = ps[j].content[q].id
    BY <2>1
  <2>3. j = i + 1 /\ Followed(ps, K, f, i)
    BY <1>1, <2>1, <2>2, ResultsMeet
  <2> QED BY <2>1, <2>3 DEF Met
<1> QED BY <1>1, <1>2, <1>3

(* What is left of each message of the prompt, and what is put after it.   *)
IsTurn(m) == m \in AnswerMsg /\ ToolUses(m) # <<>>

Parts(ps, K, f, i) ==
  IF IsTurn(ps[i])
  THEN <<ps[i]>> \o [k \in 1 .. Len(ToolUses(ps[i])) - AnswerCount(ps, K, f, i) |->
                       Placeholder(ToolUses(ps[i])[AnswerCount(ps, K, f, i) + k].id)]
  ELSE IF HasResults(ps[i]) /\ ~ Met(ps, K, f, i) THEN <<>>
  ELSE <<ps[i]>>

LEMMA NoTurnNoUses ==
  ASSUME NEW m \in Msg, ~ IsTurn(m)
  PROVE  ToolUses(m) = <<>>
<1>1. CASE m \in AnswerMsg
  BY <1>1 DEF IsTurn
<1>2. CASE m \in NoteMsg
  BY <1>2, NoteIsNote
<1>3. CASE m \in SpeechMsg \cup ResultMsg
  <2>1. ~ HasUses(m) /\ \E S : m.content \in Seq(S)
    BY <1>3, MessageKinds
  <2>2. ~ SomeIn(m.content, IsToolUse)
    BY <2>1 DEF HasUses
  <2> QED BY <2>1, <2>2, NoToolUses
<1> QED BY <1>1, <1>2, <1>3 DEF Msg, Spk

LEMMA RepairedIs ==
  ASSUME NEW ps \in Seq(Msg), NEW hs, History(hs), NEW K, NEW f, Thread(ps, hs, K, f),
         NEW i \in 1 .. Len(ps)
  PROVE  Chat!RepairedMessage(ps[i], Chat!Declared(ps), Chat!Answered(ps)) = Parts(ps, K, f, i)
<1> DEFINE D == Chat!Declared(ps)
           A == Chat!Answered(ps)
           m == ps[i]
           a == AnswerCount(ps, K, f, i)
<1>0. m \in Msg
  OBVIOUS
<1>1. CASE IsTurn(m)
  <2>1. m \in AnswerMsg
    BY <1>1 DEF IsTurn
  <2>2. /\ a \in 0 .. Len(ToolUses(m))
        /\ \A k \in 1 .. Len(ToolUses(m)) : ToolUses(m)[k].id \in A <=> k <= a
    BY <2>1, CallsAnswered
  <2>3. Parts(ps, K, f, i) = <<m>> \o [k \in 1 .. Len(ToolUses(m)) - a |-> Placeholder(ToolUses(m)[a + k].id)]
    BY <1>1 DEF Parts
  <2> HIDE DEF D, A, m, a
  <2> QED BY <2>1, <2>2, <2>3, RepairedAnswer DEF D, A, m
<1>2. CASE ~ IsTurn(m) /\ ~ HasResults(m)
  <2>1. ToolUses(m) = <<>>
    BY <1>0, <1>2, NoTurnNoUses
  <2>2. Parts(ps, K, f, i) = <<m>>
    BY <1>2 DEF Parts
  <2> HIDE DEF D, A, m
  <2> QED BY <1>0, <1>2, <2>1, <2>2, RepairedNote DEF D, A, m
<1>3. CASE ~ IsTurn(m) /\ HasResults(m)
  <2>1. /\ m \in ResultMsg
        /\ Met(ps, K, f, i) => \A q \in 1 .. Len(m.content) : m.content[q].id \in D
        /\ ~ Met(ps, K, f, i) => \A q \in 1 .. Len(m.content) : m.content[q].id \notin D
    BY <1>3, ResultsDeclared
  <2>2. Parts(ps, K, f, i) = IF Met(ps, K, f, i) THEN <<m>> ELSE <<>>
    BY <1>3 DEF Parts
  <2> HIDE DEF D, A, m
  <2>3. Chat!RepairedMessage(m, D, A) = IF Met(ps, K, f, i) THEN <<m>> ELSE <<>>
    BY <1>3, <2>1, RepairedResults
  <2> QED BY <2>2, <2>3 DEF D, A, m
<1> QED BY <1>1, <1>2, <1>3

LEMMA HealthyParts ==
  ASSUME NEW ps \in Seq(Msg), NEW hs, History(hs), NEW K, NEW f, Thread(ps, hs, K, f),
         Chat!Declared(ps) = Chat!Answered(ps), NEW i \in 1 .. Len(ps)
  PROVE  Parts(ps, K, f, i) = <<ps[i]>>
<1>1. CASE IsTurn(ps[i])
  <2> DEFINE u == ToolUses(ps[i])
             a == AnswerCount(ps, K, f, i)
             h == [k \in 1 .. Len(u) - a |-> Placeholder(u[a + k].id)]
  <2>0. ps[i] \in AnswerMsg /\ u # <<>>
    BY <1>1 DEF IsTurn
  <2>1. u \in Seq(UseBlk) /\ Len(u) \in Nat
    BY <2>0, UsesOfAnswer
  <2>2. a \in 0 .. Len(u) /\ \A k \in 1 .. Len(u) : u[k].id \in Chat!Answered(ps) <=> k <= a
    BY <2>0, CallsAnswered
  <2>3. Len(u) \in 1 .. Len(u)
    BY <2>0, <2>1
  <2>4. u[Len(u)].id \in Chat!Declared(ps)
    <3> HIDE DEF u
    <3> QED BY <2>0, <2>3, DeclaredAre DEF u
  <2>5. a = Len(u)
    <3> HIDE DEF a, u
    <3> QED BY <2>2, <2>3, <2>4
  <2>6. Parts(ps, K, f, i) = <<ps[i]>> \o h
    BY <1>1 DEF Parts
  <2>7. h = <<>>
    <3> HIDE DEF a, u
    <3>1. 1 .. Len(u) - a = {}
      BY <2>1, <2>5
    <3> QED BY <3>1
  <2> HIDE DEF h
  <2> QED BY <2>6, <2>7
<1>2. CASE ~ IsTurn(ps[i]) /\ HasResults(ps[i])
  <2>1. /\ ps[i] \in ResultMsg
        /\ ~ Met(ps, K, f, i) => \A q \in 1 .. Len(ps[i].content) : ps[i].content[q].id \notin Chat!Declared(ps)
    BY <1>2, ResultsDeclared
  <2>2. ps[i].content # <<>> /\ ps[i].content \in Seq(ResBlk)
    BY <1>2, <2>1 DEF HasResults, SomeIn, ResultMsg
  <2>3. 1 \in 1 .. Len(ps[i].content)
    BY <2>2
  <2>4. ps[i].content[1].id \in Chat!Answered(ps)
    BY <2>1, <2>3, AnsweredAre
  <2>5. Met(ps, K, f, i)
    BY <2>1, <2>3, <2>4
  <2> QED BY <1>2, <2>5 DEF Parts
<1>3. CASE ~ IsTurn(ps[i]) /\ ~ HasResults(ps[i])
  BY <1>3 DEF Parts
<1> QED BY <1>1, <1>2, <1>3

LEMMA PartsAreSeq ==
  ASSUME NEW ps \in Seq(Msg), NEW hs, History(hs), NEW K, NEW f, Thread(ps, hs, K, f),
         NEW i \in 1 .. Len(ps)
  PROVE  IsSeq(Parts(ps, K, f, i))
<1>1. CASE IsTurn(ps[i])
  <2> DEFINE u == ToolUses(ps[i])
             a == AnswerCount(ps, K, f, i)
             n == Len(u) - a
             T == {ps[i]} \cup {Placeholder(u[a + k].id) : k \in 1 .. n}
             h == [k \in 1 .. n |-> Placeholder(u[a + k].id)]
  <2>0. ps[i] \in AnswerMsg
    BY <1>1 DEF IsTurn
  <2>1. Len(u) \in Nat /\ a \in 0 .. Len(u)
    BY <2>0, UsesOfAnswer, CallsAnswered
  <2>2. n \in Nat
    <3> HIDE DEF u, a
    <3> QED BY <2>1
  <2>3. Parts(ps, K, f, i) = <<ps[i]>> \o h
    BY <1>1 DEF Parts
  <2> HIDE DEF n
  <2>4. h \in Seq(T)
    <3>1. h \in [1 .. n -> T]
      OBVIOUS
    <3> HIDE DEF h, T
    <3> QED BY <2>2, <3>1
  <2>5. <<ps[i]>> \in Seq(T)
    OBVIOUS
  <2> HIDE DEF h, T
  <2>6. Parts(ps, K, f, i) \in Seq(T)
    BY <2>3, <2>4, <2>5
  <2> QED BY <2>6 DEF IsSeq
<1>2. CASE ~ IsTurn(ps[i])
  <2>1. Parts(ps, K, f, i) \in {<<>>, <<ps[i]>>}
    BY <1>2 DEF Parts
  <2>2. IsSeq(<<>>) /\ IsSeq(<<ps[i]>>)
    BY DEF IsSeq
  <2> QED BY <2>1, <2>2
<1> QED BY <1>1, <1>2

(* Sequences of sequences of sequences, laid one after the other.          *)
LEMMA SinglesLaid ==
  ASSUME NEW S, NEW ps \in Seq(S), NEW rs, Len(rs) = Len(ps), \A i \in 1 .. Len(ps) : rs[i] = <<ps[i]>>
  PROVE  \E a : Laid(ps, a, rs)
<1> DEFINE n == Len(ps)
           a == [i \in 0 .. n |-> i]
<1>0. n \in Nat
  OBVIOUS
<1>1. \A i \in 1 .. n : a[i] = i /\ a[i - 1] = i - 1
  BY <1>0
<1>2. \A i \in 1 .. n : Len(rs[i]) = 1 /\ rs[i][1] = ps[i]
  <2> SUFFICES ASSUME NEW i \in 1 .. n PROVE Len(rs[i]) = 1 /\ rs[i][1] = ps[i]
    OBVIOUS
  <2>1. rs[i] = <<ps[i]>>
    OBVIOUS
  <2> QED BY <2>1
<1>3. a \in [0 .. n -> Nat] /\ a[0] = 0 /\ a[n] = n
  BY <1>0
<1>4. \A i, j \in 0 .. n : i <= j => a[i] <= a[j]
  OBVIOUS
<1> HIDE DEF a
<1>5. ASSUME NEW i \in 1 .. n PROVE a[i] = a[i - 1] + Len(rs[i])
  <2>1. Len(rs[i]) = 1 /\ a[i] = i /\ a[i - 1] = i - 1
    BY <1>1, <1>2
  <2>2. i \in Nat
    BY <1>0
  <2> QED BY <2>1, <2>2
<1>6. ASSUME NEW i \in 1 .. n, NEW k \in 1 .. Len(rs[i]) PROVE ps[a[i - 1] + k] = rs[i][k]
  <2>1. Len(rs[i]) = 1 /\ rs[i][1] = ps[i] /\ a[i - 1] = i - 1
    BY <1>1, <1>2
  <2>2. k = 1
    BY <2>1
  <2>3. a[i - 1] + k = i
    BY <1>0, <2>1, <2>2
  <2> QED BY <2>1, <2>2, <2>3
<1>7. ASSUME NEW p \in 1 .. n PROVE \E i \in 1 .. n : \E k \in 1 .. Len(rs[i]) : p = a[i - 1] + k
  <2>1. Len(rs[p]) = 1 /\ a[p - 1] = p - 1
    BY <1>1, <1>2
  <2>2. 1 \in 1 .. Len(rs[p])
    BY <2>1
  <2>3. p = a[p - 1] + 1
    BY <1>0, <2>1
  <2> QED BY <2>2, <2>3
<1>8. Len(rs) = n
  OBVIOUS
<1> HIDE DEF n
<1>9. Len(ps) = n
  BY DEF n
<1>10. Laid(ps, a, rs)
  BY <1>3, <1>4, <1>5, <1>6, <1>7, <1>8, <1>9 DEF Laid
<1> QED BY <1>10

LEMMA SanitizedLaid ==
  ASSUME NEW ps \in Seq(Msg), NEW hs, History(hs), NEW K, NEW f, Thread(ps, hs, K, f),
         NEW rs, rs = [i \in 1 .. Len(ps) |-> Parts(ps, K, f, i)]
  PROVE  \E S : /\ rs \in Seq(Seq(S)) /\ Chat!SanitizeToolPairing(ps) \in Seq(S)
                /\ \E a : Laid(Chat!SanitizeToolPairing(ps), a, rs)
<1> DEFINE n == Len(ps)
           Q == Chat!SanitizeToolPairing(ps)
<1>0. n \in Nat /\ DOMAIN ps = 1 .. n
  OBVIOUS
<1>1. CASE Chat!Declared(ps) = Chat!Answered(ps)
  <2>1. Q = ps
    BY <1>1 DEF Chat!SanitizeToolPairing
  <2>2. \A i \in 1 .. n : Parts(ps, K, f, i) = <<ps[i]>>
    BY <1>1, HealthyParts
  <2>3. rs = [i \in 1 .. n |-> <<ps[i]>>]
    BY <2>2
  <2>4. rs \in [1 .. n -> Seq(Msg)]
    <3>1. \A i \in 1 .. n : <<ps[i]>> \in Seq(Msg)
      OBVIOUS
    <3> QED BY <2>3, <3>1
  <2>5. rs \in Seq(Seq(Msg)) /\ Len(rs) = n /\ \A i \in 1 .. n : rs[i] = <<ps[i]>>
    BY <1>0, <2>3, <2>4
  <2>6. \E a : Laid(ps, a, rs)
    BY <2>5, SinglesLaid
  <2> QED BY <2>1, <2>5, <2>6
<1>2. CASE Chat!Declared(ps) # Chat!Answered(ps)
  <2> DEFINE D == Chat!Declared(ps)
             A == Chat!Answered(ps)
             xs == [i \in 1 .. n |-> Chat!RepairedMessage(ps[i], D, A)]
  <2>1. Q = Chat!FlattenSeq([i \in DOMAIN ps |-> Chat!RepairedMessage(ps[i], D, A)])
    BY <1>2 DEF Chat!SanitizeToolPairing, Chat!FlatMap
  <2>2. \A i \in 1 .. n : xs[i] = Parts(ps, K, f, i)
    BY RepairedIs
  <2>3. xs = rs
    BY <2>2
  <2> HIDE DEF D, A
  <2>4. Q = FlattenSeq(rs)
    BY <1>0, <2>1, <2>3, ChatSame
  <2> HIDE DEF Q, xs
  <2>5. \A i \in 1 .. n : IsSeq(rs[i])
    BY PartsAreSeq
  <2>6. rs = [i \in 1 .. n |-> rs[i]]
    OBVIOUS
  <2>7. PICK S : rs \in Seq(Seq(S))
    BY <1>0, <2>5, <2>6, SeqsOfSeqs
  <2> QED BY <2>4, <2>7, FlattenLaid DEF Q
<1> QED BY <1>1, <1>2

Ones(gs, x, y)  == \A k \in 1 .. y : Len(gs[x + k]) = 1
InRow(b, x, y) == \A k \in 0 .. y : b[x + k] = b[x] + k

LEMMA OnesInRow ==
  ASSUME NEW W, NEW b, NEW gs, Len(gs) \in Nat, Laid(W, b, gs), NEW x \in Nat, NEW y \in Nat,
         x + y <= Len(gs), Ones(gs, x, y)
  PROVE  InRow(b, x, y)
<1> DEFINE T == {k \in Nat : k <= y => b[x + k] = b[x] + k}
<1>0. \A i \in 0 .. Len(gs) : b[i] \in Nat
  BY DEF Laid
<1>1. 0 \in T
  <2>1. b[x] \in Nat
    BY <1>0
  <2> QED BY <2>1
<1>2. ASSUME NEW k \in T PROVE k + 1 \in T
  <2> SUFFICES ASSUME k + 1 <= y PROVE b[x + (k + 1)] = b[x] + (k + 1)
    OBVIOUS
  <2>1. b[x + k] = b[x] + k
    OBVIOUS
  <2>2. Len(gs[x + (k + 1)]) = 1
    <3>1. k + 1 \in 1 .. y
      OBVIOUS
    <3> QED BY <3>1 DEF Ones
  <2>3. x + (k + 1) \in 1 .. Len(gs) /\ x + (k + 1) - 1 = x + k
    OBVIOUS
  <2>4. b[x + (k + 1)] = b[x + k] + Len(gs[x + (k + 1)])
    BY <2>3 DEF Laid
  <2>5. b[x] \in Nat
    BY <1>0
  <2>6. k \in Nat
    OBVIOUS
  <2> HIDE DEF T
  <2> QED BY <2>1, <2>2, <2>4, <2>5, <2>6
<1>3. T = Nat
  <2> HIDE DEF T
  <2> QED BY <1>1, <1>2, InductionOnNat DEF T
<1>4. ASSUME NEW k \in 0 .. y PROVE b[x + k] = b[x] + k
  <2>1. k \in T /\ k <= y
    BY <1>3
  <2> QED BY <2>1
<1> QED BY <1>4 DEF InRow

LEMMA Between ==
  ASSUME NEW x \in Nat, NEW y \in Nat, NEW n \in Nat, NEW l \in 1 .. n, NEW z, z = y + n, NEW t \in Nat,
         x <= y, z <= t
  PROVE  x < y + l /\ y + l <= t
OBVIOUS

Lens(ss) == Len(ss) \in Nat /\ \A i \in 1 .. Len(ss) : Len(ss[i]) \in Nat

\* The elements of rs are laid in Q, and what each of them gives in W.
TwiceLaid(Q, a, rs, W, b, gs) ==
  /\ Lens(rs) /\ Laid(Q, a, rs)
  /\ Lens(gs) /\ Len(W) \in Nat /\ Len(gs) = Len(Q) /\ Laid(W, b, gs)

Reach(a, rs, W, b, gs) ==
  /\ \A i \in 0 .. Len(rs) : a[i] \in 0 .. Len(gs) /\ b[a[i]] \in 0 .. Len(W)
  /\ \A p \in 1 .. Len(W) : \E i \in 1 .. Len(rs) : b[a[i - 1]] < p /\ p <= b[a[i]]

LEMMA LaidTwice ==
  ASSUME NEW Q, NEW a, NEW rs, NEW W, NEW b, NEW gs, TwiceLaid(Q, a, rs, W, b, gs)
  PROVE  Reach(a, rs, W, b, gs)
<1> USE DEF TwiceLaid
<1>0. /\ \A i \in 1 .. Len(rs) : i - 1 \in 0 .. Len(rs) /\ i \in 0 .. Len(rs)
      /\ Len(rs) \in 0 .. Len(rs) /\ Len(gs) \in Nat /\ Len(gs) \in 0 .. Len(gs)
      /\ \A i \in 1 .. Len(rs) : Len(rs[i]) \in Nat
      /\ \A q \in 1 .. Len(gs) : Len(gs[q]) \in Nat
  BY DEF Lens
<1>1. ASSUME NEW i \in 0 .. Len(rs) PROVE a[i] \in 0 .. Len(gs)
  <2>1. a[i] \in Nat /\ a[Len(rs)] = Len(Q)
    BY DEF Laid
  <2>2. \A j, k \in 0 .. Len(rs) : j <= k => a[j] <= a[k]
    BY Zenon DEF Laid
  <2>3. a[i] <= a[Len(rs)]
    BY <1>0, <2>2
  <2> QED BY <2>1, <2>3
<1>2. ASSUME NEW q \in 0 .. Len(gs) PROVE b[q] \in 0 .. Len(W)
  <2>1. b[q] \in Nat /\ b[Len(gs)] = Len(W)
    BY DEF Laid
  <2>2. \A j, k \in 0 .. Len(gs) : j <= k => b[j] <= b[k]
    BY Zenon DEF Laid
  <2>3. b[q] <= b[Len(gs)]
    BY <1>0, <2>2
  <2> QED BY <1>0, <2>1, <2>3
<1>3. ASSUME NEW p \in 1 .. Len(W) PROVE \E i \in 1 .. Len(rs) : b[a[i - 1]] < p /\ p <= b[a[i]]
  <2>1. PICK q \in 1 .. Len(gs) : \E l \in 1 .. Len(gs[q]) : p = b[q - 1] + l
    BY DEF Laid
  <2>2. PICK l \in 1 .. Len(gs[q]) : p = b[q - 1] + l
    BY <2>1
  <2>3. PICK i \in 1 .. Len(rs) : \E k \in 1 .. Len(rs[i]) : q = a[i - 1] + k
    BY DEF Laid
  <2>4. PICK k \in 1 .. Len(rs[i]) : q = a[i - 1] + k
    BY <2>3
  <2>5. a[i] = a[i - 1] + Len(rs[i]) /\ b[q] = b[q - 1] + Len(gs[q])
    BY DEF Laid
  <2>6. a[i - 1] \in 0 .. Len(gs) /\ a[i] \in 0 .. Len(gs) /\ q - 1 \in 0 .. Len(gs) /\ q \in 0 .. Len(gs)
    BY <1>0, <1>1
  <2>7. a[i - 1] <= q - 1 /\ q <= a[i]
    <3>1. a[i - 1] \in Nat /\ Len(rs[i]) \in Nat
      BY <1>0, <2>6
    <3>2. k \in 1 .. Len(rs[i]) /\ a[i] = a[i - 1] + Len(rs[i])
      BY <2>5
    <3> DEFINE x == a[i - 1]
               y == a[i]
               m == Len(rs[i])
    <3>3. x \in Nat /\ m \in Nat /\ k \in 1 .. m /\ y = x + m /\ q = x + k
      BY <2>4, <3>1, <3>2
    <3> HIDE DEF x, y, m
    <3>4. x <= q - 1 /\ q <= y
      BY <3>3
    <3> QED BY <3>4 DEF x, y
  <2>8. b[a[i - 1]] <= b[q - 1] /\ b[q] <= b[a[i]]
    BY <2>6, <2>7 DEF Laid
  <2>9. b[a[i - 1]] \in Nat /\ b[q - 1] \in Nat /\ b[q] \in Nat /\ b[a[i]] \in Nat /\ Len(gs[q]) \in Nat
    <3>1. \A r \in 0 .. Len(gs) : b[r] \in Nat
      BY <1>2
    <3>2. Len(gs[q]) \in Nat
      BY <1>0
    <3> QED BY <2>6, <3>1, <3>2
  <2>10. b[a[i - 1]] < p /\ p <= b[a[i]]
    <3>1. b[a[i - 1]] < b[q - 1] + l /\ b[q - 1] + l <= b[a[i]]
      BY <2>5, <2>8, <2>9, Between
    <3> QED BY <2>2, <3>1
  <2> QED BY <2>10
<1> QED BY <1>1, <1>2, <1>3 DEF Reach

RowAt(W, p, q, gs, x, r) == q = p + Len(r) /\ \A k \in 1 .. Len(r) : W[p + k] = gs[x + k][1]

\* Where each of a sequence is sent as one, they are sent in a row.
LEMMA SentInRow ==
  ASSUME NEW Q, NEW a, NEW rs, NEW W, NEW b, NEW gs, TwiceLaid(Q, a, rs, W, b, gs),
         NEW i \in 1 .. Len(rs), Ones(gs, a[i - 1], Len(rs[i]))
  PROVE  RowAt(W, b[a[i - 1]], b[a[i]], gs, a[i - 1], rs[i])
<1> DEFINE x == a[i - 1]
           y == Len(rs[i])
<1>0. /\ Len(rs) \in Nat /\ Len(rs[i]) \in Nat /\ Len(Q) \in Nat /\ Len(gs) = Len(Q)
      /\ Laid(Q, a, rs) /\ Laid(W, b, gs)
  BY DEF TwiceLaid, Lens
<1>1. x \in Nat /\ a[i] = x + y /\ a[i] <= a[Len(rs)] /\ a[Len(rs)] = Len(Q)
  <2>1. i - 1 \in 0 .. Len(rs) /\ i \in 0 .. Len(rs) /\ Len(rs) \in 0 .. Len(rs) /\ i <= Len(rs)
    BY <1>0
  <2>2. \A j, k \in 0 .. Len(rs) : j <= k => a[j] <= a[k]
    BY <1>0, Zenon DEF Laid
  <2>3. x \in Nat /\ a[i] = x + y /\ a[Len(rs)] = Len(Q)
    BY <1>0, <2>1 DEF Laid
  <2> QED BY <2>1, <2>2, <2>3
<1>2. x + y <= Len(gs) /\ y \in Nat /\ Len(gs) \in Nat
  BY <1>0, <1>1
<1>3. Ones(gs, x, y)
  OBVIOUS
<1> HIDE DEF x, y
<1>4. InRow(b, x, y)
  <2>1. Len(gs) \in Nat /\ x \in Nat /\ y \in Nat /\ x + y <= Len(gs)
    BY <1>1, <1>2
  <2> QED BY <1>0, <1>3, <2>1, OnesInRow
<1>5. ASSUME NEW k \in 1 .. y PROVE W[b[x] + k] = gs[x + k][1]
  <2>1. x + k \in 1 .. Len(gs) /\ k - 1 \in 0 .. y /\ x + k - 1 = x + (k - 1)
    BY <1>1, <1>2
  <2>2. b[x + (k - 1)] = b[x] + (k - 1)
    BY <1>4, <2>1 DEF InRow
  <2>3. 1 \in 1 .. Len(gs[x + k])
    <3>1. Len(gs[x + k]) = 1
      BY <1>3 DEF Ones
    <3> QED BY <3>1
  <2>4. W[b[x + (k - 1)] + 1] = gs[x + k][1]
    <3>1. \A p \in 1 .. Len(gs) : \A l \in 1 .. Len(gs[p]) : W[b[p - 1] + l] = gs[p][l]
      BY <1>0, Zenon DEF Laid
    <3> DEFINE z == x + k
    <3>2. z \in 1 .. Len(gs) /\ 1 \in 1 .. Len(gs[z])
      BY <2>1, <2>3
    <3> HIDE DEF z
    <3>3. W[b[z - 1] + 1] = gs[z][1]
      BY <3>1, <3>2
    <3>4. z = x + k /\ z - 1 = x + (k - 1)
      BY <1>1 DEF z
    <3> QED BY <3>3, <3>4, Zenon
  <2>5. b[x] \in Nat
    <3>1. x \in 0 .. Len(gs)
      BY <1>1, <1>2
    <3> QED BY <1>0, <3>1 DEF Laid
  <2>6. b[x] + (k - 1) + 1 = b[x] + k
    BY <2>5
  <2> QED BY <2>1, <2>2, <2>4, <2>6
<1>6. b[a[i]] = b[x] + y
  BY <1>1, <1>2, <1>4 DEF InRow
<1> QED BY <1>5, <1>6 DEF x, y, RowAt

(* What is sent for each message of the prompt.                            *)
ToolFor(x, id) == x = [role |-> "tool", id |-> id, text |-> x.text]
Plain(x)       == x.role # "tool" /\ ~ Chat!IsToolTurn(x)

LEMMA PlaceholderSent ==
  ASSUME NEW id, NEW echo
  PROVE  \E x : Chat!MessagesToOpenAi(Placeholder(id), echo) = <<x>> /\ ToolFor(x, id)
<1> DEFINE b == Chat!ToolResult(id, Chat!InterruptedToolResult, TRUE)
           m == Placeholder(id)
           x == Chat!ToolMessage(b)
           w == Chat!MessagesToOpenAi(m, echo)
<1>1. m.content = <<b>>
  BY DEF Placeholder
<1>2. b.block = "tool_result" /\ b.id = id
  BY DEF Chat!ToolResult
<1>3. IsToolResult(b)
  BY <1>2 DEF IsToolResult
<1>4. x = [role |-> "tool", id |-> id, text |-> b.text]
  BY <1>2 DEF Chat!ToolMessage
<1>5. ToolFor(x, id)
  <2>1. \A y, t : y = [role |-> "tool", id |-> id, text |-> t] => ToolFor(y, id)
    BY DEF ToolFor
  <2> HIDE DEF x, b
  <2> QED BY <1>4, <2>1
<1> HIDE DEF b, m, x
<1>6. m.content \in Seq({b}) /\ m.content # <<>> /\ Len(m.content) = 1 /\ m.content[1] = b
  BY <1>1
<1>7. w = [i \in 1 .. Len(m.content) |-> Chat!ToolMessage(m.content[i])]
  <2>1. \A i \in 1 .. Len(m.content) : IsToolResult(m.content[i])
    BY <1>3, <1>6
  <2> QED BY <1>6, <2>1, ResultMessages
<1> HIDE DEF w
<1>8. w = [i \in 1 .. 1 |-> Chat!ToolMessage(m.content[i])]
  BY <1>6, <1>7
<1>9. w = <<x>>
  <2>1. \A i \in 1 .. 1 : i = 1
    OBVIOUS
  <2>2. \A i \in 1 .. 1 : Chat!ToolMessage(m.content[i]) = x
    BY <1>6, <2>1 DEF x
  <2>3. w = [i \in 1 .. 1 |-> x]
    BY <1>8, <2>2
  <2> QED BY <2>3
<1> QED BY <1>5, <1>9 DEF w, m

LEMMA MessageSent ==
  ASSUME NEW m \in Msg, NEW echo
  PROVE  IsSeq(Chat!MessagesToOpenAi(m, echo))
<1>0. \A x : IsSeq(<<x>>)
  BY DEF IsSeq
<1>1. CASE IsTurn(m)
  BY <1>0, <1>1, TurnMessage DEF IsTurn
<1>2. CASE ~ IsTurn(m) /\ ~ HasResults(m)
  BY <1>0, <1>2, NoTurnNoUses, PlainMessage
<1>3. CASE HasResults(m)
  <2> DEFINE w == Chat!MessagesToOpenAi(m, echo)
             c == m.content
  <2>1. m \in ResultMsg
    BY <1>3, MessageKinds DEF Msg, Spk
  <2>2. c \in Seq(ResBlk) /\ c # <<>> /\ \A i \in 1 .. Len(c) : IsToolResult(c[i])
    <3>1. c \in Seq(ResBlk) /\ c # <<>>
      BY <1>3, <2>1 DEF ResultMsg, HasResults, SomeIn
    <3>2. \A r \in ResBlk : IsToolResult(r)
      BY DEF ResBlk, IsToolResult
    <3> QED BY <3>1, <3>2
  <2>3. w = [i \in 1 .. Len(c) |-> Chat!ToolMessage(c[i])]
    <3> HIDE DEF w
    <3> QED BY <2>2, ResultMessages DEF w
  <2>4. Len(c) \in Nat
    BY <2>2
  <2> HIDE DEF w, c
  <2>5. IsSeq(w)
    BY <2>3, <2>4 DEF IsSeq
  <2> QED BY <2>5 DEF w
<1> QED BY <1>1, <1>2, <1>3

LEMMA ResultsSent ==
  ASSUME NEW m \in Msg, HasResults(m), NEW echo
  PROVE  /\ Len(m.content) \in Nat
         /\ Len(Chat!MessagesToOpenAi(m, echo)) = Len(m.content)
         /\ \A k \in 1 .. Len(m.content) : ToolFor(Chat!MessagesToOpenAi(m, echo)[k], m.content[k].id)
<1> DEFINE w == Chat!MessagesToOpenAi(m, echo)
           c == m.content
<1>1. m \in ResultMsg
  BY MessageKinds DEF Msg, Spk
<1>2. c \in Seq(ResBlk) /\ c # <<>> /\ \A i \in 1 .. Len(c) : IsToolResult(c[i])
  <2>1. c \in Seq(ResBlk) /\ c # <<>>
    BY <1>1 DEF ResultMsg, HasResults, SomeIn
  <2>2. \A r \in ResBlk : IsToolResult(r)
    BY DEF ResBlk, IsToolResult
  <2> QED BY <2>1, <2>2
<1>3. w = [i \in 1 .. Len(c) |-> Chat!ToolMessage(c[i])]
  <2> HIDE DEF w
  <2> QED BY <1>2, ResultMessages DEF w
<1>4. Len(c) \in Nat
  BY <1>2
<1>5. ASSUME NEW k \in 1 .. Len(c) PROVE ToolFor(w[k], c[k].id)
  <2> HIDE DEF w, c
  <2>1. w[k] = Chat!ToolMessage(c[k])
    BY <1>3
  <2> DEFINE y == Chat!ToolMessage(c[k])
  <2>2. y = [role |-> "tool", id |-> c[k].id, text |-> c[k].text]
    BY DEF Chat!ToolMessage
  <2>3. ToolFor(y, c[k].id)
    BY <2>2 DEF ToolFor
  <2> QED BY <2>1, <2>3
<1> HIDE DEF w, c
<1>6. Len(w) = Len(c)
  BY <1>3, <1>4
<1> QED BY <1>4, <1>5, <1>6 DEF w, c

LEMMA TurnParts ==
  ASSUME NEW ps \in Seq(Msg), NEW hs, History(hs), NEW K, NEW f, Thread(ps, hs, K, f),
         NEW i \in 1 .. Len(ps), IsTurn(ps[i]),
         NEW u, u = ToolUses(ps[i]), NEW a, a = AnswerCount(ps, K, f, i)
  PROVE  /\ Len(u) - a \in Nat /\ Len(Parts(ps, K, f, i)) = 1 + (Len(u) - a)
         /\ Parts(ps, K, f, i)[1] = ps[i]
         /\ \A k \in 1 .. Len(u) - a : Parts(ps, K, f, i)[1 + k] = Placeholder(u[a + k].id)
<1> DEFINE n == Len(u) - a
           h == [k \in 1 .. n |-> Placeholder(u[a + k].id)]
           T == {Placeholder(u[a + k].id) : k \in 1 .. n} \cup {ps[i]}
<1>1. n \in Nat
  <2>1. ps[i] \in AnswerMsg
    BY DEF IsTurn
  <2>2. Len(u) \in Nat /\ a \in 0 .. Len(u)
    BY <2>1, UsesOfAnswer, CallsAnswered
  <2> QED BY <2>2
<1>2. Parts(ps, K, f, i) = <<ps[i]>> \o h
  BY DEF Parts
<1>3. Len(h) = n /\ h \in Seq(T) /\ \A k \in 1 .. n : h[k] = Placeholder(u[a + k].id)
  <2>1. h \in [1 .. n -> T]
    OBVIOUS
  <2> HIDE DEF n, T
  <2> QED BY <1>1, <2>1
<1>4. <<ps[i]>> \in Seq(T) /\ Len(<<ps[i]>>) = 1 /\ <<ps[i]>>[1] = ps[i]
  OBVIOUS
<1> HIDE DEF h, T, n
<1>5. Len(<<ps[i]>> \o h) = 1 + n /\ (<<ps[i]>> \o h)[1] = ps[i]
  BY <1>1, <1>3, <1>4
<1>6. \A k \in 1 .. n : (<<ps[i]>> \o h)[1 + k] = h[k]
  BY <1>1, <1>3, <1>4
<1> QED BY <1>1, <1>2, <1>3, <1>5, <1>6 DEF n

(* The messages of a request, message by message of the prompt: those of   *)
(* the i-th are the ones after p up to q.                                  *)
TurnAt(W, p, q, m, a) ==
  /\ Len(ToolUses(m)) - a \in Nat /\ q = p + (1 + (Len(ToolUses(m)) - a))
  /\ \E r : W[p + 1] = Turn(m, r)
  /\ \A k \in 1 .. Len(ToolUses(m)) - a : ToolFor(W[p + (1 + k)], ToolUses(m)[a + k].id)

ResultsAt(W, p, q, m) ==
  /\ Len(m.content) \in Nat /\ q = p + Len(m.content)
  /\ \A k \in 1 .. Len(m.content) : ToolFor(W[p + k], m.content[k].id)

BlockAt(W, p, q, ps, K, f, i) ==
  /\ IsTurn(ps[i]) => TurnAt(W, p, q, ps[i], AnswerCount(ps, K, f, i))
  /\ HasResults(ps[i]) /\ Met(ps, K, f, i) => ResultsAt(W, p, q, ps[i])
  /\ HasResults(ps[i]) /\ ~ Met(ps, K, f, i) => q = p
  /\ ~ IsTurn(ps[i]) /\ ~ HasResults(ps[i]) => q = p + 1 /\ Plain(W[p + 1])

Sent(gs, x, r, echo) == \A k \in 1 .. Len(r) : gs[x + k] = Chat!MessagesToOpenAi(r[k], echo)

Copied(W, p, q, g) == q = p + Len(g) /\ \A k \in 1 .. Len(g) : W[p + k] = g[k]

\* The parts of a message, each sent as one message, are sent in a row.
LEMMA TurnBlock ==
  ASSUME NEW ps \in Seq(Msg), NEW hs, History(hs), NEW K, NEW f, Thread(ps, hs, K, f),
         NEW i \in 1 .. Len(ps), IsTurn(ps[i]), NEW r, r = Parts(ps, K, f, i),
         NEW gs, NEW echo, NEW x \in Nat, Sent(gs, x, r, echo),
         NEW W, NEW p, NEW q, Ones(gs, x, Len(r)) => RowAt(W, p, q, gs, x, r)
  PROVE  TurnAt(W, p, q, ps[i], AnswerCount(ps, K, f, i))
<1> DEFINE m == ps[i]
           u == ToolUses(m)
           a == AnswerCount(ps, K, f, i)
           n == Len(u) - a
<1>1. n \in Nat /\ Len(r) = 1 + n /\ r[1] = m /\ \A k \in 1 .. n : r[1 + k] = Placeholder(u[a + k].id)
  BY TurnParts
<1>2. m \in AnswerMsg /\ u # <<>>
  BY DEF IsTurn
<1> HIDE DEF m, u, a, n
<1>3. PICK t : Chat!MessagesToOpenAi(m, echo) = <<Turn(m, t)>>
  BY <1>2, TurnMessage DEF u
<1>4. Chat!MessagesToOpenAi(r[1], echo) = <<Turn(m, t)>>
  BY <1>1, <1>3
<1>5. ASSUME NEW k \in 1 .. n
      PROVE  1 + k \in 1 .. Len(r)
             /\ \E y : Chat!MessagesToOpenAi(r[1 + k], echo) = <<y>> /\ ToolFor(y, u[a + k].id)
  <2>1. r[1 + k] = Placeholder(u[a + k].id)
    BY <1>1
  <2>2. \E y : Chat!MessagesToOpenAi(Placeholder(u[a + k].id), echo) = <<y>> /\ ToolFor(y, u[a + k].id)
    BY PlaceholderSent
  <2>3. 1 + k \in 1 .. Len(r)
    BY <1>1
  <2> QED BY <2>1, <2>2, <2>3
<1>6. 1 \in 1 .. Len(r)
  BY <1>1
<1>7. ASSUME NEW l \in 1 .. Len(r) PROVE Len(gs[x + l]) = 1
  <2>1. gs[x + l] = Chat!MessagesToOpenAi(r[l], echo)
    BY DEF Sent
  <2>2. \E y : Chat!MessagesToOpenAi(r[l], echo) = <<y>>
    <3>1. CASE l = 1
      BY <1>4, <3>1
    <3>2. CASE l # 1
      <4> DEFINE k == l - 1
      <4>1. k \in 1 .. n /\ 1 + k = l
        BY <1>1, <3>2
      <4> HIDE DEF k
      <4> QED BY <1>5, <4>1
    <3> QED BY <3>1, <3>2
  <2> QED BY <2>1, <2>2
<1>8. q = p + Len(r) /\ \A k \in 1 .. Len(r) : W[p + k] = gs[x + k][1]
  BY <1>7 DEF Ones, RowAt
<1>9. W[p + 1] = Turn(m, t)
  <2>1. gs[x + 1] = <<Turn(m, t)>>
    BY <1>4, <1>6 DEF Sent
  <2>2. gs[x + 1][1] = Turn(m, t)
    BY <2>1
  <2> QED BY <1>6, <1>8, <2>2
<1>10. ASSUME NEW k \in 1 .. n PROVE ToolFor(W[p + (1 + k)], u[a + k].id)
  <2>1. PICK y : Chat!MessagesToOpenAi(r[1 + k], echo) = <<y>> /\ ToolFor(y, u[a + k].id)
    BY <1>5
  <2> DEFINE l == 1 + k
  <2>2. l \in 1 .. Len(r) /\ Chat!MessagesToOpenAi(r[l], echo) = <<y>>
    BY <1>5, <2>1
  <2> HIDE DEF l
  <2>3. gs[x + l] = <<y>>
    BY <2>2 DEF Sent
  <2>4. gs[x + l][1] = y
    BY <2>3
  <2>5. W[p + l] = y
    BY <1>8, <2>2, <2>4
  <2> QED BY <2>1, <2>5 DEF l
<1>11. q = p + (1 + n)
  BY <1>1, <1>8
<1> QED BY <1>1, <1>9, <1>10, <1>11 DEF TurnAt, m, u, a, n

LEMMA OneBlock ==
  ASSUME NEW ps \in Seq(Msg), NEW K, NEW f, NEW i \in 1 .. Len(ps), ~ IsTurn(ps[i]),
         NEW echo, NEW g, g = Chat!MessagesToOpenAi(ps[i], echo),
         NEW W, NEW p \in Nat, NEW q, Copied(W, p, q, g),
         HasResults(ps[i]) => Met(ps, K, f, i)
  PROVE  BlockAt(W, p, q, ps, K, f, i)
<1> DEFINE m == ps[i]
<1>0. m \in Msg
  OBVIOUS
<1>1. CASE HasResults(m)
  <2>1. Len(m.content) \in Nat /\ Len(g) = Len(m.content) /\ \A k \in 1 .. Len(m.content) : ToolFor(g[k], m.content[k].id)
    BY <1>0, <1>1, ResultsSent
  <2>2. ResultsAt(W, p, q, m)
    <3> HIDE DEF m
    <3> QED BY <2>1 DEF ResultsAt, Copied
  <2> QED BY <1>1, <2>2 DEF BlockAt
<1>2. CASE ~ HasResults(m)
  <2>1. PICK x : g = <<x>> /\ x.role # "tool" /\ ~ Chat!IsToolTurn(x)
    BY <1>0, <1>2, NoTurnNoUses, PlainMessage
  <2>2. Len(g) = 1 /\ g[1] = x
    BY <2>1
  <2>3. q = p + 1 /\ W[p + 1] = x
    BY <2>2 DEF Copied
  <2>4. Plain(W[p + 1])
    BY <2>1, <2>3 DEF Plain
  <2> QED BY <1>2, <2>3, <2>4 DEF BlockAt
<1> QED BY <1>1, <1>2

\* o[i] is how far the messages of the first i of the prompt reach.
Blocks(W, o, ps, K, f) ==
  /\ \A i \in 0 .. Len(ps) : o[i] \in 0 .. Len(W)
  /\ \A i \in 1 .. Len(ps) : BlockAt(W, o[i - 1], o[i], ps, K, f, i)
  /\ \A p \in 1 .. Len(W) : \E i \in 1 .. Len(ps) : o[i - 1] < p /\ p <= o[i]

\* Every part of a message is sent as a sequence.
LEMMA PartSent ==
  ASSUME NEW ps \in Seq(Msg), NEW hs, History(hs), NEW K, NEW f, Thread(ps, hs, K, f),
         NEW i \in 1 .. Len(ps), NEW k \in 1 .. Len(Parts(ps, K, f, i)), NEW echo
  PROVE  IsSeq(Chat!MessagesToOpenAi(Parts(ps, K, f, i)[k], echo))
<1> DEFINE r == Parts(ps, K, f, i)
<1>0. ps[i] \in Msg
  OBVIOUS
<1>1. CASE IsTurn(ps[i])
  <2> DEFINE u == ToolUses(ps[i])
             a == AnswerCount(ps, K, f, i)
             n == Len(u) - a
  <2>1. /\ n \in Nat /\ Len(r) = 1 + n /\ r[1] = ps[i]
        /\ \A l \in 1 .. n : r[1 + l] = Placeholder(u[a + l].id)
    BY <1>1, TurnParts
  <2> HIDE DEF u, a, n, r
  <2>2. k \in 1 .. 1 + n
    BY <2>1 DEF r
  <2>3. CASE k = 1
    BY <1>0, <2>1, <2>3, MessageSent DEF r
  <2>4. CASE k # 1
    <3> DEFINE l == k - 1
    <3>1. l \in 1 .. n /\ 1 + l = k
      BY <2>1, <2>2, <2>4
    <3> HIDE DEF l
    <3>2. r[k] = Placeholder(u[a + l].id)
      BY <2>1, <3>1
    <3>3. \A x : IsSeq(<<x>>)
      BY DEF IsSeq
    <3>4. IsSeq(Chat!MessagesToOpenAi(Placeholder(u[a + l].id), echo))
      BY <3>3, PlaceholderSent
    <3> QED BY <3>2, <3>4 DEF r
  <2> QED BY <2>3, <2>4
<1>2. CASE ~ IsTurn(ps[i])
  <2>1. r = <<>> \/ r = <<ps[i]>>
    BY <1>2 DEF Parts
  <2> HIDE DEF r
  <2>2. k \in 1 .. Len(r)
    BY DEF r
  <2>3. r[k] = ps[i]
    BY <2>1, <2>2
  <2> QED BY <1>0, <2>3, MessageSent DEF r
<1> QED BY <1>1, <1>2

\* The messages before their keys are put in.
Unkeyed(ps, echo) ==
  Chat!FlattenSeq([q \in DOMAIN Chat!SanitizeToolPairing(ps) |->
                     Chat!MessagesToOpenAi(Chat!SanitizeToolPairing(ps)[q], echo)])

\* Whatever is left of a prompt, each message gives a sequence.
LEMMA SanitizedSent ==
  ASSUME NEW ps \in Seq(Msg), NEW hs, History(hs), NEW K, NEW f, Thread(ps, hs, K, f), NEW echo,
         NEW q \in 1 .. Len(Chat!SanitizeToolPairing(ps))
  PROVE  IsSeq(Chat!MessagesToOpenAi(Chat!SanitizeToolPairing(ps)[q], echo))
<1> DEFINE n == Len(ps)
           Q == Chat!SanitizeToolPairing(ps)
           rs == [i \in 1 .. n |-> Parts(ps, K, f, i)]
<1>0. n \in Nat /\ Len(rs) = n /\ \A i \in 1 .. n : rs[i] = Parts(ps, K, f, i)
  OBVIOUS
<1>1. PICK S : rs \in Seq(Seq(S)) /\ Q \in Seq(S) /\ \E a : Laid(Q, a, rs)
  BY SanitizedLaid
<1>2. PICK a : Laid(Q, a, rs)
  BY <1>1
<1> HIDE DEF rs
<1>3. PICK i \in 1 .. n : \E k \in 1 .. Len(rs[i]) : q = a[i - 1] + k
  BY <1>0, <1>2 DEF Laid
<1>4. PICK k \in 1 .. Len(rs[i]) : q = a[i - 1] + k
  BY <1>3
<1>5. Q[q] = rs[i][k]
  BY <1>0, <1>2, <1>4 DEF Laid
<1>6. k \in 1 .. Len(Parts(ps, K, f, i)) /\ Q[q] = Parts(ps, K, f, i)[k]
  BY <1>0, <1>5
<1>7. IsSeq(Chat!MessagesToOpenAi(Parts(ps, K, f, i)[k], echo))
  BY <1>6, PartSent
<1> QED BY <1>6, <1>7

LEMMA ChatLaid ==
  ASSUME NEW ps \in Seq(Msg), NEW hs, History(hs), NEW K, NEW f, Thread(ps, hs, K, f), NEW echo,
         NEW W, W = Unkeyed(ps, echo)
  PROVE  (\E S : W \in Seq(S)) /\ \E o : Blocks(W, o, ps, K, f)
<1> DEFINE n == Len(ps)
           Q == Chat!SanitizeToolPairing(ps)
           rs == [i \in 1 .. n |-> Parts(ps, K, f, i)]
           gs == [q \in 1 .. Len(Q) |-> Chat!MessagesToOpenAi(Q[q], echo)]
<1>0. n \in Nat /\ Len(rs) = n /\ \A i \in 1 .. n : rs[i] = Parts(ps, K, f, i)
  OBVIOUS
<1>1. PICK S : rs \in Seq(Seq(S)) /\ Q \in Seq(S) /\ \E a : Laid(Q, a, rs)
  BY SanitizedLaid
<1>2. PICK a : Laid(Q, a, rs)
  BY <1>1
<1>3. W = FlattenSeq(gs)
  <2>1. W = Chat!FlattenSeq([q \in DOMAIN Q |-> Chat!MessagesToOpenAi(Q[q], echo)])
    BY DEF Unkeyed
  <2>2. DOMAIN Q = 1 .. Len(Q)
    BY <1>1
  <2> HIDE DEF Q
  <2> QED BY <2>1, <2>2, ChatSame
<1>4. Len(Q) \in Nat /\ gs = [q \in 1 .. Len(Q) |-> gs[q]] /\ Len(gs) = Len(Q)
      /\ \A q \in 1 .. Len(Q) : gs[q] = Chat!MessagesToOpenAi(Q[q], echo)
  <2>1. Len(Q) \in Nat
    BY <1>1
  <2> HIDE DEF Q
  <2> QED BY <2>1
<1>5. \A i \in 1 .. n : Len(rs[i]) \in Nat
  <2> HIDE DEF rs, n, Q
  <2> QED BY <1>0, <1>1
<1> HIDE DEF rs, gs, Q
<1>6. ASSUME NEW i \in 1 .. n, NEW k \in 1 .. Len(rs[i])
      PROVE  /\ a[i - 1] + k \in 1 .. Len(gs)
             /\ gs[a[i - 1] + k] = Chat!MessagesToOpenAi(rs[i][k], echo)
  <2>1. a[i - 1] + k \in 1 .. Len(Q) /\ Q[a[i - 1] + k] = rs[i][k]
    <3>0. rs \in Seq(Seq(S)) /\ Q \in Seq(S)
      BY <1>1
    <3>1. \A j \in 1 .. Len(rs) : \A l \in 1 .. Len(rs[j]) : a[j - 1] + l \in 1 .. Len(Q)
      BY <1>2, <3>0, LaidPlaces
    <3>2. \A j \in 1 .. Len(rs) : \A l \in 1 .. Len(rs[j]) : Q[a[j - 1] + l] = rs[j][l]
      BY <1>2, Zenon DEF Laid
    <3> QED BY <1>0, <3>1, <3>2
  <2> DEFINE q == a[i - 1] + k
  <2>2. q \in 1 .. Len(Q) /\ Q[q] = rs[i][k]
    BY <2>1
  <2> HIDE DEF q
  <2>3. gs[q] = Chat!MessagesToOpenAi(rs[i][k], echo) /\ q \in 1 .. Len(gs)
    BY <1>4, <2>2
  <2> QED BY <2>3 DEF q
<1>7. \A q \in 1 .. Len(Q) : IsSeq(gs[q])
  BY <1>4, SanitizedSent DEF Q
<1>8. PICK G : gs \in Seq(Seq(G))
  BY <1>4, <1>7, SeqsOfSeqs
<1>9. W \in Seq(G) /\ \E b : Laid(W, b, gs)
  <2>1. FlattenSeq(gs) \in Seq(G) /\ \E b : Laid(FlattenSeq(gs), b, gs)
    BY <1>8, FlattenLaid
  <2> QED BY <1>3, <2>1
<1>10. PICK b : Laid(W, b, gs)
  BY <1>9
<1>11. Len(W) \in Nat /\ Len(rs) \in Nat /\ \A q \in 1 .. Len(gs) : Len(gs[q]) \in Nat
  BY <1>0, <1>4, <1>7, <1>9 DEF IsSeq
<1>12. TwiceLaid(Q, a, rs, W, b, gs)
  BY <1>0, <1>2, <1>4, <1>5, <1>10, <1>11 DEF Lens, TwiceLaid
<1> DEFINE o == [i \in 0 .. Len(rs) |-> b[a[i]]]
<1>13. /\ \A i \in 0 .. n : a[i] \in 0 .. Len(gs) /\ o[i] \in 0 .. Len(W) /\ o[i] = b[a[i]]
       /\ \A p \in 1 .. Len(W) : \E i \in 1 .. n : o[i - 1] < p /\ p <= o[i]
  <2>1. Reach(a, rs, W, b, gs)
    BY <1>12, LaidTwice
  <2>2. \A i \in 0 .. n : o[i] = b[a[i]]
    BY <1>0
  <2> HIDE DEF o
  <2>3. \A i \in 0 .. n : a[i] \in 0 .. Len(gs) /\ o[i] \in 0 .. Len(W) /\ o[i] = b[a[i]]
    BY <1>0, <2>1, <2>2 DEF Reach
  <2>4. ASSUME NEW p \in 1 .. Len(W) PROVE \E i \in 1 .. n : o[i - 1] < p /\ p <= o[i]
    <3>1. PICK i \in 1 .. n : b[a[i - 1]] < p /\ p <= b[a[i]]
      BY <1>0, <2>1 DEF Reach
    <3>2. i - 1 \in 0 .. n /\ i \in 0 .. n
      BY <1>0
    <3> QED BY <2>2, <3>1, <3>2
  <2> QED BY <2>3, <2>4
<1> HIDE DEF o
<1>14. ASSUME NEW i \in 1 .. n PROVE BlockAt(W, o[i - 1], o[i], ps, K, f, i)
  <2> DEFINE x == a[i - 1]
             r == rs[i]
             p == o[i - 1]
             q == o[i]
  <2>0. i - 1 \in 0 .. n /\ i \in 0 .. n /\ i \in 1 .. Len(rs) /\ i \in 1 .. Len(ps)
    BY <1>0
  <2>1. p = b[x] /\ q = b[a[i]] /\ p \in Nat /\ x \in Nat
    <3>1. o[i - 1] = b[a[i - 1]] /\ o[i] = b[a[i]] /\ o[i - 1] \in 0 .. Len(W) /\ a[i - 1] \in 0 .. Len(gs)
      BY <1>13, <2>0
    <3> QED BY <3>1
  <2>2. r = Parts(ps, K, f, i) /\ Len(r) \in Nat
    BY <1>0, <1>5
  <2>3. Sent(gs, x, r, echo)
    BY <1>6 DEF Sent
  <2>4. Ones(gs, x, Len(r)) => RowAt(W, p, q, gs, x, r)
    <3> SUFFICES ASSUME Ones(gs, x, Len(r)) PROVE RowAt(W, p, q, gs, x, r)
      OBVIOUS
    <3>1. RowAt(W, b[a[i - 1]], b[a[i]], gs, a[i - 1], rs[i])
      BY <1>12, <2>0, SentInRow
    <3> HIDE DEF p, q, x, r
    <3>2. RowAt(W, b[x], b[a[i]], gs, x, r)
      BY <3>1 DEF x, r
    <3> QED BY <2>1, <3>2
  <2>5. a[i] = x + Len(r)
    BY <1>2, <2>0 DEF Laid
  <2> HIDE DEF x, r, p, q
  <2>6. CASE IsTurn(ps[i])
    <3>1. TurnAt(W, p, q, ps[i], AnswerCount(ps, K, f, i))
      BY <2>0, <2>1, <2>2, <2>3, <2>4, <2>6, TurnBlock
    <3>2. ~ HasResults(ps[i])
      <4>1. ps[i] \in AnswerMsg /\ ps[i] \in Msg
        BY <2>6 DEF IsTurn
      <4> QED BY <4>1, MessageKinds
    <3> QED BY <2>6, <3>1, <3>2 DEF BlockAt, p, q
  <2>7. CASE ~ IsTurn(ps[i]) /\ HasResults(ps[i]) /\ ~ Met(ps, K, f, i)
    <3>1. r = <<>>
      BY <2>2, <2>7 DEF Parts
    <3>2. q = p
      BY <2>1, <2>5, <3>1
    <3> QED BY <2>7, <3>2 DEF BlockAt, p, q
  <2>8. CASE ~ IsTurn(ps[i]) /\ (HasResults(ps[i]) => Met(ps, K, f, i))
    <3> DEFINE g == gs[x + 1]
    <3>1. r = <<ps[i]>>
      BY <2>2, <2>8 DEF Parts
    <3>2. Len(r) = 1 /\ r[1] = ps[i]
      BY <3>1
    <3>3. g = Chat!MessagesToOpenAi(ps[i], echo)
      BY <2>3, <3>2 DEF Sent
    <3>4. a[i] = x + 1 /\ x + 1 \in 1 .. Len(gs) /\ x + 1 - 1 = x
      <4>1. a[i] = x + 1
        BY <2>5, <3>2
      <4>2. a[i] \in 0 .. Len(gs)
        BY <1>13, <2>0
      <4> QED BY <1>4, <2>1, <4>1, <4>2
    <3>5. Copied(W, p, q, g)
      <4> DEFINE z == x + 1
      <4>1. z \in 1 .. Len(gs) /\ z - 1 = x /\ a[i] = z /\ g = gs[z]
        BY <2>1, <3>4
      <4> HIDE DEF z, g
      <4>2. b[z] = b[z - 1] + Len(gs[z])
        BY <1>10, <4>1 DEF Laid
      <4>3. \A k \in 1 .. Len(gs[z]) : W[b[z - 1] + k] = gs[z][k]
        BY <1>10, <4>1 DEF Laid
      <4> QED BY <2>1, <4>1, <4>2, <4>3 DEF Copied
    <3> HIDE DEF g
    <3>6. BlockAt(W, p, q, ps, K, f, i)
      BY <2>0, <2>1, <2>8, <3>3, <3>5, OneBlock
    <3> QED BY <3>6 DEF p, q
  <2> QED BY <2>6, <2>7, <2>8
<1>15. Blocks(W, o, ps, K, f)
  BY <1>13, <1>14 DEF Blocks
<1> QED BY <1>9, <1>15

(* What becomes of a message when its keys are put in.                     *)
ToolAt(y, id) == y.role = "tool" /\ y.id = id /\ y.name = ToolName /\ ~ Chat!IsToolTurn(y)

TurnOf(y, m, thinking) ==
  /\ Chat!IsToolTurn(y) /\ y.role # "tool"
  /\ Len(y.calls) = Len(ToolUses(m))
  /\ \A k \in 1 .. Len(ToolUses(m)) : y.calls[k].id = ToolUses(m)[k].id /\ y.calls[k].name = ToolName
  /\ thinking => y.reasoning # {}

LEMMA NamesAreOne ==
  ASSUME NEW ps \in Seq(Msg), NEW id, id \in Chat!Declared(ps)
  PROVE  Chat!NameOf(id, ps) = ToolName
<1> DEFINE T == Chat!UsesIn(ps)
<1>1. \A b \in T : b.name = ToolName
  <2> SUFFICES ASSUME NEW b \in T PROVE b.name = ToolName
    OBVIOUS
  <2>1. (\E i \in DOMAIN ps : b \in Chat!ToSet(ps[i].content)) /\ IsToolUse(b)
    BY ChatSame DEF Chat!UsesIn
  <2>2. PICK i \in DOMAIN ps : b \in Chat!ToSet(ps[i].content)
    BY <2>1
  <2>3. PICK k \in DOMAIN ps[i].content : b = ps[i].content[k]
    BY <2>2 DEF Chat!ToSet
  <2>4. HasUses(ps[i]) /\ ps[i] \in Msg
    BY <2>1, <2>3 DEF HasUses, SomeIn
  <2>5. ps[i] \in AnswerMsg
    BY <2>4, MessageKinds DEF Msg, Spk
  <2>6. b \in AnswerBlk
    BY <2>3, <2>5 DEF AnswerMsg
  <2>7. b \in UseBlk
    BY <2>1, <2>6, BlockKinds DEF Blk
  <2> QED BY <2>7 DEF UseBlk
<1>2. \E b \in T : b.id = id
  BY DEF Chat!Declared
<1>3. Chat!NameOf(id, ps) = (CHOOSE b \in T : b.id = id).name
  BY <1>2 DEF Chat!NameOf
<1> HIDE DEF T
<1>4. (CHOOSE b \in T : b.id = id) \in T
  BY <1>2
<1> QED BY <1>1, <1>3, <1>4

LEMMA ToolKeys ==
  ASSUME NEW ps \in Seq(Msg), NEW id, id \in Chat!Declared(ps), NEW x, ToolFor(x, id), NEW thinking
  PROVE  ToolAt(Chat!KeyEmission(x, thinking, ps), id)
<1> DEFINE y == [role |-> "tool", id |-> id, text |-> x.text, name |-> ToolName]
<1>1. x.role = "tool" /\ x.id = id
  <2>1. x = [role |-> "tool", id |-> id, text |-> x.text]
    BY DEF ToolFor
  <2> DEFINE t == x.text
  <2> HIDE DEF t
  <2>2. x = [role |-> "tool", id |-> id, text |-> t]
    BY <2>1 DEF t
  <2> QED BY <2>2
<1>2. Chat!KeyEmission(x, thinking, ps) = y
  <2>1. Chat!NameOf(x.id, ps) = ToolName
    BY <1>1, NamesAreOne
  <2> QED BY <1>1, <2>1 DEF Chat!KeyEmission
<1>3. ToolAt(y, id)
  BY DEF ToolAt, Chat!IsToolTurn
<1> QED BY <1>2, <1>3

LEMMA TurnKeys ==
  ASSUME NEW m \in AnswerMsg, NEW r, NEW x, x = Turn(m, r), NEW thinking, NEW ps
  PROVE  TurnOf(Chat!KeyEmission(x, thinking, ps), m, thinking)
<1> DEFINE u == ToolUses(m)
           c == [k \in 1 .. Len(u) |-> Chat!CallOf(u[k])]
           y == Chat!KeyEmission(x, thinking, ps)
<1>1. u \in Seq(UseBlk) /\ Len(u) \in Nat
  BY UsesOfAnswer
<1>2. x = [role |-> "assistant", reasoning |-> r, calls |-> c]
  BY DEF Turn
<1>3. Len(c) = Len(u) /\ \A k \in 1 .. Len(u) : c[k].id = u[k].id /\ c[k].name = ToolName
  <2>1. Len(c) = Len(u)
    <3> HIDE DEF u
    <3> QED BY <1>1
  <2>2. ASSUME NEW k \in 1 .. Len(u) PROVE c[k].id = u[k].id /\ c[k].name = ToolName
    <3>1. c[k] = Chat!CallOf(u[k])
      OBVIOUS
    <3>2. u[k] \in UseBlk
      BY <1>1
    <3>3. u[k].name = ToolName
      BY <3>2 DEF UseBlk
    <3> HIDE DEF u, c
    <3> QED BY <3>1, <3>3 DEF Chat!CallOf
  <2> QED BY <2>1, <2>2
<1> HIDE DEF c, u
<1>4. PICK s : y = [role |-> "assistant", reasoning |-> s, calls |-> c] /\ (thinking => s # {})
  <2>1. x.role = "assistant" /\ x.reasoning = r /\ DOMAIN x = {"role", "reasoning", "calls"}
    BY <1>2
  <2>2. Chat!IsToolTurn(x)
    BY <2>1 DEF Chat!IsToolTurn
  <2>3. CASE thinking /\ r = {}
    <3>1. y = [x EXCEPT !.reasoning = {Chat!Empty}]
      BY <2>1, <2>2, <2>3 DEF Chat!KeyEmission
    <3>2. y = [role |-> "assistant", reasoning |-> {Chat!Empty}, calls |-> c]
      <4> HIDE DEF y
      <4> QED BY <1>2, <3>1
    <3>3. {Chat!Empty} # {}
      OBVIOUS
    <3> HIDE DEF y
    <3> QED BY <3>2, <3>3
  <2>4. CASE ~ (thinking /\ r = {})
    <3>1. y = x
      BY <2>1, <2>2, <2>4 DEF Chat!KeyEmission
    <3> HIDE DEF y
    <3> QED BY <1>2, <2>4, <3>1
  <2> QED BY <2>3, <2>4
<1> HIDE DEF y
<1>5. y.role = "assistant" /\ y.calls = c /\ y.reasoning = s /\ DOMAIN y = {"role", "reasoning", "calls"}
  BY <1>4
<1>6. Chat!IsToolTurn(y)
  BY <1>5 DEF Chat!IsToolTurn
<1>7. TurnOf(y, m, thinking)
  BY <1>3, <1>4, <1>5, <1>6 DEF TurnOf, u
<1> QED BY <1>7 DEF y

LEMMA PlainKeys ==
  ASSUME NEW x, Plain(x), NEW thinking, NEW ps
  PROVE  Plain(Chat!KeyEmission(x, thinking, ps))
BY DEF Plain, Chat!KeyEmission

(* The messages as they are sent: those of the i-th of the prompt are the  *)
(* ones after p up to q.                                                   *)
TurnSent(E, p, q, m, a, thinking) ==
  /\ Len(ToolUses(m)) \in Nat /\ a \in 0 .. Len(ToolUses(m)) /\ q = p + 1 + Len(ToolUses(m)) - a
  /\ TurnOf(E[p + 1], m, thinking)
  /\ \A k \in 1 .. Len(ToolUses(m)) - a : ToolAt(E[p + 1 + k], ToolUses(m)[a + k].id)

AllSent(E, p, q, m) ==
  /\ Len(m.content) \in Nat /\ q = p + Len(m.content)
  /\ \A k \in 1 .. Len(m.content) : ToolAt(E[p + k], m.content[k].id)

SentAt(E, p, q, ps, K, f, i, thinking) ==
  /\ IsTurn(ps[i]) => TurnSent(E, p, q, ps[i], AnswerCount(ps, K, f, i), thinking)
  /\ HasResults(ps[i]) /\ Met(ps, K, f, i) => AllSent(E, p, q, ps[i])
  /\ HasResults(ps[i]) /\ ~ Met(ps, K, f, i) => q = p
  /\ ~ IsTurn(ps[i]) /\ ~ HasResults(ps[i]) => q = p + 1 /\ Plain(E[p + 1])

Keyed(E, W, thinking, ps) == E = [z \in 1 .. Len(W) |-> Chat!KeyEmission(W[z], thinking, ps)]

LEMMA TurnIsSent ==
  ASSUME NEW ps \in Seq(Msg), NEW hs, History(hs), NEW K, NEW f, Thread(ps, hs, K, f),
         NEW i \in 1 .. Len(ps), IsTurn(ps[i]), NEW W, Len(W) \in Nat, NEW E, NEW thinking,
         Keyed(E, W, thinking, ps), NEW p \in Nat, NEW q, q <= Len(W),
         TurnAt(W, p, q, ps[i], AnswerCount(ps, K, f, i))
  PROVE  TurnSent(E, p, q, ps[i], AnswerCount(ps, K, f, i), thinking)
<1> DEFINE m == ps[i]
           u == ToolUses(m)
           a == AnswerCount(ps, K, f, i)
           n == Len(u) - a
<1>1. m \in AnswerMsg
  BY DEF IsTurn
<1>2. Len(u) \in Nat /\ a \in 0 .. Len(u)
  BY <1>1, UsesOfAnswer, CallsAnswered
<1>3. n \in Nat /\ q = p + (1 + n) /\ (\E r : W[p + 1] = Turn(m, r))
      /\ \A k \in 1 .. n : ToolFor(W[p + (1 + k)], u[a + k].id)
  BY DEF TurnAt
<1>4. \A k \in 1 .. n : u[a + k].id \in Chat!Declared(ps)
  <2> SUFFICES ASSUME NEW k \in 1 .. n PROVE u[a + k].id \in Chat!Declared(ps)
    OBVIOUS
  <2> DEFINE l == a + k
  <2>1. l \in 1 .. Len(u)
    <3> HIDE DEF a, u
    <3> QED BY <1>2
  <2> HIDE DEF l
  <2>2. u[l].id \in Chat!Declared(ps)
    BY <1>1, <2>1, DeclaredAre
  <2> QED BY <2>2 DEF l
<1> HIDE DEF n, a, u, m
<1>5. \A z \in 1 .. p + (1 + n) : E[z] = Chat!KeyEmission(W[z], thinking, ps)
  <2>1. \A z \in 1 .. p + (1 + n) : z \in 1 .. Len(W)
    BY <1>3
  <2> QED BY <2>1 DEF Keyed
<1>6. TurnOf(E[p + 1], m, thinking)
  <2>1. PICK r : W[p + 1] = Turn(m, r)
    BY <1>3
  <2>2. p + 1 \in 1 .. p + (1 + n)
    BY <1>3
  <2>3. E[p + 1] = Chat!KeyEmission(W[p + 1], thinking, ps)
    BY <1>5, <2>2
  <2> QED BY <1>1, <2>1, <2>3, TurnKeys
<1>7. ASSUME NEW k \in 1 .. n PROVE ToolAt(E[p + 1 + k], u[a + k].id)
  <2> DEFINE z == p + (1 + k)
             id == u[a + k].id
  <2>1. z \in 1 .. p + (1 + n) /\ z = p + 1 + k
    BY <1>3
  <2>2. ToolFor(W[z], id) /\ id \in Chat!Declared(ps)
    BY <1>3, <1>4
  <2> HIDE DEF z, id
  <2>3. E[z] = Chat!KeyEmission(W[z], thinking, ps)
    BY <1>5, <2>1
  <2>4. ToolAt(E[z], id)
    BY <2>2, <2>3, ToolKeys
  <2> QED BY <2>1, <2>4 DEF id
<1>8. n = Len(u) - a /\ q = p + 1 + Len(u) - a
  <2>1. n = Len(u) - a
    BY DEF n
  <2> QED BY <1>2, <1>3, <2>1
<1> QED BY <1>2, <1>6, <1>7, <1>8 DEF TurnSent, u, a, m

LEMMA ResultsAreSent ==
  ASSUME NEW ps \in Seq(Msg), NEW hs, History(hs), NEW K, NEW f, Thread(ps, hs, K, f),
         NEW i \in 1 .. Len(ps), HasResults(ps[i]), Met(ps, K, f, i), NEW W, Len(W) \in Nat, NEW E, NEW thinking,
         Keyed(E, W, thinking, ps), NEW p \in Nat, NEW q, q <= Len(W), ResultsAt(W, p, q, ps[i])
  PROVE  AllSent(E, p, q, ps[i])
<1> DEFINE c == ps[i].content
           n == Len(c)
<1>1. n \in Nat /\ q = p + n /\ \A k \in 1 .. n : ToolFor(W[p + k], c[k].id)
  BY DEF ResultsAt
<1>2. \A k \in 1 .. n : c[k].id \in Chat!Declared(ps)
  BY ResultsDeclared
<1> HIDE DEF n, c
<1>3. ASSUME NEW k \in 1 .. n PROVE ToolAt(E[p + k], c[k].id)
  <2> DEFINE z == p + k
             id == c[k].id
  <2>1. z \in 1 .. Len(W)
    BY <1>1
  <2>2. ToolFor(W[z], id) /\ id \in Chat!Declared(ps)
    BY <1>1, <1>2
  <2> HIDE DEF z, id
  <2>3. E[z] = Chat!KeyEmission(W[z], thinking, ps)
    BY <2>1 DEF Keyed
  <2>4. ToolAt(E[z], id)
    BY <2>2, <2>3, ToolKeys
  <2> QED BY <2>4 DEF z, id
<1> QED BY <1>1, <1>3 DEF AllSent, n, c

AllSentAt(E, o, ps, K, f, thinking) ==
  /\ \A i \in 0 .. Len(ps) : o[i] \in 0 .. Len(E)
  /\ \A i \in 1 .. Len(ps) : SentAt(E, o[i - 1], o[i], ps, K, f, i, thinking)
  /\ \A p \in 1 .. Len(E) : \E i \in 1 .. Len(ps) : o[i - 1] < p /\ p <= o[i]

LEMMA BlocksAreSent ==
  ASSUME NEW ps \in Seq(Msg), NEW hs, History(hs), NEW K, NEW f, Thread(ps, hs, K, f),
         NEW W, Len(W) \in Nat, NEW E, NEW thinking, Keyed(E, W, thinking, ps),
         NEW o, Blocks(W, o, ps, K, f)
  PROVE  Len(E) = Len(W) /\ AllSentAt(E, o, ps, K, f, thinking)
<1>1. Len(E) = Len(W)
  BY DEF Keyed
<1>2. ASSUME NEW i \in 1 .. Len(ps) PROVE SentAt(E, o[i - 1], o[i], ps, K, f, i, thinking)
  <2> DEFINE p == o[i - 1]
             q == o[i]
  <2>1. p \in 0 .. Len(W) /\ q \in 0 .. Len(W) /\ BlockAt(W, p, q, ps, K, f, i)
    <3>1. i - 1 \in 0 .. Len(ps) /\ i \in 0 .. Len(ps)
      OBVIOUS
    <3> QED BY <3>1 DEF Blocks
  <2>2. p \in Nat /\ q <= Len(W)
    BY <2>1
  <2> HIDE DEF p, q
  <2>3. ASSUME IsTurn(ps[i]) PROVE TurnSent(E, p, q, ps[i], AnswerCount(ps, K, f, i), thinking)
    <3>1. TurnAt(W, p, q, ps[i], AnswerCount(ps, K, f, i))
      BY <2>1, <2>3 DEF BlockAt
    <3> QED BY <2>2, <2>3, <3>1, TurnIsSent
  <2>4. ASSUME HasResults(ps[i]), Met(ps, K, f, i) PROVE AllSent(E, p, q, ps[i])
    <3>1. ResultsAt(W, p, q, ps[i])
      BY <2>1, <2>4 DEF BlockAt
    <3> QED BY <2>2, <2>4, <3>1, ResultsAreSent
  <2>5. ASSUME ~ IsTurn(ps[i]), ~ HasResults(ps[i]) PROVE q = p + 1 /\ Plain(E[p + 1])
    <3>1. q = p + 1 /\ Plain(W[p + 1])
      BY <2>1, <2>5 DEF BlockAt
    <3> DEFINE z == p + 1
    <3>2. z \in 1 .. Len(W)
      BY <2>1, <3>1
    <3>3. Plain(W[z])
      BY <3>1
    <3> HIDE DEF z
    <3>4. E[z] = Chat!KeyEmission(W[z], thinking, ps)
      BY <3>2 DEF Keyed
    <3>5. Plain(E[z])
      BY <3>3, <3>4, PlainKeys
    <3> QED BY <3>1, <3>5 DEF z
  <2>6. HasResults(ps[i]) /\ ~ Met(ps, K, f, i) => q = p
    BY <2>1 DEF BlockAt
  <2>7. SentAt(E, p, q, ps, K, f, i, thinking)
    BY <2>3, <2>4, <2>5, <2>6 DEF SentAt
  <2> QED BY <2>7 DEF p, q
<1>3. AllSentAt(E, o, ps, K, f, thinking)
  BY <1>1, <1>2 DEF AllSentAt, Blocks
<1> QED BY <1>1, <1>3

(* Each turn is followed by what answers its calls, and nothing else is.   *)
Answers1(E, z, u) == \A k \in 1 .. Len(u) : \E l \in 1 .. Len(u) : ToolAt(E[z + k], u[l].id)
Answers2(E, z, u) == \A l \in 1 .. Len(u) : \E k \in 1 .. Len(u) : ToolAt(E[z + k], u[l].id)

\* First the calls after the a-th, then the first a.
LEMMA TwoHalves ==
  ASSUME NEW E, NEW z \in Nat, NEW u, Len(u) \in Nat, NEW a \in 0 .. Len(u),
         \A k \in 1 .. Len(u) - a : ToolAt(E[z + k], u[a + k].id),
         \A k \in 1 .. a : ToolAt(E[z + (Len(u) - a) + k], u[k].id)
  PROVE  Answers1(E, z, u) /\ Answers2(E, z, u)
<1> DEFINE n == Len(u)
<1>1. ASSUME NEW k \in 1 .. n PROVE \E l \in 1 .. n : ToolAt(E[z + k], u[l].id)
  <2>1. CASE k <= n - a
    <3>1. a + k \in 1 .. n /\ k \in 1 .. n - a
      BY <2>1
    <3> QED BY <3>1
  <2>2. CASE ~ (k <= n - a)
    <3> DEFINE j == k - (n - a)
    <3>1. j \in 1 .. a /\ j \in 1 .. n /\ z + (n - a) + j = z + k
      BY <2>2
    <3> HIDE DEF j, n
    <3>2. ToolAt(E[z + (n - a) + j], u[j].id)
      BY <3>1 DEF n
    <3> QED BY <3>1, <3>2
  <2> QED BY <2>1, <2>2
<1>2. ASSUME NEW l \in 1 .. n PROVE \E k \in 1 .. n : ToolAt(E[z + k], u[l].id)
  <2>1. CASE l <= a
    <3> DEFINE k == (n - a) + l
    <3>1. k \in 1 .. n /\ z + (n - a) + l = z + k /\ l \in 1 .. a
      BY <2>1
    <3> HIDE DEF k, n
    <3>2. ToolAt(E[z + (n - a) + l], u[l].id)
      BY <3>1 DEF n
    <3> QED BY <3>1, <3>2
  <2>2. CASE ~ (l <= a)
    <3> DEFINE k == l - a
    <3>1. k \in 1 .. n - a /\ k \in 1 .. n /\ a + k = l
      BY <2>2
    <3> HIDE DEF k, n
    <3>2. ToolAt(E[z + k], u[a + k].id)
      BY <3>1 DEF n
    <3> QED BY <3>1, <3>2
  <2> QED BY <2>1, <2>2
<1> QED BY <1>1, <1>2 DEF Answers1, Answers2

LEMMA TurnEnds ==
  ASSUME NEW p \in Nat, NEW n \in Nat, NEW a \in 0 .. n, NEW z, z = p + 1, NEW q, q = p + 1 + n - a
  PROVE  q = z + (n - a) /\ q + a = z + n /\ q <= z + n /\ z \in Nat
OBVIOUS

LEMMA TurnIsAnswered ==
  ASSUME NEW ps \in Seq(Msg), NEW hs, History(hs), NEW K, NEW f, Thread(ps, hs, K, f),
         NEW E, NEW thinking, NEW o, AllSentAt(E, o, ps, K, f, thinking), Len(E) \in Nat,
         NEW i \in 1 .. Len(ps), IsTurn(ps[i]), NEW z, z = o[i - 1] + 1
  PROVE  /\ z \in Nat /\ z + Len(ToolUses(ps[i])) <= Len(E)
         /\ Answers1(E, z, ToolUses(ps[i])) /\ Answers2(E, z, ToolUses(ps[i]))
         /\ o[i] <= z + Len(ToolUses(ps[i])) /\ o[i] \in Nat
         /\ Followed(ps, K, f, i) => o[i + 1] = z + Len(ToolUses(ps[i]))
<1> DEFINE m == ps[i]
           u == ToolUses(m)
           n == Len(u)
           a == AnswerCount(ps, K, f, i)
           p == o[i - 1]
           q == o[i]
           c == ps[i + 1].content
<1>0. i - 1 \in 0 .. Len(ps) /\ i \in 0 .. Len(ps)
  OBVIOUS
<1>1. p \in Nat /\ q \in 0 .. Len(E) /\ z = p + 1
  BY <1>0 DEF AllSentAt
<1>2. TurnSent(E, p, q, m, a, thinking)
  BY DEF AllSentAt, SentAt
<1>3. n \in Nat /\ a \in 0 .. n /\ q = p + 1 + n - a /\ \A k \in 1 .. n - a : ToolAt(E[p + 1 + k], u[a + k].id)
  BY <1>2 DEF TurnSent
<1>4. m \in AnswerMsg
  BY DEF IsTurn
<1>5. CASE Followed(ps, K, f, i)
  <2>1. /\ i + 1 \in 1 .. Len(ps) /\ HasResults(ps[i + 1]) /\ a = Len(c)
        /\ \A k \in 1 .. Len(c) : c[k].id = u[k].id
    BY <1>4, <1>5, FollowedBy DEF AnswerCount
  <2>2. Met(ps, K, f, i + 1)
    BY <1>4, <1>5 DEF Met
  <2> DEFINE j == i + 1
  <2>3. j \in 1 .. Len(ps) /\ j - 1 = i /\ j \in 0 .. Len(ps)
    BY <2>1
  <2>4. AllSent(E, q, o[j], ps[j])
    <3> HIDE DEF j
    <3>1. SentAt(E, o[j - 1], o[j], ps, K, f, j, thinking)
      BY <2>3 DEF AllSentAt
    <3>2. SentAt(E, q, o[j], ps, K, f, j, thinking)
      BY <2>3, <3>1
    <3> HIDE DEF q
    <3>3. HasResults(ps[j]) /\ Met(ps, K, f, j)
      BY <2>1, <2>2 DEF j
    <3> QED BY <3>2, <3>3 DEF SentAt
  <2>5. o[j] = q + a /\ \A k \in 1 .. a : ToolAt(E[q + k], c[k].id)
    BY <2>1, <2>4 DEF AllSent
  <2>6. \A k \in 1 .. a : ToolAt(E[q + k], u[k].id)
    BY <2>1, <2>5
  <2>7. o[j] \in 0 .. Len(E)
    BY <2>3 DEF AllSentAt
  <2> HIDE DEF u, n, a, p, q, c, j
  <2>8. q = z + (n - a) /\ o[j] = z + n /\ q <= z + n /\ z \in Nat
    <3>1. q = z + (n - a) /\ q + a = z + n /\ q <= z + n /\ z \in Nat
      BY <1>1, <1>3, TurnEnds
    <3> QED BY <2>5, <3>1
  <2>9. \A k \in 1 .. n - a : ToolAt(E[z + k], u[a + k].id)
    BY <1>1, <1>3
  <2>10. \A k \in 1 .. a : ToolAt(E[z + (n - a) + k], u[k].id)
    BY <2>6, <2>8
  <2>11. Answers1(E, z, u) /\ Answers2(E, z, u)
    BY <1>3, <2>8, <2>9, <2>10, TwoHalves DEF n
  <2>12. z + n <= Len(E)
    BY <2>7, <2>8
  <2> QED BY <1>1, <2>8, <2>11, <2>12 DEF n, u, m, q, j
<1>6. CASE ~ Followed(ps, K, f, i)
  <2>1. a = 0
    BY <1>6 DEF AnswerCount
  <2> HIDE DEF u, n, a, p, q, c
  <2>2. q = z + n /\ z \in Nat /\ z + n <= Len(E)
    <3>1. q = z + (n - a) /\ q + a = z + n /\ q <= z + n /\ z \in Nat
      BY <1>1, <1>3, TurnEnds
    <3>2. q = z + n
      BY <1>1, <2>1, <3>1
    <3> QED BY <1>1, <3>1, <3>2
  <2>3. \A k \in 1 .. n - a : ToolAt(E[z + k], u[a + k].id)
    BY <1>1, <1>3
  <2>4. \A k \in 1 .. a : ToolAt(E[z + (n - a) + k], u[k].id)
    BY <2>1
  <2>5. Answers1(E, z, u) /\ Answers2(E, z, u)
    BY <1>3, <2>2, <2>3, <2>4, TwoHalves DEF n
  <2> QED BY <1>1, <1>6, <2>2, <2>5 DEF n, u, m, q
<1> QED BY <1>5, <1>6

LEMMA TurnPlace ==
  ASSUME NEW ps \in Seq(Msg), NEW K, NEW f, NEW E, NEW thinking, NEW o,
         AllSentAt(E, o, ps, K, f, thinking), Len(E) \in Nat, NEW z \in 1 .. Len(E), Chat!IsToolTurn(E[z])
  PROVE  \E i \in 1 .. Len(ps) : IsTurn(ps[i]) /\ z = o[i - 1] + 1 /\ TurnOf(E[z], ps[i], thinking)
<1>1. PICK i \in 1 .. Len(ps) : o[i - 1] < z /\ z <= o[i]
  BY DEF AllSentAt
<1> DEFINE p == o[i - 1]
           q == o[i]
           k == z - p
<1>2. p \in Nat /\ q \in Nat
  <2>1. i - 1 \in 0 .. Len(ps) /\ i \in 0 .. Len(ps)
    OBVIOUS
  <2> QED BY <2>1 DEF AllSentAt
<1>3. SentAt(E, p, q, ps, K, f, i, thinking)
  BY DEF AllSentAt
<1>4. p < z /\ z <= q
  BY <1>1
<1> HIDE DEF p, q
<1>5. k \in Nat /\ 1 <= k /\ p + k = z
  BY <1>2, <1>4
<1> HIDE DEF k
<1>6. CASE IsTurn(ps[i])
  <2> DEFINE u == ToolUses(ps[i])
             a == AnswerCount(ps, K, f, i)
             l == k - 1
  <2>1. TurnSent(E, p, q, ps[i], a, thinking)
    BY <1>3, <1>6 DEF SentAt
  <2>2. /\ Len(u) \in Nat /\ a \in 0 .. Len(u) /\ q = p + 1 + Len(u) - a
        /\ TurnOf(E[p + 1], ps[i], thinking)
    BY <2>1 DEF TurnSent
  <2>3. \A j \in 1 .. Len(u) - a : ToolAt(E[p + 1 + j], u[a + j].id)
    BY <2>1 DEF TurnSent
  <2> HIDE DEF u, a
  <2>4. k # 1 => l \in 1 .. Len(u) - a /\ p + 1 + l = z
    BY <1>2, <1>4, <1>5, <2>2
  <2> HIDE DEF l
  <2>5. CASE k # 1
    <3>1. ToolAt(E[z], u[a + l].id)
      BY <2>3, <2>4, <2>5
    <3> QED BY <3>1 DEF ToolAt
  <2>6. CASE k = 1
    <3>1. z = p + 1
      BY <1>5, <2>6
    <3> QED BY <1>6, <2>2, <3>1 DEF p
  <2> QED BY <2>5, <2>6
<1>7. CASE HasResults(ps[i]) /\ Met(ps, K, f, i)
  <2>1. AllSent(E, p, q, ps[i])
    BY <1>3, <1>7 DEF SentAt
  <2>2. k \in 1 .. Len(ps[i].content)
    BY <1>2, <1>4, <1>5, <2>1 DEF AllSent
  <2>3. ToolAt(E[z], ps[i].content[k].id)
    BY <1>5, <2>1, <2>2 DEF AllSent
  <2> QED BY <2>3 DEF ToolAt
<1>8. CASE HasResults(ps[i]) /\ ~ Met(ps, K, f, i)
  <2>1. q = p
    BY <1>3, <1>8 DEF SentAt
  <2> QED BY <1>2, <1>4, <2>1
<1>9. CASE ~ IsTurn(ps[i]) /\ ~ HasResults(ps[i])
  <2>1. q = p + 1 /\ Plain(E[p + 1])
    BY <1>3, <1>9 DEF SentAt
  <2>2. z = p + 1
    BY <1>2, <1>4, <2>1
  <2> QED BY <2>1, <2>2 DEF Plain
<1> QED BY <1>6, <1>7, <1>8, <1>9

LEMMA TurnStands ==
  ASSUME NEW ps \in Seq(Msg), NEW hs, History(hs), NEW K, NEW f, Thread(ps, hs, K, f),
         NEW E, NEW thinking, NEW o, AllSentAt(E, o, ps, K, f, thinking), Len(E) \in Nat,
         NEW i \in 1 .. Len(ps), IsTurn(ps[i])
  PROVE  o[i - 1] + 1 \in 1 .. Len(E) /\ TurnOf(E[o[i - 1] + 1], ps[i], thinking)
<1>1. /\ o[i - 1] + 1 \in Nat /\ o[i - 1] + 1 + Len(ToolUses(ps[i])) <= Len(E)
  BY TurnIsAnswered
<1>2. SentAt(E, o[i - 1], o[i], ps, K, f, i, thinking)
  BY DEF AllSentAt
<1>3. TurnSent(E, o[i - 1], o[i], ps[i], AnswerCount(ps, K, f, i), thinking)
  BY <1>2 DEF SentAt
<1>4. TurnOf(E[o[i - 1] + 1], ps[i], thinking) /\ Len(ToolUses(ps[i])) \in Nat
  BY <1>3 DEF TurnSent
<1>5. o[i - 1] \in Nat
  <2>1. i - 1 \in 0 .. Len(ps)
    OBVIOUS
  <2> QED BY <2>1 DEF AllSentAt
<1> QED BY <1>1, <1>4, <1>5

LEMMA ToolPlace ==
  ASSUME NEW ps \in Seq(Msg), NEW hs, History(hs), NEW K, NEW f, Thread(ps, hs, K, f),
         NEW E, NEW thinking, NEW o, AllSentAt(E, o, ps, K, f, thinking), Len(E) \in Nat,
         NEW z \in 1 .. Len(E), E[z].role = "tool"
  PROVE  \E k \in 1 .. z - 1 : Chat!IsToolTurn(E[k]) /\ z <= k + Len(E[k].calls)
<1>1. PICK i \in 1 .. Len(ps) : o[i - 1] < z /\ z <= o[i]
  BY DEF AllSentAt
<1> DEFINE p == o[i - 1]
           q == o[i]
<1>2. p \in Nat /\ q \in Nat
  <2>1. i - 1 \in 0 .. Len(ps) /\ i \in 0 .. Len(ps)
    OBVIOUS
  <2> QED BY <2>1 DEF AllSentAt
<1>3. SentAt(E, p, q, ps, K, f, i, thinking)
  BY DEF AllSentAt
<1>4. p < z /\ z <= q /\ z \in Nat
  BY <1>1
<1>5. CASE IsTurn(ps[i])
  <2> DEFINE y == p + 1
             n == Len(ToolUses(ps[i]))
  <2>1. y \in 1 .. Len(E) /\ TurnOf(E[y], ps[i], thinking)
    BY <1>5, TurnStands
  <2>2. q <= y + n
    BY <1>5, TurnIsAnswered
  <2>3. z # y
    BY <2>1 DEF TurnOf
  <2>4. Chat!IsToolTurn(E[y]) /\ Len(E[y].calls) = n
    BY <2>1 DEF TurnOf
  <2>5. n \in Nat
    <3>1. ps[i] \in AnswerMsg
      BY <1>5 DEF IsTurn
    <3> QED BY <3>1, UsesOfAnswer
  <2>6. y \in 1 .. z - 1 /\ z <= y + n
    <3>1. y = p + 1
      OBVIOUS
    <3> HIDE DEF y, p, q, n
    <3> QED BY <1>2, <1>4, <2>2, <2>3, <2>5, <3>1
  <2> HIDE DEF y, n
  <2> QED BY <2>4, <2>6
<1>6. CASE HasResults(ps[i]) /\ Met(ps, K, f, i)
  <2>1. PICK j \in 1 .. Len(ps) : ps[j] \in AnswerMsg /\ i = j + 1 /\ Followed(ps, K, f, j)
    BY <1>6 DEF Met
  <2> DEFINE y == o[j - 1] + 1
             n == Len(ToolUses(ps[j]))
  <2>2. Len(ps[j + 1].content) \in 1 .. n
    BY <2>1, FollowedBy
  <2>3. n \in Nat
    BY <2>1, UsesOfAnswer
  <2>4. IsTurn(ps[j])
    <3>1. ToolUses(ps[j]) # <<>>
      BY <2>2
    <3> QED BY <2>1, <3>1 DEF IsTurn
  <2>5. y \in 1 .. Len(E) /\ TurnOf(E[y], ps[j], thinking)
    BY <2>4, TurnStands
  <2>6. y \in Nat /\ o[j + 1] = y + n
    <3>1. j + 1 \in 1 .. Len(ps) /\ Followed(ps, K, f, j)
      BY <2>1
    <3>2. j \in 1 .. Len(ps)
      OBVIOUS
    <3>3. o[j + 1] = y + n
      BY <2>1, <2>4, TurnIsAnswered
    <3>4. y \in Nat
      BY <2>5
    <3> QED BY <3>3, <3>4
  <2>7. Chat!IsToolTurn(E[y]) /\ Len(E[y].calls) = n
    BY <2>5 DEF TurnOf
  <2>8. q = y + n
    BY <2>1, <2>6
  <2>9. y <= p
    <3>1. SentAt(E, o[j - 1], o[j], ps, K, f, j, thinking)
      BY DEF AllSentAt
    <3>2. TurnSent(E, o[j - 1], o[j], ps[j], AnswerCount(ps, K, f, j), thinking)
      BY <2>4, <3>1 DEF SentAt
    <3>3. AnswerCount(ps, K, f, j) \in 0 .. n /\ o[j] = o[j - 1] + 1 + n - AnswerCount(ps, K, f, j)
      BY <3>2 DEF TurnSent
    <3>4. o[j - 1] \in Nat
      <4>1. j - 1 \in 0 .. Len(ps)
        OBVIOUS
      <4> QED BY <4>1 DEF AllSentAt
    <3>5. p = o[j]
      BY <2>1
    <3> DEFINE a == AnswerCount(ps, K, f, j)
               x == o[j - 1]
    <3>6. a \in 0 .. n /\ p = x + 1 + n - a /\ x \in Nat /\ y = x + 1
      BY <3>3, <3>4, <3>5
    <3> HIDE DEF a, x, n, p, y
    <3> QED BY <2>3, <3>6
  <2>10. y \in 1 .. z - 1 /\ z <= y + n
    <3> HIDE DEF y, p, q, n
    <3>1. 1 <= y /\ y \in Nat
      BY <2>5
    <3> QED BY <1>2, <1>4, <2>8, <2>9, <3>1
  <2> HIDE DEF y, n
  <2> QED BY <2>7, <2>10
<1>7. CASE HasResults(ps[i]) /\ ~ Met(ps, K, f, i)
  <2>1. q = p
    BY <1>3, <1>7 DEF SentAt
  <2> HIDE DEF p, q
  <2> QED BY <1>2, <1>4, <2>1
<1>8. CASE ~ IsTurn(ps[i]) /\ ~ HasResults(ps[i])
  <2>1. q = p + 1 /\ Plain(E[p + 1])
    BY <1>3, <1>8 DEF SentAt
  <2> HIDE DEF p, q
  <2>2. z = p + 1
    BY <1>2, <1>4, <2>1
  <2> QED BY <2>1, <2>2 DEF Plain
<1> QED BY <1>5, <1>6, <1>7, <1>8

LEMMA ChatPaired ==
  ASSUME ConvInv, awaiting, provider.wire = "chat"
  PROVE  ChatIsPaired(sent)
<1> DEFINE ps == prompt
           thinking == provider.thinking
           echo == provider.echo
           W == Unkeyed(ps, echo)
           E == sent
<1>1. ps \in Seq(Msg) /\ History(history)
  BY DEF ConvInv
<1>2. PICK K, f : Thread(ps, history, K, f)
  BY DEF ConvInv, ThreadInv
<1>3. E = [z \in DOMAIN W |-> Chat!KeyEmission(W[z], thinking, ps)]
  <2>1. E = Chat!ChatMessages(ps, echo, thinking)
    BY DEF ConvInv, Request
  <2> HIDE DEF E, ps, echo, thinking
  <2> QED BY <2>1 DEF Chat!ChatMessages, Chat!FlatMap, Unkeyed
<1>4. (\E S : W \in Seq(S)) /\ \E o : Blocks(W, o, ps, K, f)
  <2> HIDE DEF ps, echo, W
  <2>1. W = Unkeyed(ps, echo)
    BY DEF W
  <2> QED BY <1>1, <1>2, <2>1, ChatLaid
<1> HIDE DEF W, E, ps, echo, thinking
<1>5. DOMAIN W = 1 .. Len(W) /\ Len(W) \in Nat
  BY <1>4
<1>6. Keyed(E, W, thinking, ps)
  BY <1>3, <1>5 DEF Keyed
<1>7. PICK o : Blocks(W, o, ps, K, f)
  BY <1>4
<1>8. Len(E) = Len(W) /\ AllSentAt(E, o, ps, K, f, thinking)
  BY <1>1, <1>2, <1>5, <1>6, <1>7, BlocksAreSent
<1>9. Len(E) \in Nat /\ DOMAIN E = 1 .. Len(E)
  BY <1>5, <1>6, <1>8 DEF Keyed
<1>10. ASSUME NEW z \in 1 .. Len(E), Chat!IsToolTurn(E[z])
       PROVE  LET n == Len(E[z].calls)
              IN  /\ z + n <= Len(E)
                  /\ {<<E[k].role, E[k].id, E[k].name>> : k \in z + 1 .. z + n}
                       = {<<"tool", E[z].calls[k].id, E[z].calls[k].name>> : k \in 1 .. n}
                  /\ thinking => E[z].reasoning # {}
  <2>1. PICK i \in 1 .. Len(ps) : IsTurn(ps[i]) /\ z = o[i - 1] + 1 /\ TurnOf(E[z], ps[i], thinking)
    BY <1>1, <1>8, <1>9, <1>10, TurnPlace
  <2> DEFINE u == ToolUses(ps[i])
             n == Len(u)
             c == E[z].calls
  <2>2. z + n <= Len(E) /\ Answers1(E, z, u) /\ Answers2(E, z, u)
    BY <1>1, <1>2, <1>8, <1>9, <2>1, TurnIsAnswered
  <2>3. Len(c) = n /\ (thinking => E[z].reasoning # {})
        /\ \A k \in 1 .. n : c[k].id = u[k].id /\ c[k].name = ToolName
    BY <2>1 DEF TurnOf
  <2>4. n \in Nat
    <3>1. ps[i] \in AnswerMsg
      BY <2>1 DEF IsTurn
    <3> QED BY <3>1, UsesOfAnswer
  <2> HIDE DEF u, n, c
  <2> DEFINE L == {<<E[k].role, E[k].id, E[k].name>> : k \in z + 1 .. z + n}
             R == {<<"tool", c[k].id, c[k].name>> : k \in 1 .. n}
  <2>5. ASSUME NEW k \in z + 1 .. z + n PROVE <<E[k].role, E[k].id, E[k].name>> \in R
    <3> DEFINE j == k - z
    <3>1. j \in 1 .. n /\ z + j = k
      BY <2>4
    <3> HIDE DEF j
    <3>2. PICK l \in 1 .. n : ToolAt(E[z + j], u[l].id)
      BY <2>2, <3>1 DEF Answers1, n
    <3>3. E[k].role = "tool" /\ E[k].id = u[l].id /\ E[k].name = ToolName
      BY <3>1, <3>2 DEF ToolAt
    <3>4. c[l].id = u[l].id /\ c[l].name = ToolName
      BY <2>3
    <3> QED BY <3>3, <3>4
  <2>6. ASSUME NEW l \in 1 .. n PROVE <<"tool", c[l].id, c[l].name>> \in L
    <3>1. PICK j \in 1 .. n : ToolAt(E[z + j], u[l].id)
      BY <2>2 DEF Answers2, n
    <3> DEFINE k == z + j
    <3>2. k \in z + 1 .. z + n
      BY <2>4
    <3>3. ToolAt(E[k], u[l].id)
      BY <3>1
    <3> HIDE DEF k
    <3>4. E[k].role = "tool" /\ E[k].id = u[l].id /\ E[k].name = ToolName
      BY <3>3 DEF ToolAt
    <3>5. c[l].id = u[l].id /\ c[l].name = ToolName
      BY <2>3
    <3> QED BY <3>2, <3>4, <3>5
  <2>7. L = R
    BY <2>5, <2>6
  <2> QED BY <2>2, <2>3, <2>7 DEF c
<1>11. ASSUME NEW z \in 1 .. Len(E), E[z].role = "tool"
       PROVE  \E k \in 1 .. z - 1 : Chat!IsToolTurn(E[k]) /\ z <= k + Len(E[k].calls)
  BY <1>1, <1>2, <1>8, <1>9, <1>11, ToolPlace
<1>12. ChatIsPaired(E)
  BY <1>9, <1>10, <1>11 DEF ChatIsPaired, thinking
<1> QED BY <1>12 DEF E

LEMMA InvPaired ==
  ASSUME ConvInv
  PROVE  RequestsArePaired
<1>1. awaiting /\ provider.wire = "chat" => ChatIsPaired(sent)
  BY ChatPaired
<1>2. awaiting /\ provider.wire = "responses" => ResponsesIsPaired(sent)
  BY ResponsesPaired
<1> QED BY <1>1, <1>2 DEF RequestsArePaired

(* Whatever was broken off, compacted or said by another provider before:  *)
(* over Chat sanitize_tool_pairing (openai.rs) puts placeholders right     *)
(* after a turn that was left open and drops results whose call is gone,   *)
(* and apply_key_emission adds the keys, so that calls and results are     *)
(* complete and adjacent; over Responses sanitize_input_items drops        *)
(* outputs and reasonings that stand alone.  Of a call without an output   *)
(* over Responses, and of Messages, it says nothing.                       *)
THEOREM RequestsPaired == Spec => []RequestsArePaired
<1>1. ConvInv => RequestsArePaired
  BY InvPaired
<1> QED BY <1>1, ConversationHangsTogether, PTL

-----------------------------------------------------------------------------
(* A longer prompt gives a longer request *)

Pre(s, t) ==
  /\ Len(s) \in Nat /\ Len(t) \in Nat /\ Len(s) <= Len(t)
  /\ \A i \in 1 .. Len(s) : s[i] = t[i]

LEMMA LaidPre ==
  ASSUME NEW ss, NEW tt, Lens(ss), Lens(tt), Pre(ss, tt),
         NEW v, NEW a, Laid(v, a, ss), NEW w, NEW b, Laid(w, b, tt)
  PROVE  Pre(v, w)
<1> DEFINE n == Len(ss)
           m == Len(tt)
           T == {i \in Nat : i <= n => a[i] = b[i]}
<1>0. n \in Nat /\ m \in Nat /\ n <= m /\ \A i \in 1 .. n : ss[i] = tt[i] /\ Len(ss[i]) \in Nat
  BY DEF Lens, Pre
<1>1. 0 \in T
  BY DEF Laid
<1>2. ASSUME NEW i \in T PROVE i + 1 \in T
  <2> SUFFICES ASSUME i + 1 <= n PROVE a[i + 1] = b[i + 1]
    OBVIOUS
  <2>1. i + 1 \in 1 .. n /\ i + 1 \in 1 .. m /\ i + 1 - 1 = i /\ i <= n
    <3>1. i \in Nat
      OBVIOUS
    <3> HIDE DEF T, n, m
    <3> QED BY <1>0, <3>1
  <2>2. a[i] = b[i]
    BY <2>1
  <2> DEFINE j == i + 1
  <2>3. j \in 1 .. n /\ j \in 1 .. m /\ j - 1 = i
    BY <2>1
  <2> HIDE DEF j
  <2>4. a[j] = a[j - 1] + Len(ss[j])
    BY <2>3 DEF Laid
  <2>5. b[j] = b[j - 1] + Len(tt[j])
    BY <2>3 DEF Laid
  <2>6. a[j] = b[j]
    BY <1>0, <2>2, <2>3, <2>4, <2>5
  <2> QED BY <2>6 DEF j
<1>3. T = Nat
  <2> HIDE DEF T
  <2> QED BY <1>1, <1>2, InductionOnNat DEF T
<1>4. ASSUME NEW i \in 0 .. n PROVE a[i] = b[i]
  <2>1. i \in T /\ i <= n
    BY <1>0, <1>3
  <2> QED BY <2>1
<1> HIDE DEF T
<1>5. Len(v) = a[n] /\ Len(w) = b[m] /\ a[n] = b[n] /\ a[n] \in Nat /\ b[m] \in Nat
  <2>1. n \in 0 .. n /\ m \in 0 .. m
    BY <1>0
  <2> QED BY <1>4, <2>1 DEF Laid
<1>6. b[n] <= b[m]
  <2>1. n \in 0 .. m /\ m \in 0 .. m
    BY <1>0
  <2>2. \A i, j \in 0 .. m : i <= j => b[i] <= b[j]
    BY Zenon DEF Laid
  <2> QED BY <1>0, <2>1, <2>2
<1>7. ASSUME NEW p \in 1 .. Len(v) PROVE v[p] = w[p]
  <2>1. PICK i \in 1 .. n : \E k \in 1 .. Len(ss[i]) : p = a[i - 1] + k
    BY DEF Laid
  <2>2. PICK k \in 1 .. Len(ss[i]) : p = a[i - 1] + k
    BY <2>1
  <2>3. v[p] = ss[i][k]
    BY <2>2 DEF Laid
  <2>4. i \in 1 .. m /\ ss[i] = tt[i] /\ a[i - 1] = b[i - 1]
    <3>1. i - 1 \in 0 .. n
      BY <1>0
    <3> QED BY <1>0, <1>4, <3>1
  <2>5. k \in 1 .. Len(tt[i]) /\ p = b[i - 1] + k
    BY <2>2, <2>4
  <2>6. w[b[i - 1] + k] = tt[i][k]
    BY <2>4, <2>5 DEF Laid
  <2> QED BY <2>3, <2>4, <2>5, <2>6
<1>8. Len(v) \in Nat /\ Len(w) \in Nat /\ Len(v) <= Len(w)
  BY <1>5, <1>6
<1> QED BY <1>7, <1>8 DEF Pre

Rows(ss, n) == ss = [i \in 1 .. n |-> ss[i]] /\ \A i \in 1 .. n : IsSeq(ss[i])

LEMMA FlattenPre ==
  ASSUME NEW n \in Nat, NEW ss, Rows(ss, n), NEW m \in Nat, NEW tt, Rows(tt, m),
         n <= m, \A i \in 1 .. n : ss[i] = tt[i]
  PROVE  /\ Pre(FlattenSeq(ss), FlattenSeq(tt))
         /\ (\E S : FlattenSeq(ss) \in Seq(S)) /\ (\E S : FlattenSeq(tt) \in Seq(S))
<1>1. PICK S : ss \in Seq(Seq(S))
  BY SeqsOfSeqs DEF Rows
<1>2. PICK U : tt \in Seq(Seq(U))
  BY SeqsOfSeqs DEF Rows
<1>3. PICK a : Laid(FlattenSeq(ss), a, ss)
  BY <1>1, FlattenLaid
<1>4. PICK b : Laid(FlattenSeq(tt), b, tt)
  BY <1>2, FlattenLaid
<1>5. FlattenSeq(ss) \in Seq(S) /\ FlattenSeq(tt) \in Seq(U)
  BY <1>1, <1>2, FlattenLaid
<1>6. Len(ss) = n /\ Len(tt) = m
  BY DEF Rows
<1>7. Lens(ss) /\ Lens(tt)
  BY <1>6 DEF Lens, Rows, IsSeq
<1>8. Pre(ss, tt)
  BY <1>6 DEF Pre
<1>9. Pre(FlattenSeq(ss), FlattenSeq(tt))
  BY <1>3, <1>4, <1>7, <1>8, LaidPre
<1> QED BY <1>5, <1>9

LEMMA AppendPre ==
  ASSUME NEW S, NEW r \in Seq(S), NEW x \in S
  PROVE  Pre(r, r) /\ Pre(r, Append(r, x))
BY DEF Pre

LEMMA PreTrans ==
  ASSUME NEW r, NEW s, NEW t, Pre(r, s), Pre(s, t)
  PROVE  Pre(r, t)
BY DEF Pre

\* Of a longer sequence more is picked.
LEMMA PickedPre ==
  ASSUME NEW S, NEW s, NEW t \in Seq(S), Pre(s, t), NEW K, NEW J,
         \A i \in 1 .. Len(s) : i < Len(s) => (i \in K <=> i \in J),
         Len(s) \in K => Len(s) \in J
  PROVE  Pre(Picked(s, K), Picked(t, J))
<1> DEFINE n == Len(s)
           m == Len(t)
<1>0. n \in Nat /\ m \in Nat /\ n <= m /\ \A i \in 1 .. n : s[i] = t[i]
  BY DEF Pre
<1>1. PICK g : IsPick(g, s, K, n)
  BY <1>0, PickExists
<1>2. PICK h : IsPick(h, t, J, m)
  BY <1>0, PickExists
<1>3. Picked(s, K) = g[n] /\ Picked(t, J) = h[m]
  BY <1>0, <1>1, <1>2, PickedIs
<1>4. /\ g[0] = <<>> /\ \A i \in 1 .. n : g[i] = IF i \in K THEN Append(g[i - 1], s[i]) ELSE g[i - 1]
      /\ h[0] = <<>> /\ \A i \in 1 .. m : h[i] = IF i \in J THEN Append(h[i - 1], t[i]) ELSE h[i - 1]
  BY <1>0, <1>1, <1>2, PickStep
<1> HIDE DEF n, m
<1> DEFINE A == {i \in Nat : i < n => g[i] = h[i]}
<1>5. A = Nat
  <2>1. 0 \in A
    BY <1>4
  <2>2. ASSUME NEW i \in A PROVE i + 1 \in A
    <3> SUFFICES ASSUME i + 1 < n PROVE g[i + 1] = h[i + 1]
      OBVIOUS
    <3> DEFINE j == i + 1
    <3>1. j \in 1 .. n /\ j \in 1 .. m /\ j - 1 = i /\ i < n /\ j < n
      <4>1. i \in Nat
        OBVIOUS
      <4> HIDE DEF A
      <4> QED BY <1>0, <4>1
    <3>2. g[i] = h[i]
      BY <3>1
    <3> HIDE DEF j
    <3>3. (j \in K <=> j \in J) /\ s[j] = t[j]
      BY <1>0, <3>1 DEF n
    <3>4. g[j] = h[j]
      BY <1>4, <3>1, <3>2, <3>3
    <3> QED BY <3>4 DEF j
  <2> HIDE DEF A
  <2> QED BY <2>1, <2>2, InductionOnNat DEF A
<1> DEFINE B == {i \in Nat : i <= m => h[i] \in Seq(S)}
<1>6. B = Nat
  <2>1. 0 \in B
    <3>1. h[0] = <<>>
      BY <1>4
    <3>2. <<>> \in Seq(S)
      OBVIOUS
    <3> QED BY <3>1, <3>2
  <2>2. ASSUME NEW i \in B PROVE i + 1 \in B
    <3> SUFFICES ASSUME i + 1 <= m PROVE h[i + 1] \in Seq(S)
      OBVIOUS
    <3> DEFINE j == i + 1
    <3>1. j \in 1 .. m /\ j - 1 = i /\ i <= m
      <4>1. i \in Nat
        OBVIOUS
      <4> HIDE DEF B
      <4> QED BY <1>0, <4>1
    <3>2. h[i] \in Seq(S)
      BY <3>1
    <3> HIDE DEF j
    <3>3. t[j] \in S
      BY <3>1 DEF m
    <3>4. h[j] = Append(h[i], t[j]) \/ h[j] = h[i]
      BY <1>4, <3>1
    <3>5. Append(h[i], t[j]) \in Seq(S)
      BY <3>2, <3>3
    <3>6. h[j] \in Seq(S)
      BY <3>2, <3>4, <3>5
    <3> QED BY <3>6 DEF j
  <2> HIDE DEF B
  <2> QED BY <2>1, <2>2, InductionOnNat DEF B
<1>7. \A i \in 0 .. m : h[i] \in Seq(S)
  <2> SUFFICES ASSUME NEW i \in 0 .. m PROVE h[i] \in Seq(S)
    OBVIOUS
  <2>1. i \in B /\ i <= m
    <3> HIDE DEF B
    <3> QED BY <1>0, <1>6
  <2> QED BY <2>1
<1> HIDE DEF B
<1>8. ASSUME NEW i \in 1 .. m PROVE Pre(h[i - 1], h[i])
  <2>1. h[i - 1] \in Seq(S) /\ t[i] \in S
    <3>1. i - 1 \in 0 .. m
      BY <1>0
    <3>2. t[i] \in S
      BY DEF m
    <3> QED BY <1>7, <3>1, <3>2
  <2>2. h[i] = h[i - 1] \/ h[i] = Append(h[i - 1], t[i])
    BY <1>4
  <2> QED BY <2>1, <2>2, AppendPre
<1> DEFINE D == {i \in Nat : n + i <= m => Pre(h[n], h[n + i])}
<1>9. D = Nat
  <2>1. 0 \in D
    <3>1. n \in 0 .. m /\ n + 0 = n
      BY <1>0
    <3>2. h[n] \in Seq(S)
      BY <1>7, <3>1
    <3>3. Pre(h[n], h[n])
      BY <3>2 DEF Pre
    <3> QED BY <3>1, <3>3
  <2>2. ASSUME NEW i \in D PROVE i + 1 \in D
    <3> SUFFICES ASSUME n + (i + 1) <= m PROVE Pre(h[n], h[n + (i + 1)])
      OBVIOUS
    <3> DEFINE j == n + (i + 1)
    <3>1. j \in 1 .. m /\ j - 1 = n + i /\ n + i <= m
      <4>1. i \in Nat
        OBVIOUS
      <4> HIDE DEF D
      <4> QED BY <1>0, <4>1
    <3>2. Pre(h[n], h[n + i])
      BY <3>1
    <3> HIDE DEF j
    <3>3. Pre(h[j - 1], h[j])
      BY <1>8, <3>1
    <3>4. Pre(h[n], h[j])
      BY <3>1, <3>2, <3>3, PreTrans
    <3> QED BY <3>4 DEF j
  <2> HIDE DEF D
  <2> QED BY <2>1, <2>2, InductionOnNat DEF D
<1>10. Pre(h[n], h[m])
  <2>1. m - n \in D /\ n + (m - n) = m /\ m <= m
    <3> HIDE DEF D
    <3> QED BY <1>0, <1>9
  <2> QED BY <2>1
<1> HIDE DEF D
<1>11. Pre(g[n], h[n])
  <2>0. n \in 0 .. m
    BY <1>0
  <2>1. CASE n = 0
    BY <1>4, <2>1 DEF Pre
  <2>2. CASE n # 0
    <3>1. n \in 1 .. n /\ n \in 1 .. m /\ n - 1 \in Nat /\ n - 1 < n /\ n - 1 \in 0 .. m
      BY <1>0, <2>2
    <3>2. g[n - 1] = h[n - 1] /\ h[n - 1] \in Seq(S)
      <4>1. n - 1 \in A
        <5> HIDE DEF A
        <5> QED BY <1>5, <3>1
      <4> QED BY <1>7, <3>1, <4>1
    <3> HIDE DEF A
    <3>3. s[n] = t[n] /\ t[n] \in S
      <4>1. t[n] \in S
        BY <3>1 DEF m
      <4> QED BY <1>0, <3>1, <4>1
    <3>4. n \in K => n \in J
      BY DEF n
    <3>5. g[n] = IF n \in K THEN Append(h[n - 1], t[n]) ELSE h[n - 1]
      BY <1>4, <3>1, <3>2, <3>3
    <3>6. h[n] = IF n \in J THEN Append(h[n - 1], t[n]) ELSE h[n - 1]
      BY <1>4, <3>1
    <3>7. h[n] \in Seq(S)
      BY <1>7, <2>0
    <3>8. CASE n \in K
      <4>1. g[n] = h[n]
        BY <3>4, <3>5, <3>6, <3>8
      <4> QED BY <3>7, <4>1 DEF Pre
    <3>9. CASE n \notin K
      <4>1. g[n] = h[n - 1]
        BY <3>5, <3>9
      <4> QED BY <1>8, <3>1, <4>1
    <3> QED BY <3>8, <3>9
  <2> QED BY <2>1, <2>2
<1> QED BY <1>3, <1>10, <1>11, PreTrans DEF n, m

\* Nothing that was sent of a prompt is taken back when it grows, over Responses.
LEMMA SanitizedPre ==
  ASSUME NEW S, NEW X, NEW Y \in Seq(S), Pre(X, Y), NEW T, X \in Seq(T)
  PROVE  Pre(Responses!SanitizeInputItems(X), Responses!SanitizeInputItems(Y))
<1> DEFINE V == Responses!WithoutOrphanOutputs(X)
           W == Responses!WithoutOrphanOutputs(Y)
           K == {i \in 1 .. Len(X) : IsOutput(X[i]) => HasCall(X, i)}
           J == {i \in 1 .. Len(Y) : IsOutput(Y[i]) => HasCall(Y, i)}
<1>0. /\ Len(X) \in Nat /\ Len(Y) \in Nat /\ Len(X) <= Len(Y)
      /\ \A i \in 1 .. Len(X) : X[i] = Y[i] /\ i \in 1 .. Len(Y)
  BY DEF Pre
<1>1. V = Picked(X, K) /\ W = Picked(Y, J)
  BY <1>0, OutputsPicked
<1>2. ASSUME NEW i \in 1 .. Len(X) PROVE i \in K <=> i \in J
  <2>1. \A j \in 1 .. i - 1 : X[j] = Y[j]
    BY <1>0
  <2>2. HasCall(X, i) <=> HasCall(Y, i)
    BY <1>0, <2>1 DEF HasCall
  <2> QED BY <1>0, <2>2
<1>3. W \in Seq(S)
  BY <1>1, PickedPlaces
<1> HIDE DEF K, J
<1>4. Pre(V, W)
  <2>1. Len(X) \in K => Len(X) \in J
    <3>1. Len(X) \in K => Len(X) \in 1 .. Len(X)
      BY DEF K
    <3> QED BY <1>2, <3>1
  <2> QED BY <1>1, <1>2, <2>1, PickedPre
<1> HIDE DEF V, W
<1> DEFINE A == {i \in 1 .. Len(V) : IsReason(V[i]) => i < Len(V) /\ Responses!IsReasoningProduct(V[i + 1])}
           B == {i \in 1 .. Len(W) : IsReason(W[i]) => i < Len(W) /\ Responses!IsReasoningProduct(W[i + 1])}
<1>5. Len(V) \in Nat /\ Len(W) \in Nat /\ Len(V) <= Len(W) /\ \A i \in 1 .. Len(V) : V[i] = W[i]
  BY <1>4 DEF Pre
<1>6. /\ Responses!SanitizeInputItems(X) = Picked(V, A)
      /\ Responses!SanitizeInputItems(Y) = Picked(W, B)
  <2>1. Responses!WithoutLooseReasoning(V) = Picked(V, A) /\ Responses!WithoutLooseReasoning(W) = Picked(W, B)
    BY <1>5, ReasoningPicked
  <2> QED BY <2>1 DEF Responses!SanitizeInputItems, V, W
<1>7. ASSUME NEW i \in 1 .. Len(V), i < Len(V) PROVE i \in A <=> i \in B
  <2>1. i \in 1 .. Len(W) /\ i < Len(W) /\ V[i] = W[i] /\ V[i + 1] = W[i + 1]
    <3>1. i + 1 \in 1 .. Len(V)
      BY <1>5, <1>7
    <3> QED BY <1>5, <1>7, <3>1
  <2> QED BY <1>7, <2>1
<1>8. Len(V) \in A => Len(V) \in B
  <2> SUFFICES ASSUME Len(V) \in A PROVE Len(V) \in B
    OBVIOUS
  <2>1. Len(V) \in 1 .. Len(V) /\ ~ IsReason(V[Len(V)])
    BY <1>5
  <2>2. Len(V) \in 1 .. Len(W) /\ ~ IsReason(W[Len(V)])
    BY <1>5, <2>1
  <2> QED BY <2>2
<1> HIDE DEF A, B
<1> QED BY <1>3, <1>4, <1>6, <1>7, <1>8, PickedPre

LEMMA ResponsesPre ==
  ASSUME NEW ps \in Seq(Msg), NEW hs, History(hs), NEW K, NEW f, Thread(ps, hs, K, f),
         NEW mode \in Responses!ReasoningMode, NEW effort, NEW ms \in Seq(Msg), Pre(ms, ps)
  PROVE  Pre(Responses!ResponsesInput(ms, mode, effort), Responses!ResponsesInput(ps, mode, effort))
<1> DEFINE n == Len(ms)
           m == Len(ps)
           ss == [i \in 1 .. n |-> Responses!ItemsInThinking(ms[i], mode, effort)]
           tt == [i \in 1 .. m |-> Responses!ItemsInThinking(ps[i], mode, effort)]
<1>0. n \in Nat /\ m \in Nat /\ n <= m /\ \A i \in 1 .. n : ms[i] = ps[i] /\ i \in 1 .. m
  BY DEF Pre
<1>1. ASSUME NEW i \in 1 .. m PROVE IsSeq(tt[i])
  <2>1. Segment(Responses!ItemsInThinking(ps[i], mode, effort), ps[i], mode = "plaintext" /\ effort # {"none"})
    BY PromptSegments
  <2> QED BY <2>1 DEF Segment
<1>2. \A i \in 1 .. n : ss[i] = tt[i]
  BY <1>0
<1>3. ss = [i \in 1 .. n |-> ss[i]] /\ tt = [i \in 1 .. m |-> tt[i]]
  OBVIOUS
<1>4. ss = [i \in DOMAIN ms |-> Responses!ItemsInThinking(ms[i], mode, effort)]
      /\ tt = [i \in DOMAIN ps |-> Responses!ItemsInThinking(ps[i], mode, effort)]
  OBVIOUS
<1>5. \A s : Responses!FlattenSeq(s) = FlattenSeq(s)
  BY DEF Responses!FlattenSeq, FlattenSeq
<1>6. /\ Responses!ResponsesInput(ms, mode, effort) = Responses!SanitizeInputItems(FlattenSeq(ss))
      /\ Responses!ResponsesInput(ps, mode, effort) = Responses!SanitizeInputItems(FlattenSeq(tt))
  <2>1. /\ Responses!ResponsesInput(ms, mode, effort)
             = Responses!SanitizeInputItems(Responses!FlattenSeq(
                 [i \in DOMAIN ms |-> Responses!ItemsInThinking(ms[i], mode, effort)]))
        /\ Responses!ResponsesInput(ps, mode, effort)
             = Responses!SanitizeInputItems(Responses!FlattenSeq(
                 [i \in DOMAIN ps |-> Responses!ItemsInThinking(ps[i], mode, effort)]))
    BY DEF Responses!ResponsesInput, Responses!FlatMap
  <2> HIDE DEF ss, tt
  <2> QED BY <1>4, <1>5, <2>1
<1> HIDE DEF ss, tt
<1>7. Rows(ss, n) /\ Rows(tt, m)
  <2>1. \A i \in 1 .. n : IsSeq(ss[i])
    BY <1>0, <1>1, <1>2
  <2> QED BY <1>1, <1>3, <2>1 DEF Rows
<1>8. /\ Pre(FlattenSeq(ss), FlattenSeq(tt))
      /\ (\E S : FlattenSeq(ss) \in Seq(S)) /\ (\E S : FlattenSeq(tt) \in Seq(S))
  <2> HIDE DEF n, m
  <2> QED BY <1>0, <1>2, <1>7, FlattenPre
<1> QED BY <1>6, <1>8, SanitizedPre

LEMMA MessagesPre ==
  ASSUME NEW S, NEW ms \in Seq(S), NEW ps \in Seq(S), Pre(ms, ps)
  PROVE  Pre(Anthropic!AnthropicMessages(ms), Anthropic!AnthropicMessages(ps))
<1>1. /\ Anthropic!AnthropicMessages(ms) = [i \in 1 .. Len(ms) |-> Anthropic!MessageToAnthropic(ms[i])]
      /\ Anthropic!AnthropicMessages(ps) = [i \in 1 .. Len(ps) |-> Anthropic!MessageToAnthropic(ps[i])]
  BY DEF Anthropic!AnthropicMessages
<1> QED BY <1>1 DEF Pre

LEMMA HistoryPre ==
  ASSUME NEW hs, History(hs), NEW gs \in Seq(Spk), Pre(gs, hs)
  PROVE  History(gs)
<1>0. Len(gs) \in Nat /\ Len(hs) \in Nat /\ Len(gs) <= Len(hs) /\ \A h \in 1 .. Len(gs) : gs[h] = hs[h]
  BY DEF Pre
<1>1. ASSUME NEW h \in 1 .. Len(gs) PROVE MessageAt(gs, h)
  <2>1. MessageAt(hs, h) /\ gs[h] = hs[h]
    BY <1>0 DEF History
  <2>2. h > 1 => gs[h - 1] = hs[h - 1]
    BY <1>0
  <2> QED BY <2>1, <2>2 DEF MessageAt
<1>2. gs # <<>> => gs[1] \in SpeechMsg
  <2> SUFFICES ASSUME gs # <<>> PROVE gs[1] \in SpeechMsg
    OBVIOUS
  <2>1. 1 \in 1 .. Len(gs) /\ hs # <<>>
    BY <1>0
  <2> QED BY <1>0, <2>1 DEF History
<1> QED BY <1>1, <1>2 DEF History

\* A message of the user: not a note.
LEMMA UserInThread ==
  ASSUME NEW ps \in Seq(Msg), NEW hs, NEW K, NEW f, Thread(ps, hs, K, f), NEW k \in 1 .. Len(ps), ps[k].role = "user"
  PROVE  k \in K /\ ps[k] \notin AnswerMsg
<1>1. ps[k] \notin NoteMsg /\ ps[k] \notin AnswerMsg
  BY MessageKinds
<1> QED BY <1>1 DEF Thread

Upto(K, k) == {i \in K : i \in 1 .. k}

\* A prompt up to a message of the user, with the history up to it.
LEMMA ThreadPre ==
  ASSUME NEW ps \in Seq(Msg), NEW hs, History(hs), NEW K, NEW f, Thread(ps, hs, K, f),
         NEW k \in 1 .. Len(ps), ps[k].role = "user",
         NEW ms \in Seq(Msg), Pre(ms, ps), Len(ms) = k
  PROVE  \E gs, e : /\ History(gs) /\ Thread(ms, gs, Upto(K, k), e)
                    /\ \A i \in Upto(K, k) : e[i] = f[i]
<1> DEFINE J == Upto(K, k)
           e == [i \in J |-> f[i]]
           h == f[k]
           gs == SubSeq(hs, 1, h)
<1>0. /\ Len(ps) \in Nat /\ k \in Nat /\ Len(hs) \in Nat /\ hs \in Seq(Spk)
      /\ \A i \in 1 .. k : ms[i] = ps[i]
  BY DEF Pre, History
<1>1. k \in K
  BY UserInThread
<1>t. /\ K \in SUBSET (1 .. Len(ps)) /\ f \in [K -> 1 .. Len(hs)]
      /\ \A i \in K : ps[i] = hs[f[i]]
      /\ \A i \in 1 .. Len(ps) : i \notin K => ps[i] \in NoteMsg
      /\ \A i, j \in K : i < j => f[i] < f[j]
      /\ 1 \in K => f[1] = 1
      /\ \A i, j \in K : f[i] = f[j] + 1 /\ HasResults(ps[i]) => i = j + 1
  BY DEF Thread
<1>2. h \in 1 .. Len(hs)
  BY <1>1, <1>t
<1>3. gs \in Seq(Spk) /\ Len(gs) = h /\ \A i \in 1 .. h : gs[i] = hs[i]
  <2> HIDE DEF h
  <2> QED BY <1>0, <1>2
<1> HIDE DEF gs
<1>4. Pre(gs, hs) /\ gs # <<>>
  BY <1>0, <1>2, <1>3 DEF Pre
<1>5. History(gs)
  BY <1>3, <1>4, HistoryPre
<1>6. \A i \in J : i \in K /\ i \in 1 .. k /\ e[i] = f[i]
  BY DEF Upto
<1>7. \A i \in J : f[i] \in 1 .. h
  <2> SUFFICES ASSUME NEW i \in J PROVE f[i] \in 1 .. h
    OBVIOUS
  <2>1. i \in K /\ (i < k \/ i = k) /\ f[i] \in 1 .. Len(hs)
    BY <1>0, <1>6, <1>t
  <2>2. f[i] < f[k] \/ f[i] = f[k]
    BY <1>1, <1>t, <2>1
  <2> QED BY <1>2, <2>1, <2>2
<1>8. k \in J
  BY <1>0, <1>1 DEF Upto
<1> HIDE DEF h
<1>9. J \in SUBSET (1 .. Len(ms)) /\ e \in [J -> 1 .. Len(gs)]
  BY <1>3, <1>6, <1>7
<1>10. \A i \in 1 .. Len(ms) : i \notin J => ms[i] \in NoteMsg
  <2> SUFFICES ASSUME NEW i \in 1 .. k, i \notin J PROVE ms[i] \in NoteMsg
    OBVIOUS
  <2>1. i \notin K /\ i \in 1 .. Len(ps)
    BY <1>0 DEF Upto
  <2> QED BY <1>0, <1>t, <2>1
<1>11. e[k] = Len(gs)
  BY <1>3, <1>6, <1>8 DEF h
<1> HIDE DEF e, J
<1>12. \A i \in J : ms[i] = gs[e[i]]
  <2> SUFFICES ASSUME NEW i \in J PROVE ms[i] = gs[e[i]]
    OBVIOUS
  <2>1. ms[i] = ps[i] /\ ps[i] = hs[f[i]] /\ e[i] = f[i] /\ f[i] \in 1 .. h
    BY <1>0, <1>6, <1>7, <1>t
  <2> QED BY <1>3, <2>1
<1>13. \A i, j \in J : i < j => e[i] < e[j]
  BY <1>6, <1>t
<1>14. 1 \in J => e[1] = 1
  BY <1>6, <1>t
<1>15. \A i, j \in J : e[i] = e[j] + 1 /\ HasResults(ms[i]) => i = j + 1
  <2> SUFFICES ASSUME NEW i \in J, NEW j \in J, e[i] = e[j] + 1, HasResults(ms[i]) PROVE i = j + 1
    OBVIOUS
  <2>1. i \in K /\ j \in K /\ e[i] = f[i] /\ e[j] = f[j] /\ ms[i] = ps[i]
    BY <1>0, <1>6
  <2> QED BY <1>t, <2>1
<1>16. Thread(ms, gs, J, e)
  BY <1>4, <1>8, <1>9, <1>10, <1>11, <1>12, <1>13, <1>14, <1>15 DEF Thread
<1>17. \A i \in J : e[i] = f[i]
  BY <1>6
<1> QED BY <1>5, <1>16, <1>17 DEF J

\* Before a message of the user, what is left of a message is left for good.
LEMMA PartsPre ==
  ASSUME NEW ps \in Seq(Msg), NEW hs, NEW K, NEW f, Thread(ps, hs, K, f),
         NEW k \in 1 .. Len(ps), ps[k].role = "user",
         NEW ms \in Seq(Msg), Pre(ms, ps), Len(ms) = k,
         NEW e, \A i \in Upto(K, k) : e[i] = f[i], NEW i \in 1 .. k
  PROVE  Parts(ms, Upto(K, k), e, i) = Parts(ps, K, f, i)
<1> DEFINE J == Upto(K, k)
<1>0. k \in Nat /\ Len(ps) \in Nat /\ \A j \in 1 .. k : ms[j] = ps[j] /\ j \in 1 .. Len(ps)
  BY DEF Pre
<1>1. k \in K /\ ps[k] \notin AnswerMsg
  BY UserInThread
<1>2. ASSUME NEW j \in 1 .. k, ps[j] \in AnswerMsg
      PROVE  /\ j + 1 \in 1 .. k /\ ms[j + 1] = ps[j + 1]
             /\ Followed(ms, J, e, j) <=> Followed(ps, K, f, j)
  <2>1. j # k
    BY <1>1, <1>2
  <2>2. j + 1 \in 1 .. k
    BY <1>0, <2>1
  <2>3. ms[j + 1] = ps[j + 1]
    BY <1>0, <2>2
  <2>4. j \in K
    <3>1. ps[j] \notin NoteMsg
      BY <1>2, AnswerIsNoNote
    <3> QED BY <1>0, <3>1 DEF Thread
  <2>5. j \in J /\ (j + 1 \in J <=> j + 1 \in K)
    BY <2>2, <2>4 DEF Upto
  <2>6. Followed(ms, J, e, j) <=> Followed(ps, K, f, j)
    BY <2>3, <2>5 DEF Followed
  <2> QED BY <2>2, <2>3, <2>6
<1>3. ms[i] = ps[i]
  BY <1>0
<1>4. CASE IsTurn(ps[i])
  <2>1. ps[i] \in AnswerMsg
    BY <1>4 DEF IsTurn
  <2>2. AnswerCount(ms, J, e, i) = AnswerCount(ps, K, f, i)
    BY <1>2, <2>1 DEF AnswerCount
  <2> QED BY <1>3, <1>4, <2>2 DEF Parts
<1>5. CASE ~ IsTurn(ps[i])
  <2>1. Met(ms, J, e, i) <=> Met(ps, K, f, i)
    <3>1. ASSUME Met(ms, J, e, i) PROVE Met(ps, K, f, i)
      <4>1. PICK j \in 1 .. k : ms[j] \in AnswerMsg /\ i = j + 1 /\ Followed(ms, J, e, j)
        BY <3>1 DEF Met
      <4> QED BY <1>0, <1>2, <4>1 DEF Met
    <3>2. ASSUME Met(ps, K, f, i) PROVE Met(ms, J, e, i)
      <4>1. PICK j \in 1 .. Len(ps) : ps[j] \in AnswerMsg /\ i = j + 1 /\ Followed(ps, K, f, j)
        BY <3>2 DEF Met
      <4>2. j \in 1 .. k
        BY <1>0, <4>1
      <4> QED BY <1>0, <1>2, <4>1, <4>2 DEF Met
    <3> QED BY <3>1, <3>2
  <2> QED BY <1>3, <1>5, <2>1 DEF Parts
<1> QED BY <1>4, <1>5

LEMMA ToolNamed ==
  ASSUME NEW ps, Len(ps) \in Nat, NEW K, NEW f, NEW E, Len(E) \in Nat, NEW thinking, NEW o,
         AllSentAt(E, o, ps, K, f, thinking), NEW z \in 1 .. Len(E), E[z].role = "tool"
  PROVE  E[z].name = ToolName
<1>1. PICK i \in 1 .. Len(ps) : o[i - 1] < z /\ z <= o[i]
  BY DEF AllSentAt
<1> DEFINE p == o[i - 1]
           q == o[i]
<1>2. p \in Nat /\ q \in Nat
  <2>1. i - 1 \in 0 .. Len(ps) /\ i \in 0 .. Len(ps)
    OBVIOUS
  <2> QED BY <2>1 DEF AllSentAt
<1>3. SentAt(E, p, q, ps, K, f, i, thinking)
  BY DEF AllSentAt
<1>4. p < z /\ z <= q /\ z \in Nat
  BY <1>1
<1> HIDE DEF p, q
<1>5. CASE IsTurn(ps[i])
  <2> DEFINE n == Len(ToolUses(ps[i]))
             a == AnswerCount(ps, K, f, i)
             k == z - (p + 1)
  <2>1. TurnSent(E, p, q, ps[i], a, thinking)
    BY <1>3, <1>5 DEF SentAt
  <2>2. n \in Nat /\ a \in 0 .. n /\ q = p + 1 + n - a /\ TurnOf(E[p + 1], ps[i], thinking)
    BY <2>1 DEF TurnSent
  <2>3. z # p + 1
    BY <2>2 DEF TurnOf
  <2>4. k \in 1 .. n - a /\ p + 1 + k = z
    <3> HIDE DEF n, a
    <3> QED BY <1>2, <1>4, <2>2, <2>3
  <2> HIDE DEF k
  <2>5. ToolAt(E[p + 1 + k], ToolUses(ps[i])[a + k].id)
    BY <2>1, <2>4 DEF TurnSent
  <2> QED BY <2>4, <2>5 DEF ToolAt
<1>6. CASE HasResults(ps[i]) /\ Met(ps, K, f, i)
  <2> DEFINE k == z - p
  <2>1. AllSent(E, p, q, ps[i])
    BY <1>3, <1>6 DEF SentAt
  <2>2. Len(ps[i].content) \in Nat /\ q = p + Len(ps[i].content)
    BY <2>1 DEF AllSent
  <2>3. k \in 1 .. Len(ps[i].content) /\ p + k = z
    BY <1>2, <1>4, <2>2
  <2> HIDE DEF k
  <2>4. ToolAt(E[p + k], ps[i].content[k].id)
    BY <2>1, <2>3 DEF AllSent
  <2> QED BY <2>3, <2>4 DEF ToolAt
<1>7. CASE HasResults(ps[i]) /\ ~ Met(ps, K, f, i)
  <2>1. q = p
    BY <1>3, <1>7 DEF SentAt
  <2> QED BY <1>2, <1>4, <2>1
<1>8. CASE ~ IsTurn(ps[i]) /\ ~ HasResults(ps[i])
  <2>1. q = p + 1 /\ Plain(E[p + 1])
    BY <1>3, <1>8 DEF SentAt
  <2>2. z = p + 1
    BY <1>2, <1>4, <2>1
  <2> QED BY <2>1, <2>2 DEF Plain
<1> QED BY <1>5, <1>6, <1>7, <1>8

ToolsNamed(W, thinking, ps) ==
  /\ Len(W) \in Nat /\ DOMAIN W = 1 .. Len(W)
  /\ \A z \in 1 .. Len(W) : Chat!KeyEmission(W[z], thinking, ps).role = "tool"
       => Chat!KeyEmission(W[z], thinking, ps).name = ToolName

\* The tool messages of a request, each under the name of its call.
LEMMA ChatNamed ==
  ASSUME NEW ps \in Seq(Msg), NEW hs, History(hs), NEW K, NEW f, Thread(ps, hs, K, f),
         NEW echo, NEW thinking, NEW W, W = Unkeyed(ps, echo)
  PROVE  ToolsNamed(W, thinking, ps)
<1> DEFINE E == [z \in 1 .. Len(W) |-> Chat!KeyEmission(W[z], thinking, ps)]
<1>1. (\E S : W \in Seq(S)) /\ \E o : Blocks(W, o, ps, K, f)
  BY ChatLaid
<1>2. Len(W) \in Nat /\ DOMAIN W = 1 .. Len(W)
  BY <1>1
<1>3. PICK o : Blocks(W, o, ps, K, f)
  BY <1>1
<1>4. Keyed(E, W, thinking, ps)
  BY DEF Keyed
<1>5. \A z \in 1 .. Len(W) : E[z] = Chat!KeyEmission(W[z], thinking, ps)
  OBVIOUS
<1> HIDE DEF E
<1>6. Len(E) = Len(W) /\ AllSentAt(E, o, ps, K, f, thinking)
  BY <1>2, <1>3, <1>4, BlocksAreSent
<1>7. \A z \in 1 .. Len(W) : E[z].role = "tool" => E[z].name = ToolName
  BY <1>2, <1>6, ToolNamed
<1> QED BY <1>2, <1>5, <1>7 DEF ToolsNamed

LEMMA UnkeyedPre ==
  ASSUME NEW ps \in Seq(Msg), NEW hs, History(hs), NEW K, NEW f, Thread(ps, hs, K, f),
         NEW ms \in Seq(Msg), NEW gs, History(gs), NEW J, NEW e, Thread(ms, gs, J, e),
         Pre(ms, ps), \A i \in 1 .. Len(ms) : Parts(ms, J, e, i) = Parts(ps, K, f, i), NEW echo
  PROVE  Pre(Unkeyed(ms, echo), Unkeyed(ps, echo))
<1> DEFINE P == Chat!SanitizeToolPairing(ms)
           Q == Chat!SanitizeToolPairing(ps)
           qs == [i \in 1 .. Len(ms) |-> Parts(ms, J, e, i)]
           rs == [i \in 1 .. Len(ps) |-> Parts(ps, K, f, i)]
           ss == [i \in 1 .. Len(P) |-> Chat!MessagesToOpenAi(P[i], echo)]
           tt == [i \in 1 .. Len(Q) |-> Chat!MessagesToOpenAi(Q[i], echo)]
<1>1. PICK S : qs \in Seq(Seq(S)) /\ P \in Seq(S) /\ \E a : Laid(P, a, qs)
  BY SanitizedLaid
<1>2. PICK T : rs \in Seq(Seq(T)) /\ Q \in Seq(T) /\ \E a : Laid(Q, a, rs)
  BY SanitizedLaid
<1>3. Pre(qs, rs) /\ Len(qs) = Len(ms) /\ Len(rs) = Len(ps)
  BY DEF Pre
<1>4. \A i \in 1 .. Len(P) : IsSeq(ss[i])
  BY SanitizedSent
<1>5. \A i \in 1 .. Len(Q) : IsSeq(tt[i])
  BY SanitizedSent
<1> HIDE DEF qs, rs
<1>6. Lens(qs) /\ Lens(rs)
  BY <1>1, <1>2 DEF Lens
<1>7. Pre(P, Q)
  <2> HIDE DEF P, Q
  <2> QED BY <1>1, <1>2, <1>3, <1>6, LaidPre
<1>8. Len(P) \in Nat /\ Len(Q) \in Nat /\ Len(P) <= Len(Q) /\ DOMAIN P = 1 .. Len(P) /\ DOMAIN Q = 1 .. Len(Q)
      /\ \A i \in 1 .. Len(P) : ss[i] = tt[i]
  <2> HIDE DEF P, Q
  <2> QED BY <1>1, <1>2, <1>7 DEF Pre
<1>9. Unkeyed(ms, echo) = FlattenSeq(ss) /\ Unkeyed(ps, echo) = FlattenSeq(tt)
  <2>1. /\ Unkeyed(ms, echo) = Chat!FlattenSeq([q \in DOMAIN P |-> Chat!MessagesToOpenAi(P[q], echo)])
        /\ Unkeyed(ps, echo) = Chat!FlattenSeq([q \in DOMAIN Q |-> Chat!MessagesToOpenAi(Q[q], echo)])
    BY DEF Unkeyed
  <2> HIDE DEF P, Q
  <2> QED BY <1>8, <2>1, ChatSame
<1>10. Rows(ss, Len(P)) /\ Rows(tt, Len(Q))
  BY <1>4, <1>5 DEF Rows
<1> HIDE DEF ss, tt, P, Q
<1>11. Pre(FlattenSeq(ss), FlattenSeq(tt))
  BY <1>8, <1>10, FlattenPre
<1> QED BY <1>9, <1>11

LEMMA PrePrefix ==
  ASSUME NEW s, NEW t, Pre(s, t)
  PROVE  IsPrefix(s, t)
BY DEF Pre, IsPrefix

LEMMA PreSub ==
  ASSUME NEW S, NEW s \in Seq(S), NEW k \in 1 .. Len(s)
  PROVE  Pre(SubSeq(s, 1, k), s) /\ Len(SubSeq(s, 1, k)) = k /\ SubSeq(s, 1, k) \in Seq(S)
BY DEF Pre

LEMMA ChatPre ==
  ASSUME NEW ps \in Seq(Msg), NEW hs, History(hs), NEW K, NEW f, Thread(ps, hs, K, f),
         NEW k \in 1 .. Len(ps), ps[k].role = "user",
         NEW ms \in Seq(Msg), Pre(ms, ps), Len(ms) = k, NEW echo, NEW thinking
  PROVE  Pre(Chat!ChatMessages(ms, echo, thinking), Chat!ChatMessages(ps, echo, thinking))
<1> DEFINE J == Upto(K, k)
           V == Unkeyed(ms, echo)
           W == Unkeyed(ps, echo)
           F == Chat!ChatMessages(ms, echo, thinking)
           E == Chat!ChatMessages(ps, echo, thinking)
<1>1. PICK gs, e : History(gs) /\ Thread(ms, gs, J, e) /\ \A i \in J : e[i] = f[i]
  BY ThreadPre
<1>2. \A i \in 1 .. Len(ms) : Parts(ms, J, e, i) = Parts(ps, K, f, i)
  BY <1>1, PartsPre
<1> HIDE DEF J
<1>3. Pre(V, W)
  BY <1>1, <1>2, UnkeyedPre
<1>4. /\ Len(V) \in Nat /\ DOMAIN V = 1 .. Len(V)
      /\ \A z \in 1 .. Len(V) : Chat!KeyEmission(V[z], thinking, ms).role = "tool"
           => Chat!KeyEmission(V[z], thinking, ms).name = ToolName
  <2>1. V = Unkeyed(ms, echo)
    OBVIOUS
  <2>2. History(gs) /\ Thread(ms, gs, J, e)
    BY <1>1
  <2> HIDE DEF V
  <2>3. ToolsNamed(V, thinking, ms)
    BY <2>1, <2>2, ChatNamed
  <2> QED BY <2>3 DEF ToolsNamed
<1>5. /\ Len(W) \in Nat /\ DOMAIN W = 1 .. Len(W)
      /\ \A z \in 1 .. Len(W) : Chat!KeyEmission(W[z], thinking, ps).role = "tool"
           => Chat!KeyEmission(W[z], thinking, ps).name = ToolName
  <2>1. W = Unkeyed(ps, echo)
    OBVIOUS
  <2> HIDE DEF W
  <2>2. ToolsNamed(W, thinking, ps)
    BY <2>1, ChatNamed
  <2> QED BY <2>2 DEF ToolsNamed
<1>6. /\ F = [z \in DOMAIN V |-> Chat!KeyEmission(V[z], thinking, ms)]
      /\ E = [z \in DOMAIN W |-> Chat!KeyEmission(W[z], thinking, ps)]
  BY DEF Chat!ChatMessages, Chat!FlatMap, Unkeyed
<1> HIDE DEF V, W, E, F
<1>7. Len(V) <= Len(W) /\ \A z \in 1 .. Len(V) : V[z] = W[z] /\ z \in 1 .. Len(W)
  BY <1>3, <1>4, <1>5 DEF Pre
<1>8. ASSUME NEW z \in 1 .. Len(V)
      PROVE  Chat!KeyEmission(V[z], thinking, ms) = Chat!KeyEmission(V[z], thinking, ps)
  <2> DEFINE w == V[z]
  <2>1. CASE w.role = "tool"
    <3>1. /\ Chat!KeyEmission(w, thinking, ms)
               = [role |-> "tool", id |-> w.id, text |-> w.text, name |-> Chat!NameOf(w.id, ms)]
          /\ Chat!KeyEmission(w, thinking, ps)
               = [role |-> "tool", id |-> w.id, text |-> w.text, name |-> Chat!NameOf(w.id, ps)]
      BY <2>1 DEF Chat!KeyEmission
    <3>2. Chat!KeyEmission(w, thinking, ms).name = ToolName
      BY <1>4, <3>1
    <3>3. Chat!KeyEmission(w, thinking, ps).name = ToolName
      BY <1>5, <1>7, <3>1
    <3>4. Chat!NameOf(w.id, ms) = ToolName /\ Chat!NameOf(w.id, ps) = ToolName
      BY <3>1, <3>2, <3>3
    <3> QED BY <3>1, <3>4
  <2>2. CASE w.role # "tool"
    BY <2>2 DEF Chat!KeyEmission
  <2> QED BY <2>1, <2>2
<1>9. Len(F) = Len(V) /\ Len(E) = Len(W)
  BY <1>4, <1>5, <1>6
<1>10. ASSUME NEW z \in 1 .. Len(F) PROVE F[z] = E[z]
  <2>1. z \in 1 .. Len(V) /\ z \in 1 .. Len(W) /\ V[z] = W[z]
    BY <1>7, <1>9
  <2>2. F[z] = Chat!KeyEmission(V[z], thinking, ms) /\ E[z] = Chat!KeyEmission(W[z], thinking, ps)
    BY <1>4, <1>5, <1>6, <2>1
  <2> QED BY <1>8, <2>1, <2>2
<1>11. Pre(F, E)
  BY <1>4, <1>5, <1>7, <1>9, <1>10 DEF Pre
<1> QED BY <1>11 DEF F, E

RequestOf(p, ms) ==
  CASE p.wire = "chat"      -> Chat!ChatMessages(ms, p.echo, p.thinking)
    [] p.wire = "responses" -> Responses!ResponsesInput(ms, p.mode, IF p.thinking THEN {} ELSE {"none"})
    [] p.wire = "messages"  -> Anthropic!AnthropicMessages(ms)

LEMMA RequestPre ==
  ASSUME NEW p \in Provider,
         NEW ps \in Seq(Msg), NEW hs, History(hs), NEW K, NEW f, Thread(ps, hs, K, f),
         NEW k \in 1 .. Len(ps), ps[k].role = "user"
  PROVE  Pre(RequestOf(p, SubSeq(ps, 1, k)), RequestOf(p, ps))
<1> DEFINE ms == SubSeq(ps, 1, k)
<1>1. ms \in Seq(Msg) /\ Pre(ms, ps) /\ Len(ms) = k
  BY PreSub
<1> HIDE DEF ms
<1>2. p.wire \in {"chat", "responses", "messages"} /\ p.mode \in Responses!ReasoningMode
  BY DEF Provider
<1>3. CASE p.wire = "chat"
  <2>1. Pre(Chat!ChatMessages(ms, p.echo, p.thinking), Chat!ChatMessages(ps, p.echo, p.thinking))
    BY <1>1, ChatPre
  <2> QED BY <1>3, <2>1 DEF RequestOf, ms
<1>4. CASE p.wire = "responses"
  <2> DEFINE effort == IF p.thinking THEN {} ELSE {"none"}
  <2>1. Pre(Responses!ResponsesInput(ms, p.mode, effort), Responses!ResponsesInput(ps, p.mode, effort))
    <3> HIDE DEF effort
    <3> QED BY <1>1, <1>2, ResponsesPre
  <2> QED BY <1>4, <2>1 DEF RequestOf, ms
<1>5. CASE p.wire = "messages"
  <2>1. Pre(Anthropic!AnthropicMessages(ms), Anthropic!AnthropicMessages(ps))
    BY <1>1, MessagesPre
  <2> QED BY <1>5, <2>1 DEF RequestOf, ms
<1> QED BY <1>2, <1>3, <1>4, <1>5

-----------------------------------------------------------------------------
(* What the last request was made of is still in the prompt *)

Clean(m) == ~ SomeIn(m.content, LAMBDA b : b.block = "attachment")

AskedOf(s, p, ps, k) ==
  /\ ps[k].role = "user" /\ \A i \in 1 .. k : Clean(ps[i])
  /\ s = RequestOf(p, SubSeq(ps, 1, k))

AskedInv == sent # <<>> => \E k \in 1 .. Len(prompt) : AskedOf(sent, provider, prompt, k)

LEMMA AskedKept ==
  ASSUME AskedInv, NEW S, prompt \in Seq(S), prompt' \in Seq(S), Len(prompt) <= Len(prompt'),
         \A i \in 1 .. Len(prompt) : Clean(prompt[i]) => prompt'[i] = prompt[i],
         provider' = provider, sent' = sent
  PROVE  AskedInv'
<1> SUFFICES ASSUME sent' # <<>> PROVE \E k \in 1 .. Len(prompt') : AskedOf(sent', provider', prompt', k)
  BY DEF AskedInv
<1>1. PICK k \in 1 .. Len(prompt) : AskedOf(sent, provider, prompt, k)
  BY DEF AskedInv
<1>2. \A i \in 1 .. k : prompt'[i] = prompt[i]
  BY <1>1 DEF AskedOf
<1>3. k \in 1 .. Len(prompt') /\ prompt'[k] = prompt[k]
  BY <1>2
<1>4. SubSeq(prompt', 1, k) = SubSeq(prompt, 1, k)
  BY <1>2, <1>3
<1>5. AskedOf(sent', provider', prompt', k)
  BY <1>1, <1>2, <1>3, <1>4 DEF AskedOf
<1> QED BY <1>3, <1>5

LEMMA CleanIsLoaded ==
  ASSUME NEW m \in Msg, Clean(m)
  PROVE  Loaded(m) = m
<1>1. CASE m \in SpeechMsg
  <2>1. m = [role |-> m.role, content |-> m.content] /\ m.content \in Seq(SpeechBlk)
    BY <1>1 DEF SpeechMsg
  <2> DEFINE c == m.content
             d == [i \in DOMAIN c |-> IF c[i].block = "attachment" THEN Image(c[i].data) ELSE c[i]]
  <2>2. \A i \in DOMAIN c : c[i].block # "attachment"
    BY DEF Clean, SomeIn
  <2>3. d = c
    <3>1. c = [i \in DOMAIN c |-> c[i]]
      BY <2>1
    <3>2. \A i \in DOMAIN c : d[i] = c[i]
      BY <2>2
    <3> HIDE DEF c
    <3> QED BY <3>1, <3>2
  <2>4. Loaded(m) = [m EXCEPT !.content = d]
    BY <2>1 DEF Loaded
  <2> HIDE DEF d
  <2> QED BY <2>1, <2>3, <2>4
<1>2. CASE m \notin SpeechMsg
  BY <1>2, LoadedMsg
<1> QED BY <1>1, <1>2

LEMMA PushAsked ==
  ASSUME ConvInv, ConvInv', AskedInv, NEW m, prompt' = Append(prompt, m), provider' = provider, sent' = sent
  PROVE  AskedInv'
<1>1. prompt \in Seq(Msg) /\ prompt' \in Seq(Msg)
  BY DEF ConvInv
<1>2. Len(prompt) <= Len(prompt') /\ \A i \in 1 .. Len(prompt) : prompt'[i] = prompt[i]
  BY <1>1
<1> QED BY <1>1, <1>2, AskedKept

LEMMA SameAsked ==
  ASSUME ConvInv, AskedInv, prompt' = prompt, provider' = provider, sent' = sent
  PROVE  AskedInv'
<1>1. prompt \in Seq(Msg)
  BY DEF ConvInv
<1> QED BY <1>1, AskedKept

LEMMA MaterializeAsked ==
  ASSUME ConvInv, ConvInv', AskedInv, Materialize
  PROVE  AskedInv'
<1>1. prompt' = [i \in DOMAIN prompt |-> Loaded(prompt[i])] /\ provider' = provider /\ sent' = sent
  BY DEF Materialize
<1>2. prompt \in Seq(Msg) /\ prompt' \in Seq(Msg)
  BY DEF ConvInv
<1>3. Len(prompt) = Len(prompt') /\ \A i \in 1 .. Len(prompt) : prompt'[i] = Loaded(prompt[i]) /\ prompt[i] \in Msg
  BY <1>1, <1>2
<1>4. \A i \in 1 .. Len(prompt) : Clean(prompt[i]) => prompt'[i] = prompt[i]
  BY <1>3, CleanIsLoaded
<1> QED BY <1>1, <1>2, <1>3, <1>4, AskedKept

LEMMA SendAsked ==
  ASSUME ConvInv, Send
  PROVE  AskedInv'
<1> DEFINE n == Len(prompt)
<1>1. /\ prompt' = prompt /\ provider' = provider /\ sent' = Request
      /\ UserSpokeLast /\ AssertNoUnresolvedAttachments(prompt)
  BY DEF Send
<1>2. prompt \in Seq(Msg) /\ n \in Nat /\ DOMAIN prompt = 1 .. n
  BY InvFacts
<1>3. n \in 1 .. n /\ prompt[n].role = "user"
  BY <1>1, <1>2 DEF UserSpokeLast, LastOf
<1>4. \A i \in 1 .. n : Clean(prompt[i])
  BY <1>1, <1>2 DEF AssertNoUnresolvedAttachments, Clean
<1>5. SubSeq(prompt, 1, n) = prompt
  BY <1>2
<1>6. Request = RequestOf(provider, prompt)
  BY DEF Request, RequestOf
<1>7. AskedOf(sent', provider', prompt', n)
  BY <1>1, <1>3, <1>4, <1>5, <1>6 DEF AskedOf
<1> QED BY <1>1, <1>3, <1>7 DEF AskedInv

LEMMA StepAsked ==
  ASSUME ConvInv, ConvInv', AskedInv, [Next]_vars
  PROVE  AskedInv'
<1>1. CASE UserSays \/ RunTools \/ CancelTools \/ LoseTools
  <2>1. provider' = provider /\ sent' = sent /\ \E m : prompt' = Append(prompt, m)
    BY <1>1 DEF UserSays, RunTools, CancelTools, LoseTools, Push
  <2> QED BY <2>1, PushAsked
<1>2. CASE Receive
  <2>1. provider' = provider /\ sent' = sent /\ \E m : prompt' = Append(prompt, m)
    BY <1>2 DEF Receive
  <2> QED BY <2>1, PushAsked
<1>3. CASE Materialize
  BY <1>3, MaterializeAsked
<1>4. CASE SwitchProvider \/ CompactWith \/ AutoCompact
  <2>1. sent' = <<>>
    BY <1>4 DEF SwitchProvider, CompactWith, AutoCompact, Install
  <2> QED BY <2>1 DEF AskedInv
<1>5. CASE Send
  BY <1>5, SendAsked
<1>6. CASE Fail \/ UNCHANGED vars
  <2>1. prompt' = prompt /\ provider' = provider /\ sent' = sent
    BY <1>6 DEF Fail, vars
  <2> QED BY <2>1, SameAsked
<1> QED BY <1>1, <1>2, <1>3, <1>4, <1>5, <1>6 DEF Next

LEMMA SendGrows ==
  ASSUME ConvInv, AskedInv, Send
  PROVE  IsPrefix(sent, sent')
<1>1. sent' = RequestOf(provider, prompt) /\ UserSpokeLast
  BY DEF Send, Request, RequestOf
<1>2. /\ prompt \in Seq(Msg) /\ Len(prompt) \in Nat /\ History(history) /\ \E K, f : Thread(prompt, history, K, f)
      /\ provider \in Provider
  BY InvFacts, ProvidersAssumption DEF ConvInv, ThreadInv
<1>3. ASSUME NEW k \in 1 .. Len(prompt), prompt[k].role = "user"
      PROVE  Pre(RequestOf(provider, SubSeq(prompt, 1, k)), RequestOf(provider, prompt))
  BY <1>2, <1>3, RequestPre
<1>4. CASE sent = <<>>
  <2>1. Len(prompt) \in 1 .. Len(prompt) /\ prompt[Len(prompt)].role = "user"
    BY <1>1, <1>2 DEF UserSpokeLast, LastOf
  <2>2. Len(sent') \in Nat
    BY <1>1, <1>3, <2>1 DEF Pre
  <2>3. Pre(<<>>, sent')
    BY <2>2 DEF Pre
  <2> QED BY <1>4, <2>3, PrePrefix
<1>5. CASE sent # <<>>
  <2>1. PICK k \in 1 .. Len(prompt) : AskedOf(sent, provider, prompt, k)
    BY <1>5 DEF AskedInv
  <2>2. Pre(sent, sent')
    BY <1>1, <1>3, <2>1 DEF AskedOf
  <2> QED BY <2>2, PrePrefix
<1> QED BY <1>4, <1>5

(* A request begins with the whole request before it, as long as the       *)
(* messages are not compacted and the provider is not another: what        *)
(* sanitize_tool_pairing, apply_key_emission and sanitize_input_items make *)
(* of a prompt they make of the beginning of every longer one.             *)
THEOREM PromptGrows == Spec => PromptOnlyGrows
<1>1. Init => AskedInv
  BY DEF Init, AskedInv
<1>2. ConvInv /\ ConvInv' /\ AskedInv /\ [Next]_vars => AskedInv'
  BY StepAsked
<1>3. ConvInv /\ AskedInv /\ [Next]_vars => [~awaiting /\ awaiting' => IsPrefix(sent, sent')]_vars
  <2> SUFFICES ASSUME ConvInv, AskedInv, Next, ~ awaiting, awaiting'
               PROVE  IsPrefix(sent, sent')
    OBVIOUS
  <2>1. Send
    BY DEF Next, UserSays, RunTools, CancelTools, LoseTools, Push, Materialize, SwitchProvider,
           Receive, Fail, CompactWith, AutoCompact, Install
  <2> QED BY <2>1, SendGrows
<1> QED BY <1>1, <1>2, <1>3, ConversationHangsTogether, PTL DEF Spec, PromptOnlyGrows
=============================================================================
