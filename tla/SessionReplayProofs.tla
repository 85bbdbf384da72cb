------------------------ MODULE SessionReplayProofs ------------------------
(***************************************************************************)
(* What load makes of a log, for logs of any length: first for every log   *)
(* of records, by induction over its lines; then for the application that  *)
(* writes it, restarts included.                                           *)
(***************************************************************************)
EXTENDS SessionReplay, SequenceTheorems, FiniteSetTheorems, WellFoundedInduction, Integers,
        TLAPS

-----------------------------------------------------------------------------
(* Walking over the lines *)

(* A set of numbers has a least one, and so induction over sets of numbers *)
(* holds.                                                                  *)
LEMMA LeastNumber ==
  ASSUME NEW T \in SUBSET Nat, T # {}
  PROVE  \E n \in T : \A m \in T : n <= m
<1> DEFINE R == OpToRel(<, Nat)
<1>1. IsWellFoundedOn(R, Nat)
  BY NatLessThanWellFounded, Zenon
<1>2. \A x, y \in Nat : <<y, x>> \in R <=> y < x
  BY DEF OpToRel
<1> HIDE DEF R
<1>3. PICK n \in T : \A m \in T : ~ (<<m, n>> \in R)
  <2>1. \E n \in T : \A m \in T : ~ (<<m, n>> \in R)
    BY <1>1, WFMin
  <2> QED BY <2>1
<1>4. \A m \in T : ~ (m < n)
  BY <1>2, <1>3
<1> QED BY <1>4

LEMMA InductionOnNat ==
  ASSUME NEW S \in SUBSET Nat, 0 \in S, \A n \in S : n + 1 \in S
  PROVE  S = Nat
<1> SUFFICES ASSUME Nat \ S # {} PROVE FALSE
  OBVIOUS
<1>1. PICK n \in Nat \ S : \A m \in Nat \ S : n <= m
  BY LeastNumber
<1>2. n - 1 \in Nat /\ n - 1 < n
  BY <1>1
<1>3. n - 1 \in S
  BY <1>1, <1>2
<1> QED BY <1>1, <1>2, <1>3

(* Max, which the library defines by a choice.                             *)
LEMMA MaxOfPlaces ==
  ASSUME NEW n \in Nat, NEW s \in SUBSET (1 .. n), s # {}
  PROVE  Max(s) \in s /\ \A i \in s : i <= Max(s)
<1> DEFINE T == {m \in 0 .. n : n - m \in s}
<1>1. T # {} /\ T \subseteq Nat
  <2>1. PICK i \in s : TRUE
    OBVIOUS
  <2>2. i \in 1 .. n /\ n - i \in 0 .. n /\ n - (n - i) = i
    BY <2>1
  <2>3. n - i \in T
    BY <2>1, <2>2
  <2>4. T \subseteq Nat
    OBVIOUS
  <2> QED BY <2>3, <2>4, Zenon
<1>2. PICK m \in T : \A k \in T : m <= k
  <2> HIDE DEF T
  <2> QED BY <1>1, LeastNumber
<1>3. n - m \in s /\ \A i \in s : n - m >= i
  <2>1. \A i \in s : n - i \in T
    OBVIOUS
  <2> QED BY <1>2, <2>1
<1> HIDE DEF T
<1>4. Max(s) = CHOOSE x \in s : \A y \in s : x >= y
  BY DEF Max
<1>5. Max(s) \in s /\ \A y \in s : Max(s) >= y
  BY <1>3, <1>4
<1> QED BY <1>5

(* The function FoldLeft folds with is one that exists: on sets of places   *)
(* up to k it can be told from the one on sets of places up to k - 1.       *)
IsFold(it, c, ls, k) ==
  it = [s \in SUBSET (1 .. k) |->
          IF s = {} THEN EmptyView ELSE Fold(c, it[s \ {Max(s)}], ls[Max(s)])]

LEMMA FoldExists ==
  ASSUME NEW c, NEW ls
  PROVE  \A n \in Nat : \E it : IsFold(it, c, ls, n)
<1> DEFINE S == {n \in Nat : \E it : IsFold(it, c, ls, n)}
<1>1. 0 \in S
  <2> DEFINE it == [s \in SUBSET (1 .. 0) |-> EmptyView]
  <2>1. \A s \in SUBSET (1 .. 0) : s = {}
    OBVIOUS
  <2>2. IsFold(it, c, ls, 0)
    BY <2>1 DEF IsFold
  <2> QED BY <2>2
<1>2. ASSUME NEW n \in S PROVE n + 1 \in S
  <2>1. PICK it : IsFold(it, c, ls, n)
    OBVIOUS
  <2> DEFINE jt == [s \in SUBSET (1 .. n + 1) |->
                      IF n + 1 \in s THEN Fold(c, it[s \ {n + 1}], ls[n + 1]) ELSE it[s]]
  <2>2. ASSUME NEW s \in SUBSET (1 .. n + 1)
        PROVE  jt[s] = IF s = {} THEN EmptyView ELSE Fold(c, jt[s \ {Max(s)}], ls[Max(s)])
    <3>1. CASE n + 1 \in s
      <4>1. Max(s) = n + 1
        <5>1. Max(s) \in s /\ \A i \in s : i <= Max(s)
          BY <3>1, MaxOfPlaces
        <5>2. Max(s) \in 1 .. n + 1 /\ n + 1 <= Max(s)
          BY <3>1, <5>1
        <5>3. n \in Nat
          OBVIOUS
        <5> QED BY <5>2, <5>3
      <4>2. s \ {n + 1} \in SUBSET (1 .. n + 1) /\ n + 1 \notin s \ {n + 1}
        OBVIOUS
      <4>3. jt[s \ {n + 1}] = it[s \ {n + 1}]
        BY <4>2, Zenon
      <4>4. jt[s] = Fold(c, it[s \ {n + 1}], ls[n + 1])
        BY <3>1, Zenon
      <4> QED BY <3>1, <4>1, <4>3, <4>4, Zenon
    <3>2. CASE n + 1 \notin s
      <4>1. s \in SUBSET (1 .. n)
        BY <3>2
      <4>2. jt[s] = it[s]
        BY <3>2, Zenon
      <4>3. it[s] = IF s = {} THEN EmptyView ELSE Fold(c, it[s \ {Max(s)}], ls[Max(s)])
        BY <2>1, <4>1, Zenon DEF IsFold
      <4>4. s \ {Max(s)} \in SUBSET (1 .. n + 1) /\ n + 1 \notin s \ {Max(s)}
        BY <3>2
      <4>5. jt[s \ {Max(s)}] = it[s \ {Max(s)}]
        BY <4>4, Zenon
      <4> QED BY <4>2, <4>3, <4>5, Zenon
    <3> QED BY <3>1, <3>2
  <2>3. IsFold(jt, c, ls, n + 1)
    <3>1. jt = [s \in SUBSET (1 .. n + 1) |-> jt[s]]
      BY Zenon
    <3>2. [s \in SUBSET (1 .. n + 1) |-> jt[s]]
            = [s \in SUBSET (1 .. n + 1) |->
                 IF s = {} THEN EmptyView ELSE Fold(c, jt[s \ {Max(s)}], ls[Max(s)])]
      <4> HIDE DEF jt
      <4> QED BY <2>2, Zenon
    <3> HIDE DEF jt
    <3> QED BY <3>1, <3>2, Zenon DEF IsFold
  <2> QED BY <2>3
<1>3. S = Nat
  <2> HIDE DEF S
  <2> QED BY <1>1, <1>2, InductionOnNat DEF S
<1> QED BY <1>3

(* load looks at one line after the other.                                 *)
LEMMA ReplayByLine ==
  ASSUME NEW ls, NEW n \in Nat, DOMAIN ls = 1 .. n
  PROVE  \E views : /\ views[0] = EmptyView
                    /\ views[n] = Replay(ls)
                    /\ \A k \in 1 .. n : views[k] = Fold(CancelledOps(ls), views[k - 1], ls[k])
<1> DEFINE c  == CancelledOps(ls)
           it == CHOOSE it : IsFold(it, c, ls, n)
<1>1. Replay(ls) = it[1 .. n]
  BY DEF Replay, FoldLeft, MapThenFoldSet, IsFold
<1>2. IsFold(it, c, ls, n)
  BY FoldExists
<1> HIDE DEF it
<1> DEFINE views == [k \in 0 .. n |-> it[1 .. k]]
<1>3. views[0] = EmptyView
  BY <1>2 DEF IsFold
<1>4. ASSUME NEW k \in 1 .. n PROVE views[k] = Fold(c, views[k - 1], ls[k])
  <2>0. k \in Nat /\ 1 <= k /\ k <= n /\ k \in 1 .. k
    OBVIOUS
  <2>1. Max(1 .. k) = k
    <3>0. 1 .. k \in SUBSET (1 .. k) /\ 1 .. k # {}
      BY <2>0
    <3>1. Max(1 .. k) \in 1 .. k /\ \A i \in 1 .. k : i <= Max(1 .. k)
      BY <2>0, <3>0, MaxOfPlaces
    <3> QED BY <2>0, <3>1
  <2>2. (1 .. k) \ {k} = 1 .. k - 1 /\ k - 1 \in 0 .. n /\ k \in 0 .. n
    OBVIOUS
  <2>3. 1 .. k \in SUBSET (1 .. n) /\ 1 .. k # {}
    BY <2>0
  <2>4. it[1 .. k] = Fold(c, it[(1 .. k) \ {Max(1 .. k)}], ls[Max(1 .. k)])
    BY <1>2, <2>3, Zenon DEF IsFold
  <2> QED BY <2>1, <2>2, <2>4
<1>5. views[n] = Replay(ls)
  BY <1>1
<1> QED BY <1>3, <1>4, <1>5

-----------------------------------------------------------------------------
(* Records *)

(* Every line is a record, and messages are messages.                      *)
LogOK == lines \in Seq(LogRecord)

LEMMA RecordFields ==
  ASSUME NEW r \in LogRecord
  PROVE  /\ r.kind \in {"meta", "message", "snapshot", "projection", "usage", "tool",
                        "note", "stage", "cancel"}
         /\ r.kind = "message" => r.message \in Messages
         /\ r.kind = "snapshot" => r.messages \in Seq(Messages)
         /\ r.kind = "projection" => r.option \in SUBSET Seq(Messages)
         /\ r.kind = "usage" => r.tokens \in Nat
         /\ r.kind = "stage" => r.op \in Operations /\ r.message \in Messages
         /\ r.kind = "cancel" => r.op \in Operations
BY DEF LogRecord, Meta, Tool, Note

-----------------------------------------------------------------------------
(* Which lines speak, one line after the other. *)

Places(m, n) == {i \in m + 1 .. n : Speaks(i)}

LEMMA PlacesFinite ==
  ASSUME NEW m \in Nat, NEW n \in Nat
  PROVE  /\ IsFiniteSet(Places(m, n)) /\ Cardinality(Places(m, n)) \in Nat
         /\ Places(m, n) \in SUBSET (1 .. n)
         /\ Places(m, m) = {}
<1>1. Places(m, n) \in SUBSET (1 .. n) /\ Places(m, m) = {}
  BY DEF Places
<1>2. IsFiniteSet(1 .. n)
  BY FS_Interval
<1> QED BY <1>1, <1>2, FS_Subset, FS_CardinalityType

LEMMA SpokenByPlace ==
  ASSUME NEW m \in Nat, NEW n \in Nat
  PROVE  LET Nth(k) == Max({i \in Places(m, n) : Cardinality({j \in Places(m, n) : j <= i}) <= k})
         IN Spoken(m, n) = [k \in 1 .. Cardinality(Places(m, n)) |-> lines[Nth(k)].message]
BY DEF Spoken, Places

LEMMA NothingSpoken ==
  ASSUME NEW m \in Nat
  PROVE  Spoken(m, m) = <<>>
<1>1. Cardinality(Places(m, m)) = 0
  BY PlacesFinite, FS_EmptySet
<1>2. 1 .. 0 = {}
  OBVIOUS
<1> QED BY <1>1, <1>2, SpokenByPlace

LEMMA PlacesSame ==
  ASSUME NEW m \in Nat, NEW n \in Nat, ~ Speaks(n + 1)
  PROVE  Places(m, n + 1) = Places(m, n)
BY DEF Places

LEMMA PlacesGrow ==
  ASSUME NEW m \in Nat, NEW n \in Nat, m <= n, Speaks(n + 1)
  PROVE  /\ Places(m, n + 1) = Places(m, n) \cup {n + 1}
         /\ Cardinality(Places(m, n + 1)) = Cardinality(Places(m, n)) + 1
<1>1. Places(m, n + 1) = Places(m, n) \cup {n + 1} /\ n + 1 \notin Places(m, n)
  BY DEF Places
<1> QED BY <1>1, PlacesFinite, FS_AddElement

(* The message of a line that speaks comes after those before it.          *)
LEMMA SpokenGrows ==
  ASSUME NEW m \in Nat, NEW n \in Nat, m <= n, Speaks(n + 1),
         NEW S, Spoken(m, n) \in Seq(S), lines[n + 1].message \in S
  PROVE  Spoken(m, n + 1) = Append(Spoken(m, n), lines[n + 1].message)
<1> DEFINE P == Places(m, n)
           Q == Places(m, n + 1)
           c == Cardinality(P)
           UpToP(k) == {i \in P : Cardinality({j \in P : j <= i}) <= k}
           UpToQ(k) == {i \in Q : Cardinality({j \in Q : j <= i}) <= k}
<1>1. Q = P \cup {n + 1} /\ Cardinality(Q) = c + 1 /\ c \in Nat /\ n + 1 \notin P
  <2>1. n + 1 \notin P
    BY DEF Places
  <2> QED BY <2>1, PlacesGrow, PlacesFinite
<1>2. /\ P \in SUBSET (1 .. n) /\ Q \in SUBSET (1 .. n + 1) /\ IsFiniteSet(Q)
      /\ n + 1 \in Nat /\ \A i \in Q : i <= n + 1
  <2>1. n + 1 \in Nat
    OBVIOUS
  <2>2. Q \in SUBSET (1 .. n + 1) /\ IsFiniteSet(Q)
    BY <2>1, PlacesFinite
  <2> HIDE DEF Q
  <2>3. \A i \in Q : i <= n + 1
    BY <2>2
  <2> QED BY <2>1, <2>2, <2>3, PlacesFinite
<1>3. /\ Spoken(m, n) = [k \in 1 .. c |-> lines[Max(UpToP(k))].message]
      /\ Spoken(m, n + 1) = [k \in 1 .. c + 1 |-> lines[Max(UpToQ(k))].message]
  <2>1. n + 1 \in Nat
    OBVIOUS
  <2>2. Cardinality(Places(m, n + 1)) = c + 1
    BY <1>1
  <2>3. Spoken(m, n) = [k \in 1 .. c |-> lines[Max(UpToP(k))].message]
    BY SpokenByPlace
  <2>4. Spoken(m, n + 1) =
          [k \in 1 .. Cardinality(Places(m, n + 1)) |-> lines[Max(UpToQ(k))].message]
    BY <2>1, SpokenByPlace
  <2> QED BY <2>2, <2>3, <2>4
<1> HIDE DEF P, Q, c
<1>4. ASSUME NEW k \in 1 .. c PROVE UpToQ(k) = UpToP(k)
  <2>1. ASSUME NEW i \in P PROVE {j \in Q : j <= i} = {j \in P : j <= i}
    BY <1>1, <1>2
  <2>2. {j \in Q : j <= n + 1} = Q
    BY <1>2
  <2>3. ~ (Cardinality({j \in Q : j <= n + 1}) <= k)
    <3>1. ~ (c + 1 <= k)
      BY <1>1
    <3> QED BY <1>1, <2>2, <3>1
  <2>4. n + 1 \notin UpToQ(k)
    BY <2>3
  <2> QED BY <1>1, <2>1, <2>4
<1>5. Max(UpToQ(c + 1)) = n + 1
  <2>1. ASSUME NEW i \in Q PROVE Cardinality({j \in Q : j <= i}) <= c + 1
    BY <1>1, <1>2, FS_Subset
  <2>2. UpToQ(c + 1) = Q
    BY <2>1
  <2>3. Q # {} /\ n + 1 \in Q
    BY <1>1
  <2>4. Max(Q) \in Q /\ \A i \in Q : i <= Max(Q)
    BY <1>2, <2>3, MaxOfPlaces
  <2>5. Max(Q) \in 1 .. n + 1 /\ n + 1 <= Max(Q)
    BY <1>2, <2>3, <2>4
  <2>6. Max(Q) = n + 1
    BY <2>5
  <2> QED BY <2>2, <2>6
<1> DEFINE s == Spoken(m, n)
           t == Spoken(m, n + 1)
           x == lines[n + 1].message
<1> HIDE DEF UpToP, UpToQ
<1>6. ASSUME NEW k \in 1 .. c PROVE t[k] = s[k]
  <2>1. k \in 1 .. c + 1
    BY <1>1
  <2> QED BY <1>3, <1>4, <2>1
<1>7. t[c + 1] = x
  <2>1. c + 1 \in 1 .. c + 1
    BY <1>1
  <2> QED BY <1>3, <1>5, <2>1
<1>8. DOMAIN s = 1 .. c /\ DOMAIN t = 1 .. c + 1 /\ t = [k \in 1 .. c + 1 |-> t[k]]
  BY <1>3
<1> HIDE DEF s, t, x
<1>9. s \in Seq(S) /\ x \in S
  BY DEF s, x
<1>10. Len(s) = c
  BY <1>1, <1>8, <1>9, LenProperties
<1>11. /\ Append(s, x) \in Seq(S) /\ Len(Append(s, x)) = c + 1
       /\ \A k \in 1 .. c : Append(s, x)[k] = s[k]
       /\ Append(s, x)[c + 1] = x
  BY <1>9, <1>10, AppendProperties
<1>12. t \in Seq(S) /\ Len(t) = c + 1
  <2>1. \A k \in 1 .. c : s[k] \in S
    BY <1>9, <1>10, ElementOfSeq
  <2>2. \A k \in 1 .. c + 1 : t[k] \in S
    <3>1. \A k \in 1 .. c + 1 : k \in 1 .. c \/ k = c + 1
      BY <1>1
    <3> QED BY <1>6, <1>7, <1>9, <2>1, <3>1
  <2>3. c + 1 \in Nat
    BY <1>1
  <2> QED BY <1>8, <2>2, <2>3
<1>13. \A k \in 1 .. c + 1 : t[k] = Append(s, x)[k]
  <2>1. \A k \in 1 .. c + 1 : k \in 1 .. c \/ k = c + 1
    BY <1>1
  <2> QED BY <1>6, <1>7, <1>11, <2>1
<1>14. t = Append(s, x)
  BY <1>11, <1>12, <1>13, SeqEqual
<1> QED BY <1>14 DEF s, t, x

LEMMA SpokenType ==
  ASSUME LogOK, NEW m \in Nat
  PROVE  \A n \in m .. Len(lines) : Spoken(m, n) \in Seq(Messages)
<1> DEFINE S == {k \in Nat : m + k <= Len(lines) => Spoken(m, m + k) \in Seq(Messages)}
<1>1. 0 \in S
  <2>1. m + 0 = m
    OBVIOUS
  <2>2. Spoken(m, m) \in Seq(Messages)
    BY NothingSpoken, EmptySeq
  <2> QED BY <2>1, <2>2
<1>2. ASSUME NEW k \in S PROVE k + 1 \in S
  <2> SUFFICES ASSUME m + (k + 1) <= Len(lines)
               PROVE  Spoken(m, m + (k + 1)) \in Seq(Messages)
    OBVIOUS
  <2> DEFINE n == m + k
  <2>1. n \in Nat /\ m <= n /\ m + (k + 1) = n + 1 /\ n + 1 <= Len(lines)
    OBVIOUS
  <2>2. Spoken(m, n) \in Seq(Messages)
    BY <2>1 DEF LogOK
  <2> HIDE DEF n
  <2>3. CASE Speaks(n + 1)
    <3>1. n + 1 \in 1 .. Len(lines)
      BY <2>1 DEF LogOK
    <3>2. lines[n + 1] \in LogRecord
      BY <3>1 DEF LogOK
    <3>3. lines[n + 1].message \in Messages
      BY <2>3, <3>2, RecordFields DEF Speaks
    <3>4. Spoken(m, n + 1) = Append(Spoken(m, n), lines[n + 1].message)
      BY <2>1, <2>2, <2>3, <3>3, SpokenGrows
    <3>5. Append(Spoken(m, n), lines[n + 1].message) \in Seq(Messages)
      BY <2>2, <3>3, AppendProperties
    <3> QED BY <2>1, <3>4, <3>5
  <2>4. CASE ~ Speaks(n + 1)
    <3>1. Places(m, n + 1) = Places(m, n)
      BY <2>1, <2>4, PlacesSame
    <3>2. Spoken(m, n + 1) = Spoken(m, n)
      BY <3>1 DEF Spoken, Places
    <3> QED BY <2>1, <2>2, <3>2
  <2> QED BY <2>3, <2>4
<1>3. S = Nat
  <2> HIDE DEF S
  <2> QED BY <1>1, <1>2, InductionOnNat DEF S
<1>4. ASSUME NEW n \in m .. Len(lines) PROVE Spoken(m, n) \in Seq(Messages)
  <2>1. Len(lines) \in Nat
    BY DEF LogOK
  <2>2. n - m \in Nat /\ m + (n - m) = n /\ n <= Len(lines)
    BY <2>1
  <2>3. n - m \in S
    BY <1>3, <2>2
  <2> QED BY <2>2, <2>3
<1> QED BY <1>4

(* What one line more does to what was said, in one fact.                  *)
LEMMA SpokenStep ==
  ASSUME LogOK, NEW m \in Nat, NEW n \in Nat, m <= n, n + 1 <= Len(lines)
  PROVE  /\ Spoken(m, n) \in Seq(Messages)
         /\ Speaks(n + 1) => /\ lines[n + 1].message \in Messages
                             /\ Spoken(m, n + 1) = Append(Spoken(m, n), lines[n + 1].message)
         /\ ~ Speaks(n + 1) => Spoken(m, n + 1) = Spoken(m, n)
<1>1. n \in m .. Len(lines) /\ n + 1 \in 1 .. Len(lines)
  BY DEF LogOK
<1>2. Spoken(m, n) \in Seq(Messages)
  BY <1>1, SpokenType
<1>3. CASE Speaks(n + 1)
  <2>1. lines[n + 1] \in LogRecord
    BY <1>1 DEF LogOK
  <2>2. lines[n + 1].message \in Messages
    BY <1>3, <2>1, RecordFields DEF Speaks
  <2> QED BY <1>2, <1>3, <2>2, SpokenGrows
<1>4. CASE ~ Speaks(n + 1)
  <2>1. Places(m, n + 1) = Places(m, n)
    BY <1>4, PlacesSame
  <2>2. Spoken(m, n + 1) = Spoken(m, n)
    BY <2>1 DEF Spoken, Places
  <2> QED BY <1>2, <1>4, <2>2
<1> QED BY <1>3, <1>4

-----------------------------------------------------------------------------
(* The last line of a kind, one line after the other. *)

LastUpTo(kinds, n) ==
  LET places == {i \in 1 .. n : lines[i].kind \in kinds}
  IN IF places = {} THEN 0 ELSE Max(places)

LEMMA LastStep ==
  ASSUME NEW kinds, NEW n \in Nat
  PROVE  /\ LastUpTo(kinds, 0) = 0
         /\ LastUpTo(kinds, n) \in 0 .. n
         /\ LastUpTo(kinds, n) # 0 => lines[LastUpTo(kinds, n)].kind \in kinds
         /\ LastUpTo(kinds, n + 1) =
              IF lines[n + 1].kind \in kinds THEN n + 1 ELSE LastUpTo(kinds, n)
<1> DEFINE P == {i \in 1 .. n : lines[i].kind \in kinds}
           Q == {i \in 1 .. n + 1 : lines[i].kind \in kinds}
<1>1. LastUpTo(kinds, 0) = 0
  <2>1. {i \in 1 .. 0 : lines[i].kind \in kinds} = {}
    OBVIOUS
  <2> QED BY <2>1 DEF LastUpTo
<1>2. /\ LastUpTo(kinds, n) = IF P = {} THEN 0 ELSE Max(P)
      /\ LastUpTo(kinds, n + 1) = IF Q = {} THEN 0 ELSE Max(Q)
  BY DEF LastUpTo
<1>3. P \in SUBSET (1 .. n) /\ Q \in SUBSET (1 .. n + 1) /\ n + 1 \in Nat
  OBVIOUS
<1>4. P # {} => Max(P) \in P /\ Max(P) \in 0 .. n
  <2> HIDE DEF P
  <2>1. P # {} => Max(P) \in P
    BY <1>3, MaxOfPlaces
  <2>2. \A i \in P : i \in 0 .. n
    BY <1>3
  <2> QED BY <2>1, <2>2
<1>5. CASE lines[n + 1].kind \in kinds
  <2>1. n + 1 \in Q
    BY <1>5
  <2> HIDE DEF P, Q
  <2>2. Max(Q) \in Q /\ \A i \in Q : i <= Max(Q)
    BY <1>3, <2>1, MaxOfPlaces
  <2>3. Max(Q) \in 1 .. n + 1 /\ n + 1 <= Max(Q)
    BY <1>3, <2>1, <2>2
  <2>4. Max(Q) = n + 1
    BY <2>3
  <2>5. LastUpTo(kinds, n) \in 0 .. n
    BY <1>2, <1>4
  <2> QED BY <1>1, <1>2, <1>4, <1>5, <2>1, <2>4, <2>5 DEF P
<1>6. CASE lines[n + 1].kind \notin kinds
  <2>1. Q = P
    BY <1>6
  <2>2. LastUpTo(kinds, n) \in 0 .. n
    BY <1>2, <1>3, <1>4
  <2> QED BY <1>1, <1>2, <1>4, <1>6, <2>1, <2>2
<1> QED BY <1>5, <1>6

-----------------------------------------------------------------------------
(* The view after n lines, said of the log: what load has folded by then. *)

BaseOf(n) == LastUpTo({"snapshot"}, n)

Transcript(n) ==
  (IF BaseOf(n) = 0 THEN <<>> ELSE lines[BaseOf(n)].messages) \o Spoken(BaseOf(n), n)

ModelBaseOf(n) == LastUpTo({"snapshot", "projection"}, n)

Projected(n) ==
  IF ModelBaseOf(n) = 0 \/ lines[ModelBaseOf(n)].kind = "snapshot" THEN None
  ELSE {p \o Spoken(ModelBaseOf(n), n) : p \in lines[ModelBaseOf(n)].option}

StagedBy(op, n) == \E i \in 1 .. n : lines[i].kind = "stage" /\ lines[i].op = op

Materialized(n) == {op \in Operations : StagedBy(op, n) /\ ~ CancelledIn(lines, op)}

Counted(kind, n) == Cardinality({i \in 1 .. n : lines[i].kind = kind})

ViewAt(n) ==
  [meta |-> \E i \in 1 .. n : lines[i].kind = "meta",
   messages |-> Transcript(n), projection |-> Projected(n),
   usage |-> Counted("usage", n) % WordSize, tools |-> Counted("tool", n) % WordSize,
   materialized |-> Materialized(n)]

(* The application records usage one token at a time.                      *)
UsageOK == \A i \in 1 .. Len(lines) : lines[i].kind = "usage" => lines[i].tokens = 1

(* A line speaks that is a message, or stages an operation that is not     *)
(* cancelled and not materialized yet.                                     *)
LEMMA SpeaksStep ==
  ASSUME LogOK, NEW n \in Nat, n + 1 <= Len(lines)
  PROVE  /\ Speaks(n + 1) <=>
              \/ lines[n + 1].kind = "message"
              \/ lines[n + 1].kind = "stage"
                 /\ lines[n + 1].op \notin CancelledOps(lines) \cup Materialized(n)
         /\ Materialized(n + 1) = IF lines[n + 1].kind = "stage" /\ Speaks(n + 1)
                                  THEN Materialized(n) \cup {lines[n + 1].op}
                                  ELSE Materialized(n)
<1> DEFINE r == lines[n + 1]
<1>1. n + 1 \in 1 .. Len(lines) /\ Len(lines) \in Nat /\ lines \in Seq(LogRecord)
  BY DEF LogOK
<1>2. r \in LogRecord
  BY <1>1
<1>3. SubSeq(lines, 1, n + 1 - 1) = SubSeq(lines, 1, n)
  BY <1>1
<1>4. /\ Len(SubSeq(lines, 1, n)) = n
      /\ \A i \in 1 .. n : SubSeq(lines, 1, n)[i] = lines[i]
  BY <1>1
<1>5. \A op : StagedIn(SubSeq(lines, 1, n + 1 - 1), op) <=> StagedBy(op, n)
  BY <1>3, <1>4 DEF StagedIn, StagedBy
<1>6. \A op \in Operations : op \in CancelledOps(lines) <=> CancelledIn(lines, op)
  BY DEF CancelledOps
<1>7. r.kind = "stage" => r.op \in Operations
  BY <1>2, RecordFields
<1>8. Speaks(n + 1) <=> \/ r.kind = "message"
                        \/ r.kind = "stage" /\ ~ CancelledIn(lines, r.op) /\ ~ StagedBy(r.op, n)
  BY <1>5 DEF Speaks
<1>9. \A op : StagedBy(op, n + 1) <=> (StagedBy(op, n) \/ (r.kind = "stage" /\ r.op = op))
  <2>1. \A i \in 1 .. n + 1 : i \in 1 .. n \/ i = n + 1
    OBVIOUS
  <2>2. 1 .. n \subseteq 1 .. n + 1 /\ n + 1 \in 1 .. n + 1
    OBVIOUS
  <2> DEFINE Stages(op, i) == lines[i].kind = "stage" /\ lines[i].op = op
  <2>3. \A op : (\E i \in 1 .. n + 1 : Stages(op, i))
                  <=> ((\E i \in 1 .. n : Stages(op, i)) \/ Stages(op, n + 1))
    <3> HIDE DEF Stages
    <3> QED BY <2>1, <2>2, Zenon
  <2> QED BY <2>3 DEF StagedBy
<1> HIDE DEF r
<1>10. r.kind = "message" => r.kind # "stage"
  OBVIOUS
<1>11. Speaks(n + 1) <=> \/ r.kind = "message"
                         \/ r.kind = "stage" /\ r.op \notin CancelledOps(lines) \cup Materialized(n)
  BY <1>6, <1>7, <1>8 DEF Materialized
<1>12. Materialized(n + 1) = IF r.kind = "stage" /\ Speaks(n + 1)
                             THEN Materialized(n) \cup {r.op} ELSE Materialized(n)
  <2> DEFINE M(k) == {op \in Operations : StagedBy(op, k) /\ ~ CancelledIn(lines, op)}
  <2>1. CASE r.kind = "stage" /\ Speaks(n + 1)
    <3>1. ~ CancelledIn(lines, r.op) /\ r.op \in Operations
      BY <1>7, <1>8, <1>10, <2>1
    <3>2. \A op \in Operations : op \in M(n + 1) <=> op \in M(n) \cup {r.op}
      BY <1>9, <2>1, <3>1
    <3> QED BY <2>1, <3>1, <3>2 DEF Materialized
  <2>2. CASE ~ (r.kind = "stage" /\ Speaks(n + 1))
    <3>1. r.kind = "stage" => CancelledIn(lines, r.op) \/ StagedBy(r.op, n)
      BY <1>8, <2>2
    <3>2. \A op \in Operations : op \in M(n + 1) <=> op \in M(n)
      BY <1>9, <3>1
    <3> QED BY <2>2, <3>2 DEF Materialized
  <2> QED BY <2>1, <2>2
<1> QED BY <1>11, <1>12 DEF r

LEMMA AppendToConcat ==
  ASSUME NEW S, NEW s \in Seq(S), NEW t \in Seq(S), NEW x \in S
  PROVE  s \o Append(t, x) = Append(s \o t, x)
OBVIOUS

LEMMA ConcatNothing ==
  ASSUME NEW S, NEW s \in Seq(S)
  PROVE  s \o <<>> = s /\ <<>> \o s = s
BY ConcatEmptySeq

(* The transcript after one line more.                                     *)
LEMMA TranscriptStep ==
  ASSUME LogOK, NEW n \in Nat, n + 1 <= Len(lines)
  PROVE  /\ Transcript(n) \in Seq(Messages)
         /\ Speaks(n + 1) => /\ lines[n + 1].message \in Messages
                             /\ Transcript(n + 1) = Append(Transcript(n), lines[n + 1].message)
         /\ lines[n + 1].kind = "snapshot" => Transcript(n + 1) = lines[n + 1].messages
         /\ ~ Speaks(n + 1) /\ lines[n + 1].kind # "snapshot" =>
              Transcript(n + 1) = Transcript(n)
<1> DEFINE b == BaseOf(n)
           start == IF b = 0 THEN <<>> ELSE lines[b].messages
<1>1. /\ b \in 0 .. n /\ (b # 0 => lines[b].kind = "snapshot")
      /\ BaseOf(n + 1) = IF lines[n + 1].kind = "snapshot" THEN n + 1 ELSE b
  BY LastStep DEF BaseOf
<1>2. Len(lines) \in Nat /\ b \in Nat /\ b <= n /\ (b # 0 => b \in 1 .. Len(lines))
  BY <1>1 DEF LogOK
<1> HIDE DEF b
<1>3. start \in Seq(Messages)
  <2>1. CASE b = 0
    BY <2>1, EmptySeq
  <2>2. CASE b # 0
    <3>1. lines[b] \in LogRecord
      BY <1>2, <2>2 DEF LogOK
    <3> QED BY <1>1, <2>2, <3>1, RecordFields
  <2> QED BY <2>1, <2>2
<1>4. /\ Spoken(b, n) \in Seq(Messages)
      /\ Speaks(n + 1) => /\ lines[n + 1].message \in Messages
                          /\ Spoken(b, n + 1) = Append(Spoken(b, n), lines[n + 1].message)
      /\ ~ Speaks(n + 1) => Spoken(b, n + 1) = Spoken(b, n)
  BY <1>2, SpokenStep
<1>5. Transcript(n) = start \o Spoken(b, n)
  BY DEF Transcript, b
<1>6. Transcript(n) \in Seq(Messages)
  BY <1>3, <1>4, <1>5, ConcatProperties
<1>7. CASE lines[n + 1].kind = "snapshot"
  <2>1. ~ Speaks(n + 1)
    BY <1>7 DEF Speaks
  <2>2. n + 1 \in 1 .. Len(lines) /\ n + 1 \in Nat /\ n + 1 # 0
    BY <1>2
  <2>3. lines[n + 1] \in LogRecord
    BY <2>2 DEF LogOK
  <2>4. lines[n + 1].messages \in Seq(Messages)
    BY <1>7, <2>3, RecordFields
  <2>5. Transcript(n + 1) = lines[n + 1].messages \o <<>>
    BY <1>1, <1>7, <2>2, NothingSpoken DEF Transcript
  <2>6. Transcript(n + 1) = lines[n + 1].messages
    BY <2>4, <2>5, ConcatNothing
  <2> QED BY <1>6, <1>7, <2>1, <2>6
<1>8. CASE lines[n + 1].kind # "snapshot"
  <2>1. Transcript(n + 1) = start \o Spoken(b, n + 1)
    BY <1>1, <1>8 DEF Transcript
  <2> HIDE DEF start
  <2>2. CASE Speaks(n + 1)
    <3>1. start \o Append(Spoken(b, n), lines[n + 1].message)
            = Append(start \o Spoken(b, n), lines[n + 1].message)
      BY <1>3, <1>4, <2>2, AppendToConcat
    <3> QED BY <1>4, <1>5, <1>6, <1>8, <2>1, <2>2, <3>1
  <2>3. CASE ~ Speaks(n + 1)
    BY <1>4, <1>5, <1>6, <1>8, <2>1, <2>3
  <2> QED BY <2>2, <2>3
<1> QED BY <1>7, <1>8

(* The projection after one line more.                                     *)
LEMMA ProjectedStep ==
  ASSUME LogOK, NEW n \in Nat, n + 1 <= Len(lines)
  PROVE  /\ Speaks(n + 1) =>
              Projected(n + 1) = {Append(p, lines[n + 1].message) : p \in Projected(n)}
         /\ lines[n + 1].kind = "snapshot" => Projected(n + 1) = None
         /\ lines[n + 1].kind = "projection" => Projected(n + 1) = lines[n + 1].option
         /\ ~ Speaks(n + 1) /\ lines[n + 1].kind \notin {"snapshot", "projection"} =>
              Projected(n + 1) = Projected(n)
<1> DEFINE b == ModelBaseOf(n)
           r == lines[n + 1]
<1>1. /\ b \in 0 .. n /\ (b # 0 => lines[b].kind \in {"snapshot", "projection"})
      /\ ModelBaseOf(n + 1) = IF r.kind \in {"snapshot", "projection"} THEN n + 1 ELSE b
  BY LastStep DEF ModelBaseOf
<1>2. /\ Len(lines) \in Nat /\ b \in Nat /\ b <= n /\ (b # 0 => b \in 1 .. Len(lines))
      /\ n + 1 \in 1 .. Len(lines) /\ n + 1 \in Nat /\ n + 1 # 0
  BY <1>1 DEF LogOK
<1>3. r \in LogRecord
  BY <1>2 DEF LogOK
<1>4. Projected(n) = IF b = 0 \/ lines[b].kind = "snapshot" THEN None
                     ELSE {p \o Spoken(b, n) : p \in lines[b].option}
  BY DEF Projected, b
<1> HIDE DEF b
<1>5. CASE r.kind = "snapshot"
  <2>1. ~ Speaks(n + 1) /\ r.kind # "projection"
    BY <1>5 DEF Speaks
  <2>2. Projected(n + 1) = None
    BY <1>1, <1>2, <1>5 DEF Projected
  <2> QED BY <1>5, <2>1, <2>2
<1>6. CASE r.kind = "projection"
  <2>1. ~ Speaks(n + 1) /\ r.kind # "snapshot"
    BY <1>6 DEF Speaks
  <2>2. r.option \in SUBSET Seq(Messages)
    BY <1>3, <1>6, RecordFields
  <2>3. Projected(n + 1) = {p \o <<>> : p \in r.option}
    BY <1>1, <1>2, <1>6, <2>1, NothingSpoken DEF Projected
  <2>4. \A p \in r.option : p \o <<>> = p
    BY <2>2, ConcatNothing
  <2>5. Projected(n + 1) = r.option
    BY <2>3, <2>4
  <2> QED BY <1>6, <2>1, <2>5
<1>7. CASE r.kind \notin {"snapshot", "projection"}
  <2>1. Projected(n + 1) = IF b = 0 \/ lines[b].kind = "snapshot" THEN None
                           ELSE {p \o Spoken(b, n + 1) : p \in lines[b].option}
    BY <1>1, <1>7 DEF Projected
  <2>2. /\ Spoken(b, n) \in Seq(Messages)
        /\ Speaks(n + 1) => /\ r.message \in Messages
                            /\ Spoken(b, n + 1) = Append(Spoken(b, n), r.message)
        /\ ~ Speaks(n + 1) => Spoken(b, n + 1) = Spoken(b, n)
    BY <1>2, SpokenStep
  <2>3. ~ (b = 0 \/ lines[b].kind = "snapshot") => lines[b].option \in SUBSET Seq(Messages)
    <3> SUFFICES ASSUME b # 0, lines[b].kind # "snapshot"
                 PROVE  lines[b].option \in SUBSET Seq(Messages)
      OBVIOUS
    <3>1. lines[b] \in LogRecord
      BY <1>2 DEF LogOK
    <3> QED BY <1>1, <3>1, RecordFields
  <2>4. CASE Speaks(n + 1)
    <3>1. CASE b = 0 \/ lines[b].kind = "snapshot"
      BY <1>4, <1>7, <2>1, <2>4, <3>1 DEF None
    <3>2. CASE ~ (b = 0 \/ lines[b].kind = "snapshot")
      <4>1. \A p \in lines[b].option :
              p \o Append(Spoken(b, n), r.message) = Append(p \o Spoken(b, n), r.message)
        BY <2>2, <2>3, <2>4, <3>2, AppendToConcat
      <4>2. /\ Projected(n + 1) = {p \o Append(Spoken(b, n), r.message) : p \in lines[b].option}
            /\ Projected(n) = {p \o Spoken(b, n) : p \in lines[b].option}
        BY <1>4, <2>1, <2>2, <2>4, <3>2
      <4>3. Projected(n + 1) = {Append(p, r.message) : p \in Projected(n)}
        BY <4>1, <4>2
      <4> QED BY <1>7, <2>4, <4>3
    <3> QED BY <3>1, <3>2
  <2>5. CASE ~ Speaks(n + 1)
    <3>1. Spoken(b, n + 1) = Spoken(b, n)
      BY <2>2, <2>5
    <3>2. Projected(n + 1) = Projected(n)
      <4>1. CASE b = 0 \/ lines[b].kind = "snapshot"
        BY <1>4, <2>1, <4>1, Zenon
      <4>2. CASE ~ (b = 0 \/ lines[b].kind = "snapshot")
        <5>1. /\ Projected(n + 1) = {p \o Spoken(b, n + 1) : p \in lines[b].option}
              /\ Projected(n) = {p \o Spoken(b, n) : p \in lines[b].option}
          BY <1>4, <2>1, <4>2
        <5> QED BY <3>1, <5>1
      <4> QED BY <4>1, <4>2
    <3> QED BY <1>7, <2>5, <3>2
  <2> QED BY <2>4, <2>5
<1> QED BY <1>5, <1>6, <1>7

(* The number of lines of a kind.                                          *)
LEMMA CountedStep ==
  ASSUME NEW kind, NEW n \in Nat
  PROVE  /\ Counted(kind, 0) = 0
         /\ Counted(kind, n) \in Nat
         /\ Counted(kind, n + 1) = IF lines[n + 1].kind = kind THEN Counted(kind, n) + 1
                                   ELSE Counted(kind, n)
<1> DEFINE P == {i \in 1 .. n : lines[i].kind = kind}
           Q == {i \in 1 .. n + 1 : lines[i].kind = kind}
<1>1. Counted(kind, 0) = 0
  <2>1. {i \in 1 .. 0 : lines[i].kind = kind} = {}
    OBVIOUS
  <2> QED BY <2>1, FS_EmptySet DEF Counted
<1>2. IsFiniteSet(P) /\ Cardinality(P) \in Nat
  <2>1. P \in SUBSET (1 .. n) /\ IsFiniteSet(1 .. n)
    BY FS_Interval
  <2> QED BY <2>1, FS_Subset, FS_CardinalityType
<1>3. CASE lines[n + 1].kind = kind
  <2>1. Q = P \cup {n + 1} /\ n + 1 \notin P
    BY <1>3
  <2> HIDE DEF P, Q
  <2>2. Cardinality(Q) = Cardinality(P) + 1
    BY <1>2, <2>1, FS_AddElement
  <2> QED BY <1>1, <1>2, <1>3, <2>2 DEF Counted, P, Q
<1>4. CASE lines[n + 1].kind # kind
  <2>1. Q = P
    BY <1>4
  <2> QED BY <1>1, <1>2, <1>4, <2>1 DEF Counted
<1> QED BY <1>3, <1>4

LEMMA Division ==
  ASSUME NEW w \in Nat \ {0}, NEW c \in Nat
  PROVE  c = w * (c \div w) + (c % w) /\ c % w \in 0 .. w - 1 /\ c \div w \in Nat
OBVIOUS

LEMMA SmallMultiple ==
  ASSUME NEW w \in Nat \ {0}, NEW k \in Int, w * k < w, -w < w * k
  PROVE  k = 0
<1>1. CASE k >= 1
  <2>1. w * k >= w * 1
    BY <1>1
  <2> QED BY <2>1
<1>2. CASE k <= -1
  <2>1. w * k <= w * (-1)
    BY <1>2
  <2> QED BY <2>1
<1> QED BY <1>1, <1>2

LEMMA Remainder ==
  ASSUME NEW w \in Nat \ {0}, NEW c \in Nat, NEW q \in Int, NEW r \in 0 .. w - 1, c = w * q + r
  PROVE  c % w = r
<1> DEFINE q2 == c \div w
           r2 == c % w
<1>1. c = w * q2 + r2 /\ r2 \in 0 .. w - 1 /\ q2 \in Int
  <2>1. c = w * q2 + r2 /\ r2 \in 0 .. w - 1 /\ q2 \in Nat
    BY Division, Zenon
  <2> HIDE DEF q2, r2
  <2> QED BY <2>1
<1> HIDE DEF q2, r2
<1>2. q - q2 \in Int /\ w * (q - q2) = r2 - r
  BY <1>1
<1>3. w * (q - q2) < w /\ -w < w * (q - q2)
  BY <1>1, <1>2
<1>4. q - q2 = 0
  BY <1>2, <1>3, SmallMultiple
<1>5. r = r2
  BY <1>1, <1>2, <1>4
<1> QED BY <1>5 DEF r2

(* A counter that wraps counts as the number that is reduced at the end.   *)
LEMMA CountedModulo ==
  ASSUME NEW w \in Nat \ {0}, NEW c \in Nat
  PROVE  ((c % w) + 1) % w = (c + 1) % w
<1> DEFINE r == c % w
           q == c \div w
<1>1. c = w * q + r /\ r \in 0 .. w - 1 /\ q \in Nat
  BY Division
<1> HIDE DEF r, q
<1>2. CASE r + 1 < w
  <2>1. c + 1 \in Nat /\ r + 1 \in 0 .. w - 1 /\ c + 1 = w * q + (r + 1) /\ q \in Int
    BY <1>1, <1>2
  <2>2. (c + 1) % w = r + 1
    BY <2>1, Remainder
  <2>3. (r + 1) % w = r + 1
    BY <1>1, <1>2
  <2> QED BY <2>2, <2>3 DEF r
<1>3. CASE r + 1 = w
  <2>1. c + 1 \in Nat /\ 0 \in 0 .. w - 1 /\ c + 1 = w * (q + 1) + 0 /\ q + 1 \in Int
    BY <1>1, <1>3
  <2>2. (c + 1) % w = 0
    BY <2>1, Remainder
  <2>3. (r + 1) % w = 0
    BY <1>1, <1>3
  <2> QED BY <2>2, <2>3 DEF r
<1> QED BY <1>1, <1>2, <1>3

-----------------------------------------------------------------------------
(* The view of load is the view that is said of the log. *)

LEMMA ViewBeforeAll == ViewAt(0) = EmptyView
<1>1. Transcript(0) = <<>>
  <2>1. BaseOf(0) = 0
    BY LastStep DEF BaseOf
  <2>2. Spoken(0, 0) = <<>>
    BY NothingSpoken
  <2>3. <<>> \o <<>> = <<>>
    BY EmptySeq, ConcatEmptySeq
  <2> QED BY <2>1, <2>2, <2>3 DEF Transcript
<1>2. Projected(0) = None
  <2>1. ModelBaseOf(0) = 0
    BY LastStep DEF ModelBaseOf
  <2> QED BY <2>1 DEF Projected
<1>3. Counted("usage", 0) = 0 /\ Counted("tool", 0) = 0 /\ 0 % WordSize = 0
  BY CountedStep, WordSizeAssumption
<1>4. Materialized(0) = {} /\ ~ \E i \in 1 .. 0 : lines[i].kind = "meta"
  <2>1. \A i \in 1 .. 0 : FALSE
    OBVIOUS
  <2> QED BY <2>1 DEF Materialized, StagedBy
<1> QED BY <1>1, <1>2, <1>3, <1>4 DEF ViewAt, EmptyView

LEMMA ViewStep ==
  ASSUME LogOK, UsageOK, NEW n \in Nat, n + 1 <= Len(lines)
  PROVE  Fold(CancelledOps(lines), ViewAt(n), lines[n + 1]) = ViewAt(n + 1)
<1> DEFINE r == lines[n + 1]
           c == CancelledOps(lines)
           v == ViewAt(n)
           w == ViewAt(n + 1)
           meta(k) == \E i \in 1 .. k : lines[i].kind = "meta"
           usage(k) == Counted("usage", k) % WordSize
           tools(k) == Counted("tool", k) % WordSize
<1>1. n + 1 \in 1 .. Len(lines) /\ r \in LogRecord
  BY DEF LogOK
<1>2. /\ v = [meta |-> meta(n), messages |-> Transcript(n), projection |-> Projected(n),
              usage |-> usage(n), tools |-> tools(n), materialized |-> Materialized(n)]
      /\ w = [meta |-> meta(n + 1), messages |-> Transcript(n + 1),
              projection |-> Projected(n + 1),
              usage |-> usage(n + 1), tools |-> tools(n + 1), materialized |-> Materialized(n + 1)]
  BY DEF ViewAt
<1>3. /\ r.kind # "meta" => meta(n + 1) = meta(n)
      /\ r.kind = "meta" => meta(n + 1) = TRUE
  <2>1. \A i \in 1 .. n + 1 : i \in 1 .. n \/ i = n + 1
    OBVIOUS
  <2>2. 1 .. n \subseteq 1 .. n + 1 /\ n + 1 \in 1 .. n + 1
    OBVIOUS
  <2> QED BY <2>1, <2>2, Zenon
<1>4. usage(n + 1) = IF r.kind = "usage" THEN (usage(n) + r.tokens) % WordSize ELSE usage(n)
  <2>1. r.kind = "usage" => r.tokens = 1
    BY <1>1 DEF UsageOK
  <2> QED BY <2>1, CountedStep, CountedModulo, WordSizeAssumption
<1>5. tools(n + 1) = IF r.kind = "tool" THEN (tools(n) + 1) % WordSize ELSE tools(n)
  BY CountedStep, CountedModulo, WordSizeAssumption
<1>6. /\ Speaks(n + 1) <=>
           \/ r.kind = "message"
           \/ r.kind = "stage" /\ r.op \notin c \cup Materialized(n)
      /\ Materialized(n + 1) = IF r.kind = "stage" /\ Speaks(n + 1)
                               THEN Materialized(n) \cup {r.op} ELSE Materialized(n)
  BY SpeaksStep
<1>7. /\ Speaks(n + 1) => Transcript(n + 1) = Append(Transcript(n), r.message)
      /\ r.kind = "snapshot" => Transcript(n + 1) = r.messages
      /\ ~ Speaks(n + 1) /\ r.kind # "snapshot" => Transcript(n + 1) = Transcript(n)
  BY TranscriptStep
<1>8. /\ Speaks(n + 1) => Projected(n + 1) = {Append(q, r.message) : q \in Projected(n)}
      /\ r.kind = "snapshot" => Projected(n + 1) = None
      /\ r.kind = "projection" => Projected(n + 1) = r.option
      /\ ~ Speaks(n + 1) /\ r.kind \notin {"snapshot", "projection"} =>
           Projected(n + 1) = Projected(n)
  BY ProjectedStep
<1>9. r.kind \in {"meta", "message", "snapshot", "projection", "usage", "tool", "note",
                  "stage", "cancel"}
  BY <1>1, RecordFields
<1> DEFINE Same(S) == /\ "meta" \in S => meta(n + 1) = meta(n)
                      /\ "messages" \in S => Transcript(n + 1) = Transcript(n)
                      /\ "projection" \in S => Projected(n + 1) = Projected(n)
                      /\ "usage" \in S => usage(n + 1) = usage(n)
                      /\ "tools" \in S => tools(n + 1) = tools(n)
                      /\ "materialized" \in S => Materialized(n + 1) = Materialized(n)
<1> HIDE DEF r, v, w, c, meta, usage, tools
<1>10. CASE r.kind = "message"
  <2>1. /\ Same({"meta", "usage", "tools", "materialized"})
        /\ Transcript(n + 1) = Append(Transcript(n), r.message)
        /\ Projected(n + 1) = {Append(q, r.message) : q \in Projected(n)}
    BY <1>3, <1>4, <1>5, <1>6, <1>7, <1>8, <1>10
  <2>2. Fold(c, v, r) = Push(v, r.message)
    BY <1>10 DEF Fold
  <2>3. Fold(c, v, r) = w
    BY <1>2, <2>1, <2>2 DEF Push
  <2> QED BY <2>3 DEF w, c, v, r
<1>11. CASE r.kind = "stage" /\ Speaks(n + 1)
  <2>1. /\ Same({"meta", "usage", "tools"})
        /\ Transcript(n + 1) = Append(Transcript(n), r.message)
        /\ Projected(n + 1) = {Append(q, r.message) : q \in Projected(n)}
        /\ Materialized(n + 1) = Materialized(n) \cup {r.op}
    BY <1>3, <1>4, <1>5, <1>6, <1>7, <1>8, <1>11
  <2>2. r.op \notin c \cup Materialized(n)
    BY <1>6, <1>11
  <2>3. Fold(c, v, r) = [Push(v, r.message) EXCEPT !.materialized = @ \cup {r.op}]
    BY <1>2, <1>11, <2>2 DEF Fold, Materialize
  <2>4. Fold(c, v, r) = w
    BY <1>2, <2>1, <2>3 DEF Push
  <2> QED BY <2>4 DEF w, c, v, r
<1>12. CASE r.kind = "stage" /\ ~ Speaks(n + 1)
  <2>1. Same({"meta", "messages", "projection", "usage", "tools", "materialized"})
    BY <1>3, <1>4, <1>5, <1>6, <1>7, <1>8, <1>12
  <2>2. r.op \in c \cup Materialized(n)
    BY <1>6, <1>12
  <2>3. Fold(c, v, r) = v
    BY <1>2, <1>12, <2>2 DEF Fold, Materialize
  <2>4. Fold(c, v, r) = w
    BY <1>2, <2>1, <2>3
  <2> QED BY <2>4 DEF w, c, v, r
<1>13. CASE r.kind = "snapshot"
  <2>1. /\ Same({"meta", "usage", "tools", "materialized"})
        /\ Transcript(n + 1) = r.messages /\ Projected(n + 1) = None
    BY <1>3, <1>4, <1>5, <1>6, <1>7, <1>8, <1>13
  <2>2. Fold(c, v, r) = TakeSnapshot(v, r.messages)
    BY <1>13 DEF Fold
  <2>3. Fold(c, v, r) = w
    BY <1>2, <2>1, <2>2 DEF TakeSnapshot
  <2> QED BY <2>3 DEF w, c, v, r
<1>14. CASE r.kind = "projection"
  <2>1. /\ Same({"meta", "messages", "usage", "tools", "materialized"})
        /\ Projected(n + 1) = r.option
    BY <1>3, <1>4, <1>5, <1>6, <1>7, <1>8, <1>14
  <2>2. Fold(c, v, r) = TakeProjection(v, r.option)
    BY <1>14 DEF Fold
  <2>3. Fold(c, v, r) = w
    BY <1>2, <2>1, <2>2 DEF TakeProjection
  <2> QED BY <2>3 DEF w, c, v, r
<1>15. CASE r.kind = "meta"
  <2>1. /\ Same({"messages", "projection", "usage", "tools", "materialized"})
        /\ meta(n + 1) = TRUE
    BY <1>3, <1>4, <1>5, <1>6, <1>7, <1>8, <1>15
  <2>2. Fold(c, v, r) = [v EXCEPT !.meta = TRUE]
    BY <1>15 DEF Fold
  <2>3. Fold(c, v, r) = w
    BY <1>2, <2>1, <2>2
  <2> QED BY <2>3 DEF w, c, v, r
<1>16. CASE r.kind = "usage"
  <2>1. /\ Same({"meta", "messages", "projection", "tools", "materialized"})
        /\ usage(n + 1) = (usage(n) + r.tokens) % WordSize
    BY <1>3, <1>4, <1>5, <1>6, <1>7, <1>8, <1>16
  <2>2. Fold(c, v, r) = [v EXCEPT !.usage = (@ + r.tokens) % WordSize]
    BY <1>16 DEF Fold
  <2>3. Fold(c, v, r) = w
    BY <1>2, <2>1, <2>2
  <2> QED BY <2>3 DEF w, c, v, r
<1>17. CASE r.kind = "tool"
  <2>1. /\ Same({"meta", "messages", "projection", "usage", "materialized"})
        /\ tools(n + 1) = (tools(n) + 1) % WordSize
    BY <1>3, <1>4, <1>5, <1>6, <1>7, <1>8, <1>17
  <2>2. Fold(c, v, r) = [v EXCEPT !.tools = (@ + 1) % WordSize]
    BY <1>17 DEF Fold
  <2>3. Fold(c, v, r) = w
    BY <1>2, <2>1, <2>2
  <2> QED BY <2>3 DEF w, c, v, r
<1>18. CASE r.kind \in {"note", "cancel"}
  <2>1. Same({"meta", "messages", "projection", "usage", "tools", "materialized"})
    BY <1>3, <1>4, <1>5, <1>6, <1>7, <1>8, <1>18
  <2>2. Fold(c, v, r) = v
    BY <1>18 DEF Fold
  <2>3. Fold(c, v, r) = w
    BY <1>2, <2>1, <2>2
  <2> QED BY <2>3 DEF w, c, v, r
<1> QED BY <1>9, <1>10, <1>11, <1>12, <1>13, <1>14, <1>15, <1>16, <1>17, <1>18 DEF r, c, v, w

(* load of a log of any length gives what the history of the log says.     *)
LEMMA LoadIsHistory == LogOK /\ UsageOK => View = ViewAt(Len(lines))
<1> SUFFICES ASSUME LogOK, UsageOK PROVE View = ViewAt(Len(lines))
  OBVIOUS
<1>1. Len(lines) \in Nat /\ DOMAIN lines = 1 .. Len(lines)
  BY DEF LogOK
<1>2. PICK views : /\ views[0] = EmptyView
                   /\ views[Len(lines)] = Replay(lines)
                   /\ \A k \in 1 .. Len(lines) :
                        views[k] = Fold(CancelledOps(lines), views[k - 1], lines[k])
  BY <1>1, ReplayByLine
<1> DEFINE S == {k \in Nat : k <= Len(lines) => views[k] = ViewAt(k)}
<1>3. 0 \in S
  BY <1>2, ViewBeforeAll
<1>4. ASSUME NEW k \in S PROVE k + 1 \in S
  <2> SUFFICES ASSUME k + 1 <= Len(lines) PROVE views[k + 1] = ViewAt(k + 1)
    OBVIOUS
  <2>1. k \in Nat /\ k <= Len(lines) /\ k + 1 \in 1 .. Len(lines) /\ (k + 1) - 1 = k
    BY <1>1
  <2>2. views[k] = ViewAt(k)
    BY <2>1
  <2>3. views[k + 1] = Fold(CancelledOps(lines), views[(k + 1) - 1], lines[k + 1])
    BY <1>2, <2>1
  <2>4. Fold(CancelledOps(lines), ViewAt(k), lines[k + 1]) = ViewAt(k + 1)
    BY <2>1, ViewStep
  <2> QED BY <2>1, <2>2, <2>3, <2>4
<1>5. S = Nat
  <2> HIDE DEF S
  <2> QED BY <1>3, <1>4, InductionOnNat DEF S
<1>6. views[Len(lines)] = ViewAt(Len(lines))
  BY <1>1, <1>5
<1> QED BY <1>2, <1>6 DEF View

(* The messages load shows, as a set: those of the last snapshot, and those *)
(* of the lines that speak after it.                                       *)
Kept == IF BaseOf(Len(lines)) = 0 THEN {} ELSE ToSet(lines[BaseOf(Len(lines))].messages)

Said(m, n) == {lines[i].message : i \in Places(m, n)}

Shown == Kept \cup Said(BaseOf(Len(lines)), Len(lines))

LEMMA SetOfAppend ==
  ASSUME NEW S, NEW s \in Seq(S), NEW x \in S
  PROVE  ToSet(Append(s, x)) = ToSet(s) \cup {x}
<1>1. /\ Append(s, x) \in Seq(S) /\ Len(Append(s, x)) = Len(s) + 1
      /\ \A k \in 1 .. Len(s) : Append(s, x)[k] = s[k]
      /\ Append(s, x)[Len(s) + 1] = x
  BY AppendProperties
<1>2. Len(s) \in Nat /\ DOMAIN s = 1 .. Len(s) /\ DOMAIN Append(s, x) = 1 .. Len(s) + 1
  BY <1>1
<1>3. 1 .. Len(s) + 1 = (1 .. Len(s)) \cup {Len(s) + 1}
  BY <1>2
<1> QED BY <1>1, <1>2, <1>3 DEF ToSet

LEMMA SetOfConcat ==
  ASSUME NEW S, NEW s \in Seq(S), NEW t \in Seq(S)
  PROVE  ToSet(s \o t) = ToSet(s) \cup ToSet(t)
<1>1. /\ s \o t \in Seq(S) /\ Len(s \o t) = Len(s) + Len(t)
      /\ \A i \in 1 .. Len(s) + Len(t) :
           (s \o t)[i] = IF i <= Len(s) THEN s[i] ELSE t[i - Len(s)]
  BY ConcatProperties
<1>2. /\ Len(s) \in Nat /\ Len(t) \in Nat
      /\ DOMAIN s = 1 .. Len(s) /\ DOMAIN t = 1 .. Len(t)
      /\ DOMAIN (s \o t) = 1 .. Len(s) + Len(t)
  BY <1>1
<1> DEFINE u == s \o t
<1> HIDE DEF u
<1>3. ASSUME NEW i \in 1 .. Len(s) PROVE i \in DOMAIN u /\ u[i] = s[i]
  BY <1>1, <1>2 DEF u
<1>4. ASSUME NEW i \in 1 .. Len(t) PROVE Len(s) + i \in DOMAIN u /\ u[Len(s) + i] = t[i]
  BY <1>1, <1>2 DEF u
<1>5. ASSUME NEW i \in DOMAIN u PROVE u[i] \in ToSet(s) \cup ToSet(t)
  <2>1. CASE i <= Len(s)
    BY <1>1, <1>2, <2>1 DEF u, ToSet
  <2>2. CASE ~ (i <= Len(s))
    <3>1. i - Len(s) \in 1 .. Len(t) /\ u[i] = t[i - Len(s)]
      BY <1>1, <1>2, <2>2 DEF u
    <3> QED BY <1>2, <3>1 DEF ToSet
  <2> QED BY <2>1, <2>2
<1>6. ToSet(u) = ToSet(s) \cup ToSet(t)
  BY <1>2, <1>3, <1>4, <1>5 DEF ToSet
<1> QED BY <1>6 DEF u

LEMMA SaidIsSpoken ==
  ASSUME LogOK, NEW m \in Nat, NEW n \in m .. Len(lines)
  PROVE  ToSet(Spoken(m, n)) = Said(m, n)
<1> DEFINE S == {k \in Nat : m + k <= Len(lines) => ToSet(Spoken(m, m + k)) = Said(m, m + k)}
<1>1. 0 \in S
  <2>1. m + 0 = m
    OBVIOUS
  <2>2. Spoken(m, m) = <<>> /\ Said(m, m) = {}
    BY NothingSpoken, PlacesFinite DEF Said
  <2>3. ToSet(<<>>) = {}
    BY DEF ToSet
  <2> QED BY <2>1, <2>2, <2>3
<1>2. ASSUME NEW k \in S PROVE k + 1 \in S
  <2> SUFFICES ASSUME m + (k + 1) <= Len(lines)
               PROVE  ToSet(Spoken(m, m + (k + 1))) = Said(m, m + (k + 1))
    OBVIOUS
  <2> DEFINE j == m + k
  <2>1. j \in Nat /\ m <= j /\ m + (k + 1) = j + 1 /\ j + 1 <= Len(lines)
    OBVIOUS
  <2>2. ToSet(Spoken(m, j)) = Said(m, j)
    BY <2>1 DEF LogOK
  <2> HIDE DEF j
  <2>3. /\ Spoken(m, j) \in Seq(Messages)
        /\ Speaks(j + 1) => /\ lines[j + 1].message \in Messages
                            /\ Spoken(m, j + 1) = Append(Spoken(m, j), lines[j + 1].message)
        /\ ~ Speaks(j + 1) => Spoken(m, j + 1) = Spoken(m, j)
    BY <2>1, SpokenStep
  <2>4. CASE Speaks(j + 1)
    <3>1. Places(m, j + 1) = Places(m, j) \cup {j + 1}
      BY <2>1, <2>4, PlacesGrow
    <3>2. Said(m, j + 1) = Said(m, j) \cup {lines[j + 1].message}
      BY <3>1 DEF Said
    <3>3. ToSet(Spoken(m, j + 1)) = ToSet(Spoken(m, j)) \cup {lines[j + 1].message}
      <4> DEFINE s == Spoken(m, j)
                 x == lines[j + 1].message
      <4>1. s \in Seq(Messages) /\ x \in Messages /\ Spoken(m, j + 1) = Append(s, x)
        BY <2>3, <2>4
      <4> HIDE DEF s, x
      <4>2. ToSet(Append(s, x)) = ToSet(s) \cup {x}
        BY <4>1, SetOfAppend
      <4>3. ToSet(Spoken(m, j + 1)) = ToSet(s) \cup {x}
        BY <4>1, <4>2
      <4> QED BY <4>3 DEF s, x
    <3> QED BY <2>1, <2>2, <3>2, <3>3
  <2>5. CASE ~ Speaks(j + 1)
    <3>1. Places(m, j + 1) = Places(m, j)
      BY <2>1, <2>5, PlacesSame
    <3>2. Said(m, j + 1) = Said(m, j)
      BY <3>1 DEF Said
    <3> QED BY <2>1, <2>2, <2>3, <2>5, <3>2
  <2> QED BY <2>4, <2>5
<1>3. S = Nat
  <2> HIDE DEF S
  <2> QED BY <1>1, <1>2, InductionOnNat DEF S
<1>4. Len(lines) \in Nat
  BY DEF LogOK
<1>5. n - m \in Nat /\ m + (n - m) = n /\ n <= Len(lines)
  BY <1>4
<1>6. n - m \in S
  BY <1>3, <1>5
<1> QED BY <1>5, <1>6

LEMMA BaseIsLine ==
  ASSUME LogOK
  PROVE  /\ BaseOf(Len(lines)) \in 0 .. Len(lines) /\ Len(lines) \in Nat
         /\ BaseOf(Len(lines)) # 0 =>
              /\ lines[BaseOf(Len(lines))].kind = "snapshot"
              /\ lines[BaseOf(Len(lines))].messages \in Seq(Messages)
<1> DEFINE b == BaseOf(Len(lines))
<1>1. Len(lines) \in Nat
  BY DEF LogOK
<1>2. b \in 0 .. Len(lines) /\ (b # 0 => lines[b].kind = "snapshot")
  BY <1>1, LastStep DEF BaseOf
<1> HIDE DEF b
<1>3. b # 0 => lines[b].messages \in Seq(Messages)
  <2>1. b # 0 => lines[b] \in LogRecord
    BY <1>1, <1>2 DEF LogOK
  <2> QED BY <1>2, <2>1, RecordFields
<1> QED BY <1>1, <1>2, <1>3 DEF b

LEMMA ShownIsView ==
  LogOK /\ UsageOK => View.messages \in Seq(Messages) /\ ToSet(View.messages) = Shown
<1> SUFFICES ASSUME LogOK, UsageOK
             PROVE  View.messages \in Seq(Messages) /\ ToSet(View.messages) = Shown
  OBVIOUS
<1> DEFINE n == Len(lines)
           b == BaseOf(n)
           start == IF b = 0 THEN <<>> ELSE lines[b].messages
<1>1. View.messages = start \o Spoken(b, n)
  BY LoadIsHistory DEF ViewAt, Transcript
<1>2. b \in Nat /\ n \in b .. Len(lines) /\ start \in Seq(Messages)
  BY BaseIsLine, EmptySeq
<1>3. ToSet(start) = Kept
  BY DEF Kept, ToSet
<1> HIDE DEF start, b
<1>4. Spoken(b, n) \in Seq(Messages) /\ ToSet(Spoken(b, n)) = Said(b, n)
  BY <1>2, SpokenType, SaidIsSpoken
<1>5. View.messages \in Seq(Messages) /\ ToSet(View.messages) = ToSet(start) \cup ToSet(Spoken(b, n))
  BY <1>1, <1>2, <1>4, ConcatProperties, SetOfConcat
<1> QED BY <1>3, <1>4, <1>5 DEF Shown, b

-----------------------------------------------------------------------------
(* The application: its log is well formed, restarts included. *)

ReplayInv == TypeOK /\ UsageOK

LEMMA WrittenLines ==
  ASSUME LogOK, NEW r \in LogRecord, lines' = Append(lines, r)
  PROVE  /\ Len(lines) \in Nat /\ Len(lines') = Len(lines) + 1
         /\ lines' \in Seq(LogRecord)
         /\ \A i \in 1 .. Len(lines) : lines'[i] = lines[i]
         /\ lines'[Len(lines) + 1] = r
BY AppendProperties DEF LogOK

LEMMA WriteKeepsLog ==
  ASSUME LogOK, UsageOK, NEW r \in LogRecord, r.kind = "usage" => r.tokens = 1,
         lines' = Append(lines, r)
  PROVE  lines' \in Seq(LogRecord) /\ UsageOK'
<1>1. /\ Len(lines) \in Nat /\ Len(lines') = Len(lines) + 1
      /\ lines' \in Seq(LogRecord)
      /\ \A i \in 1 .. Len(lines) : lines'[i] = lines[i]
      /\ lines'[Len(lines) + 1] = r
  BY WrittenLines
<1>2. ASSUME NEW i \in 1 .. Len(lines'), lines'[i].kind = "usage"
      PROVE  lines'[i].tokens = 1
  <2>1. CASE i \in 1 .. Len(lines)
    BY <1>1, <1>2, <2>1 DEF UsageOK
  <2>2. CASE i = Len(lines) + 1
    BY <1>1, <1>2, <2>2
  <2> QED BY <1>1, <2>1, <2>2
<1> QED BY <1>1, <1>2 DEF UsageOK

(* The records the application writes are records of the log.              *)
LEMMA RecordsWritten ==
  /\ \A m \in Messages : Message(m) \in LogRecord
  /\ \A op \in Operations : Stage(op, op) \in LogRecord /\ Cancel(op) \in LogRecord
  /\ \A ms \in Seq(Messages) : Snapshot(ms) \in LogRecord
  /\ \A summary \in {None, {<<Summary>>}} : Projection(summary) \in LogRecord
  /\ \A r \in {Usage(1), Tool, Note} : r \in LogRecord
<1>1. Summary \in Messages /\ Operations \subseteq Messages
  BY NamesAssumption
<1>2. <<Summary>> \in Seq(Messages)
  BY <1>1
<1>3. \A summary \in {None, {<<Summary>>}} : summary \in SUBSET Seq(Messages)
  BY <1>2 DEF None
<1>4. \A summary \in {None, {<<Summary>>}} : Projection(summary) \in LogRecord
  BY <1>3 DEF Projection, LogRecord
<1>5. \A op \in Operations : Stage(op, op) \in LogRecord /\ Cancel(op) \in LogRecord
  BY <1>1 DEF Stage, Cancel, LogRecord
<1>6. \A m \in Messages : Message(m) \in LogRecord
  BY DEF Message, LogRecord
<1>7. \A ms \in Seq(Messages) : Snapshot(ms) \in LogRecord
  BY DEF Snapshot, LogRecord
<1>8. \A r \in {Usage(1), Tool, Note} : r \in LogRecord
  BY DEF Usage, Tool, Note, LogRecord
<1> QED BY <1>4, <1>5, <1>6, <1>7, <1>8

LEMMA ReplayInit == Init => ReplayInv
<1> SUFFICES ASSUME Init PROVE ReplayInv
  OBVIOUS
<1>1. lines = <<Meta>> /\ work = <<>> /\ pending = {} /\ restarts = 0
  BY DEF Init
<1>2. Meta \in LogRecord /\ Meta.kind = "meta"
  BY DEF Meta, LogRecord
<1>3. lines \in Seq(LogRecord) /\ Len(lines) = 1 /\ lines[1] = Meta
  BY <1>1, <1>2
<1>4. UsageOK
  BY <1>2, <1>3 DEF UsageOK
<1>5. work \in Seq(Messages)
  BY <1>1, EmptySeq
<1> QED BY <1>1, <1>3, <1>4, <1>5, BoundsAssumption DEF ReplayInv, TypeOK

LEMMA ReplayNext == ReplayInv /\ [Next]_vars => ReplayInv'
<1> SUFFICES ASSUME ReplayInv, [Next]_vars PROVE ReplayInv'
  OBVIOUS
<1>0. LogOK /\ UsageOK /\ TypeOK
  BY DEF ReplayInv, TypeOK, LogOK
<1>1. ASSUME NEW r \in LogRecord, r.kind = "usage" => r.tokens = 1, Write(r),
             work' \in Seq(Messages), pending' \subseteq Operations
      PROVE  ReplayInv'
  <2>1. lines' = Append(lines, r) /\ restarts' = restarts
    BY <1>1 DEF Write
  <2>2. lines' \in Seq(LogRecord) /\ UsageOK'
    BY <1>0, <1>1, <2>1, WriteKeepsLog
  <2> QED BY <1>0, <1>1, <2>1, <2>2 DEF ReplayInv, TypeOK
<1>2. CASE AppendMessage
  <2>1. PICK m \in Messages \ (Operations \cup {Summary}) :
          Write(Message(m)) /\ work' = Append(work, m) /\ pending' = pending
    BY <1>2 DEF AppendMessage
  <2>2. work' \in Seq(Messages)
    BY <1>0, <2>1, AppendProperties DEF TypeOK
  <2>3. Message(m).kind # "usage"
    BY DEF Message
  <2> QED BY <1>0, <1>1, <2>1, <2>2, <2>3, RecordsWritten DEF TypeOK
<1>3. CASE StageMessage
  <2>1. PICK op \in Operations :
          Write(Stage(op, op)) /\ pending' = pending \cup {op} /\ work' = work
    BY <1>3 DEF StageMessage
  <2>2. Stage(op, op).kind # "usage"
    BY DEF Stage
  <2> QED BY <1>0, <1>1, <2>1, <2>2, RecordsWritten DEF TypeOK
<1>4. CASE AcceptSteer
  <2>1. PICK op \in pending : /\ work' = Append(work, op) /\ pending' = pending \ {op}
                              /\ UNCHANGED <<lines, restarts>>
    BY <1>4 DEF AcceptSteer
  <2>2. op \in Messages
    BY <1>0, NamesAssumption DEF TypeOK
  <2>3. work' \in Seq(Messages)
    BY <1>0, <2>1, <2>2, AppendProperties DEF TypeOK
  <2> QED BY <1>0, <2>1, <2>3 DEF ReplayInv, TypeOK, UsageOK
<1>5. CASE RejectSteer
  <2>1. PICK op \in pending :
          Write(Cancel(op)) /\ pending' = pending \ {op} /\ work' = work
    BY <1>5 DEF RejectSteer
  <2>2. Cancel(op).kind # "usage" /\ op \in Operations
    BY <1>0 DEF Cancel, TypeOK
  <2> QED BY <1>0, <1>1, <2>1, <2>2, RecordsWritten DEF TypeOK
<1>6. CASE SaveSnapshot
  <2>1. Write(Snapshot(work)) /\ work' = work /\ pending' = pending
    BY <1>6 DEF SaveSnapshot
  <2>2. Snapshot(work).kind # "usage"
    BY DEF Snapshot
  <2> QED BY <1>0, <1>1, <2>1, <2>2, RecordsWritten DEF TypeOK
<1>7. CASE SetProjection
  <2>1. PICK summary \in {None, {<<Summary>>}} : Write(Projection(summary))
    BY <1>7 DEF SetProjection
  <2>2. Projection(summary).kind # "usage" /\ work' = work /\ pending' = pending
    BY <1>7 DEF SetProjection, Projection
  <2> QED BY <1>0, <1>1, <2>1, <2>2, RecordsWritten DEF TypeOK
<1>8. CASE Audit
  <2>1. PICK r \in {Usage(1), Tool, Note} : Write(r)
    BY <1>8 DEF Audit
  <2>2. work' = work /\ pending' = pending
    BY <1>8 DEF Audit
  <2>3. r.kind = "usage" => r.tokens = 1
    BY DEF Usage, Tool, Note
  <2> QED BY <1>0, <1>1, <2>1, <2>2, <2>3, RecordsWritten DEF TypeOK
<1>9. CASE Restart
  <2>1. /\ restarts < MaxRestarts /\ restarts' = restarts + 1
        /\ work' = View.messages /\ pending' = {} /\ lines' = lines
    BY <1>9 DEF Restart
  <2>2. work' \in Seq(Messages)
    BY <1>0, <2>1, ShownIsView
  <2>3. restarts' \in 0 .. MaxRestarts
    BY <1>0, <2>1, BoundsAssumption DEF TypeOK
  <2> QED BY <1>0, <2>1, <2>2, <2>3 DEF ReplayInv, TypeOK, UsageOK
<1>10. CASE UNCHANGED vars
  BY <1>0, <1>10 DEF vars, ReplayInv, TypeOK, UsageOK
<1> QED BY <1>2, <1>3, <1>4, <1>5, <1>6, <1>7, <1>8, <1>9, <1>10 DEF Next

(* Every line stays a record, and what the runtime takes over from load at *)
(* a restart are messages.                                                 *)
THEOREM ReplayTypesHold == Spec => []TypeOK
<1>1. ReplayInv => TypeOK
  BY DEF ReplayInv
<1> QED BY <1>1, ReplayInit, ReplayNext, PTL DEF Spec

LEMMA ViewOfInv ==
  ReplayInv => /\ View = ViewAt(Len(lines))
               /\ \A kinds : LastOf(kinds) = LastUpTo(kinds, Len(lines))
               /\ \A n : SpokenAfter(n) = Spoken(n, Len(lines))
               /\ \A kind : HowMany(kind) = Counted(kind, Len(lines))
<1> SUFFICES ASSUME ReplayInv PROVE View = ViewAt(Len(lines))
  BY DEF LastOf, LastUpTo, SpokenAfter, HowMany, Counted
<1>1. LogOK /\ UsageOK
  BY DEF ReplayInv, TypeOK, LogOK
<1> QED BY <1>1, LoadIsHistory

(* load, one pass with a set of operations already materialized, gives the *)
(* transcript the whole log tells: the latest snapshot and everything said *)
(* since, staged messages once and cancelled ones never - for logs of any  *)
(* length, any number of operations and restarts.                          *)
THEOREM TheTranscriptIsHistory == Spec => []TranscriptIsHistory
<1>1. ASSUME ReplayInv PROVE TranscriptIsHistory
  <2> DEFINE b == LastUpTo({"snapshot"}, Len(lines))
  <2>1. View = ViewAt(Len(lines)) /\ LastOf({"snapshot"}) = b
    BY <1>1, ViewOfInv
  <2>2. SpokenAfter(b) = Spoken(b, Len(lines))
    BY DEF SpokenAfter
  <2>3. View.messages = Transcript(Len(lines))
    BY <2>1 DEF ViewAt
  <2>4. Transcript(Len(lines))
          = (IF b = 0 THEN <<>> ELSE lines[b].messages) \o Spoken(b, Len(lines))
    BY DEF Transcript, BaseOf
  <2> HIDE DEF b
  <2> QED BY <2>1, <2>2, <2>3, <2>4, Zenon DEF TranscriptIsHistory
<1> QED BY <1>1, ReplayInit, ReplayNext, PTL DEF Spec

(* The projection load hands to the model is the latest one saved, kept    *)
(* growing with what was said since, and gone once a snapshot follows it.  *)
THEOREM TheProjectionIsCurrent == Spec => []ProjectionIsCurrent
<1>1. ASSUME ReplayInv PROVE ProjectionIsCurrent
  <2> DEFINE b == LastUpTo({"snapshot", "projection"}, Len(lines))
  <2>1. View = ViewAt(Len(lines)) /\ LastOf({"snapshot", "projection"}) = b
    BY <1>1, ViewOfInv
  <2>2. SpokenAfter(b) = Spoken(b, Len(lines))
    BY DEF SpokenAfter
  <2>3. View.projection = Projected(Len(lines))
    BY <2>1 DEF ViewAt
  <2>4. Projected(Len(lines)) =
          IF b = 0 \/ lines[b].kind = "snapshot" THEN None
          ELSE {p \o Spoken(b, Len(lines)) : p \in lines[b].option}
    BY DEF Projected, ModelBaseOf
  <2> HIDE DEF b
  <2> QED BY <2>1, <2>2, <2>3, <2>4, Zenon DEF ProjectionIsCurrent
<1> QED BY <1>1, ReplayInit, ReplayNext, PTL DEF Spec

(* The u32 totals of load are the number of audit lines in the whole log,  *)
(* modulo the word: nothing a snapshot or a restart does loses one.        *)
THEOREM TheTotalsCountEveryLine == Spec => []TotalsCountEveryLine
<1>1. ASSUME ReplayInv PROVE TotalsCountEveryLine
  BY <1>1, ViewOfInv DEF TotalsCountEveryLine, ViewAt
<1> QED BY <1>1, ReplayInit, ReplayNext, PTL DEF Spec

-----------------------------------------------------------------------------
(* The messages load shows, one line of the log after the other. *)

SpeaksIn(ls, i) ==
  \/ ls[i].kind = "message"
  \/ /\ ls[i].kind = "stage"
     /\ ~ CancelledIn(ls, ls[i].op)
     /\ ~ StagedIn(SubSeq(ls, 1, i - 1), ls[i].op)

LastSnapshot(ls) ==
  LET places == {i \in 1 .. Len(ls) : ls[i].kind = "snapshot"}
  IN IF places = {} THEN 0 ELSE Max(places)

KeptIn(ls) == IF LastSnapshot(ls) = 0 THEN {} ELSE ToSet(ls[LastSnapshot(ls)].messages)

SinceIn(ls) == {i \in LastSnapshot(ls) + 1 .. Len(ls) : SpeaksIn(ls, i)}

ShownIn(ls) == KeptIn(ls) \cup {ls[i].message : i \in SinceIn(ls)}

LEMMA ShownOfView ==
  LogOK /\ UsageOK => View.messages \in Seq(Messages) /\ ToSet(View.messages) = ShownIn(lines)
<1>1. \A i : SpeaksIn(lines, i) <=> Speaks(i)
  BY DEF SpeaksIn, Speaks
<1>2. LastSnapshot(lines) = BaseOf(Len(lines))
  <2>1. {i \in 1 .. Len(lines) : lines[i].kind \in {"snapshot"}}
          = {i \in 1 .. Len(lines) : lines[i].kind = "snapshot"}
    OBVIOUS
  <2> QED BY <2>1, Zenon DEF LastSnapshot, BaseOf, LastUpTo
<1>3. KeptIn(lines) = Kept /\ SinceIn(lines) = Places(BaseOf(Len(lines)), Len(lines))
  BY <1>1, <1>2, Zenon DEF KeptIn, Kept, SinceIn, Places
<1>4. ShownIn(lines) = Shown
  BY <1>3 DEF ShownIn, Shown, Said
<1> QED BY <1>4, ShownIsView

(* gs is the log ls with the record r written at its end.                  *)
Adds(ls, r, gs) == ls \in Seq(LogRecord) /\ r \in LogRecord /\ gs = Append(ls, r)

(* What one line more does to the lines before it, and what it does itself. *)
LEMMA LineAdded ==
  ASSUME NEW ls, NEW r, NEW gs, Adds(ls, r, gs)
  PROVE  /\ gs \in Seq(LogRecord) /\ r \in LogRecord /\ Len(ls) \in Nat /\ Len(gs) = Len(ls) + 1
         /\ \A i \in 1 .. Len(ls) : gs[i] = ls[i]
         /\ gs[Len(ls) + 1] = r
         /\ \A kind, op : (\E i \in 1 .. Len(gs) : gs[i].kind = kind /\ gs[i].op = op)
                            <=> (\/ \E i \in 1 .. Len(ls) : ls[i].kind = kind /\ ls[i].op = op
                                 \/ r.kind = kind /\ r.op = op)
<1>1. /\ gs \in Seq(LogRecord) /\ r \in LogRecord /\ Len(ls) \in Nat /\ Len(gs) = Len(ls) + 1
      /\ \A i \in 1 .. Len(ls) : gs[i] = ls[i]
      /\ gs[Len(ls) + 1] = r
  BY AppendProperties DEF Adds
<1>2. /\ \A i \in 1 .. Len(gs) : i \in 1 .. Len(ls) \/ i = Len(ls) + 1
      /\ 1 .. Len(ls) \subseteq 1 .. Len(gs) /\ Len(ls) + 1 \in 1 .. Len(gs)
  BY <1>1
<1>3. ASSUME NEW kind, NEW op
      PROVE  (\E i \in 1 .. Len(gs) : gs[i].kind = kind /\ gs[i].op = op)
               <=> (\/ \E i \in 1 .. Len(ls) : ls[i].kind = kind /\ ls[i].op = op
                    \/ r.kind = kind /\ r.op = op)
  BY <1>1, <1>2, Zenon
<1> QED BY <1>1, <1>3

LEMMA StagedAdded ==
  ASSUME NEW ls, NEW r, NEW gs, Adds(ls, r, gs), NEW op
  PROVE  StagedIn(gs, op) <=> (StagedIn(ls, op) \/ (r.kind = "stage" /\ r.op = op))
BY LineAdded DEF StagedIn

LEMMA CancelledAdded ==
  ASSUME NEW ls, NEW r, NEW gs, Adds(ls, r, gs), NEW op
  PROVE  CancelledIn(gs, op) <=> (CancelledIn(ls, op) \/ (r.kind = "cancel" /\ r.op = op))
BY LineAdded DEF CancelledIn

LEMMA SnapshotAdded ==
  ASSUME NEW ls, NEW r, NEW gs, Adds(ls, r, gs)
  PROVE  /\ LastSnapshot(ls) \in 0 .. Len(ls)
         /\ LastSnapshot(gs) = IF r.kind = "snapshot" THEN Len(ls) + 1 ELSE LastSnapshot(ls)
<1> DEFINE P == {i \in 1 .. Len(ls) : ls[i].kind = "snapshot"}
           Q == {i \in 1 .. Len(gs) : gs[i].kind = "snapshot"}
<1>1. /\ Len(ls) \in Nat /\ Len(gs) = Len(ls) + 1
      /\ \A i \in 1 .. Len(ls) : gs[i] = ls[i]
      /\ gs[Len(ls) + 1] = r
  BY LineAdded
<1>2. /\ P \in SUBSET (1 .. Len(ls)) /\ Q \in SUBSET (1 .. Len(gs)) /\ Len(gs) \in Nat
      /\ LastSnapshot(ls) = IF P = {} THEN 0 ELSE Max(P)
      /\ LastSnapshot(gs) = IF Q = {} THEN 0 ELSE Max(Q)
  BY <1>1 DEF LastSnapshot
<1>3. Q = IF r.kind = "snapshot" THEN P \cup {Len(ls) + 1} ELSE P
  BY <1>1
<1> HIDE DEF P, Q
<1>4. LastSnapshot(ls) \in 0 .. Len(ls)
  <2>1. CASE P = {}
    BY <1>1, <1>2, <2>1
  <2>2. CASE P # {}
    <3>1. Max(P) \in P
      BY <1>1, <1>2, <2>2, MaxOfPlaces
    <3>2. Max(P) \in 1 .. Len(ls) /\ LastSnapshot(ls) = Max(P)
      BY <1>2, <2>2, <3>1
    <3> QED BY <1>1, <3>2
  <2> QED BY <2>1, <2>2
<1>5. CASE r.kind = "snapshot"
  <2>1. Len(ls) + 1 \in Q /\ Q # {}
    BY <1>3, <1>5
  <2>2. Max(Q) \in Q /\ \A i \in Q : i <= Max(Q)
    BY <1>2, <2>1, MaxOfPlaces
  <2>3. Max(Q) \in 1 .. Len(ls) + 1 /\ Len(ls) + 1 <= Max(Q)
    BY <1>1, <1>2, <2>1, <2>2
  <2>4. Max(Q) = Len(ls) + 1
    BY <1>1, <2>3
  <2> QED BY <1>2, <1>4, <1>5, <2>1, <2>4
<1>6. CASE r.kind # "snapshot"
  BY <1>2, <1>3, <1>4, <1>6
<1> QED BY <1>5, <1>6

LEMMA SpeaksAdded ==
  ASSUME NEW ls, NEW r, NEW gs, Adds(ls, r, gs)
  PROVE  /\ \A i \in 1 .. Len(ls) :
              SpeaksIn(gs, i) <=> (/\ SpeaksIn(ls, i)
                                   /\ ~ (ls[i].kind = "stage" /\ r.kind = "cancel" /\ r.op = ls[i].op))
         /\ SpeaksIn(gs, Len(ls) + 1) <=>
              (\/ r.kind = "message"
               \/ r.kind = "stage" /\ ~ CancelledIn(ls, r.op) /\ ~ StagedIn(ls, r.op))
<1>1. /\ gs \in Seq(LogRecord) /\ Len(ls) \in Nat /\ Len(gs) = Len(ls) + 1
      /\ \A i \in 1 .. Len(ls) : gs[i] = ls[i]
      /\ gs[Len(ls) + 1] = r
  BY LineAdded
<1>0. \A op : CancelledIn(gs, op) <=> (CancelledIn(ls, op) \/ (r.kind = "cancel" /\ r.op = op))
  BY CancelledAdded, Zenon
<1>2. ASSUME NEW i \in 1 .. Len(ls) + 1, NEW op
      PROVE  StagedIn(SubSeq(gs, 1, i - 1), op) <=> StagedIn(SubSeq(ls, 1, i - 1), op)
  <2>1. i - 1 \in 0 .. Len(ls) /\ i - 1 <= Len(gs)
    BY <1>1
  <2>2. /\ Len(SubSeq(gs, 1, i - 1)) = i - 1 /\ Len(SubSeq(ls, 1, i - 1)) = i - 1
        /\ \A j \in 1 .. i - 1 : /\ SubSeq(gs, 1, i - 1)[j] = gs[j]
                                 /\ SubSeq(ls, 1, i - 1)[j] = ls[j]
    BY <1>1, <2>1
  <2>3. \A j \in 1 .. i - 1 : SubSeq(gs, 1, i - 1)[j] = SubSeq(ls, 1, i - 1)[j]
    BY <1>1, <2>1, <2>2
  <2> QED BY <2>2, <2>3, Zenon DEF StagedIn
<1>3. SubSeq(ls, 1, (Len(ls) + 1) - 1) = ls
  BY <1>1 DEF Adds
<1>4. ASSUME NEW i \in 1 .. Len(ls)
      PROVE  SpeaksIn(gs, i) <=> (/\ SpeaksIn(ls, i)
                                  /\ ~ (ls[i].kind = "stage" /\ r.kind = "cancel" /\ r.op = ls[i].op))
  <2>1. i \in 1 .. Len(ls) + 1 /\ gs[i] = ls[i]
    BY <1>1
  <2>2. StagedIn(SubSeq(gs, 1, i - 1), ls[i].op) <=> StagedIn(SubSeq(ls, 1, i - 1), ls[i].op)
    BY <1>2, <2>1
  <2> DEFINE k == ls[i].kind
  <2>3. k = "message" => k # "stage"
    OBVIOUS
  <2> HIDE DEF k
  <2> QED BY <1>0, <2>1, <2>2, <2>3, Zenon DEF SpeaksIn, k
<1>5. SpeaksIn(gs, Len(ls) + 1) <=>
        (\/ r.kind = "message"
         \/ r.kind = "stage" /\ ~ CancelledIn(ls, r.op) /\ ~ StagedIn(ls, r.op))
  <2>1. Len(ls) + 1 \in 1 .. Len(ls) + 1
    BY <1>1
  <2>2. StagedIn(SubSeq(gs, 1, (Len(ls) + 1) - 1), r.op) <=> StagedIn(ls, r.op)
    BY <1>2, <1>3, <2>1
  <2> DEFINE k == r.kind
  <2>3. k = "stage" => k # "cancel"
    OBVIOUS
  <2> HIDE DEF k
  <2> QED BY <1>0, <1>1, <2>2, <2>3, Zenon DEF SpeaksIn, k
<1> QED BY <1>4, <1>5

(* A message has a content that no operation has; a staged message has     *)
(* that of its operation.                                                  *)
ContentsIn(ls) ==
  \A i \in 1 .. Len(ls) :
    /\ ls[i].kind = "message" => ls[i].message \notin Operations
    /\ ls[i].kind = "stage" => ls[i].message = ls[i].op

LEMMA ShownAdded ==
  ASSUME NEW ls, NEW r, NEW gs, Adds(ls, r, gs)
  PROVE  /\ r.kind = "snapshot" =>
              KeptIn(gs) = ToSet(r.messages) /\ ShownIn(gs) = ToSet(r.messages)
         /\ r.kind # "snapshot" => KeptIn(gs) = KeptIn(ls)
         /\ r.kind \notin {"message", "snapshot", "stage", "cancel"} => ShownIn(gs) = ShownIn(ls)
         /\ r.kind = "message" => ShownIn(gs) = ShownIn(ls) \cup {r.message}
         /\ r.kind = "stage" /\ ~ CancelledIn(ls, r.op) /\ ~ StagedIn(ls, r.op) =>
              ShownIn(gs) = ShownIn(ls) \cup {r.message}
         /\ r.kind = "cancel" /\ ContentsIn(ls) /\ r.op \notin KeptIn(ls) =>
              ShownIn(gs) = ShownIn(ls) \ {r.op}
<1> DEFINE n == Len(ls)
           b == LastSnapshot(ls)
<1>1. /\ n \in Nat /\ Len(gs) = n + 1 /\ b \in 0 .. n
      /\ \A i \in 1 .. n : gs[i] = ls[i]
      /\ gs[n + 1] = r
  BY LineAdded, SnapshotAdded
<1>2. LastSnapshot(gs) = IF r.kind = "snapshot" THEN n + 1 ELSE b
  BY SnapshotAdded
<1>3. /\ \A i \in 1 .. n :
           SpeaksIn(gs, i) <=> (/\ SpeaksIn(ls, i)
                                /\ ~ (ls[i].kind = "stage" /\ r.kind = "cancel" /\ r.op = ls[i].op))
      /\ SpeaksIn(gs, n + 1) <=>
           (\/ r.kind = "message"
            \/ r.kind = "stage" /\ ~ CancelledIn(ls, r.op) /\ ~ StagedIn(ls, r.op))
  BY SpeaksAdded
<1> HIDE DEF n, b
<1>4. CASE r.kind = "snapshot"
  <2>1. n + 1 # 0 /\ (n + 1) + 1 .. n + 1 = {}
    BY <1>1
  <2>2. SinceIn(gs) = {}
    BY <1>1, <1>2, <1>4, <2>1 DEF SinceIn
  <2>3. KeptIn(gs) = ToSet(r.messages)
    BY <1>1, <1>2, <1>4, <2>1 DEF KeptIn
  <2> QED BY <1>4, <2>2, <2>3 DEF ShownIn
<1>5. CASE r.kind # "snapshot"
  <2>1. LastSnapshot(gs) = b
    BY <1>2, <1>5
  <2>2. KeptIn(gs) = KeptIn(ls)
    BY <1>1, <2>1 DEF KeptIn, b
  <2> DEFINE Q == SinceIn(gs)
             P == SinceIn(ls)
  <2>3. /\ Q = {i \in b + 1 .. n + 1 : SpeaksIn(gs, i)}
        /\ P = {i \in b + 1 .. n : SpeaksIn(ls, i)}
        /\ b + 1 .. n \subseteq 1 .. n /\ b + 1 .. n + 1 = (b + 1 .. n) \cup {n + 1}
    BY <1>1, <2>1 DEF SinceIn, b, n
  <2>4. /\ ShownIn(gs) = KeptIn(ls) \cup {gs[i].message : i \in Q}
        /\ ShownIn(ls) = KeptIn(ls) \cup {ls[i].message : i \in P}
    BY <2>2 DEF ShownIn
  <2> HIDE DEF P, Q
  <2>5. CASE r.kind \notin {"message", "snapshot", "stage", "cancel"}
    <3>1. Q = P
      BY <1>3, <2>3, <2>5
    <3>2. \A i \in P : gs[i].message = ls[i].message
      BY <1>1, <2>3
    <3>3. {gs[i].message : i \in Q} = {ls[i].message : i \in P}
      BY <3>1, <3>2
    <3>4. ShownIn(gs) = ShownIn(ls)
      BY <2>4, <3>3
    <3> QED BY <1>5, <2>2, <2>5, <3>4
  <2>6. CASE r.kind = "message" \/ (r.kind = "stage" /\ ~ CancelledIn(ls, r.op) /\ ~ StagedIn(ls, r.op))
    <3>1. Q = P \cup {n + 1}
      BY <1>1, <1>3, <2>3, <2>6
    <3>2. \A i \in P : gs[i].message = ls[i].message
      BY <1>1, <2>3
    <3>3. {gs[i].message : i \in Q} = {ls[i].message : i \in P} \cup {r.message}
      <4>1. gs[n + 1].message = r.message
        BY <1>1
      <4> QED BY <3>1, <3>2, <4>1
    <3>4. ShownIn(gs) = ShownIn(ls) \cup {r.message}
      BY <2>4, <3>3
    <3> QED BY <1>5, <2>2, <2>6, <3>4
  <2>7. CASE r.kind = "stage" /\ (CancelledIn(ls, r.op) \/ StagedIn(ls, r.op))
    BY <1>5, <2>2, <2>7
  <2>8. CASE r.kind = "cancel"
    <3> SUFFICES ASSUME ContentsIn(ls), r.op \notin KeptIn(ls)
                 PROVE  ShownIn(gs) = ShownIn(ls) \ {r.op}
      BY <1>5, <2>2, <2>8
    <3>0. r.op \in Operations
      BY <2>8, LineAdded, RecordFields
    <3>1. Q = {i \in P : ~ (ls[i].kind = "stage" /\ r.op = ls[i].op)}
      BY <1>1, <1>3, <2>3, <2>8
    <3>2. ASSUME NEW i \in P
          PROVE  (ls[i].kind = "stage" /\ r.op = ls[i].op) <=> ls[i].message = r.op
      <4>1. i \in 1 .. n /\ SpeaksIn(ls, i)
        BY <2>3
      <4>2. ls[i].kind = "message" \/ ls[i].kind = "stage"
        BY <4>1 DEF SpeaksIn
      <4>3. /\ ls[i].kind = "message" => ls[i].message \notin Operations
            /\ ls[i].kind = "stage" => ls[i].message = ls[i].op
        BY <4>1 DEF ContentsIn, n
      <4> QED BY <3>0, <4>2, <4>3
    <3>3. Q = {i \in P : ls[i].message # r.op}
      BY <3>1, <3>2
    <3>4. \A i \in P : gs[i].message = ls[i].message
      BY <1>1, <2>3
    <3>5. {gs[i].message : i \in Q} = {ls[i].message : i \in P} \ {r.op}
      BY <3>3, <3>4
    <3> QED BY <2>4, <3>5
  <2> QED BY <1>5, <2>5, <2>6, <2>7, <2>8
<1> QED BY <1>4, <1>5

(* The same, kind by kind.                                                 *)
LEMMA MessageShows ==
  ASSUME NEW ls, NEW r, NEW gs, Adds(ls, r, gs),
         r.kind = "message"
  PROVE  ShownIn(gs) = ShownIn(ls) \cup {r.message}
BY ShownAdded

LEMMA CancelHides ==
  ASSUME NEW ls, NEW r, NEW gs, Adds(ls, r, gs),
         r.kind = "cancel", ContentsIn(ls), r.op \notin KeptIn(ls)
  PROVE  ShownIn(gs) = ShownIn(ls) \ {r.op}
BY ShownAdded

LEMMA OthersKeepBase ==
  ASSUME NEW ls, NEW r, NEW gs, Adds(ls, r, gs),
         r.kind # "snapshot"
  PROVE  KeptIn(gs) = KeptIn(ls)
BY ShownAdded

-----------------------------------------------------------------------------
(* What the runtime works with and what load shows are the same messages,  *)
(* but for the operations whose fate is open.                              *)

WorkShown      == ToSet(work) \subseteq ShownIn(lines)
ShownIsKnown   == ShownIn(lines) \subseteq ToSet(work) \cup pending
ShownWasStaged == \A op \in Operations \cap ShownIn(lines) : StagedIn(lines, op)
PendingOpen    == \A op \in pending : /\ StagedIn(lines, op) /\ ~ CancelledIn(lines, op)
                                      /\ op \notin ToSet(work) \cup KeptIn(lines)
StagedShown    == \A op \in Operations :
                    StagedIn(lines, op) /\ ~ CancelledIn(lines, op) => op \in ShownIn(lines)

RecoverInv == /\ ReplayInv /\ ContentsIn(lines)
              /\ WorkShown /\ ShownIsKnown /\ ShownWasStaged /\ PendingOpen /\ StagedShown

(* A message leaves what load shows only when a line cancels it.           *)
NothingForgotten == \A m \in ShownIn(lines) \ ShownIn(lines') : CancelledIn(lines', m)

LEMMA ContentsAdded ==
  ASSUME NEW ls, NEW r, NEW gs, Adds(ls, r, gs),
         ContentsIn(ls),
         r.kind = "message" => r.message \notin Operations,
         r.kind = "stage" => r.message = r.op
  PROVE  ContentsIn(gs)
<1>1. /\ Len(ls) \in Nat /\ Len(gs) = Len(ls) + 1
      /\ \A i \in 1 .. Len(ls) : gs[i] = ls[i]
      /\ gs[Len(ls) + 1] = r
  BY LineAdded
<1>2. ASSUME NEW i \in 1 .. Len(gs)
      PROVE  /\ gs[i].kind = "message" => gs[i].message \notin Operations
             /\ gs[i].kind = "stage" => gs[i].message = gs[i].op
  <2>1. CASE i \in 1 .. Len(ls)
    BY <1>1, <2>1 DEF ContentsIn
  <2>2. CASE i = Len(ls) + 1
    BY <1>1, <2>2
  <2> QED BY <1>1, <2>1, <2>2
<1> QED BY <1>2 DEF ContentsIn

(* A line that neither says, stages nor cancels anything, and is no        *)
(* snapshot, leaves all of it as it was.                                   *)
LEMMA SilentLine ==
  ASSUME RecoverInv, NEW r,
         r.kind \notin {"message", "snapshot", "stage", "cancel"},
         Adds(lines, r, lines'), work' = work, pending' = pending, ReplayInv'
  PROVE  RecoverInv' /\ NothingForgotten
<1>1. ContentsIn(lines')
  BY ContentsAdded DEF RecoverInv
<1>2. ShownIn(lines') = ShownIn(lines) /\ KeptIn(lines') = KeptIn(lines)
  BY ShownAdded
<1>3. \A op : /\ StagedIn(lines', op) <=> StagedIn(lines, op)
              /\ CancelledIn(lines', op) <=> CancelledIn(lines, op)
  <2>1. r.kind # "stage" /\ r.kind # "cancel"
    OBVIOUS
  <2> QED BY <2>1, StagedAdded, CancelledAdded
<1> QED BY <1>1, <1>2, <1>3
        DEF RecoverInv, WorkShown, ShownIsKnown, ShownWasStaged, PendingOpen, StagedShown,
            NothingForgotten

LEMMA RecoverInit == Init => RecoverInv
<1> SUFFICES ASSUME Init PROVE RecoverInv
  OBVIOUS
<1>1. lines = <<Meta>> /\ work = <<>> /\ pending = {} /\ ReplayInv
  BY ReplayInit DEF Init
<1>2. Len(lines) = 1 /\ \A i \in 1 .. Len(lines) : lines[i].kind = "meta"
  BY <1>1 DEF Meta
<1>3. ContentsIn(lines) /\ ~ (\E op : StagedIn(lines, op))
  BY <1>2 DEF ContentsIn, StagedIn
<1>4. LastSnapshot(lines) = 0
  BY <1>2 DEF LastSnapshot
<1>5. ShownIn(lines) = {}
  <2>1. SinceIn(lines) = {}
    BY <1>2, <1>4 DEF SinceIn, SpeaksIn
  <2> QED BY <1>4, <2>1 DEF ShownIn, KeptIn
<1>6. ToSet(work) = {}
  BY <1>1 DEF ToSet
<1> QED BY <1>1, <1>3, <1>5, <1>6
        DEF RecoverInv, WorkShown, ShownIsKnown, ShownWasStaged, PendingOpen, StagedShown

LEMMA RecoverNext ==
  ASSUME ~ SnapshotWhilePending
  PROVE  RecoverInv /\ [Next]_vars => RecoverInv' /\ NothingForgotten
<1> SUFFICES ASSUME RecoverInv, [Next]_vars PROVE RecoverInv' /\ NothingForgotten
  OBVIOUS
<1>0. ReplayInv' /\ TypeOK /\ lines \in Seq(LogRecord) /\ ContentsIn(lines)
  BY ReplayNext DEF RecoverInv, ReplayInv, TypeOK
<1>1. /\ WorkShown /\ ShownIsKnown /\ ShownWasStaged /\ PendingOpen /\ StagedShown
  BY DEF RecoverInv
<1>2. CASE AppendMessage
  <2>1. PICK m \in Messages \ (Operations \cup {Summary}) :
          Write(Message(m)) /\ work' = Append(work, m) /\ pending' = pending
    BY <1>2 DEF AppendMessage
  <2> DEFINE r == Message(m)
  <2>2. r.kind = "message" /\ r.message = m /\ Adds(lines, r, lines')
    BY <1>0, <2>1, RecordsWritten DEF Message, Write, Adds
  <2> HIDE DEF r
  <2>3. ContentsIn(lines')
    BY <1>0, <2>1, <2>2, ContentsAdded
  <2>4. ShownIn(lines') = ShownIn(lines) \cup {m} /\ KeptIn(lines') = KeptIn(lines)
    <3>1. ShownIn(lines') = ShownIn(lines) \cup {r.message}
      <4>1. r.kind = "message"
        BY <2>2
      <4> QED BY <2>2, <4>1, MessageShows
    <3>2. r.kind # "snapshot"
      BY <2>2
    <3>3. KeptIn(lines') = KeptIn(lines)
      BY <2>2, <3>2, OthersKeepBase
    <3> QED BY <2>2, <3>1, <3>3
  <2>5. \A op : /\ StagedIn(lines', op) <=> StagedIn(lines, op)
                /\ CancelledIn(lines', op) <=> CancelledIn(lines, op)
    <3>1. r.kind # "stage" /\ r.kind # "cancel"
      BY <2>2
    <3> QED BY <1>0, <2>2, <3>1, StagedAdded, CancelledAdded
  <2>6. ToSet(work') = ToSet(work) \cup {m}
    BY <1>0, <2>1, SetOfAppend DEF TypeOK
  <2>7. m \notin Operations /\ pending \subseteq Operations
    BY <1>0, <2>1 DEF TypeOK
  <2> QED BY <1>0, <1>1, <2>1, <2>3, <2>4, <2>5, <2>6, <2>7
          DEF RecoverInv, WorkShown, ShownIsKnown, ShownWasStaged, PendingOpen, StagedShown,
              NothingForgotten
<1>3. CASE StageMessage
  <2>1. PICK op \in Operations :
          /\ ~ HasDurableId(lines, op)
          /\ Write(Stage(op, op)) /\ pending' = pending \cup {op} /\ work' = work
    BY <1>3 DEF StageMessage
  <2> DEFINE r == Stage(op, op)
  <2>2. r.kind = "stage" /\ r.message = op /\ r.op = op /\ Adds(lines, r, lines')
    BY <1>0, <2>1, RecordsWritten DEF Stage, Write, Adds
  <2>3. ~ StagedIn(lines, op) /\ ~ CancelledIn(lines, op)
    BY <2>1 DEF HasDurableId
  <2> HIDE DEF r
  <2>4. ContentsIn(lines')
    BY <1>0, <2>1, <2>2, ContentsAdded
  <2>5. ShownIn(lines') = ShownIn(lines) \cup {op} /\ KeptIn(lines') = KeptIn(lines)
    <3>1. ~ CancelledIn(lines, r.op) /\ ~ StagedIn(lines, r.op) /\ r.kind # "snapshot"
      BY <2>2, <2>3
    <3>2. ShownIn(lines') = ShownIn(lines) \cup {r.message}
      BY <1>0, <2>2, <3>1, ShownAdded
    <3>3. KeptIn(lines') = KeptIn(lines)
      BY <1>0, <2>2, <3>1, OthersKeepBase
    <3> QED BY <2>2, <3>2, <3>3
  <2>6. \A o : /\ StagedIn(lines', o) <=> (StagedIn(lines, o) \/ o = op)
               /\ CancelledIn(lines', o) <=> CancelledIn(lines, o)
    <3>1. r.kind # "cancel"
      BY <2>2
    <3>2. \A o : StagedIn(lines', o) <=> (StagedIn(lines, o) \/ (r.kind = "stage" /\ r.op = o))
      BY <2>2, StagedAdded, Zenon
    <3>3. \A o : CancelledIn(lines', o)
                   <=> (CancelledIn(lines, o) \/ (r.kind = "cancel" /\ r.op = o))
      BY <2>2, CancelledAdded, Zenon
    <3> QED BY <2>2, <3>1, <3>2, <3>3, Zenon
  <2>7. op \notin ShownIn(lines)
    BY <1>1, <2>3 DEF ShownWasStaged
  <2>8. op \notin ToSet(work) \cup KeptIn(lines)
    BY <1>1, <2>7 DEF WorkShown, ShownIn
  <2> QED BY <1>0, <1>1, <2>1, <2>3, <2>4, <2>5, <2>6, <2>8
          DEF RecoverInv, WorkShown, ShownIsKnown, ShownWasStaged, PendingOpen, StagedShown,
              NothingForgotten
<1>4. CASE AcceptSteer
  <2>1. PICK op \in pending : /\ work' = Append(work, op) /\ pending' = pending \ {op}
                              /\ lines' = lines
    BY <1>4 DEF AcceptSteer
  <2>2. op \in Operations /\ op \in Messages
    BY <1>0, NamesAssumption DEF TypeOK
  <2>3. ToSet(work') = ToSet(work) \cup {op}
    BY <1>0, <2>1, <2>2, SetOfAppend DEF TypeOK
  <2>4. op \in ShownIn(lines)
    BY <1>1, <2>2 DEF PendingOpen, StagedShown
  <2> QED BY <1>0, <1>1, <2>1, <2>3, <2>4
          DEF RecoverInv, WorkShown, ShownIsKnown, ShownWasStaged, PendingOpen, StagedShown,
              NothingForgotten
<1>5. CASE RejectSteer
  <2>1. PICK op \in pending :
          Write(Cancel(op)) /\ pending' = pending \ {op} /\ work' = work
    BY <1>5 DEF RejectSteer
  <2> DEFINE r == Cancel(op)
  <2>2. op \in Operations /\ r.kind = "cancel" /\ r.op = op /\ Adds(lines, r, lines')
    BY <1>0, <2>1, RecordsWritten DEF Cancel, Write, TypeOK, Adds
  <2> HIDE DEF r
  <2>3. ContentsIn(lines')
    BY <1>0, <2>2, ContentsAdded
  <2>4. op \notin ToSet(work) /\ op \notin KeptIn(lines)
    BY <1>1 DEF PendingOpen
  <2>5. ShownIn(lines') = ShownIn(lines) \ {op} /\ KeptIn(lines') = KeptIn(lines)
    <3>1. r.op \notin KeptIn(lines) /\ r.kind # "snapshot"
      BY <2>2, <2>4
    <3>2. ShownIn(lines') = ShownIn(lines) \ {r.op}
      BY <1>0, <2>2, <3>1, CancelHides
    <3>3. KeptIn(lines') = KeptIn(lines)
      BY <1>0, <2>2, <3>1, OthersKeepBase
    <3> QED BY <2>2, <3>2, <3>3
  <2>6. \A o : /\ StagedIn(lines', o) <=> StagedIn(lines, o)
               /\ CancelledIn(lines', o) <=> (CancelledIn(lines, o) \/ o = op)
    <3>1. r.kind # "stage"
      BY <2>2
    <3>2. \A o : StagedIn(lines', o) <=> (StagedIn(lines, o) \/ (r.kind = "stage" /\ r.op = o))
      BY <2>2, StagedAdded, Zenon
    <3>3. \A o : CancelledIn(lines', o)
                   <=> (CancelledIn(lines, o) \/ (r.kind = "cancel" /\ r.op = o))
      BY <2>2, CancelledAdded, Zenon
    <3> QED BY <2>2, <3>1, <3>2, <3>3, Zenon
  <2> QED BY <1>0, <1>1, <2>1, <2>3, <2>4, <2>5, <2>6
          DEF RecoverInv, WorkShown, ShownIsKnown, ShownWasStaged, PendingOpen, StagedShown,
              NothingForgotten
<1>6. CASE SaveSnapshot
  <2>1. pending = {} /\ Write(Snapshot(work)) /\ work' = work /\ pending' = pending
    BY <1>6 DEF SaveSnapshot
  <2> DEFINE r == Snapshot(work)
  <2>2. r.kind = "snapshot" /\ r.messages = work /\ Adds(lines, r, lines')
    BY <1>0, <2>1, RecordsWritten DEF Snapshot, Write, TypeOK, Adds
  <2> HIDE DEF r
  <2>3. ContentsIn(lines')
    BY <1>0, <2>2, ContentsAdded
  <2>4. ShownIn(lines') = ToSet(work)
    BY <1>0, <2>2, ShownAdded
  <2>5. \A o : /\ StagedIn(lines', o) <=> StagedIn(lines, o)
               /\ CancelledIn(lines', o) <=> CancelledIn(lines, o)
    <3>1. r.kind # "stage" /\ r.kind # "cancel"
      BY <2>2
    <3> QED BY <1>0, <2>2, <3>1, StagedAdded, CancelledAdded
  <2>6. ShownIn(lines) = ToSet(work)
    BY <1>1, <2>1 DEF WorkShown, ShownIsKnown
  <2> QED BY <1>0, <1>1, <2>1, <2>3, <2>4, <2>5, <2>6
          DEF RecoverInv, WorkShown, ShownIsKnown, ShownWasStaged, PendingOpen, StagedShown,
              NothingForgotten
<1>7. CASE SetProjection
  <2>1. PICK summary \in {None, {<<Summary>>}} : Write(Projection(summary))
    BY <1>7 DEF SetProjection
  <2>2. Projection(summary).kind = "projection" /\ work' = work /\ pending' = pending
    BY <1>7 DEF SetProjection, Projection
  <2> QED BY <1>0, <2>1, <2>2, RecordsWritten, SilentLine DEF Write, Adds
<1>8. CASE Audit
  <2>1. PICK r \in {Usage(1), Tool, Note} : Write(r)
    BY <1>8 DEF Audit
  <2>2. r.kind \in {"usage", "tool", "note"} /\ work' = work /\ pending' = pending
    BY <1>8 DEF Audit, Usage, Tool, Note
  <2> QED BY <1>0, <2>1, <2>2, RecordsWritten, SilentLine DEF Write, Adds
<1>9. CASE Restart
  <2>1. work' = View.messages /\ pending' = {} /\ lines' = lines
    BY <1>9 DEF Restart
  <2>2. LogOK /\ UsageOK
    BY DEF RecoverInv, ReplayInv, TypeOK, LogOK
  <2>3. ToSet(work') = ShownIn(lines)
    BY <2>1, <2>2, ShownOfView
  <2> QED BY <1>0, <1>1, <2>1, <2>3
          DEF RecoverInv, WorkShown, ShownIsKnown, ShownWasStaged, PendingOpen, StagedShown,
              NothingForgotten
<1>10. CASE UNCHANGED vars
  BY <1>0, <1>1, <1>10
     DEF vars, RecoverInv, WorkShown, ShownIsKnown, ShownWasStaged, PendingOpen, StagedShown,
              NothingForgotten
<1> QED BY <1>2, <1>3, <1>4, <1>5, <1>6, <1>7, <1>8, <1>9, <1>10 DEF Next

LEMMA RecoverHolds ==
  ASSUME ~ SnapshotWhilePending
  PROVE  Spec => []RecoverInv
BY RecoverInit, RecoverNext, PTL DEF Spec

LEMMA ShownByLoad ==
  RecoverInv => ToSet(View.messages) = ShownIn(lines)
BY ShownOfView DEF RecoverInv, ReplayInv, TypeOK, LogOK

(* Where no snapshot is saved while a staged message is open, everything   *)
(* the runtime works with comes back from load: what it was told, what it  *)
(* said, and every steer it took.                                          *)
THEOREM TheWorkIsRecoverable ==
  ASSUME ~ SnapshotWhilePending
  PROVE  Spec => []WorkIsRecoverable
<1>1. RecoverInv => WorkIsRecoverable
  BY ShownByLoad DEF RecoverInv, WorkShown, WorkIsRecoverable
<1> QED BY <1>1, RecoverHolds, PTL

(* Under the same discipline the outbox keeps its promise: a message that  *)
(* was staged is shown as a normal one by every load until its             *)
(* cancellation is on file, before and after any snapshot.                 *)
THEOREM StagedMessagesAreMaterialized ==
  ASSUME ~ SnapshotWhilePending
  PROVE  Spec => []StagedIsMaterialized
<1>1. RecoverInv => StagedIsMaterialized
  BY ShownByLoad DEF RecoverInv, StagedShown, StagedIsMaterialized
<1> QED BY <1>1, RecoverHolds, PTL

(* ... and what a load has shown, every later load shows, across snapshots *)
(* and restarts, unless a line cancels it.                                 *)
THEOREM ShownMessagesStayShown ==
  ASSUME ~ SnapshotWhilePending
  PROVE  Spec => ShownStaysShown
<1>1. RecoverInv /\ RecoverInv' /\ [Next]_vars =>
        [\A m \in ToSet(View.messages) \ ToSet(View'.messages) : CancelledIn(lines', m)]_vars
  <2> SUFFICES ASSUME RecoverInv, RecoverInv', [Next]_vars
               PROVE  \A m \in ToSet(View.messages) \ ToSet(View'.messages) : CancelledIn(lines', m)
    OBVIOUS
  <2>1. ToSet(View.messages) = ShownIn(lines)
    BY ShownByLoad
  <2>2. (RecoverInv => ToSet(View.messages) = ShownIn(lines))'
    BY ShownByLoad, PTL
  <2>3. ToSet(View'.messages) = ShownIn(lines')
    BY <2>2
  <2>4. NothingForgotten
    BY RecoverNext
  <2> QED BY <2>1, <2>3, <2>4 DEF NothingForgotten
<1> QED BY <1>1, RecoverHolds, PTL DEF Spec, ShownStaysShown
=============================================================================
