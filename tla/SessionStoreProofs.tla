------------------------- MODULE SessionStoreProofs -------------------------
(***************************************************************************)
(* Proofs about SessionStore, for every number of tasks, calls, crashes    *)
(* and aborted appends: first what each way of writing the file does to    *)
(* its lines, and that load is a walk over them.                           *)
(***************************************************************************)
EXTENDS SessionStore, SequenceTheorems, WellFoundedInduction, TLAPS

LEMMA RecordsAreLines ==
  /\ LogRecord \subseteq Line /\ Garbage \in Line /\ BadUtf8 \in Line /\ Blank \in Line
  /\ Meta \in LogRecord
BY DEF Line, LogRecord

LEMMA EmptyFileType == EmptyFile \in FileContent
BY DEF EmptyFile, FileContent

LEMMA FragmentType ==
  ASSUME NEW r \in LogRecord, NEW piece \in Fragments(r)
  PROVE  piece \in Piece
BY RecordsAreLines DEF Fragments, Piece

(* Appending adds one line per record, and each is that record or what     *)
(* gluing it to a torn tail made of it.                                    *)
LEMMA AppendLinesGrows ==
  ASSUME NEW f \in FileContent, NEW rs \in Seq(Line)
  PROVE  LET g == AppendLines(f, rs)
         IN /\ g \in FileContent
            /\ Len(g.lines) = Len(f.lines) + Len(rs)
            /\ \A i \in 1 .. Len(f.lines) : g.lines[i] = f.lines[i]
            /\ \A i \in 1 .. Len(rs) :
                 g.lines[Len(f.lines) + i] \in {rs[i], Garbage, BadUtf8}
<1> DEFINE g == AppendLines(f, rs)
<1> f.lines \in Seq(Line) /\ f.tail \in Seq(Piece)
  BY DEF FileContent
<1>1. CASE f.tail = <<>> \/ rs = <<>>
  <2>1. g = [lines |-> f.lines \o rs, tail |-> f.tail]
    BY <1>1 DEF AppendLines
  <2>2. g.lines = f.lines \o rs /\ g.lines \in Seq(Line)
    BY <2>1
  <2>3. g \in FileContent
    BY <2>1, <2>2 DEF FileContent
  <2> QED BY <2>2, <2>3
<1>2. CASE f.tail # <<>> /\ rs # <<>>
  <2> DEFINE glue == Glued(f.tail[1])
  <2>1. glue \in {Garbage, BadUtf8}
    BY DEF Glued
  <2>2. g = [lines |-> f.lines \o <<glue>> \o Tail(rs), tail |-> <<>>]
    BY <1>2 DEF AppendLines
  <2>3. g.lines = f.lines \o <<glue>> \o Tail(rs)
    BY <1>2 DEF AppendLines
  <2>4. <<glue>> \in Seq(Line) /\ Tail(rs) \in Seq(Line) /\ Len(Tail(rs)) = Len(rs) - 1
    BY <1>2, <2>1, RecordsAreLines
  <2>5. g \in FileContent
    <3>1. f.lines \o <<glue>> \in Seq(Line)
      BY <2>4
    <3>2. f.lines \o <<glue>> \o Tail(rs) \in Seq(Line)
      BY <2>4, <3>1
    <3> QED BY <2>2, <3>2 DEF FileContent
  <2>6. Len(g.lines) = Len(f.lines) + Len(rs)
    BY <2>3, <2>4
  <2>7. \A i \in 1 .. Len(f.lines) : g.lines[i] = f.lines[i]
    BY <2>3, <2>4
  <2>8. ASSUME NEW i \in 1 .. Len(rs)
        PROVE  g.lines[Len(f.lines) + i] \in {rs[i], Garbage, BadUtf8}
    <3>1. CASE i = 1
      BY <2>1, <2>3, <2>4, <3>1
    <3>2. CASE i # 1
      <4>1. g.lines[Len(f.lines) + i] = Tail(rs)[i - 1]
        BY <2>3, <2>4, <3>2
      <4> QED BY <3>2, <4>1, <1>2
    <3> QED BY <3>1, <3>2
  <2> QED BY <2>5, <2>6, <2>7, <2>8
<1> QED BY <1>1, <1>2

(* Completing a torn record adds one line, the record or garbage.          *)
LEMMA CompleteTailGrows ==
  ASSUME NEW f \in FileContent, NEW r \in Line
  PROVE  LET g == CompleteTail(f, r)
         IN /\ g \in FileContent
            /\ Len(g.lines) = Len(f.lines) + 1
            /\ \A i \in 1 .. Len(f.lines) : g.lines[i] = f.lines[i]
            /\ g.lines[Len(f.lines) + 1] \in {r, Garbage, BadUtf8}
<1> f.lines \in Seq(Line)
  BY DEF FileContent
<1>1. CASE f.tail # <<>> /\ f.tail[1].whole = r
  <2>1. CompleteTail(f, r) = [lines |-> Append(f.lines, r), tail |-> <<>>]
    BY <1>1 DEF CompleteTail
  <2> QED BY <2>1 DEF FileContent
<1>2. CASE ~ (f.tail # <<>> /\ f.tail[1].whole = r)
  <2>1. CompleteTail(f, r) = AppendLines(f, <<Garbage>>)
    BY <1>2 DEF CompleteTail
  <2>2. <<Garbage>> \in Seq(Line) /\ Len(<<Garbage>>) = 1 /\ <<Garbage>>[1] = Garbage
    BY RecordsAreLines
  <2> DEFINE g == CompleteTail(f, r)
  <2>0. g = AppendLines(f, <<Garbage>>)
    BY <2>1
  <2> HIDE DEF g
  <2>3. /\ g \in FileContent
        /\ Len(g.lines) = Len(f.lines) + 1
        /\ \A i \in 1 .. Len(f.lines) : g.lines[i] = f.lines[i]
    BY <2>0, <2>2, AppendLinesGrows
  <2>4. g.lines[Len(f.lines) + 1] \in {Garbage, BadUtf8}
    <3>1. \A i \in 1 .. Len(<<Garbage>>) :
            g.lines[Len(f.lines) + i] \in {<<Garbage>>[i], Garbage, BadUtf8}
      BY <2>0, <2>2, AppendLinesGrows
    <3>2. 1 \in 1 .. Len(<<Garbage>>)
      BY <2>2
    <3> QED BY <2>2, <3>1, <3>2
  <2> QED BY <2>3, <2>4 DEF g
<1> QED BY <1>1, <1>2

LEMMA SetLenType ==
  ASSUME NEW f \in FileContent, NEW n \in Nat
  PROVE  SetLen(f, n) \in FileContent
<1> f.lines \in Seq(Line)
  BY DEF FileContent
<1>1. CASE n <= Len(f.lines)
  BY <1>1 DEF SetLen, FileContent
<1>2. CASE ~ (n <= Len(f.lines))
  <2>1. [whole |-> Garbage, reads |-> Garbage] \in Piece
    BY RecordsAreLines DEF Piece
  <2> QED BY <1>2, <2>1 DEF SetLen, FileContent
<1> QED BY <1>1, <1>2

(* Cutting a file at the length of its own complete lines cuts its tail.   *)
LEMMA SetLenCutsTail ==
  ASSUME NEW f \in FileContent
  PROVE  SetLen(f, Len(f.lines)) = [lines |-> f.lines, tail |-> <<>>]
<1>1. f.lines \in Seq(Line)
  BY DEF FileContent
<1>2. SubSeq(f.lines, 1, Len(f.lines)) = f.lines
  BY <1>1
<1> QED BY <1>1, <1>2 DEF SetLen

LEMMA OverwriteType ==
  ASSUME NEW f \in FileContent, NEW ls \in Seq(Line)
  PROVE  LET g == Overwrite(f, ls)
         IN /\ g \in FileContent
            /\ \A i \in 1 .. Len(g.lines) :
                 \/ i <= Len(ls) /\ g.lines[i] = ls[i]
                 \/ i <= Len(f.lines) /\ g.lines[i] = f.lines[i]
<1> f.lines \in Seq(Line) /\ f.tail \in Seq(Piece)
  BY DEF FileContent
<1>1. CASE Len(ls) > Len(f.lines)
  BY <1>1 DEF Overwrite, FileContent
<1>2. CASE ~ (Len(ls) > Len(f.lines))
  <2> DEFINE h == [i \in 1 .. Len(f.lines) |-> IF i <= Len(ls) THEN ls[i] ELSE f.lines[i]]
  <2>1. h \in Seq(Line) /\ Len(h) = Len(f.lines)
    <3>1. \A i \in 1 .. Len(f.lines) : h[i] \in Line
      OBVIOUS
    <3> QED BY <3>1
  <2>2. Overwrite(f, ls) = [lines |-> h, tail |-> f.tail]
    BY <1>2 DEF Overwrite
  <2>3. Overwrite(f, ls) \in FileContent
    BY <2>1, <2>2 DEF FileContent
  <2>4. Overwrite(f, ls).lines = h
    BY <2>2
  <2> HIDE DEF h
  <2>5. \A i \in 1 .. Len(h) : \/ i <= Len(ls) /\ h[i] = ls[i]
                               \/ i <= Len(f.lines) /\ h[i] = f.lines[i]
    BY <2>1 DEF h
  <2> QED BY <2>3, <2>4, <2>5
<1> QED BY <1>1, <1>2

LEMMA RecoveredType ==
  ASSUME NEW f \in FileContent
  PROVE  Recovered(f) \in Seq(Line)
BY RecordsAreLines DEF Recovered, FileContent

-----------------------------------------------------------------------------
(* load *)

(* A set of numbers has a least one, and so induction over sets of numbers *)
(* holds.                                                                  *)
LEMMA LeastNumber ==
  ASSUME NEW T \in SUBSET Nat, T # {}
  PROVE  \E n \in T : \A m \in T : n <= m
<1> DEFINE R == OpToRel(<, Nat)
<1>1. IsWellFoundedOn(R, Nat)
  BY NatLessThanWellFounded, Zenon
<1>2. \A x, y \in Nat : <<y, x>> \in R <=> y < x
  BY DEF OpToRel
<1> HIDE DEF R
<1>3. PICK n \in T : \A m \in T : ~ (<<m, n>> \in R)
  <2>1. \E n \in T : \A m \in T : ~ (<<m, n>> \in R)
    BY <1>1, WFMin
  <2> QED BY <2>1
<1>4. \A m \in T : ~ (m < n)
  BY <1>2, <1>3
<1> QED BY <1>4

LEMMA InductionOnNat ==
  ASSUME NEW S \in SUBSET Nat, 0 \in S, \A n \in S : n + 1 \in S
  PROVE  S = Nat
<1> SUFFICES ASSUME Nat \ S # {} PROVE FALSE
  OBVIOUS
<1>1. PICK n \in Nat \ S : \A m \in Nat \ S : n <= m
  BY LeastNumber
<1>2. n - 1 \in Nat /\ n - 1 < n
  BY <1>1
<1>3. n - 1 \in S
  BY <1>1, <1>2
<1> QED BY <1>1, <1>2, <1>3

(* Max, which the library defines by a choice.                             *)
LEMMA MaxOfPlaces ==
  ASSUME NEW n \in Nat, NEW s \in SUBSET (1 .. n), s # {}
  PROVE  Max(s) \in s /\ \A i \in s : i <= Max(s)
<1> DEFINE T == {m \in 0 .. n : n - m \in s}
<1>1. T # {} /\ T \subseteq Nat
  <2>1. PICK i \in s : TRUE
    OBVIOUS
  <2>2. i \in 1 .. n /\ n - i \in 0 .. n /\ n - (n - i) = i
    BY <2>1
  <2>3. n - i \in T
    BY <2>1, <2>2
  <2>4. T \subseteq Nat
    OBVIOUS
  <2> QED BY <2>3, <2>4, Zenon
<1>2. PICK m \in T : \A k \in T : m <= k
  <2> HIDE DEF T
  <2> QED BY <1>1, LeastNumber
<1>3. n - m \in s /\ \A i \in s : n - m >= i
  <2>1. \A i \in s : n - i \in T
    OBVIOUS
  <2> QED BY <1>2, <2>1
<1> HIDE DEF T
<1>4. Max(s) = CHOOSE x \in s : \A y \in s : x >= y
  BY DEF Max
<1>5. Max(s) \in s /\ \A y \in s : Max(s) >= y
  BY <1>3, <1>4
<1> QED BY <1>5

(* The function FoldLeft folds with is one that exists: on sets of places   *)
(* up to k it can be told from the one on sets of places up to k - 1.       *)
IsFold(it, c, ls, k) ==
  it = [s \in SUBSET (1 .. k) |->
          IF s = {} THEN EmptyView ELSE Fold(c, it[s \ {Max(s)}], ls[Max(s)])]

LEMMA FoldExists ==
  ASSUME NEW c, NEW ls
  PROVE  \A n \in Nat : \E it : IsFold(it, c, ls, n)
<1> DEFINE S == {n \in Nat : \E it : IsFold(it, c, ls, n)}
<1>1. 0 \in S
  <2> DEFINE it == [s \in SUBSET (1 .. 0) |-> EmptyView]
  <2>1. \A s \in SUBSET (1 .. 0) : s = {}
    OBVIOUS
  <2>2. IsFold(it, c, ls, 0)
    BY <2>1 DEF IsFold
  <2> QED BY <2>2
<1>2. ASSUME NEW n \in S PROVE n + 1 \in S
  <2>1. PICK it : IsFold(it, c, ls, n)
    OBVIOUS
  <2> DEFINE jt == [s \in SUBSET (1 .. n + 1) |->
                      IF n + 1 \in s THEN Fold(c, it[s \ {n + 1}], ls[n + 1]) ELSE it[s]]
  <2>2. ASSUME NEW s \in SUBSET (1 .. n + 1)
        PROVE  jt[s] = IF s = {} THEN EmptyView ELSE Fold(c, jt[s \ {Max(s)}], ls[Max(s)])
    <3>1. CASE n + 1 \in s
      <4>1. Max(s) = n + 1
        <5>1. Max(s) \in s /\ \A i \in s : i <= Max(s)
          BY <3>1, MaxOfPlaces
        <5>2. Max(s) \in 1 .. n + 1 /\ n + 1 <= Max(s)
          BY <3>1, <5>1
        <5>3. n \in Nat
          OBVIOUS
        <5> QED BY <5>2, <5>3
      <4>2. s \ {n + 1} \in SUBSET (1 .. n + 1) /\ n + 1 \notin s \ {n + 1}
        OBVIOUS
      <4>3. jt[s \ {n + 1}] = it[s \ {n + 1}]
        BY <4>2, Zenon
      <4>4. jt[s] = Fold(c, it[s \ {n + 1}], ls[n + 1])
        BY <3>1, Zenon
      <4> QED BY <3>1, <4>1, <4>3, <4>4, Zenon
    <3>2. CASE n + 1 \notin s
      <4>1. s \in SUBSET (1 .. n)
        BY <3>2
      <4>2. jt[s] = it[s]
        BY <3>2, Zenon
      <4>3. it[s] = IF s = {} THEN EmptyView ELSE Fold(c, it[s \ {Max(s)}], ls[Max(s)])
        BY <2>1, <4>1, Zenon DEF IsFold
      <4>4. s \ {Max(s)} \in SUBSET (1 .. n + 1) /\ n + 1 \notin s \ {Max(s)}
        BY <3>2
      <4>5. jt[s \ {Max(s)}] = it[s \ {Max(s)}]
        BY <4>4, Zenon
      <4> QED BY <4>2, <4>3, <4>5, Zenon
    <3> QED BY <3>1, <3>2
  <2>3. IsFold(jt, c, ls, n + 1)
    <3>1. jt = [s \in SUBSET (1 .. n + 1) |-> jt[s]]
      BY Zenon
    <3>2. [s \in SUBSET (1 .. n + 1) |-> jt[s]]
            = [s \in SUBSET (1 .. n + 1) |->
                 IF s = {} THEN EmptyView ELSE Fold(c, jt[s \ {Max(s)}], ls[Max(s)])]
      <4> HIDE DEF jt
      <4> QED BY <2>2, Zenon
    <3> HIDE DEF jt
    <3> QED BY <3>1, <3>2, Zenon DEF IsFold
  <2> QED BY <2>3
<1>3. S = Nat
  <2> HIDE DEF S
  <2> QED BY <1>1, <1>2, InductionOnNat DEF S
<1> QED BY <1>3

(* load looks at one line after the other.                                 *)
LEMMA ReplayByLine ==
  ASSUME NEW ls, NEW n \in Nat, DOMAIN ls = 1 .. n
  PROVE  \E views : /\ views[0] = EmptyView
                    /\ views[n] = Replay(ls)
                    /\ \A k \in 1 .. n : views[k] = Fold(CancelledOps(ls), views[k - 1], ls[k])
<1> DEFINE c  == CancelledOps(ls)
           it == CHOOSE it : IsFold(it, c, ls, n)
<1>1. Replay(ls) = it[1 .. n]
  BY DEF Replay, FoldLeft, MapThenFoldSet, IsFold
<1>2. IsFold(it, c, ls, n)
  BY FoldExists
<1> HIDE DEF it
<1> DEFINE views == [k \in 0 .. n |-> it[1 .. k]]
<1>3. views[0] = EmptyView
  BY <1>2 DEF IsFold
<1>4. ASSUME NEW k \in 1 .. n PROVE views[k] = Fold(c, views[k - 1], ls[k])
  <2>0. k \in Nat /\ 1 <= k /\ k <= n /\ k \in 1 .. k
    OBVIOUS
  <2>1. Max(1 .. k) = k
    <3>0. 1 .. k \in SUBSET (1 .. k) /\ 1 .. k # {}
      BY <2>0
    <3>1. Max(1 .. k) \in 1 .. k /\ \A i \in 1 .. k : i <= Max(1 .. k)
      BY <2>0, <3>0, MaxOfPlaces
    <3> QED BY <2>0, <3>1
  <2>2. (1 .. k) \ {k} = 1 .. k - 1 /\ k - 1 \in 0 .. n /\ k \in 0 .. n
    OBVIOUS
  <2>3. 1 .. k \in SUBSET (1 .. n) /\ 1 .. k # {}
    BY <2>0
  <2>4. it[1 .. k] = Fold(c, it[(1 .. k) \ {Max(1 .. k)}], ls[Max(1 .. k)])
    BY <1>2, <2>3, Zenon DEF IsFold
  <2> QED BY <2>1, <2>2, <2>4
<1>5. views[n] = Replay(ls)
  BY <1>1
<1> QED BY <1>3, <1>4, <1>5

-----------------------------------------------------------------------------
(* What load shows *)

(* A log that load accepts has a Meta line.                                *)
IsView(v) == v = [meta |-> v.meta, messages |-> v.messages, projection |-> v.projection,
                  usage |-> v.usage, tools |-> v.tools, materialized |-> v.materialized]

LEMMA FoldView ==
  ASSUME NEW c, NEW v, NEW r, IsView(v)
  PROVE  /\ IsView(Fold(c, v, r))
         /\ r.kind # "meta" => Fold(c, v, r).meta = v.meta
<1>1. r.kind = "meta" => IsView(Fold(c, v, r))
  BY DEF Fold, IsView
<1>2. r.kind = "message" => IsView(Fold(c, v, r)) /\ Fold(c, v, r).meta = v.meta
  BY DEF Fold, IsView, Push
<1>3. r.kind = "snapshot" => IsView(Fold(c, v, r)) /\ Fold(c, v, r).meta = v.meta
  BY DEF Fold, IsView, TakeSnapshot
<1>4. r.kind = "projection" => IsView(Fold(c, v, r)) /\ Fold(c, v, r).meta = v.meta
  BY DEF Fold, IsView, TakeProjection
<1>5. r.kind = "usage" => IsView(Fold(c, v, r)) /\ Fold(c, v, r).meta = v.meta
  BY DEF Fold, IsView
<1>6. r.kind = "tool" => IsView(Fold(c, v, r)) /\ Fold(c, v, r).meta = v.meta
  BY DEF Fold, IsView
<1>7. r.kind = "stage" => IsView(Fold(c, v, r)) /\ Fold(c, v, r).meta = v.meta
  BY DEF Fold, IsView, Materialize, Push
<1>8. r.kind \notin {"meta", "message", "snapshot", "projection", "usage", "tool", "stage"}
        => IsView(Fold(c, v, r)) /\ Fold(c, v, r).meta = v.meta
  BY DEF Fold
<1> QED BY <1>1, <1>2, <1>3, <1>4, <1>5, <1>6, <1>7, <1>8

NoMetaView(v) == IsView(v) /\ v.meta = FALSE

LEMMA NoMetaIsSeen ==
  ASSUME NEW ls, NEW n \in Nat, DOMAIN ls = 1 .. n,
         \A i \in 1 .. n : ls[i].kind # "meta"
  PROVE  Replay(ls).meta = FALSE
<1>1. PICK views : /\ views[0] = EmptyView
                   /\ views[n] = Replay(ls)
                   /\ \A k \in 1 .. n : views[k] = Fold(CancelledOps(ls), views[k - 1], ls[k])
  BY ReplayByLine
<1> DEFINE S == {k \in Nat : k <= n => NoMetaView(views[k])}
<1>2. 0 \in S
  BY <1>1 DEF NoMetaView, IsView, EmptyView
<1>3. ASSUME NEW k \in S PROVE k + 1 \in S
  <2> SUFFICES ASSUME k + 1 <= n PROVE NoMetaView(views[k + 1])
    OBVIOUS
  <2>1. k \in Nat /\ k <= n /\ k + 1 \in 1 .. n /\ (k + 1) - 1 = k
    OBVIOUS
  <2>2. NoMetaView(views[k])
    BY <2>1
  <2>3. views[k + 1] = Fold(CancelledOps(ls), views[k], ls[k + 1]) /\ ls[k + 1].kind # "meta"
    BY <1>1, <2>1
  <2> QED BY <2>2, <2>3, FoldView DEF NoMetaView
<1>4. S = Nat
  <2> HIDE DEF S
  <2> QED BY <1>2, <1>3, InductionOnNat DEF S
<1>5. NoMetaView(views[n])
  BY <1>4
<1> QED BY <1>1, <1>5 DEF NoMetaView

(* Where messages and snapshots hold no content of an operation, load      *)
(* shows an operation once at most.                                        *)
PlainLine(l) ==
  /\ l.kind = "message" => l.message \notin Operations
  /\ l.kind = "snapshot" => ToSet(l.messages) \cap Operations = {}
  /\ l.kind = "stage" => l.message = l.op

OnceIn(messages) ==
  \A i, j \in 1 .. Len(messages) :
    i < j /\ messages[i] \in Operations => messages[i] # messages[j]

(* The operations shown so far are among those already materialized.       *)
OnceView(v) == /\ IsView(v) /\ v.messages \in Seq(Messages) /\ OnceIn(v.messages)
               /\ \A i \in 1 .. Len(v.messages) :
                    v.messages[i] \in Operations => v.messages[i] \in v.materialized

LEMMA PushedOnce ==
  ASSUME NEW v, OnceView(v), NEW m \in Messages, m \notin Operations \/ m \notin v.materialized
  PROVE  LET ms == Append(v.messages, m)
         IN /\ ms \in Seq(Messages) /\ OnceIn(ms)
            /\ \A i \in 1 .. Len(ms) :
                 ms[i] \in Operations => ms[i] \in v.materialized \cup {m}
<1> DEFINE s == v.messages
           ms == Append(s, m)
<1>1. s \in Seq(Messages) /\ OnceIn(s)
      /\ \A i \in 1 .. Len(s) : s[i] \in Operations => s[i] \in v.materialized
  BY DEF OnceView
<1> HIDE DEF s
<1>2. /\ ms \in Seq(Messages) /\ Len(ms) = Len(s) + 1 /\ Len(s) \in Nat
      /\ \A i \in 1 .. Len(s) : ms[i] = s[i]
      /\ ms[Len(s) + 1] = m
  BY <1>1, AppendProperties
<1> HIDE DEF ms
<1>3. ASSUME NEW i \in 1 .. Len(ms), ms[i] \in Operations
      PROVE  ms[i] \in v.materialized \cup {m}
  <2>1. CASE i \in 1 .. Len(s)
    BY <1>1, <1>2, <1>3, <2>1
  <2>2. CASE i = Len(s) + 1
    BY <1>2, <2>2
  <2> QED BY <1>2, <2>1, <2>2
<1>4. ASSUME NEW i \in 1 .. Len(ms), NEW j \in 1 .. Len(ms), i < j, ms[i] \in Operations
      PROVE  ms[i] # ms[j]
  <2>1. i \in 1 .. Len(s) /\ ms[i] = s[i]
    BY <1>2, <1>4
  <2>2. CASE j \in 1 .. Len(s)
    BY <1>1, <1>2, <1>4, <2>1, <2>2 DEF OnceIn
  <2>3. CASE j = Len(s) + 1
    <3>1. s[i] \in v.materialized /\ s[i] \in Operations
      BY <1>1, <1>4, <2>1
    <3>2. ms[j] = m
      BY <1>2, <2>3
    <3> QED BY <2>1, <3>1, <3>2
  <2> QED BY <1>2, <2>2, <2>3
<1>5. OnceIn(ms)
  BY <1>4 DEF OnceIn
<1> QED BY <1>2, <1>3, <1>5 DEF ms, s

LEMMA FoldOnce ==
  ASSUME NEW c, NEW v, OnceView(v), NEW r \in Line, PlainLine(r)
  PROVE  OnceView(Fold(c, v, r))
<1> DEFINE w == Fold(c, v, r)
<1>0. IsView(v) /\ IsView(w)
  BY FoldView DEF OnceView
<1>1. /\ r.kind = "message" => r.message \in Messages
      /\ r.kind = "snapshot" => r.messages \in Seq(Messages)
      /\ r.kind = "stage" => r.op \in Operations /\ r.message \in Messages
  BY DEF Line, LogRecord, Meta, Tool, Note, Garbage, BadUtf8, Blank
<1> DEFINE Same == w.messages = v.messages /\ w.materialized = v.materialized
<1>2. ASSUME Same PROVE OnceView(w)
  <2> HIDE DEF w
  <2> QED BY <1>0, <1>2 DEF OnceView
<1>3. CASE r.kind = "message"
  <2>1. r.message \in Messages /\ r.message \notin Operations
    BY <1>1, <1>3 DEF PlainLine
  <2>2. w.messages = Append(v.messages, r.message) /\ w.materialized = v.materialized
    BY <1>0, <1>3 DEF Fold, Push, IsView
  <2> DEFINE ms == Append(v.messages, r.message)
  <2>3. /\ ms \in Seq(Messages) /\ OnceIn(ms)
        /\ \A i \in 1 .. Len(ms) :
             ms[i] \in Operations => ms[i] \in v.materialized \cup {r.message}
    BY <2>1, PushedOnce
  <2> HIDE DEF w, ms
  <2>4. \A i \in 1 .. Len(ms) : ms[i] \in Operations => ms[i] \in v.materialized
    BY <2>1, <2>3
  <2>5. w.messages = ms
    BY <2>2 DEF ms
  <2>6. OnceView(w)
    BY <1>0, <2>2, <2>3, <2>4, <2>5 DEF OnceView
  <2> QED BY <2>6 DEF w
<1>4. CASE r.kind = "stage" /\ r.op \notin c \cup v.materialized
  <2>1. r.message \in Messages /\ r.message = r.op /\ r.message \notin v.materialized
    BY <1>1, <1>4 DEF PlainLine
  <2>2. /\ w.messages = Append(v.messages, r.message)
        /\ w.materialized = v.materialized \cup {r.message}
    BY <1>0, <1>4, <2>1 DEF Fold, Materialize, Push, IsView
  <2> DEFINE ms == Append(v.messages, r.message)
  <2>3. /\ ms \in Seq(Messages) /\ OnceIn(ms)
        /\ \A i \in 1 .. Len(ms) :
             ms[i] \in Operations => ms[i] \in v.materialized \cup {r.message}
    BY <2>1, PushedOnce
  <2> HIDE DEF w, ms
  <2>4. w.messages = ms
    BY <2>2 DEF ms
  <2>5. OnceView(w)
    BY <1>0, <2>2, <2>3, <2>4 DEF OnceView
  <2> QED BY <2>5 DEF w
<1>5. CASE r.kind = "stage" /\ r.op \in c \cup v.materialized
  <2>1. Same
    BY <1>5 DEF Fold, Materialize
  <2> QED BY <1>2, <2>1
<1>6. CASE r.kind = "snapshot"
  <2>1. w.messages = r.messages /\ w.materialized = v.materialized
    BY <1>0, <1>6 DEF Fold, TakeSnapshot, IsView
  <2>2. r.messages \in Seq(Messages) /\ ToSet(r.messages) \cap Operations = {}
    BY <1>1, <1>6 DEF PlainLine
  <2>3. \A i \in 1 .. Len(r.messages) : r.messages[i] \notin Operations
    BY <2>2 DEF ToSet
  <2> HIDE DEF w
  <2>4. OnceView(w)
    BY <1>0, <2>1, <2>2, <2>3 DEF OnceView, OnceIn
  <2> QED BY <2>4 DEF w
<1>7. CASE r.kind = "projection"
  <2>1. Same
    BY <1>0, <1>7 DEF Fold, TakeProjection, IsView
  <2> QED BY <1>2, <2>1
<1>8. CASE r.kind \in {"meta", "usage", "tool"}
  <2>1. Same
    BY <1>0, <1>8 DEF Fold, IsView
  <2> QED BY <1>2, <2>1
<1>9. CASE r.kind \notin {"meta", "usage", "tool", "projection", "snapshot", "stage", "message"}
  <2>1. Same
    BY <1>9 DEF Fold
  <2> QED BY <1>2, <2>1
<1> QED BY <1>3, <1>4, <1>5, <1>6, <1>7, <1>8, <1>9

LEMMA ShownOnce ==
  ASSUME NEW ls \in Seq(Line), \A i \in 1 .. Len(ls) : PlainLine(ls[i])
  PROVE  OnceIn(Replay(ls).messages)
<1> DEFINE n == Len(ls)
<1>0. n \in Nat /\ DOMAIN ls = 1 .. n /\ \A i \in 1 .. n : ls[i] \in Line
  OBVIOUS
<1> HIDE DEF n
<1>1. PICK views : /\ views[0] = EmptyView
                   /\ views[n] = Replay(ls)
                   /\ \A k \in 1 .. n : views[k] = Fold(CancelledOps(ls), views[k - 1], ls[k])
  BY <1>0, ReplayByLine
<1> DEFINE S == {k \in Nat : k <= n => OnceView(views[k])}
<1>2. 0 \in S
  <2>1. IsView(EmptyView) /\ EmptyView.messages = <<>>
    BY DEF IsView, EmptyView
  <2>2. <<>> \in Seq(Messages) /\ Len(<<>>) = 0
    BY EmptySeq
  <2>3. OnceView(EmptyView)
    BY <2>1, <2>2 DEF OnceView, OnceIn
  <2> QED BY <1>1, <2>3
<1>3. ASSUME NEW k \in S PROVE k + 1 \in S
  <2> SUFFICES ASSUME k + 1 <= n PROVE OnceView(views[k + 1])
    OBVIOUS
  <2>1. k \in Nat /\ k <= n /\ k + 1 \in 1 .. n /\ (k + 1) - 1 = k
    BY <1>0
  <2>2. OnceView(views[k])
    BY <2>1
  <2>3. /\ views[k + 1] = Fold(CancelledOps(ls), views[k], ls[k + 1])
        /\ ls[k + 1] \in Line /\ PlainLine(ls[k + 1])
    BY <1>0, <1>1, <2>1 DEF n
  <2> QED BY <2>2, <2>3, FoldOnce
<1>4. S = Nat
  <2> HIDE DEF S
  <2> QED BY <1>2, <1>3, InductionOnNat DEF S
<1>5. OnceView(views[n])
  BY <1>0, <1>4
<1> QED BY <1>1, <1>5 DEF OnceView

-----------------------------------------------------------------------------
(* What every way of writing the file leaves it *)

(* The lines of a session's log: nothing but the first is Meta, and only   *)
(* stage records hold the content of an operation.                         *)
Plain == {l \in Line : PlainLine(l)}
Later == Plain \ {Meta}

IsLog(ls) == /\ ls \in Seq(Plain)
             /\ \A i \in 1 .. Len(ls) : ls[i] = Meta => i = 1

IsLogFile(f) == /\ f \in FileContent /\ IsLog(f.lines)
                /\ \A i \in 1 .. Len(f.tail) : f.tail[i].reads \in Later

LEMMA LaterLines ==
  /\ {Garbage, BadUtf8, Blank} \subseteq Later
  /\ Later \subseteq Plain /\ Plain \subseteq Line /\ Meta \notin Later
BY RecordsAreLines DEF Later, Plain, PlainLine, Garbage, BadUtf8, Blank, Meta

LEMMA EmptyIsLogFile == IsLogFile(EmptyFile)
<1>1. Len(<<>>) = 0 /\ <<>> \in Seq(Plain)
  BY EmptySeq
<1> QED BY <1>1, EmptyFileType DEF IsLogFile, IsLog, EmptyFile

(* A log followed by lines that are not Meta is a log.                     *)
LEMMA LogExtended ==
  ASSUME NEW ls, IsLog(ls), NEW gs \in Seq(Line), Len(ls) <= Len(gs),
         \A i \in 1 .. Len(ls) : gs[i] = ls[i],
         \A i \in Len(ls) + 1 .. Len(gs) : gs[i] \in Later
  PROVE  IsLog(gs)
<1>1. ls \in Seq(Plain) /\ Len(ls) \in Nat /\ Len(gs) \in Nat
  BY LenProperties DEF IsLog
<1>2. ASSUME NEW i \in 1 .. Len(gs)
      PROVE  gs[i] \in Plain /\ (gs[i] = Meta => i = 1)
  <2>1. CASE i \in 1 .. Len(ls)
    <3>1. ls[i] \in Plain
      BY <1>1, <2>1, ElementOfSeq
    <3> QED BY <2>1, <3>1 DEF IsLog
  <2>2. CASE i \in Len(ls) + 1 .. Len(gs)
    <3>1. gs[i] \in Later
      BY <2>2
    <3> QED BY <3>1, LaterLines
  <2> QED BY <1>1, <2>1, <2>2
<1>3. gs \in Seq(Plain)
  BY <1>1, <1>2
<1> QED BY <1>2, <1>3 DEF IsLog

LEMMA AppendedLog ==
  ASSUME NEW f, IsLogFile(f), NEW rs \in Seq(Later)
  PROVE  IsLogFile(AppendLines(f, rs))
<1> DEFINE g == AppendLines(f, rs)
<1>1. f \in FileContent /\ rs \in Seq(Line) /\ IsLog(f.lines)
      /\ \A i \in 1 .. Len(rs) : rs[i] \in Later
  BY LaterLines DEF IsLogFile
<1>2. f.lines \in Seq(Line) /\ Len(f.lines) \in Nat /\ Len(rs) \in Nat
  BY <1>1 DEF FileContent
<1>3. g.tail = f.tail \/ g.tail = <<>>
  BY DEF AppendLines
<1> HIDE DEF g
<1>4. /\ g \in FileContent
      /\ Len(g.lines) = Len(f.lines) + Len(rs)
      /\ \A i \in 1 .. Len(f.lines) : g.lines[i] = f.lines[i]
      /\ \A i \in 1 .. Len(rs) : g.lines[Len(f.lines) + i] \in {rs[i], Garbage, BadUtf8}
  BY <1>1, AppendLinesGrows DEF g
<1>5. g.lines \in Seq(Line)
  BY <1>4 DEF FileContent
<1>6. ASSUME NEW i \in Len(f.lines) + 1 .. Len(g.lines)
      PROVE  g.lines[i] \in Later
  <2>1. i - Len(f.lines) \in 1 .. Len(rs) /\ Len(f.lines) + (i - Len(f.lines)) = i
    BY <1>2, <1>4
  <2>2. g.lines[i] \in {rs[i - Len(f.lines)], Garbage, BadUtf8}
    BY <1>4, <2>1
  <2> QED BY <1>1, <2>1, <2>2, LaterLines
<1>7. IsLog(g.lines)
  <2>1. Len(f.lines) <= Len(g.lines)
    BY <1>2, <1>4
  <2> QED BY <1>1, <1>4, <1>5, <1>6, <2>1, LogExtended
<1>8. \A i \in 1 .. Len(g.tail) : g.tail[i].reads \in Later
  <2>1. Len(<<>>) = 0
    BY EmptySeq
  <2> QED BY <1>3, <2>1 DEF IsLogFile
<1> QED BY <1>4, <1>7, <1>8 DEF IsLogFile, g

LEMMA CompletedLog ==
  ASSUME NEW f, IsLogFile(f), NEW r \in Later
  PROVE  IsLogFile(CompleteTail(f, r))
<1> DEFINE g == CompleteTail(f, r)
<1>1. f \in FileContent /\ r \in Line /\ IsLog(f.lines)
  BY LaterLines DEF IsLogFile
<1>2. f.lines \in Seq(Line) /\ Len(f.lines) \in Nat
  BY <1>1 DEF FileContent
<1>3. g.tail = f.tail \/ g.tail = <<>>
  BY DEF CompleteTail, AppendLines
<1> HIDE DEF g
<1>4. /\ g \in FileContent
      /\ Len(g.lines) = Len(f.lines) + 1
      /\ \A i \in 1 .. Len(f.lines) : g.lines[i] = f.lines[i]
      /\ g.lines[Len(f.lines) + 1] \in {r, Garbage, BadUtf8}
  BY <1>1, CompleteTailGrows DEF g
<1>5. g.lines \in Seq(Line)
  BY <1>4 DEF FileContent
<1>6. \A i \in Len(f.lines) + 1 .. Len(g.lines) : g.lines[i] \in Later
  <2>1. g.lines[Len(f.lines) + 1] \in Later
    BY <1>4, LaterLines
  <2> QED BY <1>2, <1>4, <2>1
<1>7. IsLog(g.lines)
  <2>1. Len(f.lines) <= Len(g.lines)
    BY <1>2, <1>4
  <2> QED BY <1>1, <1>4, <1>5, <1>6, <2>1, LogExtended
<1>8. \A i \in 1 .. Len(g.tail) : g.tail[i].reads \in Later
  <2>1. Len(<<>>) = 0
    BY EmptySeq
  <2> QED BY <1>3, <2>1 DEF IsLogFile
<1> QED BY <1>4, <1>7, <1>8 DEF IsLogFile, g

LEMMA CutLog ==
  ASSUME NEW f, IsLogFile(f), NEW n \in Nat
  PROVE  IsLogFile(SetLen(f, n))
<1>1. f \in FileContent /\ IsLog(f.lines) /\ f.lines \in Seq(Plain)
  BY DEF IsLogFile, IsLog
<1>2. SetLen(f, n) \in FileContent
  BY <1>1, SetLenType
<1>3. CASE n <= Len(f.lines)
  <2> DEFINE h == SubSeq(f.lines, 1, n)
  <2>1. SetLen(f, n) = [lines |-> h, tail |-> <<>>]
    BY <1>3 DEF SetLen
  <2>2. Len(f.lines) \in Nat
    BY <1>1, LenProperties
  <2>3. h \in Seq(Plain) /\ Len(h) = n /\ \A i \in 1 .. n : h[i] = f.lines[i]
    BY <1>1, <1>3, <2>2
  <2> HIDE DEF h
  <2>4. IsLog(h)
    BY <1>1, <1>3, <2>2, <2>3 DEF IsLog
  <2>5. SetLen(f, n).lines = h /\ SetLen(f, n).tail = <<>> /\ Len(<<>>) = 0
    BY <2>1
  <2> QED BY <1>2, <2>4, <2>5 DEF IsLogFile
<1>4. CASE ~ (n <= Len(f.lines))
  <2>1. SetLen(f, n) = [lines |-> f.lines,
                        tail  |-> <<[whole |-> Garbage, reads |-> Garbage]>>]
    BY <1>4 DEF SetLen
  <2> DEFINE p == [whole |-> Garbage, reads |-> Garbage]
  <2>2. Len(<<p>>) = 1 /\ <<p>>[1] = p /\ p.reads = Garbage
    OBVIOUS
  <2>3. SetLen(f, n).lines = f.lines /\ SetLen(f, n).tail = <<p>>
    BY <2>1
  <2> HIDE DEF p
  <2>4. \A i \in 1 .. Len(<<p>>) : <<p>>[i].reads \in Later
    BY <2>2, LaterLines
  <2> QED BY <1>1, <1>2, <2>3, <2>4 DEF IsLogFile
<1> QED BY <1>3, <1>4

LEMMA OverwrittenLog ==
  ASSUME NEW f, IsLogFile(f), NEW ls, IsLog(ls)
  PROVE  IsLogFile(Overwrite(f, ls))
<1> DEFINE g == Overwrite(f, ls)
<1>1. f \in FileContent /\ IsLog(f.lines) /\ f.lines \in Seq(Plain) /\ ls \in Seq(Plain)
  BY DEF IsLogFile, IsLog
<1>2. ls \in Seq(Line) /\ Len(ls) \in Nat /\ Len(f.lines) \in Nat
  BY <1>1, LaterLines, LenProperties
<1>3. g.tail = f.tail \/ g.tail = <<>>
  BY DEF Overwrite
<1> HIDE DEF g
<1>4. /\ g \in FileContent
      /\ \A i \in 1 .. Len(g.lines) : \/ i <= Len(ls) /\ g.lines[i] = ls[i]
                                      \/ i <= Len(f.lines) /\ g.lines[i] = f.lines[i]
  BY <1>1, <1>2, OverwriteType DEF g
<1>5. g.lines \in Seq(Line) /\ Len(g.lines) \in Nat
  BY <1>4, LenProperties DEF FileContent
<1>6. ASSUME NEW i \in 1 .. Len(g.lines)
      PROVE  g.lines[i] \in Plain /\ (g.lines[i] = Meta => i = 1)
  <2>1. CASE i <= Len(ls) /\ g.lines[i] = ls[i]
    <3>1. i \in 1 .. Len(ls)
      BY <1>2, <1>5, <2>1
    <3> QED BY <1>1, <2>1, <3>1, ElementOfSeq DEF IsLog
  <2>2. CASE i <= Len(f.lines) /\ g.lines[i] = f.lines[i]
    <3>1. i \in 1 .. Len(f.lines)
      BY <1>2, <1>5, <2>2
    <3> QED BY <1>1, <2>2, <3>1, ElementOfSeq DEF IsLog
  <2> QED BY <1>4, <2>1, <2>2
<1>7. g.lines \in Seq(Plain)
  BY <1>5, <1>6
<1>8. \A i \in 1 .. Len(g.tail) : g.tail[i].reads \in Later
  <2>1. Len(<<>>) = 0
    BY EmptySeq
  <2> QED BY <1>3, <2>1 DEF IsLogFile
<1> QED BY <1>4, <1>6, <1>7, <1>8 DEF IsLogFile, IsLog, g

LEMMA RecoveredLog ==
  ASSUME NEW f, IsLogFile(f)
  PROVE  IsLog(Recovered(f))
<1>1. IsLog(<<>>)
  BY EmptyIsLogFile DEF IsLogFile, EmptyFile
<1>2. IsLog(<<Blank>>)
  <2>1. Blank \in Plain /\ Blank # Meta
    BY LaterLines
  <2>2. <<Blank>> \in Seq(Plain) /\ Len(<<Blank>>) = 1 /\ <<Blank>>[1] = Blank
    BY <2>1
  <2> QED BY <2>1, <2>2 DEF IsLog
<1> QED BY <1>1, <1>2 DEF Recovered, IsLogFile

LEMMA TextIsLog ==
  ASSUME NEW f, IsLogFile(f)
  PROVE  IsLog(Text(f))
<1>1. f \in FileContent /\ IsLog(f.lines)
      /\ \A i \in 1 .. Len(f.tail) : f.tail[i].reads \in Later
  BY DEF IsLogFile
<1>2. f.lines \in Seq(Line) /\ Len(f.lines) \in Nat /\ Len(f.tail) \in Nat
  BY <1>1, LenProperties DEF FileContent
<1> DEFINE reads == [i \in 1 .. Len(f.tail) |-> f.tail[i].reads]
<1>3. reads \in Seq(Line) /\ Len(reads) = Len(f.tail)
      /\ \A i \in 1 .. Len(reads) : reads[i] \in Later
  BY <1>1, <1>2, LaterLines
<1> DEFINE gs == Text(f)
<1>4. gs = f.lines \o reads
  BY DEF Text
<1> HIDE DEF reads, gs
<1>5. gs \in Seq(Line)
  BY <1>2, <1>3, <1>4
<1>6. Len(gs) = Len(f.lines) + Len(reads) /\ Len(reads) \in Nat
  <2>1. Len(f.lines \o reads) = Len(f.lines) + Len(reads)
    BY <1>2, <1>3, ConcatProperties
  <2> QED BY <1>2, <1>3, <1>4, <2>1
<1>7. ASSUME NEW i \in Len(f.lines) + 1 .. Len(gs) PROVE gs[i] \in Later
  <2>1. i - Len(f.lines) \in 1 .. Len(reads) /\ ~ (i <= Len(f.lines)) /\ i \in 1 .. Len(gs)
    BY <1>2, <1>6
  <2>2. gs[i] = reads[i - Len(f.lines)]
    BY <1>2, <1>3, <1>4, <1>6, <2>1
  <2> QED BY <1>3, <2>1, <2>2
<1>8. \A i \in 1 .. Len(f.lines) : gs[i] = f.lines[i]
  BY <1>2, <1>3, <1>4
<1>9. Len(f.lines) <= Len(gs)
  BY <1>2, <1>6
<1>10. IsLog(gs)
  BY <1>1, <1>5, <1>7, <1>8, <1>9, LogExtended
<1> QED BY <1>10 DEF gs

(* What load accepts, list shows.                                          *)
LEMMA LoadedLogIsListed ==
  ASSUME NEW f, IsLogFile(f), Loads(f)
  PROVE  Listed(f)
<1> DEFINE text == Text(f)
<1>1. IsLog(text)
  BY TextIsLog
<1>2. /\ \A i \in 1 .. Len(text) : text[i] # BadUtf8
      /\ Replay(text).meta # FALSE
  <2>1. LoadError(f) = "none"
    BY DEF Loads
  <2>2. \A i \in 1 .. Len(text) : text[i] # BadUtf8
    BY <2>1 DEF LoadError
  <2>3. \A i \in 1 .. Len(text) : text[i] # Garbage
    BY <2>1, <2>2 DEF LoadError
  <2>4. Replay(text).meta # FALSE
    BY <2>1, <2>2, <2>3 DEF LoadError
  <2> QED BY <2>2, <2>4
<1> HIDE DEF text
<1>3. text \in Seq(Line) /\ Len(text) \in Nat /\ DOMAIN text = 1 .. Len(text)
  BY <1>1, LaterLines, LenProperties DEF IsLog
<1>4. PICK i \in 1 .. Len(text) : text[i].kind = "meta"
  BY <1>2, <1>3, NoMetaIsSeen
<1>5. text[i] = Meta
  <2>1. text[i] \in Line
    BY <1>3, ElementOfSeq
  <2> QED BY <1>4, <2>1 DEF Line, LogRecord, Meta, Tool, Note, Garbage, BadUtf8, Blank
<1>6. i = 1 /\ text[1] = Meta
  BY <1>1, <1>5 DEF IsLog
<1>7. text # <<>>
  <2>1. Len(<<>>) = 0
    BY EmptySeq
  <2> QED BY <1>6, <2>1
<1> QED BY <1>2, <1>6, <1>7 DEF Listed, text

LEMMA LogShowsOnce ==
  ASSUME NEW f, IsLogFile(f)
  PROVE  OnceIn(Replay(Text(f)).messages)
<1> DEFINE text == Text(f)
<1>1. IsLog(text)
  BY TextIsLog
<1> HIDE DEF text
<1>2. text \in Seq(Plain) /\ Len(text) \in Nat
  BY <1>1, LenProperties DEF IsLog
<1>3. text \in Seq(Line)
  BY <1>2, LaterLines
<1>4. \A i \in 1 .. Len(text) : PlainLine(text[i])
  BY <1>2, ElementOfSeq DEF Plain
<1> QED BY <1>3, <1>4, ShownOnce DEF text

-----------------------------------------------------------------------------
(* The tasks *)

(* A task on its way to a write has something to write, and one that looks *)
(* for a record on file has the operation to look for.                     *)
HasRest ==
  \A t \in Tasks :
    /\ pc[t] \in {"wait", "scan", "repair", "open", "write", "cut"} => job[t].rest # <<>>
    /\ pc[t] = "wait" => job[t].call = "append" \/ job[t].records[1].op \in Operations
    /\ pc[t] = "scan" => job[t].records[1].op \in Operations

TypeInv == TypeOK /\ HasRest

-----------------------------------------------------------------------------
LEMMA StageIsRecord ==
  ASSUME NEW op \in Operations
  PROVE  <<Stage(op, op)>> \in Seq(LogRecord) /\ <<Cancel(op)>> \in Seq(LogRecord)
<1>1. op \in Messages
  BY RecordsAssumption
<1>2. Stage(op, op) \in LogRecord
  BY <1>1 DEF Stage, LogRecord
<1>3. Cancel(op) \in LogRecord
  BY DEF Cancel, LogRecord
<1> QED BY <1>2, <1>3

LEMMA BatchIsRecords ==
  ASSUME calls < MaxCalls, calls \in Nat, NEW n \in 1 .. MaxBatch
  PROVE  /\ [i \in 1 .. n |-> Message(<<calls + 1, i>>)] \in Seq(LogRecord)
         /\ [i \in 1 .. n |-> Message(<<calls + 1, i>>)] # <<>>
<1> DEFINE b == [i \in 1 .. n |-> Message(<<calls + 1, i>>)]
<1>1. n \in Nat \ {0}
  BY BoundsAssumption
<1>2. ASSUME NEW i \in 1 .. n
      PROVE  Message(<<calls + 1, i>>) \in LogRecord
  <2>1. <<calls + 1, i>> \in (1 .. MaxCalls) \X (1 .. MaxBatch)
    BY BoundsAssumption
  <2>2. <<calls + 1, i>> \in Messages
    BY <2>1, RecordsAssumption
  <2> QED BY <2>2 DEF Message, LogRecord
<1>3. b \in Seq(LogRecord)
  BY <1>1, <1>2
<1>4. Len(b) = n
  BY <1>1
<1> QED BY <1>1, <1>3, <1>4

LEMMA SeqOfRecordsIsSeqOfLines ==
  ASSUME NEW rs \in Seq(LogRecord)
  PROVE  rs \in Seq(Line)
BY RecordsAreLines

LEMMA TailType ==
  ASSUME NEW rs \in Seq(LogRecord), Len(rs) > 1
  PROVE  Tail(rs) \in Seq(LogRecord) /\ Tail(rs) # <<>>
<1>1. Tail(rs) \in Seq(LogRecord) /\ Len(Tail(rs)) = Len(rs) - 1 /\ Len(rs) \in Nat
  OBVIOUS
<1>2. Len(Tail(rs)) # 0
  BY <1>1
<1>3. Tail(rs) # <<>>
  <2>1. Len(<<>>) = 0
    OBVIOUS
  <2> QED BY <1>2, <2>1
<1> QED BY <1>1, <1>3

LEMMA CutType ==
  ASSUME NEW f \in FileContent
  PROVE  /\ Len(f.lines) \in Nat
         /\ [f EXCEPT !.tail = <<>>] = [lines |-> f.lines, tail |-> <<>>]
         /\ [f EXCEPT !.tail = <<>>] \in FileContent
<1>1. f.lines \in Seq(Line)
  BY DEF FileContent
<1>2. [f EXCEPT !.tail = <<>>] = [lines |-> f.lines, tail |-> <<>>]
  BY DEF FileContent
<1>3. Len(f.lines) \in Nat
  BY <1>1
<1>4. [lines |-> f.lines, tail |-> <<>>] \in FileContent
  BY <1>1 DEF FileContent
<1> QED BY <1>2, <1>3, <1>4

LEMMA ToSetType ==
  ASSUME NEW rs \in Seq(LogRecord)
  PROVE  ToSet(rs) \subseteq LogRecord
BY DEF ToSet

LEMMA ContentType ==
  ASSUME TypeOK, NEW i \in Inodes \cup {NoFile}
  PROVE  Content(i) \in FileContent
BY EmptyFileType DEF TypeOK, Content

LEMMA BeginType ==
  ASSUME TypeInv, NEW t \in Tasks, NEW call \in AllCalls \cup {"create"},
         NEW at \in Places, NEW rs \in Seq(LogRecord),
         at \in {"recover", "copy", "tmpopen", "wait"},
         at = "wait" => rs # <<>> /\ (call = "append" \/ rs[1].op \in Operations),
         Begin(t, call, at, rs)
  PROVE  TypeInv'
<1> USE DEF TypeInv, TypeOK, Begin, disk
<1>1. calls' \in 0 .. MaxCalls
  BY BoundsAssumption
<1>2. [call |-> call, records |-> rs, rest |-> rs] \in Job
  BY DEF Job
<1>3. TypeOK'
  BY <1>1, <1>2
<1>4. HasRest'
  <2>1. job'[t] = [call |-> call, records |-> rs, rest |-> rs] /\ pc'[t] = at
        /\ \A u \in Tasks \ {t} : pc'[u] = pc[u] /\ job'[u] = job[u]
    OBVIOUS
  <2> QED BY <2>1 DEF HasRest
<1> QED BY <1>3, <1>4

LEMMA EndType ==
  ASSUME TypeInv, NEW t \in Tasks, End(t)
  PROVE  /\ pc' \in [Tasks -> Places] /\ job' \in [Tasks -> Job]
         /\ read' \in [Tasks -> FileContent] /\ fd' \in [Tasks -> Inodes \cup {NoFile}]
         /\ HasRest'
<1> USE DEF TypeInv, TypeOK, End
<1>1. NoJob \in Job
  BY DEF NoJob, Job
<1>2. "idle" \in Places
  BY DEF Places
<1>3. HasRest'
  BY DEF HasRest
<1> QED BY <1>1, <1>2, <1>3, EmptyFileType

LEMMA FoundOrOpenType ==
  ASSUME TypeInv, NEW t \in Tasks, pc[t] \in {"scan", "repair"},
         NEW seen \in FileContent, FoundOrOpen(t, seen)
  PROVE  /\ pc' \in [Tasks -> Places] /\ job' \in [Tasks -> Job]
         /\ read' \in [Tasks -> FileContent] /\ fd' \in [Tasks -> Inodes \cup {NoFile}]
         /\ holder' \in [Keys -> Tasks \cup {NoTask}] /\ acked' \subseteq LogRecord
         /\ HasRest'
<1>1. CASE HasDurableId(seen.lines, DedupKey(t))
  <2>1. End(t) /\ Release(t) /\ Ack(t)
    BY <1>1 DEF FoundOrOpen
  <2>2. acked' \subseteq LogRecord
    BY <2>1, ToSetType DEF Ack, TypeInv, TypeOK, Job
  <2>3. holder' \in [Keys -> Tasks \cup {NoTask}]
    BY <2>1 DEF Release, TypeInv, TypeOK
  <2> QED BY <2>1, <2>2, <2>3, EndType
<1>2. CASE ~ HasDurableId(seen.lines, DedupKey(t))
  <2>1. Goto(t, "open") /\ read' = [read EXCEPT ![t] = seen]
        /\ UNCHANGED <<holder, job, fd, acked>>
    BY <1>2 DEF FoundOrOpen
  <2>2. "open" \in Places
    BY DEF Places, Critical
  <2>3. HasRest'
    BY <2>1 DEF Goto, HasRest, TypeInv, TypeOK
  <2> QED BY <2>1, <2>2, <2>3 DEF Goto, TypeInv, TypeOK
<1> QED BY <1>1, <1>2

LEMMA CallType ==
  ASSUME TypeInv, NEW t \in Tasks, Call(t) \/ Delete(t)
  PROVE  TypeInv'
<1> {"wait", "recover", "copy", "tmpopen"} \subseteq Places
  BY DEF Places
<1> AllCalls \subseteq AllCalls \cup {"create"}
  OBVIOUS
<1>1. CASE CallCreate(t)
  <2>1. <<Meta>> \in Seq(LogRecord)
    BY RecordsAreLines
  <2> QED BY <1>1, <2>1, BeginType DEF CallCreate
<1>2. CASE CallAppend(t)
  <2>1. PICK n \in 1 .. MaxBatch :
          Begin(t, "append", "wait", [i \in 1 .. n |-> Message(<<calls + 1, i>>)])
    BY <1>2 DEF CallAppend
  <2>2. calls < MaxCalls /\ calls \in Nat
    BY <2>1, BoundsAssumption DEF Begin, TypeInv, TypeOK
  <2> DEFINE batch == [i \in 1 .. n |-> Message(<<calls + 1, i>>)]
  <2>3. batch \in Seq(LogRecord) /\ batch # <<>>
    BY <2>2, BatchIsRecords
  <2>4. "append" \in AllCalls
    BY DEF AllCalls
  <2> HIDE DEF batch
  <2>5. Begin(t, "append", "wait", batch)
    BY <2>1 DEF batch
  <2> QED BY <2>3, <2>4, <2>5, BeginType
<1>3. CASE CallStage(t)
  <2>1. PICK op \in Operations : Begin(t, "stage", "wait", <<Stage(op, op)>>)
    BY <1>3 DEF CallStage
  <2>2. "stage" \in AllCalls /\ <<Stage(op, op)>> # <<>>
        /\ <<Stage(op, op)>>[1].op \in Operations
    BY DEF AllCalls, Stage
  <2> QED BY <2>1, <2>2, StageIsRecord, BeginType
<1>4. CASE CallCancel(t)
  <2>1. PICK op \in Operations : Begin(t, "cancel", "wait", <<Cancel(op)>>)
    BY <1>4 DEF CallCancel
  <2>2. "cancel" \in AllCalls /\ <<Cancel(op)>> # <<>>
        /\ <<Cancel(op)>>[1].op \in Operations
    BY DEF AllCalls, Cancel
  <2> QED BY <2>1, <2>2, StageIsRecord, BeginType
<1>5. CASE CallRecover(t)
  <2>1. "recover" \in AllCalls /\ <<>> \in Seq(LogRecord)
    BY DEF AllCalls
  <2> QED BY <1>5, <2>1, BeginType DEF CallRecover
<1>6. CASE CallArchive(t)
  <2>1. "archive" \in AllCalls /\ <<>> \in Seq(LogRecord)
    BY DEF AllCalls
  <2> QED BY <1>6, <2>1, BeginType DEF CallArchive
<1>7. CASE CallRewrite(t)
  <2>1. PICK body \in Rewrites : Begin(t, "rewrite", "tmpopen", body)
    BY <1>7 DEF CallRewrite
  <2>2. "rewrite" \in AllCalls /\ body \in Seq(LogRecord)
    BY RecordsAssumption DEF AllCalls
  <2> QED BY <2>1, <2>2, BeginType
<1>8. CASE Delete(t)
  <2>1. calls' \in 0 .. MaxCalls
    BY <1>8, BoundsAssumption DEF Delete, TypeInv, TypeOK
  <2> QED BY <1>8, <2>1 DEF Delete, local, TypeInv, TypeOK, HasRest
<1> QED BY <1>1, <1>2, <1>3, <1>4, <1>5, <1>6, <1>7, <1>8 DEF Call

LEMMA OpensType ==
  ASSUME TypeOK, NEW name \in Inodes \cup {NoFile}
  PROVE  Opens(name) \subseteq Inodes
BY DEF Opens

LEMMA LockedType ==
  ASSUME TypeInv, NEW t \in Tasks,
         Acquire(t) \/ LockedStep(t) \/ ReadFails(t) \/ Abort(t) \/ Drop(t)
  PROVE  TypeInv'
<1> USE DEF TypeInv
<1>1. CASE Acquire(t)
  <2>1. {"open", "scan"} \subseteq Places
    BY DEF Places, Critical
  <2>2. TypeOK'
    BY <1>1, <2>1 DEF Acquire, Goto, disk, spent, TypeOK
  <2>3. HasRest'
    BY <1>1 DEF Acquire, Goto, TypeOK, HasRest
  <2> QED BY <2>2, <2>3
<1>2. CASE Scan(t)
  <2>1. File \in FileContent
    BY ContentType DEF File, TypeOK
  <2>2. CASE File.tail = <<>>
    <3>1. FoundOrOpen(t, File) /\ pc[t] \in {"scan", "repair"}
      BY <1>2, <2>2 DEF Scan
    <3> QED BY <1>2, <2>1, <3>1, FoundOrOpenType DEF Scan, disk, spent, TypeOK
  <2>3. CASE File.tail # <<>>
    <3>1. /\ Goto(t, "repair") /\ read' = [read EXCEPT ![t] = File]
          /\ UNCHANGED <<holder, job, fd, acked>>
      BY <1>2, <2>3 DEF Scan
    <3>2. "repair" \in Places
      BY DEF Places, Critical
    <3>3. TypeOK'
      BY <1>2, <2>1, <3>1, <3>2 DEF Scan, Goto, disk, spent, TypeOK
    <3>4. HasRest'
      BY <1>2, <3>1 DEF Scan, Goto, TypeOK, HasRest
    <3> QED BY <3>3, <3>4
  <2> QED BY <2>2, <2>3
<1>3. CASE Repair(t)
  <2>1. CASE path = NoFile
    <3>1. End(t) /\ Release(t) /\ UNCHANGED <<files, acked>>
      BY <1>3, <2>1 DEF Repair
    <3> QED BY <1>3, <3>1, EndType DEF Repair, Release, spent, TypeOK
  <2>2. CASE path # NoFile
    <3>1. /\ files' = [files EXCEPT ![path] = SetLen(@, Len(read[t].lines))]
          /\ FoundOrOpen(t, [read[t] EXCEPT !.tail = <<>>])
          /\ pc[t] \in {"scan", "repair"}
      BY <1>3, <2>2 DEF Repair
    <3>2. Len(read[t].lines) \in Nat /\ [read[t] EXCEPT !.tail = <<>>] \in FileContent
      BY CutType DEF TypeOK
    <3>3. SetLen(files[path], Len(read[t].lines)) \in FileContent
      BY <2>2, <3>2, SetLenType DEF TypeOK
    <3>4. files' \in [Inodes -> FileContent]
      BY <3>1, <3>3 DEF TypeOK
    <3> QED BY <1>3, <3>1, <3>2, <3>4, FoundOrOpenType DEF Repair, spent, TypeOK
  <2> QED BY <2>1, <2>2
<1>4. CASE OpenAppend(t)
  <2>1. PICK i \in Opens(path) :
          /\ path' = i /\ fd' = [fd EXCEPT ![t] = i]
          /\ files' = IF path = NoFile THEN [files EXCEPT ![i] = EmptyFile] ELSE files
    BY <1>4 DEF OpenAppend
  <2>2. i \in Inodes
    BY OpensType DEF TypeOK
  <2>3. "write" \in Places
    BY DEF Places, Critical
  <2>4. TypeOK'
    BY <1>4, <2>1, <2>2, <2>3, EmptyFileType DEF OpenAppend, Goto, spent, TypeOK
  <2>5. HasRest'
    BY <1>4 DEF OpenAppend, Goto, TypeOK, HasRest
  <2> QED BY <2>4, <2>5
<1>5. CASE WriteLine(t)
  <2>1. job[t].rest \in Seq(LogRecord) /\ Len(job[t].rest) > 1
    BY <1>5 DEF WriteLine, TypeOK, Job
  <2>2. <<Head(job[t].rest)>> \in Seq(Line)
    BY <2>1, RecordsAreLines
  <2>3. ASSUME NEW f \in FileContent
        PROVE  AppendLines(f, <<Head(job[t].rest)>>) \in FileContent
    BY <2>2, AppendLinesGrows
  <2>4. files' \in [Inodes -> FileContent]
    BY <1>5, <2>3 DEF WriteLine, TypeOK
  <2>5. Tail(job[t].rest) \in Seq(LogRecord) /\ Tail(job[t].rest) # <<>>
    BY <2>1, TailType
  <2>6. job' = [job EXCEPT ![t].rest = Tail(job[t].rest)] /\ pc' = pc
    BY <1>5 DEF WriteLine
  <2>7. job' \in [Tasks -> Job]
    BY <2>5, <2>6 DEF TypeOK, Job
  <2>8. HasRest'
    BY <2>5, <2>6 DEF HasRest, TypeOK, Job
  <2> QED BY <1>5, <2>4, <2>7, <2>8 DEF WriteLine, spent, TypeOK
<1>6. CASE WritePiece(t)
  <2>1. job[t].rest \in Seq(LogRecord) /\ job[t].rest # <<>>
    BY <1>6 DEF WritePiece, TypeOK, Job, HasRest
  <2>2. PICK piece \in Fragments(Head(job[t].rest)) :
          files' = [files EXCEPT ![fd[t]] = [lines |-> @.lines, tail |-> <<piece>>]]
    BY <1>6 DEF WritePiece
  <2>3. <<piece>> \in Seq(Piece)
    BY <2>1, <2>2, FragmentType
  <2>4. files' \in [Inodes -> FileContent]
    BY <2>2, <2>3 DEF TypeOK, FileContent
  <2>5. "cut" \in Places
    BY DEF Places, Critical
  <2>6. TypeOK'
    BY <1>6, <2>4, <2>5 DEF WritePiece, Goto, spent, TypeOK
  <2>7. HasRest'
    BY <1>6 DEF WritePiece, Goto, TypeOK, HasRest
  <2> QED BY <2>6, <2>7
<1>7. CASE WriteRest(t)
  <2>1. job[t].rest \in Seq(LogRecord) /\ job[t].rest # <<>>
    BY <1>7 DEF WriteRest, TypeOK, Job, HasRest
  <2>2. /\ job[t].rest \in Seq(Line) /\ Head(job[t].rest) \in Line
        /\ Tail(job[t].rest) \in Seq(Line)
    BY <2>1, SeqOfRecordsIsSeqOfLines
  <2>3. ASSUME NEW f \in FileContent
        PROVE  /\ AppendLines(f, job[t].rest) \in FileContent
               /\ AppendLines(CompleteTail(f, Head(job[t].rest)), Tail(job[t].rest))
                    \in FileContent
    BY <2>2, AppendLinesGrows, CompleteTailGrows
  <2>4. files' \in [Inodes -> FileContent]
    BY <1>7, <2>3 DEF WriteRest, TypeOK
  <2>5. "flush" \in Places
    BY DEF Places, Critical
  <2>6. TypeOK'
    BY <1>7, <2>4, <2>5 DEF WriteRest, Goto, spent, TypeOK
  <2>7. HasRest'
    BY <1>7 DEF WriteRest, Goto, TypeOK, HasRest
  <2> QED BY <2>6, <2>7
<1>8. CASE Flush(t)
  <2>1. End(t) /\ Release(t) /\ Ack(t)
    BY <1>8 DEF Flush
  <2>2. acked' \subseteq LogRecord
    BY <2>1, ToSetType DEF Ack, TypeOK, Job
  <2> QED BY <1>8, <2>1, <2>2, EndType DEF Flush, Release, disk, spent, TypeOK
<1>9. CASE Abort(t)
  <2>1. End(t) /\ Release(t) /\ aborts' \in 0 .. MaxAborts
    BY <1>9, BoundsAssumption DEF Abort, TypeOK
  <2> QED BY <1>9, <2>1, EndType DEF Abort, Release, disk, TypeOK
<1>11. CASE ReadFails(t)
  <2>1. aborts' \in 0 .. MaxAborts /\ unread' \subseteq Operations
    BY <1>11, BoundsAssumption DEF ReadFails, TypeOK, HasRest
  <2>2. "open" \in Places
    BY DEF Places, Critical
  <2>3. TypeOK'
    BY <1>11, <2>1, <2>2, EmptyFileType DEF ReadFails, Goto, disk, TypeOK
  <2>4. HasRest'
    BY <1>11 DEF ReadFails, Goto, TypeOK, HasRest
  <2> QED BY <2>3, <2>4
<1>10. CASE Drop(t)
  <2>1. End(t) /\ Release(t) /\ drops' \in 0 .. MaxDrops /\ drops \in Nat
    BY <1>10, BoundsAssumption DEF Drop, TypeOK
  <2>2. job[t].rest \in Seq(LogRecord) /\ fd[t] \in Inodes \cup {NoFile}
    BY DEF TypeOK, Job
  <2>3. late' \subseteq [file : Inodes \cup {NoFile}, records : Seq(LogRecord), nr : Nat]
    BY <1>10, <2>1, <2>2 DEF Drop, TypeOK
  <2> QED BY <1>10, <2>1, <2>3, EndType DEF Drop, Release, disk, TypeOK
<1> QED BY <1>1, <1>2, <1>3, <1>4, <1>5, <1>6, <1>7, <1>8, <1>9, <1>10, <1>11 DEF LockedStep

LEMMA UnlockedType ==
  ASSUME TypeInv, NEW t \in Tasks, UnlockedStep(t)
  PROVE  TypeInv'
<1> USE DEF TypeInv
<1> {"truncate", "restore", "unlink", "tmpwrite", "rename"} \subseteq Places
  BY DEF Places
<1>0. File \in FileContent
  BY ContentType DEF File, TypeOK
<1>1. CASE RecoverRead(t)
  <2>1. CASE End(t)
    BY <1>1, <2>1, EndType DEF RecoverRead, disk, spent, TypeOK
  <2>2. CASE Goto(t, "truncate") /\ read' = [read EXCEPT ![t] = File]
             /\ UNCHANGED <<job, fd>>
    <3>1. TypeOK'
      BY <1>0, <1>1, <2>2 DEF RecoverRead, Goto, disk, spent, TypeOK
    <3>2. HasRest'
      BY <2>2 DEF Goto, TypeOK, HasRest
    <3> QED BY <3>1, <3>2
  <2> QED BY <1>1, <2>1, <2>2 DEF RecoverRead
<1>2. CASE RecoverTruncate(t)
  <2>1. PICK i \in Opens(path) : /\ path' = i /\ fd' = [fd EXCEPT ![t] = i]
                                 /\ files' = [files EXCEPT ![i] = EmptyFile]
    BY <1>2 DEF RecoverTruncate
  <2>2. i \in Inodes
    BY OpensType DEF TypeOK
  <2>3. TypeOK'
    BY <1>2, <2>1, <2>2, EmptyFileType DEF RecoverTruncate, Goto, spent, TypeOK
  <2>4. HasRest'
    BY <1>2 DEF RecoverTruncate, Goto, TypeOK, HasRest
  <2> QED BY <2>3, <2>4
<1>3. CASE RecoverWrite(t)
  <2>1. read[t] \in FileContent
    BY DEF TypeOK
  <2>2. ASSUME NEW f \in FileContent
        PROVE  Overwrite(f, Recovered(read[t])) \in FileContent
    BY <2>1, RecoveredType, OverwriteType
  <2>3. files' \in [Inodes -> FileContent]
    BY <1>3, <2>2 DEF RecoverWrite, TypeOK
  <2> QED BY <1>3, <2>3, EndType DEF RecoverWrite, spent, TypeOK
<1>4. CASE ArchiveCopy(t)
  <2>1. CASE End(t) /\ UNCHANGED archived
    BY <1>4, <2>1, EndType DEF ArchiveCopy, spent, TypeOK
  <2>2. CASE archived' = {File} /\ Goto(t, "unlink") /\ UNCHANGED <<job, read, fd>>
    <3>1. TypeOK'
      BY <1>0, <1>4, <2>2 DEF ArchiveCopy, Goto, spent, TypeOK
    <3>2. HasRest'
      BY <2>2 DEF Goto, TypeOK, HasRest
    <3> QED BY <3>1, <3>2
  <2> QED BY <1>4, <2>1, <2>2 DEF ArchiveCopy
<1>5. CASE ArchiveRemove(t)
  BY <1>5, EndType DEF ArchiveRemove, spent, TypeOK
<1>6. CASE TmpOpen(t)
  <2>1. PICK i \in Opens(tmp) : /\ tmp' = i /\ fd' = [fd EXCEPT ![t] = i]
                                /\ files' = [files EXCEPT ![i] = EmptyFile]
    BY <1>6 DEF TmpOpen
  <2>2. i \in Inodes
    BY OpensType DEF TypeOK
  <2>3. TypeOK'
    BY <1>6, <2>1, <2>2, EmptyFileType DEF TmpOpen, Goto, spent, TypeOK
  <2>4. HasRest'
    BY <1>6 DEF TmpOpen, Goto, TypeOK, HasRest
  <2> QED BY <2>3, <2>4
<1>7. CASE TmpWrite(t)
  <2>1. job[t].records \in Seq(Line)
    BY SeqOfRecordsIsSeqOfLines DEF TypeOK, Job
  <2>2. ASSUME NEW f \in FileContent
        PROVE  Overwrite(f, job[t].records) \in FileContent
    BY <2>1, OverwriteType
  <2>3. files' \in [Inodes -> FileContent]
    BY <1>7, <2>2 DEF TmpWrite, TypeOK
  <2>4. TypeOK'
    BY <1>7, <2>3 DEF TmpWrite, Goto, spent, TypeOK
  <2>5. HasRest'
    BY <1>7 DEF TmpWrite, Goto, TypeOK, HasRest
  <2> QED BY <2>4, <2>5
<1>8. CASE Rename(t)
  BY <1>8, EndType DEF Rename, spent, TypeOK
<1> QED BY <1>1, <1>2, <1>3, <1>4, <1>5, <1>6, <1>7, <1>8 DEF UnlockedStep

LEMMA LateType ==
  ASSUME TypeInv, LateWrite
  PROVE  TypeInv'
<1>1. PICK write \in late :
        /\ files' = [files EXCEPT ![write.file] = AppendLines(@, write.records)]
        /\ late' = late \ {write}
  BY DEF LateWrite
<1>2. write.records \in Seq(Line)
  BY SeqOfRecordsIsSeqOfLines DEF TypeInv, TypeOK
<1>3. ASSUME NEW f \in FileContent PROVE AppendLines(f, write.records) \in FileContent
  BY <1>2, AppendLinesGrows
<1>4. files' \in [Inodes -> FileContent]
  BY <1>1, <1>3 DEF TypeInv, TypeOK
<1>5. TypeOK'
  BY <1>1, <1>4 DEF LateWrite, local, spent, TypeInv, TypeOK
<1>6. HasRest'
  BY DEF LateWrite, local, TypeInv, HasRest
<1> QED BY <1>5, <1>6 DEF TypeInv

LEMMA CrashType ==
  ASSUME TypeInv, Crash
  PROVE  TypeInv'
<1>1. NoJob \in Job /\ "idle" \in Places
  BY DEF NoJob, Job, Places
<1>2. crashes' \in 0 .. MaxCrashes
  BY BoundsAssumption DEF Crash, TypeInv, TypeOK
<1>3. TypeOK'
  BY <1>1, <1>2, EmptyFileType DEF Crash, disk, TypeInv, TypeOK
<1>4. HasRest'
  BY DEF Crash, HasRest
<1> QED BY <1>3, <1>4 DEF TypeInv

LEMMA TypeInvInit == Init => TypeInv
<1> SUFFICES ASSUME Init PROVE TypeInv
  OBVIOUS
<1>1. NoJob \in Job /\ "idle" \in Places
  BY DEF NoJob, Job, Places
<1>2. None \in SUBSET FileContent /\ 0 \in 0 .. MaxCalls /\ 0 \in 0 .. MaxCrashes
      /\ 0 \in 0 .. MaxAborts /\ 0 \in 0 .. MaxDrops
  BY BoundsAssumption DEF None
<1>. TypeOK
  BY <1>1, <1>2, EmptyFileType DEF Init, TypeOK
<1>3. HasRest
  BY DEF Init, HasRest
<1> QED BY <1>3 DEF TypeInv

LEMMA TypeInvNext == TypeInv /\ [Next]_vars => TypeInv'
<1> SUFFICES ASSUME TypeInv, [Next]_vars PROVE TypeInv'
  OBVIOUS
<1>1. CASE UNCHANGED vars
  BY <1>1 DEF vars, disk, local, spent, TypeInv, TypeOK, HasRest
<1>2. CASE Next
  BY <1>2, CallType, LockedType, UnlockedType, LateType, CrashType DEF Next
<1> QED BY <1>1, <1>2

(* Every variable keeps its type, whatever calls the application makes.    *)
THEOREM StoreTypeCorrect == Spec => []TypeOK
<1>1. TypeInv => TypeOK
  BY DEF TypeInv
<1> QED BY <1>1, TypeInvInit, TypeInvNext, PTL DEF Spec

-----------------------------------------------------------------------------
(* The durable outbox.  The application appends, stages and cancels, every *)
(* handle spells the path the same way, and no append's future is dropped  *)
(* in the middle of its write.                                             *)
LockedCallsOnly == /\ Calls \subseteq {"append", "stage", "cancel"}
                   /\ \A t, u \in Tasks : KeyOf[t] = KeyOf[u]
                   /\ MaxDrops = 0

(* What an append writes: messages, or one stage or cancel record.         *)
Shape(t) ==
  \/ /\ job[t].call = "append"
     /\ \A k \in 1 .. Len(job[t].rest) : job[t].rest[k].kind = "message"
     /\ \A k \in 1 .. Len(job[t].records) : job[t].records[k].kind = "message"
  \/ /\ job[t].call = "stage"
     /\ \E op \in Operations : job[t].records = <<Stage(op, op)>>
     /\ job[t].rest = job[t].records
  \/ /\ job[t].call = "cancel"
     /\ \E op \in Operations : job[t].records = <<Cancel(op)>>
     /\ job[t].rest = job[t].records

(* What the lock protects: from the scan to the write, the file is what    *)
(* the task that holds the lock read, and the record it is about to write  *)
(* is not in it, unless the operation's log could not be read.             *)
TaskInv(t) ==
  /\ pc[t] \in Critical => holder[KeyOf[t]] = t
  /\ pc[t] \in Critical \cup {"wait"} => Shape(t)
  /\ pc[t] \in {"scan", "repair"} => job[t].call # "append"
  /\ pc[t] \in {"write", "cut", "flush"} => fd[t] = path
  /\ pc[t] = "repair" => read[t].lines = File.lines
  /\ pc[t] \in {"open", "write", "cut"} /\ job[t].call = "stage"
     /\ job[t].records[1].op \notin unread
       => ~ HasDurableId(File.lines, job[t].records[1].op)

AllMeta(ls) == \A k \in 1 .. Len(ls) : ls[k] = Meta

(* Before create returns there is no file and nobody appends; afterwards   *)
(* the file stays and nobody replaces it.                                  *)
Phase ==
  IF known
  THEN path # NoFile /\ \A t \in Tasks : pc[t] \in Critical \cup {"idle", "wait"}
  ELSE /\ path = NoFile
       /\ \A t \in Tasks : /\ pc[t] \in {"idle", "tmpopen", "tmpwrite", "rename"}
                           /\ pc[t] # "idle" => job[t].records = <<Meta>>
       /\ \A t, u \in Tasks : pc[t] # "idle" /\ pc[u] # "idle" => t = u
       /\ \A i \in Inodes : files[i].tail = <<>> /\ AllMeta(files[i].lines)

OutboxInv == TypeInv /\ Phase /\ (\A t \in Tasks : TaskInv(t)) /\ OneStageRecord

NothingLate == late = {} /\ drops = 0

-----------------------------------------------------------------------------
(* The two ways WriteRest writes add the same lines.                       *)
Grows(f, g, rs) ==
  /\ Len(g.lines) = Len(f.lines) + Len(rs)
  /\ \A i \in 1 .. Len(f.lines) : g.lines[i] = f.lines[i]
  /\ \A i \in 1 .. Len(rs) : g.lines[Len(f.lines) + i] \in {rs[i], Garbage, BadUtf8}

(* Places in what was added: the one of a later record, and one beyond the *)
(* lines that were there.                                                  *)
LEMMA LaterPlace ==
  ASSUME NEW n \in Nat, NEW i \in 1 .. n, i # 1, NEW before \in Nat
  PROVE  i - 1 \in 1 .. n - 1 /\ before + i = before + 1 + (i - 1)
  OBVIOUS

LEMMA PlaceBeyond ==
  ASSUME NEW before \in Nat, NEW n \in Nat, NEW j \in Nat,
         j > before, j <= before + n
  PROVE  j - before \in 1 .. n /\ j = before + (j - before)
  OBVIOUS

LEMMA WriteGrows ==
  ASSUME NEW f \in FileContent, NEW rs \in Seq(LogRecord), rs # <<>>
  PROVE  /\ Grows(f, AppendLines(f, rs), rs)
         /\ Grows(f, AppendLines(CompleteTail(f, Head(rs)), Tail(rs)), rs)
         /\ Grows(f, AppendLines(f, <<Head(rs)>>), <<Head(rs)>>)
<1>1. rs \in Seq(Line) /\ Head(rs) \in Line /\ Tail(rs) \in Seq(Line) /\ Head(rs) = rs[1]
      /\ Len(Tail(rs)) = Len(rs) - 1 /\ Len(rs) \in Nat
      /\ \A i \in 1 .. Len(rs) - 1 : Tail(rs)[i] = rs[i + 1]
  BY SeqOfRecordsIsSeqOfLines
<1>2. Grows(f, AppendLines(f, rs), rs)
  BY <1>1, AppendLinesGrows DEF Grows
<1>3. Grows(f, AppendLines(f, <<Head(rs)>>), <<Head(rs)>>)
  <2>1. <<Head(rs)>> \in Seq(Line)
    BY <1>1
  <2> QED BY <2>1, AppendLinesGrows DEF Grows
<1>4. Grows(f, AppendLines(CompleteTail(f, Head(rs)), Tail(rs)), rs)
  <2> DEFINE m == CompleteTail(f, Head(rs))
             g == AppendLines(m, Tail(rs))
  <2>1. /\ m \in FileContent /\ Len(m.lines) = Len(f.lines) + 1
        /\ \A i \in 1 .. Len(f.lines) : m.lines[i] = f.lines[i]
        /\ m.lines[Len(f.lines) + 1] \in {rs[1], Garbage, BadUtf8}
    BY <1>1, CompleteTailGrows
  <2> HIDE DEF m
  <2>2. /\ Len(g.lines) = Len(m.lines) + Len(Tail(rs))
        /\ \A i \in 1 .. Len(m.lines) : g.lines[i] = m.lines[i]
        /\ \A i \in 1 .. Len(Tail(rs)) :
             g.lines[Len(m.lines) + i] \in {Tail(rs)[i], Garbage, BadUtf8}
    BY <1>1, <2>1, AppendLinesGrows
  <2> HIDE DEF g
  <2>3. Len(f.lines) \in Nat
    BY DEF FileContent
  <2>4. Len(g.lines) = Len(f.lines) + Len(rs)
    BY <1>1, <2>1, <2>2, <2>3
  <2>5. \A i \in 1 .. Len(f.lines) : g.lines[i] = f.lines[i]
    BY <2>1, <2>2, <2>3
  <2>6. ASSUME NEW i \in 1 .. Len(rs)
        PROVE  g.lines[Len(f.lines) + i] \in {rs[i], Garbage, BadUtf8}
    <3>1. CASE i = 1
      BY <2>1, <2>2, <2>3, <3>1
    <3>2. CASE i # 1
      <4>1. i - 1 \in 1 .. Len(rs) - 1 /\ Len(f.lines) + i = Len(f.lines) + 1 + (i - 1)
        BY <1>1, <2>3, <3>2, LaterPlace
      <4>2. i - 1 \in 1 .. Len(Tail(rs)) /\ Len(f.lines) + i = Len(m.lines) + (i - 1)
        BY <1>1, <2>1, <4>1
      <4>3. Tail(rs)[i - 1] = rs[i]
        BY <1>1, <4>1
      <4> QED BY <2>2, <4>2, <4>3
    <3> QED BY <3>1, <3>2
  <2>7. Grows(f, g, rs)
    BY <2>4, <2>5, <2>6 DEF Grows
  <2> QED BY <2>7 DEF g, m
<1> QED BY <1>2, <1>3, <1>4

(* ReadFails is the only step that adds to the operations in doubt.        *)
LEMMA UnreadStays ==
  ASSUME NEW t \in Tasks,
         \/ Call(t) \/ Delete(t)
         \/ Acquire(t) \/ LockedStep(t) \/ Abort(t)
         \/ UnlockedStep(t)
  PROVE  unread' = unread
<1>1. CASE Call(t) \/ Delete(t)
  BY <1>1 DEF Call, CallCreate, CallAppend, CallStage, CallCancel, CallRecover,
              CallArchive, CallRewrite, Begin, Delete
<1>2. CASE Acquire(t) \/ LockedStep(t) \/ Abort(t)
  BY <1>2 DEF Acquire, LockedStep, Scan, Repair, OpenAppend, WriteLine, WritePiece,
              WriteRest, Flush, Abort, spent
<1>3. CASE UnlockedStep(t)
  BY <1>3 DEF UnlockedStep, RecoverRead, RecoverTruncate, RecoverWrite,
              ArchiveCopy, ArchiveRemove, TmpOpen, TmpWrite, Rename, spent
<1> QED BY <1>1, <1>2, <1>3

LEMMA StagedOnceStays ==
  ASSUME OneStageRecord, File'.lines = File.lines, unread \subseteq unread'
  PROVE  OneStageRecord'
BY DEF OneStageRecord, StagedOnce

(* Lines that are no stage records, or one stage record of an operation    *)
(* in doubt or that the file does not know, keep the file free of repeated *)
(* ones.                                                                   *)
LEMMA GrowthKeepsStagedOnce ==
  ASSUME NEW f \in FileContent, NEW g \in FileContent, NEW rs \in Seq(LogRecord),
         Grows(f, g, rs), StagedOnce(f.lines),
         \/ \A k \in 1 .. Len(rs) : rs[k].kind # "stage"
         \/ Len(rs) = 1 /\ (rs[1].op \in unread \/ ~ HasDurableId(f.lines, rs[1].op))
  PROVE  StagedOnce(g.lines)
<1> SUFFICES ASSUME NEW i \in 1 .. Len(g.lines), NEW j \in 1 .. Len(g.lines),
                    i < j, g.lines[j].kind = "stage", g.lines[i].kind \in {"stage", "cancel"},
                    g.lines[j].op \notin unread
             PROVE  g.lines[i].op # g.lines[j].op
  BY DEF StagedOnce
<1>1. Len(f.lines) \in Nat /\ Len(rs) \in Nat /\ Len(g.lines) = Len(f.lines) + Len(rs)
  BY DEF FileContent, Grows
<1>2. CASE j <= Len(f.lines)
  <2>1. i \in 1 .. Len(f.lines) /\ j \in 1 .. Len(f.lines)
    BY <1>1, <1>2
  <2>2. g.lines[i] = f.lines[i] /\ g.lines[j] = f.lines[j]
    BY <2>1 DEF Grows
  <2> QED BY <2>1, <2>2 DEF StagedOnce
<1>3. CASE ~ (j <= Len(f.lines))
  <2> DEFINE k == j - Len(f.lines)
  <2>1. k \in 1 .. Len(rs) /\ j = Len(f.lines) + k
    <3>1. j \in Nat /\ j <= Len(f.lines) + Len(rs) /\ j > Len(f.lines)
      BY <1>1, <1>3
    <3> QED BY <1>1, <3>1, PlaceBeyond
  <2>2. g.lines[j] \in {rs[k], Garbage, BadUtf8}
    BY <2>1 DEF Grows
  <2>3. g.lines[j] = rs[k] /\ rs[k].kind = "stage"
    BY <2>2 DEF Garbage, BadUtf8
  <2>4. Len(rs) = 1 /\ ~ HasDurableId(f.lines, rs[1].op)
    <3>1. Len(rs) = 1 /\ (rs[1].op \in unread \/ ~ HasDurableId(f.lines, rs[1].op))
      BY <2>1, <2>3
    <3>2. k = 1
      BY <2>1, <3>1
    <3> QED BY <2>3, <3>1, <3>2
  <2>5. k = 1 /\ i \in 1 .. Len(f.lines) /\ g.lines[i] = f.lines[i]
    BY <1>1, <2>1, <2>4 DEF Grows
  <2> QED BY <2>3, <2>4, <2>5 DEF HasDurableId, StagedIn, CancelledIn
<1> QED BY <1>2, <1>3

-----------------------------------------------------------------------------
LEMMA OutboxInvInit == Init => OutboxInv
<1> SUFFICES ASSUME Init PROVE OutboxInv
  OBVIOUS
<1>1. TypeInv
  BY TypeInvInit
<1>2. Phase
  <2>1. \A i \in Inodes : files[i].lines = <<>> /\ files[i].tail = <<>>
    BY DEF Init, EmptyFile
  <2> QED BY <2>1 DEF Init, Phase, AllMeta
<1>3. \A t \in Tasks : TaskInv(t)
  BY DEF Init, TaskInv, Critical
<1>4. OneStageRecord
  BY DEF Init, OneStageRecord, StagedOnce, File, Content, EmptyFile
<1> QED BY <1>1, <1>2, <1>3, <1>4 DEF OutboxInv

(* Nobody else is where the lock matters.                                  *)
LEMMA OthersKeep ==
  ASSUME LockedCallsOnly, OutboxInv, NEW t \in Tasks, pc[t] \in Critical,
         NEW u \in Tasks, u # t, pc'[u] = pc[u], job'[u] = job[u]
  PROVE  TaskInv(u)'
<1>1. pc[u] \notin Critical
  <2>1. KeyOf[u] = KeyOf[t]
    BY DEF LockedCallsOnly
  <2>2. holder[KeyOf[t]] = t /\ (pc[u] \in Critical => holder[KeyOf[u]] = u)
    BY DEF OutboxInv, TaskInv
  <2> QED BY <2>1, <2>2
<1>2. TaskInv(u)
  BY DEF OutboxInv
<1> QED BY <1>1, <1>2 DEF TaskInv, Shape, Critical

(* A call that is over leaves nothing to say about its task.               *)
LEMMA EndKeeps ==
  ASSUME TypeOK, NEW t \in Tasks, End(t)
  PROVE  /\ TaskInv(t)'
         /\ pc'[t] = "idle"
         /\ \A u \in Tasks \ {t} : pc'[u] = pc[u] /\ job'[u] = job[u]
BY DEF End, TypeOK, TaskInv, Critical

LEMMA CallOutbox ==
  ASSUME LockedCallsOnly, OutboxInv, NEW t \in Tasks, Call(t) \/ Delete(t)
  PROVE  OutboxInv'
<1> USE DEF OutboxInv
<1>1. TypeInv'
  BY CallType
<1>2. ~ Delete(t) /\ ~ CallRecover(t) /\ ~ CallArchive(t) /\ ~ CallRewrite(t)
  BY DEF LockedCallsOnly, Delete, CallRecover, CallArchive, CallRewrite
<1>3. UNCHANGED disk /\ UNCHANGED <<holder, read, fd>> /\ pc[t] = "idle"
      /\ \A u \in Tasks \ {t} : pc'[u] = pc[u] /\ job'[u] = job[u]
  BY <1>2 DEF Call, CallCreate, CallAppend, CallStage, CallCancel, Begin, TypeInv, TypeOK
<1>4. File' = File /\ unread' = unread /\ OneStageRecord'
  <2>1. File' = File /\ unread' = unread
    BY <1>3, UnreadStays DEF disk, File, Content
  <2> QED BY <2>1, StagedOnceStays
<1>5. ASSUME NEW u \in Tasks, u # t PROVE TaskInv(u)'
  BY <1>3, <1>4, <1>5 DEF TaskInv, Shape, disk
<1>6. CASE CallCreate(t)
  <2>1. pc'[t] = "tmpopen" /\ job'[t].records = <<Meta>> /\ ~ known
    BY <1>6 DEF CallCreate, Begin, TypeInv, TypeOK
  <2>2. TaskInv(t)'
    BY <2>1 DEF TaskInv, Critical
  <2>3. \A u \in Tasks \ {t} : pc'[u] = "idle"
    BY <1>3, <1>6 DEF CallCreate
  <2>4. Phase'
    BY <1>3, <2>1, <2>3 DEF Phase, disk
  <2> QED BY <1>1, <1>4, <1>5, <2>2, <2>4
<1>7. ASSUME known, pc'[t] = "wait", Shape(t)' PROVE OutboxInv'
  <2>1. TaskInv(t)'
    BY <1>7 DEF TaskInv, Critical
  <2>2. Phase'
    BY <1>3, <1>7 DEF Phase, disk
  <2> QED BY <1>1, <1>4, <1>5, <2>1, <2>2
<1>8. CASE CallAppend(t)
  <2>1. PICK n \in 1 .. MaxBatch :
          Begin(t, "append", "wait", [i \in 1 .. n |-> Message(<<calls + 1, i>>)])
    BY <1>8 DEF CallAppend
  <2> DEFINE batch == [i \in 1 .. n |-> Message(<<calls + 1, i>>)]
  <2>2. \A k \in 1 .. Len(batch) : batch[k].kind = "message"
    BY BoundsAssumption DEF Message
  <2> HIDE DEF batch
  <2>3. known /\ pc'[t] = "wait" /\ job'[t].call = "append" /\ job'[t].rest = batch
        /\ job'[t].records = batch
    BY <1>8, <2>1 DEF CallAppend, Begin, TypeInv, TypeOK, batch
  <2> QED BY <1>7, <2>2, <2>3 DEF Shape
<1>9. CASE CallStage(t)
  <2>1. PICK op \in Operations : Begin(t, "stage", "wait", <<Stage(op, op)>>)
    BY <1>9 DEF CallStage
  <2>2. known /\ pc'[t] = "wait" /\ Shape(t)'
    BY <1>9, <2>1 DEF CallStage, Begin, Shape, TypeInv, TypeOK
  <2> QED BY <1>7, <2>2
<1>10. CASE CallCancel(t)
  <2>1. PICK op \in Operations : Begin(t, "cancel", "wait", <<Cancel(op)>>)
    BY <1>10 DEF CallCancel
  <2>2. known /\ pc'[t] = "wait" /\ Shape(t)'
    BY <1>10, <2>1 DEF CallCancel, Begin, Shape, TypeInv, TypeOK
  <2> QED BY <1>7, <2>2
<1> QED BY <1>2, <1>6, <1>8, <1>9, <1>10 DEF Call

(* create, whose steps are the only unlocked ones.                         *)
LEMMA CreateOutbox ==
  ASSUME LockedCallsOnly, OutboxInv, NEW t \in Tasks, UnlockedStep(t)
  PROVE  OutboxInv'
<1> USE DEF OutboxInv
<1>1. TypeInv'
  BY UnlockedType
<1>2. /\ ~ known /\ path = NoFile /\ TypeOK
      /\ TmpOpen(t) \/ TmpWrite(t) \/ Rename(t)
  BY DEF UnlockedStep, RecoverRead, RecoverTruncate, RecoverWrite, ArchiveCopy,
         ArchiveRemove, TmpOpen, TmpWrite, Rename, Phase, Critical, TypeInv
<1>3. \A u \in Tasks : pc[u] \in {"idle", "tmpopen", "tmpwrite", "rename"}
  BY <1>2 DEF Phase
<1>4. \A u \in Tasks : pc'[u] \in {"idle", "tmpopen", "tmpwrite", "rename"}
  BY <1>2, <1>3 DEF TmpOpen, TmpWrite, Rename, End, Goto, TypeOK
<1>5. \A u \in Tasks : TaskInv(u)'
  BY <1>4 DEF TaskInv, Critical
<1>6. \A i \in Inodes : files[i].tail = <<>> /\ AllMeta(files[i].lines)
  BY <1>2 DEF Phase
<1>7. CASE TmpOpen(t)
  <2>1. PICK i \in Opens(tmp) : files' = [files EXCEPT ![i] = EmptyFile]
    BY <1>7 DEF TmpOpen
  <2>2. \A j \in Inodes : files'[j].tail = <<>> /\ AllMeta(files'[j].lines)
    BY <1>2, <1>6, <2>1 DEF EmptyFile, TypeOK, AllMeta
  <2>3. Phase'
    BY <1>2, <1>4, <1>7, <2>2 DEF TmpOpen, Goto, Phase, TypeOK
  <2>4. OneStageRecord'
    BY <1>2, <1>7 DEF TmpOpen, OneStageRecord, StagedOnce, File, Content, EmptyFile
  <2> QED BY <1>1, <1>5, <2>3, <2>4
<1>8. CASE TmpWrite(t)
  <2>1. files' = [files EXCEPT ![fd[t]] = Overwrite(@, job[t].records)]
        /\ job[t].records = <<Meta>>
    BY <1>2, <1>8 DEF TmpWrite, Phase
  <2>2. <<Meta>> \in Seq(Line) /\ Len(<<Meta>>) = 1 /\ <<Meta>>[1] = Meta
    BY RecordsAreLines
  <2>3. ASSUME NEW f \in FileContent, f.tail = <<>>, AllMeta(f.lines)
        PROVE  Overwrite(f, <<Meta>>).tail = <<>> /\ AllMeta(Overwrite(f, <<Meta>>).lines)
    <3> DEFINE g == Overwrite(f, <<Meta>>)
    <3>1. /\ g \in FileContent
          /\ \A i \in 1 .. Len(g.lines) :
               \/ i <= 1 /\ g.lines[i] = <<Meta>>[i]
               \/ i <= Len(f.lines) /\ g.lines[i] = f.lines[i]
      BY <2>2, OverwriteType
    <3>2. Len(f.lines) \in Nat /\ Len(g.lines) \in Nat
      BY <3>1 DEF FileContent
    <3>4. g.tail = <<>>
      BY <2>3 DEF Overwrite
    <3> HIDE DEF g
    <3>3. \A i \in 1 .. Len(g.lines) : g.lines[i] = Meta
      BY <2>2, <2>3, <3>1, <3>2 DEF AllMeta
    <3> QED BY <3>3, <3>4 DEF g, AllMeta
  <2>4. \A j \in Inodes : files'[j].tail = <<>> /\ AllMeta(files'[j].lines)
    BY <1>2, <1>6, <2>1, <2>3 DEF TypeOK
  <2>5. Phase'
    BY <1>2, <1>4, <1>8, <2>4 DEF TmpWrite, Goto, Phase, TypeOK
  <2>6. OneStageRecord'
    BY <1>2, <1>8 DEF TmpWrite, OneStageRecord, StagedOnce, File, Content, EmptyFile
  <2> QED BY <1>1, <1>5, <2>5, <2>6
<1>9. CASE Rename(t)
  <2>1. pc'[t] = "idle" /\ \A u \in Tasks \ {t} : pc'[u] = pc[u] /\ job'[u] = job[u]
    BY <1>2, <1>9, EndKeeps DEF Rename
  <2>2. \A u \in Tasks : pc'[u] = "idle"
    BY <1>2, <1>9, <2>1 DEF Rename, Phase
  <2>3. files' = files /\ (tmp = NoFile => path' = path /\ known' = known)
        /\ (tmp # NoFile => path' = tmp /\ known' = TRUE)
    BY <1>9 DEF Rename
  <2>4. CASE tmp = NoFile
    <3>1. Phase'
      BY <1>2, <1>6, <2>2, <2>3, <2>4 DEF Phase
    <3>2. OneStageRecord'
      <4>1. File' = File /\ unread' = unread
        BY <2>3, <2>4, UnreadStays DEF File, Content
      <4> QED BY <4>1, StagedOnceStays
    <3> QED BY <1>1, <1>5, <3>1, <3>2
  <2>5. CASE tmp # NoFile
    <3>1. Phase'
      BY <2>2, <2>3, <2>5 DEF Phase
    <3>2. File' = files[tmp] /\ tmp \in Inodes
      BY <1>2, <2>3, <2>5 DEF File, Content, TypeOK
    <3>3. OneStageRecord'
      BY <1>6, <3>2 DEF OneStageRecord, StagedOnce, Meta, AllMeta
    <3> QED BY <1>1, <1>5, <3>1, <3>3
  <2> QED BY <2>4, <2>5
<1> QED BY <1>2, <1>7, <1>8, <1>9

(* A step of the task that holds the lock.                                 *)
LEMMA HolderSteps ==
  ASSUME LockedCallsOnly, OutboxInv, NEW t \in Tasks, pc[t] \in Critical,
         TypeInv', path' = path, known' = known, TaskInv(t)', OneStageRecord',
         pc'[t] \in Critical \cup {"idle"},
         \A u \in Tasks \ {t} : pc'[u] = pc[u] /\ job'[u] = job[u]
  PROVE  OutboxInv'
<1>1. ASSUME NEW u \in Tasks, u # t PROVE TaskInv(u)'
  BY <1>1, OthersKeep
<1>2. known
  BY DEF OutboxInv, Phase, Critical
<1>3. Phase'
  BY <1>2 DEF OutboxInv, Phase
<1> QED BY <1>1, <1>3 DEF OutboxInv

LEMMA FoundOrOpenOutbox ==
  ASSUME LockedCallsOnly, OutboxInv, NEW t \in Tasks, pc[t] \in {"scan", "repair"},
         NEW seen \in FileContent, seen.lines = File.lines, FoundOrOpen(t, seen),
         TypeInv', path' = path, known' = known, File'.lines = File.lines, unread' = unread
  PROVE  OutboxInv'
<1>1. pc[t] \in Critical /\ TypeOK /\ TaskInv(t) /\ job[t].call # "append" /\ Shape(t)
  BY DEF OutboxInv, TypeInv, TaskInv, Critical
<1>2. OneStageRecord'
  BY StagedOnceStays DEF OutboxInv
<1>3. CASE End(t)
  BY <1>1, <1>2, <1>3, EndKeeps, HolderSteps
<1>4. CASE ~ HasDurableId(seen.lines, DedupKey(t)) /\ Goto(t, "open")
           /\ UNCHANGED <<holder, job, fd, acked>>
  <2>1. pc'[t] = "open" /\ \A u \in Tasks \ {t} : pc'[u] = pc[u] /\ job'[u] = job[u]
    BY <1>1, <1>4 DEF Goto, TypeOK
  <2>2. job[t].call = "stage" => ~ HasDurableId(File'.lines, job[t].records[1].op)
    BY <1>4 DEF DedupKey
  <2>3. Shape(t)' /\ holder'[KeyOf[t]] = t
    BY <1>1, <1>4 DEF Shape, TaskInv
  <2>4. TaskInv(t)'
    BY <1>4, <2>1, <2>2, <2>3 DEF TaskInv
  <2> QED BY <1>1, <1>2, <2>1, <2>4, HolderSteps DEF Critical
<1> QED BY <1>3, <1>4 DEF FoundOrOpen

(* What a write at the end of the file adds to it.                         *)
LEMMA WriteKeepsStagedOnce ==
  ASSUME OutboxInv, NEW t \in Tasks, pc[t] \in {"write", "cut"},
         NEW rs \in Seq(LogRecord), rs = job[t].rest \/ rs = <<Head(job[t].rest)>>,
         NEW g \in FileContent, Grows(File, g, rs),
         rs = job[t].rest \/ job[t].call = "append"
  PROVE  StagedOnce(g.lines)
<1>1. Shape(t) /\ TaskInv(t) /\ TypeOK /\ job[t].rest # <<>> /\ job[t].rest \in Seq(LogRecord)
  BY DEF OutboxInv, TypeInv, HasRest, TypeOK, Job, TaskInv, Critical
<1>2. File \in FileContent /\ StagedOnce(File.lines)
  BY <1>1, ContentType DEF OutboxInv, OneStageRecord, File, TypeOK
<1>3. CASE job[t].call = "append"
  <2>1. \A k \in 1 .. Len(job[t].rest) : job[t].rest[k].kind = "message"
    BY <1>1, <1>3 DEF Shape
  <2>2. \A k \in 1 .. Len(rs) : rs[k].kind # "stage"
    <3>1. CASE rs = job[t].rest
      BY <2>1, <3>1
    <3>2. CASE rs = <<Head(job[t].rest)>>
      <4>1. Len(job[t].rest) \in Nat \ {0} /\ Head(job[t].rest) = job[t].rest[1]
        BY <1>1
      <4> QED BY <2>1, <3>2, <4>1
    <3> QED BY <3>1, <3>2
  <2> QED BY <1>2, <2>2, GrowthKeepsStagedOnce
<1>4. CASE job[t].call = "stage"
  <2>1. PICK op \in Operations : rs = <<Stage(op, op)>> /\ job[t].records = rs
    BY <1>1, <1>4 DEF Shape
  <2>2. Len(rs) = 1 /\ (rs[1].op \in unread \/ ~ HasDurableId(File.lines, rs[1].op))
    BY <1>1, <1>4, <2>1 DEF TaskInv
  <2> QED BY <1>2, <2>2, GrowthKeepsStagedOnce
<1>5. CASE job[t].call = "cancel"
  <2>1. PICK op \in Operations : rs = <<Cancel(op)>>
    BY <1>1, <1>5 DEF Shape
  <2>2. \A k \in 1 .. Len(rs) : rs[k].kind # "stage"
    BY <2>1 DEF Cancel
  <2> QED BY <1>2, <2>2, GrowthKeepsStagedOnce
<1> QED BY <1>1, <1>3, <1>4, <1>5 DEF Shape

LEMMA MoreThanOne ==
  ASSUME NEW s \in Seq(LogRecord), Len(s) > 1
  PROVE  \A r : s # <<r>>
<1>1. Len(s) \in Nat
  OBVIOUS
<1>2. \A n \in Nat : n > 1 => n # 1
  OBVIOUS
<1>3. \A r : Len(<<r>>) = 1
  OBVIOUS
<1> QED BY <1>1, <1>2, <1>3

LEMMA LockedOutbox ==
  ASSUME LockedCallsOnly, OutboxInv, NEW t \in Tasks,
         Acquire(t) \/ LockedStep(t) \/ ReadFails(t) \/ Abort(t)
  PROVE  OutboxInv'
<1>1. TypeInv' /\ TypeInv /\ TypeOK /\ TaskInv(t) /\ OneStageRecord
  BY LockedType DEF OutboxInv, TypeInv
<1>2. pc[t] \in Critical \cup {"wait"}
  BY DEF Acquire, LockedStep, Scan, Repair, OpenAppend, WriteLine, WritePiece, WriteRest,
         Flush, ReadFails, Abort, Critical
<1>3. known /\ path # NoFile /\ path \in Inodes /\ File = files[path] /\ File \in FileContent
  BY <1>1, <1>2, ContentType DEF OutboxInv, Phase, Critical, TypeOK, File, Content
<1>4. CASE Acquire(t)
  <2>1. \A u \in Tasks : pc[u] \notin Critical
    BY <1>4, NamesAssumption DEF Acquire, LockedCallsOnly, OutboxInv, TaskInv
  <2>2. UNCHANGED <<disk, job, read, fd>> /\ File' = File
        /\ pc'[t] \in {"open", "scan"} /\ (pc'[t] = "scan" => job[t].call # "append")
        /\ (pc'[t] = "open" => job[t].call = "append")
        /\ holder'[KeyOf[t]] = t
        /\ \A u \in Tasks \ {t} : pc'[u] = pc[u]
    BY <1>1, <1>4, KeysAssumption DEF Acquire, Goto, TypeOK, disk, File, Content
  <2>3. ASSUME NEW u \in Tasks, u # t PROVE TaskInv(u)'
    BY <2>1, <2>2, <2>3 DEF TaskInv, Shape, OutboxInv, Critical
  <2>4. TaskInv(t)'
    <3>1. Shape(t)
      BY <1>1, <1>4 DEF TaskInv, Acquire
    <3>2. Shape(t)'
      BY <2>2, <3>1 DEF Shape
    <3> QED BY <2>2, <3>2 DEF TaskInv
  <2>5. Phase'
    BY <1>3, <2>2 DEF Phase, disk, Critical, OutboxInv
  <2>6. OneStageRecord'
    BY <1>1, <1>4, <2>2, UnreadStays, StagedOnceStays
  <2> QED BY <1>1, <2>3, <2>4, <2>5, <2>6 DEF OutboxInv
<1>5. CASE Scan(t)
  <2>1. pc[t] = "scan" /\ UNCHANGED disk /\ File' = File /\ path' = path /\ known' = known
          /\ unread' = unread
    BY <1>5 DEF Scan, disk, spent, File, Content
  <2>2. CASE FoundOrOpen(t, File)
    BY <1>1, <1>3, <2>1, <2>2, FoundOrOpenOutbox
  <2>3. CASE Goto(t, "repair") /\ read' = [read EXCEPT ![t] = File]
             /\ UNCHANGED <<holder, job, fd, acked>>
    <3>1. pc'[t] = "repair" /\ read'[t] = File
          /\ \A u \in Tasks \ {t} : pc'[u] = pc[u] /\ job'[u] = job[u]
      BY <1>1, <2>3 DEF Goto, TypeOK
    <3>2. TaskInv(t)'
      BY <1>1, <2>1, <2>3, <3>1 DEF TaskInv, Shape, Critical
    <3>3. OneStageRecord'
      BY <1>1, <2>1, StagedOnceStays
    <3> QED BY <1>1, <2>1, <3>1, <3>2, <3>3, HolderSteps DEF Critical
  <2> QED BY <1>5, <2>2, <2>3 DEF Scan
<1>6. CASE Repair(t)
  <2> DEFINE cut == [read[t] EXCEPT !.tail = <<>>]
  <2>1. /\ pc[t] = "repair" /\ path' = path /\ known' = known
        /\ files' = [files EXCEPT ![path] = SetLen(@, Len(read[t].lines))]
        /\ FoundOrOpen(t, cut) /\ read[t].lines = File.lines /\ unread' = unread
    BY <1>1, <1>3, <1>6 DEF Repair, TaskInv, spent
  <2>2. cut \in FileContent /\ cut.lines = File.lines
    <3>1. cut = [lines |-> read[t].lines, tail |-> <<>>] /\ cut \in FileContent
      BY <1>1, CutType DEF TypeOK
    <3> QED BY <2>1, <3>1
  <2> HIDE DEF cut
  <2>3. files'[path] = SetLen(File, Len(File.lines))
    BY <1>1, <1>3, <2>1 DEF TypeOK
  <2>4. SetLen(File, Len(File.lines)).lines = File.lines
    <3>1. SetLen(File, Len(File.lines)) = [lines |-> File.lines, tail |-> <<>>]
      BY <1>3, SetLenCutsTail
    <3> QED BY <3>1
  <2>5. File'.lines = File.lines
    BY <1>3, <2>1, <2>3, <2>4 DEF File, Content
  <2> QED BY <1>1, <2>1, <2>2, <2>5, FoundOrOpenOutbox
<1>7. CASE OpenAppend(t)
  <2>1. Opens(path) = {path}
    BY <1>3 DEF Opens
  <2>2. path' = path /\ known' = known /\ files' = files /\ fd' = [fd EXCEPT ![t] = path]
        /\ Goto(t, "write") /\ UNCHANGED <<holder, job, read, unread>> /\ pc[t] = "open"
    BY <1>3, <1>7, <2>1 DEF OpenAppend, spent
  <2>3. File' = File /\ fd'[t] = path /\ pc'[t] = "write"
        /\ \A u \in Tasks \ {t} : pc'[u] = pc[u] /\ job'[u] = job[u]
    BY <1>1, <2>2 DEF Goto, TypeOK, File, Content
  <2>4. TaskInv(t)'
    BY <1>1, <2>2, <2>3 DEF TaskInv, Shape, Critical
  <2>5. OneStageRecord'
    BY <1>1, <2>2, <2>3, StagedOnceStays
  <2> QED BY <1>1, <2>2, <2>3, <2>4, <2>5, HolderSteps DEF Critical
<1>8. CASE WriteLine(t)
  <2>0. Len(job[t].rest) > 1
    BY <1>8 DEF WriteLine
  <2>1. /\ pc[t] = "write" /\ pc' = pc /\ path' = path /\ known' = known
        /\ UNCHANGED <<holder, fd, read, unread>> /\ Len(job[t].rest) > 1
        /\ files' = [files EXCEPT ![path] = AppendLines(@, <<Head(job[t].rest)>>)]
        /\ job' = [job EXCEPT ![t].rest = Tail(@)]
    BY <1>1, <1>8 DEF WriteLine, TaskInv, spent
  <2>2. Shape(t) /\ job[t].call = "append" /\ job[t].rest \in Seq(LogRecord)
    <3>1. Shape(t)
      BY <1>1, <2>1 DEF TaskInv, Critical
    <3>2. job[t] \in Job
      BY <1>1 DEF TypeOK
    <3>3. job[t].rest \in Seq(LogRecord)
      BY <3>2 DEF Job
    <3>4. \A r : job[t].rest # <<r>>
      BY <2>0, <3>3, MoreThanOne
    <3>5. job[t].call = "append"
      BY <3>1, <3>4 DEF Shape
    <3> QED BY <3>1, <3>3, <3>5
  <2> DEFINE g == AppendLines(File, <<Head(job[t].rest)>>)
  <2>3. Head(job[t].rest) \in LogRecord /\ <<Head(job[t].rest)>> \in Seq(LogRecord)
    BY <2>1, <2>2
  <2>4. Grows(File, g, <<Head(job[t].rest)>>) /\ g \in FileContent
    <3>1. job[t].rest # <<>>
      BY <2>1
    <3>2. <<Head(job[t].rest)>> \in Seq(Line)
      BY <2>3, RecordsAreLines
    <3> QED BY <1>3, <2>2, <3>1, <3>2, WriteGrows, AppendLinesGrows
  <2> HIDE DEF g
  <2>5. File' = g
    BY <1>1, <1>3, <2>1 DEF File, Content, TypeOK, g
  <2>6. OneStageRecord'
    <3>1. StagedOnce(g.lines)
      BY <2>1, <2>2, <2>3, <2>4, WriteKeepsStagedOnce
    <3> QED BY <2>1, <2>5, <3>1 DEF OneStageRecord, StagedOnce
  <2>7. job'[t].call = "append" /\ job'[t].rest = Tail(job[t].rest)
        /\ job'[t].records = job[t].records
        /\ \A u \in Tasks \ {t} : pc'[u] = pc[u] /\ job'[u] = job[u]
    BY <1>1, <2>1, <2>2 DEF TypeOK, Job
  <2>8. \A k \in 1 .. Len(Tail(job[t].rest)) : Tail(job[t].rest)[k].kind = "message"
    <3>1. \A k \in 1 .. Len(job[t].rest) : job[t].rest[k].kind = "message"
      BY <2>2 DEF Shape
    <3>2. Len(Tail(job[t].rest)) = Len(job[t].rest) - 1 /\ Len(job[t].rest) \in Nat
          /\ \A k \in 1 .. Len(job[t].rest) - 1 : Tail(job[t].rest)[k] = job[t].rest[k + 1]
      BY <2>1, <2>2
    <3> QED BY <3>1, <3>2
  <2>9. Shape(t)'
    <3>1. \A k \in 1 .. Len(job[t].records) : job[t].records[k].kind = "message"
      BY <2>2 DEF Shape
    <3> QED BY <2>7, <2>8, <3>1 DEF Shape
  <2>10. TaskInv(t)'
    BY <1>1, <2>1, <2>7, <2>9 DEF TaskInv, Critical
  <2> QED BY <1>1, <2>1, <2>6, <2>7, <2>10, HolderSteps DEF Critical
<1>9. CASE WritePiece(t)
  <2>1. /\ pc[t] = "write" /\ Goto(t, "cut") /\ path' = path /\ known' = known
        /\ UNCHANGED <<holder, fd, job, read, unread>> /\ fd[t] = path
    BY <1>1, <1>9 DEF WritePiece, TaskInv, spent
  <2>2. PICK piece :
          files' = [files EXCEPT ![path] = [lines |-> @.lines, tail |-> <<piece>>]]
    BY <1>9, <2>1 DEF WritePiece
  <2>3. File'.lines = File.lines
    BY <1>1, <1>3, <2>1, <2>2 DEF File, Content, TypeOK
  <2>4. pc'[t] = "cut" /\ \A u \in Tasks \ {t} : pc'[u] = pc[u] /\ job'[u] = job[u]
    BY <1>1, <2>1 DEF Goto, TypeOK
  <2>5. TaskInv(t)'
    BY <1>1, <2>1, <2>3, <2>4 DEF TaskInv, Shape, Critical
  <2>6. OneStageRecord'
    BY <1>1, <2>1, <2>3, StagedOnceStays
  <2> QED BY <1>1, <2>1, <2>4, <2>5, <2>6, HolderSteps DEF Critical
<1>10. CASE WriteRest(t)
  <2> DEFINE rs == job[t].rest
             g == IF pc[t] = "write" THEN AppendLines(File, rs)
                  ELSE AppendLines(CompleteTail(File, Head(rs)), Tail(rs))
  <2>1. /\ pc[t] \in {"write", "cut"} /\ Goto(t, "flush") /\ path' = path /\ known' = known
        /\ UNCHANGED <<holder, fd, job, read, unread>> /\ fd[t] = path
    BY <1>1, <1>10 DEF WriteRest, TaskInv, spent
  <2>2. File' = g
    BY <1>1, <1>3, <1>10, <2>1 DEF WriteRest, File, Content, TypeOK
  <2>3. rs \in Seq(LogRecord) /\ rs # <<>>
    BY <1>1, <2>1 DEF TypeInv, HasRest, TypeOK, Job
  <2>4. Grows(File, g, rs)
    BY <1>3, <2>3, WriteGrows
  <2>5. g \in FileContent
    BY <1>1, <2>1, <2>2, <1>3, ContentType DEF TypeInv, TypeOK, File, Content
  <2> HIDE DEF g
  <2>6. OneStageRecord'
    <3>1. StagedOnce(g.lines)
      BY <2>1, <2>3, <2>4, <2>5, WriteKeepsStagedOnce
    <3> QED BY <2>1, <2>2, <3>1 DEF OneStageRecord, StagedOnce
  <2>7. pc'[t] = "flush" /\ \A u \in Tasks \ {t} : pc'[u] = pc[u] /\ job'[u] = job[u]
    BY <1>1, <2>1 DEF Goto, TypeOK
  <2>8. TaskInv(t)'
    BY <1>1, <2>1, <2>7 DEF TaskInv, Shape, Critical
  <2> QED BY <1>1, <2>1, <2>6, <2>7, <2>8, HolderSteps DEF Critical
<1>11. CASE Flush(t) \/ Abort(t)
  <2>1. End(t) /\ UNCHANGED disk /\ pc[t] \in Critical
    BY <1>11 DEF Flush, Abort, Critical
  <2>2. path' = path /\ known' = known /\ OneStageRecord'
    <3>1. path' = path /\ known' = known /\ File' = File /\ unread' = unread
      BY <1>11, <2>1 DEF disk, File, Content, Flush, Abort, spent
    <3> QED BY <1>1, <3>1, StagedOnceStays
  <2> QED BY <1>1, <2>1, <2>2, EndKeeps, HolderSteps
<1>12. CASE ReadFails(t)
  <2>1. /\ pc[t] = "scan" /\ UNCHANGED <<disk, holder, job, fd>>
        /\ unread' = unread \cup {job[t].records[1].op} /\ Goto(t, "open")
    BY <1>12 DEF ReadFails
  <2>2. path' = path /\ known' = known /\ File' = File
    BY <2>1 DEF disk, File, Content
  <2>3. OneStageRecord'
    BY <1>1, <2>1, <2>2, StagedOnceStays
  <2>4. pc'[t] = "open" /\ \A u \in Tasks \ {t} : pc'[u] = pc[u] /\ job'[u] = job[u]
    BY <1>1, <2>1 DEF Goto, TypeOK
  <2>5. job'[t].records[1].op \in unread' /\ Shape(t)' /\ holder'[KeyOf[t]] = t
    BY <1>1, <2>1 DEF TaskInv, Shape, Critical
  <2>6. TaskInv(t)'
    BY <2>4, <2>5 DEF TaskInv
  <2> QED BY <1>1, <2>1, <2>2, <2>3, <2>4, <2>6, HolderSteps DEF Critical
<1> QED BY <1>4, <1>5, <1>6, <1>7, <1>8, <1>9, <1>10, <1>11, <1>12 DEF LockedStep

LEMMA CrashOutbox ==
  ASSUME OutboxInv, Crash
  PROVE  OutboxInv'
<1>1. UNCHANGED disk /\ \A t \in Tasks : pc'[t] = "idle"
  BY DEF Crash
<1>2. Phase'
  BY <1>1 DEF OutboxInv, Phase, disk
<1>3. \A t \in Tasks : TaskInv(t)'
  BY <1>1 DEF TaskInv, Critical
<1>4. OneStageRecord'
  <2>1. File' = File /\ unread' = unread
    BY <1>1 DEF Crash, File, Content, disk
  <2> QED BY <2>1, StagedOnceStays DEF OutboxInv
<1> QED BY <1>2, <1>3, <1>4, CrashType DEF OutboxInv

LEMMA NothingLateNext == MaxDrops = 0 /\ NothingLate /\ [Next]_vars => NothingLate'
<1> SUFFICES ASSUME MaxDrops = 0, NothingLate, [Next]_vars PROVE NothingLate'
  OBVIOUS
<1> USE DEF NothingLate, spent
<1>1. CASE UNCHANGED vars
  BY <1>1 DEF vars
<1>2. CASE Crash
  BY <1>2 DEF Crash
<1>3. ASSUME NEW t \in Tasks, Call(t) \/ Delete(t) PROVE NothingLate'
  BY <1>3 DEF Call, CallCreate, CallAppend, CallStage, CallCancel, CallRecover,
              CallArchive, CallRewrite, Begin, Delete
<1>4. ASSUME NEW t \in Tasks, Acquire(t) \/ LockedStep(t) \/ ReadFails(t) \/ Abort(t)
      PROVE  NothingLate'
  BY <1>4 DEF Acquire, LockedStep, Scan, Repair, OpenAppend, WriteLine, WritePiece,
              WriteRest, Flush, ReadFails, Abort
<1>5. ASSUME NEW t \in Tasks, UnlockedStep(t) PROVE NothingLate'
  BY <1>5 DEF UnlockedStep, RecoverRead, RecoverTruncate, RecoverWrite,
              ArchiveCopy, ArchiveRemove, TmpOpen, TmpWrite, Rename
<1>6. ~ LateWrite /\ \A t \in Tasks : ~ Drop(t)
  BY DEF LateWrite, Drop
<1> QED BY <1>1, <1>2, <1>3, <1>4, <1>5, <1>6 DEF Next

LEMMA OutboxInvNext ==
  LockedCallsOnly /\ NothingLate /\ OutboxInv /\ [Next]_vars => OutboxInv'
<1> SUFFICES ASSUME LockedCallsOnly, NothingLate, OutboxInv, [Next]_vars PROVE OutboxInv'
  OBVIOUS
<1>1. CASE UNCHANGED vars
  <2>1. TypeInv'
    BY TypeInvNext DEF OutboxInv
  <2>2. Phase' /\ OneStageRecord' /\ \A t \in Tasks : TaskInv(t)'
    BY <1>1 DEF vars, disk, local, spent, OutboxInv, Phase, OneStageRecord, StagedOnce,
                TaskInv, Shape, File, Content
  <2> QED BY <2>1, <2>2 DEF OutboxInv
<1>2. CASE Next
  <2>1. ~ LateWrite /\ \A t \in Tasks : ~ Drop(t)
    BY DEF LockedCallsOnly, NothingLate, LateWrite, Drop
  <2> QED BY <1>2, <2>1, CallOutbox, LockedOutbox, CreateOutbox, CrashOutbox DEF Next
<1> QED BY <1>1, <1>2

(* However many tasks stage, cancel, retry and append at once, through     *)
(* crashes and appends that end early, a file all of them spell the same   *)
(* way has one stage record of an operation, and none once it was          *)
(* cancelled, unless one of these calls could not read the file.           *)
THEOREM StagesOnce == LockedCallsOnly => (Spec => []OneStageRecord)
<1> SUFFICES ASSUME LockedCallsOnly PROVE Spec => []OneStageRecord
  OBVIOUS
<1>1. NothingLate /\ OutboxInv /\ [Next]_vars => NothingLate' /\ OutboxInv'
  BY NothingLateNext, OutboxInvNext DEF LockedCallsOnly
<1>2. OutboxInv => OneStageRecord
  BY DEF OutboxInv
<1>3. Init => NothingLate
  BY DEF Init, NothingLate
<1> QED BY <1>1, <1>2, <1>3, OutboxInvInit, PTL DEF Spec

-----------------------------------------------------------------------------
(* Lines that stay where they are, and records that come after them.       *)
LEMMA SameLinesArePrefix ==
  ASSUME NEW f \in FileContent
  PROVE  IsPrefix(f.lines, f.lines)
<1>1. Len(f.lines) \in Nat
  BY DEF FileContent
<1> QED BY <1>1 DEF IsPrefix

LEMMA GrownIsPrefix ==
  ASSUME NEW f \in FileContent, NEW g \in FileContent,
         NEW rs \in Seq(LogRecord), Grows(f, g, rs)
  PROVE  IsPrefix(f.lines, g.lines)
<1> DEFINE n == Len(f.lines)
<1>1. n \in Nat /\ Len(rs) \in Nat /\ Len(g.lines) = n + Len(rs)
  BY DEF FileContent, Grows
<1>2. f.lines \in Seq(Line) /\ g.lines \in Seq(Line)
  BY DEF FileContent
<1>3. \A i \in 1 .. n : f.lines[i] = g.lines[i]
  BY DEF Grows
<1>4. SubSeq(f.lines, 1, n) = [i \in 1 .. n |-> f.lines[i]]
      /\ SubSeq(g.lines, 1, n) = [i \in 1 .. n |-> g.lines[i]]
  BY <1>1, <1>2
<1>5. n <= Len(g.lines)
  BY <1>1
<1> QED BY <1>3, <1>4, <1>5 DEF IsPrefix

(* What the task in the critical section does to the lines of the file.    *)
LEMMA LockedStepGrows ==
  ASSUME LockedCallsOnly, OutboxInv, NEW t \in Tasks,
         Acquire(t) \/ LockedStep(t) \/ ReadFails(t) \/ Abort(t)
  PROVE  IsPrefix(File.lines, File'.lines)
<1>1. TypeInv /\ TypeOK /\ TaskInv(t) /\ TypeInv'
  BY LockedType DEF OutboxInv, TypeInv
<1>2. pc[t] \in Critical \cup {"wait"}
  BY DEF Acquire, LockedStep, Scan, Repair, OpenAppend, WriteLine, WritePiece, WriteRest,
         Flush, ReadFails, Abort, Critical
<1>3. known /\ path # NoFile /\ path \in Inodes /\ File = files[path] /\ File \in FileContent
  BY <1>1, <1>2, ContentType DEF OutboxInv, Phase, Critical, TypeOK, File, Content
<1>4. File' \in FileContent
  BY <1>1, ContentType DEF TypeInv, TypeOK, File, Content
<1>5. CASE File'.lines = File.lines
  BY <1>3, <1>5, SameLinesArePrefix
<1>6. CASE Acquire(t) \/ Scan(t) \/ Flush(t) \/ ReadFails(t) \/ Abort(t)
  <2>1. File' = File
    BY <1>6 DEF Acquire, Scan, Flush, ReadFails, Abort, disk, File, Content
  <2> QED BY <1>5, <2>1
<1>7. CASE Repair(t)
  <2>1. path' = path /\ read[t].lines = File.lines
        /\ files' = [files EXCEPT ![path] = SetLen(@, Len(read[t].lines))]
    BY <1>1, <1>3, <1>7 DEF Repair, TaskInv
  <2>2. File' = SetLen(File, Len(File.lines))
    BY <1>1, <1>3, <2>1 DEF File, Content, TypeOK
  <2>3. SetLen(File, Len(File.lines)) = [lines |-> File.lines, tail |-> <<>>]
    BY <1>3, SetLenCutsTail
  <2> QED BY <1>5, <2>2, <2>3
<1>8. CASE OpenAppend(t)
  <2>1. Opens(path) = {path}
    BY <1>3 DEF Opens
  <2>2. path' = path /\ files' = files
    BY <1>3, <1>8, <2>1 DEF OpenAppend
  <2> QED BY <1>5, <2>2 DEF File, Content
<1>9. CASE WritePiece(t)
  <2>1. path' = path /\ fd[t] = path
    BY <1>1, <1>9 DEF WritePiece, TaskInv
  <2>2. PICK piece :
          files' = [files EXCEPT ![path] = [lines |-> @.lines, tail |-> <<piece>>]]
    BY <1>9, <2>1 DEF WritePiece
  <2>3. File'.lines = File.lines
    BY <1>1, <1>3, <2>1, <2>2 DEF File, Content, TypeOK
  <2> QED BY <1>5, <2>3
<1>10. CASE WriteLine(t) \/ WriteRest(t)
  <2> DEFINE rs == job[t].rest
  <2>1. pc[t] \in {"write", "cut"} /\ path' = path /\ fd[t] = path
    BY <1>1, <1>10 DEF WriteLine, WriteRest, TaskInv
  <2>2. rs \in Seq(LogRecord) /\ rs # <<>>
    BY <1>1, <2>1 DEF TypeInv, HasRest, TypeOK, Job
  <2>3. <<Head(rs)>> \in Seq(LogRecord)
    BY <2>2
  <2>4. \/ File' = AppendLines(File, rs)
        \/ File' = AppendLines(CompleteTail(File, Head(rs)), Tail(rs))
        \/ File' = AppendLines(File, <<Head(rs)>>)
    BY <1>1, <1>3, <1>10, <2>1 DEF WriteLine, WriteRest, File, Content, TypeOK
  <2>5. Grows(File, File', rs) \/ Grows(File, File', <<Head(rs)>>)
    BY <1>3, <2>2, <2>4, WriteGrows
  <2> QED BY <1>3, <1>4, <2>2, <2>3, <2>5, GrownIsPrefix
<1> QED BY <1>6, <1>7, <1>8, <1>9, <1>10 DEF LockedStep

(* Before create has renamed its temporary file there is no file.          *)
LEMMA CreateGrows ==
  ASSUME OutboxInv, LockedCallsOnly, NEW t \in Tasks, UnlockedStep(t)
  PROVE  IsPrefix(File.lines, File'.lines)
<1>1. path = NoFile /\ File = EmptyFile /\ File \in FileContent
  BY EmptyFileType DEF UnlockedStep, RecoverRead, RecoverTruncate, RecoverWrite, ArchiveCopy,
         ArchiveRemove, TmpOpen, TmpWrite, Rename, OutboxInv, Phase, Critical, File, Content
<1>2. OutboxInv'
  BY CreateOutbox
<1>3. File' \in FileContent
  BY <1>2, ContentType DEF OutboxInv, TypeInv, TypeOK, File, Content
<1>4. File'.lines \in Seq(Line) /\ Len(File.lines) = 0 /\ File.lines = <<>>
  BY <1>1, <1>3 DEF FileContent, EmptyFile
<1>5. SubSeq(File'.lines, 1, 0) = <<>> /\ SubSeq(File.lines, 1, 0) = <<>>
  BY <1>4
<1>6. Len(File'.lines) \in Nat
  BY <1>4
<1> QED BY <1>4, <1>5, <1>6 DEF IsPrefix

LEMMA EveryStepGrows ==
  LockedCallsOnly /\ NothingLate /\ OutboxInv /\ [Next]_vars
  => IsPrefix(File.lines, File'.lines)
<1> SUFFICES ASSUME LockedCallsOnly, NothingLate, OutboxInv, [Next]_vars
             PROVE  IsPrefix(File.lines, File'.lines)
  OBVIOUS
<1>1. File \in FileContent
  BY ContentType DEF OutboxInv, TypeInv, TypeOK, File
<1>2. CASE File' = File
  BY <1>1, <1>2, SameLinesArePrefix
<1>3. CASE UNCHANGED vars \/ Crash
  BY <1>2, <1>3 DEF vars, disk, Crash, File, Content
<1>4. ASSUME NEW t \in Tasks, Call(t) \/ Delete(t) PROVE IsPrefix(File.lines, File'.lines)
  <2>1. ~ Delete(t)
    BY DEF Delete, LockedCallsOnly
  <2>2. UNCHANGED disk
    BY <1>4, <2>1 DEF Call, CallCreate, CallAppend, CallStage, CallCancel, CallRecover,
                      CallArchive, CallRewrite, Begin
  <2> QED BY <1>2, <2>2 DEF disk, File, Content
<1>5. ~ LateWrite /\ \A t \in Tasks : ~ Drop(t)
  BY DEF LockedCallsOnly, NothingLate, LateWrite, Drop
<1> QED BY <1>3, <1>4, <1>5, LockedStepGrows, CreateGrows DEF Next

(* What is once a complete line of the session's file stays that line, at  *)
(* that place: appends, stagings, cancellations, the repair of a torn      *)
(* tail, errors and crashes only ever add behind it.                       *)
THEOREM LinesStay == LockedCallsOnly => (Spec => AppendOnly)
<1> SUFFICES ASSUME LockedCallsOnly PROVE Spec => AppendOnly
  OBVIOUS
<1>1. NothingLate /\ OutboxInv /\ [Next]_vars => NothingLate' /\ OutboxInv'
  BY NothingLateNext, OutboxInvNext DEF LockedCallsOnly
<1>2. NothingLate /\ OutboxInv /\ [Next]_vars => [IsPrefix(File.lines, File'.lines)]_vars
  BY EveryStepGrows
<1>3. Init => NothingLate
  BY DEF Init, NothingLate
<1> QED BY <1>1, <1>2, <1>3, OutboxInvInit, PTL DEF Spec, AppendOnly

-----------------------------------------------------------------------------
(* What the answers and the file say of each other, and the refinement.    *)

(* A durable record that needs no other write: it, or for a staging its    *)
(* cancellation, is on file, unless its operation is in doubt.             *)
Backed(lines, r) ==
  \E op \in Operations :
    \/ r = Stage(op, op) /\ (op \in unread \/ HasDurableId(lines, op))
    \/ r = Cancel(op) /\ (op \in unread \/ CancelledIn(lines, op))

(* A task whose write begins at the beginning of a line: its append_once   *)
(* read the file and cut a torn tail off, or no batch met one.             *)
Sound(t) == IF job[t].call = "append" THEN ~ blind ELSE job[t].records[1].op \notin unread

(* What the task with the lock knows of the end of the file.               *)
Writer(t) ==
  /\ pc[t] = "open" /\ job[t].call # "append" /\ Sound(t) => File.tail = <<>>
  /\ pc[t] = "write" /\ Sound(t) => File.tail = <<>>
  /\ pc[t] = "cut" => File.tail # <<>> /\ File.tail[1].whole = Head(job[t].rest)
  /\ pc[t] = "flush" /\ job[t].call # "append" => Backed(File.lines, job[t].records[1])

AckedIsBacked == \A r \in acked : r.kind = "message" \/ Backed(File.lines, r)

Clean(lines) == \A i \in 1 .. Len(lines) : lines[i] \notin {Garbage, BadUtf8}

DurableInv == /\ NothingLate /\ OutboxInv /\ (\A t \in Tasks : Writer(t))
              /\ AckedIsBacked /\ (~ known => acked = {}) /\ EveryLineParses

(* All that a step can do to what the lines of the file say, to what was   *)
(* answered and to what is in doubt: nothing, an answer the file bears     *)
(* out, the answer of a batch, one durable record more, lines that say     *)
(* nothing of an operation whose log was read, a read that fails, or the   *)
(* first line of a session.                                                *)
Same         == File'.lines = File.lines /\ acked' = acked /\ unread' = unread
Answers(r)   == /\ Backed(File.lines, r)
                /\ File'.lines = File.lines /\ acked' = acked \cup {r} /\ unread' = unread
AnswersBatch == /\ acked \subseteq acked' /\ \A r \in acked' \ acked : r.kind = "message"
                /\ File'.lines = File.lines /\ unread' = unread
Stages(op)   == /\ op \notin unread /\ ~ HasDurableId(File.lines, op)
                /\ File'.lines = Append(File.lines, Stage(op, op))
                /\ acked' = acked /\ unread' = unread
Cancels(op)  == /\ op \notin unread /\ File'.lines = Append(File.lines, Cancel(op))
                /\ acked' = acked /\ unread' = unread
SaysTheSame(ls, ms, op) == /\ StagedIn(ms, op) <=> StagedIn(ls, op)
                           /\ CancelledIn(ms, op) <=> CancelledIn(ls, op)
Adds         == /\ \A op \in Operations \ unread : SaysTheSame(File.lines, File'.lines, op)
                /\ acked' = acked /\ unread' = unread
Doubts(op)   == File'.lines = File.lines /\ acked' = acked /\ unread' = unread \cup {op}
Creates      == /\ acked = {} /\ acked' = {} /\ unread' = unread
                /\ AllMeta(File.lines) /\ AllMeta(File'.lines)

OutboxStep == \/ Same \/ (\E r : Answers(r)) \/ AnswersBatch \/ Adds \/ Creates
              \/ \E op \in Operations : Stages(op) \/ Cancels(op) \/ Doubts(op)

(* No step makes a line that does not parse while the property forbids it. *)
CleanStep == Repaired /\ Clean(File.lines) => Clean(File'.lines)

(* A record at the end of the lines: what it adds to what they say.        *)
LEMMA AppendedRecord ==
  ASSUME NEW ls \in Seq(Line), NEW r \in LogRecord
  PROVE  /\ \A op : StagedIn(Append(ls, r), op)
                    <=> StagedIn(ls, op) \/ (r.kind = "stage" /\ r.op = op)
         /\ \A op : CancelledIn(Append(ls, r), op)
                    <=> CancelledIn(ls, op) \/ (r.kind = "cancel" /\ r.op = op)
         /\ \A i \in 1 .. Len(Append(ls, r)) :
              Append(ls, r)[i] = r \/ \E k \in 1 .. Len(ls) : Append(ls, r)[i] = ls[k]
<1> DEFINE g == Append(ls, r)
           n == Len(ls)
<1>1. n \in Nat /\ Len(g) = n + 1 /\ g[n + 1] = r /\ \A i \in 1 .. n : g[i] = ls[i]
  OBVIOUS
<1> HIDE DEF g, n
<1>2. 1 .. Len(g) = (1 .. n) \cup {n + 1}
  BY <1>1
<1>3. \A i \in 1 .. Len(g) : i \in 1 .. n \/ i = n + 1
  BY <1>2
<1>4. \A i \in 1 .. n : i \in 1 .. Len(g)
  BY <1>2
<1>5. n + 1 \in 1 .. Len(g)
  BY <1>2
<1>6. \A op : StagedIn(g, op) <=> StagedIn(ls, op) \/ (r.kind = "stage" /\ r.op = op)
  BY <1>1, <1>3, <1>4, <1>5, Zenon DEF StagedIn, n
<1>7. \A op : CancelledIn(g, op) <=> CancelledIn(ls, op) \/ (r.kind = "cancel" /\ r.op = op)
  BY <1>1, <1>3, <1>4, <1>5, Zenon DEF CancelledIn, n
<1>8. \A i \in 1 .. Len(g) : g[i] = r \/ \E k \in 1 .. n : g[i] = ls[k]
  BY <1>1, <1>3
<1> QED BY <1>6, <1>7, <1>8 DEF g, n

LEMMA DurableRecords ==
  ASSUME NEW op \in Operations
  PROVE  /\ Stage(op, op) \in LogRecord /\ Cancel(op) \in LogRecord
         /\ Stage(op, op).kind = "stage" /\ Stage(op, op).op = op
         /\ Cancel(op).kind = "cancel" /\ Cancel(op).op = op
         /\ Stage(op, op) \notin {Garbage, BadUtf8} /\ Cancel(op) \notin {Garbage, BadUtf8}
<1>1. op \in Messages
  BY RecordsAssumption
<1> QED BY <1>1 DEF Stage, Cancel, LogRecord, Garbage, BadUtf8

LEMMA LinesType ==
  ASSUME TypeOK
  PROVE  File \in FileContent /\ File.lines \in Seq(Line)
<1>1. File \in FileContent
  BY ContentType DEF File, TypeOK
<1> QED BY <1>1 DEF FileContent

(* A durable record is one of an operation, so no record on file has the   *)
(* id an append_once looks for before it writes a cancellation.            *)
LEMMA NoCancelKey ==
  ASSUME TypeOK, NEW op \in Operations
  PROVE  ~ HasDurableId(File.lines, <<"cancel", op>>)
<1>1. ASSUME NEW r \in Line, r.kind \in {"stage", "cancel"} PROVE r.op \in Operations
  BY <1>1 DEF Line, LogRecord, Meta, Tool, Note, Garbage, BadUtf8, Blank
<1>2. \A i \in 1 .. Len(File.lines) : File.lines[i] \in Line
  BY LinesType
<1> QED BY <1>1, <1>2, CancelKeyAssumption DEF HasDurableId, StagedIn, CancelledIn

(* Lines that are of other operations, or of none, say nothing of an       *)
(* operation.                                                              *)
LEMMA GrowthSaysTheSame ==
  ASSUME NEW f \in FileContent, NEW g \in FileContent, NEW rs \in Seq(LogRecord),
         Grows(f, g, rs), NEW op,
         \A k \in 1 .. Len(rs) : rs[k].kind = "message" \/ rs[k].op # op
  PROVE  SaysTheSame(f.lines, g.lines, op)
<1>1. Len(f.lines) \in Nat /\ Len(rs) \in Nat /\ Len(g.lines) = Len(f.lines) + Len(rs)
  BY DEF FileContent, Grows
<1>2. ASSUME NEW i \in 1 .. Len(f.lines)
      PROVE  i \in 1 .. Len(g.lines) /\ g.lines[i] = f.lines[i]
  <2>1. i \in 1 .. Len(g.lines)
    BY <1>1
  <2> QED BY <2>1 DEF Grows
<1>3. ASSUME NEW i \in 1 .. Len(g.lines), g.lines[i].kind \in {"stage", "cancel"},
             g.lines[i].op = op
      PROVE  i \in 1 .. Len(f.lines)
  <2> SUFFICES ASSUME ~ (i <= Len(f.lines)) PROVE FALSE
    BY <1>1
  <2> DEFINE k == i - Len(f.lines)
  <2>1. k \in 1 .. Len(rs) /\ i = Len(f.lines) + k
    <3>1. i \in Nat /\ i <= Len(f.lines) + Len(rs) /\ i > Len(f.lines)
      BY <1>1
    <3> QED BY <1>1, <3>1, PlaceBeyond
  <2>2. g.lines[i] \in {rs[k], Garbage, BadUtf8}
    BY <2>1 DEF Grows
  <2>3. g.lines[i] = rs[k]
    BY <1>3, <2>2 DEF Garbage, BadUtf8
  <2> QED BY <1>3, <2>1, <2>3
<1>4. StagedIn(g.lines, op) <=> StagedIn(f.lines, op)
  BY <1>2, <1>3 DEF StagedIn
<1>5. CancelledIn(g.lines, op) <=> CancelledIn(f.lines, op)
  BY <1>2, <1>3 DEF CancelledIn
<1> QED BY <1>4, <1>5 DEF SaysTheSame

(* A write that begins at the beginning of a line, or goes on with the     *)
(* piece it wrote, makes the lines it is to make.                          *)
LEMMA CleanWrite ==
  ASSUME NEW f \in FileContent, NEW rs \in Seq(LogRecord), rs # <<>>
  PROVE  /\ f.tail = <<>>
            => /\ AppendLines(f, rs) = [lines |-> f.lines \o rs, tail |-> <<>>]
               /\ AppendLines(f, <<Head(rs)>>)
                    = [lines |-> f.lines \o <<Head(rs)>>, tail |-> <<>>]
         /\ f.tail # <<>> /\ f.tail[1].whole = Head(rs)
            => AppendLines(CompleteTail(f, Head(rs)), Tail(rs))
                 = [lines |-> f.lines \o rs, tail |-> <<>>]
<1>1. f.lines \in Seq(Line) /\ rs \in Seq(Line) /\ Head(rs) \in Line
      /\ Tail(rs) \in Seq(Line)
  BY SeqOfRecordsIsSeqOfLines DEF FileContent
<1>2. ASSUME f.tail # <<>>, f.tail[1].whole = Head(rs)
      PROVE  AppendLines(CompleteTail(f, Head(rs)), Tail(rs))
               = [lines |-> f.lines \o rs, tail |-> <<>>]
  <2> DEFINE m == CompleteTail(f, Head(rs))
  <2>1. m.lines = Append(f.lines, Head(rs)) /\ m.tail = <<>>
    BY <1>2 DEF CompleteTail
  <2> HIDE DEF m
  <2>2. AppendLines(m, Tail(rs)) = [lines |-> Append(f.lines, Head(rs)) \o Tail(rs),
                                    tail |-> <<>>]
    BY <2>1 DEF AppendLines
  <2>3. Append(f.lines, Head(rs)) \o Tail(rs) = f.lines \o rs
    BY <1>1
  <2> QED BY <2>2, <2>3 DEF m
<1>3. f.tail = <<>> => AppendLines(f, rs) = [lines |-> f.lines \o rs, tail |-> <<>>]
  BY DEF AppendLines
<1>4. f.tail = <<>> => AppendLines(f, <<Head(rs)>>)
                         = [lines |-> f.lines \o <<Head(rs)>>, tail |-> <<>>]
  BY DEF AppendLines
<1> QED BY <1>2, <1>3, <1>4

LEMMA CleanGrows ==
  ASSUME NEW ls \in Seq(Line), NEW rs \in Seq(LogRecord), Clean(ls)
  PROVE  Clean(ls \o rs)
<1>1. Len(ls) \in Nat /\ Len(rs) \in Nat
  OBVIOUS
<1>2. \A r \in LogRecord : r \notin {Garbage, BadUtf8}
  BY DEF LogRecord, Meta, Tool, Note, Garbage, BadUtf8
<1>3. rs \in Seq(Line)
  BY SeqOfRecordsIsSeqOfLines
<1> DEFINE g == ls \o rs
<1>4. /\ Len(g) = Len(ls) + Len(rs)
      /\ \A i \in 1 .. Len(ls) : g[i] = ls[i]
      /\ \A i \in 1 .. Len(rs) : g[Len(ls) + i] = rs[i]
  BY <1>3
<1> HIDE DEF g
<1>5. ASSUME NEW i \in 1 .. Len(g) PROVE g[i] \notin {Garbage, BadUtf8}
  <2>1. CASE i <= Len(ls)
    <3>1. i \in 1 .. Len(ls)
      BY <1>1, <1>4, <2>1
    <3> QED BY <1>4, <3>1 DEF Clean
  <2>2. CASE ~ (i <= Len(ls))
    <3> DEFINE k == i - Len(ls)
    <3>1. k \in 1 .. Len(rs) /\ i = Len(ls) + k
      <4>1. i \in Nat /\ i <= Len(ls) + Len(rs) /\ i > Len(ls)
        BY <1>1, <1>4, <2>2
      <4> QED BY <1>1, <4>1, PlaceBeyond
    <3>2. g[i] = rs[k] /\ rs[k] \in LogRecord
      BY <1>4, <3>1
    <3> QED BY <1>2, <3>2
  <2> QED BY <2>1, <2>2
<1> QED BY <1>5 DEF Clean, g

(* The record the durable call of a task is about.                         *)
LEMMA DurableJob ==
  ASSUME OutboxInv, NEW t \in Tasks, job[t].call # "append", pc[t] \in Critical \cup {"wait"}
  PROVE  \E op \in Operations :
           /\ \/ job[t].call = "stage" /\ job[t].records = <<Stage(op, op)>>
              \/ job[t].call = "cancel" /\ job[t].records = <<Cancel(op)>>
           /\ job[t].rest = job[t].records /\ job[t].records[1].op = op
<1>1. Shape(t)
  BY DEF OutboxInv, TaskInv
<1>2. CASE job[t].call = "stage"
  <2>1. PICK op \in Operations : job[t].records = <<Stage(op, op)>>
    BY <1>1, <1>2 DEF Shape
  <2>2. job[t].records[1].op = op
    BY <2>1, DurableRecords
  <2> QED BY <1>1, <1>2, <2>1, <2>2 DEF Shape
<1>3. CASE job[t].call = "cancel"
  <2>1. PICK op \in Operations : job[t].records = <<Cancel(op)>>
    BY <1>1, <1>3 DEF Shape
  <2>2. job[t].records[1].op = op
    BY <2>1, DurableRecords
  <2> QED BY <1>1, <1>3, <2>1, <2>2 DEF Shape
<1> QED BY <1>1, <1>2, <1>3 DEF Shape

LEMMA OthersWrite ==
  ASSUME LockedCallsOnly, OutboxInv, NEW t \in Tasks,
         \/ pc[t] \in Critical
         \/ File' = File /\ unread' = unread /\ blind' = blind,
         NEW u \in Tasks, u # t, pc'[u] = pc[u], job'[u] = job[u], Writer(u)
  PROVE  Writer(u)'
<1>1. CASE File' = File /\ unread' = unread /\ blind' = blind
  BY <1>1 DEF Writer, Sound, Backed
<1>2. CASE pc[t] \in Critical
  <2>1. KeyOf[u] = KeyOf[t]
    BY DEF LockedCallsOnly
  <2>2. holder[KeyOf[t]] = t /\ (pc[u] \in Critical => holder[KeyOf[u]] = u)
    BY <1>2 DEF OutboxInv, TaskInv
  <2>3. pc[u] \notin Critical
    BY <2>1, <2>2
  <2> QED BY <2>3 DEF Writer, Critical
<1> QED BY <1>1, <1>2

(* What a step that leaves the lines alone has to say.                     *)
LEMMA SameLinesStep ==
  ASSUME File'.lines = File.lines
  PROVE  CleanStep
BY DEF CleanStep

LEMMA FoundOrOpenWriter ==
  ASSUME LockedCallsOnly, DurableInv, NEW t \in Tasks, pc[t] \in {"scan", "repair"},
         NEW seen, seen.lines = File.lines, FoundOrOpen(t, seen),
         File'.lines = File.lines, File'.tail = <<>>, unread' = unread
  PROVE  OutboxStep /\ Writer(t)'
<1>1. OutboxInv /\ TypeOK /\ Writer(t) /\ pc[t] \in Critical /\ job[t].call # "append"
  BY DEF DurableInv, OutboxInv, TypeInv, TaskInv, Critical
<1>2. PICK op \in Operations :
        /\ \/ job[t].call = "stage" /\ job[t].records = <<Stage(op, op)>>
           \/ job[t].call = "cancel" /\ job[t].records = <<Cancel(op)>>
        /\ job[t].records[1].op = op
  BY <1>1, DurableJob
<1>4. CASE HasDurableId(seen.lines, DedupKey(t))
  <2>1. End(t) /\ acked' = acked \cup ToSet(job[t].records)
    BY <1>4 DEF FoundOrOpen, Ack
  <2>2. job[t].call = "stage"
    BY <1>1, <1>2, <1>4, NoCancelKey DEF DedupKey
  <2>3. job[t].records = <<Stage(op, op)>> /\ HasDurableId(File.lines, op)
    BY <1>2, <1>4, <2>2 DEF DedupKey
  <2>4. ToSet(job[t].records) = {Stage(op, op)}
    BY <2>3 DEF ToSet
  <2>5. Answers(Stage(op, op))
    BY <2>1, <2>3, <2>4 DEF Answers, Backed
  <2>6. Writer(t)'
    BY <1>1, <2>1 DEF End, TypeOK, Writer, Critical
  <2> QED BY <2>5, <2>6 DEF OutboxStep
<1>5. CASE ~ HasDurableId(seen.lines, DedupKey(t))
  <2>1. Goto(t, "open") /\ job' = job /\ acked' = acked
    BY <1>5 DEF FoundOrOpen
  <2>2. pc'[t] = "open"
    BY <1>1, <2>1 DEF Goto, TypeOK
  <2>3. Writer(t)'
    BY <1>1, <2>1, <2>2 DEF Writer
  <2> QED BY <2>1, <2>3 DEF OutboxStep, Same
<1> QED BY <1>4, <1>5

(* Every step of the task that has the lock, the one that takes it, and    *)
(* the two that an I/O error makes.                                        *)
TaskStep(t) == OutboxStep /\ Writer(t)' /\ CleanStep

LEMMA WriterSteps ==
  ASSUME LockedCallsOnly, DurableInv, NEW t \in Tasks,
         Acquire(t) \/ LockedStep(t) \/ ReadFails(t) \/ Abort(t)
  PROVE  TaskStep(t)
<1>1. OutboxInv /\ TypeOK /\ TaskInv(t) /\ Writer(t)
  BY DEF DurableInv, OutboxInv, TypeInv
<1>2. pc[t] \in Critical \cup {"wait"}
  BY DEF Acquire, LockedStep, Scan, Repair, OpenAppend, WriteLine, WritePiece, WriteRest,
         Flush, ReadFails, Abort, Critical
<1>3. known /\ path # NoFile /\ path \in Inodes /\ File = files[path] /\ File \in FileContent
      /\ File.lines \in Seq(Line)
  BY <1>1, <1>2, LinesType DEF OutboxInv, Phase, Critical, TypeOK, File, Content
<1>4. /\ Acquire(t) \/ LockedStep(t) \/ Abort(t) => unread' = unread
      /\ ~ OpenAppend(t) => blind' = blind
  <2>1. Acquire(t) \/ LockedStep(t) \/ Abort(t) => unread' = unread
    BY UnreadStays
  <2>2. ~ OpenAppend(t) => blind' = blind
    BY DEF Acquire, LockedStep, Scan, Repair, WriteLine, WritePiece, WriteRest, Flush,
           ReadFails, Abort, spent
  <2> QED BY <2>1, <2>2
<1>5. job[t].rest \in Seq(LogRecord) /\ job[t].records \in Seq(LogRecord) /\ Shape(t)
      /\ (pc[t] \in {"open", "write", "cut"} => job[t].rest # <<>>)
  BY <1>1, <1>2 DEF TypeOK, Job, TaskInv, Writer, OutboxInv, TypeInv, HasRest
<1>6. CASE Acquire(t)
  <2>1. /\ File' = File /\ acked' = acked /\ job' = job
        /\ pc[t] = "wait" /\ holder[KeyOf[t]] = NoTask
        /\ pc'[t] \in {"open", "scan"} /\ (pc'[t] = "open" => job[t].call = "append")
    BY <1>1, <1>6 DEF Acquire, Goto, disk, File, Content, TypeOK
  <2>2. Writer(t)'
    BY <2>1 DEF Writer
  <2> QED BY <1>4, <1>6, <2>1, <2>2, SameLinesStep DEF OutboxStep, Same, TaskStep
<1>7. CASE Scan(t)
  <2>1. File' = File /\ pc[t] = "scan" /\ unread' = unread
    BY <1>4, <1>7 DEF Scan, disk, File, Content, LockedStep
  <2>2. OutboxStep /\ Writer(t)'
    <3>1. CASE File.tail = <<>>
      BY <1>7, <2>1, <3>1, FoundOrOpenWriter DEF Scan
    <3>2. CASE File.tail # <<>>
      <4>1. Goto(t, "repair") /\ job' = job /\ acked' = acked
        BY <1>7, <3>2 DEF Scan
      <4>2. pc'[t] = "repair"
        BY <1>1, <4>1 DEF Goto, TypeOK
      <4>3. Writer(t)'
        BY <1>5, <4>1, <4>2 DEF Writer
      <4> QED BY <2>1, <4>1, <4>3 DEF OutboxStep, Same
    <3> QED BY <3>1, <3>2
  <2> QED BY <2>1, <2>2, SameLinesStep DEF TaskStep
<1>8. CASE Repair(t)
  <2>1. /\ path' = path /\ read[t].lines = File.lines /\ pc[t] = "repair"
        /\ files' = [files EXCEPT ![path] = SetLen(@, Len(read[t].lines))]
        /\ FoundOrOpen(t, [read[t] EXCEPT !.tail = <<>>]) /\ unread' = unread
    BY <1>1, <1>3, <1>4, <1>8 DEF Repair, TaskInv, LockedStep
  <2>2. File' = SetLen(File, Len(File.lines))
    BY <1>1, <1>3, <2>1 DEF File, Content, TypeOK
  <2>3. SetLen(File, Len(File.lines)) = [lines |-> File.lines, tail |-> <<>>]
    BY <1>3, SetLenCutsTail
  <2>4. [read[t] EXCEPT !.tail = <<>>] = [lines |-> read[t].lines, tail |-> <<>>]
    BY <1>1, CutType DEF TypeOK
  <2>5. File'.lines = File.lines /\ File'.tail = <<>>
    BY <2>2, <2>3
  <2>6. OutboxStep /\ Writer(t)'
    BY <2>1, <2>4, <2>5, FoundOrOpenWriter
  <2> QED BY <2>5, <2>6, SameLinesStep DEF TaskStep
<1>9. CASE OpenAppend(t)
  <2>1. Opens(path) = {path}
    BY <1>3 DEF Opens
  <2>2. path' = path /\ files' = files /\ Goto(t, "write") /\ job' = job /\ acked' = acked
        /\ pc[t] = "open" /\ blind' = (blind \/ (job[t].call = "append" /\ File.tail # <<>>))
    BY <1>3, <1>9, <2>1 DEF OpenAppend
  <2>3. File' = File /\ pc'[t] = "write"
    BY <1>1, <2>2 DEF Goto, TypeOK, File, Content
  <2>4. unread' = unread
    BY <1>4, <1>9 DEF LockedStep
  <2>5. Sound(t)' => File'.tail = <<>>
    BY <1>1, <2>2, <2>3, <2>4 DEF Writer, Sound
  <2>6. Writer(t)'
    BY <2>3, <2>5 DEF Writer
  <2> QED BY <2>2, <2>3, <2>4, <2>6, SameLinesStep
          DEF OutboxStep, Same, TaskStep, LockedStep
<1>10. CASE WriteLine(t)
  <2> DEFINE h == Head(job[t].rest)
  <2>1. /\ pc[t] = "write" /\ pc' = pc /\ path' = path /\ fd[t] = path /\ acked' = acked
        /\ files' = [files EXCEPT ![path] = AppendLines(@, <<h>>)]
        /\ job' = [job EXCEPT ![t].rest = Tail(@)] /\ Len(job[t].rest) > 1
    BY <1>1, <1>10 DEF WriteLine, TaskInv
  <2>2. job[t].call = "append"
    <3>1. \A r : job[t].rest # <<r>>
      BY <1>5, <2>1, MoreThanOne
    <3> QED BY <1>5, <3>1 DEF Shape
  <2>3. h \in LogRecord /\ h.kind = "message"
    <3>1. h = job[t].rest[1] /\ Len(job[t].rest) \in Nat \ {0} /\ h \in LogRecord
      BY <1>5, <2>1
    <3> QED BY <1>5, <2>2, <3>1 DEF Shape
  <2> HIDE DEF h
  <2>4. File' = AppendLines(File, <<h>>)
    BY <1>1, <1>3, <2>1 DEF File, Content, TypeOK
  <2>5. <<h>> \in Seq(LogRecord) /\ <<h>> # <<>> /\ Head(<<h>>) = h /\ Len(<<h>>) = 1
        /\ <<h>>[1] = h
    BY <2>3
  <2>6. Grows(File, File', <<h>>) /\ File' \in FileContent
    <3>1. <<h>> \in Seq(Line)
      BY <2>3, RecordsAreLines
    <3> QED BY <1>3, <2>4, <2>5, <3>1, WriteGrows, AppendLinesGrows
  <2>7. \A op : SaysTheSame(File.lines, File'.lines, op)
    <3>1. \A k \in 1 .. Len(<<h>>) : <<h>>[k].kind = "message"
      BY <2>3, <2>5
    <3> QED BY <1>3, <2>5, <2>6, <3>1, GrowthSaysTheSame
  <2>8. ~ blind => File' = [lines |-> File.lines \o <<h>>, tail |-> <<>>]
    <3>1. ~ blind => File.tail = <<>>
      BY <1>1, <2>1, <2>2 DEF Writer, Sound
    <3> QED BY <1>3, <2>4, <2>5, <3>1, CleanWrite
  <2>9. CleanStep
    <3>1. Clean(File.lines) => Clean(File.lines \o <<h>>)
      BY <1>3, <2>5, CleanGrows
    <3>2. ~ blind => File'.lines = File.lines \o <<h>>
      BY <2>8
    <3> QED BY <3>1, <3>2 DEF CleanStep, Repaired
  <2>10. job'[t].call = "append" /\ pc'[t] = "write"
    BY <1>1, <2>1, <2>2 DEF TypeOK, Job
  <2>11. Writer(t)'
    <3>1. blind' = blind
      BY <1>4, <1>10, <2>1 DEF OpenAppend
    <3> QED BY <2>8, <2>10, <3>1 DEF Writer, Sound
  <2> QED BY <1>4, <1>10, <2>1, <2>7, <2>9, <2>11
          DEF OutboxStep, Adds, TaskStep, LockedStep
<1>11. CASE WritePiece(t)
  <2>1. path' = path /\ fd[t] = path /\ Goto(t, "cut") /\ job' = job /\ acked' = acked
    BY <1>1, <1>11 DEF WritePiece, TaskInv
  <2>2. PICK piece \in Fragments(Head(job[t].rest)) :
          files' = [files EXCEPT ![path] = [lines |-> @.lines, tail |-> <<piece>>]]
    BY <1>11, <2>1 DEF WritePiece
  <2>3. File' = [lines |-> File.lines, tail |-> <<piece>>]
    BY <1>1, <1>3, <2>1, <2>2 DEF File, Content, TypeOK
  <2>4. piece.whole = Head(job[t].rest)
    BY <2>2 DEF Fragments
  <2>5. pc'[t] = "cut"
    BY <1>1, <2>1 DEF Goto, TypeOK
  <2>6. File'.tail # <<>> /\ File'.tail[1] = piece /\ File'.lines = File.lines
    BY <2>3
  <2>7. Writer(t)'
    BY <1>5, <2>1, <2>4, <2>5, <2>6 DEF Writer
  <2> QED BY <1>4, <1>11, <2>1, <2>5, <2>6, <2>7, SameLinesStep
          DEF OutboxStep, Same, TaskStep, LockedStep
<1>12. CASE WriteRest(t)
  <2> DEFINE rs == job[t].rest
  <2>1. /\ pc[t] \in {"write", "cut"} /\ Goto(t, "flush") /\ path' = path /\ fd[t] = path
        /\ job' = job /\ acked' = acked
    BY <1>1, <1>12 DEF WriteRest, TaskInv
  <2>2. File' = IF pc[t] = "write" THEN AppendLines(File, rs)
                ELSE AppendLines(CompleteTail(File, Head(rs)), Tail(rs))
    BY <1>1, <1>3, <1>12, <2>1 DEF WriteRest, File, Content, TypeOK
  <2>3. rs \in Seq(LogRecord) /\ rs # <<>>
    BY <1>5, <2>1
  <2>4. Grows(File, File', rs)
    BY <1>3, <2>2, <2>3, WriteGrows
  <2>5. File' \in FileContent
    <3>1. TypeInv'
      BY <1>1, <1>12, LockedType DEF LockedStep, OutboxInv
    <3>2. files' \in [Inodes -> FileContent] /\ File' = files'[path]
      BY <1>3, <2>1, <3>1 DEF TypeInv, TypeOK, File, Content
    <3> QED BY <1>3, <3>2
  <2>6. pc[t] = "cut" \/ Sound(t)
        => File' = [lines |-> File.lines \o rs, tail |-> <<>>]
    <3>1. CASE pc[t] = "cut"
      <4>1. File.tail # <<>> /\ File.tail[1].whole = Head(rs)
        BY <1>1, <3>1 DEF Writer
      <4> QED BY <1>3, <2>2, <2>3, <3>1, <4>1, CleanWrite
    <3>2. CASE pc[t] = "write" /\ Sound(t)
      <4>1. File.tail = <<>>
        BY <1>1, <3>2 DEF Writer
      <4> QED BY <1>3, <2>2, <2>3, <3>2, <4>1, CleanWrite
    <3> QED BY <2>1, <3>1, <3>2
  <2>7. pc'[t] = "flush" /\ job'[t] = job[t]
    BY <1>1, <2>1 DEF Goto, TypeOK
  <2>8. unread' = unread
    BY <1>4, <1>12 DEF LockedStep
  <2>9. Repaired => Sound(t)
    BY DEF Repaired, Sound
  <2>10. CleanStep
    <3>1. Clean(File.lines) => Clean(File.lines \o rs)
      BY <1>3, <2>3, CleanGrows
    <3>2. ASSUME Sound(t) PROVE File'.lines = File.lines \o rs
      <4>1. File' = [lines |-> File.lines \o rs, tail |-> <<>>]
        BY <2>6, <3>2
      <4> QED BY <4>1
    <3> QED BY <2>9, <3>1, <3>2 DEF CleanStep
  <2>12. ASSUME OutboxStep, job[t].call # "append" => Backed(File.lines, job[t].records[1])'
         PROVE  TaskStep(t)
    <3>1. Writer(t)'
      BY <1>5, <2>7, <2>12 DEF Writer
    <3> QED BY <2>10, <2>12, <3>1 DEF TaskStep
  <2> HIDE DEF rs
  <2>13. CASE job[t].call = "append"
    <3>1. \A k \in 1 .. Len(rs) : rs[k].kind = "message"
      BY <1>5, <2>13 DEF Shape, rs
    <3>2. \A op : SaysTheSame(File.lines, File'.lines, op)
      BY <1>3, <2>3, <2>4, <2>5, <3>1, GrowthSaysTheSame
    <3>3. OutboxStep
      BY <2>1, <2>8, <3>2 DEF OutboxStep, Adds
    <3> QED BY <2>12, <2>13, <3>3
  <2>14. CASE job[t].call # "append"
    <3>1. PICK op \in Operations :
            /\ \/ job[t].call = "stage" /\ job[t].records = <<Stage(op, op)>>
               \/ job[t].call = "cancel" /\ job[t].records = <<Cancel(op)>>
            /\ job[t].rest = job[t].records /\ job[t].records[1].op = op
      BY <1>1, <1>2, <2>14, DurableJob
    <3> DEFINE r == job[t].records[1]
    <3>2. rs = <<r>> /\ r \in LogRecord /\ r.op = op
      BY <3>1, DurableRecords DEF rs
    <3> HIDE DEF r
    <3>3. \/ r = Stage(op, op) /\ job[t].call = "stage"
          \/ r = Cancel(op) /\ job[t].call = "cancel"
      <4>1. /\ job[t].records = <<Stage(op, op)>> => r = Stage(op, op)
            /\ job[t].records = <<Cancel(op)>> => r = Cancel(op)
        BY DEF r
      <4> QED BY <3>1, <4>1
    <3>4. Len(rs) = 1 /\ rs[1] = r
      BY <3>2
    <3>5. CASE op \in unread
      <4>1. \A o \in Operations \ unread : SaysTheSame(File.lines, File'.lines, o)
        <5> SUFFICES ASSUME NEW o \in Operations \ unread
                     PROVE  SaysTheSame(File.lines, File'.lines, o)
          OBVIOUS
        <5>1. \A k \in 1 .. Len(rs) : rs[k].op # o
          BY <3>2, <3>4, <3>5
        <5> QED BY <1>3, <2>3, <2>4, <2>5, <5>1, GrowthSaysTheSame
      <4>2. OutboxStep
        BY <2>1, <2>8, <4>1 DEF OutboxStep, Adds
      <4>3. Backed(File.lines, job[t].records[1])'
        BY <2>7, <2>8, <3>3, <3>5 DEF Backed, r
      <4> QED BY <2>12, <4>2, <4>3
    <3>6. CASE op \notin unread
      <4>1. Sound(t)
        BY <2>14, <3>1, <3>6 DEF Sound
      <4>2. File'.lines = Append(File.lines, r)
        <5>1. File'.lines = File.lines \o <<r>>
          BY <2>6, <3>2, <4>1
        <5>2. r \in Line
          BY <3>2 DEF Line
        <5> QED BY <1>3, <5>1, <5>2
      <4>3. CASE r = Stage(op, op) /\ job[t].call = "stage"
        <5>1. ~ HasDurableId(File.lines, op)
          BY <1>1, <2>1, <3>1, <3>6, <4>3 DEF TaskInv
        <5>2. Stages(op)
          BY <2>1, <2>8, <3>6, <4>2, <4>3, <5>1 DEF Stages
        <5>3. HasDurableId(File'.lines, op)
          BY <1>3, <3>2, <4>2, <4>3, AppendedRecord, DurableRecords DEF HasDurableId
        <5>4. Backed(File.lines, job[t].records[1])'
          BY <2>7, <4>3, <5>3 DEF Backed, r
        <5> QED BY <2>12, <5>2, <5>4 DEF OutboxStep
      <4>4. CASE r = Cancel(op) /\ job[t].call = "cancel"
        <5>1. Cancels(op)
          BY <2>1, <2>8, <3>6, <4>2, <4>4 DEF Cancels
        <5>2. CancelledIn(File'.lines, op)
          BY <1>3, <3>2, <4>2, <4>4, AppendedRecord, DurableRecords
        <5>3. Backed(File.lines, job[t].records[1])'
          BY <2>7, <4>4, <5>2 DEF Backed, r
        <5> QED BY <2>12, <5>1, <5>3 DEF OutboxStep
      <4> QED BY <3>3, <4>3, <4>4
    <3> QED BY <3>5, <3>6
  <2> QED BY <2>13, <2>14
<1>13. CASE Flush(t)
  <2>1. End(t) /\ acked' = acked \cup ToSet(job[t].records) /\ File' = File /\ pc[t] = "flush"
    BY <1>13 DEF Flush, Ack, disk, File, Content
  <2>2. Writer(t)'
    BY <1>1, <2>1 DEF End, TypeOK, Writer, Critical
  <2>4. unread' = unread
    BY <1>4, <1>13 DEF LockedStep
  <2>5. ASSUME OutboxStep PROVE TaskStep(t)
    BY <2>1, <2>2, <2>5, SameLinesStep DEF TaskStep
  <2>6. CASE job[t].call = "append"
    <3>1. \A r \in ToSet(job[t].records) : r.kind = "message"
      BY <1>5, <2>6 DEF Shape, ToSet
    <3>2. AnswersBatch
      BY <2>1, <2>4, <3>1 DEF AnswersBatch
    <3> QED BY <2>5, <3>2 DEF OutboxStep
  <2>7. CASE job[t].call # "append"
    <3>1. Backed(File.lines, job[t].records[1])
      BY <1>1, <2>1, <2>7 DEF Writer
    <3>2. PICK r : job[t].records = <<r>>
      BY <1>1, <1>2, <2>7, DurableJob
    <3>3. job[t].records[1] = r /\ ToSet(job[t].records) = {r}
      BY <3>2 DEF ToSet
    <3>4. Answers(r)
      BY <2>1, <2>4, <3>1, <3>3 DEF Answers
    <3> QED BY <2>5, <3>4 DEF OutboxStep
  <2> QED BY <2>6, <2>7
<1>14. CASE Abort(t)
  <2>1. End(t) /\ acked' = acked /\ File' = File /\ unread' = unread
    BY <1>14 DEF Abort, disk, File, Content
  <2>2. Writer(t)'
    BY <1>1, <2>1 DEF End, TypeOK, Writer, Critical
  <2> QED BY <2>1, <2>2, SameLinesStep DEF OutboxStep, Same, TaskStep
<1>15. CASE ReadFails(t)
  <2>1. /\ pc[t] = "scan" /\ UNCHANGED <<disk, job, acked>>
        /\ unread' = unread \cup {job[t].records[1].op} /\ Goto(t, "open")
    BY <1>15 DEF ReadFails
  <2>2. File' = File /\ pc'[t] = "open" /\ job[t].call # "append"
    BY <1>1, <2>1 DEF disk, File, Content, Goto, TypeOK, TaskInv
  <2>3. \E op \in Operations : Doubts(op)
    <3>1. job[t].records[1].op \in Operations
      BY <1>1, <1>2, <2>2, DurableJob
    <3> QED BY <2>1, <2>2, <3>1 DEF Doubts
  <2>4. ~ Sound(t)'
    BY <2>1, <2>2 DEF Sound
  <2>5. Writer(t)'
    BY <1>5, <2>1, <2>2, <2>4 DEF Writer
  <2> QED BY <2>2, <2>3, <2>5, SameLinesStep DEF OutboxStep, TaskStep
<1> QED BY <1>6, <1>7, <1>8, <1>9, <1>10, <1>11, <1>12, <1>13, <1>14, <1>15 DEF LockedStep

(* The other steps change nothing, or create the session.                  *)
LEMMA CallWriter ==
  ASSUME LockedCallsOnly, DurableInv, NEW t \in Tasks, Call(t) \/ Delete(t)
  PROVE  /\ Same /\ File' = File /\ known' = known /\ blind' = blind /\ Writer(t)'
         /\ \A u \in Tasks \ {t} : pc'[u] = pc[u] /\ job'[u] = job[u]
<1>1. TypeOK /\ ~ Delete(t) /\ ~ CallRecover(t) /\ ~ CallArchive(t) /\ ~ CallRewrite(t)
  BY DEF DurableInv, OutboxInv, TypeInv, LockedCallsOnly, Delete, CallRecover, CallArchive,
         CallRewrite
<1>2. /\ UNCHANGED disk /\ acked' = acked /\ unread' = unread /\ blind' = blind
      /\ \A u \in Tasks \ {t} : pc'[u] = pc[u] /\ job'[u] = job[u]
  BY <1>1 DEF Call, CallCreate, CallAppend, CallStage, CallCancel, Begin, TypeOK
<1>3. File' = File /\ known' = known
  BY <1>2 DEF disk, File, Content
<1>4. pc'[t] \in {"tmpopen", "wait"}
  BY <1>1 DEF Call, CallCreate, CallAppend, CallStage, CallCancel, Begin, TypeOK
<1> QED BY <1>2, <1>3, <1>4 DEF Same, Writer, Critical

LEMMA CreateWriter ==
  ASSUME LockedCallsOnly, DurableInv, NEW t \in Tasks, UnlockedStep(t)
  PROVE  Creates /\ \A u \in Tasks : Writer(u)'
<1>1. OutboxInv /\ TypeOK
  BY DEF DurableInv, OutboxInv, TypeInv
<1>2. ~ known /\ (TmpOpen(t) \/ TmpWrite(t) \/ Rename(t))
  BY <1>1 DEF UnlockedStep, RecoverRead, RecoverTruncate, RecoverWrite, ArchiveCopy,
              ArchiveRemove, TmpOpen, TmpWrite, Rename, OutboxInv, Phase, Critical
<1>3. acked = {} /\ acked' = {} /\ unread' = unread
  BY <1>2, UnreadStays DEF DurableInv, TmpOpen, TmpWrite, Rename
<1>4. path = NoFile /\ (\A u \in Tasks : pc[u] \in {"idle", "tmpopen", "tmpwrite", "rename"})
      /\ (\A i \in Inodes : files[i].tail = <<>> /\ AllMeta(files[i].lines))
      /\ tmp \in Inodes \cup {NoFile}
  BY <1>1, <1>2 DEF OutboxInv, Phase, TypeOK
<1>5. \A u \in Tasks : pc'[u] \in {"idle", "tmpopen", "tmpwrite", "rename"}
  BY <1>1, <1>2, <1>4 DEF TmpOpen, TmpWrite, Rename, End, Goto, TypeOK
<1>6. \A u \in Tasks : Writer(u)'
  BY <1>5 DEF Writer, Critical
<1>7. AllMeta(File.lines)
  BY <1>4 DEF File, Content, EmptyFile, AllMeta
<1>8. AllMeta(File'.lines)
  <2>1. CASE TmpOpen(t) \/ TmpWrite(t)
    <3>1. path' = NoFile
      BY <1>4, <2>1 DEF TmpOpen, TmpWrite
    <3> QED BY <3>1 DEF File, Content, EmptyFile, AllMeta
  <2>2. CASE Rename(t)
    <3>1. files' = files /\ path' \in Inodes \cup {NoFile}
      BY <1>4, <2>2 DEF Rename
    <3> QED BY <1>4, <3>1 DEF File, Content, EmptyFile, AllMeta
  <2> QED BY <1>2, <2>1, <2>2
<1> QED BY <1>3, <1>6, <1>7, <1>8 DEF Creates

(* What a step leaves true of the file and the answers.                    *)
LEMMA OutboxStepKeeps ==
  ASSUME TypeOK, AckedIsBacked, OutboxStep
  PROVE  AckedIsBacked'
<1>1. File.lines \in Seq(Line)
  BY LinesType
<1>2. ASSUME unread \subseteq unread',
             \A r \in acked' : r \in acked \/ r.kind = "message" \/ Backed(File.lines, r),
             \A op \in Operations \ unread' :
               /\ HasDurableId(File.lines, op) => HasDurableId(File'.lines, op)
               /\ CancelledIn(File.lines, op) => CancelledIn(File'.lines, op)
      PROVE  AckedIsBacked'
  <2>1. ASSUME NEW r, Backed(File.lines, r) PROVE Backed(File.lines, r)'
    BY <1>2, <2>1 DEF Backed
  <2>2. ASSUME NEW r \in acked' PROVE r.kind = "message" \/ Backed(File.lines, r)
    BY <1>2, <2>2 DEF AckedIsBacked
  <2> QED BY <2>1, <2>2 DEF AckedIsBacked
<1>3. CASE Same \/ AnswersBatch \/ (\E r : Answers(r)) \/ (\E op \in Operations : Doubts(op))
  <2>1. /\ File'.lines = File.lines /\ unread \subseteq unread'
        /\ \A r \in acked' : r \in acked \/ r.kind = "message" \/ Backed(File.lines, r)
    BY <1>3 DEF Same, AnswersBatch, Answers, Doubts
  <2> QED BY <1>2, <2>1
<1>4. CASE Creates
  BY <1>4 DEF Creates, AckedIsBacked
<1>5. CASE Adds
  <2>1. /\ acked' = acked /\ unread' = unread
        /\ \A op \in Operations \ unread :
             /\ HasDurableId(File.lines, op) => HasDurableId(File'.lines, op)
             /\ CancelledIn(File.lines, op) => CancelledIn(File'.lines, op)
    BY <1>5 DEF Adds, SaysTheSame, HasDurableId
  <2> QED BY <1>2, <2>1
<1>6. ASSUME NEW op \in Operations, Stages(op) \/ Cancels(op) PROVE AckedIsBacked'
  <2>1. PICK r \in LogRecord : File'.lines = Append(File.lines, r) /\ acked' = acked
                               /\ unread' = unread
    BY <1>6, DurableRecords DEF Stages, Cancels
  <2>2. \A o : /\ CancelledIn(File.lines, o) => CancelledIn(File'.lines, o)
               /\ HasDurableId(File.lines, o) => HasDurableId(File'.lines, o)
    BY <1>1, <2>1, AppendedRecord DEF HasDurableId
  <2> QED BY <1>2, <2>1, <2>2
<1> QED BY <1>3, <1>4, <1>5, <1>6 DEF OutboxStep

(* Doubt only grows, and a batch that met a torn line is not forgotten.    *)
LEMMA ParsesStays ==
  ASSUME EveryLineParses, CleanStep, unread \subseteq unread', blind => blind'
  PROVE  EveryLineParses'
<1>1. Repaired' => Repaired
  BY DEF Repaired
<1> QED BY <1>1 DEF EveryLineParses, CleanStep, Clean

LEMMA DurableStep ==
  ASSUME LockedCallsOnly, DurableInv, [Next]_vars
  PROVE  OutboxStep /\ DurableInv'
<1>1. OutboxInv /\ TypeOK /\ NothingLate /\ (\A t \in Tasks : Writer(t))
  BY DEF DurableInv, OutboxInv, TypeInv
<1>2. NothingLate' /\ OutboxInv'
  BY <1>1, NothingLateNext, OutboxInvNext DEF LockedCallsOnly
<1>3. ASSUME OutboxStep, \A t \in Tasks : Writer(t)', CleanStep,
             ~ known' => acked' = {}, unread \subseteq unread', blind => blind'
      PROVE  OutboxStep /\ DurableInv'
  <2>1. AckedIsBacked'
    BY <1>1, <1>3, OutboxStepKeeps DEF DurableInv
  <2>2. EveryLineParses'
    BY <1>3, ParsesStays DEF DurableInv
  <2> QED BY <1>2, <1>3, <2>1, <2>2 DEF DurableInv
<1>4. CASE UNCHANGED vars
  <2>1. File' = File /\ acked' = acked /\ known' = known /\ pc' = pc /\ job' = job
        /\ unread' = unread /\ blind' = blind
    BY <1>4 DEF vars, disk, local, spent, File, Content
  <2>2. OutboxStep /\ CleanStep /\ \A t \in Tasks : Writer(t)'
    BY <1>1, <2>1, SameLinesStep DEF OutboxStep, Same, Writer, Sound, Backed
  <2> QED BY <1>3, <2>1, <2>2 DEF DurableInv
<1>5. CASE Crash
  <2>1. File' = File /\ acked' = acked /\ known' = known /\ unread' = unread
        /\ blind' = blind /\ (\A t \in Tasks : pc'[t] = "idle")
    BY <1>5 DEF Crash, disk, File, Content
  <2>2. OutboxStep /\ CleanStep /\ \A t \in Tasks : Writer(t)'
    BY <2>1, SameLinesStep DEF OutboxStep, Same, Writer, Critical
  <2> QED BY <1>3, <2>1, <2>2 DEF DurableInv
<1>6. ASSUME NEW t \in Tasks, Call(t) \/ Delete(t) PROVE OutboxStep /\ DurableInv'
  <2>1. /\ Same /\ File' = File /\ known' = known /\ blind' = blind /\ Writer(t)'
        /\ \A u \in Tasks \ {t} : pc'[u] = pc[u] /\ job'[u] = job[u]
    BY <1>6, CallWriter
  <2>2. \A u \in Tasks : Writer(u)'
    BY <1>1, <2>1, OthersWrite DEF Same
  <2>3. CleanStep
    BY <2>1, SameLinesStep
  <2> QED BY <1>3, <2>1, <2>2, <2>3 DEF OutboxStep, Same, DurableInv
<1>7. ASSUME NEW t \in Tasks, Acquire(t) \/ LockedStep(t) \/ ReadFails(t) \/ Abort(t)
      PROVE  OutboxStep /\ DurableInv'
  <2>1. TaskStep(t)
    BY <1>7, WriterSteps
  <2>2. pc[t] \in Critical \/ (File' = File /\ unread' = unread /\ blind' = blind)
    BY <1>7 DEF Acquire, LockedStep, Scan, Repair, OpenAppend, WriteLine, WritePiece,
                WriteRest, Flush, ReadFails, Abort, Critical, disk, spent, File, Content
  <2>3. \A u \in Tasks \ {t} : pc'[u] = pc[u] /\ job'[u] = job[u]
    BY <1>1, <1>7 DEF Acquire, LockedStep, Scan, Repair, FoundOrOpen, OpenAppend, WriteLine,
                      WritePiece, WriteRest, Flush, ReadFails, Abort, End, Goto, TypeOK
  <2>4. \A u \in Tasks : Writer(u)'
    BY <1>1, <2>1, <2>2, <2>3, OthersWrite DEF TaskStep
  <2>5. known
    BY <1>1, <1>7 DEF OutboxInv, Phase, Acquire, LockedStep, Scan, Repair, OpenAppend,
                      WriteLine, WritePiece, WriteRest, Flush, ReadFails, Abort, Critical
  <2>6. known' = known
    BY <1>7 DEF Acquire, LockedStep, Scan, Repair, OpenAppend, WriteLine, WritePiece,
                WriteRest, Flush, ReadFails, Abort, disk
  <2>7. unread \subseteq unread'
    BY <1>7, UnreadStays DEF ReadFails
  <2>8. blind => blind'
    BY <1>7 DEF Acquire, LockedStep, Scan, Repair, OpenAppend, WriteLine, WritePiece,
                WriteRest, Flush, ReadFails, Abort, spent
  <2> QED BY <1>3, <2>1, <2>4, <2>5, <2>6, <2>7, <2>8 DEF TaskStep
<1>8. ASSUME NEW t \in Tasks, UnlockedStep(t) PROVE OutboxStep /\ DurableInv'
  <2>1. Creates /\ \A u \in Tasks : Writer(u)'
    BY <1>8, CreateWriter
  <2>2. CleanStep
    BY <2>1 DEF CleanStep, Creates, AllMeta, Clean, Meta, Garbage, BadUtf8
  <2>3. blind' = blind
    BY <1>8 DEF UnlockedStep, RecoverRead, RecoverTruncate, RecoverWrite, ArchiveCopy,
                ArchiveRemove, TmpOpen, TmpWrite, Rename, spent
  <2> QED BY <1>3, <2>1, <2>2, <2>3 DEF OutboxStep, Creates
<1>9. ~ LateWrite /\ \A t \in Tasks : ~ Drop(t)
  BY <1>1 DEF LockedCallsOnly, NothingLate, LateWrite, Drop
<1> QED BY <1>4, <1>5, <1>6, <1>7, <1>8, <1>9 DEF Next

LEMMA DurableInvInit == Init => DurableInv
<1> SUFFICES ASSUME Init PROVE DurableInv
  OBVIOUS
<1>1. OutboxInv /\ NothingLate
  BY OutboxInvInit DEF Init, NothingLate
<1>2. \A t \in Tasks : Writer(t)
  BY DEF Init, Writer, Critical
<1>3. AckedIsBacked /\ acked = {}
  BY DEF Init, AckedIsBacked
<1>4. EveryLineParses
  BY DEF Init, EveryLineParses, File, Content, EmptyFile
<1> QED BY <1>1, <1>2, <1>3, <1>4 DEF DurableInv

(* Tasks may append batches, stage and cancel at once, writes may fail and *)
(* the process be killed in the middle of them: every complete line of the *)
(* file parses, for append_once cuts a torn piece off before it writes.    *)
(* Only a batch that is the first to follow such a piece, or an            *)
(* append_once that could not read the file, spoils a line.                *)
THEOREM LinesParse == LockedCallsOnly => (Spec => []EveryLineParses)
<1> SUFFICES ASSUME LockedCallsOnly PROVE Spec => []EveryLineParses
  OBVIOUS
<1>1. DurableInv /\ [Next]_vars => DurableInv'
  BY DurableStep
<1>2. DurableInv => EveryLineParses
  BY DEF DurableInv
<1> QED BY <1>1, <1>2, DurableInvInit, PTL DEF Spec

(* A staging or cancellation that was answered Ok is on file from then on, *)
(* through crashes, failed writes, plain appends behind a torn line and    *)
(* whatever the other tasks do, unless a call for its operation could not  *)
(* read the file.                                                          *)
THEOREM AnsweredIsOnFile == LockedCallsOnly => (Spec => []AckedIsStored)
<1> SUFFICES ASSUME LockedCallsOnly PROVE Spec => []AckedIsStored
  OBVIOUS
<1>1. DurableInv /\ [Next]_vars => DurableInv'
  BY DurableStep
<1>2. DurableInv => AckedIsStored
  <2> SUFFICES ASSUME DurableInv, NEW r \in acked, r.kind \in {"stage", "cancel"},
                      r.op \notin unread
               PROVE  Stored(r, File.lines)
    BY DEF AckedIsStored
  <2>1. PICK op \in Operations :
          \/ r = Stage(op, op) /\ (op \in unread \/ HasDurableId(File.lines, op))
          \/ r = Cancel(op) /\ (op \in unread \/ CancelledIn(File.lines, op))
    BY DEF DurableInv, AckedIsBacked, Backed
  <2>2. op \notin unread
    BY <2>1, DurableRecords
  <2>3. CASE r = Stage(op, op) /\ HasDurableId(File.lines, op)
    BY <2>3, DurableRecords DEF Stored
  <2>4. CASE r = Cancel(op) /\ CancelledIn(File.lines, op)
    <3>1. PICK i \in 1 .. Len(File.lines) :
            File.lines[i].kind = "cancel" /\ File.lines[i].op = op
      BY <2>4 DEF CancelledIn
    <3>2. File.lines[i] \in Line
      BY LinesType DEF DurableInv, OutboxInv, TypeInv
    <3>3. \A x \in Line : x.kind = "cancel" => x = Cancel(x.op)
      BY DEF Line, LogRecord, Meta, Tool, Note, Garbage, BadUtf8, Blank, Cancel
    <3>4. File.lines[i] = r
      BY <2>4, <3>1, <3>2, <3>3
    <3>5. r.kind # "stage"
      BY <2>4, DurableRecords
    <3> QED BY <3>4, <3>5 DEF Stored
  <2> QED BY <2>1, <2>2, <2>3, <2>4
<1> QED BY <1>1, <1>2, DurableInvInit, PTL DEF Spec

(* The refinement mapping, as functions of the lines, of the operations in *)
(* doubt and of the answers.                                               *)
StateIn(lines, doubt, op) == IF op \in doubt THEN "unsure"
                             ELSE IF CancelledIn(lines, op) THEN "cancelled"
                             ELSE IF StagedIn(lines, op) THEN "staged" ELSE "none"
States(lines, doubt)      == [op \in Operations |-> StateIn(lines, doubt, op)]
Promised(answers) == {op \in Operations : \E m \in Messages : Stage(op, m) \in answers}
Declined(answers) == {op \in Operations : Cancel(op) \in answers}

LEMMA OneRecordMoreMaps ==
  ASSUME TypeOK, NEW op \in Operations, op \notin unread,
         NEW r \in {Stage(op, op), Cancel(op)}, File'.lines = Append(File.lines, r),
         r = Stage(op, op) => ~ HasDurableId(File.lines, op)
  PROVE  States(File'.lines, unread)
           = [States(File.lines, unread) EXCEPT
                ![op] = IF r.kind = "stage" THEN "staged" ELSE "cancelled"]
<1>1. File.lines \in Seq(Line) /\ r \in LogRecord /\ r.op = op /\ r.kind \in {"stage", "cancel"}
      /\ (r.kind = "stage" => r = Stage(op, op))
  BY LinesType, DurableRecords
<1>2. ASSUME NEW o \in Operations, o # op
      PROVE  StateIn(File'.lines, unread, o) = StateIn(File.lines, unread, o)
  BY <1>1, <1>2, AppendedRecord DEF StateIn
<1>3. StateIn(File'.lines, unread, op) = IF r.kind = "stage" THEN "staged" ELSE "cancelled"
  BY <1>1, AppendedRecord DEF StateIn, HasDurableId
<1> QED BY <1>2, <1>3 DEF States

(* An answer of a batch answers no staging and no cancellation.            *)
LEMMA MessagesAnswerNothing ==
  ASSUME NEW more, acked' = acked \cup more, \A r \in more : r.kind = "message"
  PROVE  Promised(acked') = Promised(acked) /\ Declined(acked') = Declined(acked)
<1>1. \A o, m : Stage(o, m) \notin more /\ Cancel(o) \notin more
  <2>1. \A o, m : Stage(o, m).kind = "stage" /\ Cancel(o).kind = "cancel"
    BY DEF Stage, Cancel
  <2> QED BY <2>1
<1> QED BY <1>1 DEF Promised, Declined

LEMMA OutboxStepMaps ==
  ASSUME TypeOK, OutboxStep
  PROVE  [Outbox!Next]_(Outbox!vars)
<1> DEFINE was == States(File.lines, unread)
           is  == States(File'.lines, unread')
<1> SUFFICES \/ /\ is = was /\ Promised(acked') = Promised(acked)
                /\ Declined(acked') = Declined(acked)
             \/ \E op \in Operations :
                  \/ /\ was[op] = "none" /\ is = [was EXCEPT ![op] = "staged"]
                     /\ Promised(acked') = Promised(acked) /\ Declined(acked') = Declined(acked)
                  \/ /\ was[op] # "unsure" /\ is = [was EXCEPT ![op] = "cancelled"]
                     /\ Promised(acked') = Promised(acked) /\ Declined(acked') = Declined(acked)
                  \/ /\ is = [was EXCEPT ![op] = "unsure"]
                     /\ Promised(acked') = Promised(acked) /\ Declined(acked') = Declined(acked)
                  \/ /\ was[op] # "none" /\ is = was
                     /\ Promised(acked') = Promised(acked) \cup {op}
                     /\ Declined(acked') = Declined(acked)
                  \/ /\ was[op] \in {"cancelled", "unsure"} /\ is = was
                     /\ Declined(acked') = Declined(acked) \cup {op}
                     /\ Promised(acked') = Promised(acked)
  BY DEF Outbox!Next, Outbox!Stage, Outbox!Cancel, Outbox!Doubt, Outbox!AnswerStage,
         Outbox!AnswerCancel, Outbox!vars, States, StateIn, Promised, Declined
<1>1. CASE Same
  BY <1>1 DEF Same
<1>2. ASSUME NEW r, Answers(r)
      PROVE  \E op \in Operations :
               \/ /\ was[op] # "none" /\ is = was
                  /\ Promised(acked') = Promised(acked) \cup {op}
                  /\ Declined(acked') = Declined(acked)
               \/ /\ was[op] \in {"cancelled", "unsure"} /\ is = was
                  /\ Declined(acked') = Declined(acked) \cup {op}
                  /\ Promised(acked') = Promised(acked)
  <2>1. is = was /\ acked' = acked \cup {r}
    BY <1>2 DEF Answers
  <2>2. PICK op \in Operations :
          \/ r = Stage(op, op) /\ (op \in unread \/ HasDurableId(File.lines, op))
          \/ r = Cancel(op) /\ (op \in unread \/ CancelledIn(File.lines, op))
    BY <1>2 DEF Answers, Backed
  <2>3. op \in Messages /\ (\A o, m, n : Stage(o, m) # Cancel(n))
        /\ (\A o, m : Stage(o, m) = Stage(op, op) => o = op)
        /\ (\A o : Cancel(o) = Cancel(op) => o = op)
    <3>1. op \in Messages
      BY RecordsAssumption
    <3>2. \A o, m, n : Stage(o, m).kind = "stage" /\ Cancel(n).kind = "cancel"
                       /\ Stage(o, m).op = o /\ Cancel(n).op = n
      BY DEF Stage, Cancel
    <3> QED BY <3>1, <3>2
  <2>4. CASE r = Stage(op, op) /\ (op \in unread \/ HasDurableId(File.lines, op))
    <3>1. was[op] # "none"
      BY <2>4 DEF States, StateIn, HasDurableId
    <3>2. Promised(acked') = Promised(acked) \cup {op}
      BY <2>1, <2>3, <2>4 DEF Promised
    <3>3. Declined(acked') = Declined(acked)
      BY <2>1, <2>3, <2>4 DEF Declined
    <3> QED BY <2>1, <3>1, <3>2, <3>3
  <2>5. CASE r = Cancel(op) /\ (op \in unread \/ CancelledIn(File.lines, op))
    <3>1. was[op] \in {"cancelled", "unsure"}
      BY <2>5 DEF States, StateIn
    <3>2. Declined(acked') = Declined(acked) \cup {op}
      BY <2>1, <2>3, <2>5 DEF Declined
    <3>3. Promised(acked') = Promised(acked)
      BY <2>1, <2>3, <2>5 DEF Promised
    <3> QED BY <2>1, <3>1, <3>2, <3>3
  <2> QED BY <2>2, <2>4, <2>5
<1>3. CASE AnswersBatch
  <2>1. is = was
    BY <1>3 DEF AnswersBatch
  <2>2. acked' = acked \cup (acked' \ acked) /\ \A r \in acked' \ acked : r.kind = "message"
    BY <1>3 DEF AnswersBatch
  <2> QED BY <2>1, <2>2, MessagesAnswerNothing
<1>4. CASE Adds
  <2>1. \A op \in Operations :
          StateIn(File'.lines, unread', op) = StateIn(File.lines, unread, op)
    BY <1>4 DEF Adds, SaysTheSame, StateIn
  <2> QED BY <1>4, <2>1 DEF Adds, States
<1>5. CASE Creates
  <2>1. ASSUME NEW lines, AllMeta(lines)
        PROVE  \A op : ~ CancelledIn(lines, op) /\ ~ StagedIn(lines, op)
    BY <2>1 DEF AllMeta, CancelledIn, StagedIn, Meta
  <2>2. \A op : StateIn(File.lines, unread, op) = StateIn(File'.lines, unread', op)
    BY <1>5, <2>1 DEF Creates, StateIn
  <2>3. is = was
    BY <2>2 DEF States
  <2> QED BY <1>5, <2>3 DEF Creates
<1>6. ASSUME NEW op \in Operations, Stages(op)
      PROVE  was[op] = "none" /\ acked' = acked /\ is = [was EXCEPT ![op] = "staged"]
  <2>1. was[op] = "none"
    BY <1>6 DEF Stages, HasDurableId, States, StateIn
  <2>2. is = [was EXCEPT ![op] = "staged"]
    BY <1>6, OneRecordMoreMaps, DurableRecords DEF Stages
  <2> QED BY <1>6, <2>1, <2>2 DEF Stages
<1>7. ASSUME NEW op \in Operations, Cancels(op)
      PROVE  was[op] # "unsure" /\ acked' = acked /\ is = [was EXCEPT ![op] = "cancelled"]
  <2>1. Cancel(op).kind = "cancel" /\ Cancel(op) # Stage(op, op)
    BY DurableRecords
  <2>2. File'.lines = Append(File.lines, Cancel(op)) /\ acked' = acked /\ unread' = unread
        /\ op \notin unread
    BY <1>7 DEF Cancels
  <2>3. is = [was EXCEPT
                ![op] = IF Cancel(op).kind = "stage" THEN "staged" ELSE "cancelled"]
    BY <2>1, <2>2, OneRecordMoreMaps
  <2>4. was[op] # "unsure"
    BY <2>2 DEF States, StateIn
  <2> QED BY <2>1, <2>2, <2>3, <2>4
<1>8. ASSUME NEW op \in Operations, Doubts(op)
      PROVE  acked' = acked /\ is = [was EXCEPT ![op] = "unsure"]
  BY <1>8 DEF Doubts, States, StateIn
<1> HIDE DEF was, is
<1> QED BY <1>1, <1>2, <1>3, <1>4, <1>5, <1>6, <1>7, <1>8 DEF OutboxStep, Adds, Creates

(* The file is the outbox that DurableOutbox promises: an operation is     *)
(* staged at most once and cancelled for good, and an answer is never      *)
(* given before the file bears it out, for any number of tasks, calls,     *)
(* crashes, failed writes and plain appends in between; but where a call   *)
(* could not read the file its operation is in doubt.                      *)
THEOREM FileIsAnOutbox == LockedCallsOnly => (Spec => ImplementsOutbox)
<1> SUFFICES ASSUME LockedCallsOnly PROVE Spec => Outbox!Spec
  BY DEF ImplementsOutbox
<1>1. Init => Outbox!Init
  <2> SUFFICES ASSUME Init PROVE Outbox!Init
    OBVIOUS
  <2>1. \A op \in Operations : ~ CancelledIn(File.lines, op) /\ ~ StagedIn(File.lines, op)
    BY DEF Init, File, Content, EmptyFile, CancelledIn, StagedIn
  <2>2. acked = {} /\ unread = {}
    BY DEF Init
  <2> QED BY <2>1, <2>2 DEF Outbox!Init
<1>2. DurableInv /\ [Next]_vars => DurableInv'
  BY DurableStep
<1>3. DurableInv /\ [Next]_vars => [Outbox!Next]_(Outbox!vars)
  <2> SUFFICES ASSUME DurableInv, [Next]_vars PROVE [Outbox!Next]_(Outbox!vars)
    OBVIOUS
  <2>1. TypeOK /\ OutboxStep
    BY DurableStep DEF DurableInv, OutboxInv, TypeInv
  <2> QED BY <2>1, OutboxStepMaps
<1> QED BY <1>1, <1>2, <1>3, DurableInvInit, PTL DEF Spec, Outbox!Spec

-----------------------------------------------------------------------------
(* Any tasks, spellings, calls, crashes, failures and dropped appends: the *)
(* file is a log at every moment.  What the application must do for that   *)
(* is to give write_session_atomic logs, and to use no operation's content *)
(* in an ordinary append.                                                  *)
PlainContents == /\ \A body \in Rewrites : IsLog(body)
                 /\ Operations \cap ((1 .. MaxCalls) \X (1 .. MaxBatch)) = {}

LogsInv ==
  /\ \A i \in Inodes : IsLogFile(files[i])
  /\ \A t \in Tasks : IsLogFile(read[t])
  /\ \A t \in Tasks : pc[t] \in {"tmpopen", "tmpwrite"} => IsLog(job[t].records)
  /\ \A t \in Tasks : pc[t] \in {"wait"} \cup Critical => job[t].rest \in Seq(Later)
  /\ \A write \in late : write.records \in Seq(Later)

LEMMA ContentIsLog ==
  ASSUME LogsInv, NEW inode \in Inodes \cup {NoFile}
  PROVE  IsLogFile(Content(inode))
BY EmptyIsLogFile DEF LogsInv, Content

LEMMA LogsInvInit == Init => LogsInv
<1> SUFFICES ASSUME Init PROVE LogsInv
  OBVIOUS
<1>1. \A t \in Tasks : pc[t] = "idle"
  BY DEF Init
<1>2. "idle" \notin {"tmpopen", "tmpwrite"} /\ "idle" \notin {"wait"} \cup Critical
  BY DEF Critical
<1> QED BY <1>1, <1>2, EmptyIsLogFile DEF Init, LogsInv

(* A task that begins a call, or ends one, holds nothing or what it was    *)
(* given.                                                                  *)
LEMMA EndKeepsLogs ==
  ASSUME TypeInv, LogsInv, NEW t \in Tasks, End(t), UNCHANGED late
  PROVE  (\A i \in Inodes : IsLogFile(files'[i])) => LogsInv'
<1> SUFFICES ASSUME \A i \in Inodes : IsLogFile(files'[i]) PROVE LogsInv'
  OBVIOUS
<1>1. "idle" \notin {"tmpopen", "tmpwrite"} /\ "idle" \notin {"wait"} \cup Critical
  BY DEF Critical
<1>2. pc'[t] = "idle" /\ read'[t] = EmptyFile
  BY DEF End, TypeInv, TypeOK
<1>3. \A u \in Tasks : u # t => pc'[u] = pc[u] /\ read'[u] = read[u] /\ job'[u] = job[u]
  BY DEF End, TypeInv, TypeOK
<1>4. \A u \in Tasks : IsLogFile(read'[u])
  BY <1>2, <1>3, EmptyIsLogFile DEF LogsInv
<1>5. \A u \in Tasks : pc'[u] \in {"tmpopen", "tmpwrite"} => IsLog(job'[u].records)
  BY <1>1, <1>2, <1>3 DEF LogsInv
<1>6. \A u \in Tasks : pc'[u] \in {"wait"} \cup Critical => job'[u].rest \in Seq(Later)
  BY <1>1, <1>2, <1>3 DEF LogsInv
<1> QED BY <1>4, <1>5, <1>6 DEF LogsInv

LEMMA BeginKeepsLogs ==
  ASSUME TypeInv, LogsInv, NEW t \in Tasks, NEW call, NEW at, NEW rs,
         at \in {"tmpopen", "tmpwrite"} => IsLog(rs),
         at \in {"wait"} \cup Critical => rs \in Seq(Later),
         Begin(t, call, at, rs)
  PROVE  LogsInv'
<1>1. pc'[t] = at /\ job'[t].records = rs /\ job'[t].rest = rs
  BY DEF Begin, TypeInv, TypeOK
<1>2. \A u \in Tasks : u # t => pc'[u] = pc[u] /\ job'[u] = job[u]
  BY DEF Begin, TypeInv, TypeOK
<1>3. UNCHANGED <<files, read, late>>
  BY DEF Begin, disk
<1>4. \A u \in Tasks : pc'[u] \in {"tmpopen", "tmpwrite"} => IsLog(job'[u].records)
  BY <1>1, <1>2 DEF LogsInv
<1>5. \A u \in Tasks : pc'[u] \in {"wait"} \cup Critical => job'[u].rest \in Seq(Later)
  BY <1>1, <1>2 DEF LogsInv
<1> QED BY <1>3, <1>4, <1>5 DEF LogsInv

(* A task that goes on with the bytes it has or has just read.             *)
LEMMA GotoKeepsLogs ==
  ASSUME TypeInv, LogsInv, NEW t \in Tasks, NEW at, Goto(t, at),
         at \in {"tmpopen", "tmpwrite"} => pc[t] \in {"tmpopen", "tmpwrite"},
         at \in {"wait"} \cup Critical => pc[t] \in {"wait"} \cup Critical,
         NEW seen, IsLogFile(seen),
         read' = read \/ read' = [read EXCEPT ![t] = seen],
         job' = job, UNCHANGED late,
         \A i \in Inodes : IsLogFile(files'[i])
  PROVE  LogsInv'
<1>1. pc'[t] = at /\ \A u \in Tasks : u # t => pc'[u] = pc[u]
  BY DEF Goto, TypeInv, TypeOK
<1>2. \A u \in Tasks : IsLogFile(read'[u])
  BY DEF LogsInv, TypeInv, TypeOK
<1>3. \A u \in Tasks : pc'[u] \in {"tmpopen", "tmpwrite"} => IsLog(job'[u].records)
  BY <1>1 DEF LogsInv
<1>4. \A u \in Tasks : pc'[u] \in {"wait"} \cup Critical => job'[u].rest \in Seq(Later)
  BY <1>1 DEF LogsInv
<1> QED BY <1>2, <1>3, <1>4 DEF LogsInv

LEMMA AppendedAreLater ==
  ASSUME PlainContents, calls < MaxCalls, calls \in Nat, NEW n \in 1 .. MaxBatch
  PROVE  [i \in 1 .. n |-> Message(<<calls + 1, i>>)] \in Seq(Later)
<1>1. n \in Nat
  BY BoundsAssumption
<1>2. ASSUME NEW i \in 1 .. n
      PROVE  Message(<<calls + 1, i>>) \in Later
  <2>1. <<calls + 1, i>> \in (1 .. MaxCalls) \X (1 .. MaxBatch)
    BY BoundsAssumption
  <2>2. <<calls + 1, i>> \in Messages /\ <<calls + 1, i>> \notin Operations
    BY <2>1, RecordsAssumption DEF PlainContents
  <2> DEFINE m == <<calls + 1, i>>
  <2> HIDE DEF m
  <2>3. m \in Messages /\ m \notin Operations
    BY <2>2 DEF m
  <2>4. Message(m) \in Line /\ PlainLine(Message(m)) /\ Message(m) # Meta
    BY <2>3 DEF Message, Line, LogRecord, PlainLine, Meta
  <2> QED BY <2>4 DEF Later, Plain, m
<1> QED BY <1>1, <1>2

LEMMA StagesAreLater ==
  ASSUME NEW op \in Operations
  PROVE  <<Stage(op, op)>> \in Seq(Later) /\ <<Cancel(op)>> \in Seq(Later)
<1>1. op \in Messages
  BY RecordsAssumption
<1>2. Stage(op, op) \in Line /\ PlainLine(Stage(op, op)) /\ Stage(op, op) # Meta
  BY <1>1 DEF Stage, Line, LogRecord, PlainLine, Meta
<1>3. Cancel(op) \in Line /\ PlainLine(Cancel(op)) /\ Cancel(op) # Meta
  BY DEF Cancel, Line, LogRecord, PlainLine, Meta
<1>4. Stage(op, op) \in Later /\ Cancel(op) \in Later
  BY <1>2, <1>3 DEF Later, Plain
<1> QED BY <1>4

LEMMA CreatedIsLog == IsLog(<<Meta>>)
<1>1. Meta \in Plain
  BY RecordsAreLines DEF Plain, PlainLine, Meta
<1>2. <<Meta>> \in Seq(Plain) /\ Len(<<Meta>>) = 1
  BY <1>1
<1>3. \A i \in 1 .. Len(<<Meta>>) : i = 1
  BY <1>2
<1> QED BY <1>2, <1>3 DEF IsLog

LEMMA CallKeepsLogs ==
  ASSUME PlainContents, TypeInv, LogsInv, NEW t \in Tasks, Call(t) \/ Delete(t)
  PROVE  LogsInv'
<1>0. /\ "tmpopen" \notin {"wait"} \cup Critical
      /\ "wait" \notin {"tmpopen", "tmpwrite"}
      /\ "recover" \notin {"tmpopen", "tmpwrite"} /\ "recover" \notin {"wait"} \cup Critical
      /\ "copy" \notin {"tmpopen", "tmpwrite"} /\ "copy" \notin {"wait"} \cup Critical
  BY DEF Critical
<1>1. CASE CallCreate(t)
  BY <1>0, <1>1, CreatedIsLog, BeginKeepsLogs DEF CallCreate
<1>2. CASE CallAppend(t)
  <2>1. PICK n \in 1 .. MaxBatch :
          Begin(t, "append", "wait", [i \in 1 .. n |-> Message(<<calls + 1, i>>)])
    BY <1>2 DEF CallAppend
  <2>2. calls < MaxCalls /\ calls \in Nat
    BY <2>1, BoundsAssumption DEF Begin, TypeInv, TypeOK
  <2> DEFINE batch == [i \in 1 .. n |-> Message(<<calls + 1, i>>)]
  <2>3. batch \in Seq(Later)
    BY <2>2, AppendedAreLater
  <2> HIDE DEF batch
  <2>4. Begin(t, "append", "wait", batch)
    BY <2>1 DEF batch
  <2> QED BY <1>0, <2>3, <2>4, BeginKeepsLogs
<1>3. CASE CallStage(t)
  <2>1. PICK op \in Operations : Begin(t, "stage", "wait", <<Stage(op, op)>>)
    BY <1>3 DEF CallStage
  <2> QED BY <1>0, <2>1, StagesAreLater, BeginKeepsLogs
<1>4. CASE CallCancel(t)
  <2>1. PICK op \in Operations : Begin(t, "cancel", "wait", <<Cancel(op)>>)
    BY <1>4 DEF CallCancel
  <2> QED BY <1>0, <2>1, StagesAreLater, BeginKeepsLogs
<1>5. CASE CallRecover(t)
  BY <1>0, <1>5, BeginKeepsLogs DEF CallRecover
<1>6. CASE CallArchive(t)
  BY <1>0, <1>6, BeginKeepsLogs DEF CallArchive
<1>7. CASE CallRewrite(t)
  <2>1. PICK body \in Rewrites : Begin(t, "rewrite", "tmpopen", body)
    BY <1>7 DEF CallRewrite
  <2> QED BY <1>0, <2>1, BeginKeepsLogs DEF PlainContents
<1>8. CASE Delete(t)
  BY <1>8 DEF Delete, local, LogsInv
<1> QED BY <1>1, <1>2, <1>3, <1>4, <1>5, <1>6, <1>7, <1>8 DEF Call

LEMMA OneFileChanges ==
  ASSUME TypeInv, LogsInv, NEW i \in Inodes \cup {NoFile}, NEW g,
         i \in Inodes => IsLogFile(g),
         files' = [files EXCEPT ![i] = g]
  PROVE  \A k \in Inodes : IsLogFile(files'[k])
BY DEF LogsInv, TypeInv, TypeOK

LEMMA LockedKeepsLogs ==
  ASSUME TypeInv, LogsInv, NEW t \in Tasks,
         Acquire(t) \/ LockedStep(t) \/ ReadFails(t) \/ Abort(t) \/ Drop(t)
  PROVE  LogsInv'
<1>0. {"scan", "repair", "open", "write", "cut", "flush"} \subseteq {"wait"} \cup Critical
      /\ {"scan", "repair", "open", "write", "cut", "flush"} \cap {"tmpopen", "tmpwrite"} = {}
  BY DEF Critical
<1>1. CASE Acquire(t)
  <2>1. PICK at \in {"open", "scan"} : Goto(t, at)
    BY <1>1 DEF Acquire
  <2>2. UNCHANGED <<files, job, read, late>> /\ pc[t] = "wait"
    BY <1>1 DEF Acquire, disk
  <2>3. \A i \in Inodes : IsLogFile(files'[i])
    BY <2>2 DEF LogsInv
  <2> QED BY <1>0, <2>1, <2>2, <2>3, GotoKeepsLogs, EmptyIsLogFile
<1>2. ASSUME NEW seen, IsLogFile(seen), FoundOrOpen(t, seen), UNCHANGED late,
             pc[t] \in {"scan", "repair"}, \A i \in Inodes : IsLogFile(files'[i])
      PROVE  LogsInv'
  <2>1. CASE End(t)
    BY <1>2, <2>1, EndKeepsLogs
  <2>2. CASE Goto(t, "open") /\ read' = [read EXCEPT ![t] = seen] /\ job' = job
    BY <1>0, <1>2, <2>2, GotoKeepsLogs
  <2> QED BY <1>2, <2>1, <2>2 DEF FoundOrOpen
<1>3. IsLogFile(File)
  BY ContentIsLog DEF File, TypeInv, TypeOK
<1>4. CASE Scan(t)
  <2>1. UNCHANGED <<files, late>> /\ pc[t] = "scan"
    BY <1>4 DEF Scan, disk
  <2>2. \A i \in Inodes : IsLogFile(files'[i])
    BY <2>1 DEF LogsInv
  <2>3. CASE FoundOrOpen(t, File)
    BY <1>2, <1>3, <2>1, <2>2, <2>3
  <2>4. CASE Goto(t, "repair") /\ read' = [read EXCEPT ![t] = File] /\ job' = job
    BY <1>0, <1>3, <2>1, <2>2, <2>4, GotoKeepsLogs
  <2> QED BY <1>4, <2>3, <2>4 DEF Scan
<1>5. CASE Repair(t)
  <2>1. UNCHANGED late /\ pc[t] = "repair"
    BY <1>5 DEF Repair
  <2>2. CASE path = NoFile
    <3>1. End(t) /\ UNCHANGED files
      BY <1>5, <2>2 DEF Repair
    <3>2. \A i \in Inodes : IsLogFile(files'[i])
      BY <3>1 DEF LogsInv
    <3> QED BY <2>1, <3>1, <3>2, EndKeepsLogs
  <2>3. CASE path # NoFile
    <3>1. /\ files' = [files EXCEPT ![path] = SetLen(files[path], Len(read[t].lines))]
          /\ FoundOrOpen(t, [read[t] EXCEPT !.tail = <<>>])
      BY <1>5, <2>3 DEF Repair
    <3>2. read[t] \in FileContent /\ IsLogFile(read[t]) /\ path \in Inodes
      BY <2>3 DEF LogsInv, TypeInv, TypeOK
    <3>3. Len(read[t].lines) \in Nat
      BY <3>2, LenProperties DEF FileContent
    <3>4. [read[t] EXCEPT !.tail = <<>>] = SetLen(read[t], Len(read[t].lines))
      <4>1. [read[t] EXCEPT !.tail = <<>>] = [lines |-> read[t].lines, tail |-> <<>>]
        BY <3>2 DEF FileContent
      <4> QED BY <3>2, <4>1, SetLenCutsTail
    <3>5. IsLogFile([read[t] EXCEPT !.tail = <<>>])
      BY <3>2, <3>3, <3>4, CutLog
    <3>6. IsLogFile(SetLen(files[path], Len(read[t].lines)))
      BY <3>2, <3>3, CutLog DEF LogsInv
    <3>7. \A i \in Inodes : IsLogFile(files'[i])
      BY <3>1, <3>2, <3>6, OneFileChanges
    <3> QED BY <1>2, <2>1, <3>1, <3>5, <3>7
  <2> QED BY <2>2, <2>3
<1>6. CASE OpenAppend(t)
  <2>1. PICK i \in Opens(path) :
          files' = IF path = NoFile THEN [files EXCEPT ![i] = EmptyFile] ELSE files
    BY <1>6 DEF OpenAppend
  <2>2. i \in Inodes
    BY OpensType DEF TypeInv, TypeOK
  <2>3. \A k \in Inodes : IsLogFile(files'[k])
    <3>1. CASE files' = files
      BY <3>1 DEF LogsInv
    <3>2. CASE files' = [files EXCEPT ![i] = EmptyFile]
      BY <2>2, <3>2, EmptyIsLogFile, OneFileChanges
    <3> QED BY <2>1, <3>1, <3>2
  <2>4. Goto(t, "write") /\ UNCHANGED <<job, read, late>> /\ pc[t] = "open"
    BY <1>6 DEF OpenAppend
  <2> QED BY <1>0, <2>3, <2>4, GotoKeepsLogs, EmptyIsLogFile
<1>7. fd[t] \in Inodes \cup {NoFile} /\ (fd[t] \in Inodes => IsLogFile(files[fd[t]]))
  BY DEF LogsInv, TypeInv, TypeOK
<1>8. CASE WriteLine(t)
  <2>1. /\ files' = [files EXCEPT ![fd[t]] = AppendLines(files[fd[t]], <<Head(job[t].rest)>>)]
        /\ job' = [job EXCEPT ![t].rest = Tail(job[t].rest)]
        /\ UNCHANGED <<pc, read, late>> /\ pc[t] = "write" /\ Len(job[t].rest) > 1
    BY <1>8 DEF WriteLine
  <2>2. job[t].rest \in Seq(Later) /\ job[t].rest # <<>>
    <3>1. Len(<<>>) = 0
      BY EmptySeq
    <3> QED BY <1>0, <2>1, <3>1 DEF LogsInv
  <2>3. <<Head(job[t].rest)>> \in Seq(Later) /\ Tail(job[t].rest) \in Seq(Later)
    BY <2>2
  <2>4. \A k \in Inodes : IsLogFile(files'[k])
    BY <1>7, <2>1, <2>3, AppendedLog, OneFileChanges
  <2>5. job'[t].rest = Tail(job[t].rest) /\ \A u \in Tasks : u # t => job'[u] = job[u]
    BY <2>1 DEF TypeInv, TypeOK, Job
  <2>6. \A u \in Tasks : pc'[u] \in {"wait"} \cup Critical => job'[u].rest \in Seq(Later)
    BY <2>1, <2>3, <2>5 DEF LogsInv
  <2>7. \A u \in Tasks : pc'[u] \in {"tmpopen", "tmpwrite"} => IsLog(job'[u].records)
    BY <1>0, <2>1, <2>5 DEF LogsInv
  <2> QED BY <2>1, <2>4, <2>6, <2>7 DEF LogsInv
<1>9. CASE WritePiece(t)
  <2>1. PICK piece \in Fragments(Head(job[t].rest)) :
          files' = [files EXCEPT ![fd[t]] = [lines |-> @.lines, tail |-> <<piece>>]]
    BY <1>9 DEF WritePiece
  <2>2. Goto(t, "cut") /\ UNCHANGED <<job, read, late>> /\ pc[t] = "write"
    BY <1>9 DEF WritePiece
  <2>3. job[t].rest \in Seq(LogRecord) /\ job[t].rest # <<>> /\ job[t].rest \in Seq(Later)
    BY <1>0, <2>2 DEF LogsInv, TypeInv, TypeOK, HasRest, Job
  <2>4. Head(job[t].rest) \in LogRecord /\ Head(job[t].rest) \in Later
    BY <2>3
  <2>5. piece \in Piece /\ piece.reads \in Later
    <3>1. piece \in Piece
      BY <2>1, <2>4, FragmentType
    <3>2. piece.reads \in {Garbage, BadUtf8, Head(job[t].rest)}
      BY <2>1 DEF Fragments
    <3> QED BY <2>4, <3>1, <3>2, LaterLines
  <2>6. ASSUME fd[t] \in Inodes
        PROVE  IsLogFile([lines |-> files[fd[t]].lines, tail |-> <<piece>>])
    <3>1. files[fd[t]].lines \in Seq(Line) /\ IsLog(files[fd[t]].lines)
      BY <1>7, <2>6 DEF IsLogFile, FileContent
    <3>2. <<piece>> \in Seq(Piece) /\ Len(<<piece>>) = 1 /\ <<piece>>[1] = piece
      BY <2>5
    <3>3. \A i \in 1 .. Len(<<piece>>) : <<piece>>[i].reads \in Later
      BY <2>5, <3>2
    <3> QED BY <3>1, <3>2, <3>3 DEF IsLogFile, FileContent
  <2>7. \A k \in Inodes : IsLogFile(files'[k])
    BY <1>7, <2>1, <2>6, OneFileChanges
  <2> QED BY <1>0, <2>2, <2>7, GotoKeepsLogs, EmptyIsLogFile
<1>10. CASE WriteRest(t)
  <2>1. /\ Goto(t, "flush") /\ UNCHANGED <<job, read, late>> /\ pc[t] \in {"write", "cut"}
        /\ files' = [files EXCEPT ![fd[t]] =
             IF pc[t] = "write" THEN AppendLines(@, job[t].rest)
             ELSE AppendLines(CompleteTail(@, Head(job[t].rest)), Tail(job[t].rest))]
    BY <1>10 DEF WriteRest
  <2>2. job[t].rest # <<>> /\ job[t].rest \in Seq(Later)
    BY <1>0, <2>1 DEF LogsInv, TypeInv, HasRest
  <2>3. Head(job[t].rest) \in Later /\ Tail(job[t].rest) \in Seq(Later)
    BY <2>2
  <2>4. ASSUME fd[t] \in Inodes
        PROVE  /\ IsLogFile(AppendLines(files[fd[t]], job[t].rest))
               /\ IsLogFile(AppendLines(CompleteTail(files[fd[t]], Head(job[t].rest)),
                                        Tail(job[t].rest)))
    <3>1. IsLogFile(CompleteTail(files[fd[t]], Head(job[t].rest)))
      BY <1>7, <2>3, <2>4, CompletedLog
    <3> QED BY <1>7, <2>2, <2>3, <2>4, <3>1, AppendedLog
  <2>5. \A k \in Inodes : IsLogFile(files'[k])
    BY <1>7, <2>1, <2>4, OneFileChanges
  <2> QED BY <1>0, <2>1, <2>5, GotoKeepsLogs, EmptyIsLogFile
<1>11. CASE Flush(t)
  <2>1. End(t) /\ UNCHANGED <<files, late>>
    BY <1>11 DEF Flush, disk
  <2> QED BY <2>1, EndKeepsLogs DEF LogsInv
<1>12. CASE Abort(t)
  <2>1. End(t) /\ UNCHANGED <<files, late>>
    BY <1>12 DEF Abort, disk
  <2> QED BY <2>1, EndKeepsLogs DEF LogsInv
<1>13. CASE Drop(t)
  <2>1. /\ End(t) /\ UNCHANGED files /\ pc[t] = "write"
        /\ late' = late \cup {[file |-> fd[t], records |-> job[t].rest, nr |-> drops]}
    BY <1>13 DEF Drop, disk
  <2>2. \A write \in late' : write.records \in Seq(Later)
    BY <1>0, <2>1 DEF LogsInv
  <2>3. pc'[t] = "idle" /\ read'[t] = EmptyFile
        /\ \A u \in Tasks : u # t => pc'[u] = pc[u] /\ read'[u] = read[u] /\ job'[u] = job[u]
    BY <2>1 DEF End, TypeInv, TypeOK
  <2>4. "idle" \notin {"tmpopen", "tmpwrite"} /\ "idle" \notin {"wait"} \cup Critical
    BY DEF Critical
  <2>5. \A u \in Tasks : IsLogFile(read'[u])
    BY <2>3, EmptyIsLogFile DEF LogsInv
  <2>6. \A u \in Tasks : pc'[u] \in {"tmpopen", "tmpwrite"} => IsLog(job'[u].records)
    BY <2>3, <2>4 DEF LogsInv
  <2>7. \A u \in Tasks : pc'[u] \in {"wait"} \cup Critical => job'[u].rest \in Seq(Later)
    BY <2>3, <2>4 DEF LogsInv
  <2>8. \A i \in Inodes : IsLogFile(files'[i])
    BY <2>1 DEF LogsInv
  <2> QED BY <2>2, <2>5, <2>6, <2>7, <2>8 DEF LogsInv
<1>14. CASE ReadFails(t)
  <2>1. UNCHANGED <<files, job, late>> /\ Goto(t, "open") /\ pc[t] = "scan"
        /\ read' = [read EXCEPT ![t] = EmptyFile]
    BY <1>14 DEF ReadFails, disk
  <2>2. \A i \in Inodes : IsLogFile(files'[i])
    BY <2>1 DEF LogsInv
  <2> QED BY <1>0, <2>1, <2>2, GotoKeepsLogs, EmptyIsLogFile
<1> QED BY <1>1, <1>4, <1>5, <1>6, <1>8, <1>9, <1>10, <1>11, <1>12, <1>13, <1>14
    DEF LockedStep

LEMMA UnlockedKeepsLogs ==
  ASSUME TypeInv, LogsInv, NEW t \in Tasks, UnlockedStep(t)
  PROVE  LogsInv'
<1>0. /\ \A at \in {"truncate", "restore", "unlink", "rename"} :
           at \notin {"wait"} \cup Critical /\ at \notin {"tmpopen", "tmpwrite"}
      /\ "tmpwrite" \notin {"wait"} \cup Critical
  BY DEF Critical
<1>1. IsLogFile(File) /\ IsLogFile(read[t])
  BY ContentIsLog DEF File, LogsInv, TypeInv, TypeOK
<1>2. CASE RecoverRead(t)
  <2>1. UNCHANGED <<files, late>>
    BY <1>2 DEF RecoverRead, disk
  <2>2. \A i \in Inodes : IsLogFile(files'[i])
    BY <2>1 DEF LogsInv
  <2>3. CASE End(t)
    BY <2>1, <2>2, <2>3, EndKeepsLogs
  <2>4. CASE Goto(t, "truncate") /\ read' = [read EXCEPT ![t] = File] /\ job' = job
    BY <1>0, <1>1, <2>1, <2>2, <2>4, GotoKeepsLogs
  <2> QED BY <1>2, <2>3, <2>4 DEF RecoverRead
<1>3. CASE RecoverTruncate(t)
  <2>1. PICK i \in Opens(path) : files' = [files EXCEPT ![i] = EmptyFile]
    BY <1>3 DEF RecoverTruncate
  <2>2. i \in Inodes
    BY OpensType DEF TypeInv, TypeOK
  <2>3. \A k \in Inodes : IsLogFile(files'[k])
    BY <2>1, <2>2, EmptyIsLogFile, OneFileChanges
  <2>4. Goto(t, "restore") /\ UNCHANGED <<job, read, late>>
    BY <1>3 DEF RecoverTruncate
  <2> QED BY <1>0, <2>3, <2>4, GotoKeepsLogs, EmptyIsLogFile
<1>4. fd[t] \in Inodes \cup {NoFile} /\ (fd[t] \in Inodes => IsLogFile(files[fd[t]]))
  BY DEF LogsInv, TypeInv, TypeOK
<1>5. CASE RecoverWrite(t)
  <2>1. /\ files' = [files EXCEPT ![fd[t]] = Overwrite(files[fd[t]], Recovered(read[t]))]
        /\ End(t) /\ UNCHANGED late
    BY <1>5 DEF RecoverWrite
  <2>2. fd[t] \in Inodes => IsLogFile(Overwrite(files[fd[t]], Recovered(read[t])))
    BY <1>1, <1>4, RecoveredLog, OverwrittenLog
  <2>3. \A k \in Inodes : IsLogFile(files'[k])
    BY <1>4, <2>1, <2>2, OneFileChanges
  <2> QED BY <2>1, <2>3, EndKeepsLogs
<1>6. CASE ArchiveCopy(t)
  <2>1. UNCHANGED <<files, late>>
    BY <1>6 DEF ArchiveCopy
  <2>2. \A i \in Inodes : IsLogFile(files'[i])
    BY <2>1 DEF LogsInv
  <2>3. CASE End(t)
    BY <2>1, <2>2, <2>3, EndKeepsLogs
  <2>4. CASE Goto(t, "unlink") /\ UNCHANGED <<job, read>>
    BY <1>0, <1>1, <2>1, <2>2, <2>4, GotoKeepsLogs
  <2> QED BY <1>6, <2>3, <2>4 DEF ArchiveCopy
<1>7. CASE ArchiveRemove(t)
  <2>1. End(t) /\ UNCHANGED <<files, late>>
    BY <1>7 DEF ArchiveRemove
  <2> QED BY <2>1, EndKeepsLogs DEF LogsInv
<1>8. CASE TmpOpen(t)
  <2>1. PICK i \in Opens(tmp) : files' = [files EXCEPT ![i] = EmptyFile]
    BY <1>8 DEF TmpOpen
  <2>2. i \in Inodes
    BY OpensType DEF TypeInv, TypeOK
  <2>3. \A k \in Inodes : IsLogFile(files'[k])
    BY <2>1, <2>2, EmptyIsLogFile, OneFileChanges
  <2>4. Goto(t, "tmpwrite") /\ UNCHANGED <<job, read, late>> /\ pc[t] = "tmpopen"
    BY <1>8 DEF TmpOpen
  <2> QED BY <1>0, <2>3, <2>4, GotoKeepsLogs, EmptyIsLogFile
<1>9. CASE TmpWrite(t)
  <2>1. /\ files' = [files EXCEPT ![fd[t]] = Overwrite(files[fd[t]], job[t].records)]
        /\ Goto(t, "rename") /\ UNCHANGED <<job, read, late>> /\ pc[t] = "tmpwrite"
    BY <1>9 DEF TmpWrite
  <2>2. fd[t] \in Inodes => IsLogFile(Overwrite(files[fd[t]], job[t].records))
    BY <1>4, <2>1, OverwrittenLog DEF LogsInv
  <2>3. \A k \in Inodes : IsLogFile(files'[k])
    BY <1>4, <2>1, <2>2, OneFileChanges
  <2> QED BY <1>0, <2>1, <2>3, GotoKeepsLogs, EmptyIsLogFile
<1>10. CASE Rename(t)
  <2>1. End(t) /\ UNCHANGED <<files, late>>
    BY <1>10 DEF Rename
  <2> QED BY <2>1, EndKeepsLogs DEF LogsInv
<1> QED BY <1>2, <1>3, <1>5, <1>6, <1>7, <1>8, <1>9, <1>10 DEF UnlockedStep

LEMMA LateKeepsLogs ==
  ASSUME TypeInv, LogsInv, LateWrite
  PROVE  LogsInv'
<1>1. PICK write \in late :
        /\ files' = [files EXCEPT ![write.file] = AppendLines(files[write.file], write.records)]
        /\ late' = late \ {write}
  BY DEF LateWrite
<1>2. write.file \in Inodes \cup {NoFile} /\ write.records \in Seq(Later)
  BY DEF LogsInv, TypeInv, TypeOK
<1>3. write.file \in Inodes => IsLogFile(AppendLines(files[write.file], write.records))
  BY <1>2, AppendedLog DEF LogsInv
<1>4. \A k \in Inodes : IsLogFile(files'[k])
  BY <1>1, <1>2, <1>3, OneFileChanges
<1> QED BY <1>1, <1>4 DEF LateWrite, local, LogsInv

LEMMA LogsInvNext == PlainContents /\ TypeInv /\ LogsInv /\ [Next]_vars => LogsInv'
<1> SUFFICES ASSUME PlainContents, TypeInv, LogsInv, [Next]_vars PROVE LogsInv'
  OBVIOUS
<1>1. CASE UNCHANGED vars
  BY <1>1 DEF vars, disk, local, LogsInv
<1>2. CASE Crash
  <2>1. /\ UNCHANGED files /\ late' = {} /\ read' = [t \in Tasks |-> EmptyFile]
        /\ pc' = [t \in Tasks |-> "idle"]
    BY <1>2 DEF Crash, disk
  <2>2. "idle" \notin {"tmpopen", "tmpwrite"} /\ "idle" \notin {"wait"} \cup Critical
    BY DEF Critical
  <2> QED BY <2>1, <2>2, EmptyIsLogFile DEF LogsInv
<1>3. CASE LateWrite
  BY <1>3, LateKeepsLogs
<1>4. ASSUME NEW t \in Tasks,
             \/ Call(t) \/ Delete(t) \/ Acquire(t) \/ LockedStep(t)
             \/ ReadFails(t) \/ Abort(t) \/ Drop(t) \/ UnlockedStep(t)
      PROVE  LogsInv'
  BY <1>4, CallKeepsLogs, LockedKeepsLogs, UnlockedKeepsLogs
<1> QED BY <1>1, <1>2, <1>3, <1>4 DEF Next

LEMMA LogsAlways == PlainContents => (Spec => [](TypeInv /\ LogsInv))
<1> SUFFICES ASSUME PlainContents PROVE Spec => [](TypeInv /\ LogsInv)
  OBVIOUS
<1>1. PlainContents
  OBVIOUS
<1>2. TypeInv /\ LogsInv /\ [Next]_vars => (TypeInv /\ LogsInv)'
  BY <1>1, TypeInvNext, LogsInvNext
<1>3. Init => TypeInv /\ LogsInv
  BY TypeInvInit, LogsInvInit
<1> QED BY <1>2, <1>3, PTL DEF Spec

(* Whatever the tasks do to the file, and whatever they leave undone, a    *)
(* session that load accepts is one that list shows                        *)
(* (session_store.rs:233, 312-323).                                        *)
THEOREM LoadedSessionsAreListed == PlainContents => (Spec => []LoadedIsListed)
<1>1. TypeInv /\ LogsInv => LoadedIsListed
  BY ContentIsLog, LoadedLogIsListed DEF File, LoadedIsListed, TypeInv, TypeOK
<1> QED BY <1>1, LogsAlways, PTL

(* Whatever the tasks do to the file, load shows a staged message once at  *)
(* most (session_store.rs:264).                                            *)
THEOREM OperationsAreShownOnce == PlainContents => (Spec => []OperationShownOnce)
<1>1. TypeInv /\ LogsInv => OperationShownOnce
  <2> SUFFICES ASSUME TypeInv, LogsInv PROVE OperationShownOnce
    OBVIOUS
  <2>1. IsLogFile(File)
    BY ContentIsLog DEF File, TypeInv, TypeOK
  <2> DEFINE shown == Replay(Text(File)).messages
  <2>2. OnceIn(shown)
    BY <2>1, LogShowsOnce
  <2> HIDE DEF shown
  <2>3. \A i, j \in 1 .. Len(shown) :
          i < j /\ shown[i] \in Operations => shown[i] # shown[j]
    BY <2>2 DEF OnceIn
  <2> QED BY <2>3 DEF shown, OperationShownOnce
<1> QED BY <1>1, LogsAlways, PTL

-----------------------------------------------------------------------------
(* One task, whatever it calls and wherever it crashes, fails or is        *)
(* dropped.  No other file is open than the one it works on, and the       *)
(* temporary file holds nothing, or the whole log that is to be renamed.   *)
OneTask == \A t, u \in Tasks : t = u

Elsewhere(inode) == tmp # NoFile => inode # tmp

TaskOfTmp(t) ==
  /\ pc[t] \in {"tmpopen", "tmpwrite", "rename"} => job[t].records \in Rewrites \cup {<<Meta>>}
  /\ pc[t] = "tmpwrite" => fd[t] = tmp /\ tmp \in Inodes /\ files[tmp] = EmptyFile
  /\ pc[t] = "rename" /\ tmp # NoFile
       => files[tmp] = [lines |-> job[t].records, tail |-> <<>>]
  /\ pc[t] # "tmpwrite" => Elsewhere(fd[t])

TmpInv == /\ Elsewhere(path)
          /\ \A write \in late : Elsewhere(write.file)
          /\ \A t \in Tasks : TaskOfTmp(t)

(* The file that is open is the one that has the name.                     *)
RestoreInv == \A t \in Tasks : pc[t] = "restore" => fd[t] = path /\ path \in Inodes
                                                    /\ files[path] = EmptyFile

LEMMA OverwriteNothing ==
  ASSUME NEW ls \in Seq(Line)
  PROVE  Overwrite(EmptyFile, ls) = [lines |-> ls, tail |-> <<>>]
<1>1. EmptyFile.lines = <<>> /\ EmptyFile.tail = <<>> /\ Len(<<>>) = 0 /\ Len(ls) \in Nat
  BY EmptySeq, LenProperties DEF EmptyFile
<1>2. CASE Len(ls) > 0
  BY <1>1, <1>2 DEF Overwrite
<1>3. CASE Len(ls) = 0
  <2> DEFINE h == [i \in 1 .. Len(EmptyFile.lines) |->
                     IF i <= Len(ls) THEN ls[i] ELSE EmptyFile.lines[i]]
  <2>1. Overwrite(EmptyFile, ls) = [lines |-> h, tail |-> <<>>]
    BY <1>1, <1>3 DEF Overwrite
  <2>2. ls = <<>>
    BY <1>3, EmptySeq
  <2>3. h = <<>>
    <3>1. h = [i \in 1 .. 0 |-> IF i <= Len(ls) THEN ls[i] ELSE EmptyFile.lines[i]]
      BY <1>1
    <3>2. h \in Seq(Line) /\ Len(h) = 0
      BY <3>1
    <3> QED BY <3>2, EmptySeq
  <2> QED BY <2>1, <2>2, <2>3
<1> QED BY <1>1, <1>2, <1>3

LEMMA TmpInvInit == Init => TmpInv /\ RestoreInv
BY DEF Init, TmpInv, RestoreInv, TaskOfTmp, Elsewhere

(* A file that is opened with create is not the temporary one, and a       *)
(* temporary one that is opened is not a file in use.                      *)
LEMMA OpensElsewhere ==
  ASSUME TypeInv, TmpInv, NEW i \in Opens(path)
  PROVE  i \in Inodes /\ Elsewhere(i)
<1>1. i \in Inodes
  BY OpensType DEF TypeInv, TypeOK
<1> QED BY <1>1 DEF Opens, Elsewhere, TmpInv

LEMMA OpensTmp ==
  ASSUME TypeInv, TmpInv, NEW t \in Tasks, pc[t] # "tmpwrite", NEW i \in Opens(tmp)
  PROVE  i \in Inodes /\ i # path /\ fd[t] # i /\ \A write \in late : write.file # i
<1>1. i \in Inodes
  BY OpensType DEF TypeInv, TypeOK
<1>2. CASE tmp = NoFile
  BY <1>1, <1>2 DEF Opens
<1>3. CASE tmp # NoFile
  <2>1. i = tmp
    BY <1>3 DEF Opens
  <2> QED BY <1>1, <1>3, <2>1 DEF TmpInv, TaskOfTmp, Elsewhere
<1> QED BY <1>2, <1>3

(* A step that leaves the temporary file alone, and takes its task         *)
(* nowhere near it.                                                        *)
LEMMA AwayFromTmp ==
  ASSUME OneTask, TypeInv, TmpInv, NEW t \in Tasks,
         UNCHANGED tmp, tmp \in Inodes => files'[tmp] = files[tmp], Elsewhere(path'),
         \A write \in late' : Elsewhere(write.file),
         pc'[t] \notin {"tmpopen", "tmpwrite", "rename"},
         Elsewhere(fd'[t])
  PROVE  TmpInv'
<1>1. tmp' = tmp
  OBVIOUS
<1>2. ASSUME NEW i, Elsewhere(i) PROVE tmp' # NoFile => i # tmp'
  BY <1>1, <1>2 DEF Elsewhere
<1>3. Elsewhere(path)' /\ \A write \in late' : tmp' # NoFile => write.file # tmp'
  BY <1>1 DEF Elsewhere
<1>4. ASSUME NEW u \in Tasks PROVE TaskOfTmp(u)'
  <2>1. u = t
    BY DEF OneTask
  <2> QED BY <1>1, <2>1 DEF TaskOfTmp, Elsewhere
<1> QED BY <1>3, <1>4 DEF TmpInv, Elsewhere

LEMMA EndOfTask ==
  ASSUME TypeInv, NEW t \in Tasks, End(t)
  PROVE  pc'[t] = "idle" /\ fd'[t] = NoFile
BY DEF End, TypeInv, TypeOK

LEMMA FreshIsElsewhere ==
  ASSUME TypeInv
  PROVE  Elsewhere(NoFile)
BY DEF Elsewhere

LEMMA BeginKeepsTmp ==
  ASSUME OneTask, TypeInv, TmpInv, NEW t \in Tasks, NEW call, NEW at, NEW rs,
         at \notin {"tmpwrite", "rename"},
         at = "tmpopen" => rs \in Rewrites \cup {<<Meta>>},
         Begin(t, call, at, rs)
  PROVE  TmpInv'
<1>1. /\ UNCHANGED <<tmp, path, files, late, fd>>
      /\ pc'[t] = at /\ job'[t].records = rs /\ pc[t] = "idle"
  BY DEF Begin, disk, TypeInv, TypeOK
<1>2. Elsewhere(fd[t])
  BY <1>1 DEF TmpInv, TaskOfTmp
<1>3. ASSUME NEW u \in Tasks PROVE TaskOfTmp(u)'
  <2>1. u = t
    BY DEF OneTask
  <2> QED BY <1>1, <1>2, <2>1 DEF TaskOfTmp, Elsewhere
<1> QED BY <1>1, <1>3 DEF TmpInv, Elsewhere

LEMMA CallKeepsTmp ==
  ASSUME OneTask, TypeInv, TmpInv, NEW t \in Tasks, Call(t) \/ Delete(t)
  PROVE  TmpInv'
<1>1. CASE CallCreate(t)
  BY <1>1, BeginKeepsTmp DEF CallCreate
<1>2. CASE CallAppend(t)
  BY <1>2, BeginKeepsTmp DEF CallAppend
<1>3. CASE CallStage(t)
  BY <1>3, BeginKeepsTmp DEF CallStage
<1>4. CASE CallCancel(t)
  BY <1>4, BeginKeepsTmp DEF CallCancel
<1>5. CASE CallRecover(t)
  BY <1>5, BeginKeepsTmp DEF CallRecover
<1>6. CASE CallArchive(t)
  BY <1>6, BeginKeepsTmp DEF CallArchive
<1>7. CASE CallRewrite(t)
  BY <1>7, BeginKeepsTmp DEF CallRewrite
<1>8. CASE Delete(t)
  <2>1. UNCHANGED <<tmp, files, late, local>> /\ path' = NoFile /\ pc[t] = "idle"
    BY <1>8 DEF Delete
  <2>2. Elsewhere(fd[t])
    BY <2>1 DEF TmpInv, TaskOfTmp
  <2>3. Elsewhere(path')
    BY <2>1 DEF Elsewhere
  <2> QED BY <2>1, <2>2, <2>3, AwayFromTmp DEF local, TmpInv
<1> QED BY <1>1, <1>2, <1>3, <1>4, <1>5, <1>6, <1>7, <1>8 DEF Call

LEMMA FoundOrOpenTmp ==
  ASSUME TypeInv, TmpInv, NEW t \in Tasks, pc[t] # "tmpwrite", NEW seen, FoundOrOpen(t, seen)
  PROVE  pc'[t] \notin {"tmpopen", "tmpwrite", "rename"} /\ Elsewhere(fd'[t])
<1>1. CASE End(t)
  BY <1>1, EndOfTask, FreshIsElsewhere
<1>2. CASE Goto(t, "open") /\ UNCHANGED fd
  BY <1>2 DEF Goto, TypeInv, TypeOK, TmpInv, TaskOfTmp
<1> QED BY <1>1, <1>2 DEF FoundOrOpen

LEMMA LockedKeepsTmp ==
  ASSUME OneTask, TypeInv, TmpInv, NEW t \in Tasks,
         Acquire(t) \/ LockedStep(t) \/ ReadFails(t) \/ Abort(t) \/ Drop(t)
  PROVE  TmpInv'
<1>1. pc[t] # "tmpwrite"
  BY DEF Acquire, LockedStep, Scan, Repair, OpenAppend, WriteLine, WritePiece, WriteRest,
         Flush, ReadFails, Abort, Drop, Critical
<1>2. Elsewhere(fd[t]) /\ Elsewhere(path) /\ \A write \in late : Elsewhere(write.file)
  BY <1>1 DEF TmpInv, TaskOfTmp
<1>3. ASSUME NEW i, Elsewhere(i), NEW g, files' = [files EXCEPT ![i] = g]
      PROVE  tmp \in Inodes => files'[tmp] = files[tmp]
  BY <1>3, NamesAssumption DEF Elsewhere, TypeInv, TypeOK
<1>4. CASE Acquire(t)
  <2>1. UNCHANGED <<tmp, path, files, fd, late>> /\ pc'[t] \in {"open", "scan"}
    BY <1>4 DEF Acquire, Goto, disk, TypeInv, TypeOK
  <2> QED BY <1>2, <2>1, AwayFromTmp
<1>5. CASE Scan(t)
  <2>1. UNCHANGED <<tmp, path, files, late>>
    BY <1>5 DEF Scan, disk
  <2>2. pc'[t] \notin {"tmpopen", "tmpwrite", "rename"} /\ Elsewhere(fd'[t])
    <3>1. CASE FoundOrOpen(t, File)
      BY <1>1, <3>1, FoundOrOpenTmp
    <3>2. CASE Goto(t, "repair") /\ UNCHANGED fd
      BY <1>2, <3>2 DEF Goto, TypeInv, TypeOK
    <3> QED BY <1>5, <3>1, <3>2 DEF Scan
  <2> QED BY <1>2, <2>1, <2>2, AwayFromTmp
<1>6. CASE Repair(t)
  <2>1. UNCHANGED <<tmp, path, late>>
    BY <1>6 DEF Repair
  <2>2. pc'[t] \notin {"tmpopen", "tmpwrite", "rename"} /\ Elsewhere(fd'[t])
    <3>1. CASE FoundOrOpen(t, [read[t] EXCEPT !.tail = <<>>])
      BY <1>1, <3>1, FoundOrOpenTmp
    <3>2. CASE End(t)
      BY <3>2, EndOfTask, FreshIsElsewhere
    <3> QED BY <1>6, <3>1, <3>2 DEF Repair
  <2>3. tmp \in Inodes => files'[tmp] = files[tmp]
    <3>1. CASE UNCHANGED files
      BY <3>1
    <3>2. CASE files' = [files EXCEPT ![path] = SetLen(files[path], Len(read[t].lines))]
      BY <1>2, <1>3, <3>2
    <3> QED BY <1>6, <3>1, <3>2 DEF Repair
  <2> QED BY <1>2, <2>1, <2>2, <2>3, AwayFromTmp
<1>7. CASE OpenAppend(t)
  <2>1. PICK i \in Opens(path) :
          /\ path' = i
          /\ fd' = [fd EXCEPT ![t] = i]
          /\ files' = IF path = NoFile THEN [files EXCEPT ![i] = EmptyFile] ELSE files
    BY <1>7 DEF OpenAppend
  <2>2. i \in Inodes /\ Elsewhere(i)
    BY OpensElsewhere
  <2>3. UNCHANGED <<tmp, late>> /\ pc'[t] = "write" /\ fd'[t] = i
    BY <1>7, <2>1 DEF OpenAppend, Goto, TypeInv, TypeOK
  <2>4. tmp \in Inodes => files'[tmp] = files[tmp]
    BY <1>3, <2>1, <2>2
  <2> QED BY <1>2, <2>1, <2>2, <2>3, <2>4, AwayFromTmp
<1>8. CASE WriteLine(t)
  <2>1. /\ UNCHANGED <<tmp, path, pc, fd, late>> /\ pc[t] = "write"
        /\ files' = [files EXCEPT ![fd[t]] = AppendLines(files[fd[t]], <<Head(job[t].rest)>>)]
    BY <1>8 DEF WriteLine
  <2>2. tmp \in Inodes => files'[tmp] = files[tmp]
    BY <1>2, <1>3, <2>1
  <2> QED BY <1>2, <2>1, <2>2, AwayFromTmp
<1>9. CASE WritePiece(t)
  <2>1. UNCHANGED <<tmp, path, fd, late>> /\ pc'[t] = "cut"
    BY <1>9 DEF WritePiece, Goto, TypeInv, TypeOK
  <2>2. PICK piece \in Fragments(Head(job[t].rest)) :
          files' = [files EXCEPT ![fd[t]] = [lines |-> files[fd[t]].lines, tail |-> <<piece>>]]
    BY <1>9 DEF WritePiece
  <2>3. tmp \in Inodes => files'[tmp] = files[tmp]
    BY <1>2, <1>3, <2>2
  <2> QED BY <1>2, <2>1, <2>3, AwayFromTmp
<1>10. CASE WriteRest(t)
  <2>1. UNCHANGED <<tmp, path, fd, late>> /\ pc'[t] = "flush"
    BY <1>10 DEF WriteRest, Goto, TypeInv, TypeOK
  <2>2. tmp \in Inodes => files'[tmp] = files[tmp]
    <3> DEFINE g == IF pc[t] = "write" THEN AppendLines(files[fd[t]], job[t].rest)
                    ELSE AppendLines(CompleteTail(files[fd[t]], Head(job[t].rest)),
                                     Tail(job[t].rest))
    <3>1. files' = [files EXCEPT ![fd[t]] = g]
      BY <1>10 DEF WriteRest
    <3> QED BY <1>2, <1>3, <3>1
  <2> QED BY <1>2, <2>1, <2>2, AwayFromTmp
<1>11. CASE Flush(t)
  <2>1. UNCHANGED <<tmp, path, files, late>> /\ End(t)
    BY <1>11 DEF Flush, disk
  <2> QED BY <1>2, <2>1, EndOfTask, FreshIsElsewhere, AwayFromTmp
<1>12. CASE Abort(t)
  <2>1. UNCHANGED <<tmp, path, files, late>> /\ End(t)
    BY <1>12 DEF Abort, disk
  <2> QED BY <1>2, <2>1, EndOfTask, FreshIsElsewhere, AwayFromTmp
<1>13. CASE Drop(t)
  <2>1. /\ UNCHANGED <<tmp, path, files>> /\ End(t)
        /\ late' = late \cup {[file |-> fd[t], records |-> job[t].rest, nr |-> drops]}
    BY <1>13 DEF Drop, disk
  <2>2. \A write \in late' : Elsewhere(write.file)
    BY <1>2, <2>1
  <2> QED BY <1>2, <2>1, <2>2, EndOfTask, FreshIsElsewhere, AwayFromTmp
<1>14. CASE ReadFails(t)
  <2>1. UNCHANGED <<tmp, path, files, fd, late>> /\ pc'[t] = "open"
    BY <1>14 DEF ReadFails, Goto, disk, TypeInv, TypeOK
  <2> QED BY <1>2, <2>1, AwayFromTmp
<1> QED BY <1>4, <1>5, <1>6, <1>7, <1>8, <1>9, <1>10, <1>11, <1>12, <1>13, <1>14
    DEF LockedStep

LEMMA UnlockedKeepsTmp ==
  ASSUME OneTask, TypeInv, TmpInv, NEW t \in Tasks, UnlockedStep(t)
  PROVE  TmpInv'
<1>1. Elsewhere(path) /\ \A write \in late : Elsewhere(write.file)
  BY DEF TmpInv
<1>2. pc[t] # "tmpwrite" => Elsewhere(fd[t])
  BY DEF TmpInv, TaskOfTmp
<1>3. ASSUME NEW i, Elsewhere(i), NEW g, files' = [files EXCEPT ![i] = g]
      PROVE  tmp \in Inodes => files'[tmp] = files[tmp]
  BY <1>3, NamesAssumption DEF Elsewhere, TypeInv, TypeOK
<1>4. CASE RecoverRead(t)
  <2>1. UNCHANGED <<tmp, path, files, late>> /\ pc[t] = "recover"
    BY <1>4 DEF RecoverRead, disk
  <2>2. pc'[t] \notin {"tmpopen", "tmpwrite", "rename"} /\ Elsewhere(fd'[t])
    <3>1. CASE End(t)
      BY <3>1, EndOfTask, FreshIsElsewhere
    <3>2. CASE Goto(t, "truncate") /\ UNCHANGED fd
      BY <1>2, <2>1, <3>2 DEF Goto, TypeInv, TypeOK
    <3> QED BY <1>4, <3>1, <3>2 DEF RecoverRead
  <2> QED BY <1>1, <2>1, <2>2, AwayFromTmp
<1>5. CASE RecoverTruncate(t)
  <2>1. PICK i \in Opens(path) : /\ path' = i /\ fd' = [fd EXCEPT ![t] = i]
                                 /\ files' = [files EXCEPT ![i] = EmptyFile]
    BY <1>5 DEF RecoverTruncate
  <2>2. i \in Inodes /\ Elsewhere(i)
    BY OpensElsewhere
  <2>3. UNCHANGED <<tmp, late>> /\ pc'[t] = "restore" /\ fd'[t] = i
    BY <1>5, <2>1 DEF RecoverTruncate, Goto, TypeInv, TypeOK
  <2>4. tmp \in Inodes => files'[tmp] = files[tmp]
    BY <1>3, <2>1, <2>2
  <2> QED BY <1>1, <2>1, <2>2, <2>3, <2>4, AwayFromTmp
<1>6. CASE RecoverWrite(t)
  <2>1. /\ UNCHANGED <<tmp, path, late>> /\ pc[t] = "restore" /\ End(t)
        /\ files' = [files EXCEPT ![fd[t]] = Overwrite(files[fd[t]], Recovered(read[t]))]
    BY <1>6 DEF RecoverWrite
  <2>2. tmp \in Inodes => files'[tmp] = files[tmp]
    BY <1>2, <1>3, <2>1
  <2> QED BY <1>1, <2>1, <2>2, EndOfTask, FreshIsElsewhere, AwayFromTmp
<1>7. CASE ArchiveCopy(t)
  <2>1. UNCHANGED <<tmp, path, files, late>> /\ pc[t] = "copy"
    BY <1>7 DEF ArchiveCopy
  <2>2. pc'[t] \notin {"tmpopen", "tmpwrite", "rename"} /\ Elsewhere(fd'[t])
    <3>1. CASE End(t)
      BY <3>1, EndOfTask, FreshIsElsewhere
    <3>2. CASE Goto(t, "unlink") /\ UNCHANGED fd
      BY <1>2, <2>1, <3>2 DEF Goto, TypeInv, TypeOK
    <3> QED BY <1>7, <3>1, <3>2 DEF ArchiveCopy
  <2> QED BY <1>1, <2>1, <2>2, AwayFromTmp
<1>8. CASE ArchiveRemove(t)
  <2>1. UNCHANGED <<tmp, files, late>> /\ path' = NoFile /\ End(t)
    BY <1>8 DEF ArchiveRemove
  <2> QED BY <1>1, <2>1, EndOfTask, FreshIsElsewhere, AwayFromTmp
<1>9. CASE TmpOpen(t)
  <2>1. PICK i \in Opens(tmp) : /\ tmp' = i /\ fd' = [fd EXCEPT ![t] = i]
                                /\ files' = [files EXCEPT ![i] = EmptyFile]
    BY <1>9 DEF TmpOpen
  <2>2. UNCHANGED <<path, late, job>> /\ pc'[t] = "tmpwrite" /\ pc[t] = "tmpopen"
    BY <1>9 DEF TmpOpen, Goto, TypeInv, TypeOK
  <2>3. i \in Inodes /\ i # path /\ \A write \in late : write.file # i
    BY <2>2, OpensTmp
  <2>4. job[t].records \in Rewrites \cup {<<Meta>>}
    BY <2>2 DEF TmpInv, TaskOfTmp
  <2>5. fd'[t] = i /\ files'[i] = EmptyFile
    BY <2>1, <2>3 DEF TypeInv, TypeOK
  <2>6. ASSUME NEW u \in Tasks PROVE TaskOfTmp(u)'
    <3>1. u = t
      BY DEF OneTask
    <3> QED BY <2>1, <2>2, <2>3, <2>4, <2>5, <3>1 DEF TaskOfTmp
  <2> QED BY <2>1, <2>2, <2>3, <2>6 DEF TmpInv, Elsewhere
<1>10. CASE TmpWrite(t)
  <2>1. /\ UNCHANGED <<path, tmp, late, job>> /\ pc[t] = "tmpwrite" /\ pc'[t] = "rename"
        /\ files' = [files EXCEPT ![fd[t]] = Overwrite(files[fd[t]], job[t].records)]
        /\ fd' = [fd EXCEPT ![t] = NoFile]
    BY <1>10 DEF TmpWrite, Goto, TypeInv, TypeOK
  <2>2. fd[t] = tmp /\ tmp \in Inodes /\ files[tmp] = EmptyFile
        /\ job[t].records \in Rewrites \cup {<<Meta>>}
    BY <2>1 DEF TmpInv, TaskOfTmp
  <2>3. job[t].records \in Seq(Line)
    BY SeqOfRecordsIsSeqOfLines DEF TypeInv, TypeOK, Job
  <2>4. files'[tmp] = [lines |-> job[t].records, tail |-> <<>>]
    BY <2>1, <2>2, <2>3, OverwriteNothing DEF TypeInv, TypeOK
  <2>5. fd'[t] = NoFile
    BY <2>1 DEF TypeInv, TypeOK
  <2>6. ASSUME NEW u \in Tasks PROVE TaskOfTmp(u)'
    <3>1. u = t
      BY DEF OneTask
    <3> QED BY <2>1, <2>2, <2>4, <2>5, <3>1 DEF TaskOfTmp, Elsewhere
  <2> QED BY <1>1, <2>1, <2>6 DEF TmpInv, Elsewhere
<1>11. CASE Rename(t)
  <2>1. tmp' = NoFile /\ UNCHANGED late /\ End(t)
    BY <1>11 DEF Rename
  <2>2. pc'[t] = "idle"
    BY <2>1, EndOfTask
  <2>3. ASSUME NEW u \in Tasks PROVE TaskOfTmp(u)'
    <3>1. u = t
      BY DEF OneTask
    <3> QED BY <2>1, <2>2, <3>1 DEF TaskOfTmp, Elsewhere
  <2> QED BY <2>1, <2>3 DEF TmpInv, Elsewhere
<1> QED BY <1>4, <1>5, <1>6, <1>7, <1>8, <1>9, <1>10, <1>11 DEF UnlockedStep

LEMMA TmpInvNext == OneTask /\ TypeInv /\ TmpInv /\ [Next]_vars => TmpInv'
<1> SUFFICES ASSUME OneTask, TypeInv, TmpInv, [Next]_vars PROVE TmpInv'
  OBVIOUS
<1>1. CASE UNCHANGED vars
  BY <1>1 DEF vars, disk, local, TmpInv, TaskOfTmp, Elsewhere
<1>2. CASE Crash
  <2>1. UNCHANGED <<files, path, tmp>> /\ late' = {}
        /\ pc' = [t \in Tasks |-> "idle"] /\ fd' = [t \in Tasks |-> NoFile]
    BY <1>2 DEF Crash, disk
  <2> QED BY <2>1 DEF TmpInv, TaskOfTmp, Elsewhere
<1>3. CASE LateWrite
  <2>1. PICK write \in late :
          /\ files' = [files EXCEPT ![write.file] = AppendLines(files[write.file], write.records)]
          /\ late' = late \ {write}
          /\ UNCHANGED <<path, tmp, local>>
    BY <1>3 DEF LateWrite
  <2>2. tmp \in Inodes => files'[tmp] = files[tmp]
    BY <2>1, NamesAssumption DEF TmpInv, Elsewhere, TypeInv, TypeOK
  <2>3. tmp = NoFile \/ tmp \in Inodes
    BY DEF TypeInv, TypeOK
  <2> QED BY <2>1, <2>2, <2>3 DEF local, TmpInv, TaskOfTmp, Elsewhere
<1>4. ASSUME NEW t \in Tasks,
             \/ Call(t) \/ Delete(t) \/ Acquire(t) \/ LockedStep(t)
             \/ ReadFails(t) \/ Abort(t) \/ Drop(t) \/ UnlockedStep(t)
      PROVE  TmpInv'
  BY <1>4, CallKeepsTmp, LockedKeepsTmp, UnlockedKeepsTmp
<1> QED BY <1>1, <1>2, <1>3, <1>4 DEF Next

LEMMA RewriteStep ==
  OneTask /\ TypeInv /\ TmpInv /\ [Next]_vars
  => \A t \in Tasks :
       pc[t] \in {"tmpopen", "tmpwrite", "rename"} /\ pc'[t] # pc[t] /\ File' # File
       => \/ File'.tail = <<>> /\ File'.lines \in Rewrites \cup {<<Meta>>}
          \/ Crash
<1> SUFFICES ASSUME OneTask, TypeInv, TmpInv, [Next]_vars, NEW t \in Tasks,
                    pc[t] \in {"tmpopen", "tmpwrite", "rename"}, pc'[t] # pc[t],
                    File' # File, ~ Crash
             PROVE  File'.tail = <<>> /\ File'.lines \in Rewrites \cup {<<Meta>>}
  OBVIOUS
<1>1. ~ UNCHANGED vars /\ ~ LateWrite
  BY DEF vars, local, LateWrite
<1>2. ASSUME NEW u \in Tasks PROVE u = t
  BY DEF OneTask
<1>3. TmpOpen(t) \/ TmpWrite(t) \/ Rename(t)
  <2>1. PICK u \in Tasks :
          \/ Call(u) \/ Delete(u) \/ Acquire(u) \/ LockedStep(u)
          \/ ReadFails(u) \/ Abort(u) \/ Drop(u) \/ UnlockedStep(u)
    BY <1>1 DEF Next
  <2>2. \/ Call(t) \/ Delete(t) \/ Acquire(t) \/ LockedStep(t)
        \/ ReadFails(t) \/ Abort(t) \/ Drop(t) \/ UnlockedStep(t)
    BY <1>2, <2>1
  <2>3. ~ Call(t) /\ ~ Delete(t)
    BY DEF Call, CallCreate, CallAppend, CallStage, CallCancel, CallRecover, CallArchive,
           CallRewrite, Begin, Delete
  <2>4. ~ Acquire(t) /\ ~ LockedStep(t) /\ ~ ReadFails(t) /\ ~ Abort(t) /\ ~ Drop(t)
    BY DEF Acquire, LockedStep, Scan, Repair, OpenAppend, WriteLine, WritePiece, WriteRest,
           Flush, ReadFails, Abort, Drop, Critical
  <2> QED BY <2>2, <2>3, <2>4 DEF UnlockedStep, RecoverRead, RecoverTruncate, RecoverWrite,
                                  ArchiveCopy, ArchiveRemove
<1>4. ASSUME NEW i \in Inodes, i # path, NEW g,
             files' = [files EXCEPT ![i] = g], path' = path
      PROVE  FALSE
  BY <1>4 DEF File, Content, TypeInv, TypeOK
<1>5. ~ TmpOpen(t)
  <2> SUFFICES ASSUME TmpOpen(t) PROVE FALSE
    OBVIOUS
  <2>1. PICK i \in Opens(tmp) : files' = [files EXCEPT ![i] = EmptyFile]
    BY DEF TmpOpen
  <2>2. path' = path /\ pc[t] # "tmpwrite"
    BY DEF TmpOpen
  <2>3. i \in Inodes /\ i # path
    BY <2>2, OpensTmp
  <2> QED BY <1>4, <2>1, <2>2, <2>3
<1>6. ~ TmpWrite(t)
  <2> SUFFICES ASSUME TmpWrite(t) PROVE FALSE
    OBVIOUS
  <2>1. files' = [files EXCEPT ![fd[t]] = Overwrite(files[fd[t]], job[t].records)]
        /\ path' = path /\ pc[t] = "tmpwrite"
    BY DEF TmpWrite
  <2>2. fd[t] \in Inodes /\ fd[t] # path
    BY <2>1, NamesAssumption DEF TmpInv, TaskOfTmp, Elsewhere
  <2> QED BY <1>4, <2>1, <2>2
<1>7. Rename(t)
  BY <1>3, <1>5, <1>6
<1>8. tmp # NoFile /\ path' = tmp /\ files' = files
  <2>1. files' = files /\ (tmp = NoFile => path' = path)
    BY <1>7 DEF Rename
  <2>2. tmp # NoFile
    BY <2>1 DEF File, Content
  <2> QED BY <1>7, <2>1, <2>2 DEF Rename
<1>9. File' = files[tmp]
  BY <1>8 DEF File, Content
<1>10. /\ files[tmp] = [lines |-> job[t].records, tail |-> <<>>]
       /\ job[t].records \in Rewrites \cup {<<Meta>>}
  BY <1>7, <1>8 DEF Rename, TmpInv, TaskOfTmp
<1> QED BY <1>9, <1>10

(* Whatever interrupts write_session_atomic, and whatever an interrupted   *)
(* one left behind, the file becomes one whole log in one step             *)
(* (session_store.rs:385-387), as long as one task alone uses the store.   *)
THEOREM RewritesAreWhole == OneTask => (Spec => RewriteIsWhole)
<1> SUFFICES ASSUME OneTask PROVE Spec => RewriteIsWhole
  OBVIOUS
<1>1. OneTask
  OBVIOUS
<1>2. TypeInv /\ TmpInv /\ [Next]_vars => (TypeInv /\ TmpInv)'
  BY <1>1, TypeInvNext, TmpInvNext
<1>3. Init => TypeInv /\ TmpInv
  BY TypeInvInit, TmpInvInit
<1>4. TypeInv /\ TmpInv /\ [Next]_vars
      => \A t \in Tasks :
           pc[t] \in {"tmpopen", "tmpwrite", "rename"} /\ pc'[t] # pc[t] /\ File' # File
           => \/ File'.tail = <<>> /\ File'.lines \in Rewrites \cup {<<Meta>>}
              \/ Crash
  BY <1>1, RewriteStep
<1> QED BY <1>2, <1>3, <1>4, PTL DEF Spec, RewriteIsWhole

LEMMA RestoreInvNext ==
  OneTask /\ TypeInv /\ NothingLate /\ RestoreInv /\ [Next]_vars => RestoreInv'
<1> SUFFICES ASSUME OneTask, TypeInv, NothingLate, RestoreInv, [Next]_vars,
                    NEW t \in Tasks, pc'[t] = "restore"
             PROVE  fd'[t] = path' /\ path' \in Inodes /\ files'[path'] = EmptyFile
  BY DEF RestoreInv
<1>1. CASE UNCHANGED vars
  BY <1>1 DEF vars, disk, local, RestoreInv
<1>2. ~ Crash /\ ~ LateWrite
  BY DEF Crash, LateWrite, NothingLate
<1>3. CASE Next
  <2>1. PICK u \in Tasks :
          \/ Call(u) \/ Delete(u) \/ Acquire(u) \/ LockedStep(u)
          \/ ReadFails(u) \/ Abort(u) \/ Drop(u) \/ UnlockedStep(u)
    BY <1>2, <1>3 DEF Next
  <2>2. u = t
    BY DEF OneTask
  <2>3. ~ Call(t) /\ ~ Delete(t)
    BY DEF Call, CallCreate, CallAppend, CallStage, CallCancel, CallRecover, CallArchive,
           CallRewrite, Begin, Delete, local, TypeInv, TypeOK
  <2>4. ~ End(t)
    BY EndOfTask
  <2>5. ~ Acquire(t) /\ ~ LockedStep(t) /\ ~ ReadFails(t) /\ ~ Abort(t) /\ ~ Drop(t)
    BY <2>4 DEF Acquire, LockedStep, Scan, Repair, FoundOrOpen, OpenAppend, WriteLine,
                WritePiece, WriteRest, Flush, ReadFails, Abort, Drop, Goto, TypeInv, TypeOK
  <2>6. RecoverTruncate(t)
    BY <2>1, <2>2, <2>3, <2>4, <2>5 DEF UnlockedStep, RecoverRead, RecoverWrite, ArchiveCopy,
       ArchiveRemove, TmpOpen, TmpWrite, Rename, Goto, TypeInv, TypeOK
  <2>7. PICK i \in Opens(path) : /\ path' = i /\ fd' = [fd EXCEPT ![t] = i]
                                 /\ files' = [files EXCEPT ![i] = EmptyFile]
    BY <2>6 DEF RecoverTruncate
  <2>8. i \in Inodes
    BY OpensType DEF TypeInv, TypeOK
  <2> QED BY <2>7, <2>8 DEF TypeInv, TypeOK
<1> QED BY <1>1, <1>3

LEMMA TextGoesOn ==
  ASSUME NEW f \in FileContent, f.lines # <<>>
  PROVE  Text(f) # <<>>
<1> DEFINE ls    == f.lines
           tail  == f.tail
           reads == [i \in 1 .. Len(tail) |-> tail[i].reads]
<1>1. ls \in Seq(Line) /\ tail \in Seq(Piece) /\ ls # <<>> /\ Text(f) = ls \o reads
  BY DEF FileContent, Text
<1> HIDE DEF ls, tail
<1>2. Len(tail) \in Nat /\ \A i \in 1 .. Len(tail) : tail[i] \in Piece
  BY <1>1, ElementOfSeq, LenProperties
<1>3. \A i \in 1 .. Len(tail) : tail[i].reads \in Line
  BY <1>2 DEF Piece
<1>4. reads \in Seq(Line)
  BY <1>2, <1>3
<1> HIDE DEF reads
<1>5. Len(ls \o reads) = Len(ls) + Len(reads) /\ Len(reads) \in Nat /\ Len(ls) \in Nat
  BY <1>1, <1>4, ConcatProperties, LenProperties
<1>6. Len(ls) # 0
  BY <1>1, EmptySeq
<1>7. Len(<<>>) = 0
  BY EmptySeq
<1> QED BY <1>1, <1>5, <1>6, <1>7

LEMMA RecoverWriteStep ==
  ASSUME TypeInv, RestoreInv, NEW t \in Tasks, RecoverWrite(t),
         Loads([read[t] EXCEPT !.tail = <<>>])
  PROVE  Loads(File') /\ IsPrefix(read[t].lines, File'.lines)
<1> DEFINE f == read[t]
           ls == f.lines
           cut == [f EXCEPT !.tail = <<>>]
<1>1. f \in FileContent /\ ls \in Seq(Line)
  BY DEF TypeInv, TypeOK, FileContent
<1>2. cut = [lines |-> ls, tail |-> <<>>] /\ Loads(cut)
  BY <1>1 DEF FileContent
<1>3. ls # <<>>
  <2> SUFFICES ASSUME ls = <<>> PROVE FALSE
    OBVIOUS
  <2>1. Text(cut) = <<>>
    BY <1>2 DEF Text
  <2> DEFINE text == Text(cut)
  <2> HIDE DEF text
  <2>2. Replay(text).meta = FALSE
    <3>1. text = <<>>
      BY <2>1 DEF text
    <3>2. DOMAIN text = 1 .. 0 /\ 0 \in Nat /\ \A i \in 1 .. 0 : text[i].kind # "meta"
      BY <3>1
    <3> QED BY <3>2, NoMetaIsSeen
  <2>3. LoadError(cut) # "none"
    BY <2>2 DEF LoadError, text
  <2> QED BY <1>2, <2>3 DEF Loads
<1>4. Text(f) # <<>>
  BY <1>1, <1>3, TextGoesOn
<1>5. Recovered(f) = ls
  BY <1>3, <1>4 DEF Recovered
<1>6. /\ files' = [files EXCEPT ![fd[t]] = Overwrite(files[fd[t]], Recovered(f))]
      /\ path' = path /\ fd[t] = path /\ path \in Inodes /\ files[path] = EmptyFile
  BY DEF RecoverWrite, RestoreInv
<1>7. File' = Overwrite(EmptyFile, ls)
  BY <1>5, <1>6, NamesAssumption DEF File, Content, TypeInv, TypeOK
<1>8. File' = cut /\ File'.lines = ls
  BY <1>1, <1>2, <1>7, OverwriteNothing
<1>9. IsPrefix(ls, ls)
  BY <1>1, SameLinesArePrefix
<1> QED BY <1>2, <1>8, <1>9

(* recover keeps every complete line, and what it leaves loads if those    *)
(* lines were good (session_store.rs:334-355), as long as one task alone   *)
(* uses the store and no append of its is dropped in the middle.           *)
THEOREM RecoverCutsTheTornTail == OneTask /\ MaxDrops = 0 => (Spec => TornTailIsCut)
<1> SUFFICES ASSUME OneTask, MaxDrops = 0 PROVE Spec => TornTailIsCut
  OBVIOUS
<1>1. OneTask /\ MaxDrops = 0
  OBVIOUS
<1> DEFINE Inv == TypeInv /\ NothingLate /\ RestoreInv
<1>2. Inv /\ [Next]_vars => Inv'
  BY <1>1, TypeInvNext, NothingLateNext, RestoreInvNext
<1>3. Init => Inv
  BY TypeInvInit, TmpInvInit DEF Init, NothingLate
<1>4. Inv => (\A t \in Tasks :
                RecoverWrite(t) /\ Loads([read[t] EXCEPT !.tail = <<>>])
                => Loads(File') /\ IsPrefix(read[t].lines, File'.lines))
  BY RecoverWriteStep
<1> QED BY <1>2, <1>3, <1>4, PTL DEF Spec, TornTailIsCut
=============================================================================
