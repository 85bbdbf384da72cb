------------------------- MODULE ProviderTurnProofs -------------------------
(***************************************************************************)
(* A request is made again only when it may be, for any number of retries  *)
(* and any server.  The property speaks of a step; the invariant it needs  *)
(* says what the counter of attempts has to do with the requests made.     *)
(*                                                                         *)
(* What the consumer of a turn is told is complete, without repetition and *)
(* true, for any calls, any number of frames and any server that speaks    *)
(* one of the three APIs.  The invariant compares the parser with what the *)
(* server had said before the frames that are still on their way.          *)
(***************************************************************************)
EXTENDS ProviderTurn, SequenceTheorems, FiniteSetTheorems, FunctionTheorems, TLAPS

RetryType ==
  /\ options \in Bodies
  /\ attempt \in Nat /\ 1 <= attempt /\ attempt <= MaxRetries + 1
  /\ requests \in [Bodies -> Nat]

(* attempt counts the requests with the present body; while the call       *)
(* sleeps the next one is counted already.                                 *)
RetryInv ==
  /\ RetryType
  /\ phase \in {"sending", "errorbody"} => requests[options] = attempt
  /\ phase = "asleep" => /\ requests[options] + 1 = attempt /\ requests[options] # 0
                         /\ answer \in Retryable
  /\ options = "with" => requests["without"] = 0

Quiet == UNCHANGED <<phase, options, attempt, answer, requests>>

(* The call is over, or goes on without a request: streaming, for example. *)
Settled == /\ UNCHANGED <<options, requests>>
           /\ attempt' = attempt
           /\ phase' \notin {"sending", "errorbody", "asleep"}

Slept == /\ phase' = "asleep" /\ attempt' = attempt + 1 /\ attempt <= MaxRetries
         /\ UNCHANGED <<options, requests>>
         /\ answer' \in Retryable

Resent == /\ phase' = "sending" /\ options' = "without" /\ attempt' = 1
          /\ options = "with" /\ answer = "rejected"
          /\ requests' = [requests EXCEPT !["without"] = @ + 1]

Retried == /\ phase = "asleep" /\ phase' = "sending"
           /\ UNCHANGED <<options, attempt, answer>>
           /\ requests' = [requests EXCEPT ![options] = @ + 1]

BodyAwaited == /\ phase = "sending" /\ phase' = "errorbody"
               /\ UNCHANGED <<options, attempt, requests>>

RetryStep == \/ Quiet
             \/ Settled
             \/ Slept /\ phase \in {"sending", "errorbody"}
             \/ Resent /\ phase = "errorbody"
             \/ Retried
             \/ BodyAwaited

(* AfterError, where the answer it is about is the one that is remembered. *)
LEMMA ErrorIsHandled ==
  ASSUME RetryInv, NEW a, NEW known \in BOOLEAN, AfterError(a, known),
         answer' = a, a = "rejected" /\ known => answer = a
  PROVE  Settled \/ Slept \/ Resent
<1>1. CASE a \in Retryable /\ RetriesLeft
  BY <1>1, BoundsAssumption DEF AfterError, RetriesLeft, Sleep, Slept, RetryInv, RetryType, Bodies
<1>2. CASE ~ (a \in Retryable /\ RetriesLeft) /\ a = "rejected" /\ known /\ options = "with"
  BY <1>2 DEF AfterError, WithoutOptions, Request, Resent
<1>3. CASE ~ (a \in Retryable /\ RetriesLeft) /\ ~ (a = "rejected" /\ known /\ options = "with")
  BY <1>3 DEF AfterError, Fail, Settled
<1> QED  BY <1>1, <1>2, <1>3

(* Every step is one of six as far as requests are concerned.              *)
LEMMA EveryStepIsOne ==
  ASSUME RetryInv, [Next]_vars
  PROVE  RetryStep
<1>1. CASE UNCHANGED vars
  BY <1>1 DEF vars, request, RetryStep, Quiet
<1>2. CASE Poll
  <2>1. CASE Register
    BY <2>1 DEF Register, request, RetryStep, Quiet
  <2>2. CASE CheckSleep
    <3>1. CASE timer # "done"
      BY <2>2, <3>1 DEF CheckSleep, Pending, request, RetryStep, Quiet
    <3>2. CASE timer = "done" /\ phase = "asleep"
      BY <2>2, <3>2 DEF CheckSleep, Request, RetryStep, Retried
    <3>3. CASE timer = "done" /\ phase # "asleep"
      <4>1. phase = "errorbody" /\ AfterError(answer, FALSE) /\ answer' = answer
        BY <2>2, <3>3 DEF CheckSleep
      <4> QED  BY <4>1, ErrorIsHandled DEF RetryStep
    <3> QED  BY <3>1, <3>2, <3>3
  <2>3. CASE BodyRead
    <3>1. phase = "errorbody" /\ AfterError(answer, TRUE) /\ answer' = answer
      BY <2>3 DEF BodyRead
    <3> QED  BY <3>1, ErrorIsHandled DEF RetryStep
  <2>4. CASE ReadStalled
    BY <2>4 DEF ReadStalled, request, RetryStep, Quiet
  <2>5. CASE ReadFrame
    BY <2>5 DEF ReadFrame, request, RetryStep, Quiet
  <2>6. CASE ReadNothing
    BY <2>6 DEF ReadNothing, Pending, request, RetryStep, Quiet
  <2>7. CASE ReadEnd
    BY <2>7 DEF ReadEnd, Over, request, RetryStep, Settled
  <2>8. CASE AfterEnd
    BY <2>8 DEF AfterEnd, Over, request, RetryStep, Settled
  <2> QED  BY <1>2, <2>1, <2>2, <2>3, <2>4, <2>5, <2>6, <2>7, <2>8 DEF Poll
<1>3. CASE Watchdog
  BY <1>3 DEF Watchdog, DogHears, DogFires, DogWakes, DogLeaves, request, RetryStep, Quiet
<1>4. CASE Timer
  BY <1>4 DEF Timer, TimerWakes, TimerSends, request, RetryStep, Quiet
<1>5. CASE StrayWakes
  BY <1>5 DEF StrayWakes, request, RetryStep, Quiet
<1>6. CASE Drop
  BY <1>6 DEF Drop, request, RetryStep, Settled
<1>7. CASE BodyArrives
  BY <1>7 DEF BodyArrives, RetryStep, Quiet
<1>8. CASE ServerSends
  <2>1. \E frames, s : Arrives(frames, s)
    BY <1>8, Zenon DEF ServerSends
  <2> QED  BY <2>1 DEF Arrives, request, RetryStep, Quiet
<1>9. CASE ConnectionEnds
  <2>1. \E frames, s : Arrives(frames, s)
    BY <1>9, Zenon DEF ConnectionEnds
  <2> QED  BY <2>1 DEF Arrives, request, RetryStep, Quiet
<1>10. CASE NoConnection
  <2>1. phase = "sending" /\ AfterError("transport", FALSE) /\ answer' = "transport"
    BY <1>10 DEF NoConnection
  <2>2. Settled \/ Slept \/ Resent
    BY <2>1, ErrorIsHandled
  <2>3. ~ Resent
    BY <2>1 DEF AfterError, RetriesLeft, Sleep, Fail, Resent, Retryable
  <2> QED  BY <2>1, <2>2, <2>3 DEF RetryStep
<1>11. CASE Success
  BY <1>11 DEF Success, RetryStep, Settled
<1>12. CASE \E a \in {"retry", "fatal", "rejected"} : Refused(a)
  BY <1>12 DEF Refused, Sleep, RetryStep, BodyAwaited
<1> QED  BY <1>1, <1>2, <1>3, <1>4, <1>5, <1>6, <1>7, <1>8, <1>9, <1>10, <1>11, <1>12
DEF Next

LEMMA RetryInvHolds == Spec => []RetryInv
<1>1. Init => RetryInv
  BY BoundsAssumption DEF Init, RetryInv, RetryType, Bodies
<1>2. RetryInv /\ [Next]_vars => RetryInv'
  <2> SUFFICES ASSUME RetryInv, [Next]_vars
               PROVE  RetryInv'
    OBVIOUS
  <2>1. RetryStep
    BY EveryStepIsOne
  <2>2. CASE Quiet
    BY <2>2 DEF Quiet, RetryInv, RetryType, Bodies
  <2>3. CASE Settled
    BY <2>3 DEF Settled, RetryInv, RetryType, Bodies
  <2>4. CASE Slept /\ phase \in {"sending", "errorbody"}
    BY <2>4, BoundsAssumption DEF Slept, RetryInv, RetryType, Bodies
  <2>5. CASE Resent /\ phase = "errorbody"
    BY <2>5, BoundsAssumption DEF Resent, RetryInv, RetryType, Bodies
  <2>6. CASE Retried
    BY <2>6 DEF Retried, RetryInv, RetryType, Bodies
  <2>7. CASE BodyAwaited
    BY <2>7 DEF BodyAwaited, RetryInv, RetryType, Bodies
  <2> QED  BY <2>1, <2>2, <2>3, <2>4, <2>5, <2>6, <2>7 DEF RetryStep
<1> QED  BY <1>1, <1>2, PTL DEF Spec

(* Whatever the server answers, and whichever of a body and its time limit *)
(* comes first, no request is repeated that must not be, none is made once *)
(* a stream has begun, and none more often than MaxRetries + 1 times.      *)
THEOREM RequestsWarranted == Spec => RequestsAreWarranted
<1>1. RetryInv /\ [Next]_vars =>
        [\A b \in Bodies : requests'[b] # requests[b] =>
           /\ requests'[b] <= MaxRetries + 1
           /\ IF requests[b] = 0 THEN b = "without" /\ answer = "rejected" ELSE answer \in Retryable]_vars
  <2> SUFFICES ASSUME RetryInv, [Next]_vars, NEW b \in Bodies, requests'[b] # requests[b]
               PROVE  /\ requests'[b] <= MaxRetries + 1
                      /\ IF requests[b] = 0 THEN b = "without" /\ answer = "rejected"
                                            ELSE answer \in Retryable
    OBVIOUS
  <2>1. RetryStep
    BY EveryStepIsOne
  <2>2. CASE Resent /\ phase = "errorbody"
    BY <2>2, BoundsAssumption DEF Resent, RetryInv, RetryType, Bodies
  <2>3. CASE Retried
    BY <2>3, BoundsAssumption DEF Retried, RetryInv, RetryType, Bodies
  <2> QED  BY <2>1, <2>2, <2>3 DEF RetryStep, Quiet, Settled, Slept, BodyAwaited
<1> QED  BY <1>1, RetryInvHolds, PTL DEF Spec, RequestsAreWarranted

-----------------------------------------------------------------------------
(* Calls in their order, and what a consumer has been given.               *)

(* Calls are completed in their order: the one with k smaller ones comes   *)
(* at place k + 1.                                                         *)
Rank(S, c) == Cardinality({d \in S : d < c})

LEMMA RankProperties ==
  ASSUME NEW S \in SUBSET Calls, NEW c \in S
  PROVE  /\ IsFiniteSet(S) /\ Cardinality(S) \in Nat
         /\ Rank(S, c) \in Nat /\ Rank(S, c) \in 0 .. Cardinality(S) - 1
         /\ \A e \in S : c < e => Rank(S, c) < Rank(S, e)
<1>1. IsFiniteSet(S) /\ S \subseteq Nat
  BY CallsAssumption, FS_Subset
<1>2. Cardinality(S) \in Nat
  BY <1>1, FS_CardinalityType
<1>3. ASSUME NEW T \in SUBSET S PROVE IsFiniteSet(T) /\ Cardinality(T) \in Nat
  BY <1>1, FS_Subset, FS_CardinalityType
<1>4. ASSUME NEW T \in SUBSET S, NEW U \in SUBSET T, NEW x \in T, x \notin U
      PROVE  Cardinality(U) < Cardinality(T)
  <2>1. IsFiniteSet(T) /\ Cardinality(T) \in Nat /\ Cardinality(U) \in Nat
    BY <1>3, <1>4
  <2>2. Cardinality(U) <= Cardinality(T) /\ (Cardinality(T) = Cardinality(U) => T = U)
    BY <2>1, FS_Subset
  <2> QED BY <1>4, <2>1, <2>2
<1>5. Rank(S, c) \in Nat /\ Rank(S, c) < Cardinality(S)
  <2> DEFINE U == {d \in S : d < c}
  <2>1. U \in SUBSET S /\ c \notin U
    BY <1>1
  <2>2. Cardinality(U) < Cardinality(S) /\ Cardinality(U) \in Nat
    BY <1>3, <1>4, <2>1
  <2> QED BY <2>2 DEF Rank
<1>6. ASSUME NEW e \in S, c < e PROVE Rank(S, c) < Rank(S, e)
  <2> DEFINE T == {d \in S : d < e}
             U == {d \in S : d < c}
  <2>1. T \in SUBSET S /\ c \in T /\ c \notin U
    BY <1>1, <1>6
  <2>3. U \in SUBSET T
    <3> SUFFICES ASSUME NEW d \in S, d < c PROVE d < e
      OBVIOUS
    <3>1. d \in Nat /\ c \in Nat /\ e \in Nat
      BY <1>1
    <3> QED BY <3>1, <1>6
  <2>2. Cardinality(U) < Cardinality(T)
    BY <1>4, <2>1, <2>3
  <2> QED BY <2>2 DEF Rank
<1> QED BY <1>1, <1>2, <1>5, <1>6

LEMMA EveryRankIsTaken ==
  ASSUME NEW S \in SUBSET Calls, NEW i \in 1 .. Cardinality(S), Cardinality(S) \in Nat
  PROVE  \E c \in S : Rank(S, c) = i - 1
<1> DEFINE n == Cardinality(S)
           f == [c \in S |-> Rank(S, c)]
<1>1. f \in [S -> 0 .. n - 1]
  BY RankProperties
<1>2. ASSUME NEW a \in S, NEW b \in S, f[a] = f[b] PROVE a = b
  <2>1. a \in Nat /\ b \in Nat
    BY CallsAssumption
  <2>2. ~ (a < b) /\ ~ (b < a)
    BY <1>1, <1>2, RankProperties
  <2> QED BY <2>1, <2>2
<1>3. f \in Injection(S, 0 .. n - 1)
  <2> HIDE DEF f
  <2> QED BY <1>1, <1>2, Fun_IsInj
<1>4. IsFiniteSet(0 .. n - 1) /\ Cardinality(0 .. n - 1) = n
  <2>1. 0 \in Int /\ n - 1 \in Int
    OBVIOUS
  <2> HIDE DEF n
  <2>2. n \in Nat
    BY DEF n
  <2>3. /\ IsFiniteSet(0 .. n - 1)
        /\ Cardinality(0 .. n - 1) = IF 0 > n - 1 THEN 0 ELSE (n - 1) - 0 + 1
    BY <2>1, FS_Interval, Zenon
  <2>4. (IF 0 > n - 1 THEN 0 ELSE (n - 1) - 0 + 1) = n
    BY <2>2
  <2> QED BY <2>3, <2>4
<1>5. f \in Surjection(S, 0 .. n - 1)
  <2> HIDE DEF f
  <2> QED BY <1>3, <1>4, FS_Injection
<1>6. \A k \in 0 .. n - 1 : \E c \in S : f[c] = k
  <2> HIDE DEF f
  <2> QED BY <1>5, Zenon DEF Surjection
<1> QED BY <1>6

LEMMA CompletionsInOrder ==
  ASSUME NEW S \in SUBSET Calls
  PROVE  /\ Completions(S) \in Seq(Events)
         /\ \A i \in 1 .. Len(Completions(S)) :
              \E c \in S : Completions(S)[i] = Complete(c) /\ Rank(S, c) = i - 1
         /\ \A c \in S : \E i \in 1 .. Len(Completions(S)) : Completions(S)[i] = Complete(c)
<1> DEFINE n     == Cardinality(S)
           At(i) == CHOOSE c \in S : Cardinality({d \in S : d < c}) = i - 1
           s     == Completions(S)
<1>1. IsFiniteSet(S) /\ n \in Nat
  <2>1. IsFiniteSet(S)
    BY CallsAssumption, FS_Subset
  <2> QED BY <2>1, FS_CardinalityType
<1>2. s = [i \in 1 .. n |-> Complete(At(i))]
  BY DEF Completions
<1>3. ASSUME NEW i \in 1 .. n PROVE At(i) \in S /\ Rank(S, At(i)) = i - 1
  <2>1. \E c \in S : Cardinality({d \in S : d < c}) = i - 1
    BY <1>1, EveryRankIsTaken DEF Rank
  <2>2. At(i) \in S /\ Cardinality({d \in S : d < At(i)}) = i - 1
    BY <2>1
  <2> QED BY <2>2 DEF Rank
<1>4. \A i \in 1 .. n : Complete(At(i)) \in Events
  BY <1>3 DEF Events
<1> HIDE DEF n, At, s
<1>5. s \in Seq(Events) /\ Len(s) = n
  BY <1>1, <1>2, <1>4
<1>6. \A i \in 1 .. Len(s) : \E c \in S : s[i] = Complete(c) /\ Rank(S, c) = i - 1
  BY <1>2, <1>3, <1>5
<1>7. ASSUME NEW c \in S PROVE \E i \in 1 .. Len(s) : s[i] = Complete(c)
  <2> DEFINE i == Rank(S, c) + 1
  <2>1. i \in 1 .. n /\ i - 1 = Rank(S, c)
    BY <1>1, RankProperties DEF n
  <2>2. At(i) \in S /\ Rank(S, At(i)) = Rank(S, c)
    BY <1>3, <2>1
  <2>3. At(i) = c
    <3>1. At(i) \in Nat /\ c \in Nat
      BY <2>2, CallsAssumption
    <3>2. Rank(S, c) \in Nat
      BY <2>1, RankProperties
    <3> HIDE DEF i
    <3>3. ASSUME At(i) < c PROVE FALSE
      <4>1. Rank(S, At(i)) < Rank(S, c)
        BY <2>2, <3>3, RankProperties
      <4> QED BY <2>2, <3>2, <4>1
    <3>4. ASSUME c < At(i) PROVE FALSE
      <4>1. Rank(S, c) < Rank(S, At(i))
        BY <2>2, <3>4, RankProperties
      <4> QED BY <2>2, <3>2, <4>1
    <3> QED BY <3>1, <3>3, <3>4
  <2>4. s[i] = Complete(c) /\ i \in 1 .. Len(s)
    BY <1>2, <1>5, <2>1, <2>3
  <2> QED BY <2>4
<1> QED BY <1>5, <1>6, <1>7 DEF s

-----------------------------------------------------------------------------
(* What the consumer has been given: these calls, each once; of the counts *)
(* that come once, these at most; a stop of this reason after all calls,   *)
(* or none, but for failures; and how many stops there are.                *)
Told == Normal \cup {Short}

IsComplete(e) == e.type = "complete"
IsStop(e)     == e.type = "stop"
IsUsage(e)    == e.type = "usage"
Ends(e)       == e.type = "stop" /\ e.reason \in Told

Given(o, calls) ==
  /\ \A i \in 1 .. Len(o) : IsComplete(o[i]) => o[i].call \in calls
  /\ \A c \in calls : \E i \in 1 .. Len(o) : o[i] = Complete(c)
  /\ \A i, j \in 1 .. Len(o) : i < j /\ IsComplete(o[i]) => o[i] # o[j]

Used(o, used) ==
  /\ \A i \in 1 .. Len(o) : IsUsage(o[i]) /\ o[i].reason \in Once => o[i].reason \in used
  /\ \A i, j \in 1 .. Len(o) :
       i < j /\ IsUsage(o[i]) /\ IsUsage(o[j]) /\ o[i].reason \in Once => o[i].reason # o[j].reason

Ended(o, reason) ==
  /\ \A i \in 1 .. Len(o) : Ends(o[i]) => o[i].reason = reason
  /\ \A i, j \in 1 .. Len(o) : Ends(o[i]) /\ i < j => ~ Ends(o[j]) /\ ~ IsComplete(o[j])

Stopped(o, stops) ==
  /\ stops = "none" <=> \A i \in 1 .. Len(o) : ~ IsStop(o[i])
  /\ stops = "one" => \A i, j \in 1 .. Len(o) : i < j => ~ (IsStop(o[i]) /\ IsStop(o[j]))

Tidy(o, calls, used, reason, stops) ==
  /\ o \in Seq(Events) /\ calls \subseteq Calls
  /\ Given(o, calls) /\ Used(o, used) /\ Ended(o, reason) /\ Stopped(o, stops)

OneMore(stops) == IF stops = "none" THEN "one" ELSE "some"

LEMMA EventKinds ==
  /\ \A c \in Calls : /\ Complete(c) \in Events /\ IsComplete(Complete(c)) /\ Complete(c).call = c
                      /\ ~ IsStop(Complete(c)) /\ ~ IsUsage(Complete(c))
  /\ \A r \in Told \cup Abnormal : /\ Stop(r) \in Events /\ IsStop(Stop(r)) /\ Stop(r).reason = r
                                   /\ ~ IsComplete(Stop(r)) /\ ~ IsUsage(Stop(r))
  /\ \A k \in Counts : /\ Usage(k) \in Events /\ IsUsage(Usage(k)) /\ Usage(k).reason = k
                       /\ ~ IsComplete(Usage(k)) /\ ~ IsStop(Usage(k))
BY DEF Events, Complete, Stop, Usage, IsComplete, IsStop, IsUsage, Told

LEMMA NothingIsTidy == Tidy(<<>>, {}, {}, "none", "none")
<1>1. Len(<<>>) = 0 /\ <<>> \in Seq(Events)
  BY EmptySeq
<1> QED BY <1>1 DEF Tidy, Given, Used, Ended, Stopped

(* One event more.                                                         *)
LEMMA Appended ==
  ASSUME NEW o \in Seq(Events), NEW e \in Events
  PROVE  /\ o \o <<e>> \in Seq(Events) /\ Len(o \o <<e>>) = Len(o) + 1 /\ Len(o) \in Nat
         /\ \A i \in 1 .. Len(o) : (o \o <<e>>)[i] = o[i]
         /\ (o \o <<e>>)[Len(o) + 1] = e
OBVIOUS

LEMMA TidyStop ==
  ASSUME NEW o, NEW g, NEW u, NEW w, Tidy(o, g, u, "none", w), NEW r \in Told,
         w \in {"none", "one", "some"}
  PROVE  Tidy(o \o <<Stop(r)>>, g, u, r, OneMore(w))
<1> DEFINE e == Stop(r)
           q == o \o <<e>>
           n == Len(o)
<1>1. e \in Events /\ IsStop(e) /\ e.reason = r /\ ~ IsComplete(e) /\ ~ IsUsage(e)
  BY EventKinds
<1>2. o \in Seq(Events) /\ g \subseteq Calls
      /\ Given(o, g) /\ Used(o, u) /\ Ended(o, "none") /\ Stopped(o, w)
  BY DEF Tidy
<1> HIDE DEF e
<1>3. /\ q \in Seq(Events) /\ Len(q) = n + 1 /\ n \in Nat
      /\ \A i \in 1 .. n : q[i] = o[i]
      /\ q[n + 1] = e
  BY <1>1, <1>2, Appended
<1> HIDE DEF q, n
<1>4. Given(q, g)
  BY <1>1, <1>2, <1>3 DEF Given, n
<1>5. Used(q, u)
  BY <1>1, <1>2, <1>3 DEF Used, n
<1>6. Ended(q, r)
  <2>1. \A i \in 1 .. n : ~ Ends(o[i])
    BY <1>2 DEF Ended, Ends, Told, Short, Normal, n
  <2> QED BY <1>1, <1>3, <2>1 DEF Ended, Ends
<1>7. Stopped(q, OneMore(w))
  BY <1>1, <1>2, <1>3 DEF Stopped, OneMore, n
<1> QED BY <1>2, <1>3, <1>4, <1>5, <1>6, <1>7 DEF Tidy, q, e

LEMMA TidyFailure ==
  ASSUME NEW o, NEW g, NEW u, NEW r0, NEW w, Tidy(o, g, u, r0, w), NEW r \in Abnormal,
         w \in {"none", "one", "some"}
  PROVE  Tidy(o \o <<Stop(r)>>, g, u, r0, OneMore(w))
<1> DEFINE e == Stop(r)
           q == o \o <<e>>
           n == Len(o)
<1>1. e \in Events /\ IsStop(e) /\ e.reason = r /\ ~ IsComplete(e) /\ ~ IsUsage(e) /\ ~ Ends(e)
  BY EventKinds DEF Ends, Told, Short, Normal, Abnormal
<1>2. o \in Seq(Events) /\ g \subseteq Calls
      /\ Given(o, g) /\ Used(o, u) /\ Ended(o, r0) /\ Stopped(o, w)
  BY DEF Tidy
<1> HIDE DEF e
<1>3. /\ q \in Seq(Events) /\ Len(q) = n + 1 /\ n \in Nat
      /\ \A i \in 1 .. n : q[i] = o[i]
      /\ q[n + 1] = e
  BY <1>1, <1>2, Appended
<1> HIDE DEF q, n
<1>4. Given(q, g)
  BY <1>1, <1>2, <1>3 DEF Given, n
<1>5. Used(q, u)
  BY <1>1, <1>2, <1>3 DEF Used, n
<1>6. Ended(q, r0)
  BY <1>1, <1>2, <1>3 DEF Ended, n
<1>7. Stopped(q, OneMore(w))
  BY <1>1, <1>2, <1>3 DEF Stopped, OneMore, n
<1> QED BY <1>2, <1>3, <1>4, <1>5, <1>6, <1>7 DEF Tidy, q, e

LEMMA TidyUsage ==
  ASSUME NEW o, NEW g, NEW u, NEW r, NEW w, Tidy(o, g, u, r, w), NEW k \in Counts,
         k \in Once => k \notin u
  PROVE  Tidy(o \o <<Usage(k)>>, g, u \cup ({k} \cap Once), r, w)
<1> DEFINE e == Usage(k)
           q == o \o <<e>>
           n == Len(o)
           v == u \cup ({k} \cap Once)
<1>1. e \in Events /\ ~ IsStop(e) /\ ~ IsComplete(e) /\ IsUsage(e) /\ e.reason = k /\ ~ Ends(e)
  BY EventKinds DEF Ends, IsStop
<1>2. o \in Seq(Events) /\ g \subseteq Calls
      /\ Given(o, g) /\ Used(o, u) /\ Ended(o, r) /\ Stopped(o, w)
  BY DEF Tidy
<1> HIDE DEF e
<1>3. /\ q \in Seq(Events) /\ Len(q) = n + 1 /\ n \in Nat
      /\ \A i \in 1 .. n : q[i] = o[i]
      /\ q[n + 1] = e
  BY <1>1, <1>2, Appended
<1> HIDE DEF q, n
<1>4. Given(q, g)
  BY <1>1, <1>2, <1>3 DEF Given, n
<1>5. Used(q, v)
  <2>1. ASSUME NEW i \in 1 .. Len(q), IsUsage(q[i]), q[i].reason \in Once PROVE q[i].reason \in v
    <3>1. CASE i = n + 1
      BY <1>1, <1>3, <2>1, <3>1
    <3>2. CASE i # n + 1
      <4>1. i \in 1 .. n
        BY <1>3, <3>2
      <4> QED BY <1>2, <1>3, <2>1, <4>1 DEF Used, n
    <3> QED BY <3>1, <3>2
  <2>2. ASSUME NEW i \in 1 .. Len(q), NEW j \in 1 .. Len(q), i < j,
               IsUsage(q[i]), IsUsage(q[j]), q[i].reason \in Once
        PROVE  q[i].reason # q[j].reason
    <3>0. i \in 1 .. n
      BY <1>3, <2>2
    <3>1. CASE j = n + 1
      <4>1. q[i].reason \in u
        BY <1>2, <1>3, <2>2, <3>0 DEF Used, n
      <4> QED BY <1>1, <1>3, <2>2, <3>1, <4>1
    <3>2. CASE j # n + 1
      <4>1. j \in 1 .. n
        BY <1>3, <3>2
      <4> QED BY <1>2, <1>3, <2>2, <3>0, <4>1 DEF Used, n
    <3> QED BY <3>1, <3>2
  <2> HIDE DEF v
  <2> QED BY <2>1, <2>2 DEF Used
<1>6. Ended(q, r)
  <2>1. ASSUME NEW i \in 1 .. Len(q), Ends(q[i]) \/ IsComplete(q[i])
        PROVE  i \in 1 .. n /\ q[i] = o[i]
    BY <1>1, <1>3, <2>1
  <2> QED BY <1>2, <2>1 DEF Ended, n
<1>7. Stopped(q, w)
  <2>1. ASSUME NEW i \in 1 .. Len(q), IsStop(q[i]) PROVE i \in 1 .. n /\ q[i] = o[i]
    BY <1>1, <1>3, <2>1
  <2>2. ASSUME NEW i \in 1 .. n PROVE i \in 1 .. Len(q) /\ q[i] = o[i]
    BY <1>3
  <2> QED BY <1>2, <2>1, <2>2 DEF Stopped, n
<1> HIDE DEF v
<1>8. Tidy(q, g, v, r, w)
  BY <1>2, <1>3, <1>4, <1>5, <1>6, <1>7 DEF Tidy
<1> QED BY <1>8 DEF v, q, e

LEMMA TidyCalls ==
  ASSUME NEW o, NEW g, NEW u, NEW w, Tidy(o, g, u, "none", w),
         NEW S \in SUBSET Calls, S \cap g = {}
  PROVE  Tidy(o \o Completions(S), g \cup S, u, "none", w)
<1> DEFINE s == Completions(S)
           q == o \o s
           n == Len(o)
<1>1. /\ s \in Seq(Events) /\ Len(s) \in Nat
      /\ \A i \in 1 .. Len(s) : \E c \in S : s[i] = Complete(c) /\ Rank(S, c) = i - 1
      /\ \A c \in S : \E i \in 1 .. Len(s) : s[i] = Complete(c)
  BY CompletionsInOrder, LenProperties
<1>2. o \in Seq(Events) /\ g \subseteq Calls
      /\ Given(o, g) /\ Used(o, u) /\ Ended(o, "none") /\ Stopped(o, w)
  BY DEF Tidy
<1> HIDE DEF s
<1>3. /\ q \in Seq(Events) /\ Len(q) = n + Len(s) /\ n \in Nat
      /\ \A i \in 1 .. n : q[i] = o[i]
      /\ \A i \in 1 .. Len(s) : q[n + i] = s[i]
  BY <1>1, <1>2
<1> HIDE DEF q, n
<1>4. ASSUME NEW i \in 1 .. Len(q)
      PROVE  \/ i \in 1 .. n /\ q[i] = o[i]
             \/ i - n \in 1 .. Len(s) /\ q[i] = s[i - n] /\ i > n
  <2>1. CASE i <= n
    BY <1>3, <2>1
  <2>2. CASE i > n
    <3>1. i - n \in 1 .. Len(s) /\ n + (i - n) = i
      BY <1>1, <1>3, <2>2
    <3> QED BY <1>3, <2>2, <3>1
  <2> QED BY <1>3, <2>1, <2>2
<1>5. ASSUME NEW k \in 1 .. Len(s)
      PROVE  s[k] \in Events /\ IsComplete(s[k]) /\ ~ IsStop(s[k]) /\ ~ IsUsage(s[k])
             /\ s[k].call \in S /\ s[k].call \notin g /\ Rank(S, s[k].call) = k - 1
  BY <1>1, EventKinds
<1>6. Given(q, g \cup S)
  <2>1. ASSUME NEW i \in 1 .. Len(q), IsComplete(q[i]) PROVE q[i].call \in g \cup S
    BY <1>2, <1>4, <1>5, <2>1 DEF Given, n
  <2>2. ASSUME NEW c \in g \cup S PROVE \E i \in 1 .. Len(q) : q[i] = Complete(c)
    <3>1. CASE c \in g
      <4>1. PICK i \in 1 .. n : o[i] = Complete(c)
        BY <1>2, <3>1 DEF Given, n
      <4> QED BY <1>1, <1>3, <4>1
    <3>2. CASE c \in S
      <4>1. PICK k \in 1 .. Len(s) : s[k] = Complete(c)
        BY <1>1, <3>2
      <4>2. k \in 1 .. Len(s) /\ q[n + k] = s[k]
        BY <1>3, <4>1
      <4>3. n + k \in 1 .. Len(q)
        BY <1>1, <1>3, <4>1
      <4> QED BY <4>1, <4>2, <4>3
    <3> QED BY <2>2, <3>1, <3>2
  <2>3. ASSUME NEW i \in 1 .. Len(q), NEW j \in 1 .. Len(q), i < j, IsComplete(q[i])
        PROVE  q[i] # q[j]
    <3>1. CASE i \in 1 .. n /\ q[i] = o[i] /\ j \in 1 .. n /\ q[j] = o[j]
      BY <1>2, <2>3, <3>1 DEF Given, n
    <3>2. CASE i \in 1 .. n /\ q[i] = o[i] /\ j - n \in 1 .. Len(s) /\ q[j] = s[j - n]
      <4>1. q[i].call \in g
        BY <1>2, <2>3, <3>2 DEF Given, n
      <4>2. q[j].call \notin g
        BY <1>5, <3>2
      <4> QED BY <4>1, <4>2
    <3>3. CASE i - n \in 1 .. Len(s) /\ q[i] = s[i - n] /\ j - n \in 1 .. Len(s) /\ q[j] = s[j - n]
      <4>1. Rank(S, q[i].call) = (i - n) - 1 /\ Rank(S, q[j].call) = (j - n) - 1
        BY <1>5, <3>3
      <4>2. (i - n) - 1 # (j - n) - 1
        BY <1>3, <2>3
      <4> QED BY <4>1, <4>2
    <3>4. ~ (i > n /\ j \in 1 .. n)
      BY <1>3, <2>3
    <3> QED BY <1>4, <3>1, <3>2, <3>3, <3>4
  <2> QED BY <2>1, <2>2, <2>3 DEF Given
<1>7. Used(q, u)
  <2>1. ASSUME NEW i \in 1 .. Len(q), IsUsage(q[i]) PROVE i \in 1 .. n /\ q[i] = o[i]
    BY <1>4, <1>5, <2>1
  <2> QED BY <1>2, <2>1 DEF Used, n
<1>8. Ended(q, "none")
  <2>1. ASSUME NEW i \in 1 .. Len(q) PROVE ~ Ends(q[i])
    <3>1. CASE i \in 1 .. n /\ q[i] = o[i]
      BY <1>2, <3>1 DEF Ended, Ends, Told, Short, Normal, n
    <3>2. CASE i - n \in 1 .. Len(s) /\ q[i] = s[i - n]
      BY <1>5, <3>2 DEF Ends, IsStop
    <3> QED BY <1>4, <3>1, <3>2
  <2> QED BY <2>1 DEF Ended
<1>9. Stopped(q, w)
  <2>1. ASSUME NEW i \in 1 .. Len(q), IsStop(q[i]) PROVE i \in 1 .. n /\ q[i] = o[i]
    BY <1>4, <1>5, <2>1
  <2>2. ASSUME NEW i \in 1 .. n PROVE i \in 1 .. Len(q) /\ q[i] = o[i]
    BY <1>1, <1>3
  <2> QED BY <1>2, <2>1, <2>2 DEF Stopped, n
<1> QED BY <1>2, <1>3, <1>6, <1>7, <1>8, <1>9 DEF Tidy, q, s

(* Chat Completions gives the calls in their order.                        *)
InOrder(o) ==
  \A i, j \in 1 .. Len(o) : i < j /\ IsComplete(o[i]) /\ IsComplete(o[j]) => o[i].call < o[j].call

LEMMA NoCallsInOrder ==
  ASSUME NEW o, NEW u, NEW r, NEW w, Tidy(o, {}, u, r, w)
  PROVE  InOrder(o)
BY DEF Tidy, Given, InOrder

LEMMA CallsInOrder ==
  ASSUME NEW o, NEW u, NEW r, NEW w, Tidy(o, {}, u, r, w), NEW S \in SUBSET Calls
  PROVE  InOrder(o \o Completions(S))
<1> DEFINE s == Completions(S)
           q == o \o s
           n == Len(o)
<1>1. /\ s \in Seq(Events) /\ Len(s) \in Nat
      /\ \A i \in 1 .. Len(s) : \E c \in S : s[i] = Complete(c) /\ Rank(S, c) = i - 1
  BY CompletionsInOrder, LenProperties
<1>2. o \in Seq(Events) /\ \A i \in 1 .. n : ~ IsComplete(o[i])
  BY DEF Tidy, Given
<1> HIDE DEF s
<1>3. /\ Len(q) = n + Len(s) /\ n \in Nat
      /\ \A i \in 1 .. n : q[i] = o[i]
      /\ \A i \in 1 .. Len(s) : q[n + i] = s[i]
  BY <1>1, <1>2
<1> HIDE DEF q, n
<1>4. ASSUME NEW i \in 1 .. Len(q), IsComplete(q[i])
      PROVE  \E c \in S : q[i].call = c /\ c \in Nat /\ Rank(S, c) = i - n - 1
  <2>1. ~ (i <= n)
    BY <1>2, <1>3, <1>4
  <2>2. i - n \in 1 .. Len(s) /\ n + (i - n) = i
    BY <1>1, <1>3, <2>1
  <2>3. q[i] = s[i - n]
    BY <1>3, <2>2
  <2>4. PICK c \in S : s[i - n] = Complete(c) /\ Rank(S, c) = (i - n) - 1
    BY <1>1, <2>2
  <2> QED BY <2>3, <2>4, EventKinds, CallsAssumption
<1>5. ASSUME NEW i \in 1 .. Len(q), NEW j \in 1 .. Len(q), i < j,
             IsComplete(q[i]), IsComplete(q[j])
      PROVE  q[i].call < q[j].call
  <2>1. PICK c \in S : q[i].call = c /\ c \in Nat /\ Rank(S, c) = i - n - 1
    BY <1>4, <1>5
  <2>2. PICK d \in S : q[j].call = d /\ d \in Nat /\ Rank(S, d) = j - n - 1
    BY <1>4, <1>5
  <2>3. Rank(S, c) < Rank(S, d)
    BY <1>3, <1>5, <2>1, <2>2
  <2>4. ~ (d < c)
    <3>1. d < c => Rank(S, d) < Rank(S, c)
      BY RankProperties
    <3>2. Rank(S, c) \in Nat /\ Rank(S, d) \in Nat
      BY RankProperties
    <3> QED BY <2>3, <3>1, <3>2
  <2>5. c # d
    <3>1. Rank(S, c) \in Nat
      BY RankProperties
    <3> QED BY <2>3, <3>1
  <2> QED BY <2>1, <2>2, <2>4, <2>5
<1> QED BY <1>5 DEF InOrder, q, s

LEMMA OrderIsKept ==
  ASSUME NEW o \in Seq(Events), NEW e \in Events, ~ IsComplete(e), InOrder(o)
  PROVE  InOrder(o \o <<e>>)
<1> DEFINE q == o \o <<e>>
           n == Len(o)
<1>1. /\ Len(q) = n + 1 /\ n \in Nat
      /\ \A i \in 1 .. n : q[i] = o[i]
      /\ q[n + 1] = e
  BY Appended
<1> HIDE DEF q, n
<1> QED BY <1>1 DEF InOrder, q, n

-----------------------------------------------------------------------------
(* The parser of each API keeps up with its server.                        *)

(* What the parser is told of a turn, and what the server has said of it.  *)
Core(s) == [begun |-> s.begun, closed |-> s.closed, stage |-> s.stage, seq |-> s.seq,
            short |-> s.short, counted |-> s.counted]

Finished == {"stopping", "over"}

Cores == [begun : SUBSET Calls, closed : SUBSET Calls,
          stage : {"calls", "failed"} \cup Finished, seq : Nat,
          short : BOOLEAN, counted : SUBSET Once]

Frames == [type   : {"other", "delta", "done", "added", "item", "completed", "error",
                     "message_start", "start", "stop", "bare", "message_stop", "eof", "broken"},
           calls  : SUBSET Calls,
           reason : Told \cup {"none"},
           seq    : Nat,
           usage  : Counts \cup {"none"}]

(* The reason a turn is told to have stopped for, and the calls that are   *)
(* given of it.                                                            *)
ReasonOf(w, s) ==
  IF s.short /\ ~ (w = "responses" /\ s.begun # {}) THEN Short ELSE Reason(s.begun)

CallsOf(w, s) == IF w = "responses" /\ s.short THEN s.closed ELSE s.begun

(* The server's part of the turn from s to t, in the frame f: what all     *)
(* APIs have in common, and each of them.                                  *)
Ticks(s, f, t) ==
  /\ t.short = (s.short \/ f.reason = Short)
  /\ t.counted = s.counted \cup ({f.usage} \cap Once)

ChatSays(s, f, t) ==
  /\ t.begun = s.begun \cup f.calls
  /\ f.usage \in Once => f.usage \notin s.counted
  /\ \/ /\ f.type = "other" /\ f.calls = {} /\ f.reason = "none" /\ f.usage = "none"
        /\ t.stage = s.stage
     \/ f.type = "delta" /\ f.reason = "none" /\ s.stage = "calls" /\ t.stage = "calls"
     \/ /\ f.type = "delta" /\ f.reason \in {Reason(t.begun), Short}
        /\ s.stage = "calls" /\ t.stage = "stopping"
     \/ /\ f.type = "delta" /\ f.reason = "none" /\ f.calls = {}
        /\ s.stage = "stopping" /\ t.stage = "stopping"
     \/ /\ f.type = "done" /\ f.calls = {} /\ f.reason = "none" /\ f.usage = "none"
        /\ s.stage \in {"calls", "stopping"} /\ t.stage = "over"

Announces == {"added", "item", "completed", "error"}

ResponsesSays(s, f, t) ==
  \/ f.type = "other" /\ f.seq = 0 /\ t = s
  \/ /\ f.type = "done" /\ f.seq = 0 /\ t = [s EXCEPT !.stage = "over"]
     /\ s.stage = "stopping" \/ (s.stage = "calls" /\ s.begun = s.closed)
  \/ f.type \in Announces /\ f.seq \in 1 .. s.seq /\ t = s
  \/ /\ f.type \in Announces /\ s.stage = "calls" /\ f.seq = s.seq + 1 /\ t.seq = f.seq
     /\ \/ /\ f.type = "added" /\ f.calls # {} /\ f.reason = "none" /\ t.stage = "calls"
           /\ t.begun = s.begun \cup f.calls /\ t.closed = s.closed
        \/ /\ f.type = "item" /\ f.calls \subseteq s.begun \ s.closed /\ f.reason = "none"
           /\ t.stage = "calls" /\ t.begun = s.begun /\ t.closed = s.closed \cup f.calls
        \/ /\ f.type = "completed" /\ f.reason = "none" /\ s.begun \subseteq f.calls
           /\ t.stage = "stopping" /\ t.begun = f.calls /\ t.closed = f.calls
        \/ /\ f.type = "completed" /\ f.reason = Short /\ s.closed \subseteq f.calls
           /\ t.stage = "stopping" /\ t.begun = s.begun \cup f.calls /\ t.closed = f.calls
        \/ /\ f.type = "error" /\ f.reason = "none" /\ t.stage = "failed"
           /\ t.begun = s.begun /\ t.closed = s.closed

MessagesSays(s, f, t) ==
  \/ f.type = "other" /\ t = s
  \/ /\ f.type = "message_start" /\ f.usage = "start" /\ "start" \notin s.counted
     /\ f.reason = "none" /\ s.begun = s.closed /\ s.stage = "calls"
     /\ t.stage = "calls" /\ t.begun = s.begun /\ t.closed = s.begun
  \/ \E c \in Calls \ s.begun :
       /\ f.type = "start" /\ f.calls = {c} /\ f.reason = "none" /\ f.usage = "none"
       /\ s.begun = s.closed /\ s.stage = "calls"
       /\ t.stage = "calls" /\ t.begun = s.begun \cup {c} /\ t.closed = s.closed
  \/ \E c \in s.begun \ s.closed :
       /\ f.type = "stop" /\ f.calls = {c} /\ f.reason = "none" /\ f.usage = "none"
       /\ t.stage = "calls" /\ t.begun = s.begun /\ t.closed = s.begun
  \/ /\ f.type = "delta" /\ f.reason = "none" /\ f.usage = "none"
     /\ s.begun = s.closed /\ s.stage = "calls"
     /\ t.stage = "calls" /\ t.begun = s.begun /\ t.closed = s.begun
  \/ /\ f.type \in {"delta", "bare"} /\ f.reason \in {Reason(s.begun), Short}
     /\ s.begun = s.closed /\ s.stage = "calls"
     /\ t.stage = "stopping" /\ t.begun = s.begun /\ t.closed = s.begun
  \/ /\ f.type = "message_stop" /\ f.reason = "none" /\ s.stage = "stopping"
     /\ t.stage = "over" /\ t.begun = s.begun /\ t.closed = s.begun
  \/ /\ f.type = "error" /\ f.reason = "none" /\ f.usage = "none"
     /\ t.begun = s.begun /\ t.closed = s.closed
     /\ \/ s.stage = "calls" /\ t.stage = "failed"
        \/ s.stage = "stopping" /\ t.stage = "over"

-----------------------------------------------------------------------------
(* What a parser that has taken every frame up to s holds, and has given.  *)
ChatMatch(s, p, o) ==
  \/ /\ s.stage = "calls" /\ ~ s.short /\ ~ p.stopped /\ p.open = s.begun
     /\ Tidy(o, {}, s.counted, "none", "none")
  \/ /\ s.stage \in Finished /\ p.stopped /\ p.open = {}
     /\ Tidy(o, s.begun, s.counted, ReasonOf("chat", s), "one") /\ InOrder(o)

ResponsesMatch(s, p, o) ==
  /\ p.last = s.seq /\ s.closed \subseteq s.begun
  /\ \/ /\ s.stage = "calls" /\ ~ s.short /\ ~ p.stopped
        /\ p.completed = s.closed /\ p.sawTool = (s.begun # {})
        /\ Tidy(o, s.closed, {}, "none", "none")
     \/ /\ s.stage \in Finished /\ p.stopped
        /\ \E u \in SUBSET Once :
             Tidy(o, CallsOf("responses", s), u, ReasonOf("responses", s), "one")
     \/ /\ s.stage = "failed" /\ p.stopped
        /\ Tidy(o, s.closed, {}, "none", "one")

StopCounts == {"none", "one", "some"}

MessagesMatch(s, p, o) ==
  /\ s.closed \subseteq s.begun
  /\ \A c, d \in s.begun \ s.closed : c = d
  /\ p.open = s.begun \ s.closed
  /\ \/ /\ s.stage \in {"calls", "failed"} /\ ~ s.short /\ "total" \notin s.counted
        /\ p.pending = "none"
        /\ \E w \in StopCounts : Tidy(o, s.closed, s.counted, "none", w)
     \/ /\ s.stage \in Finished /\ s.closed = s.begun /\ p.pending = ReasonOf("messages", s)
        /\ \E w \in StopCounts, u \in SUBSET Once : Tidy(o, s.begun, u, "none", w)
     \/ /\ s.stage \in Finished /\ s.closed = s.begun /\ p.pending = "none"
        /\ \E w \in StopCounts, u \in SUBSET Once :
             Tidy(o, s.begun, u, ReasonOf("messages", s), w)

-----------------------------------------------------------------------------
LEMMA NothingMore == ASSUME NEW o \in Seq(Events) PROVE o \o <<>> = o
OBVIOUS

LEMMA InTurn ==
  ASSUME NEW o \in Seq(Events), NEW a \in Seq(Events), NEW b \in Seq(Events)
  PROVE  o \o (a \o b) = (o \o a) \o b
OBVIOUS

LEMMA ReasonIsTold ==
  /\ \A S : Reason(S) \in Told /\ Reason(S) # "none" /\ Reason(S) # Short
  /\ Short \in Told /\ Short # "none"
  /\ \A w, s : ReasonOf(w, s) \in Told /\ ReasonOf(w, s) # "none"
BY DEF Reason, Normal, Told, Short, ReasonOf

(* A turn is told to have stopped for the reason the server gave.          *)
LEMMA ReasonGiven ==
  ASSUME NEW w, w # "responses", NEW s, NEW f, NEW t, ~ s.short, Ticks(s, f, t),
         f.reason \in {Reason(t.begun), Short}
  PROVE  ReasonOf(w, t) = f.reason
BY ReasonIsTold DEF Ticks, ReasonOf

LEMMA ReasonKept ==
  ASSUME NEW w, NEW s, NEW t, t.begun = s.begun, t.short = s.short, t.closed = s.closed
  PROVE  ReasonOf(w, t) = ReasonOf(w, s) /\ CallsOf(w, t) = CallsOf(w, s)
BY DEF ReasonOf, CallsOf

LEMMA OneEvent == \A e \in Events : <<e>> \in Seq(Events)
OBVIOUS

LEMMA TidyIsSeq ==
  ASSUME NEW o, NEW g, NEW u, NEW r, NEW w, Tidy(o, g, u, r, w)
  PROVE  o \in Seq(Events) /\ g \subseteq Calls
BY DEF Tidy

(* A turn of Chat Completions ends: all its calls, and a stop.             *)
LEMMA ChatTurnEnds ==
  ASSUME NEW o, NEW u, Tidy(o, {}, u, "none", "none"), NEW S \in SUBSET Calls, NEW x \in Told
  PROVE  LET q == o \o FinishOpenAiTurn(S, x)
         IN Tidy(q, S, u, x, "one") /\ InOrder(q) /\ FinishOpenAiTurn(S, x) \in Seq(Events)
<1> DEFINE c == Completions(S)
           e == Stop(x)
<1>1. /\ Tidy(o \o c, {} \cup S, u, "none", "none")
      /\ InOrder(o \o c)
  BY TidyCalls, CallsInOrder
<1>2. {} \cup S = S
  OBVIOUS
<1>3. o \in Seq(Events) /\ c \in Seq(Events) /\ e \in Events /\ ~ IsComplete(e) /\ <<e>> \in Seq(Events)
      /\ o \o c \in Seq(Events)
  BY <1>1, TidyIsSeq, CompletionsInOrder, EventKinds, OneEvent
<1>4. Tidy((o \o c) \o <<e>>, S, u, x, OneMore("none"))
  BY <1>1, <1>2, TidyStop
<1>5. InOrder((o \o c) \o <<e>>)
  <2> HIDE DEF c, e
  <2> QED BY <1>1, <1>3, OrderIsKept
<1>6. o \o FinishOpenAiTurn(S, x) = (o \o c) \o <<e>> /\ FinishOpenAiTurn(S, x) \in Seq(Events)
  <2>1. FinishOpenAiTurn(S, x) = c \o <<e>>
    BY DEF FinishOpenAiTurn
  <2> HIDE DEF c, e
  <2>2. c \o <<e>> \in Seq(Events)
    BY <1>3
  <2> QED BY <1>3, <2>1, <2>2, InTurn
<1> QED BY <1>4, <1>5, <1>6 DEF OneMore

(* What a frame of it counts.                                              *)
LEMMA ChatCounts ==
  ASSUME NEW o, NEW g, NEW u, NEW x, NEW w, Tidy(o, g, u, x, w), NEW f \in Frames,
         f.usage \in Once => f.usage \notin u
  PROVE  /\ Tidy(o \o ChatUsage(f), g, u \cup ({f.usage} \cap Once), x, w)
         /\ InOrder(o) => InOrder(o \o ChatUsage(f))
         /\ ChatUsage(f) \in Seq(Events)
<1>1. o \in Seq(Events) /\ f.usage \in Counts \cup {"none"}
  BY TidyIsSeq DEF Frames
<1>2. CASE f.usage = "none"
  <2>1. ChatUsage(f) = <<>> /\ o \o <<>> = o /\ <<>> \in Seq(Events)
    BY <1>1, <1>2, NothingMore, EmptySeq DEF ChatUsage
  <2>2. u \cup ({f.usage} \cap Once) = u
    BY <1>2 DEF Once
  <2> QED BY <2>1, <2>2
<1>3. CASE f.usage # "none"
  <2>1. ChatUsage(f) = <<Usage(f.usage)>> /\ f.usage \in Counts
    BY <1>1, <1>3 DEF ChatUsage
  <2>2. Usage(f.usage) \in Events /\ ~ IsComplete(Usage(f.usage)) /\ <<Usage(f.usage)>> \in Seq(Events)
    BY <2>1, EventKinds, OneEvent
  <2>3. Tidy(o \o <<Usage(f.usage)>>, g, u \cup ({f.usage} \cap Once), x, w)
    BY <2>1, TidyUsage
  <2>4. InOrder(o) => InOrder(o \o <<Usage(f.usage)>>)
    BY <1>1, <2>2, OrderIsKept
  <2> QED BY <2>1, <2>2, <2>3, <2>4
<1> QED BY <1>2, <1>3

LEMMA ResultFields == \A p, es : Result(p, es).parser = p /\ Result(p, es).events = es
BY DEF Result

LEMMA ChatMatches ==
  ASSUME NEW s \in Cores, NEW f \in Frames, NEW t \in Cores, ChatSays(s, f, t), Ticks(s, f, t),
         NEW p \in ParserType, NEW o, ChatMatch(s, p, o)
  PROVE  LET r == ParseOpenAiSse(p, f)
         IN r.parser \in ParserType /\ ChatMatch(t, r.parser, o \o r.events)
<1> DEFINE r == ParseOpenAiSse(p, f)
<1>0. /\ f.reason = "none" => t.short = s.short
      /\ f.usage = "none" => t.counted = s.counted
      /\ f.usage \in Once => f.usage \notin s.counted
      /\ t.counted = s.counted \cup ({f.usage} \cap Once)
      /\ t.begun \in SUBSET Calls /\ t.begun = s.begun \cup f.calls
      /\ "calls" \notin Finished /\ "stopping" \in Finished /\ "over" \in Finished
  BY ReasonIsTold DEF Ticks, ChatSays, Once, Finished, Cores
<1>1. CASE f.type = "other" /\ f.calls = {} /\ f.reason = "none" /\ f.usage = "none" /\ t.stage = s.stage
  <2>1. r = Result(p, <<>>)
    BY <1>1 DEF ParseOpenAiSse
  <2>2. t.short = s.short /\ t.counted = s.counted /\ t.begun = s.begun /\ o \in Seq(Events)
    BY <1>0, <1>1, TidyIsSeq DEF ChatMatch
  <2>3. o \o <<>> = o
    BY <2>2, NothingMore
  <2>4. ReasonOf("chat", t) = ReasonOf("chat", s)
    BY <2>2 DEF ReasonOf
  <2>5. ChatMatch(t, p, o)
    BY <1>1, <2>2, <2>4 DEF ChatMatch
  <2>6. r.parser = p /\ o \o r.events = o
    BY <2>1, <2>3, ResultFields
  <2> QED BY <2>5, <2>6
<1>2. CASE f.type = "delta" /\ f.reason = "none" /\ s.stage = "calls" /\ t.stage = "calls"
  <2> DEFINE q == [p EXCEPT !.open = p.open \cup f.calls]
  <2>1. r = Result(q, ChatUsage(f))
    BY <1>2 DEF ParseOpenAiSse, ParseOneOpenAi
  <2>2. Tidy(o, {}, s.counted, "none", "none") /\ p.open = s.begun /\ ~ p.stopped /\ ~ s.short
    BY <1>0, <1>2 DEF ChatMatch
  <2>3. q \in ParserType /\ q.open = t.begun /\ ~ q.stopped
    BY <1>0, <2>2 DEF ParserType
  <2>4. Tidy(o \o ChatUsage(f), {}, t.counted, "none", "none")
    BY <1>0, <2>2, ChatCounts
  <2>5. ChatMatch(t, q, o \o ChatUsage(f))
    BY <1>0, <1>2, <2>2, <2>3, <2>4 DEF ChatMatch
  <2> HIDE DEF q
  <2>6. r.parser = q /\ r.events = ChatUsage(f)
    BY <2>1, ResultFields
  <2> QED BY <2>3, <2>5, <2>6
<1>3. CASE f.type = "delta" /\ f.reason \in {Reason(t.begun), Short} /\ s.stage = "calls" /\ t.stage = "stopping"
  <2> DEFINE q == [p EXCEPT !.open = {}, !.stopped = TRUE]
             e == FinishOpenAiTurn(t.begun, f.reason)
  <2>2. Tidy(o, {}, s.counted, "none", "none") /\ p.open = s.begun /\ ~ s.short
    BY <1>0, <1>3 DEF ChatMatch
  <2>3. f.reason # "none" /\ f.reason \in Told /\ t.begun = p.open \cup f.calls
    BY <1>0, <1>3, <2>2, ReasonIsTold
  <2>1. r = Result(q, e \o ChatUsage(f))
    BY <1>3, <2>3 DEF ParseOpenAiSse, ParseOneOpenAi
  <2>4. q \in ParserType /\ q.open = {} /\ q.stopped
    BY DEF ParserType
  <2>5. Tidy(o \o e, t.begun, s.counted, f.reason, "one") /\ InOrder(o \o e) /\ e \in Seq(Events)
    BY <1>0, <2>2, <2>3, ChatTurnEnds
  <2>6. ReasonOf("chat", t) = f.reason
    BY <1>3, <2>2, ReasonGiven
  <2> HIDE DEF q, e
  <2>7. /\ Tidy((o \o e) \o ChatUsage(f), t.begun, t.counted, ReasonOf("chat", t), "one")
        /\ InOrder((o \o e) \o ChatUsage(f))
        /\ ChatUsage(f) \in Seq(Events)
    BY <1>0, <2>5, <2>6, ChatCounts
  <2>8. o \o (e \o ChatUsage(f)) = (o \o e) \o ChatUsage(f)
    BY <2>2, <2>5, <2>7, TidyIsSeq, InTurn
  <2>9. ChatMatch(t, q, o \o (e \o ChatUsage(f)))
    BY <1>0, <1>3, <2>4, <2>7, <2>8 DEF ChatMatch
  <2> QED BY <2>1, <2>4, <2>9, ResultFields
<1>4. CASE /\ f.type = "delta" /\ f.reason = "none" /\ f.calls = {}
           /\ s.stage = "stopping" /\ t.stage = "stopping"
  <2> DEFINE q == [p EXCEPT !.open = p.open \cup f.calls]
  <2>1. r = Result(q, ChatUsage(f))
    BY <1>4 DEF ParseOpenAiSse, ParseOneOpenAi
  <2>2. /\ Tidy(o, s.begun, s.counted, ReasonOf("chat", s), "one") /\ InOrder(o)
        /\ p.open = {} /\ p.stopped
    BY <1>0, <1>4 DEF ChatMatch
  <2>3. q \in ParserType /\ q.open = {} /\ q.stopped
    BY <1>4, <2>2 DEF ParserType
  <2>4. t.begun = s.begun /\ ReasonOf("chat", t) = ReasonOf("chat", s)
    BY <1>0, <1>4 DEF ReasonOf
  <2> DEFINE x == ReasonOf("chat", s)
             v == s.counted \cup ({f.usage} \cap Once)
  <2>8. Tidy(o, s.begun, s.counted, x, "one") /\ x = ReasonOf("chat", t) /\ v = t.counted
    BY <1>0, <2>2, <2>4
  <2> HIDE DEF x
  <2>9. Tidy(o \o ChatUsage(f), s.begun, v, x, "one")
        /\ (InOrder(o) => InOrder(o \o ChatUsage(f)))
    BY <1>0, <2>8, ChatCounts
  <2> HIDE DEF v
  <2>5. Tidy(o \o ChatUsage(f), t.begun, t.counted, ReasonOf("chat", t), "one")
        /\ InOrder(o \o ChatUsage(f))
    BY <2>2, <2>4, <2>8, <2>9
  <2>6. ChatMatch(t, q, o \o ChatUsage(f))
    BY <1>0, <1>4, <2>3, <2>5 DEF ChatMatch
  <2> HIDE DEF q
  <2>7. r.parser = q /\ r.events = ChatUsage(f)
    BY <2>1, ResultFields
  <2> QED BY <2>3, <2>6, <2>7
<1>5. CASE /\ f.type = "done" /\ f.calls = {} /\ f.reason = "none" /\ f.usage = "none"
           /\ s.stage = "calls" /\ t.stage = "over"
  <2> DEFINE q == [p EXCEPT !.open = {}, !.stopped = TRUE]
  <2>2. Tidy(o, {}, s.counted, "none", "none") /\ p.open = s.begun /\ ~ p.stopped /\ ~ s.short
    BY <1>0, <1>5 DEF ChatMatch
  <2>3. t.begun = p.open /\ t.counted = s.counted /\ ReasonOf("chat", t) = Reason(t.begun)
    BY <1>0, <1>5, <2>2 DEF ReasonOf
  <2>1. r = Result(q, FinishOpenAiTurn(t.begun, Reason(t.begun)))
    BY <1>5, <2>2, <2>3 DEF ParseOpenAiSse, ChatDone
  <2>4. q \in ParserType /\ q.open = {} /\ q.stopped
    BY DEF ParserType
  <2>6. Reason(t.begun) \in Told
    BY ReasonIsTold
  <2> DEFINE e == FinishOpenAiTurn(t.begun, Reason(t.begun))
  <2>7. Tidy(o \o e, t.begun, s.counted, Reason(t.begun), "one") /\ InOrder(o \o e)
    BY <1>0, <2>2, <2>6, ChatTurnEnds
  <2> HIDE DEF q, e
  <2>5. ChatMatch(t, q, o \o e)
    BY <1>0, <1>5, <2>3, <2>4, <2>7 DEF ChatMatch
  <2> USE DEF e
  <2> QED BY <2>1, <2>4, <2>5, ResultFields
<1>6. CASE /\ f.type = "done" /\ f.calls = {} /\ f.reason = "none" /\ f.usage = "none"
           /\ s.stage = "stopping" /\ t.stage = "over"
  <2>1. t.begun = s.begun /\ t.counted = s.counted /\ ReasonOf("chat", t) = ReasonOf("chat", s)
    BY <1>0, <1>6 DEF ReasonOf
  <2>2. ChatMatch(t, p, o) /\ p.stopped /\ o \in Seq(Events)
    BY <1>0, <1>6, <2>1, TidyIsSeq DEF ChatMatch
  <2>3. r = Result(p, <<>>)
    BY <1>6, <2>2 DEF ParseOpenAiSse, ChatDone
  <2>4. o \o <<>> = o
    BY <2>2, NothingMore
  <2>5. r.parser = p /\ o \o r.events = o
    BY <2>3, <2>4, ResultFields
  <2> QED BY <2>2, <2>5
<1> QED BY <1>1, <1>2, <1>3, <1>4, <1>5, <1>6 DEF ChatSays

LEMMA ResponsesMatches ==
  ASSUME NEW s \in Cores, NEW f \in Frames, NEW t \in Cores, ResponsesSays(s, f, t),
         Ticks(s, f, t),
         NEW p \in ParserType, NEW o, ResponsesMatch(s, p, o)
  PROVE  LET r == ParseResponsesSse(p, f)
         IN r.parser \in ParserType /\ ResponsesMatch(t, r.parser, o \o r.events)
<1> DEFINE r == ParseResponsesSse(p, f)
<1>1. s.seq \in Nat /\ p.last = s.seq /\ s.closed \subseteq s.begun /\ o \in Seq(Events)
  BY TidyIsSeq DEF Cores, ResponsesMatch
<1>2. o \o <<>> = o
  BY <1>1, NothingMore
<1>0. f.reason = "none" => t.short = s.short
  <2>1. t.short = (s.short \/ f.reason = Short) /\ s.short \in BOOLEAN /\ t.short \in BOOLEAN
    BY DEF Ticks, Cores
  <2> QED BY <2>1, ReasonIsTold
(* Nothing is said, or what was said before.                               *)
<1>3. ASSUME t = s, \/ f.type = "other" /\ f.seq = 0
                    \/ f.type \in Announces /\ f.seq \in 1 .. s.seq
      PROVE  r.parser \in ParserType /\ ResponsesMatch(t, r.parser, o \o r.events)
  <2>1. r = Result(p, <<>>)
    <3>1. CASE f.type = "other" /\ f.seq = 0
      BY <3>1 DEF ParseResponsesSse, ParseOneResponsesEvent, Replayed
    <3>2. CASE f.type \in Announces /\ f.seq \in 1 .. s.seq
      <4>1. Replayed(p, f) /\ f.type # "done"
        BY <3>2, <1>1 DEF Replayed, Announces
      <4> QED BY <4>1 DEF ParseResponsesSse, ParseOneResponsesEvent
    <3> QED BY <1>3, <3>1, <3>2
  <2>2. r.parser = p /\ o \o r.events = o
    BY <1>2, <2>1, ResultFields
  <2> QED BY <1>3, <2>2
(* [DONE].                                                                 *)
<1>4. ASSUME f.type = "done", f.seq = 0, t = [s EXCEPT !.stage = "over"],
             s.stage = "stopping" \/ (s.stage = "calls" /\ s.begun = s.closed)
      PROVE  r.parser \in ParserType /\ ResponsesMatch(t, r.parser, o \o r.events)
  <2> DEFINE q == [p EXCEPT !.stopped = TRUE]
  <2>1. q \in ParserType /\ q.stopped /\ q.last = p.last
    BY DEF ParserType
  <2>2. t.stage = "over" /\ t.begun = s.begun /\ t.closed = s.closed /\ t.seq = s.seq
        /\ t.short = s.short
    BY <1>4 DEF Cores
  <2>3. r = Result(q, ResponsesStop(p, IF p.sawTool THEN "tools" ELSE "end"))
    BY <1>4 DEF ParseResponsesSse
  <2> HIDE DEF q
  <2>4. CASE s.stage = "stopping"
    <3>1. p.stopped /\ \E u \in SUBSET Once :
                         Tidy(o, CallsOf("responses", s), u, ReasonOf("responses", s), "one")
      BY <2>4 DEF ResponsesMatch
    <3>5. /\ ReasonOf("responses", t) = ReasonOf("responses", s)
          /\ CallsOf("responses", t) = CallsOf("responses", s)
      BY <2>2, ReasonKept
    <3>4. r = Result(q, <<>>)
      BY <2>3, <3>1 DEF ResponsesStop
    <3>2. r.parser = q /\ o \o r.events = o
      BY <1>2, <3>4, ResultFields
    <3>3. ResponsesMatch(t, q, o)
      BY <1>1, <2>1, <2>2, <3>1, <3>5 DEF ResponsesMatch, Finished
    <3> QED BY <2>1, <3>2, <3>3
  <2>5. CASE s.stage = "calls" /\ s.begun = s.closed
    <3>1. ~ p.stopped /\ p.sawTool = (s.begun # {}) /\ Tidy(o, s.begun, {}, "none", "none")
          /\ ~ s.short
      BY <2>5 DEF ResponsesMatch, Finished
    <3>2. r = Result(q, <<Stop(Reason(s.begun))>>)
      BY <2>3, <3>1 DEF ResponsesStop, Reason
    <3>3. r.parser = q /\ r.events = <<Stop(Reason(s.begun))>>
      BY <3>2, ResultFields
    <3>4. Tidy(o \o r.events, s.begun, {}, Reason(s.begun), "one")
      <4>1. Tidy(o \o <<Stop(Reason(s.begun))>>, s.begun, {}, Reason(s.begun), OneMore("none"))
        BY <3>1, TidyStop, ReasonIsTold
      <4> QED BY <3>3, <4>1 DEF OneMore
    <3>6. ReasonOf("responses", t) = Reason(s.begun) /\ CallsOf("responses", t) = s.begun
          /\ {} \in SUBSET Once
      BY <2>2, <3>1 DEF ReasonOf, CallsOf
    <3> HIDE DEF r
    <3>5. ResponsesMatch(t, q, o \o r.events)
      BY <1>1, <2>1, <2>2, <3>4, <3>6 DEF ResponsesMatch, Finished
    <3> QED BY <2>1, <3>3, <3>5
  <2> QED BY <1>4, <2>4, <2>5
(* A frame that is new.                                                    *)
<1>5. ASSUME f.type \in Announces, s.stage = "calls", f.seq = s.seq + 1, t.seq = f.seq
      PROVE  /\ ~ p.stopped /\ p.completed = s.closed /\ p.sawTool = (s.begun # {})
             /\ Tidy(o, s.closed, {}, "none", "none") /\ ~ s.short
             /\ f.type # "done" /\ ~ Replayed(p, f) /\ f.seq # 0 /\ f.seq \in Nat
  <2>1. s.stage \notin Finished /\ s.stage # "failed" /\ f.type # "done"
    BY <1>5 DEF Finished, Announces
  <2>2. f.seq \in Nat /\ f.seq # 0 /\ ~ (f.seq <= p.last)
    BY <1>1, <1>5
  <2> QED BY <1>5, <2>1, <2>2 DEF ResponsesMatch, Replayed
<1> DEFINE q == [p EXCEPT !.last = f.seq]
<1>6. /\ q \in ParserType /\ q.last = f.seq /\ q.completed = p.completed /\ q.sawTool = p.sawTool
      /\ q.stopped = p.stopped
  BY DEF ParserType, Frames
<1> HIDE DEF q
<1>7. ASSUME f.seq # 0, f.type # "done" PROVE r = ParseOneResponsesEvent(p, f) /\ q = IF f.seq = 0 THEN p ELSE [p EXCEPT !.last = f.seq]
  BY <1>7 DEF ParseResponsesSse, q
<1>8. ASSUME s.stage = "calls", f.seq = s.seq + 1, t.seq = f.seq,
             f.type = "added", f.calls # {}, f.reason = "none", t.stage = "calls",
             t.begun = s.begun \cup f.calls, t.closed = s.closed
      PROVE  r.parser \in ParserType /\ ResponsesMatch(t, r.parser, o \o r.events)
  <2> DEFINE v == [q EXCEPT !.sawTool = TRUE]
  <2>1. /\ ~ p.stopped /\ p.completed = s.closed /\ ~ Replayed(p, f) /\ f.seq # 0
        /\ Tidy(o, s.closed, {}, "none", "none") /\ ~ s.short
    BY <1>5, <1>8 DEF Announces
  <2>2. r = Result(v, <<>>)
    BY <1>7, <1>8, <2>1 DEF ParseOneResponsesEvent
  <2>3. v \in ParserType /\ v.sawTool /\ v.last = q.last /\ v.completed = q.completed /\ v.stopped = q.stopped
    BY <1>6 DEF ParserType
  <2> HIDE DEF v
  <2>4. r.parser = v /\ o \o r.events = o
    BY <1>2, <2>2, ResultFields
  <2> HIDE DEF r
  <2>5. t.begun # {} /\ s.closed \subseteq t.begun
    BY <1>1, <1>8
  <2>6. ResponsesMatch(t, v, o)
    BY <1>0, <1>6, <1>8, <2>1, <2>3, <2>5 DEF ResponsesMatch
  <2> QED BY <2>3, <2>4, <2>6
<1>9. ASSUME s.stage = "calls", f.seq = s.seq + 1, t.seq = f.seq,
             f.type = "item", f.calls \subseteq s.begun \ s.closed, f.reason = "none", t.stage = "calls",
             t.begun = s.begun, t.closed = s.closed \cup f.calls
      PROVE  r.parser \in ParserType /\ ResponsesMatch(t, r.parser, o \o r.events)
  <2> DEFINE v == [q EXCEPT !.completed = q.completed \cup f.calls]
  <2>1. /\ ~ p.stopped /\ p.completed = s.closed /\ ~ Replayed(p, f) /\ f.seq # 0
        /\ p.sawTool = (s.begun # {})
        /\ Tidy(o, s.closed, {}, "none", "none") /\ ~ s.short
    BY <1>5, <1>9 DEF Announces
  <2>7. DrainFinalOutput(p, f.calls) = f.calls /\ f.calls \in SUBSET Calls /\ f.calls \cap s.closed = {}
    BY <1>9, <2>1 DEF DrainFinalOutput, Frames
  <2>2. r = Result(v, Completions(f.calls))
    BY <1>7, <1>9, <2>1, <2>7 DEF ParseOneResponsesEvent
  <2>3. v \in ParserType /\ v.sawTool = q.sawTool /\ v.last = q.last /\ v.completed = s.closed \cup f.calls
        /\ v.stopped = q.stopped
    BY <1>6, <2>1, <2>7 DEF ParserType
  <2> HIDE DEF v
  <2>4. r.parser = v /\ r.events = Completions(f.calls)
    BY <2>2, ResultFields
  <2> HIDE DEF r
  <2>5. Tidy(o \o r.events, s.closed \cup f.calls, {}, "none", "none")
    BY <2>1, <2>4, <2>7, TidyCalls
  <2>6. ResponsesMatch(t, v, o \o r.events)
    BY <1>0, <1>1, <1>6, <1>9, <2>1, <2>3, <2>5 DEF ResponsesMatch
  <2> QED BY <2>3, <2>4, <2>6
<1>10. ASSUME s.stage = "calls", f.seq = s.seq + 1, t.seq = f.seq,
              f.type = "completed", f.reason \in {"none", Short}, s.closed \subseteq f.calls,
              f.reason = "none" => s.begun \subseteq f.calls,
              t.stage = "stopping", t.begun = s.begun \cup f.calls, t.closed = f.calls
       PROVE  r.parser \in ParserType /\ ResponsesMatch(t, r.parser, o \o r.events)
  <2> DEFINE left == f.calls \ s.closed
             saw  == q.sawTool \/ left # {}
             v    == [q EXCEPT !.completed = q.completed \cup left, !.sawTool = saw, !.stopped = TRUE]
             c    == Completions(left)
             k    == Usage("total")
             x    == ReasonOf("responses", t)
             e    == Stop(x)
  <2>1. /\ ~ p.stopped /\ p.completed = s.closed /\ ~ Replayed(p, f) /\ f.seq # 0
        /\ p.sawTool = (s.begun # {})
        /\ Tidy(o, s.closed, {}, "none", "none") /\ ~ s.short
    BY <1>5, <1>10 DEF Announces
  <2>2. DrainFinalOutput(q, f.calls) = left /\ left \in SUBSET Calls /\ left \cap s.closed = {}
        /\ s.closed \cup left = f.calls
    BY <1>1, <1>6, <1>10, <2>1 DEF DrainFinalOutput, Frames
  <2>13. (t.short <=> f.reason = Short) /\ (~ t.short => f.reason = "none")
    BY <1>10, <2>1 DEF Ticks
  <2>3. ResponseStopReason(saw, f.reason) = x
    <3>1. saw <=> t.begun # {}
      BY <1>1, <1>6, <1>10, <2>1
    <3> HIDE DEF saw
    <3> QED BY <1>10, <2>13, <3>1 DEF Reason, ReasonOf, ResponseStopReason
  <2>14. CallsOf("responses", t) = f.calls /\ t.closed \subseteq t.begun
    BY <1>10, <2>13 DEF CallsOf
  <2>4. v \in ParserType /\ v.stopped /\ v.last = q.last
    BY <1>6, <2>2 DEF ParserType
  <2>5. r = ResponseCompleted(q, f)
    BY <1>7, <1>10, <2>1 DEF ParseOneResponsesEvent
  <2>6. r = Result(v, c \o <<k>> \o <<e>>)
    <3> HIDE DEF c, e, r, k, x
    <3>1. ResponsesStop(q, ResponseStopReason(saw, f.reason)) = <<e>>
      BY <1>6, <2>1, <2>3 DEF ResponsesStop, e
    <3> QED BY <2>2, <2>5, <3>1 DEF ResponseCompleted, c, k
  <2>7. r.parser = v /\ r.events = c \o <<k>> \o <<e>>
    <3> HIDE DEF v, c, e, r, k
    <3> QED BY <2>6, ResultFields
  <2>8. Tidy(o \o c, f.calls, {}, "none", "none")
    <3> HIDE DEF left
    <3>1. Tidy(o \o Completions(left), s.closed \cup left, {}, "none", "none")
      BY <2>1, <2>2, TidyCalls
    <3> QED BY <2>2, <3>1
  <2>9. Tidy((o \o c) \o <<k>>, f.calls, {"total"}, "none", "none")
    <3>1. "total" \in Counts /\ "total" \notin {} /\ {} \cup ({"total"} \cap Once) = {"total"}
      BY DEF Counts, Once
    <3>2. Tidy((o \o c) \o <<k>>, f.calls, {} \cup ({"total"} \cap Once), "none", "none")
      <4> HIDE DEF c
      <4> QED BY <2>8, <3>1, TidyUsage
    <3> HIDE DEF c, k
    <3> QED BY <3>1, <3>2
  <2>15. x \in Told
    BY ReasonIsTold
  <2>10. Tidy(((o \o c) \o <<k>>) \o <<e>>, f.calls, {"total"}, x, "one")
    <3>1. Tidy(((o \o c) \o <<k>>) \o <<e>>, f.calls, {"total"}, x, OneMore("none"))
      <4> HIDE DEF c, k, x
      <4> QED BY <2>9, <2>15, TidyStop
    <3> HIDE DEF c, k, e, x
    <3> QED BY <3>1 DEF OneMore
  <2>11. o \o r.events = ((o \o c) \o <<k>>) \o <<e>>
    <3>0. k \in Events /\ e \in Events
      <4> HIDE DEF x
      <4> QED BY <2>15, EventKinds DEF Counts
    <3>1. c \in Seq(Events) /\ <<k>> \in Seq(Events) /\ <<e>> \in Seq(Events)
      BY <2>2, <3>0, CompletionsInOrder, OneEvent
    <3> HIDE DEF c, e, r, v, k
    <3>2. c \o <<k>> \in Seq(Events)
      BY <3>1
    <3>3. o \o (c \o <<k>> \o <<e>>) = (o \o (c \o <<k>>)) \o <<e>>
      BY <1>1, <3>1, <3>2, InTurn
    <3>4. o \o (c \o <<k>>) = (o \o c) \o <<k>>
      BY <1>1, <3>1, InTurn
    <3> QED BY <2>7, <3>3, <3>4
  <2>16. {"total"} \in SUBSET Once
    BY DEF Once
  <2> HIDE DEF v, c, e, r, k
  <2>12. ResponsesMatch(t, v, o \o r.events)
    BY <1>6, <1>10, <2>4, <2>10, <2>11, <2>14, <2>16 DEF ResponsesMatch, Finished
  <2> QED BY <2>4, <2>7, <2>12
<1>11. ASSUME s.stage = "calls", f.seq = s.seq + 1, t.seq = f.seq,
              f.type = "error", f.reason = "none", t.stage = "failed", t.begun = s.begun, t.closed = s.closed
       PROVE  r.parser \in ParserType /\ ResponsesMatch(t, r.parser, o \o r.events)
  <2> DEFINE v == [q EXCEPT !.stopped = TRUE]
  <2>1. /\ ~ p.stopped /\ ~ Replayed(p, f) /\ f.seq # 0
        /\ Tidy(o, s.closed, {}, "none", "none") /\ ~ s.short
    BY <1>5, <1>11 DEF Announces
  <2>2. r = Result(v, <<Stop("error")>>)
    BY <1>7, <1>11, <2>1 DEF ParseOneResponsesEvent, ResponsesStop
  <2>3. v \in ParserType /\ v.stopped /\ v.last = q.last
    BY <1>6 DEF ParserType
  <2> HIDE DEF v
  <2>4. r.parser = v /\ r.events = <<Stop("error")>>
    BY <2>2, ResultFields
  <2> HIDE DEF r
  <2>5. Tidy(o \o r.events, s.closed, {}, "none", "one")
    <3>1. Tidy(o \o <<Stop("error")>>, s.closed, {}, "none", OneMore("none"))
      BY <2>1, TidyFailure DEF Abnormal
    <3> QED BY <2>4, <3>1 DEF OneMore
  <2>6. ResponsesMatch(t, v, o \o r.events)
    BY <1>1, <1>6, <1>11, <2>3, <2>5 DEF ResponsesMatch
  <2> QED BY <2>3, <2>4, <2>6
<1>12. ASSUME s.stage = "calls", f.seq = s.seq + 1, t.seq = f.seq,
              f.type = "completed", f.reason = "none", s.begun \subseteq f.calls,
              t.stage = "stopping", t.begun = f.calls, t.closed = f.calls
       PROVE  r.parser \in ParserType /\ ResponsesMatch(t, r.parser, o \o r.events)
  <2>1. t.begun = s.begun \cup f.calls /\ s.closed \subseteq f.calls
    BY <1>1, <1>12
  <2> HIDE DEF r
  <2> QED BY <1>10, <1>12, <2>1
<1>13. ASSUME s.stage = "calls", f.seq = s.seq + 1, t.seq = f.seq,
              f.type = "completed", f.reason = Short, s.closed \subseteq f.calls,
              t.stage = "stopping", t.begun = s.begun \cup f.calls, t.closed = f.calls
       PROVE  r.parser \in ParserType /\ ResponsesMatch(t, r.parser, o \o r.events)
  <2>1. Short # "none"
    BY ReasonIsTold
  <2> HIDE DEF r
  <2> QED BY <1>10, <1>13, <2>1
<1> QED BY <1>3, <1>4, <1>8, <1>9, <1>11, <1>12, <1>13 DEF ResponsesSays

LEMMA MessagesMatches ==
  ASSUME NEW s \in Cores, NEW f \in Frames, NEW t \in Cores, MessagesSays(s, f, t),
         Ticks(s, f, t),
         NEW p \in ParserType, NEW o, MessagesMatch(s, p, o)
  PROVE  LET r == ParseOneSse(p, f)
         IN r.parser \in ParserType /\ MessagesMatch(t, r.parser, o \o r.events)
<1> DEFINE r == ParseOneSse(p, f)
<1>1. /\ s.closed \subseteq s.begun /\ p.open = s.begun \ s.closed
      /\ \A c, d \in s.begun \ s.closed : c = d
      /\ o \in Seq(Events)
  BY TidyIsSeq DEF MessagesMatch
<1>2. o \o <<>> = o
  BY <1>1, NothingMore
<1>3. s.stage = "calls" => s.stage \notin Finished /\ s.stage # "failed"
  BY DEF Finished
<1>0. /\ f.reason = "none" => t.short = s.short
      /\ f.usage = "none" => t.counted = s.counted
      /\ t.counted = s.counted \cup ({f.usage} \cap Once)
  <2>1. t.short = (s.short \/ f.reason = Short) /\ s.short \in BOOLEAN /\ t.short \in BOOLEAN
        /\ t.counted = s.counted \cup ({f.usage} \cap Once)
    BY DEF Ticks, Cores
  <2> QED BY <2>1, ReasonIsTold DEF Once
<1>4. CASE f.type = "other" /\ t = s
  <2>1. r = Result(p, <<>>)
    BY <1>4 DEF ParseOneSse
  <2>2. r.parser = p /\ o \o r.events = o
    BY <1>2, <2>1, ResultFields
  <2> QED BY <1>4, <2>2
(* The calls go on.                                                        *)
<1>10. ASSUME s.stage = "calls"
       PROVE  ~ s.short /\ "total" \notin s.counted /\ p.pending = "none"
              /\ \E w \in StopCounts : Tidy(o, s.closed, s.counted, "none", w)
  BY <1>3, <1>10 DEF MessagesMatch
<1>11. ASSUME f.type = "message_start", f.usage = "start", "start" \notin s.counted,
              f.reason = "none", s.begun = s.closed, s.stage = "calls",
              t.stage = "calls", t.begun = s.begun, t.closed = s.begun
       PROVE  r.parser \in ParserType /\ MessagesMatch(t, r.parser, o \o r.events)
  <2>1. r = Result(p, <<Usage("start")>>)
    BY <1>11 DEF ParseOneSse
  <2>2. r.parser = p /\ r.events = <<Usage("start")>>
    BY <2>1, ResultFields
  <2>3. PICK w \in StopCounts : Tidy(o, s.closed, s.counted, "none", w)
    BY <1>10, <1>11
  <2>4. Tidy(o \o <<Usage("start")>>, s.closed, s.counted \cup ({"start"} \cap Once), "none", w)
    BY <1>11, <2>3, TidyUsage DEF Counts
  <2>5. Tidy(o \o r.events, t.closed, t.counted, "none", w)
    BY <1>0, <1>11, <2>2, <2>4
  <2>6. "total" \notin t.counted /\ ~ t.short /\ p.pending = "none"
    BY <1>0, <1>10, <1>11
  <2> HIDE DEF r
  <2>7. MessagesMatch(t, p, o \o r.events)
    BY <1>1, <1>11, <2>5, <2>6 DEF MessagesMatch
  <2> QED BY <2>2, <2>7
<1>12. ASSUME f.type = "delta", f.reason = "none", f.usage = "none",
              s.begun = s.closed, s.stage = "calls",
              t.stage = "calls", t.begun = s.begun, t.closed = s.begun
       PROVE  r.parser \in ParserType /\ MessagesMatch(t, r.parser, o \o r.events)
  <2>1. r = Result(p, <<Usage("sofar")>>)
    BY <1>12 DEF ParseOneSse, MessageDelta
  <2>2. r.parser = p /\ r.events = <<Usage("sofar")>>
    BY <2>1, ResultFields
  <2>3. PICK w \in StopCounts : Tidy(o, s.closed, s.counted, "none", w)
    BY <1>10, <1>12
  <2>8. "sofar" \in Counts /\ "sofar" \notin Once /\ s.counted \cup ({"sofar"} \cap Once) = s.counted
    BY DEF Counts, Once
  <2>4. Tidy(o \o <<Usage("sofar")>>, s.closed, s.counted \cup ({"sofar"} \cap Once), "none", w)
    BY <2>3, <2>8, TidyUsage
  <2>5. Tidy(o \o r.events, t.closed, t.counted, "none", w)
    BY <1>0, <1>12, <2>2, <2>4, <2>8
  <2>6. "total" \notin t.counted /\ ~ t.short /\ p.pending = "none"
    BY <1>0, <1>10, <1>12
  <2> HIDE DEF r
  <2>7. MessagesMatch(t, p, o \o r.events)
    BY <1>1, <1>12, <2>5, <2>6 DEF MessagesMatch
  <2> QED BY <2>2, <2>7
<1>5. ASSUME NEW c \in Calls \ s.begun,
             f.type = "start", f.calls = {c}, f.reason = "none", f.usage = "none",
             s.begun = s.closed, s.stage = "calls",
             t.stage = "calls", t.begun = s.begun \cup {c}, t.closed = s.closed
      PROVE  r.parser \in ParserType /\ MessagesMatch(t, r.parser, o \o r.events)
  <2> DEFINE q == [p EXCEPT !.open = p.open \cup f.calls]
  <2>1. r = Result(q, <<>>)
    BY <1>5 DEF ParseOneSse
  <2>2. q \in ParserType /\ q.open = {c} /\ q.pending = p.pending
    BY <1>1, <1>5 DEF ParserType
  <2> HIDE DEF q
  <2>3. r.parser = q /\ o \o r.events = o
    BY <1>2, <2>1, ResultFields
  <2>4. t.begun \ t.closed = {c} /\ t.closed \subseteq t.begun
    BY <1>5
  <2>5. /\ p.pending = "none" /\ ~ t.short /\ t.counted = s.counted /\ "total" \notin s.counted
        /\ \E w \in StopCounts : Tidy(o, s.closed, s.counted, "none", w)
    BY <1>0, <1>5, <1>10
  <2>6. MessagesMatch(t, q, o)
    BY <1>5, <2>2, <2>4, <2>5 DEF MessagesMatch
  <2> QED BY <2>2, <2>3, <2>6
<1>6. ASSUME NEW c \in s.begun \ s.closed,
             f.type = "stop", f.calls = {c}, f.reason = "none", f.usage = "none",
             t.stage = "calls", t.begun = s.begun, t.closed = s.begun
      PROVE  r.parser \in ParserType /\ MessagesMatch(t, r.parser, o \o r.events)
  <2> DEFINE q == [p EXCEPT !.open = p.open \ f.calls]
  <2>1. p.open \cap f.calls = {c} /\ p.open \ f.calls = {} /\ {c} \in SUBSET Calls
        /\ s.closed \cup {c} = s.begun /\ {c} \cap s.closed = {}
    BY <1>1, <1>6 DEF Cores
  <2>2. r = Result(q, Completions({c}))
    BY <1>6, <2>1 DEF ParseOneSse
  <2>3. q \in ParserType /\ q.open = {} /\ q.pending = p.pending
    BY <2>1 DEF ParserType
  <2> HIDE DEF q
  <2>4. r.parser = q /\ r.events = Completions({c})
    BY <2>2, ResultFields
  <2>9. s.closed # s.begun
    BY <1>6
  <2>5. PICK w \in StopCounts : Tidy(o, s.closed, s.counted, "none", w) /\ p.pending = "none"
                                /\ ~ s.short /\ "total" \notin s.counted
    BY <2>9 DEF MessagesMatch
  <2>6. Tidy(o \o Completions({c}), s.closed \cup {c}, s.counted, "none", w)
    BY <2>1, <2>5, TidyCalls
  <2>7. Tidy(o \o r.events, t.closed, t.counted, "none", w)
        /\ ~ t.short /\ "total" \notin t.counted
    BY <1>0, <1>6, <2>1, <2>4, <2>5, <2>6
  <2> HIDE DEF r
  <2>8. MessagesMatch(t, q, o \o r.events)
    BY <1>6, <2>3, <2>5, <2>7 DEF MessagesMatch
  <2> QED BY <2>3, <2>4, <2>8
(* The end of the turn.                                                    *)
<1>7. ASSUME f.type \in {"delta", "bare"}, f.reason \in {Reason(s.begun), Short},
             s.begun = s.closed, s.stage = "calls",
             t.stage = "stopping", t.begun = s.begun, t.closed = s.begun
      PROVE  r.parser \in ParserType /\ MessagesMatch(t, r.parser, o \o r.events)
  <2>1. PICK w \in StopCounts : Tidy(o, s.begun, s.counted, "none", w)
    BY <1>7, <1>10
  <2>2. t.begun \ t.closed = {} /\ t.closed \subseteq t.begun /\ p.open = {} /\ t.stage \in Finished
        /\ f.reason \in Told /\ f.reason # "none" /\ p.pending = "none"
        /\ s.counted \in SUBSET Once /\ "total" \notin s.counted
    BY <1>1, <1>7, <1>10, ReasonIsTold DEF Finished, Cores
  <2>0. ReasonOf("messages", t) = f.reason
    BY <1>7, <1>10, ReasonGiven
  <2> DEFINE x == f.reason
  <2>3. CASE f.type = "delta"
    <3> DEFINE q == [p EXCEPT !.pending = f.reason]
               u == s.counted \cup ({"total"} \cap Once)
    <3>1. r = Result(q, <<Usage("total")>>)
      BY <2>2, <2>3 DEF ParseOneSse, MessageDelta
    <3>2. q \in ParserType /\ q.open = {} /\ q.pending = f.reason
      BY <2>2 DEF ParserType, Told
    <3> HIDE DEF q
    <3>3. r.parser = q /\ r.events = <<Usage("total")>>
      BY <3>1, ResultFields
    <3>4. Tidy(o \o <<Usage("total")>>, s.begun, u, "none", w)
      BY <2>1, <2>2, TidyUsage DEF Counts
    <3>5. u \in SUBSET Once
      BY <2>2
    <3> HIDE DEF r, u
    <3>6. Tidy(o \o r.events, t.begun, u, "none", w)
      BY <1>7, <3>3, <3>4
    <3>7. MessagesMatch(t, q, o \o r.events)
      BY <1>7, <2>0, <2>2, <3>2, <3>5, <3>6 DEF MessagesMatch
    <3> QED BY <3>2, <3>3, <3>7
  <2>4. CASE f.type = "bare"
    <3>1. r = Result(p, <<Stop(x)>>)
      BY <2>4 DEF ParseOneSse, MessageDelta
    <3>2. x \in Told
      BY <2>2
    <3> HIDE DEF x
    <3>3. r.parser = p /\ r.events = <<Stop(x)>>
      BY <3>1, ResultFields
    <3>4. Tidy(o \o <<Stop(x)>>, s.begun, s.counted, x, OneMore(w))
      <4>1. w \in {"none", "one", "some"}
        BY DEF StopCounts
      <4> QED BY <2>1, <3>2, <4>1, TidyStop
    <3>5. OneMore(w) \in StopCounts
      BY DEF OneMore, StopCounts
    <3> HIDE DEF r
    <3>6. Tidy(o \o r.events, t.begun, s.counted, ReasonOf("messages", t), OneMore(w))
      BY <1>7, <2>0, <3>3, <3>4 DEF x
    <3>7. MessagesMatch(t, p, o \o r.events)
      BY <1>7, <2>2, <3>5, <3>6 DEF MessagesMatch
    <3> QED BY <3>3, <3>7
  <2> QED BY <1>7, <2>3, <2>4
<1>8. ASSUME f.type = "message_stop", f.reason = "none", s.stage = "stopping",
             t.stage = "over", t.begun = s.begun, t.closed = s.begun
      PROVE  r.parser \in ParserType /\ MessagesMatch(t, r.parser, o \o r.events)
  <2> DEFINE q == [p EXCEPT !.pending = "none"]
  <2>1. q \in ParserType /\ q.pending = "none" /\ q.open = p.open
    BY DEF ParserType
  <2>2. r = Result(q, IF p.pending = "none" THEN <<>> ELSE <<Stop(p.pending)>>)
    BY <1>8 DEF ParseOneSse, MessageStop
  <2> HIDE DEF q
  <2> DEFINE x == ReasonOf("messages", s)
  <2>3. /\ t.begun \ t.closed = {} /\ t.closed \subseteq t.begun /\ t.stage \in Finished
        /\ x \in Told /\ x # "none" /\ ReasonOf("messages", t) = x
    BY <1>0, <1>8, ReasonIsTold DEF Finished, ReasonOf
  <2>4. s.closed = s.begun /\ s.begun \ s.closed = {}
    BY <1>8 DEF MessagesMatch
  <2> HIDE DEF x
  <2>5. CASE /\ p.pending = x
             /\ \E w \in StopCounts, u \in SUBSET Once : Tidy(o, s.begun, u, "none", w)
    <3>1. PICK w \in StopCounts, u \in SUBSET Once : Tidy(o, s.begun, u, "none", w)
      BY <2>5
    <3>2. r = Result(q, <<Stop(x)>>)
      BY <2>2, <2>3, <2>5
    <3>3. r.parser = q /\ r.events = <<Stop(x)>>
      BY <3>2, ResultFields
    <3>4. Tidy(o \o <<Stop(x)>>, s.begun, u, x, OneMore(w))
      <4>1. w \in {"none", "one", "some"}
        BY DEF StopCounts
      <4> QED BY <2>3, <3>1, <4>1, TidyStop
    <3>5. OneMore(w) \in StopCounts
      BY DEF OneMore, StopCounts
    <3> HIDE DEF r
    <3>7. Tidy(o \o r.events, t.begun, u, ReasonOf("messages", t), OneMore(w))
      BY <1>8, <2>3, <3>3, <3>4
    <3>6. MessagesMatch(t, q, o \o r.events)
      BY <1>1, <1>8, <2>1, <2>3, <2>4, <3>1, <3>5, <3>7 DEF MessagesMatch
    <3> QED BY <2>1, <3>3, <3>6
  <2>6. CASE /\ p.pending = "none"
             /\ \E w \in StopCounts, u \in SUBSET Once : Tidy(o, s.begun, u, x, w)
    <3>1. r = Result(q, <<>>)
      BY <2>2, <2>6
    <3>2. r.parser = q /\ o \o r.events = o
      BY <1>2, <3>1, ResultFields
    <3>3. MessagesMatch(t, q, o)
      BY <1>1, <1>8, <2>1, <2>3, <2>4, <2>6 DEF MessagesMatch
    <3> QED BY <2>1, <3>2, <3>3
  <2> QED BY <1>8, <2>5, <2>6 DEF MessagesMatch, x
<1>9. ASSUME f.type = "error", f.reason = "none", f.usage = "none",
             t.begun = s.begun, t.closed = s.closed,
             \/ s.stage = "calls" /\ t.stage = "failed"
             \/ s.stage = "stopping" /\ t.stage = "over"
      PROVE  r.parser \in ParserType /\ MessagesMatch(t, r.parser, o \o r.events)
  <2>1. r = Result(p, <<Stop("error")>>)
    BY <1>9 DEF ParseOneSse
  <2>2. r.parser = p /\ r.events = <<Stop("error")>>
    BY <2>1, ResultFields
  <2>3. ASSUME NEW g, NEW u, NEW x, NEW w \in StopCounts, Tidy(o, g, u, x, w)
        PROVE  Tidy(o \o r.events, g, u, x, OneMore(w)) /\ OneMore(w) \in StopCounts
    <3>1. w \in {"none", "one", "some"} /\ "error" \in Abnormal
      BY DEF StopCounts, Abnormal
    <3> QED BY <2>2, <2>3, <3>1, TidyFailure DEF OneMore, StopCounts
  <2> HIDE DEF r
  <2>4. t.stage \in {"calls", "failed"} <=> s.stage \in {"calls", "failed"}
    BY <1>9
  <2>5. t.stage \in Finished <=> s.stage \in Finished
    BY <1>9 DEF Finished
  <2>6. t.short = s.short /\ t.counted = s.counted /\ ReasonOf("messages", t) = ReasonOf("messages", s)
    BY <1>0, <1>9 DEF ReasonOf
  <2>7. ASSUME NEW g, NEW u, NEW x, \E w \in StopCounts : Tidy(o, g, u, x, w)
        PROVE  \E w \in StopCounts : Tidy(o \o r.events, g, u, x, w)
    BY <2>3, <2>7
  <2> DEFINE y == ReasonOf("messages", s)
  <2> HIDE DEF y
  <2>8. CASE s.stage \in {"calls", "failed"} /\ ~ s.short /\ "total" \notin s.counted /\ p.pending = "none"
             /\ \E w \in StopCounts : Tidy(o, s.closed, s.counted, "none", w)
    <3>1. \E w \in StopCounts : Tidy(o \o r.events, t.closed, t.counted, "none", w)
      BY <1>9, <2>6, <2>7, <2>8
    <3> QED BY <1>1, <1>9, <2>2, <2>4, <2>6, <2>8, <3>1 DEF MessagesMatch
  <2>9. CASE s.stage \in Finished /\ s.closed = s.begun /\ p.pending = y
             /\ \E w \in StopCounts, u \in SUBSET Once : Tidy(o, s.begun, u, "none", w)
    <3>1. PICK u \in SUBSET Once : \E w \in StopCounts : Tidy(o, s.begun, u, "none", w)
      BY <2>9
    <3>2. \E w \in StopCounts : Tidy(o \o r.events, t.begun, u, "none", w)
      BY <1>9, <2>7, <3>1
    <3>3. \E w \in StopCounts, v \in SUBSET Once : Tidy(o \o r.events, t.begun, v, "none", w)
      BY <3>2
    <3> QED BY <1>1, <1>9, <2>2, <2>5, <2>6, <2>9, <3>3 DEF MessagesMatch, y
  <2>10. CASE s.stage \in Finished /\ s.closed = s.begun /\ p.pending = "none"
              /\ \E w \in StopCounts, u \in SUBSET Once : Tidy(o, s.begun, u, y, w)
    <3>1. PICK u \in SUBSET Once : \E w \in StopCounts : Tidy(o, s.begun, u, y, w)
      BY <2>10
    <3>2. \E w \in StopCounts : Tidy(o \o r.events, t.begun, u, y, w)
      BY <1>9, <2>7, <3>1
    <3>3. \E w \in StopCounts, v \in SUBSET Once :
             Tidy(o \o r.events, t.begun, v, ReasonOf("messages", t), w)
      BY <2>6, <3>2 DEF y
    <3> QED BY <1>1, <1>9, <2>2, <2>5, <2>10, <3>3 DEF MessagesMatch
  <2> QED BY <2>8, <2>9, <2>10 DEF MessagesMatch, y
<1> QED BY <1>4, <1>5, <1>6, <1>7, <1>8, <1>9, <1>11, <1>12 DEF MessagesSays

-----------------------------------------------------------------------------
(* Frames on their way.                                                    *)

(* The server's part of the turn from s to t, in the frame f; at the end   *)
(* of the connection it says nothing more.                                 *)
Closing == {"eof", "broken"}

(* A turn that has ended stays as it was.                                  *)
Lasts(w, s, t) ==
  s.stage \in Finished =>
    t.stage \in Finished /\ ReasonOf(w, t) = ReasonOf(w, s) /\ CallsOf(w, t) = CallsOf(w, s)

Speaks(w, s, f, t) ==
  \/ w = "chat" /\ ChatSays(s, f, t)
  \/ w = "responses" /\ ResponsesSays(s, f, t)
  \/ w = "messages" /\ MessagesSays(s, f, t)

Tells(w, s, f, t) ==
  /\ Lasts(w, s, t) /\ Ticks(s, f, t)
  /\ (f.type \in Closing /\ t = s) \/ Speaks(w, s, f, t)

Match(w, s, p, o) ==
  CASE w = "chat"      -> ChatMatch(s, p, o)
    [] w = "responses" -> ResponsesMatch(s, p, o)
    [] w = "messages"  -> MessagesMatch(s, p, o)

(* What the server had said before and after each of the frames n.         *)
IsPath(w, n, s, h) ==
  /\ h \in [0 .. Len(n) -> Cores]
  /\ h[Len(n)] = s
  /\ \A k \in 1 .. Len(n) : Tells(w, h[k - 1], n[k], h[k])
  /\ \A k \in 0 .. Len(n) : Lasts(w, h[k], s)

(* What has been given at any time.                                        *)
Delivered(w, s, p, o, c) ==
  \E g \in SUBSET Calls, u \in SUBSET Once, r \in Told \cup {"none"}, k \in StopCounts :
    /\ Tidy(o, g, u, r, k)
    /\ r # "none" => s.stage \in Finished /\ g = CallsOf(w, s) /\ r = ReasonOf(w, s)
    /\ w \in {"chat", "responses"} => k = IF p.stopped THEN "one" ELSE "none"
    /\ c # "none" => k # "none"

LEMMA FrameIsTaken ==
  ASSUME NEW w \in Wires, NEW s \in Cores, NEW f \in Frames, NEW t \in Cores, Tells(w, s, f, t),
         f.type \notin Closing, NEW p \in ParserType, NEW o, Match(w, s, p, o)
  PROVE  LET r == Parse(w, p, f)
         IN r.parser \in ParserType /\ Match(w, t, r.parser, o \o r.events)
<1>1. CASE w = "chat"
  BY <1>1, ChatMatches DEF Tells, Speaks, Match, Parse
<1>2. CASE w = "responses"
  BY <1>2, ResponsesMatches DEF Tells, Speaks, Match, Parse
<1>3. CASE w = "messages"
  BY <1>3, MessagesMatches DEF Tells, Speaks, Match, Parse
<1> QED BY <1>1, <1>2, <1>3 DEF Wires

LEMMA PathGrows ==
  ASSUME NEW w, NEW n \in Seq(Frames), NEW s, NEW h, IsPath(w, n, s, h),
         NEW f \in Frames, NEW t \in Cores, Tells(w, s, f, t)
  PROVE  \E g : IsPath(w, n \o <<f>>, t, g) /\ g[0] = h[0]
<1> DEFINE m == Len(n)
           q == n \o <<f>>
           g == [k \in 0 .. m + 1 |-> IF k <= m THEN h[k] ELSE t]
<1>1. m \in Nat /\ Len(q) = m + 1 /\ (\A i \in 1 .. m : q[i] = n[i]) /\ q[m + 1] = f
  OBVIOUS
<1>2. /\ h \in [0 .. m -> Cores] /\ h[m] = s
      /\ \A k \in 1 .. m : Tells(w, h[k - 1], n[k], h[k])
      /\ \A k \in 0 .. m : Lasts(w, h[k], s)
  BY DEF IsPath
<1> HIDE DEF m, q
<1>3. /\ g \in [0 .. m + 1 -> Cores] /\ g[m + 1] = t
      /\ \A k \in 0 .. m : g[k] = h[k]
  BY <1>1, <1>2
<1> HIDE DEF g
<1>4. ASSUME NEW k \in 1 .. m + 1 PROVE Tells(w, g[k - 1], q[k], g[k])
  <2>1. CASE k = m + 1
    <3>1. g[k - 1] = s
      BY <1>1, <1>2, <1>3, <2>1
    <3> QED BY <1>1, <1>3, <2>1, <3>1
  <2>2. CASE k # m + 1
    <3>1. k \in 1 .. m /\ k - 1 \in 0 .. m /\ k \in 0 .. m
      BY <1>1, <2>2
    <3> QED BY <1>1, <1>2, <1>3, <3>1
  <2> QED BY <2>1, <2>2
<1>5. ASSUME NEW k \in 0 .. m + 1
      PROVE  Lasts(w, g[k], t)
  <2>1. CASE k = m + 1
    BY <1>3, <2>1 DEF Lasts
  <2>2. CASE k # m + 1
    <3>1. k \in 0 .. m
      BY <1>1, <2>2
    <3>2. Lasts(w, g[k], s) /\ Lasts(w, s, t)
      BY <1>2, <1>3, <3>1 DEF Tells
    <3> QED BY <3>2 DEF Lasts
  <2> QED BY <2>1, <2>2
<1>6. IsPath(w, q, t, g) /\ g[0] = h[0]
  BY <1>1, <1>3, <1>4, <1>5 DEF IsPath
<1> QED BY <1>6 DEF q

LEMMA PathShrinks ==
  ASSUME NEW w, NEW n \in Seq(Frames), n # <<>>, NEW s, NEW h, IsPath(w, n, s, h)
  PROVE  \E g : IsPath(w, Tail(n), s, g) /\ g[0] \in Cores /\ Tells(w, h[0], Head(n), g[0])
<1> DEFINE m == Len(n)
           q == Tail(n)
           g == [k \in 0 .. m - 1 |-> h[k + 1]]
<1>1. m \in Nat /\ m > 0 /\ Len(q) = m - 1 /\ (\A i \in 1 .. m - 1 : q[i] = n[i + 1]) /\ Head(n) = n[1]
  OBVIOUS
<1>2. /\ h \in [0 .. m -> Cores] /\ h[m] = s
      /\ \A k \in 1 .. m : Tells(w, h[k - 1], n[k], h[k])
      /\ \A k \in 0 .. m : Lasts(w, h[k], s)
  BY DEF IsPath
<1> HIDE DEF m, q
<1>3. /\ g \in [0 .. m - 1 -> Cores] /\ g[m - 1] = s
      /\ \A k \in 0 .. m - 1 : g[k] = h[k + 1] /\ k + 1 \in 0 .. m
  BY <1>1, <1>2
<1> HIDE DEF g
<1>4. ASSUME NEW k \in 1 .. m - 1 PROVE Tells(w, g[k - 1], q[k], g[k])
  <2>1. k + 1 \in 1 .. m /\ (k + 1) - 1 = k /\ k - 1 \in 0 .. m - 1 /\ k \in 0 .. m - 1 /\ (k - 1) + 1 = k
    BY <1>1
  <2>2. Tells(w, h[k], n[k + 1], h[k + 1])
    BY <1>2, <2>1
  <2> QED BY <1>1, <1>3, <2>1, <2>2
<1>5. \A k \in 0 .. m - 1 : Lasts(w, g[k], s)
  BY <1>2, <1>3
<1>6. IsPath(w, q, s, g)
  BY <1>1, <1>3, <1>4, <1>5 DEF IsPath
<1>7. g[0] \in Cores /\ Tells(w, h[0], Head(n), g[0])
  <2>1. 0 \in 0 .. m - 1 /\ 1 \in 1 .. m /\ 0 + 1 = 1 /\ 1 - 1 = 0
    BY <1>1
  <2>2. Tells(w, h[0], n[1], h[1]) /\ g[0] = h[1]
    BY <1>2, <1>3, <2>1
  <2> QED BY <1>1, <1>3, <2>1, <2>2
<1> QED BY <1>6, <1>7 DEF q

LEMMA MatchDelivers ==
  ASSUME NEW w \in Wires, NEW s \in Cores, NEW p, NEW o, Match(w, s, p, o)
  PROVE  Delivered(w, s, p, o, "none") /\ (w = "chat" => InOrder(o))
<1>0. /\ ReasonOf(w, s) \in Told \cup {"none"} /\ {} \in SUBSET Calls
      /\ s.begun \in SUBSET Calls /\ s.closed \in SUBSET Calls /\ CallsOf(w, s) \in SUBSET Calls
      /\ {} \in SUBSET Once /\ s.counted \in SUBSET Once
      /\ "none" \in StopCounts /\ "one" \in StopCounts /\ "none" # "one"
  BY ReasonIsTold DEF Cores, StopCounts, CallsOf
<1>1. CASE w = "chat"
  <2>1. ChatMatch(s, p, o) /\ CallsOf(w, s) = s.begun
    BY <1>1 DEF Match, CallsOf
  <2>2. CASE s.stage = "calls" /\ ~ p.stopped /\ Tidy(o, {}, s.counted, "none", "none")
    BY <1>0, <1>1, <2>2, NoCallsInOrder DEF Delivered
  <2>3. CASE s.stage \in Finished /\ p.stopped
             /\ Tidy(o, s.begun, s.counted, ReasonOf(w, s), "one") /\ InOrder(o)
    BY <1>0, <1>1, <2>1, <2>3 DEF Delivered
  <2> QED BY <1>1, <2>1, <2>2, <2>3 DEF ChatMatch
<1>2. CASE w = "responses"
  <2>1. ResponsesMatch(s, p, o)
    BY <1>2 DEF Match
  <2>2. CASE ~ p.stopped /\ Tidy(o, s.closed, {}, "none", "none")
    BY <1>0, <1>2, <2>2 DEF Delivered
  <2>3. CASE s.stage \in Finished /\ p.stopped
             /\ \E u \in SUBSET Once : Tidy(o, CallsOf(w, s), u, ReasonOf(w, s), "one")
    BY <1>0, <1>2, <2>3 DEF Delivered
  <2>4. CASE p.stopped /\ Tidy(o, s.closed, {}, "none", "one")
    BY <1>0, <1>2, <2>4 DEF Delivered
  <2> QED BY <1>2, <2>1, <2>2, <2>3, <2>4 DEF ResponsesMatch
<1>3. CASE w = "messages"
  <2>1. MessagesMatch(s, p, o) /\ CallsOf(w, s) = s.begun
    BY <1>3 DEF Match, CallsOf
  <2>2. CASE \E k \in StopCounts : Tidy(o, s.closed, s.counted, "none", k)
    BY <1>0, <1>3, <2>2 DEF Delivered
  <2>3. CASE \E k \in StopCounts, u \in SUBSET Once : Tidy(o, s.begun, u, "none", k)
    BY <1>0, <1>3, <2>3 DEF Delivered
  <2>4. CASE s.stage \in Finished
             /\ \E k \in StopCounts, u \in SUBSET Once : Tidy(o, s.begun, u, ReasonOf(w, s), k)
    BY <1>0, <1>3, <2>1, <2>4 DEF Delivered
  <2> QED BY <1>3, <2>1, <2>2, <2>3, <2>4 DEF MessagesMatch
<1> QED BY <1>1, <1>2, <1>3 DEF Wires

LEMMA DeliveredLater ==
  ASSUME NEW w, NEW s, NEW t, NEW p, NEW o, NEW c, Delivered(w, s, p, o, c),
         Lasts(w, s, t)
  PROVE  Delivered(w, t, p, o, c)
BY DEF Delivered, Lasts

(* The stream is cut.                                                      *)
LEMMA BrokenDelivers ==
  ASSUME NEW w \in Wires, NEW s, NEW p \in ParserType, NEW o, NEW c, Delivered(w, s, p, o, c),
         w = "chat" => InOrder(o), NEW why \in {"idle", "transport"}
  PROVE  LET r == Broken(w, p, why)
         IN /\ r.parser \in ParserType
            /\ Delivered(w, s, r.parser, o \o r.events, why)
            /\ w = "chat" => InOrder(o \o r.events)
<1> DEFINE r == Broken(w, p, why)
<1>1. PICK g \in SUBSET Calls, u \in SUBSET Once, x \in Told \cup {"none"}, k \in StopCounts :
        /\ Tidy(o, g, u, x, k)
        /\ x # "none" => s.stage \in Finished /\ g = CallsOf(w, s) /\ x = ReasonOf(w, s)
        /\ w \in {"chat", "responses"} => k = IF p.stopped THEN "one" ELSE "none"
        /\ c # "none" => k # "none"
  BY DEF Delivered
<1>2. o \in Seq(Events) /\ o \o <<>> = o /\ k \in {"none", "one", "some"}
  BY <1>1, TidyIsSeq, NothingMore DEF StopCounts
<1>3. why \in Abnormal /\ "transport" \in Abnormal
  BY DEF Abnormal
<1>4. ASSUME NEW y \in Abnormal
      PROVE  Tidy(o \o <<Stop(y)>>, g, u, x, OneMore(k)) /\ Stop(y) \in Events /\ ~ IsComplete(Stop(y))
  <2>1. Tidy(o \o <<Stop(y)>>, g, u, x, OneMore(k))
    BY <1>1, <1>2, TidyFailure
  <2> QED BY <2>1, EventKinds
<1>5. OneMore(k) \in StopCounts /\ OneMore(k) # "none"
  BY DEF OneMore, StopCounts
<1>6. ASSUME w = "messages"
      PROVE  /\ r.parser \in ParserType
             /\ Delivered(w, s, r.parser, o \o r.events, why)
             /\ w = "chat" => InOrder(o \o r.events)
  <2>1. r = Result(p, <<Stop("transport")>>)
    BY <1>6 DEF Broken
  <2>2. r.parser = p /\ r.events = <<Stop("transport")>>
    BY <2>1, ResultFields
  <2> HIDE DEF r
  <2>3. Tidy(o \o r.events, g, u, x, OneMore(k))
    BY <1>3, <1>4, <2>2
  <2>4. Delivered(w, s, p, o \o r.events, why)
    BY <1>1, <1>5, <1>6, <2>3 DEF Delivered
  <2> QED BY <1>6, <2>2, <2>4
<1>7. ASSUME w # "messages"
      PROVE  /\ r.parser \in ParserType
             /\ Delivered(w, s, r.parser, o \o r.events, why)
             /\ w = "chat" => InOrder(o \o r.events)
  <2> DEFINE q == [p EXCEPT !.stopped = TRUE]
  <2>1. r = Result(q, ResponsesStop(p, why))
    BY <1>7 DEF Broken
  <2>2. q \in ParserType /\ q.stopped
    BY DEF ParserType
  <2>3. w \in {"chat", "responses"}
    BY <1>7 DEF Wires
  <2> HIDE DEF q
  <2>4. CASE p.stopped
    <3>1. r = Result(q, <<>>)
      BY <2>1, <2>4 DEF ResponsesStop
    <3>2. r.parser = q /\ o \o r.events = o
      BY <1>2, <3>1, ResultFields
    <3>3. Delivered(w, s, q, o, why)
      <4>1. k = "one"
        BY <1>1, <2>3, <2>4
      <4> QED BY <1>1, <2>2, <4>1 DEF Delivered
    <3> QED BY <2>2, <3>2, <3>3
  <2>5. CASE ~ p.stopped
    <3>1. r = Result(q, <<Stop(why)>>)
      BY <2>1, <2>5 DEF ResponsesStop
    <3>2. r.parser = q /\ r.events = <<Stop(why)>>
      BY <3>1, ResultFields
    <3> HIDE DEF r
    <3>3. Tidy(o \o r.events, g, u, x, "one")
      <4>1. k = "none"
        BY <1>1, <2>3, <2>5
      <4> QED BY <1>3, <1>4, <3>2, <4>1 DEF OneMore
    <3>4. Delivered(w, s, q, o \o r.events, why)
      <4>1. "one" \in StopCounts /\ "one" # "none"
        BY DEF StopCounts
      <4> QED BY <1>1, <2>2, <3>3, <4>1 DEF Delivered
    <3>5. w = "chat" => InOrder(o \o r.events)
      BY <1>2, <1>3, <1>4, <3>2, OrderIsKept
    <3> QED BY <2>2, <3>2, <3>4, <3>5
  <2> QED BY <2>4, <2>5
<1> QED BY <1>6, <1>7

-----------------------------------------------------------------------------
(* What the server sends is what its API says.                             *)

ServerType == [begun : SUBSET Calls, closed : SUBSET Calls,
               stage : {"calls", "failed"} \cup Finished, short : BOOLEAN,
               counted : SUBSET Once, seq : Nat,
               log : SUBSET Frames, frames : Nat, gone : BOOLEAN]

(* A frame of the log can be sent again.                                   *)
Logged(f, s) == /\ f.type \in Announces /\ f.seq \in 1 .. s.seq /\ f.usage = "none"
                /\ f.reason = Short => s.short

ServerInv ==
  /\ server \in ServerType
  /\ server.closed \subseteq server.begun
  /\ wire = "messages" /\ server.stage \in Finished => server.closed = server.begun
  /\ \A f \in server.log : Logged(f, server)

(* What the server has said when it has sent f.                            *)
After(f, b, c, x) ==
  [begun |-> b, closed |-> c, stage |-> x,
   seq |-> IF f.seq > server.seq THEN f.seq ELSE server.seq,
   short |-> server.short \/ f.reason = Short,
   counted |-> server.counted \cup ({f.usage} \cap Once)]

(* What the server may say next, as a step of the turn.                    *)
IsSaid(say, f, t) ==
  /\ say = Says(f, t.begun, t.closed, t.stage)
  /\ t.seq = IF f.seq > server.seq THEN f.seq ELSE server.seq
  /\ Tells(wire, Core(server), f, t)
  /\ f.type \notin Closing /\ (f.seq > 0 => f.type \in Announces /\ f.usage = "none")
  /\ t.closed \subseteq t.begun
  /\ wire = "messages" /\ t.stage \in Finished => t.closed = t.begun

LEMMA CoreOf ==
  ASSUME ServerInv
  PROVE  /\ Core(server) \in Cores
         /\ Core(server).begun = server.begun /\ Core(server).closed = server.closed
         /\ Core(server).stage = server.stage /\ Core(server).seq = server.seq
         /\ Core(server).short = server.short /\ Core(server).counted = server.counted
BY DEF ServerInv, ServerType, Core, Cores

FrameTypes == {"other", "delta", "done", "added", "item", "completed", "error",
               "message_start", "start", "stop", "bare", "message_stop", "eof", "broken"}

LEMMA AFrame ==
  ASSUME NEW y \in FrameTypes, NEW S \in SUBSET Calls, NEW r \in Told \cup {"none"}, NEW n \in Nat
  PROVE  LET f == Frame(y, S, r, n)
         IN f \in Frames /\ f.type = y /\ f.calls = S /\ f.reason = r /\ f.seq = n
            /\ f.usage = "none"
BY DEF Frame, Frames, FrameTypes

LEMMA ACounted ==
  ASSUME NEW y \in FrameTypes, NEW S \in SUBSET Calls, NEW r \in Told \cup {"none"}, NEW n \in Nat,
         NEW k \in Counts \cup {"none"}
  PROVE  LET f == Counting(Frame(y, S, r, n), k)
         IN f \in Frames /\ f.type = y /\ f.calls = S /\ f.reason = r /\ f.seq = n
            /\ f.usage = k
BY DEF Counting, Frame, Frames, FrameTypes

IsAfter(t, f, b, c, x) ==
  /\ t \in Cores /\ t.begun = b /\ t.closed = c /\ t.stage = x
  /\ t.seq = IF f.seq > server.seq THEN f.seq ELSE server.seq
  /\ t.short = (server.short \/ f.reason = Short)
  /\ Ticks(Core(server), f, t)

LEMMA ACore ==
  ASSUME ServerInv, NEW f \in Frames, NEW b \in SUBSET Calls, NEW c \in SUBSET b,
         NEW x \in {"calls", "failed"} \cup Finished
  PROVE  IsAfter(After(f, b, c, x), f, b, c, x)
<1> DEFINE t == After(f, b, c, x)
           q == IF f.seq > server.seq THEN f.seq ELSE server.seq
           h == server.short \/ f.reason = Short
           k == server.counted \cup ({f.usage} \cap Once)
<1>1. server.seq \in Nat /\ server.counted \in SUBSET Once /\ f.seq \in Nat
  BY DEF ServerInv, ServerType, Frames
<1>2. q \in Nat /\ h \in BOOLEAN /\ k \in SUBSET Once /\ c \in SUBSET Calls
  BY <1>1
<1>3. t = [begun |-> b, closed |-> c, stage |-> x, seq |-> q, short |-> h, counted |-> k]
  BY DEF After
<1>4. Core(server).short = server.short /\ Core(server).counted = server.counted
  BY CoreOf
<1> HIDE DEF t, q, h, k
<1>5. t \in Cores /\ t.begun = b /\ t.closed = c /\ t.stage = x /\ t.seq = q /\ t.short = h /\ t.counted = k
  BY <1>2, <1>3 DEF Cores
<1> USE DEF q, h, k
<1>6. Ticks(Core(server), f, t)
  BY <1>4, <1>5 DEF Ticks
<1> QED BY <1>5, <1>6 DEF t, IsAfter

(* A frame that is a step of its API, and leaves a turn that has ended.    *)
LEMMA AStep ==
  ASSUME ServerInv, wire \in Wires, NEW say, NEW f \in Frames,
         NEW b \in SUBSET Calls, NEW c \in SUBSET b,
         NEW x \in {"calls", "failed"} \cup Finished, say = Says(f, b, c, x),
         f.type \notin Closing, f.seq > 0 => f.type \in Announces /\ f.usage = "none",
         wire = "messages" /\ x \in Finished => c = b,
         server.stage \in Finished => x \in Finished /\ b = server.begun,
         server.stage \in Finished /\ f.reason = Short => server.short,
         server.stage \in Finished /\ wire = "responses" => c = server.closed,
         Speaks(wire, Core(server), f, After(f, b, c, x))
  PROVE  \E g \in Frames, t \in Cores : IsSaid(say, g, t)
<1> DEFINE s == Core(server)
           t == After(f, b, c, x)
<1>1. /\ t \in Cores /\ t.begun = b /\ t.closed = c /\ t.stage = x
      /\ t.seq = (IF f.seq > server.seq THEN f.seq ELSE server.seq)
      /\ t.short = (server.short \/ f.reason = Short)
      /\ Ticks(s, f, t)
  <2>1. IsAfter(t, f, b, c, x)
    BY ACore
  <2> HIDE DEF t
  <2> QED BY <2>1 DEF IsAfter
<1>2. s.begun = server.begun /\ s.closed = server.closed /\ s.stage = server.stage
      /\ s.short = server.short /\ server.short \in BOOLEAN
  BY CoreOf DEF ServerInv, ServerType
<1>3. Speaks(wire, s, f, t)
  OBVIOUS
<1> HIDE DEF s, t
<1>4. Lasts(wire, s, t)
  <2>1. ASSUME s.stage \in Finished
        PROVE  t.stage \in Finished /\ t.begun = s.begun /\ t.short = s.short
               /\ (wire = "responses" => t.closed = s.closed)
    BY <1>1, <1>2, <2>1
  <2> QED BY <2>1 DEF Lasts, ReasonOf, CallsOf
<1>5. Tells(wire, s, f, t)
  BY <1>1, <1>3, <1>4 DEF Tells
<1>6. IsSaid(say, f, t)
  BY <1>1, <1>5 DEF IsSaid, s
<1> QED BY <1>1, <1>6

LEMMA OtherIsSaid ==
  ASSUME ServerInv, NEW say \in Other, wire \in Wires
  PROVE  \E f \in Frames, t \in Cores : IsSaid(say, f, t)
<1> DEFINE f == Frame("other", {}, "none", 0)
           s == Core(server)
           t == After(f, server.begun, server.closed, server.stage)
<1>1. f \in Frames /\ f.type = "other" /\ f.calls = {} /\ f.seq = 0 /\ f.reason = "none" /\ f.usage = "none"
  BY AFrame DEF FrameTypes
<1>2. /\ s \in Cores /\ s.begun = server.begun /\ s.closed = server.closed /\ s.stage = server.stage
      /\ s.seq = server.seq /\ s.short = server.short /\ s.counted = server.counted
      /\ server.seq \in Nat /\ server.begun \in SUBSET Calls /\ server.closed \in SUBSET server.begun
      /\ server.stage \in {"calls", "failed"} \cup Finished /\ server.short \in BOOLEAN
  BY CoreOf DEF ServerInv, ServerType
<1>3. say = Says(f, server.begun, server.closed, server.stage)
  BY DEF Other
<1>6. ~ (f.seq > server.seq) /\ ~ (f.seq > 0) /\ f.type \notin Closing
  BY <1>1, <1>2 DEF Closing
<1>7. f.reason # Short
  BY <1>1, ReasonIsTold
<1> HIDE DEF f
<1>4. t = s
  <2>1. server.counted \cup ({f.usage} \cap Once) = server.counted
    BY <1>1 DEF Once
  <2>2. (server.short \/ f.reason = Short) = server.short
    BY <1>2, <1>7
  <2> QED BY <1>6, <2>1, <2>2 DEF After, Core
<1> HIDE DEF s, t
<1>5. Speaks(wire, s, f, t)
  <2>1. ChatSays(s, f, t)
    BY <1>1, <1>2, <1>4 DEF ChatSays, Once
  <2>2. ResponsesSays(s, f, t)
    BY <1>1, <1>4 DEF ResponsesSays
  <2>3. MessagesSays(s, f, t)
    BY <1>1, <1>4 DEF MessagesSays
  <2> QED BY <2>1, <2>2, <2>3 DEF Speaks, Wires
<1>8. wire = "messages" /\ server.stage \in Finished => server.closed = server.begun
  BY DEF ServerInv
<1> USE DEF s, t
<1> QED BY <1>1, <1>2, <1>3, <1>5, <1>6, <1>7, <1>8, AStep

LEMMA ChatIsSaid ==
  ASSUME ServerInv, wire = "chat", NEW say \in ChatFrames
  PROVE  \E f \in Frames, t \in Cores : IsSaid(say, f, t)
<1> DEFINE b == server.begun
           s == Core(server)
           Goal == \E f \in Frames, t \in Cores : IsSaid(say, f, t)
<1> SUFFICES Goal
  OBVIOUS
<1>1. \/ say \in Other
      \/ \E S \in SUBSET Calls, k \in Running :
           server.stage = "calls" /\ say = ChatDelta(S, "none", k, "calls")
      \/ \E S \in SUBSET Calls, k \in Final :
           server.stage = "calls" /\ say \in {ChatDelta(S, r, k, "stopping") : r \in {Reason(b \cup S), Short}}
      \/ \E k \in Final :
           server.stage = "stopping" /\ say = ChatDelta({}, "none", k, "stopping")
      \/ server.stage \in {"calls", "stopping"} /\ say = Says(Frame("done", {}, "none", 0), b, b, "over")
  <2>1. CASE \E S \in {T \in SUBSET Calls : InCalls /\ Cardinality(T) <= 1}, k \in Running :
               say = ChatDelta(S, "none", k, "calls")
    BY <2>1 DEF InCalls
  <2>3. CASE \E k \in {m \in Final : server.stage = "stopping"} : say = ChatDelta({}, "none", k, "stopping")
    BY <2>3
  <2>4. CASE \E x \in {server.stage} \cap {"calls", "stopping"} :
               say = Says(Frame("done", {}, "none", 0), b, b, "over")
    BY <2>4
  <2> DEFINE A == {ChatDelta(S, "none", k, "calls") :
                     S \in {T \in SUBSET Calls : InCalls /\ Cardinality(T) <= 1}, k \in Running}
             B == UNION {{ChatDelta(S, r, k, "stopping") : r \in {Reason(b \cup S), Short}, k \in Final} :
                           S \in {T \in SUBSET Calls : InCalls}}
             C == {ChatDelta({}, "none", k, "stopping") : k \in {m \in Final : server.stage = "stopping"}}
             D == {Says(Frame("done", {}, "none", 0), b, b, "over") :
                     x \in {server.stage} \cap {"calls", "stopping"}}
  <2>5. ChatFrames = Other \cup A \cup B \cup C \cup D
    BY DEF ChatFrames
  <2>6. say \in A => \E S \in {T \in SUBSET Calls : InCalls /\ Cardinality(T) <= 1}, k \in Running :
                       say = ChatDelta(S, "none", k, "calls")
    OBVIOUS
  <2>7. say \in C => \E k \in {m \in Final : server.stage = "stopping"} :
                       say = ChatDelta({}, "none", k, "stopping")
    OBVIOUS
  <2>8. say \in D => \E x \in {server.stage} \cap {"calls", "stopping"} :
                       say = Says(Frame("done", {}, "none", 0), b, b, "over")
    OBVIOUS
  <2> HIDE DEF A, C, D
  <2>9. CASE say \in Other
    BY <2>9
  <2>10. CASE say \in A
    BY <2>1, <2>6, <2>10
  <2>11. CASE say \in B
    <3>1. PICK S \in {T \in SUBSET Calls : InCalls} :
            say \in {ChatDelta(S, r, k, "stopping") : r \in {Reason(b \cup S), Short}, k \in Final}
      BY <2>11
    <3>2. PICK r \in {Reason(b \cup S), Short}, k \in Final : say = ChatDelta(S, r, k, "stopping")
      BY <3>1
    <3> QED BY <3>1, <3>2 DEF InCalls
  <2>12. CASE say \in C
    BY <2>3, <2>7, <2>12
  <2>13. CASE say \in D
    BY <2>4, <2>8, <2>13
  <2> HIDE DEF B
  <2> QED BY <2>5, <2>9, <2>10, <2>11, <2>12, <2>13
<1>2. /\ s \in Cores /\ s.begun = b /\ s.stage = server.stage
      /\ s.counted = server.counted
      /\ b \in SUBSET Calls
      /\ "stopping" \in Finished /\ "over" \in Finished /\ "calls" \notin Finished
  BY CoreOf DEF ServerInv, ServerType, Finished
<1>3. wire \in Wires /\ wire # "messages" /\ wire # "responses"
  BY DEF Wires
<1> HIDE DEF s, b
<1>4. ASSUME NEW f \in Frames, NEW S \in SUBSET Calls, NEW x \in {"calls", "stopping", "over"},
             f.calls = S, f.seq = 0, say = Says(f, b \cup S, b \cup S, x),
             f.usage \in Once => f.usage \notin server.counted,
             \/ f.type = "delta" /\ f.reason = "none" /\ s.stage = "calls" /\ x = "calls"
             \/ /\ f.type = "delta" /\ f.reason \in {Reason(b \cup S), Short}
                /\ s.stage = "calls" /\ x = "stopping"
             \/ /\ f.type = "delta" /\ f.reason = "none" /\ S = {}
                /\ s.stage = "stopping" /\ x = "stopping"
             \/ /\ f.type = "done" /\ S = {} /\ f.reason = "none" /\ f.usage = "none"
                /\ s.stage \in {"calls", "stopping"} /\ x = "over"
      PROVE  Goal
  <2> DEFINE g == b \cup S
             t == After(f, g, g, x)
  <2>1. g \in SUBSET Calls /\ g \in SUBSET g /\ x \in {"calls", "failed"} \cup Finished
        /\ (s.stage \in Finished => g = b)
    BY <1>2, <1>4 DEF Finished
  <2>2. say = Says(f, g, g, x) /\ g = b \cup f.calls
    BY <1>4
  <2> HIDE DEF g, Goal
  <2>3. t.begun = g /\ t.stage = x
    BY <2>1, ACore DEF IsAfter
  <2> HIDE DEF t
  <2>4. ChatSays(s, f, t)
    BY <1>2, <1>4, <2>2, <2>3 DEF ChatSays, g
  <2>5. f.type \notin Closing /\ ~ (f.seq > 0) /\ (f.reason = Short => s.stage = "calls")
    BY <1>4, ReasonIsTold DEF Closing
  <2>6. Speaks(wire, Core(server), f, After(f, g, g, x))
    BY <2>4 DEF Speaks, s, t
  <2>7. /\ server.stage \in Finished => x \in Finished /\ g = server.begun
        /\ server.stage \in Finished => f.reason # Short
    BY <1>2, <1>4, <2>1, <2>5 DEF b
  <2> QED BY <1>3, <2>1, <2>2, <2>5, <2>6, <2>7, AStep DEF Goal
<1>5. ASSUME NEW S \in SUBSET Calls, NEW r \in Told \cup {"none"}, NEW k \in Final,
             NEW x \in {"calls", "stopping"}, say = ChatDelta(S, r, k, x),
             \/ r = "none" /\ s.stage = "calls" /\ x = "calls"
             \/ r \in {Reason(b \cup S), Short} /\ s.stage = "calls" /\ x = "stopping"
             \/ r = "none" /\ S = {} /\ s.stage = "stopping" /\ x = "stopping"
      PROVE  Goal
  <2> DEFINE f == Counting(Frame("delta", S, r, 0), k)
  <2>1. k \in Counts \cup {"none"} /\ (k \in Once => k \notin server.counted)
    BY DEF Final, Running, Counts, Once
  <2>2. f \in Frames /\ f.type = "delta" /\ f.calls = S /\ f.reason = r /\ f.seq = 0 /\ f.usage = k
    BY <2>1, ACounted DEF FrameTypes
  <2>3. say = Says(f, b \cup S, b \cup S, x)
    BY <1>5 DEF ChatDelta, b
  <2> HIDE DEF f, Goal
  <2> QED BY <1>4, <1>5, <2>1, <2>2, <2>3
<1> HIDE DEF Goal
<1>6. CASE say \in Other
  BY <1>3, <1>6, OtherIsSaid DEF Goal
<1>7. CASE \E S \in SUBSET Calls, k \in Running :
             server.stage = "calls" /\ say = ChatDelta(S, "none", k, "calls")
  <2>1. PICK S \in SUBSET Calls, k \in Running :
             server.stage = "calls" /\ say = ChatDelta(S, "none", k, "calls")
    BY <1>7
  <2>2. k \in Final
    BY DEF Final
  <2> QED BY <1>2, <1>5, <2>1, <2>2
<1>8. CASE \E S \in SUBSET Calls, k \in Final :
             server.stage = "calls" /\ say \in {ChatDelta(S, r, k, "stopping") : r \in {Reason(b \cup S), Short}}
  <2>1. PICK S \in SUBSET Calls, k \in Final :
             server.stage = "calls" /\ say \in {ChatDelta(S, r, k, "stopping") : r \in {Reason(b \cup S), Short}}
    BY <1>8
  <2>2. PICK r \in {Reason(b \cup S), Short} : say = ChatDelta(S, r, k, "stopping")
    BY <2>1
  <2>3. r \in Told \cup {"none"}
    BY ReasonIsTold
  <2> QED BY <1>2, <1>5, <2>1, <2>2, <2>3
<1>9. CASE \E k \in Final : server.stage = "stopping" /\ say = ChatDelta({}, "none", k, "stopping")
  <2>1. {} \in SUBSET Calls
    OBVIOUS
  <2> QED BY <1>2, <1>5, <1>9, <2>1
<1>10. CASE server.stage \in {"calls", "stopping"} /\ say = Says(Frame("done", {}, "none", 0), b, b, "over")
  <2> DEFINE f == Frame("done", {}, "none", 0)
  <2>1. b \cup {} = b /\ {} \in SUBSET Calls
    OBVIOUS
  <2>2. f \in Frames /\ f.type = "done" /\ f.calls = {} /\ f.reason = "none" /\ f.seq = 0 /\ f.usage = "none"
    BY AFrame DEF FrameTypes
  <2>3. say = Says(f, b \cup {}, b \cup {}, "over")
    BY <1>10, <2>1
  <2>4. f.usage \notin Once
    BY <2>2 DEF Once
  <2> HIDE DEF f
  <2> QED BY <1>2, <1>4, <1>10, <2>1, <2>2, <2>3, <2>4
<1> QED BY <1>1, <1>6, <1>7, <1>8, <1>9, <1>10

LEMMA ResponsesIsSaid ==
  ASSUME ServerInv, wire = "responses", NEW say \in ResponsesFrames
  PROVE  \E f \in Frames, t \in Cores : IsSaid(say, f, t)
<1> DEFINE b == server.begun
           d == server.closed
           n == server.seq + 1
           s == Core(server)
           Goal == \E f \in Frames, t \in Cores : IsSaid(say, f, t)
<1> SUFFICES Goal
  OBVIOUS
<1>1. \/ say \in Other
      \/ \E c \in Calls \ b : server.stage = "calls"
           /\ say = Says(Frame("added", {c}, "none", n), b \cup {c}, d, "calls")
      \/ \E c \in b \ d : server.stage = "calls"
           /\ say = Says(Frame("item", {c}, "none", n), b, d \cup {c}, "calls")
      \/ \E S \in SUBSET Calls : server.stage = "calls" /\ b \subseteq S
           /\ say = Says(Frame("completed", S, "none", n), S, S, "stopping")
      \/ \E S \in SUBSET Calls : server.stage = "calls" /\ d \subseteq S
           /\ say = Says(Frame("completed", S, Short, n), b \cup S, S, "stopping")
      \/ server.stage = "calls" /\ say = Says(Frame("error", {}, "none", n), b, d, "failed")
      \/ (server.stage = "stopping" \/ (server.stage = "calls" /\ b = d))
           /\ say = Says(Frame("done", {}, "none", 0), b, d, "over")
      \/ \E f \in server.log : say = Says(f, b, d, server.stage)
  BY DEF ResponsesFrames, InCalls
<1>2. /\ s \in Cores /\ s.begun = b /\ s.closed = d /\ s.stage = server.stage /\ s.seq = server.seq
      /\ s.short = server.short /\ s.counted = server.counted
      /\ b \in SUBSET Calls /\ d \in SUBSET b
      /\ server.seq \in Nat /\ n \in Nat /\ n = s.seq + 1 /\ server.short \in BOOLEAN
      /\ server.stage \in {"calls", "failed"} \cup Finished
      /\ ~ (0 > server.seq) /\ n > server.seq /\ ~ (0 > 0)
      /\ "stopping" \in Finished /\ "over" \in Finished /\ "calls" \notin Finished
  BY CoreOf DEF ServerInv, ServerType, Finished
<1>3. wire \in Wires /\ wire # "messages" /\ wire # "chat"
  BY DEF Wires
<1> HIDE DEF s, b, d, n, Goal
<1>4. ASSUME NEW f \in Frames, NEW g \in SUBSET Calls, NEW h \in SUBSET g,
             NEW x \in {"calls", "failed"} \cup Finished, say = Says(f, g, h, x),
             f.usage = "none", f.type \notin Closing, f.seq = 0 \/ f.type \in Announces,
             s.stage \in Finished => x \in Finished /\ g = b /\ h = d,
             s.stage \in Finished /\ f.reason = Short => s.short,
             \A t \in Cores : IsAfter(t, f, g, h, x) /\ t = After(f, g, h, x) => ResponsesSays(s, f, t)
      PROVE  Goal
  <2> DEFINE t == After(f, g, h, x)
  <2>1. IsAfter(t, f, g, h, x)
    BY <1>4, ACore
  <2>2. t \in Cores
    <3> HIDE DEF t
    <3> QED BY <2>1 DEF IsAfter
  <2>3. ResponsesSays(s, f, t)
    BY <1>4, <2>1, <2>2
  <2> HIDE DEF t
  <2>4. Speaks(wire, Core(server), f, After(f, g, h, x))
    BY <2>3 DEF Speaks, s, t
  <2>5. f.seq > 0 => f.type \in Announces /\ f.usage = "none"
    BY <1>2, <1>4
  <2>6. /\ server.stage \in Finished => x \in Finished /\ g = server.begun
        /\ server.stage \in Finished /\ f.reason = Short => server.short
        /\ server.stage \in Finished /\ wire = "responses" => h = server.closed
    BY <1>2, <1>4 DEF b, d
  <2> QED BY <1>3, <1>4, <2>4, <2>5, <2>6, AStep DEF Goal
<1>5. CASE say \in Other
  BY <1>3, <1>5, OtherIsSaid DEF Goal
<1>6. ASSUME NEW y \in Announces, NEW S \in SUBSET Calls, NEW r \in {"none", Short},
             NEW g \in SUBSET Calls, NEW h \in SUBSET g, NEW x \in {"calls", "stopping", "failed"},
             s.stage = "calls", say = Says(Frame(y, S, r, n), g, h, x),
             \/ y = "added" /\ S # {} /\ r = "none" /\ x = "calls" /\ g = b \cup S /\ h = d
             \/ y = "item" /\ S \subseteq b \ d /\ r = "none" /\ x = "calls" /\ g = b /\ h = d \cup S
             \/ y = "completed" /\ b \subseteq S /\ r = "none" /\ x = "stopping" /\ g = S /\ h = S
             \/ y = "completed" /\ d \subseteq S /\ r = Short /\ x = "stopping" /\ g = b \cup S /\ h = S
             \/ y = "error" /\ r = "none" /\ x = "failed" /\ g = b /\ h = d
      PROVE  Goal
  <2> DEFINE f == Frame(y, S, r, n)
  <2>1. f \in Frames /\ f.type = y /\ f.calls = S /\ f.reason = r /\ f.seq = n /\ f.usage = "none"
    <3>1. y \in FrameTypes /\ r \in Told \cup {"none"}
      BY ReasonIsTold DEF Announces, FrameTypes
    <3> QED BY <1>2, <3>1, AFrame
  <2>2. x \in {"calls", "failed"} \cup Finished /\ s.stage \notin Finished
        /\ say = Says(f, g, h, x)
    BY <1>2, <1>6 DEF Finished
  <2> HIDE DEF f
  <2>3. f.type \in Announces /\ f.type \notin Closing
    BY <2>1 DEF Announces, Closing
  <2>4. ASSUME NEW t \in Cores, IsAfter(t, f, g, h, x) PROVE ResponsesSays(s, f, t)
    <3>1. t.begun = g /\ t.closed = h /\ t.stage = x /\ t.seq = f.seq
      BY <1>2, <2>1, <2>4 DEF IsAfter
    <3> QED BY <1>2, <1>6, <2>1, <2>3, <3>1 DEF ResponsesSays
  <2> QED BY <1>4, <2>1, <2>2, <2>3, <2>4
<1>7. CASE \E c \in Calls \ b : server.stage = "calls"
             /\ say = Says(Frame("added", {c}, "none", n), b \cup {c}, d, "calls")
  <2>1. PICK c \in Calls \ b : server.stage = "calls"
             /\ say = Says(Frame("added", {c}, "none", n), b \cup {c}, d, "calls")
    BY <1>7
  <2>2. {c} \in SUBSET Calls /\ b \cup {c} \in SUBSET Calls /\ d \in SUBSET (b \cup {c}) /\ {c} # {}
        /\ "added" \in Announces
    BY <1>2 DEF Announces
  <2> QED BY <1>2, <1>6, <2>1, <2>2
<1>8. CASE \E c \in b \ d : server.stage = "calls"
             /\ say = Says(Frame("item", {c}, "none", n), b, d \cup {c}, "calls")
  <2>1. PICK c \in b \ d : server.stage = "calls"
             /\ say = Says(Frame("item", {c}, "none", n), b, d \cup {c}, "calls")
    BY <1>8
  <2>2. {c} \in SUBSET Calls /\ d \cup {c} \in SUBSET b /\ {c} \subseteq b \ d /\ "item" \in Announces
    BY <1>2 DEF Announces
  <2> QED BY <1>2, <1>6, <2>1, <2>2
<1>9. CASE \E S \in SUBSET Calls : server.stage = "calls" /\ b \subseteq S
             /\ say = Says(Frame("completed", S, "none", n), S, S, "stopping")
  <2>1. PICK S \in SUBSET Calls : server.stage = "calls" /\ b \subseteq S
             /\ say = Says(Frame("completed", S, "none", n), S, S, "stopping")
    BY <1>9
  <2>2. S \in SUBSET S /\ "completed" \in Announces
    BY DEF Announces
  <2> QED BY <1>2, <1>6, <2>1, <2>2
<1>13. CASE \E S \in SUBSET Calls : server.stage = "calls" /\ d \subseteq S
              /\ say = Says(Frame("completed", S, Short, n), b \cup S, S, "stopping")
  <2>1. PICK S \in SUBSET Calls : server.stage = "calls" /\ d \subseteq S
             /\ say = Says(Frame("completed", S, Short, n), b \cup S, S, "stopping")
    BY <1>13
  <2> DEFINE g == b \cup S
  <2>2. S \in SUBSET g /\ g \in SUBSET Calls /\ "completed" \in Announces
    BY <1>2 DEF Announces
  <2>3. g = b \cup S /\ say = Says(Frame("completed", S, Short, n), g, S, "stopping")
    BY <2>1
  <2> HIDE DEF g
  <2> QED BY <1>2, <1>6, <2>1, <2>2, <2>3
<1>10. CASE server.stage = "calls" /\ say = Says(Frame("error", {}, "none", n), b, d, "failed")
  <2>1. {} \in SUBSET Calls /\ d \in SUBSET b /\ "error" \in Announces
    BY <1>2 DEF Announces
  <2> QED BY <1>2, <1>6, <1>10, <2>1
<1>11. CASE (server.stage = "stopping" \/ (server.stage = "calls" /\ b = d))
           /\ say = Says(Frame("done", {}, "none", 0), b, d, "over")
  <2> DEFINE f == Frame("done", {}, "none", 0)
  <2>1. f \in Frames /\ f.type = "done" /\ f.seq = 0 /\ f.reason = "none" /\ f.usage = "none"
    BY AFrame DEF FrameTypes
  <2>2. "over" \in {"calls", "failed"} \cup Finished /\ say = Says(f, b, d, "over")
    BY <1>2, <1>11
  <2> HIDE DEF f
  <2>3. f.type \notin Closing /\ f.reason # Short
    BY <2>1, ReasonIsTold DEF Closing
  <2>4. ASSUME NEW t \in Cores, t = After(f, b, d, "over") PROVE ResponsesSays(s, f, t)
    <3>1. server.counted \cup ({f.usage} \cap Once) = server.counted
      BY <2>1 DEF Once
    <3>2. (server.short \/ f.reason = Short) = server.short
      BY <1>2, <2>3
    <3>3. ~ (f.seq > server.seq)
      BY <1>2, <2>1
    <3>5. s = [begun |-> b, closed |-> d, stage |-> server.stage, seq |-> server.seq,
               short |-> server.short, counted |-> server.counted]
      BY DEF s, Core, b, d
    <3>6. t = [begun |-> b, closed |-> d, stage |-> "over", seq |-> server.seq,
               short |-> server.short, counted |-> server.counted]
      BY <2>4, <3>1, <3>2, <3>3 DEF After
    <3>4. t = [s EXCEPT !.stage = "over"]
      BY <3>5, <3>6
    <3> QED BY <1>2, <1>11, <2>1, <3>4 DEF ResponsesSays
  <2> QED BY <1>2, <1>4, <2>1, <2>2, <2>3, <2>4
<1>12. CASE \E f \in server.log : say = Says(f, b, d, server.stage)
  <2>1. PICK f \in server.log : say = Says(f, b, d, server.stage)
    BY <1>12
  <2>2. /\ f \in Frames /\ f.type \in Announces /\ f.seq \in 1 .. server.seq
        /\ f.usage = "none" /\ (f.reason = Short => server.short)
    BY DEF ServerInv, ServerType, Logged
  <2>3. ASSUME NEW t \in Cores, t = After(f, b, d, server.stage) PROVE ResponsesSays(s, f, t)
    <3>1. server.counted \cup ({f.usage} \cap Once) = server.counted
      BY <2>2 DEF Once
    <3>2. (server.short \/ f.reason = Short) = server.short
      BY <1>2, <2>2
    <3>3. ~ (f.seq > server.seq)
      BY <1>2, <2>2
    <3>4. t = s
      BY <2>3, <3>1, <3>2, <3>3 DEF After, s, Core, b, d
    <3> QED BY <1>2, <2>2, <3>4 DEF ResponsesSays
  <2>4. f.type \notin Closing
    BY <2>2 DEF Announces, Closing
  <2>5. (s.stage \in Finished => server.stage \in Finished /\ b = b /\ d = d)
        /\ (s.stage \in Finished /\ f.reason = Short => s.short)
        /\ server.stage \in {"calls", "failed"} \cup Finished
        /\ b \in SUBSET Calls /\ d \in SUBSET b /\ f.type \in Announces
    BY <1>2, <2>2
  <2>6. f \in Frames /\ f.usage = "none"
    BY <2>2
  <2> DEFINE x == server.stage
  <2>7. x \in {"calls", "failed"} \cup Finished /\ say = Says(f, b, d, x)
        /\ (s.stage \in Finished => x \in Finished)
    BY <2>1, <2>5
  <2>8. \A t \in Cores : t = After(f, b, d, x) => ResponsesSays(s, f, t)
    BY <2>3
  <2> HIDE DEF x
  <2> QED BY <1>4, <2>4, <2>5, <2>6, <2>7, <2>8
<1> QED BY <1>1, <1>5, <1>7, <1>8, <1>9, <1>10, <1>11, <1>12, <1>13

LEMMA MessagesIsSaid ==
  ASSUME ServerInv, wire = "messages", NEW say \in MessagesFrames
  PROVE  \E f \in Frames, t \in Cores : IsSaid(say, f, t)
<1> DEFINE b == server.begun
           d == server.closed
           s == Core(server)
           Goal == \E f \in Frames, t \in Cores : IsSaid(say, f, t)
           start == Counting(Frame("message_start", {}, "none", 0), "start")
<1> SUFFICES Goal
  OBVIOUS
<1>1. \/ say \in Other
      \/ server.stage = "calls" /\ b = d /\ "start" \notin server.counted
           /\ say = Says(start, b, b, "calls")
      \/ \E c \in Calls \ b : server.stage = "calls" /\ b = d
           /\ say = Says(Frame("start", {c}, "none", 0), b \cup {c}, d, "calls")
      \/ \E c \in b \ d : say = Says(Frame("stop", {c}, "none", 0), b, b, "calls")
      \/ server.stage = "calls" /\ b = d /\ say = Says(Frame("delta", {}, "none", 0), b, b, "calls")
      \/ \E y \in {"delta", "bare"}, r \in {Reason(b), Short} : server.stage = "calls" /\ b = d
           /\ say = Says(Frame(y, {}, r, 0), b, b, "stopping")
      \/ server.stage = "stopping" /\ say = Says(Frame("message_stop", {}, "none", 0), b, b, "over")
      \/ server.stage = "calls" /\ say = Says(Frame("error", {}, "none", 0), b, d, "failed")
      \/ server.stage = "stopping" /\ say = Says(Frame("error", {}, "none", 0), b, d, "over")
  <2> DEFINE between == InCalls /\ b = d
             A == {Says(Counting(Frame("message_start", {}, "none", 0), k), b, b, "calls") :
                     k \in {m \in {"start"} \ server.counted : between}}
             B == {Says(Frame("start", {c}, "none", 0), b \cup {c}, d, "calls") :
                     c \in {e \in Calls \ b : between /\ \A z \in Calls \ b : e <= z}}
             C == {Says(Frame("stop", {c}, "none", 0), b, b, "calls") : c \in b \ d}
             D == {Says(Frame("delta", {}, "none", 0), b, b, "calls") : x \in {t \in {"calls"} : between}}
             E == {Says(Frame(t, {}, r, 0), b, b, "stopping") :
                     t \in {u \in {"delta", "bare"} : between}, r \in {Reason(b), Short}}
             F == {Says(Frame("message_stop", {}, "none", 0), b, b, "over") :
                     x \in {server.stage} \cap {"stopping"}}
             G == {Says(Frame("error", {}, "none", 0), b, d, IF InCalls THEN "failed" ELSE "over") :
                     x \in {server.stage} \cap {"calls", "stopping"}}
  <2>1. MessagesFrames = Other \cup A \cup B \cup C \cup D \cup E \cup F \cup G
    BY DEF MessagesFrames
  <2>2. say \in A => server.stage = "calls" /\ b = d /\ "start" \notin server.counted
                     /\ say = Says(start, b, b, "calls")
    BY DEF InCalls
  <2>3. say \in B => \E c \in Calls \ b : server.stage = "calls" /\ b = d
                       /\ say = Says(Frame("start", {c}, "none", 0), b \cup {c}, d, "calls")
    BY DEF InCalls
  <2>4. say \in C => \E c \in b \ d : say = Says(Frame("stop", {c}, "none", 0), b, b, "calls")
    OBVIOUS
  <2>5. say \in D => server.stage = "calls" /\ b = d
                     /\ say = Says(Frame("delta", {}, "none", 0), b, b, "calls")
    BY DEF InCalls
  <2>6. say \in E => \E y \in {"delta", "bare"}, r \in {Reason(b), Short} :
                       server.stage = "calls" /\ b = d /\ say = Says(Frame(y, {}, r, 0), b, b, "stopping")
    <3>1. say \in E => \E y \in {u \in {"delta", "bare"} : between}, r \in {Reason(b), Short} :
                         say = Says(Frame(y, {}, r, 0), b, b, "stopping")
      OBVIOUS
    <3> HIDE DEF E
    <3> QED BY <3>1 DEF InCalls
  <2>7. say \in F => server.stage = "stopping" /\ say = Says(Frame("message_stop", {}, "none", 0), b, b, "over")
    OBVIOUS
  <2>8. say \in G => \/ server.stage = "calls" /\ say = Says(Frame("error", {}, "none", 0), b, d, "failed")
                     \/ server.stage = "stopping" /\ say = Says(Frame("error", {}, "none", 0), b, d, "over")
    BY DEF InCalls
  <2> HIDE DEF A, B, C, D, E, F, G
  <2> QED BY <2>1, <2>2, <2>3, <2>4, <2>5, <2>6, <2>7, <2>8
<1>2. /\ s \in Cores /\ s.begun = b /\ s.closed = d /\ s.stage = server.stage
      /\ s.counted = server.counted
      /\ b \in SUBSET Calls /\ d \in SUBSET b /\ (server.stage \in Finished => d = b)
      /\ server.seq \in Nat /\ ~ (0 > server.seq) /\ ~ (0 > 0)
      /\ "stopping" \in Finished /\ "over" \in Finished /\ "calls" \notin Finished
      /\ "failed" \notin Finished
  BY CoreOf DEF ServerInv, ServerType, Finished
<1>3. wire \in Wires /\ wire # "responses" /\ wire # "chat"
  BY DEF Wires
<1> DEFINE Fits(S, r, y, k, g, h, x) ==
             \A f \in Frames, t \in Cores :
               /\ f.type = y /\ f.calls = S /\ f.reason = r /\ f.usage = k
               /\ t.begun = g /\ t.closed = h /\ t.stage = x
               => MessagesSays(s, f, t)
<1> HIDE DEF s, b, d, Goal, start
<1>4. ASSUME NEW f \in Frames, NEW g \in SUBSET Calls, NEW h \in SUBSET g,
             NEW x \in {"calls", "failed"} \cup Finished,
             f.type \notin Closing, f.seq = 0,
             say = Says(f, g, h, x), x \in Finished => h = g,
             s.stage \in Finished => x \in Finished /\ g = b,
             s.stage \in Finished => f.reason # Short,
             Fits(f.calls, f.reason, f.type, f.usage, g, h, x)
      PROVE  Goal
  <2> DEFINE t == After(f, g, h, x)
  <2>1. t \in Cores /\ t.begun = g /\ t.closed = h /\ t.stage = x
    <3>1. IsAfter(t, f, g, h, x)
      BY <1>4, ACore
    <3> HIDE DEF t
    <3> QED BY <3>1 DEF IsAfter
  <2> HIDE DEF t
  <2>2. MessagesSays(s, f, t)
    BY <1>4, <2>1 DEF Fits
  <2>3. Speaks(wire, Core(server), f, After(f, g, h, x))
    BY <2>2 DEF Speaks, s, t
  <2>4. ~ (f.seq > 0)
    BY <1>4
  <2>5. /\ server.stage \in Finished => x \in Finished /\ g = server.begun
        /\ server.stage \in Finished => f.reason # Short
    BY <1>2, <1>4 DEF b
  <2> QED BY <1>3, <1>4, <2>3, <2>4, <2>5, AStep DEF Goal
(* The frames that count nothing by themselves.                            *)
<1>5. ASSUME NEW S \in SUBSET Calls, NEW r \in Told \cup {"none"},
             NEW y \in {"start", "stop", "delta", "bare", "message_stop", "error"},
             NEW g \in SUBSET Calls, NEW h \in SUBSET g, NEW x \in {"calls", "failed"} \cup Finished,
             say = Says(Frame(y, S, r, 0), g, h, x), x \in Finished => h = g,
             s.stage \in Finished => x \in Finished /\ g = b,
             s.stage \in Finished => r # Short,
             Fits(S, r, y, "none", g, h, x)
      PROVE  Goal
  <2> DEFINE f == Frame(y, S, r, 0)
  <2>1. f \in Frames /\ f.type = y /\ f.calls = S /\ f.reason = r /\ f.seq = 0 /\ f.usage = "none"
    BY AFrame DEF FrameTypes
  <2>2. say = Says(f, g, h, x)
    BY <1>5
  <2> HIDE DEF f, Fits
  <2>3. Fits(f.calls, f.reason, f.type, f.usage, g, h, x)
    BY <1>5, <2>1
  <2>4. f.type \notin Closing
    BY <2>1 DEF Closing
  <2>5. /\ x \in Finished => h = g
        /\ s.stage \in Finished => x \in Finished /\ g = b
        /\ s.stage \in Finished => f.reason # Short
    BY <1>5, <2>1
  <2> QED BY <1>4, <2>1, <2>2, <2>3, <2>4, <2>5
<1> HIDE DEF Fits
<1>6. CASE say \in Other
  BY <1>3, <1>6, OtherIsSaid DEF Goal
<1>7. {} \in SUBSET Calls /\ "none" \in Told \cup {"none"} /\ "none" # Short
      /\ d \in SUBSET b /\ b \in SUBSET b /\ b \in SUBSET Calls
  BY <1>2, ReasonIsTold
<1>8. CASE server.stage = "calls" /\ b = d /\ "start" \notin server.counted
           /\ say = Says(start, b, b, "calls")
  <2>1. start \in Frames /\ start.type = "message_start" /\ start.calls = {} /\ start.reason = "none"
        /\ start.seq = 0 /\ start.usage = "start"
    BY ACounted DEF start, FrameTypes, Counts
  <2>2. Fits({}, "none", "message_start", "start", b, b, "calls")
    BY <1>2, <1>8 DEF MessagesSays, Fits
  <2>3. "calls" \in {"calls", "failed"} \cup Finished /\ "calls" \notin Finished
        /\ s.stage \notin Finished
    BY <1>2, <1>8
  <2>4. Fits(start.calls, start.reason, start.type, start.usage, b, b, "calls")
    BY <2>1, <2>2
  <2>5. start.type \notin Closing /\ start.reason # Short
    BY <1>7, <2>1 DEF Closing
  <2> QED BY <1>4, <1>7, <1>8, <2>1, <2>3, <2>4, <2>5
<1>9. CASE \E c \in Calls \ b : server.stage = "calls" /\ b = d
             /\ say = Says(Frame("start", {c}, "none", 0), b \cup {c}, d, "calls")
  <2>1. PICK c \in Calls \ b : server.stage = "calls" /\ b = d
             /\ say = Says(Frame("start", {c}, "none", 0), b \cup {c}, d, "calls")
    BY <1>9
  <2>2. {c} \in SUBSET Calls /\ b \cup {c} \in SUBSET Calls /\ d \in SUBSET (b \cup {c})
    BY <1>2
  <2>3. Fits({c}, "none", "start", "none", b \cup {c}, d, "calls")
    BY <1>2, <2>1 DEF MessagesSays, Fits
  <2>4. "calls" \in {"calls", "failed"} \cup Finished /\ "calls" \notin Finished
        /\ s.stage \notin Finished
    BY <1>2, <2>1
  <2> QED BY <1>5, <1>7, <2>1, <2>2, <2>3, <2>4
<1>10. CASE \E c \in b \ d : say = Says(Frame("stop", {c}, "none", 0), b, b, "calls")
  <2>1. PICK c \in b \ d : say = Says(Frame("stop", {c}, "none", 0), b, b, "calls")
    BY <1>10
  <2>2. {c} \in SUBSET Calls /\ s.stage \notin Finished
    BY <1>2
  <2>3. Fits({c}, "none", "stop", "none", b, b, "calls")
    BY <1>2, <2>1 DEF MessagesSays, Fits
  <2>4. "calls" \in {"calls", "failed"} \cup Finished /\ "calls" \notin Finished
    BY <1>2
  <2> QED BY <1>5, <1>7, <2>1, <2>2, <2>3, <2>4
<1>11. CASE server.stage = "calls" /\ b = d /\ say = Says(Frame("delta", {}, "none", 0), b, b, "calls")
  <2>1. Fits({}, "none", "delta", "none", b, b, "calls")
    BY <1>2, <1>11 DEF MessagesSays, Fits
  <2>2. "calls" \in {"calls", "failed"} \cup Finished /\ "calls" \notin Finished
        /\ s.stage \notin Finished
    BY <1>2, <1>11
  <2> QED BY <1>5, <1>7, <1>11, <2>1, <2>2
<1>12. CASE \E y \in {"delta", "bare"}, r \in {Reason(b), Short} : server.stage = "calls" /\ b = d
              /\ say = Says(Frame(y, {}, r, 0), b, b, "stopping")
  <2>1. PICK y \in {"delta", "bare"}, r \in {Reason(b), Short} : server.stage = "calls" /\ b = d
             /\ say = Says(Frame(y, {}, r, 0), b, b, "stopping")
    BY <1>12
  <2>2. Fits({}, r, y, "none", b, b, "stopping")
    BY <1>2, <2>1 DEF MessagesSays, Fits
  <2>3. "stopping" \in {"calls", "failed"} \cup Finished /\ s.stage \notin Finished
        /\ r \in Told \cup {"none"}
    BY <1>2, <2>1, ReasonIsTold
  <2>4. CASE y = "delta"
    BY <1>5, <1>7, <2>1, <2>2, <2>3, <2>4
  <2>5. CASE y = "bare"
    BY <1>5, <1>7, <2>1, <2>2, <2>3, <2>5
  <2> QED BY <2>4, <2>5
<1>13. CASE server.stage = "stopping" /\ say = Says(Frame("message_stop", {}, "none", 0), b, b, "over")
  <2>1. Fits({}, "none", "message_stop", "none", b, b, "over")
    BY <1>2, <1>13 DEF MessagesSays, Fits
  <2>2. "over" \in {"calls", "failed"} \cup Finished /\ "over" \in Finished
    BY <1>2, <1>13
  <2> QED BY <1>5, <1>7, <1>13, <2>1, <2>2
<1>14. CASE server.stage = "calls" /\ say = Says(Frame("error", {}, "none", 0), b, d, "failed")
  <2>1. Fits({}, "none", "error", "none", b, d, "failed")
    BY <1>2, <1>14 DEF MessagesSays, Fits
  <2>2. "failed" \in {"calls", "failed"} \cup Finished /\ "failed" \notin Finished
        /\ s.stage \notin Finished
    BY <1>2, <1>14
  <2> QED BY <1>5, <1>7, <1>14, <2>1, <2>2
<1>15. CASE server.stage = "stopping" /\ say = Says(Frame("error", {}, "none", 0), b, d, "over")
  <2>1. Fits({}, "none", "error", "none", b, d, "over")
    BY <1>2, <1>15 DEF MessagesSays, Fits
  <2>2. "over" \in {"calls", "failed"} \cup Finished /\ "over" \in Finished /\ d = b
    BY <1>2, <1>15
  <2> QED BY <1>5, <1>7, <1>15, <2>1, <2>2
<1> QED BY <1>1, <1>6, <1>8, <1>9, <1>10, <1>11, <1>12, <1>13, <1>14, <1>15

-----------------------------------------------------------------------------
(* The invariant of the stream.                                            *)

NetInv ==
  /\ net \in Seq(Frames)
  /\ \A k \in 1 .. Len(net) : net[k].type \in Closing =>
       server.gone /\ \A j \in 1 .. Len(net) : k < j => net[j].type = "eof"
  /\ cut \in {"none", "idle", "transport"}
  /\ cut = "transport" => server.gone /\ \A k \in 1 .. Len(net) : net[k].type = "eof"
  /\ cut = "idle" => terminated
  /\ terminated => at = "parked"

(* Until the stream is cut, parser and consumer know what the server had   *)
(* said before the frames that are on their way.                           *)
Keeps(h) == IsPath(wire, net, Core(server), h) /\ (cut = "none" => Match(wire, h[0], parser, out))

StreamInv ==
  /\ wire \in Wires
  /\ ServerInv
  /\ NetInv
  /\ \E h : Keeps(h)
  /\ parser \in ParserType
  /\ Delivered(wire, server, parser, out, cut)
  /\ wire = "chat" => InOrder(out)

(* What all other steps do to the stream.                                  *)
Elsewhere == /\ UNCHANGED <<wire, net, server, parser, out, cut>>
             /\ terminated => terminated'
             /\ terminated' => at' = "parked"

LEMMA ErrorElsewhere ==
  ASSUME NEW a, NEW known, AfterError(a, known)
  PROVE  at' = "parked"
BY DEF AfterError, Sleep, WithoutOptions, Fail

LEMMA OtherSteps ==
  ASSUME NetInv, [Next]_vars
  PROVE  Elsewhere \/ ServerSends \/ ConnectionEnds \/ ReadStalled \/ ReadFrame \/ ReadEnd
<1>0. terminated => at = "parked"
  BY DEF NetInv
<1>1. CASE UNCHANGED vars
  BY <1>0, <1>1 DEF vars, stream, watch, task, Elsewhere
<1>2. CASE Register
  BY <1>2 DEF Register, watch, stream, Elsewhere
<1>3. CASE CheckSleep
  BY <1>0, <1>3, ErrorElsewhere DEF CheckSleep, Pending, watch, stream, Elsewhere
<1>4. CASE BodyRead
  BY <1>0, <1>4, ErrorElsewhere DEF BodyRead, watch, stream, Elsewhere
<1>5. CASE ReadNothing
  BY <1>0, <1>5 DEF ReadNothing, Pending, watch, stream, Elsewhere
<1>6. CASE AfterEnd
  BY <1>6 DEF AfterEnd, Over, Elsewhere
<1>7. CASE Watchdog
  BY <1>0, <1>7 DEF Watchdog, DogHears, DogFires, DogWakes, DogLeaves, task, stream, Elsewhere
<1>8. CASE Timer
  BY <1>0, <1>8 DEF Timer, TimerWakes, TimerSends, task, watch, stream, Elsewhere
<1>9. CASE StrayWakes
  BY <1>0, <1>9 DEF StrayWakes, watch, stream, Elsewhere
<1>10. CASE Drop
  BY <1>0, <1>10 DEF Drop, watch, stream, Elsewhere
<1>11. CASE BodyArrives
  BY <1>0, <1>11 DEF BodyArrives, watch, stream, Elsewhere
<1>12. CASE NoConnection
  BY <1>0, <1>12, ErrorElsewhere DEF NoConnection, watch, stream, Elsewhere
<1>13. CASE Success
  BY <1>0, <1>13 DEF Success, stream, Elsewhere
<1>14. CASE \E a \in {"retry", "fatal", "rejected"} : Refused(a)
  BY <1>0, <1>14 DEF Refused, Sleep, watch, stream, Elsewhere
<1> QED BY <1>1, <1>2, <1>3, <1>4, <1>5, <1>6, <1>7, <1>8, <1>9, <1>10, <1>11, <1>12, <1>13, <1>14
        DEF Next, Poll

LEMMA StreamStarts == Init => StreamInv
<1> SUFFICES ASSUME Init PROVE StreamInv
  OBVIOUS
<1>1. /\ wire \in Wires /\ net = <<>> /\ server = NoTurn /\ parser = NoParser /\ out = <<>>
      /\ cut = "none" /\ terminated = FALSE /\ at = "parked"
  BY DEF Init
<1>2. /\ server \in ServerType /\ server.begun = {} /\ server.closed = {}
      /\ server.stage = "calls" /\ server.seq = 0 /\ server.log = {}
      /\ server.short = FALSE /\ server.counted = {}
  BY <1>1 DEF NoTurn, ServerType
<1>3. "calls" \notin Finished
  BY DEF Finished
<1>4. ServerInv
  BY <1>2, <1>3 DEF ServerInv
<1>5. net \in Seq(Frames) /\ Len(net) = 0
  BY <1>1
<1>6. NetInv
  BY <1>1, <1>5 DEF NetInv
<1>7. parser \in ParserType /\ parser.open = {} /\ parser.completed = {} /\ parser.sawTool = FALSE
      /\ parser.last = 0 /\ parser.pending = "none" /\ parser.stopped = FALSE
  BY <1>1 DEF NoParser, ParserType
<1>8. /\ Core(server) \in Cores /\ Core(server).begun = {} /\ Core(server).closed = {}
      /\ Core(server).stage = "calls" /\ Core(server).seq = 0
      /\ ~ Core(server).short /\ Core(server).counted = {}
  BY <1>2, <1>4, CoreOf
<1>9. Match(wire, Core(server), parser, out)
  <2>1. Tidy(out, {}, {}, "none", "none")
    BY <1>1, NothingIsTidy
  <2>2. ChatMatch(Core(server), parser, out)
    BY <1>7, <1>8, <2>1 DEF ChatMatch
  <2>3. ResponsesMatch(Core(server), parser, out)
    BY <1>7, <1>8, <2>1 DEF ResponsesMatch
  <2>4. MessagesMatch(Core(server), parser, out)
    BY <1>7, <1>8, <2>1 DEF MessagesMatch, StopCounts
  <2> QED BY <1>1, <2>2, <2>3, <2>4 DEF Match, Wires
<1>10. \E h : Keeps(h)
  <2> DEFINE h == [k \in {0} |-> Core(server)]
  <2>1. h \in [0 .. Len(net) -> Cores] /\ h[0] = Core(server) /\ h[Len(net)] = Core(server)
    BY <1>5, <1>8
  <2> HIDE DEF h
  <2>2. (\A k \in 1 .. Len(net) : Tells(wire, h[k - 1], net[k], h[k]))
        /\ \A k \in 0 .. Len(net) : h[k] = Core(server)
    BY <1>5, <2>1
  <2>3. IsPath(wire, net, Core(server), h)
    <3>1. Lasts(wire, Core(server), Core(server))
      BY DEF Lasts
    <3> QED BY <2>1, <2>2, <3>1 DEF IsPath
  <2>4. Keeps(h)
    BY <1>9, <2>1, <2>3 DEF Keeps
  <2> QED BY <2>4
<1>11. Delivered(wire, server, parser, out, cut) /\ (wire = "chat" => InOrder(out))
  <2>1. Delivered(wire, Core(server), parser, out, "none") /\ (wire = "chat" => InOrder(out))
    BY <1>1, <1>8, <1>9, MatchDelivers
  <2>2. Lasts(wire, Core(server), server)
    BY <1>2, <1>3, <1>8 DEF Lasts
  <2> QED BY <1>1, <2>1, <2>2, DeliveredLater
<1> QED BY <1>1, <1>4, <1>6, <1>7, <1>10, <1>11 DEF StreamInv

LEMMA ElsewhereKeepsIt ==
  ASSUME StreamInv, Elsewhere
  PROVE  StreamInv'
<1>1. ServerInv'
  BY DEF StreamInv, Elsewhere, ServerInv
<1>2. NetInv'
  BY DEF StreamInv, Elsewhere, NetInv
<1>3. (\E h : Keeps(h))'
  <2>1. PICK h : Keeps(h)
    BY DEF StreamInv
  <2>2. Keeps(h)'
    BY <2>1 DEF Keeps, Elsewhere
  <2> QED BY <2>2
<1>4. /\ wire' \in Wires /\ parser' \in ParserType
      /\ Delivered(wire', server', parser', out', cut')
      /\ wire' = "chat" => InOrder(out')
  BY DEF StreamInv, Elsewhere
<1> QED BY <1>1, <1>2, <1>3, <1>4 DEF StreamInv

(* Frames arrive that say what the server says.                            *)
LEMMA FrameArrives ==
  ASSUME NetInv, NEW f \in Frames, f.type \in Closing => server'.gone,
         ~ server.gone, net' = net \o <<f>>, UNCHANGED <<cut, terminated>>,
         terminated' => at' = "parked"
  PROVE  NetInv'
<1> DEFINE n == Len(net)
<1>1. /\ net \in Seq(Frames) /\ cut \in {"none", "idle", "transport"} /\ cut # "transport"
      /\ (cut = "idle" => terminated)
      /\ \A k \in 1 .. n : net[k].type \notin Closing
  BY DEF NetInv
<1>2. /\ n \in Nat /\ net' \in Seq(Frames) /\ Len(net') = n + 1
      /\ (\A k \in 1 .. n : net'[k] = net[k]) /\ net'[n + 1] = f
  BY <1>1
<1> HIDE DEF n
<1>3. ASSUME NEW k \in 1 .. Len(net'), net'[k].type \in Closing
      PROVE  server'.gone /\ \A j \in 1 .. Len(net') : k < j => net'[j].type = "eof"
  <2>1. k = n + 1
    BY <1>1, <1>2, <1>3
  <2> QED BY <1>2, <1>3, <2>1
<1> QED BY <1>1, <1>2, <1>3 DEF NetInv

LEMMA ServerSays ==
  ASSUME ServerInv, wire \in Wires, ServerSends
  PROVE  \E f \in Frames, t \in Cores :
           /\ net' = net \o <<f>> /\ UNCHANGED <<wire, at, terminated, parser, out, cut>>
           /\ ~ server.gone /\ f.type \notin Closing
           /\ Tells(wire, Core(server), f, t) /\ t = Core(server')
           /\ ServerInv'
<1>1. PICK say \in ServerFrames :
        Arrives(<<say.frame>>,
                [say.next EXCEPT !.frames = @ + 1,
                                 !.seq = IF say.frame.seq > @ THEN say.frame.seq ELSE @,
                                 !.log = IF say.frame.seq > 0 THEN @ \cup {say.frame} ELSE @])
  BY DEF ServerSends
<1>2. PICK f \in Frames, t \in Cores : IsSaid(say, f, t)
  <2>1. CASE wire = "chat"
    BY <1>1, <2>1, ChatIsSaid DEF ServerFrames
  <2>2. CASE wire = "responses"
    BY <1>1, <2>2, ResponsesIsSaid DEF ServerFrames
  <2>3. CASE wire = "messages"
    BY <1>1, <2>3, MessagesIsSaid DEF ServerFrames
  <2> QED BY <2>1, <2>2, <2>3 DEF Wires
<1>3. /\ say = Says(f, t.begun, t.closed, t.stage)
      /\ t.seq = IF f.seq > server.seq THEN f.seq ELSE server.seq
      /\ Tells(wire, Core(server), f, t)
      /\ f.type \notin Closing /\ (f.seq > 0 => f.type \in Announces /\ f.usage = "none")
      /\ t.closed \subseteq t.begun
      /\ wire = "messages" /\ t.stage \in Finished => t.closed = t.begun
  BY <1>2 DEF IsSaid
<1> DEFINE v == [server EXCEPT !.begun = t.begun, !.closed = t.closed, !.stage = t.stage,
                              !.short = @ \/ f.reason = Short,
                              !.counted = @ \cup ({f.usage} \cap Once)]
           z == [v EXCEPT !.frames = @ + 1,
                          !.seq = IF f.seq > @ THEN f.seq ELSE @,
                          !.log = IF f.seq > 0 THEN @ \cup {f} ELSE @]
<1>4. say.frame = f /\ say.next = v
  BY <1>3 DEF Says
<1>5. net' = net \o <<f>> /\ server' = z /\ UNCHANGED <<wire, at, terminated, parser, out, cut>>
  BY <1>1, <1>4 DEF Arrives, watch
<1>6. /\ v \in ServerType /\ v.begun = t.begun /\ v.closed = t.closed /\ v.stage = t.stage
      /\ v.seq = server.seq /\ v.log = server.log /\ v.gone = server.gone
      /\ v.short = t.short /\ v.counted = t.counted
  <2>1. /\ t.short = (server.short \/ f.reason = Short) /\ t.short \in BOOLEAN
        /\ t.counted = server.counted \cup ({f.usage} \cap Once)
    BY <1>3, CoreOf DEF Tells, Ticks, Cores
  <2>2. v = [server EXCEPT !.begun = t.begun, !.closed = t.closed, !.stage = t.stage,
                           !.short = t.short, !.counted = t.counted]
    BY <2>1 DEF ServerInv, ServerType
  <2> HIDE DEF v
  <2> QED BY <2>2 DEF ServerInv, ServerType, Cores
<1> HIDE DEF v
<1>7. /\ z \in ServerType /\ z.begun = t.begun /\ z.closed = t.closed /\ z.stage = t.stage
      /\ z.seq = t.seq /\ z.gone = server.gone /\ z.short = t.short /\ z.counted = t.counted
      /\ z.log = IF f.seq > 0 THEN server.log \cup {f} ELSE server.log
  <2>1. /\ v.frames + 1 \in Nat /\ t.seq \in Nat
        /\ (IF f.seq > 0 THEN server.log \cup {f} ELSE server.log) \in SUBSET Frames
    BY <1>6 DEF ServerType, Cores
  <2> QED BY <1>3, <1>6, <2>1 DEF ServerType
<1> HIDE DEF z
<1>8. t = Core(server')
  <2>1. t = [begun |-> t.begun, closed |-> t.closed, stage |-> t.stage, seq |-> t.seq,
             short |-> t.short, counted |-> t.counted]
    BY DEF Cores
  <2> QED BY <1>5, <1>7, <2>1 DEF Core
<1>9. ServerInv'
  <2>1. server' \in ServerType /\ server'.closed \subseteq server'.begun
        /\ (wire' = "messages" /\ server'.stage \in Finished => server'.closed = server'.begun)
    BY <1>3, <1>5, <1>7
  <2>3. server.short => server'.short
    BY <1>3, <1>5, <1>7, CoreOf DEF Tells, Ticks
  <2>4. f.reason = Short => server'.short
    BY <1>3, <1>5, <1>7 DEF Tells, Ticks
  <2>2. ASSUME NEW g \in server'.log PROVE Logged(g, server')
    <3>1. server.seq \in Nat /\ f.seq \in Nat /\ server'.seq = t.seq /\ server.seq <= t.seq
          /\ f.seq <= t.seq /\ server'.seq \in Nat
      BY <1>3, <1>5, <1>7 DEF ServerInv, ServerType, Frames
    <3>2. CASE g \in server.log
      <4>1. /\ g.type \in Announces /\ g.seq \in 1 .. server.seq /\ g.usage = "none"
            /\ g.reason = Short => server.short
        BY <3>2 DEF ServerInv, Logged
      <4>2. g.seq \in Nat /\ 1 <= g.seq /\ g.seq <= server.seq
        BY <3>1, <4>1
      <4>3. g.seq \in 1 .. server'.seq
        BY <3>1, <4>2
      <4> QED BY <2>3, <4>1, <4>3 DEF Logged
    <3>3. CASE g = f /\ f.seq > 0
      <4>1. g.seq \in 1 .. server'.seq
        BY <3>1, <3>3
      <4> QED BY <1>3, <2>4, <3>3, <4>1 DEF Logged
    <3> QED BY <1>5, <1>7, <2>2, <3>2, <3>3
  <2> QED BY <2>1, <2>2 DEF ServerInv
<1>10. ~ server.gone
  BY DEF ServerSends
<1> QED BY <1>3, <1>5, <1>8, <1>9, <1>10

LEMMA ServerKeepsIt ==
  ASSUME StreamInv, ServerSends
  PROVE  StreamInv'
<1>1. PICK f \in Frames, t \in Cores :
           /\ net' = net \o <<f>> /\ UNCHANGED <<wire, at, terminated, parser, out, cut>>
           /\ ~ server.gone /\ f.type \notin Closing
           /\ Tells(wire, Core(server), f, t) /\ t = Core(server')
           /\ ServerInv'
  BY ServerSays DEF StreamInv
<1>2. NetInv'
  <2>1. terminated' => at' = "parked"
    BY <1>1 DEF StreamInv, NetInv
  <2> QED BY <1>1, <2>1, FrameArrives DEF StreamInv
<1>3. (\E h : Keeps(h))'
  <2>1. PICK h : Keeps(h)
    BY DEF StreamInv
  <2>2. PICK g : IsPath(wire, net \o <<f>>, t, g) /\ g[0] = h[0]
    BY <1>1, <2>1, PathGrows DEF Keeps, StreamInv, NetInv
  <2>3. Keeps(g)'
    BY <1>1, <2>1, <2>2 DEF Keeps
  <2> QED BY <2>3
<1>4. /\ wire' \in Wires /\ parser' \in ParserType
      /\ Delivered(wire', server', parser', out', cut')
      /\ wire' = "chat" => InOrder(out')
  <2>1. Lasts(wire, server, server')
    BY <1>1 DEF Tells, Core, Lasts, ReasonOf, CallsOf
  <2>2. Delivered(wire, server', parser, out, cut)
    BY <2>1, DeliveredLater DEF StreamInv
  <2> QED BY <1>1, <2>2 DEF StreamInv
<1> QED BY <1>1, <1>2, <1>3, <1>4 DEF StreamInv

LEMMA OneAndOne ==
  ASSUME NEW S, NEW n \in Seq(S), NEW a \in S, NEW b \in S
  PROVE  n \o <<a>> \in Seq(S) /\ (n \o <<a>>) \o <<b>> = n \o <<a, b>>
<1>1. <<a>> \in Seq(S) /\ <<b>> \in Seq(S)
  OBVIOUS
<1>2. <<a>> \o <<b>> = <<a, b>>
  <2>1. Len(<<a>>) = 1 /\ Len(<<b>>) = 1 /\ <<a>>[1] = a /\ <<b>>[1] = b
    OBVIOUS
  <2> DEFINE l == <<a>> \o <<b>>
             r == <<a, b>>
  <2>2. l \in Seq(S) /\ Len(l) = 2 /\ l[1] = a /\ l[2] = b
    BY <1>1, <2>1, ConcatProperties
  <2>3. r \in Seq(S) /\ Len(r) = 2 /\ r[1] = a /\ r[2] = b
    OBVIOUS
  <2> HIDE DEF l, r
  <2>4. \A i \in 1 .. Len(l) : l[i] = r[i]
    BY <2>2, <2>3
  <2>5. l = r
    BY <2>2, <2>3, <2>4, SeqEqual
  <2> QED BY <2>5 DEF l, r
<1>3. n \o <<a>> \in Seq(S)
  BY <1>1, ConcatProperties
<1>4. (n \o <<a>>) \o <<b>> = n \o (<<a>> \o <<b>>)
  BY <1>1, ConcatAssociative
<1> QED BY <1>2, <1>3, <1>4

LEMMA ConnectionKeepsIt ==
  ASSUME StreamInv, ConnectionEnds
  PROVE  StreamInv'
<1> DEFINE eof    == Frame("eof", {}, "none", 0)
           broken == Frame("broken", {}, "none", 0)
<1>1. PICK more \in {<<eof>>, <<broken, eof>>} : Arrives(more, [server EXCEPT !.gone = TRUE])
  BY DEF ConnectionEnds
<1>2. /\ eof \in Frames /\ broken \in Frames /\ eof.type = "eof" /\ broken.type = "broken"
      /\ eof.type \in Closing /\ broken.type \in Closing
      /\ eof.reason = "none" /\ broken.reason = "none" /\ eof.usage = "none" /\ broken.usage = "none"
  BY AFrame DEF Closing, FrameTypes
<1> HIDE DEF eof, broken
<1>3. /\ net' = net \o more /\ UNCHANGED <<wire, at, terminated, parser, out, cut>>
      /\ server' = [server EXCEPT !.gone = TRUE] /\ ~ server.gone
  BY <1>1 DEF Arrives, watch, ConnectionEnds
<1>4. /\ server' \in ServerType /\ server'.gone /\ server'.begun = server.begun
      /\ server'.closed = server.closed /\ server'.stage = server.stage /\ server'.seq = server.seq
      /\ server'.log = server.log /\ server'.short = server.short /\ server'.counted = server.counted
  BY <1>3 DEF StreamInv, ServerInv, ServerType
<1>5. Core(server') = Core(server) /\ Core(server) \in Cores
  BY <1>4, CoreOf DEF Core, StreamInv
<1>6. ServerInv'
  BY <1>3, <1>4 DEF StreamInv, ServerInv, Logged
<1>7. \A f \in {eof, broken} : Tells(wire, Core(server), f, Core(server))
  <2>1. Core(server).short \in BOOLEAN
    BY <1>5 DEF Cores
  <2>2. ASSUME NEW f \in {eof, broken} PROVE Ticks(Core(server), f, Core(server))
    <3>1. f.reason # Short /\ f.usage \notin Once
      BY <1>2, ReasonIsTold DEF Once
    <3> QED BY <2>1, <3>1 DEF Ticks
  <2> QED BY <1>2, <2>2 DEF Tells, Lasts
<1>8. net \in Seq(Frames) /\ Len(net) \in Nat
  BY DEF StreamInv, NetInv
<1>9. NetInv'
  <2> DEFINE n == Len(net)
  <2>1. /\ net' \in Seq(Frames) /\ n \in Nat
        /\ \A k \in 1 .. n : net'[k] = net[k]
        /\ \/ Len(net') = n + 1 /\ net'[n + 1] = eof
           \/ Len(net') = n + 2 /\ net'[n + 1] = broken /\ net'[n + 2] = eof
    <3>1. CASE more = <<eof>>
      BY <1>2, <1>3, <1>8, <3>1
    <3>2. CASE more = <<broken, eof>>
      BY <1>2, <1>3, <1>8, <3>2
    <3> QED BY <3>1, <3>2
  <2>2. /\ cut \in {"none", "idle", "transport"} /\ cut # "transport"
        /\ (cut = "idle" => terminated) /\ (terminated => at = "parked")
        /\ \A k \in 1 .. n : net[k].type \notin Closing
    BY <1>3 DEF StreamInv, NetInv
  <2> HIDE DEF n
  <2>3. ASSUME NEW k \in 1 .. Len(net'), net'[k].type \in Closing
        PROVE  server'.gone /\ \A j \in 1 .. Len(net') : k < j => net'[j].type = "eof"
    <3>1. k = n + 1 \/ k = n + 2
      BY <2>1, <2>2, <2>3
    <3> QED BY <1>2, <1>4, <2>1, <3>1
  <2> QED BY <1>3, <2>1, <2>2, <2>3 DEF NetInv
<1>10. (\E h : Keeps(h))'
  <2>1. PICK h : Keeps(h)
    BY DEF StreamInv
  <2>2. \E g : IsPath(wire, net \o more, Core(server), g) /\ g[0] = h[0]
    <3>1. CASE more = <<eof>>
      BY <1>2, <1>5, <1>7, <1>8, <2>1, <3>1, PathGrows DEF Keeps
    <3>2. CASE more = <<broken, eof>>
      <4>1. PICK q \in Seq(Frames) : q = net \o <<broken>> /\ q \o <<eof>> = net \o <<broken, eof>>
        <5>1. net \o <<broken>> \in Seq(Frames) /\ (net \o <<broken>>) \o <<eof>> = net \o <<broken, eof>>
          BY <1>2, <1>8, OneAndOne
        <5> QED BY <5>1
      <4>2. q \o <<eof>> = net \o more
        BY <3>2, <4>1
      <4>3. PICK g : IsPath(wire, q, Core(server), g) /\ g[0] = h[0]
        BY <1>2, <1>5, <1>7, <1>8, <2>1, <4>1, PathGrows DEF Keeps
      <4>4. PICK e : IsPath(wire, q \o <<eof>>, Core(server), e) /\ e[0] = g[0]
        BY <1>2, <1>5, <1>7, <4>3, PathGrows
      <4> QED BY <4>2, <4>3, <4>4
    <3> QED BY <3>1, <3>2
  <2>3. PICK g : IsPath(wire, net \o more, Core(server), g) /\ g[0] = h[0]
    BY <2>2
  <2>4. Keeps(g)'
    BY <1>3, <1>5, <2>1, <2>3 DEF Keeps
  <2> QED BY <2>4
<1>11. /\ wire' \in Wires /\ parser' \in ParserType
       /\ Delivered(wire', server', parser', out', cut')
       /\ wire' = "chat" => InOrder(out')
  <2>1. Lasts(wire, server, server')
    BY <1>4 DEF Lasts, ReasonOf, CallsOf
  <2>2. Delivered(wire, server', parser, out, cut)
    BY <2>1, DeliveredLater DEF StreamInv
  <2> QED BY <1>3, <2>2 DEF StreamInv
<1> QED BY <1>3, <1>6, <1>9, <1>10, <1>11 DEF StreamInv

(* The frames that are left when one has been read.                        *)
LEMMA OneLess ==
  ASSUME NetInv, net # <<>>, net' = Tail(net), UNCHANGED server,
         cut' = cut \/ (cut' = "transport" /\ Head(net).type \in Closing),
         terminated => terminated', terminated' => at' = "parked"
  PROVE  NetInv'
<1> DEFINE n == Len(net)
<1>1. /\ n \in Nat /\ n > 0 /\ net \in Seq(Frames) /\ net' \in Seq(Frames) /\ Len(net') = n - 1
      /\ \A k \in 1 .. n - 1 : net'[k] = net[k + 1] /\ k + 1 \in 1 .. n
      /\ Head(net) = net[1]
  BY DEF NetInv
<1>2. /\ \A k \in 1 .. n : net[k].type \in Closing =>
           server.gone /\ \A j \in 1 .. n : k < j => net[j].type = "eof"
      /\ cut \in {"none", "idle", "transport"}
      /\ cut = "transport" => server.gone /\ \A k \in 1 .. n : net[k].type = "eof"
      /\ cut = "idle" => terminated
  BY DEF NetInv
<1> HIDE DEF n
<1>3. ASSUME NEW k \in 1 .. n - 1, net'[k].type \in Closing
      PROVE  server'.gone /\ \A j \in 1 .. n - 1 : k < j => net'[j].type = "eof"
  <2>1. server.gone /\ \A j \in 1 .. n : k + 1 < j => net[j].type = "eof"
    BY <1>1, <1>2, <1>3
  <2>2. ASSUME NEW j \in 1 .. n - 1, k < j PROVE net'[j].type = "eof"
    <3>1. k + 1 < j + 1
      BY <1>1, <2>2
    <3> QED BY <1>1, <2>1, <3>1
  <2> QED BY <2>1, <2>2
<1>4. ASSUME cut' = "transport" PROVE server'.gone /\ \A k \in 1 .. n - 1 : net'[k].type = "eof"
  <2>1. CASE cut = "transport"
    BY <1>1, <1>2, <2>1
  <2>2. CASE Head(net).type \in Closing
    <3>1. 1 \in 1 .. n /\ \A k \in 1 .. n - 1 : 1 < k + 1
      BY <1>1
    <3> QED BY <1>1, <1>2, <2>2, <3>1
  <2> QED BY <1>4, <2>1, <2>2
<1> QED BY <1>1, <1>2, <1>3, <1>4 DEF NetInv

-----------------------------------------------------------------------------
(* Reading.                                                                *)

LEMMA StalledKeepsIt ==
  ASSUME StreamInv, ReadStalled
  PROVE  StreamInv'
<1> DEFINE r == Broken(wire, parser, "idle")
<1>1. /\ UNCHANGED <<wire, net, server>> /\ terminated' = TRUE /\ cut' = "idle"
      /\ parser' = r.parser /\ out' = out \o r.events /\ at' = "parked"
  BY DEF ReadStalled, Give
<1>2. /\ r.parser \in ParserType
      /\ Delivered(wire, server, r.parser, out \o r.events, "idle")
      /\ wire = "chat" => InOrder(out \o r.events)
  BY BrokenDelivers DEF StreamInv
<1> HIDE DEF r
<1>3. ServerInv' /\ NetInv'
  BY <1>1 DEF StreamInv, ServerInv, NetInv
<1>4. (\E h : Keeps(h))'
  <2>1. PICK h : Keeps(h)
    BY DEF StreamInv
  <2>2. Keeps(h)'
    BY <1>1, <2>1 DEF Keeps
  <2> QED BY <2>2
<1>5. wire' \in Wires
  BY <1>1 DEF StreamInv
<1> QED BY <1>1, <1>2, <1>3, <1>4, <1>5 DEF StreamInv

(* A parser that reads has taken every frame so far.                       *)
LEMMA ReaderIsCurrent ==
  ASSUME NetInv, at = "check", net # <<>>, Head(net).type # "eof"
  PROVE  cut = "none"
<1>1. net \in Seq(Frames) /\ Head(net) = net[1] /\ 1 \in 1 .. Len(net)
  BY DEF NetInv
<1> QED BY <1>1 DEF NetInv

LEMMA ReadingKeepsIt ==
  ASSUME StreamInv, ReadFrame
  PROVE  StreamInv'
<1>1. /\ UNCHANGED <<wire, server, terminated>> /\ net' = Tail(net) /\ at = "check" /\ at' = "parked"
      /\ net # <<>> /\ Head(net).type # "eof"
  BY DEF ReadFrame, Give
<1>2. cut = "none" /\ net \in Seq(Frames) /\ Head(net) \in Frames /\ wire \in Wires
  BY <1>1, ReaderIsCurrent DEF StreamInv, NetInv
<1>3. PICK h : Keeps(h)
  BY DEF StreamInv
<1>4. IsPath(wire, net, Core(server), h) /\ Match(wire, h[0], parser, out)
  BY <1>2, <1>3 DEF Keeps
<1>5. PICK g : /\ IsPath(wire, Tail(net), Core(server), g) /\ g[0] \in Cores
               /\ Tells(wire, h[0], Head(net), g[0])
  BY <1>1, <1>2, <1>4, PathShrinks
<1>6. h[0] \in Cores
  BY <1>2, <1>4 DEF IsPath
<1>7. ServerInv' /\ wire' \in Wires
  BY <1>1 DEF StreamInv, ServerInv
<1>8. CASE Head(net).type = "broken"
  <2> DEFINE r == Broken(wire, parser, "transport")
  <2>1. cut' = "transport" /\ parser' = r.parser /\ out' = out \o r.events
    BY <1>8 DEF ReadFrame, Give
  <2>2. /\ r.parser \in ParserType
        /\ Delivered(wire, server, r.parser, out \o r.events, "transport")
        /\ wire = "chat" => InOrder(out \o r.events)
    BY BrokenDelivers DEF StreamInv
  <2> HIDE DEF r
  <2>3. NetInv'
    <3>1. NetInv /\ Head(net).type \in Closing
      BY <1>8 DEF StreamInv, Closing
    <3>2. terminated => terminated'
      BY <1>1
    <3> QED BY <1>1, <2>1, <3>1, <3>2, OneLess
  <2>4. Keeps(g)'
    BY <1>1, <1>5, <2>1 DEF Keeps
  <2>5. (\E e : Keeps(e))'
    BY <2>4
  <2> QED BY <1>1, <1>7, <2>1, <2>2, <2>3, <2>5 DEF StreamInv
<1>9. CASE Head(net).type # "broken"
  <2> DEFINE r == Parse(wire, parser, Head(net))
  <2>1. cut' = cut /\ parser' = r.parser /\ out' = out \o r.events
    BY <1>9 DEF ReadFrame, Give
  <2>2. Head(net).type \notin Closing
    BY <1>1, <1>9 DEF Closing
  <2>3. r.parser \in ParserType /\ Match(wire, g[0], r.parser, out \o r.events)
    BY <1>2, <1>4, <1>5, <1>6, <2>2, FrameIsTaken DEF StreamInv
  <2> HIDE DEF r
  <2>4. NetInv'
    <3>1. NetInv /\ (terminated => terminated')
      BY <1>1 DEF StreamInv
    <3> QED BY <1>1, <2>1, <3>1, OneLess
  <2>5. Keeps(g)'
    BY <1>1, <1>5, <2>1, <2>3 DEF Keeps
  <2>6. (\E e : Keeps(e))'
    BY <2>5
  <2>7. Delivered(wire, g[0], r.parser, out \o r.events, "none")
        /\ (wire = "chat" => InOrder(out \o r.events))
    BY <1>2, <1>5, <2>3, MatchDelivers
  <2>8. Lasts(wire, g[0], server)
    <3>1. Tail(net) \in Seq(Frames) /\ 0 \in 0 .. Len(Tail(net))
      BY <1>1, <1>2
    <3>2. Core(server).stage = server.stage /\ Core(server).begun = server.begun
          /\ Core(server).closed = server.closed /\ Core(server).short = server.short
      BY DEF Core
    <3>3. Lasts(wire, g[0], Core(server))
      BY <1>5, <3>1 DEF IsPath
    <3>4. ReasonOf(wire, Core(server)) = ReasonOf(wire, server)
          /\ CallsOf(wire, Core(server)) = CallsOf(wire, server)
      BY <3>2, ReasonKept
    <3> QED BY <3>2, <3>3, <3>4 DEF Lasts
  <2>9. Delivered(wire, server, r.parser, out \o r.events, "none")
    BY <2>7, <2>8, DeliveredLater
  <2> QED BY <1>1, <1>2, <1>7, <2>1, <2>3, <2>4, <2>6, <2>7, <2>9 DEF StreamInv
<1> QED BY <1>8, <1>9

LEMMA EndKeepsIt ==
  ASSUME StreamInv, ReadEnd
  PROVE  StreamInv'
<1>1. /\ UNCHANGED <<wire, server, parser, out, cut>> /\ net' = Tail(net)
      /\ terminated' = TRUE /\ at' = "parked"
      /\ net # <<>> /\ Head(net).type = "eof"
  BY DEF ReadEnd, Over
<1>2. net \in Seq(Frames)
  BY DEF StreamInv, NetInv
<1>3. NetInv'
  BY <1>1, OneLess DEF StreamInv
<1>4. PICK h : Keeps(h)
  BY DEF StreamInv
<1>5. PICK g : /\ IsPath(wire, Tail(net), Core(server), g) /\ g[0] \in Cores
               /\ Tells(wire, h[0], Head(net), g[0])
  BY <1>1, <1>2, <1>4, PathShrinks DEF Keeps
<1>6. g[0] = h[0]
  BY <1>1, <1>5 DEF Tells, Speaks, ChatSays, ResponsesSays, MessagesSays, Announces
<1>7. Keeps(g)'
  BY <1>1, <1>4, <1>5, <1>6 DEF Keeps
<1>8. (\E e : Keeps(e))'
  BY <1>7
<1>9. ServerInv' /\ wire' \in Wires /\ parser' \in ParserType
      /\ Delivered(wire', server', parser', out', cut')
      /\ (wire' = "chat" => InOrder(out'))
  BY <1>1 DEF StreamInv, ServerInv
<1> QED BY <1>3, <1>8, <1>9 DEF StreamInv

LEMMA StreamInvHolds == Spec => []StreamInv
<1>1. StreamInv /\ [Next]_vars => StreamInv'
  <2> SUFFICES ASSUME StreamInv, [Next]_vars PROVE StreamInv'
    OBVIOUS
  <2>1. Elsewhere \/ ServerSends \/ ConnectionEnds \/ ReadStalled \/ ReadFrame \/ ReadEnd
    BY OtherSteps DEF StreamInv
  <2> QED BY <2>1, ElsewhereKeepsIt, ServerKeepsIt, ConnectionKeepsIt, StalledKeepsIt,
             ReadingKeepsIt, EndKeepsIt
<1> QED BY <1>1, StreamStarts, PTL DEF Spec

-----------------------------------------------------------------------------
(* What a consumer is told, in terms of the whole sequence.                *)
LEMMA WhatIsDelivered ==
  ASSUME StreamInv
  PROVE  \E g \in SUBSET Calls, u \in SUBSET Once, r \in Told \cup {"none"}, k \in StopCounts :
           /\ out \in Seq(Events) /\ Len(out) \in Nat /\ DOMAIN out = 1 .. Len(out)
           /\ Given(out, g) /\ Used(out, u) /\ Ended(out, r) /\ Stopped(out, k)
           /\ r # "none" => server.stage \in Finished /\ g = CallsOf(wire, server) /\ r = ReasonOf(wire, server)
           /\ wire \in {"chat", "responses"} => k = IF parser.stopped THEN "one" ELSE "none"
           /\ cut # "none" => k # "none"
<1>1. PICK g \in SUBSET Calls, u \in SUBSET Once, r \in Told \cup {"none"}, k \in StopCounts :
           /\ Tidy(out, g, u, r, k)
           /\ r # "none" => server.stage \in Finished /\ g = CallsOf(wire, server) /\ r = ReasonOf(wire, server)
           /\ wire \in {"chat", "responses"} => k = IF parser.stopped THEN "one" ELSE "none"
           /\ cut # "none" => k # "none"
  BY DEF StreamInv, Delivered
<1>2. out \in Seq(Events) /\ Given(out, g) /\ Used(out, u) /\ Ended(out, r) /\ Stopped(out, k)
  BY <1>1 DEF Tidy
<1>3. Len(out) \in Nat /\ DOMAIN out = 1 .. Len(out)
  BY <1>2
<1> QED BY <1>1, <1>2, <1>3

LEMMA EventsAre ==
  ASSUME NEW e \in Events
  PROVE  /\ e.type = "complete" => e = Complete(e.call) /\ e.call \in Calls
         /\ e.type = "stop" => e = Stop(e.reason) /\ e.reason \in Told \cup Abnormal
         /\ e.type \notin {"complete", "stop"} => e = Usage(e.reason) /\ e.reason \in Counts
BY DEF Events, Complete, Stop, Usage, Told

(* For any calls and bounds, any server and any end of the connection: by  *)
(* the time a turn stops without a failure the consumer has been given     *)
(* every call of it, and the reason says whether there are any and whether *)
(* the turn was cut short.  A Responses turn that was cut short gives only *)
(* the calls whose items were closed, and with a call says ToolUse.        *)
THEOREM CallsComeBeforeTheStop == Spec => []CallsBeforeStop
<1>1. StreamInv => CallsBeforeStop
  <2> SUFFICES ASSUME StreamInv, NEW i \in DOMAIN out, IsStopTold(i)
               PROVE  LET given == {j \in DOMAIN out : out[j].type = "complete"}
                      IN /\ {out[j].call : j \in {k \in given : k < i}} = CallsOf(wire, server)
                         /\ \A j \in given : j < i
                         /\ out[i].reason = ReasonOf(wire, server)
                         /\ wire = "chat" => \A j, k \in given : j < k => out[j].call < out[k].call
    BY DEF CallsBeforeStop, CallsOf, StopReason, ReasonOf
  <2> DEFINE given == {j \in DOMAIN out : out[j].type = "complete"}
  <2>1. PICK g \in SUBSET Calls, r \in Told \cup {"none"} :
           /\ out \in Seq(Events) /\ Len(out) \in Nat /\ DOMAIN out = 1 .. Len(out)
           /\ Given(out, g) /\ Ended(out, r)
           /\ r # "none" => server.stage \in Finished /\ g = CallsOf(wire, server) /\ r = ReasonOf(wire, server)
    BY WhatIsDelivered
  <2>2. Ends(out[i]) /\ ~ IsComplete(out[i]) /\ out[i].reason \in Told /\ i \in 1 .. Len(out)
    BY <2>1 DEF IsStopTold, Ends, IsComplete, Told
  <2>3. out[i].reason = r /\ r # "none"
    BY <2>2, <2>1 DEF Ended, Told, Short, Normal
  <2>4. g = CallsOf(wire, server) /\ r = ReasonOf(wire, server)
    BY <2>1, <2>3
  <2>5. ASSUME NEW j \in given PROVE j < i
    <3>1. j \in 1 .. Len(out) /\ IsComplete(out[j])
      BY <2>1 DEF IsComplete
    <3>2. ~ (i < j)
      BY <2>1, <2>2, <3>1 DEF Ended
    <3>3. i # j
      BY <2>2, <3>1
    <3> QED BY <2>1, <2>2, <3>1, <3>2, <3>3
  <2>6. {out[j].call : j \in {k \in given : k < i}} = CallsOf(wire, server)
    <3>1. ASSUME NEW j \in given PROVE out[j].call \in g
      BY <2>1 DEF Given, IsComplete
    <3>2. ASSUME NEW c \in g PROVE \E j \in given : out[j].call = c
      <4>1. PICK j \in 1 .. Len(out) : out[j] = Complete(c)
        BY <2>1 DEF Given
      <4> QED BY <2>1, <4>1 DEF Complete
    <3> HIDE DEF given
    <3> QED BY <2>4, <2>5, <3>1, <3>2
  <2>7. wire = "chat" => \A j, k \in given : j < k => out[j].call < out[k].call
    BY <2>1 DEF StreamInv, InOrder, IsComplete
  <2> QED BY <2>3, <2>4, <2>5, <2>6, <2>7
<1> QED BY <1>1, StreamInvHolds, PTL

(* Under the same conditions nothing is given twice: no call, no count of  *)
(* the start or of the whole turn, no stop that is no failure, and over    *)
(* Chat Completions and Responses no stop.  The counts a turn gives while  *)
(* it goes on may come again.                                              *)
THEOREM NothingIsGivenTwice == Spec => []NothingTwice
<1>1. StreamInv => NothingTwice
  <2> SUFFICES ASSUME StreamInv, NEW i \in DOMAIN out, NEW j \in DOMAIN out, i < j
               PROVE  /\ out[i] = out[j] => out[i].reason \in Abnormal \cup {"sofar"}
                      /\ ~ (IsStopTold(i) /\ IsStopTold(j))
                      /\ wire \in {"chat", "responses"} => ~ (out[i].type = "stop" /\ out[j].type = "stop")
    BY DEF NothingTwice
  <2>1. PICK g \in SUBSET Calls, u \in SUBSET Once, r \in Told \cup {"none"}, k \in StopCounts :
           /\ out \in Seq(Events) /\ Len(out) \in Nat /\ DOMAIN out = 1 .. Len(out)
           /\ Given(out, g) /\ Used(out, u) /\ Ended(out, r) /\ Stopped(out, k)
           /\ wire \in {"chat", "responses"} => k = IF parser.stopped THEN "one" ELSE "none"
    BY WhatIsDelivered
  <2>2. i \in 1 .. Len(out) /\ j \in 1 .. Len(out) /\ out[i] \in Events
    BY <2>1
  <2>3. ~ (IsStopTold(i) /\ IsStopTold(j))
    BY <2>1, <2>2 DEF Ended, Ends, IsStopTold, Told
  <2>4. ASSUME out[i] = out[j] PROVE out[i].reason \in Abnormal \cup {"sofar"}
    <3>1. out[i].type # "complete"
      BY <2>1, <2>2, <2>4 DEF Given, IsComplete
    <3>2. CASE out[i].type = "stop"
      <4>1. out[i].reason \in Told \cup Abnormal
        BY <2>2, <3>2, EventsAre
      <4> QED BY <2>3, <2>4, <3>2, <4>1 DEF IsStopTold, Told
    <3>3. CASE out[i].type # "stop"
      <4>1. out[i] = Usage(out[i].reason) /\ out[i].reason \in Counts
        BY <2>2, <3>1, <3>3, EventsAre
      <4>2. IsUsage(out[i])
        BY <4>1, EventKinds
      <4>3. out[i].reason \notin Once
        BY <2>1, <2>2, <2>4, <4>2 DEF Used
      <4> QED BY <4>1, <4>3 DEF Counts, Once
    <3> QED BY <3>2, <3>3
  <2>5. ASSUME wire \in {"chat", "responses"}, out[i].type = "stop", out[j].type = "stop" PROVE FALSE
    <3>1. IsStop(out[i]) /\ IsStop(out[j])
      BY <2>5 DEF IsStop
    <3>2. k = "one" \/ k = "none"
      BY <2>1, <2>5
    <3> QED BY <2>1, <2>2, <3>1, <3>2 DEF Stopped
  <2> QED BY <2>3, <2>4, <2>5
<1> QED BY <1>1, StreamInvHolds, PTL

(* Under the same conditions a stop that is no failure is given only of a  *)
(* turn the server ended, complete or short, and a stream that was cut by  *)
(* the connection or by the watchdog has a stop.                           *)
THEOREM StopsTellTheTruth == Spec => []StopTellsTheTruth
<1>1. StreamInv => StopTellsTheTruth
  <2> SUFFICES ASSUME StreamInv PROVE StopTellsTheTruth
    OBVIOUS
  <2>1. PICK g \in SUBSET Calls, r \in Told \cup {"none"}, k \in StopCounts :
           /\ out \in Seq(Events) /\ Len(out) \in Nat /\ DOMAIN out = 1 .. Len(out)
           /\ Ended(out, r) /\ Stopped(out, k)
           /\ r # "none" => server.stage \in Finished /\ g = CallsOf(wire, server) /\ r = ReasonOf(wire, server)
           /\ cut # "none" => k # "none"
    BY WhatIsDelivered
  <2>2. ASSUME NEW i \in DOMAIN out, IsStopTold(i) PROVE server.stage \in {"stopping", "over"}
    <3>1. Ends(out[i]) /\ out[i].reason # "none"
      BY <2>2 DEF IsStopTold, Ends, Normal, Told, Short
    <3>2. r # "none"
      BY <2>1, <3>1 DEF Ended
    <3> QED BY <2>1, <3>2 DEF Finished
  <2>3. ASSUME cut # "none" PROVE \E i \in DOMAIN out : out[i].type = "stop"
    BY <2>1, <2>3 DEF Stopped, IsStop
  <2> QED BY <2>2, <2>3 DEF StopTellsTheTruth
<1> QED BY <1>1, StreamInvHolds, PTL
=============================================================================
