------------------------- MODULE ApplicationProofs -------------------------
(***************************************************************************)
(* A tool call reaches the host it belongs to: first for hosts alone       *)
(* (HostsSpec), then for sessions of the application, in which             *)
(* configurations come and go, hosts are made from them, and requests are  *)
(* sent in between.  A configuration that was loaded can be used, and what *)
(* is asked with the provider made from it is what its server understands. *)
(***************************************************************************)
EXTENDS Application, SequenceTheorems, FiniteSetTheorems, TLAPS

Steps == {"idle", "looking", "found", "sent"}

Outcomes == {"ok", "ToolHost", "ToolNotFound", "McpServerNotFound", "McpNotConnected", "Mcp"}

Placed == [call : Nat, host : Servers \cup {<<"own">>}, tool : Seq(STRING)]

HostsType ==
  /\ hosts \in Seq(Hosts) /\ composite \in BOOLEAN
  /\ ~composite => Len(hosts) = 1 /\ step # "looking"
  /\ connected \subseteq Servers
  /\ tools \in [Servers -> SUBSET Tools]
  /\ batch \in Seq(Names)
  /\ results \in Seq(Outcomes) /\ Len(results) <= Len(batch)
  /\ step \in Steps
  /\ at \in Nat /\ at # 0
  /\ heard \in Seq(SUBSET Names)
  /\ reached \in Seq(Placed)

(* A batch that is not over has a call, and the hosts it may be at.        *)
UnderWay ==
  step # "idle" =>
    /\ Len(results) < Len(batch)
    /\ at <= Len(hosts) + 1
    /\ step # "looking" => at <= Len(hosts)

(* While hosts are asked, none of those before listed the call.            *)
Asking ==
  step = "looking" =>
    /\ Len(heard) = at - 1
    /\ \A i \in 1 .. at - 1 : Current \notin heard[i]

(* Calls that reached a host are those with a result, and the present one  *)
(* once it is sent.                                                        *)
Reached ==
  /\ \A i \in DOMAIN reached :
       /\ reached[i].call \in DOMAIN batch
       /\ Belongs(reached[i])
       /\ reached[i].call <= Len(results) \/ (step = "sent" /\ reached[i].call = Len(results) + 1)
  /\ \A i, j \in DOMAIN reached : i < j => reached[i].call < reached[j].call
  /\ step = "sent" => \E k \in DOMAIN reached : reached[k].call = Len(results) + 1
  /\ \A i \in DOMAIN results : results[i] = "ok" => \E k \in DOMAIN reached : reached[k].call = i

HostsInv == HostsType /\ UnderWay /\ Asking /\ Chosen /\ Reached

-----------------------------------------------------------------------------
(* Of a part and a name put together, the parts can be told again.         *)
LEMMA PartAndName ==
  ASSUME NEW S, NEW s \in Seq(S), NEW t \in Seq(S), Len(s) = 1, t # <<>>
  PROVE  /\ Len(s \o t) >= 2
         /\ (s \o t)[1] = s[1]
         /\ <<Head(s \o t)>> = s
         /\ Tail(s \o t) = t
<1> DEFINE name == s \o t
<1>1. Len(t) \in Nat /\ Len(t) >= 1
  BY EmptySeq, LenProperties
<1>2. /\ name \in Seq(S) /\ Len(name) = 1 + Len(t)
      /\ \A i \in 1 .. 1 + Len(t) : name[i] = IF i <= 1 THEN s[i] ELSE t[i - 1]
  <2>1. /\ name \in Seq(S) /\ Len(name) = Len(s) + Len(t)
        /\ \A i \in 1 .. Len(s) + Len(t) :
             name[i] = IF i <= Len(s) THEN s[i] ELSE t[i - Len(s)]
    BY ConcatProperties, Zenon
  <2> HIDE DEF name
  <2> QED BY <2>1
<1> HIDE DEF name
<1>3. name # <<>> /\ name[1] = s[1] /\ Head(name) = s[1]
  BY <1>1, <1>2
<1>4. Tail(name) = t
  <2>1. /\ Tail(name) \in Seq(S) /\ Len(Tail(name)) = Len(t)
        /\ \A i \in 1 .. Len(t) : Tail(name)[i] = name[i + 1]
    BY <1>1, <1>2, <1>3, HeadTailProperties
  <2>2. \A i \in 1 .. Len(t) : Tail(name)[i] = t[i]
    BY <1>1, <1>2, <2>1
  <2> QED BY <2>1, <2>2, SeqEqual
<1>5. <<Head(name)>> = s
  BY <1>3
<1> QED BY <1>1, <1>2, <1>3, <1>4, <1>5 DEF name

(* What a server lists under a name, parse_namespaced takes apart again.   *)
LEMMA ListedIsRouted ==
  ASSUME NEW s \in Servers, NEW t \in Tools
  PROVE  Routed(Qualified(s, t))
<1> DEFINE name == s \o t
           p    == [server |-> <<Head(name)>>, tool |-> Tail(name)]
<1>1. s \in Seq(STRING) /\ Len(s) = 1 /\ s[1] # ""
  BY ServersArePlain DEF Part
<1>2. t \in Seq(STRING) /\ t # <<>> /\ t # <<"">>
  BY ToolsAreNames DEF Part
<1>3. Len(name) >= 2 /\ name[1] = s[1] /\ <<Head(name)>> = s /\ Tail(name) = t
  BY <1>1, <1>2, PartAndName
<1>4. Len(name) \in Nat
  BY <1>1, <1>2, ConcatProperties, LenProperties
<1> HIDE DEF name
<1>5. p \in ParseNamespaced(name)
  <2>1. ~(Len(name) < 2)
    BY <1>3, <1>4
  <2>2. name[1] # ""
    BY <1>1, <1>3
  <2>3. Tail(name) # <<"">>
    BY <1>2, <1>3, Zenon
  <2> QED BY <2>1, <2>2, <2>3, Zenon DEF ParseNamespaced
<1>6. p.server \in Servers /\ Qualified(p.server, p.tool) = name
  BY <1>3 DEF Qualified, name
<1> HIDE DEF p
<1> QED BY <1>5, <1>6 DEF Routed, Qualified, name

-----------------------------------------------------------------------------
LEMMA CurrentIsName ==
  ASSUME HostsType, UnderWay, step # "idle"
  PROVE  Current \in Names /\ Len(results) + 1 \in DOMAIN batch /\ Len(results) \in Nat
<1>1. Len(results) \in Nat /\ Len(batch) \in Nat
  BY LenProperties DEF HostsType
<1>2. Len(results) + 1 \in 1 .. Len(batch)
  BY <1>1 DEF UnderWay
<1> QED BY <1>1, <1>2, ElementOfSeq, LenProperties DEF HostsType, Current

(* Servers that connect or change their lists in the middle of a call do   *)
(* not touch it.                                                           *)
LEMMA ServersKeep ==
  ASSUME HostsInv, NEW s \in Servers, Connect(s) \/ RefreshTools(s)
  PROVE  HostsInv'
<1>1. /\ connected \subseteq connected' /\ connected' \subseteq Servers
      /\ tools' \in [Servers -> SUBSET Tools]
      /\ UNCHANGED <<hosts, composite, callVars>>
  BY DEF Connect, RefreshTools, HostsInv, HostsType
<1>2. HostsType' /\ UnderWay' /\ Asking' /\ Chosen'
  BY <1>1 DEF HostsInv, HostsType, UnderWay, Asking, Chosen, Current, AtHost, callVars
<1>3. Reached'
  BY <1>1 DEF HostsInv, Reached, Belongs, callVars
<1> QED BY <1>2, <1>3 DEF HostsInv

LEMMA BatchStarts ==
  ASSUME HostsInv, CallBatch
  PROVE  HostsInv'
<1>1. PICK n \in Batches : batch' \in [1 .. n -> Names] /\ n > 0
  BY DEF CallBatch
<1>2. n \in Nat /\ batch' \in Seq(Names) /\ Len(batch') = n
  BY <1>1, BatchesAssumption
<1>3. /\ results' = <<>> /\ Len(results') = 0 /\ reached' = <<>> /\ heard' = <<>>
      /\ at' = 1 /\ step' \in {"looking", "found"}
      /\ UNCHANGED <<hosts, composite, connected, tools>>
      /\ step' = "looking" <=> composite
  BY DEF CallBatch, FirstStep, HostsInv, HostsType
<1>4. Len(hosts) \in Nat /\ (~composite => Len(hosts) = 1)
  BY LenProperties DEF HostsInv, HostsType
<1>5. HostsType'
  BY <1>2, <1>3, <1>4 DEF HostsInv, HostsType, Steps
<1>6. UnderWay'
  <2>1. Len(results') < Len(batch') /\ at' <= Len(hosts') + 1
    BY <1>1, <1>2, <1>3, <1>4
  <2>2. step' # "looking" => at' <= Len(hosts')
    BY <1>3, <1>4
  <2> QED BY <2>1, <2>2 DEF UnderWay
<1>7. Asking' /\ Chosen'
  BY <1>3 DEF Asking, Chosen
<1>8. Reached'
  BY <1>3 DEF Reached
<1> QED BY <1>5, <1>6, <1>7, <1>8 DEF HostsInv

LEMMA ReachedIsPlaced ==
  ASSUME HostsType, NEW i \in DOMAIN reached
  PROVE  reached[i] \in Placed
<1>1. reached \in Seq(Placed) /\ i \in 1 .. Len(reached)
  BY LenProperties DEF HostsType
<1> QED BY <1>1, ElementOfSeq

(* A call that is over, with whatever result: the next of the batch starts *)
(* at the first host.                                                      *)
LEMMA FinishKeeps ==
  ASSUME HostsInv, step # "idle", NEW r \in Outcomes, Finish(r), UNCHANGED reached,
         r = "ok" => step = "sent"
  PROVE  HostsInv'
<1>1. /\ results' = Append(results, r) /\ at' = 1 /\ heard' = <<>>
      /\ UNCHANGED <<hosts, composite, connected, tools, batch, reached>>
      /\ step' = IF Len(results) + 1 < Len(batch) THEN FirstStep ELSE "idle"
  BY DEF Finish
<1>2. /\ Len(results) \in Nat /\ Len(batch) \in Nat /\ Len(results) < Len(batch)
      /\ Len(hosts) \in Nat /\ (~composite => Len(hosts) = 1)
      /\ DOMAIN results = 1 .. Len(results)
  BY LenProperties DEF HostsInv, HostsType, UnderWay
<1>3. /\ results' \in Seq(Outcomes) /\ Len(results') = Len(results) + 1
      /\ \A i \in 1 .. Len(results) : results'[i] = results[i]
      /\ results'[Len(results) + 1] = r
      /\ DOMAIN results' = 1 .. Len(results) + 1
  BY <1>1, AppendProperties, LenProperties DEF HostsInv, HostsType
<1>4. step' \in {"idle", "looking", "found"} /\ (step' = "looking" => composite)
      /\ (step' = "found" => ~composite)
      /\ (step' # "idle" => Len(results) + 1 < Len(batch))
  BY <1>1, <1>2 DEF FirstStep, HostsInv, HostsType
<1>5. HostsType'
  BY <1>1, <1>2, <1>3, <1>4 DEF HostsInv, HostsType, Steps
<1>6. UnderWay'
  <2>1. step' # "idle" => Len(results') < Len(batch') /\ at' <= Len(hosts') + 1
    BY <1>1, <1>2, <1>3, <1>4
  <2>2. ASSUME step' \in {"found", "sent"}  PROVE at' <= Len(hosts')
    <3>1. ~composite
      BY <1>4, <2>2
    <3>2. Len(hosts) = 1
      BY <1>2, <3>1
    <3> QED BY <1>1, <3>2
  <2> QED BY <1>4, <2>1, <2>2 DEF UnderWay
<1>7. Asking' /\ Chosen'
  BY <1>1, <1>4 DEF Asking, Chosen
<1>8. Reached'
  <2>1. \A i \in DOMAIN reached : Belongs(reached[i])'
    BY <1>1 DEF HostsInv, Reached, Belongs
  <2>2. \A i \in DOMAIN reached : reached[i].call \in Nat
    BY ReachedIsPlaced DEF HostsInv, Placed
  <2>3. \A i \in DOMAIN reached' : reached'[i].call <= Len(results')
    BY <1>1, <1>2, <1>3, <2>2 DEF HostsInv, Reached
  <2>4. \A i \in DOMAIN results' : results'[i] = "ok" => \E k \in DOMAIN reached' : reached'[k].call = i
    <3> SUFFICES ASSUME NEW i \in DOMAIN results', results'[i] = "ok"
                 PROVE  \E k \in DOMAIN reached : reached[k].call = i
      BY <1>1
    <3>1. CASE i = Len(results) + 1
      BY <1>3, <3>1 DEF HostsInv, Reached
    <3>2. CASE i # Len(results) + 1
      <4>1. i \in DOMAIN results /\ results[i] = "ok"
        BY <1>2, <1>3, <3>2
      <4> QED BY <4>1 DEF HostsInv, Reached
    <3> QED BY <3>1, <3>2
  <2> QED BY <1>1, <1>4, <2>1, <2>3, <2>4 DEF HostsInv, Reached
<1> QED BY <1>5, <1>6, <1>7, <1>8 DEF HostsInv

LEMMA LookKeeps ==
  ASSUME HostsInv, Look
  PROVE  HostsInv'
<1>1. step = "looking" /\ at <= Len(hosts) /\ composite
  BY DEF Look, HostsInv, HostsType
<1>2. Current \in Names /\ UNCHANGED Current
  BY <1>1, CurrentIsName DEF Look, HostsInv, Current
<1>3. PICK list \in ListTools(AtHost) :
        /\ heard' = Append(heard, list \cap {Current})
        /\ IF Current \in list THEN step' = "found" /\ at' = at
                               ELSE step' = step /\ at' = at + 1
  BY DEF Look
<1>4. /\ heard' \in Seq(SUBSET Names) /\ Len(heard') = at
      /\ \A i \in 1 .. at - 1 : heard'[i] = heard[i]
      /\ heard'[at] = list \cap {Current}
  <2>1. heard \in Seq(SUBSET Names) /\ Len(heard) = at - 1 /\ list \cap {Current} \in SUBSET Names
    BY <1>1, <1>2 DEF HostsInv, HostsType, Asking
  <2> QED BY <1>3, <2>1, AppendProperties DEF HostsInv, HostsType
<1>5. \A i \in 1 .. at - 1 : Current \notin heard'[i]
  BY <1>1, <1>4 DEF HostsInv, Asking
<1>6. AtHost = "mcp" /\ Current \in list => Routed(Current)
  BY <1>3, ListedIsRouted DEF ListTools, ToolSpecs, HostsInv, HostsType
<1>7. /\ UNCHANGED <<hosts, composite, connected, tools, batch, results, reached>>
      /\ step' \in {"looking", "found"}
      /\ at' \in Nat /\ at' # 0 /\ at' <= at + 1
      /\ step' = "found" => at' = at /\ UNCHANGED AtHost
  <2>1. UNCHANGED <<hosts, composite, connected, tools, batch, results, reached>>
    BY DEF Look
  <2>2. at \in Nat /\ at # 0
    BY DEF HostsInv, HostsType
  <2> QED BY <1>1, <1>3, <2>1, <2>2 DEF AtHost
<1>8. HostsType' /\ UnderWay'
  <2>1. at \in Nat /\ Len(hosts) \in Nat
    BY LenProperties DEF HostsInv, HostsType
  <2> QED BY <1>1, <1>4, <1>7, <2>1 DEF HostsInv, HostsType, Steps, UnderWay
<1>9. Reached'
  BY <1>1, <1>7 DEF HostsInv, Reached, Belongs
<1>10. CASE Current \in list
  <2>1. step' = "found" /\ at' = at
    BY <1>3, <1>10
  <2>2. Chosen'
    BY <1>2, <1>4, <1>5, <1>6, <1>7, <1>10, <2>1 DEF Chosen
  <2> QED BY <1>8, <1>9, <2>1, <2>2 DEF HostsInv, Asking
<1>11. CASE Current \notin list
  <2>1. step' = "looking" /\ at' = at + 1
    BY <1>1, <1>3, <1>11
  <2>2. \A i \in 1 .. at : Current \notin heard'[i]
    BY <1>4, <1>5, <1>11 DEF HostsInv, HostsType
  <2>3. Asking'
    BY <1>2, <1>4, <2>1, <2>2 DEF Asking, HostsInv, HostsType
  <2> QED BY <1>8, <1>9, <2>1, <2>3 DEF HostsInv, Chosen
<1> QED BY <1>10, <1>11

(* A host is reached by the call that is at it, and by no other after it.  *)
LEMMA ReachKeeps ==
  ASSUME HostsInv, step = "found", NEW host \in Servers \cup {<<"own">>}, NEW tool \in Seq(STRING),
         Reach(host, tool),
         \/ host = <<"own">> /\ tool = Current /\ AtHost = "own"
         \/ host \in Servers \cap connected /\ Qualified(host, tool) = Current
  PROVE  HostsInv'
<1> DEFINE r == [call |-> Len(results) + 1, host |-> host, tool |-> tool]
           n == Len(reached)
<1>1. /\ reached' = Append(reached, r) /\ step' = "sent"
      /\ UNCHANGED <<hosts, composite, connected, tools, batch, results, at, heard>>
  BY DEF Reach
<1>2. Current \in Names /\ Len(results) + 1 \in DOMAIN batch /\ Len(results) \in Nat
  BY CurrentIsName DEF HostsInv
<1>3. r \in Placed
  BY <1>2 DEF Placed
<1>4. n \in Nat /\ DOMAIN reached = 1 .. n
  BY LenProperties DEF HostsInv, HostsType
<1>5. /\ reached' \in Seq(Placed) /\ DOMAIN reached' = 1 .. n + 1
      /\ \A i \in 1 .. n : reached'[i] = reached[i]
      /\ reached'[n + 1] = r
  BY <1>1, <1>3, AppendProperties, LenProperties DEF HostsInv, HostsType
<1>6. HostsType' /\ UnderWay' /\ Asking' /\ Chosen'
  BY <1>1, <1>5 DEF HostsInv, HostsType, Steps, UnderWay, Asking, Chosen, Current, AtHost
<1>7. \A i \in 1 .. n : reached[i].call \in Nat /\ reached[i].call <= Len(results)
  BY <1>4, ReachedIsPlaced DEF HostsInv, Reached, Placed
<1>8. Belongs(r)'
  <2>1. at \in DOMAIN hosts
    BY LenProperties DEF HostsInv, HostsType, UnderWay
  <2> QED BY <1>1, <2>1 DEF Belongs, Current, AtHost
<1>9. Reached'
  <2>1. \A i \in DOMAIN reached' : /\ reached'[i].call \in DOMAIN batch
                                   /\ Belongs(reached[i])'
    <3> TAKE i \in DOMAIN reached'
    <3>1. CASE i = n + 1
      <4>1. reached'[i] = r
        BY <1>5, <3>1
      <4>2. reached'[i].call \in DOMAIN batch
        BY <1>2, <4>1
      <4>3. Belongs(reached[i])'
        BY <1>1, <1>8, <4>1 DEF Belongs
      <4> QED BY <4>2, <4>3
    <3>2. CASE i # n + 1
      <4>1. i \in 1 .. n /\ reached'[i] = reached[i]
        BY <1>4, <1>5, <3>2
      <4> QED BY <1>1, <1>4, <4>1 DEF HostsInv, Reached, Belongs
    <3> QED BY <3>1, <3>2
  <2>2. \A i, j \in DOMAIN reached' : i < j => reached'[i].call < reached'[j].call
    <3> SUFFICES ASSUME NEW i \in 1 .. n + 1, NEW j \in 1 .. n + 1, i < j
                 PROVE  reached'[i].call < reached'[j].call
      BY <1>5
    <3>1. i \in 1 .. n /\ reached'[i] = reached[i]
      BY <1>4, <1>5
    <3>2. CASE j = n + 1
      BY <1>2, <1>5, <1>7, <3>1, <3>2
    <3>3. CASE j # n + 1
      <4>1. j \in 1 .. n /\ reached'[j] = reached[j]
        BY <1>4, <1>5, <3>3
      <4> QED BY <1>4, <3>1, <4>1 DEF HostsInv, Reached
    <3> QED BY <3>2, <3>3
  <2>3. \E k \in DOMAIN reached' : reached'[k].call = Len(results) + 1
    BY <1>4, <1>5
  <2>4. \A i \in DOMAIN results : results[i] = "ok" => \E k \in DOMAIN reached' : reached'[k].call = i
    BY <1>4, <1>5 DEF HostsInv, Reached
  <2>5. \A i \in DOMAIN reached' :
          reached'[i].call <= Len(results) \/ reached'[i].call = Len(results) + 1
    <3> TAKE i \in DOMAIN reached'
    <3>1. CASE i = n + 1
      BY <1>5, <3>1
    <3>2. CASE i # n + 1
      BY <1>4, <1>5, <1>7, <3>2
    <3> QED BY <3>1, <3>2
  <2> QED BY <1>1, <2>1, <2>2, <2>3, <2>4, <2>5 DEF Reached
<1> QED BY <1>6, <1>9 DEF HostsInv


-----------------------------------------------------------------------------
LEMMA AnswersAreOutcomes == Answers \subseteq Outcomes
<1>1. /\ FromMcp("CallFailed") = "ToolHost" /\ FromMcp("NotConnected") = "McpNotConnected"
      /\ FromMcp("Transport") = "Mcp" /\ FromMcp("Parse") = "Mcp"
  BY DEF FromMcp
<1> QED BY <1>1 DEF Answers, Outcomes

LEMMA RefusalsAreOutcomes ==
  ASSUME NEW e \in {"InvalidToolName", "ServerNotFound", "NotConnected"}
  PROVE  FromMcp(e) \in Outcomes \ {"ok"}
BY DEF FromMcp, Outcomes

(* The parts of a name, put together, are the name.                        *)
LEMMA PartsMakeTheName ==
  ASSUME NEW S, NEW name \in Seq(S), name # <<>>
  PROVE  /\ Tail(name) \in Seq(S)
         /\ <<Head(name)>> \o Tail(name) = name
<1>1. /\ Len(name) \in Nat \ {0} /\ Head(name) \in S /\ Tail(name) \in Seq(S)
      /\ Len(Tail(name)) = Len(name) - 1
      /\ \A i \in 1 .. Len(Tail(name)) : Tail(name)[i] = name[i + 1]
  BY EmptySeq, HeadTailProperties
<1> DEFINE h == <<Head(name)>>
<1>2. h \in Seq(S) /\ Len(h) = 1 /\ h[1] = name[1]
  BY <1>1
<1> HIDE DEF h
<1>3. /\ h \o Tail(name) \in Seq(S) /\ Len(h \o Tail(name)) = Len(name)
      /\ \A i \in 1 .. Len(name) : (h \o Tail(name))[i] = IF i <= 1 THEN h[i] ELSE Tail(name)[i - 1]
  <2>1. /\ h \o Tail(name) \in Seq(S)
        /\ Len(h \o Tail(name)) = Len(h) + Len(Tail(name))
        /\ \A i \in 1 .. Len(h) + Len(Tail(name)) :
             (h \o Tail(name))[i] = IF i <= Len(h) THEN h[i] ELSE Tail(name)[i - Len(h)]
    BY <1>1, <1>2, ConcatProperties
  <2> QED BY <1>1, <1>2, <2>1
<1>4. \A i \in 1 .. Len(name) : (h \o Tail(name))[i] = name[i]
  BY <1>1, <1>2, <1>3
<1>5. h \o Tail(name) = name
  BY <1>3, <1>4, SeqEqual
<1> QED BY <1>1, <1>5 DEF h

LEMMA CallStepKeeps ==
  ASSUME HostsInv, CallStep
  PROVE  HostsInv'
<1>1. CASE CallBatch
  BY <1>1, BatchStarts
<1>2. CASE Look
  BY <1>2, LookKeeps
<1> "ToolHost" \in Outcomes /\ "ToolNotFound" \in Outcomes
  BY DEF Outcomes
<1>3. CASE LookFails
  BY <1>3, FinishKeeps DEF LookFails
<1>4. CASE NotFound
  BY <1>4, FinishKeeps DEF NotFound
<1>5. CASE CallOwn
  <2>1. Current \in Seq(STRING)
    BY <1>5, CurrentIsName, ToolsAreNames DEF CallOwn, HostsInv, Part
  <2> QED BY <1>5, <2>1, ReachKeeps DEF CallOwn
<1>6. CASE CallNull
  BY <1>6, FinishKeeps DEF CallNull
<1>7. CASE CallMcp
  <2>1. PICK p \in ParseNamespaced(Current) : p.server \in Servers \cap connected /\ Reach(p.server, p.tool)
    BY <1>7 DEF CallMcp
  <2>2. step = "found" /\ Current \in Seq(STRING) /\ Current # <<>>
    BY <1>7, CurrentIsName, ToolsAreNames DEF CallMcp, HostsInv, Part
  <2>3. p.server = <<Head(Current)>> /\ p.tool = Tail(Current)
    <3>1. p = [server |-> <<Head(Current)>>, tool |-> Tail(Current)]
      BY <2>1, Zenon DEF ParseNamespaced
    <3> QED BY <3>1, Zenon
  <2>4. p.tool \in Seq(STRING) /\ Qualified(p.server, p.tool) = Current
    BY <2>2, <2>3, PartsMakeTheName DEF Qualified
  <2> QED BY <2>1, <2>2, <2>4, ReachKeeps
<1>8. CASE RefuseMcp
  <2>1. \E e \in {"InvalidToolName", "ServerNotFound", "NotConnected"} :
          Finish(FromMcp(e)) /\ step = "found" /\ UNCHANGED reached
    BY <1>8 DEF RefuseMcp
  <2> QED BY <2>1, FinishKeeps, RefusalsAreOutcomes
<1>9. CASE Answer
  BY <1>9, FinishKeeps, AnswersAreOutcomes DEF Answer
<1> QED BY <1>1, <1>2, <1>3, <1>4, <1>5, <1>6, <1>7, <1>8, <1>9 DEF CallStep

LEMMA HostsInvInit == HostsInit => HostsInv
<1> SUFFICES ASSUME HostsInit PROVE HostsInv
  OBVIOUS
<1>1. Len(results) = 0 /\ Len(batch) = 0
  BY DEF HostsInit, NoCall
<1> QED BY <1>1 DEF HostsInit, NoCall, HostsInv, HostsType, Steps, UnderWay, Asking, Chosen, Reached

LEMMA HostsInvNext == HostsInv /\ [HostsNext]_hostVars => HostsInv'
<1> SUFFICES ASSUME HostsInv, [HostsNext]_hostVars PROVE HostsInv'
  OBVIOUS
<1>1. CASE CallStep
  BY <1>1, CallStepKeeps
<1>2. CASE ServerStep
  BY <1>2, ServersKeep DEF ServerStep
<1>3. CASE UNCHANGED hostVars
  BY <1>3 DEF hostVars, callVars, HostsInv, HostsType, UnderWay, Asking, Chosen, Reached,
              Belongs, Current, AtHost
<1> QED BY <1>1, <1>2, <1>3 DEF HostsNext

(* A call reaches one host at most and once, the first in order that       *)
(* listed it when it was asked, under the name it has there, whatever      *)
(* servers connect and however their lists change in between; an answer    *)
(* "ok" comes from a host that was reached (CompositeToolHost::call,       *)
(* McpToolHost::call, parse_namespaced).                                   *)
THEOREM CallsFindTheirHost == HostsSpec => []CallReachesItsHost
<1>1. HostsInv => CallReachesItsHost
  BY DEF HostsInv, Reached, CallReachesItsHost
<1> QED BY <1>1, HostsInvInit, HostsInvNext, PTL DEF HostsSpec

-----------------------------------------------------------------------------
(* The application. *)

(* No call is under way, and there are hosts to give one to.               *)
Rest ==
  /\ NoCall
  /\ hosts \in Seq(Hosts) /\ composite \in BOOLEAN /\ (~composite => Len(hosts) = 1)
  /\ connected \subseteq Servers
  /\ tools \in [Servers -> SUBSET Tools]

SessionInv == HostsInv /\ (config = {} => NoCall)

LEMMA RestIsSafe == Rest => HostsInv
<1> SUFFICES ASSUME Rest PROVE HostsInv
  OBVIOUS
<1>1. Len(results) = 0 /\ Len(batch) = 0
  BY DEF Rest, NoCall
<1> QED BY <1>1 DEF Rest, NoCall, HostsInv, HostsType, Steps, UnderWay, Asking, Chosen, Reached

LEMMA RestIsSafeNext == Rest' => HostsInv'
BY RestIsSafe, PTL

LEMMA ShortSeqs ==
  ASSUME NEW S, NEW x \in S, NEW y \in S
  PROVE  <<x>> \in Seq(S) /\ Len(<<x>>) = 1 /\ <<x, y>> \in Seq(S)
OBVIOUS

LEMMA OffIsTyped ==
  /\ <<"null">> \in Seq(Hosts) /\ Len(<<"null">>) = 1
  /\ [s \in Servers |-> {}] \in [Servers -> SUBSET Tools]
<1>1. "null" \in Hosts
  BY DEF Hosts
<1> QED BY <1>1, ShortSeqs

LEMMA SessionInit == Init => SessionInv
<1> SUFFICES ASSUME Init PROVE Rest
  BY RestIsSafe DEF Init, SessionInv
<1> QED BY OffIsTyped DEF Init, Off, Rest

LEMMA StartRests ==
  ASSUME SessionInv, Start
  PROVE  Rest'
<1>1. NoCall' /\ UNCHANGED <<connected, tools>>
  BY DEF SessionInv, Start, NoCall, callVars
<1>2. PICK shell \in UNION {ShellHosts(c) : c \in config'} :
        \/ hosts' = <<shell>> /\ composite' = FALSE
        \/ hosts' \in {<<"own", shell>>, <<shell, "own">>} /\ composite' = TRUE
  BY DEF Start
<1>3. shell \in Hosts /\ "own" \in Hosts
  BY DEF ShellHosts, Hosts
<1>4. hosts' \in Seq(Hosts) /\ composite' \in BOOLEAN /\ (~composite' => Len(hosts') = 1)
  <2>1. CASE hosts' = <<shell>> /\ composite' = FALSE
    BY <1>3, <2>1, ShortSeqs
  <2>2. CASE hosts' \in {<<"own", shell>>, <<shell, "own">>} /\ composite' = TRUE
    BY <1>3, <2>2, ShortSeqs
  <2> QED BY <1>2, <2>1, <2>2
<1> QED BY <1>1, <1>4 DEF SessionInv, HostsInv, HostsType, Rest

LEMMA StopRests ==
  ASSUME SessionInv, Stop
  PROVE  Rest'
BY OffIsTyped DEF Stop, Rest, NoCall

LEMMA SessionNext == SessionInv /\ [Next]_vars => SessionInv'
<1> SUFFICES ASSUME SessionInv, [Next]_vars PROVE SessionInv'
  OBVIOUS
<1>1. CASE Start
  BY <1>1, StartRests, RestIsSafeNext DEF SessionInv, Rest
<1>2. CASE Stop
  BY <1>2, StopRests, RestIsSafeNext DEF SessionInv, Rest
<1>3. CASE UNCHANGED <<config, hostVars>>
  <2>1. HostsInv'
    BY <1>3, HostsInvNext DEF SessionInv
  <2> QED BY <1>3, <2>1 DEF SessionInv, NoCall, hostVars, callVars
<1>4. CASE Hosting
  <2>1. HostsInv' /\ config' = config /\ config # {}
    BY <1>4, HostsInvNext DEF Hosting, OnlyCalls, HostsNext, SessionInv
  <2> QED BY <2>1 DEF SessionInv
<1>5. CASE UseDefault \/ SwitchProvider \/ Choose \/ Ask \/ Answered
  BY <1>3, <1>5 DEF UseDefault, SwitchProvider, UseProvider, Choose, Ask, Answered
<1>6. CASE UNCHANGED vars
  BY <1>3, <1>6 DEF vars
<1> QED BY <1>1, <1>2, <1>4, <1>5, <1>6 DEF Next

(* In every session of the application, whatever it has loaded and         *)
(* whoever it asks, a tool call reaches one host at most, the one it       *)
(* belongs to (AppState::init, CompositeToolHost::call, McpToolHost::call).*)
THEOREM SessionCallsFindTheirHost == Spec => []CallReachesItsHost
<1>1. SessionInv => CallReachesItsHost
  BY DEF SessionInv, HostsInv, Reached, CallReachesItsHost
<1> QED BY <1>1, SessionInit, SessionNext, PTL DEF Spec

-----------------------------------------------------------------------------
(* What is loaded *)

(* The weights of the first slots of a pool, which has three at most, are  *)
(* added up one after the other.                                           *)
WeightSum(slots, n) ==
  IF n = 0 THEN 0
  ELSE IF n = 1 THEN slots[1].weight
  ELSE IF n = 2 THEN slots[1].weight + slots[2].weight
  ELSE slots[1].weight + slots[2].weight + slots[3].weight

LEMMA WeightsAddUp ==
  ASSUME NEW slots, NEW n \in 0 .. 3, \A i \in 1 .. n : slots[i].weight \in Nat
  PROVE  WeightsUpTo(slots, n) = WeightSum(slots, n)
<1> DEFINE IsSum(f) == f = [i \in 0 .. n |-> IF i = 0 THEN 0 ELSE f[i - 1] + slots[i].weight]
           sum == CHOOSE f : IsSum(f)
           w == [i \in 0 .. n |-> WeightSum(slots, i)]
<1>1. IsSum(w)
  <2>1. ASSUME NEW i \in 0 .. n, i # 0
        PROVE  WeightSum(slots, i) = w[i - 1] + slots[i].weight
    <3>1. i - 1 \in 0 .. n /\ w[i - 1] = WeightSum(slots, i - 1)
      BY <2>1
    <3>2. i = 1 \/ i = 2 \/ i = 3
      BY <2>1
    <3>3. CASE i = 1
      BY <3>1, <3>3 DEF WeightSum
    <3>4. CASE i = 2
      BY <3>1, <3>4 DEF WeightSum
    <3>5. CASE i = 3
      <4>1. slots[1].weight \in Nat /\ slots[2].weight \in Nat /\ slots[3].weight \in Nat
        BY <2>1, <3>5
      <4> QED BY <3>1, <3>5, <4>1 DEF WeightSum
    <3> QED BY <3>2, <3>3, <3>4, <3>5
  <2>2. WeightSum(slots, 0) = 0
    BY DEF WeightSum
  <2> QED BY <2>1, <2>2
<1>2. IsSum(sum)
  BY <1>1
<1>3. WeightsUpTo(slots, n) = sum[n]
  BY DEF WeightsUpTo
<1> HIDE DEF sum, w
<1>4. \A i \in 0 .. n : sum[i] = IF i = 0 THEN 0 ELSE sum[i - 1] + slots[i].weight
  BY <1>2
<1>5. n = 0 \/ n = 1 \/ n = 2 \/ n = 3
  OBVIOUS
<1>6. sum[0] = 0
  BY <1>4
<1>7. n >= 1 => sum[1] = slots[1].weight
  BY <1>4, <1>6
<1>8. n >= 2 => sum[2] = slots[1].weight + slots[2].weight
  BY <1>4, <1>7
<1>9. n >= 3 => sum[3] = slots[1].weight + slots[2].weight + slots[3].weight
  BY <1>4, <1>8
<1> QED BY <1>3, <1>5, <1>6, <1>7, <1>8, <1>9 DEF WeightSum

(* Every roll falls on one slot of a pool that was checked.                *)
LEMMA RollsAreShared ==
  ASSUME NEW slots, Len(slots) \in Nat, DOMAIN slots = 1 .. Len(slots),
         PoolIsValid(slots), slots # <<>>, Len(slots) # 0,
         NEW roll \in 1 .. 100
  PROVE  Cardinality(SharesOf(slots, roll)) = 1
<1> DEFINE L == Len(slots)
           a == slots[1].weight
           b == slots[2].weight
           W(i) == WeightsUpTo(slots, i)
<1>1. L \in Nat /\ L <= 3 /\ L # 0 /\ DOMAIN slots = 1 .. L
  BY DEF PoolIsValid, MaxSlots
<1>2. ASSUME NEW i \in 1 .. L
      PROVE  slots[i].weight \in 1 .. 100 /\ slots[i].weight \in Nat
  <2>1. SlotIsValid(slots[i])
    BY <1>1 DEF PoolIsValid
  <2>2. slots[i].weight \in 1 .. 100
    BY <2>1, Zenon DEF SlotIsValid
  <2>3. \A n \in 1 .. 100 : n \in Nat
    OBVIOUS
  <2> QED BY <2>2, <2>3, Zenon
<1>3. W(L) = 100
  BY DEF PoolIsValid
<1>4. ASSUME NEW i \in 0 .. L PROVE W(i) = WeightSum(slots, i)
  <2> HIDE DEF L
  <2>1. i \in 0 .. 3 /\ \A j \in 1 .. i : j \in 1 .. L
    BY <1>1, <1>4
  <2>2. \A j \in 1 .. i : slots[j].weight \in Nat
    BY <1>2, <2>1
  <2> QED BY <2>1, <2>2, WeightsAddUp
<1>5. W(0) = 0 /\ W(1) = a /\ (L >= 2 => W(2) = a + b)
  BY <1>1, <1>4 DEF WeightSum
<1>6. a \in 1 .. 100 /\ (L >= 2 => b \in 1 .. 100)
  BY <1>1, <1>2
<1>7. SharesOf(slots, roll) = {i \in 1 .. L : W(i - 1) < roll /\ roll <= W(i)}
  BY <1>1 DEF SharesOf
<1> HIDE DEF L, W, a, b
<1>8. \E k \in 1 .. L : /\ W(k - 1) < roll /\ roll <= W(k)
                        /\ \A i \in 1 .. L : W(i - 1) < roll /\ roll <= W(i) => i = k
  <2>1. CASE L = 1
    <3>1. \A i \in 1 .. L : i = 1
      BY <2>1
    <3>2. W(1 - 1) < roll /\ roll <= W(1)
      BY <1>3, <1>5, <2>1
    <3> QED BY <2>1, <3>1, <3>2
  <2>2. CASE L = 2
    <3>1. \A i \in 1 .. L : i = 1 \/ i = 2
      BY <2>2
    <3>2. W(1 - 1) = 0 /\ W(2 - 1) = a /\ W(1) = a /\ W(2) = 100
      BY <1>3, <1>5, <2>2
    <3>3. CASE roll <= a
      BY <1>6, <2>2, <3>1, <3>2, <3>3
    <3>4. CASE roll > a
      BY <1>6, <2>2, <3>1, <3>2, <3>4
    <3> QED BY <1>6, <3>3, <3>4
  <2>3. CASE L = 3
    <3>1. \A i \in 1 .. L : i = 1 \/ i = 2 \/ i = 3
      BY <2>3
    <3>2. /\ W(1 - 1) = 0 /\ W(2 - 1) = a /\ W(3 - 1) = a + b
          /\ W(1) = a /\ W(2) = a + b /\ W(3) = 100
      BY <1>3, <1>5, <2>3
    <3>3. b \in 1 .. 100
      BY <1>6, <2>3
    <3>4. CASE roll <= a
      BY <1>6, <2>3, <3>1, <3>2, <3>3, <3>4
    <3>5. CASE roll > a /\ roll <= a + b
      BY <1>6, <2>3, <3>1, <3>2, <3>3, <3>5
    <3>6. CASE roll > a + b
      BY <1>6, <2>3, <3>1, <3>2, <3>3, <3>6
    <3> QED BY <1>6, <3>3, <3>4, <3>5, <3>6
  <2> QED BY <1>1, <2>1, <2>2, <2>3
<1>9. PICK k \in 1 .. L : /\ W(k - 1) < roll /\ roll <= W(k)
                          /\ \A i \in 1 .. L : W(i - 1) < roll /\ roll <= W(i) => i = k
  BY <1>8
<1>10. SharesOf(slots, roll) = {k}
  BY <1>7, <1>9
<1> QED BY <1>10, FS_Singleton

(* What a checked configuration says of a provider.                        *)
Usable ==
  {s \in ProviderConfigs :
     /\ s.api_key # ""
     /\ \E f \in Files : \E name \in DOMAIN f.config.providers :
          /\ f.config.providers[name].variant = s.variant
          /\ f.config.providers[name].kind = s.kind}

AllOptions ==
  [thinking : Thinkings, effort : Efforts, temperature : BOOLEAN, hosted : SUBSET HostedTools]

IsLoaded(c) ==
  /\ Validate(c)
  /\ c.subagent_pool \in Seq(SubagentSlots)
  /\ \A name \in DOMAIN c.providers : c.providers[name] \in Usable

(* What was asked is what the provider in use makes of the choices, and    *)
(* that provider is what create_provider makes of a checked configuration. *)
AskInv ==
  /\ \A c \in config : IsLoaded(c)
  /\ "AuthFailed" \notin refused
  /\ options \in AllOptions
  /\ \A p \in provider : /\ p.settings \in Usable
                         /\ Created(p.settings).ok
                         /\ p.made = Created(p.settings).provider
  /\ \A p, q \in provider : p = q
  /\ \A a \in asked : \A p \in provider : a = Parameters(p.made, options)
  /\ total = served

(* The environment changes keys and nothing else.                          *)
LEMMA KeysChange ==
  ASSUME NEW s \in ProviderConfigs, NEW keys \in SUBSET STRING
  PROVE  LET t == IF keys = {} THEN s ELSE [s EXCEPT !.api_key = CHOOSE key \in keys : TRUE]
         IN  t \in ProviderConfigs /\ t.variant = s.variant /\ t.kind = s.kind
<1>1. CASE keys = {}
  BY <1>1
<1>2. CASE keys # {}
  <2> DEFINE k == CHOOSE key \in keys : TRUE
  <2>1. k \in STRING
    BY <1>2
  <2> HIDE DEF k
  <2>2. LET t == [s EXCEPT !.api_key = k]
        IN  t \in ProviderConfigs /\ t.variant = s.variant /\ t.kind = s.kind
    BY <2>1 DEF ProviderConfigs
  <2> QED BY <1>2, <2>2 DEF k
<1> QED BY <1>1, <1>2

LEMMA LoadIsLoaded ==
  ASSUME NEW f \in Files, NEW e \in Envs, NEW c \in Load(f, e)
  PROVE  IsLoaded(c)
<1> DEFINE d == f.config
           ps == d.providers
           KeysOf(name) == EnvOf(name, e)
           With(name) == IF EnvOf(name, e) = {} THEN ps[name]
                         ELSE [ps[name] EXCEPT !.api_key = CHOOSE key \in EnvOf(name, e) : TRUE]
           qs == [name \in DOMAIN ps |-> With(name)]
<1>1. c = [d EXCEPT !.providers = qs] /\ Validate(c)
  BY DEF Load, FileConfig, ApplyEnv
<1>2. /\ DOMAIN d = DOMAIN DefaultConfig
      /\ \A name \in DOMAIN ps : ps[name] \in ProviderConfigs
      /\ d.subagent_pool \in Seq(SubagentSlots)
  BY FilesAssumption
<1>3. "providers" \in DOMAIN d /\ "subagent_pool" \in DOMAIN d
  BY <1>2 DEF DefaultConfig
<1>4. ASSUME NEW name PROVE EnvOf(name, e) \in SUBSET STRING
  <2>1. e.ANTHROPIC_API_KEY \in SUBSET STRING /\ e.OPENAI_API_KEY \in SUBSET STRING
    BY EnvsAssumption
  <2> QED BY <2>1 DEF EnvOf
<1>5. ASSUME NEW name \in DOMAIN ps
      PROVE  /\ With(name) \in ProviderConfigs
             /\ With(name).variant = ps[name].variant /\ With(name).kind = ps[name].kind
  BY <1>2, <1>4, KeysChange, ZenonT(30)
<1> HIDE DEF qs, With
<1>6. c.providers = qs /\ c.subagent_pool = d.subagent_pool
  BY <1>1, <1>3
<1>7. DOMAIN qs = DOMAIN ps /\ \A name \in DOMAIN ps : qs[name] = With(name)
  BY DEF qs
<1>8. ASSUME NEW name \in DOMAIN c.providers PROVE c.providers[name] \in Usable
  <2>1. name \in DOMAIN ps /\ c.providers[name] = With(name)
    BY <1>6, <1>7
  <2>2. c.providers[name].api_key # ""
    BY <1>1, Zenon DEF Validate
  <2> QED BY <1>5, <2>1, <2>2 DEF Usable
<1> QED BY <1>1, <1>2, <1>6, <1>8 DEF IsLoaded

(* With a key, create_provider fails for a dialect it does not know, if it *)
(* fails at all.                                                           *)
LEMMA CreatedIsFound ==
  ASSUME NEW s \in Usable
  PROVE  /\ CreateProvider(s) = Created(s)
         /\ ~ Created(s).ok => Created(s).error = "Other"
         /\ Created(s).ok \in BOOLEAN
         /\ CreateProvider(s) # Err("AuthFailed")
<1>1. s.variant \in Variants /\ s.api_key # ""
  BY DEF Usable, ProviderConfigs
<1>2. CreateProvider(s) = Created(s)
  BY <1>1 DEF CreateProvider
<1>3. ASSUME NEW p, NEW kind
      PROVE  InDialect(p, kind) = Err("Other") \/ \E q : InDialect(p, kind) = Ok(q)
  BY Zenon DEF InDialect
<1>4. Created(s) = Err("Other") \/ \E q : Created(s) = Ok(q)
  BY <1>1, <1>3 DEF Variants, Created
<1>5. Err("Other").ok = FALSE /\ Err("Other").error = "Other" /\ Err("Other") # Err("AuthFailed")
  <2>1. Err("AuthFailed").error = "AuthFailed"
    BY DEF Err
  <2>2. Err("Other").ok = FALSE /\ Err("Other").error = "Other"
    BY DEF Err
  <2> QED BY <2>1, <2>2
<1>6. \A q : Ok(q).ok = TRUE /\ Ok(q) # Err("AuthFailed")
  <2>1. Err("AuthFailed").ok = FALSE
    BY DEF Err
  <2>2. \A q : Ok(q).ok = TRUE
    BY DEF Ok
  <2> QED BY <2>1, <2>2
<1> QED BY <1>2, <1>4, <1>5, <1>6

LEMMA AskInit == Init => AskInv
<1>1. NoOptions \in AllOptions
  BY DEF NoOptions, AllOptions, Thinkings, Efforts
<1> QED BY <1>1 DEF Init, Off, AskNothing, AskInv

LEMMA UseKeeps ==
  ASSUME AskInv, NEW s \in Usable, UseProvider(s)
  PROVE  AskInv'
<1> DEFINE made == Created(s)
<1>1. /\ provider' = IF made.ok THEN {[settings |-> s, made |-> made.provider]} ELSE {}
      /\ refused'  = IF made.ok THEN {} ELSE {made.error}
      /\ asked' = {} /\ config' = config /\ options' = options /\ served' = served /\ total' = total
  BY CreatedIsFound DEF UseProvider
<1>2. "AuthFailed" \notin refused'
  BY <1>1, CreatedIsFound
<1>3. ASSUME NEW p \in provider'
      PROVE  p.settings \in Usable /\ Created(p.settings).ok /\ p.made = Created(p.settings).provider
  <2>1. made.ok /\ p = [settings |-> s, made |-> made.provider]
    BY <1>1, <1>3, CreatedIsFound
  <2> QED BY <2>1
<1>4. \A p, q \in provider' : p = q
  BY <1>1, CreatedIsFound
<1> QED BY <1>1, <1>2, <1>3, <1>4 DEF AskInv

\* What the server counted is what the provider reads off its answer.
LEMMA UsageIsCounted ==
  ASSUME NEW p, p.wire \in {"chat", "responses", "messages"}, p.deepseek,
         NEW h \in Nat, NEW m \in Nat
  PROVE  /\ Usage(p, Counted(p.wire, h, m)).input = h + m
         /\ ValueOr(Usage(p, Counted(p.wire, h, m)).read, 0) = h
         /\ ValueOr(Usage(p, Counted(p.wire, h, m)).write, 0) = m
<1>1. \A n : ValueOr({n}, 0) = n
  BY DEF ValueOr
<1>2. ValueOr({}, 0) = 0
  BY DEF ValueOr
<1>3. \A n, o : Or({n}, o) = {n} /\ Or({}, o) = o
  BY DEF Or
<1>4. CASE p.wire = "chat"
  BY <1>1, <1>2, <1>3, <1>4 DEF Usage, Counted, ParseCacheTokens
<1>5. CASE p.wire = "responses"
  <2> DEFINE c == [input |-> h + m, hit |-> {}, miss |-> {}, cached |-> {h}, created |-> {}]
             u == ParseUsage(p, c)
  <2>1. Usage(p, Counted(p.wire, h, m)) = u
    BY <1>5 DEF Usage, Counted
  <2>2. Or({}, {h}) = {h}
    BY <1>3
  <2>3. u.input = h + m /\ u.read = {h}
    BY <2>2 DEF ParseUsage
  <2>4. c.miss = {} /\ c.input = h + m /\ Or(c.hit, c.cached) = {h}
    BY <2>2
  <2> HIDE DEF c
  <2>5. u.write = {IF r > c.input THEN 0 ELSE c.input - r : r \in Or(c.hit, c.cached)}
    BY <2>4 DEF ParseUsage
  <2>6. u.write = {m}
    <3>1. (IF h > h + m THEN 0 ELSE (h + m) - h) = m
      OBVIOUS
    <3> HIDE DEF u
    <3>2. u.write = {IF r > h + m THEN 0 ELSE (h + m) - r : r \in {h}}
      BY <2>4, <2>5
    <3>3. \A x : x \in u.write <=> x = IF h > h + m THEN 0 ELSE (h + m) - h
      BY <3>2, Zenon
    <3> QED BY <3>1, <3>3
  <2> QED BY <1>1, <2>1, <2>3, <2>6
<1>6. CASE p.wire = "messages"
  <2> DEFINE c == [input |-> m, hit |-> {}, miss |-> {}, cached |-> {h}, created |-> {0}]
             u == ParseAnthropicUsage(p, c)
  <2>1. Usage(p, Counted(p.wire, h, m)) = u
    BY <1>6 DEF Usage, Counted
  <2>2. ValueOr({h}, 0) = h /\ ValueOr({0}, 0) = 0
    BY <1>1
  <2>3. u = [input |-> m + h + 0, read |-> {h}, write |-> {m + 0}]
    BY <2>2 DEF ParseAnthropicUsage
  <2>4. m + h + 0 = h + m /\ m + 0 = m
    OBVIOUS
  <2> HIDE DEF u
  <2>5. u.input = h + m /\ u.read = {h} /\ u.write = {m}
    BY <2>3, <2>4
  <2> QED BY <1>1, <2>1, <2>5
<1> QED BY <1>4, <1>5, <1>6

-----------------------------------------------------------------------------
(* The providers that are made *)

\* Those of a dialect, with what the dialect says put into them.
LEMMA DialectIsTaken ==
  ASSUME NEW base, NEW kind, InDialect(base, kind).ok
  PROVE  \E d \in DialectFor(kind, base.model, base.wire) :
           InDialect(base, kind).provider = WithDialect(base, d)
<1> DEFINE D == DialectFor(kind, base.model, base.wire)
<1>1. Err("Other").ok = FALSE
  BY DEF Err
<1>2. \A q : Ok(q).provider = q
  BY DEF Ok
<1> HIDE DEF D
<1>3. InDialect(base, kind)
        = IF D = {} THEN Err("Other") ELSE Ok(WithDialect(base, CHOOSE x \in D : TRUE))
  BY Zenon DEF InDialect, D
<1>4. D # {}
  BY <1>1, <1>3
<1>5. (CHOOSE x \in D : TRUE) \in D
  BY <1>4
<1> QED BY <1>2, <1>3, <1>4, <1>5 DEF D

LEMMA KimiDialect ==
  ASSUME NEW m, NEW port, NEW d \in DialectFor("kimi_coding", m, port)
  PROVE  d = Kimi(m, port)
BY DEF DialectFor

LEMMA ArkDialect ==
  ASSUME NEW kind, kind # "kimi_coding", NEW m, NEW port, NEW d \in DialectFor(kind, m, port)
  PROVE  \E context \in Nat : d = Ark(m, context, port)
<1>1. \/ d = Ark(m, 256000, port)
      \/ d = Ark(m, 1048576, port)
  BY SMT DEF DialectFor
<1>2. 256000 \in Nat /\ 1048576 \in Nat
  BY SMT
<1> QED BY <1>1, <1>2

KimiBase(s) == [AnthropicProvider(s) EXCEPT !.name = "kimi_coding"]

LEMMA CreatedByVariant ==
  ASSUME NEW s
  PROVE  /\ s.variant = "Anthropic"         => Created(s) = Ok(AnthropicProvider(s))
         /\ s.variant = "OpenAi"            => Created(s) = Ok(OpenAiProvider(s))
         /\ s.variant = "Responses"         => Created(s) = Ok(ResponsesProvider(s))
         /\ s.variant = "ArkResponses"      => Created(s) = Ok(ArkResponses(s))
         /\ s.variant = "DeepSeek"          => Created(s) = Ok(DeepSeekChat(s))
         /\ s.variant = "DeepSeekResponses" => Created(s) = Ok(DeepSeekResponses(s))
         /\ s.variant = "DeepSeekAnthropic" => Created(s) = Ok(DeepSeekAnthropic(s))
         /\ s.variant = "ArkAnthropic"      => Created(s) = InDialect(AnthropicProvider(s), s.kind)
         /\ s.variant = "ArkChat"           => Created(s) = InDialect(OpenAiProvider(s), s.kind)
         /\ s.variant = "KimiChat"          => Created(s) = InDialect(OpenAiProvider(s), "kimi_coding")
         /\ s.variant = "KimiCodingAnthropic" =>
              Created(s) = InDialect(KimiBase(s), "kimi_coding")
<1>1. s.variant = "Anthropic" => Created(s) = Ok(AnthropicProvider(s))
  BY DEF Created
<1>2. s.variant = "OpenAi" => Created(s) = Ok(OpenAiProvider(s))
  BY DEF Created
<1>3. s.variant = "Responses" => Created(s) = Ok(ResponsesProvider(s))
  BY DEF Created
<1>4. s.variant = "ArkResponses" => Created(s) = Ok(ArkResponses(s))
  BY DEF Created
<1>5. s.variant = "DeepSeek" => Created(s) = Ok(DeepSeekChat(s))
  BY DEF Created
<1>6. s.variant = "DeepSeekResponses" => Created(s) = Ok(DeepSeekResponses(s))
  BY DEF Created
<1>7. s.variant = "DeepSeekAnthropic" => Created(s) = Ok(DeepSeekAnthropic(s))
  BY DEF Created
<1>8. s.variant = "ArkAnthropic" => Created(s) = InDialect(AnthropicProvider(s), s.kind)
  BY DEF Created
<1>9. s.variant = "ArkChat" => Created(s) = InDialect(OpenAiProvider(s), s.kind)
  BY DEF Created
<1>10. s.variant = "KimiChat" => Created(s) = InDialect(OpenAiProvider(s), "kimi_coding")
  BY DEF Created
<1>11. s.variant = "KimiCodingAnthropic" => Created(s) = InDialect(KimiBase(s), "kimi_coding")
  BY DEF Created, KimiBase
<1> QED BY <1>1, <1>2, <1>3, <1>4, <1>5, <1>6, <1>7, <1>8, <1>9, <1>10, <1>11, Zenon

LEMMA OkIsGiven == \A q : Ok(q).ok /\ Ok(q).provider = q
BY DEF Ok

ProviderFields ==
  {"wire", "name", "model", "host", "deepseek", "ark_effort", "dialect", "mode", "context", "output",
   "vision", "cache_control"}

V4Context == 1000000
V4Output  == 393216

Plainly(p, s, wire) ==
  /\ DOMAIN p = ProviderFields
  /\ p.wire = wire /\ p.model = s.model /\ p.host = s.host /\ p.dialect = {} /\ p.deepseek = FALSE

LEMMA PlainProviders ==
  ASSUME NEW s
  PROVE  /\ Plainly(OpenAiProvider(s), s, "chat")
         /\ OpenAiProvider(s).cache_control = FALSE
         /\ Plainly(ResponsesProvider(s), s, "responses")
         /\ ResponsesProvider(s).ark_effort = FALSE
         /\ Plainly(AnthropicProvider(s), s, "messages")
BY DEF OpenAiProvider, ResponsesProvider, AnthropicProvider, Plainly, ProviderFields

DeepSeekVariants == {"DeepSeek", "DeepSeekResponses", "DeepSeekAnthropic"}

WireOf(variant) ==
  IF variant = "DeepSeek" THEN "chat"
  ELSE IF variant = "DeepSeekResponses" THEN "responses" ELSE "messages"

IsOfDeepSeek(p, s) ==
  /\ p.wire = WireOf(s.variant) /\ p.model = s.model /\ p.dialect = {} /\ p.deepseek
  /\ p.cache_control = FALSE
  /\ p.vision = DeepSeekModelSupportsVision(s.model)
  /\ IsDeepSeekV4Alias(s.model) => p.context = V4Context /\ p.output = V4Output

LEMMA DeepSeekFromPlain ==
  ASSUME NEW s, NEW base, NEW name, NEW context, Plainly(base, s, WireOf(s.variant)),
         IsDeepSeekV4Alias(s.model) => context = V4Context,
         NEW p, p = AsDeepSeek(base, name, context)
  PROVE  DOMAIN p = ProviderFields /\ IsOfDeepSeek(p, s)
<1>1. /\ DOMAIN base = ProviderFields /\ base.wire = WireOf(s.variant) /\ base.model = s.model
      /\ base.dialect = {}
  BY DEF Plainly
<1>2. /\ DOMAIN p = ProviderFields
      /\ p.dialect = base.dialect /\ p.wire = base.wire /\ p.model = base.model
      /\ p.deepseek /\ p.cache_control = FALSE /\ p.context = context
      /\ IsDeepSeekV4Alias(base.model) => p.output = V4Output
      /\ p.vision = DeepSeekModelSupportsVision(base.model)
  BY <1>1, SMT DEF AsDeepSeek, ProviderFields, V4Output
<1> QED BY <1>1, <1>2 DEF IsOfDeepSeek

LEMMA DeepSeekProviders ==
  ASSUME NEW s, s.variant \in DeepSeekVariants
  PROVE  Created(s).ok /\ IsOfDeepSeek(Created(s).provider, s)
<1>1. CASE s.variant = "DeepSeek"
  <2>1. Created(s).ok /\ Created(s).provider = DeepSeekChat(s)
    BY <1>1, CreatedByVariant, OkIsGiven, ZenonT(30)
  <2>2. Plainly(OpenAiProvider(s), s, WireOf(s.variant))
    BY <1>1, PlainProviders DEF WireOf
  <2>3. \E context : /\ IsDeepSeekV4Alias(s.model) => context = V4Context
                     /\ DeepSeekChat(s) = AsDeepSeek(OpenAiProvider(s), "deepseek", context)
    BY SMT DEF DeepSeekChat, V4Context
  <2>4. IsOfDeepSeek(DeepSeekChat(s), s)
    BY <2>2, <2>3, DeepSeekFromPlain
  <2> QED BY <2>1, <2>4, Zenon
<1>2. CASE s.variant = "DeepSeekResponses"
  <2>1. Created(s).ok /\ Created(s).provider = DeepSeekResponses(s)
    BY <1>2, CreatedByVariant, OkIsGiven, ZenonT(30)
  <2>2. Plainly(ResponsesProvider(s), s, WireOf(s.variant))
    BY <1>2, PlainProviders DEF WireOf
  <2>3. PICK p : /\ p = AsDeepSeek(ResponsesProvider(s), "deepseek_responses", V4Context)
                 /\ DeepSeekResponses(s) = [p EXCEPT !.mode = "plaintext"]
    BY SMT DEF DeepSeekResponses, V4Context
  <2>4. DOMAIN p = ProviderFields /\ IsOfDeepSeek(p, s)
    BY <2>2, <2>3, DeepSeekFromPlain
  <2>5. IsOfDeepSeek(DeepSeekResponses(s), s)
    BY <2>3, <2>4 DEF IsOfDeepSeek, ProviderFields
  <2> QED BY <2>1, <2>5, Zenon
<1>3. CASE s.variant = "DeepSeekAnthropic"
  <2>1. Created(s).ok /\ Created(s).provider = DeepSeekAnthropic(s)
    BY <1>3, CreatedByVariant, OkIsGiven, ZenonT(30)
  <2>2. Plainly(AnthropicProvider(s), s, WireOf(s.variant))
    BY <1>3, PlainProviders DEF WireOf
  <2>3. DeepSeekAnthropic(s) = AsDeepSeek(AnthropicProvider(s), "deepseek_anthropic", V4Context)
    BY SMT DEF DeepSeekAnthropic, V4Context
  <2>4. IsOfDeepSeek(DeepSeekAnthropic(s), s)
    BY <2>2, <2>3, DeepSeekFromPlain
  <2> QED BY <2>1, <2>4, Zenon
<1> QED BY <1>1, <1>2, <1>3 DEF DeepSeekVariants

LEMMA DialectProviders ==
  ASSUME NEW s, Created(s).ok, NEW p, p = Created(s).provider
  PROVE  /\ s.variant = "KimiChat" =>
              /\ p.wire = "chat" /\ p.model = s.model /\ p.dialect = {Kimi(s.model, "chat")}
              /\ p.deepseek = FALSE
         /\ s.variant = "KimiCodingAnthropic" =>
              /\ p.wire = "messages" /\ p.model = s.model /\ p.dialect = {Kimi(s.model, "messages")}
              /\ p.deepseek = FALSE
         /\ s.variant = "ArkChat" /\ s.kind # "kimi_coding" =>
              /\ p.wire = "chat" /\ p.model = s.model /\ p.deepseek = FALSE
              /\ \E context \in Nat : p.dialect = {Ark(s.model, context, "chat")}
         /\ s.variant = "ArkAnthropic" /\ s.kind # "kimi_coding" =>
              /\ p.wire = "messages" /\ p.model = s.model /\ p.deepseek = FALSE
              /\ \E context \in Nat : p.dialect = {Ark(s.model, context, "messages")}
         /\ s.variant = "ArkChat" => p.wire = "chat" /\ p.deepseek = FALSE
         /\ s.variant = "ArkAnthropic" => p.wire = "messages" /\ p.deepseek = FALSE
<1>1. ASSUME NEW base, NEW kind, NEW wire, Plainly(base, s, wire),
             Created(s) = InDialect(base, kind)
      PROVE  \E d \in DialectFor(kind, s.model, wire) :
               p.wire = wire /\ p.model = s.model /\ p.dialect = {d} /\ p.deepseek = FALSE
  <2>1. /\ DOMAIN base = ProviderFields /\ base.wire = wire /\ base.model = s.model
        /\ base.deepseek = FALSE
    BY <1>1 DEF Plainly
  <2>2. InDialect(base, kind).ok /\ p = InDialect(base, kind).provider
    BY <1>1
  <2>3. PICK d \in DialectFor(kind, base.model, base.wire) : p = WithDialect(base, d)
    BY <2>2, DialectIsTaken
  <2>4. p.dialect = {d} /\ p.wire = base.wire /\ p.model = base.model /\ p.deepseek = base.deepseek
    BY <2>1, <2>3, SMT DEF WithDialect, ProviderFields
  <2>5. d \in DialectFor(kind, s.model, wire)
    BY <2>1, <2>3
  <2> QED BY <2>1, <2>4, <2>5
<1>2. Plainly(OpenAiProvider(s), s, "chat") /\ Plainly(AnthropicProvider(s), s, "messages")
  BY PlainProviders
<1>3. Plainly(KimiBase(s), s, "messages")
  BY <1>2 DEF KimiBase, Plainly, ProviderFields
<1>4. s.variant = "KimiChat" =>
        \E d \in DialectFor("kimi_coding", s.model, "chat") :
          p.wire = "chat" /\ p.model = s.model /\ p.dialect = {d} /\ p.deepseek = FALSE
  BY <1>1, <1>2, CreatedByVariant, ZenonT(30)
<1>5. s.variant = "KimiCodingAnthropic" =>
        \E d \in DialectFor("kimi_coding", s.model, "messages") :
          p.wire = "messages" /\ p.model = s.model /\ p.dialect = {d} /\ p.deepseek = FALSE
  BY <1>1, <1>3, CreatedByVariant, ZenonT(30)
<1>6. s.variant = "ArkChat" =>
        \E d \in DialectFor(s.kind, s.model, "chat") :
          p.wire = "chat" /\ p.model = s.model /\ p.dialect = {d} /\ p.deepseek = FALSE
  BY <1>1, <1>2, CreatedByVariant, ZenonT(30)
<1>7. s.variant = "ArkAnthropic" =>
        \E d \in DialectFor(s.kind, s.model, "messages") :
          p.wire = "messages" /\ p.model = s.model /\ p.dialect = {d} /\ p.deepseek = FALSE
  BY <1>1, <1>2, CreatedByVariant, ZenonT(30)
<1>8. s.variant = "KimiChat" =>
        /\ p.wire = "chat" /\ p.model = s.model /\ p.dialect = {Kimi(s.model, "chat")}
        /\ p.deepseek = FALSE
  BY <1>4, KimiDialect, Zenon
<1>9. s.variant = "KimiCodingAnthropic" =>
        /\ p.wire = "messages" /\ p.model = s.model /\ p.dialect = {Kimi(s.model, "messages")}
        /\ p.deepseek = FALSE
  BY <1>5, KimiDialect, Zenon
<1>10. s.variant = "ArkChat" /\ s.kind # "kimi_coding" =>
        /\ p.wire = "chat" /\ p.model = s.model /\ p.deepseek = FALSE
        /\ \E context \in Nat : p.dialect = {Ark(s.model, context, "chat")}
  <2> SUFFICES ASSUME s.variant = "ArkChat", s.kind # "kimi_coding"
               PROVE  /\ p.wire = "chat" /\ p.model = s.model /\ p.deepseek = FALSE
                      /\ \E context \in Nat : p.dialect = {Ark(s.model, context, "chat")}
    OBVIOUS
  <2>1. PICK d \in DialectFor(s.kind, s.model, "chat") :
          p.wire = "chat" /\ p.model = s.model /\ p.dialect = {d} /\ p.deepseek = FALSE
    BY <1>6
  <2>2. \E context \in Nat : d = Ark(s.model, context, "chat")
    BY ArkDialect
  <2> QED BY <2>1, <2>2, Zenon
<1>11. s.variant = "ArkAnthropic" /\ s.kind # "kimi_coding" =>
        /\ p.wire = "messages" /\ p.model = s.model /\ p.deepseek = FALSE
        /\ \E context \in Nat : p.dialect = {Ark(s.model, context, "messages")}
  <2> SUFFICES ASSUME s.variant = "ArkAnthropic", s.kind # "kimi_coding"
               PROVE  /\ p.wire = "messages" /\ p.model = s.model /\ p.deepseek = FALSE
                      /\ \E context \in Nat : p.dialect = {Ark(s.model, context, "messages")}
    OBVIOUS
  <2>1. PICK d \in DialectFor(s.kind, s.model, "messages") :
          p.wire = "messages" /\ p.model = s.model /\ p.dialect = {d} /\ p.deepseek = FALSE
    BY <1>7
  <2>2. \E context \in Nat : d = Ark(s.model, context, "messages")
    BY ArkDialect
  <2> QED BY <2>1, <2>2, Zenon
<1> QED BY <1>6, <1>7, <1>8, <1>9, <1>10, <1>11, Zenon

-----------------------------------------------------------------------------
(* What they are asked with *)

AllThinking == {"enabled", "disabled", "adaptive"}
AllEffort   == {"none", "minimal", "low", "medium", "high", "xhigh", "max"}

LEMMA OptionsAre ==
  ASSUME NEW o \in AllOptions
  PROVE  /\ o.thinking \in {{}, {"enabled"}, {"disabled"}, {"adaptive"}}
         /\ o.thinking \subseteq AllThinking
         /\ o.effort \subseteq AllEffort
         /\ o.temperature \in BOOLEAN
         /\ o.hosted \subseteq HostedTools
         /\ UNION Thinkings = AllThinking
         /\ UNION Efforts = AllEffort
<1>1. o.thinking \in Thinkings /\ o.effort \in Efforts /\ o.temperature \in BOOLEAN
      /\ o.hosted \subseteq HostedTools
  BY DEF AllOptions
<1>2. UNION Thinkings = AllThinking
  BY DEF Thinkings, AllThinking
<1>3. UNION Efforts = AllEffort
  BY DEF Efforts, AllEffort
<1> QED BY <1>1, <1>2, <1>3 DEF Thinkings

HostedOn(wire) ==
  IF wire = "chat" THEN {"openrouter:web_search", "openrouter:web_fetch"}
  ELSE IF wire = "responses" THEN {"web_search", "web_extractor",
                                   "openrouter:web_search", "openrouter:web_fetch"}
  ELSE {"web_search_20250305", "web_fetch_20250910"}

LEMMA HostedToolsFit ==
  ASSUME NEW h \in HostedTools
  PROVE  /\ HostedToolToOpenAi(h) \subseteq HostedOn("chat")
         /\ HostedToolToResponses(h) \subseteq HostedOn("responses")
         /\ HostedToolToAnthropic(h) \subseteq HostedOn("messages")
<1>1. /\ h.tool = "search" \/ h.tool = "fetch"
      /\ h.format = "standard" \/ h.format = "dash_scope" \/ h.format = "open_router"
  BY DEF HostedTools
<1>2. HostedToolToOpenAi(h) \subseteq HostedOn("chat")
  BY <1>1 DEF HostedToolToOpenAi, OpenRouterTool, HostedOn
<1>3. HostedToolToResponses(h) \subseteq HostedOn("responses")
  BY <1>1 DEF HostedToolToResponses, OpenRouterTool, HostedOn
<1>4. HostedToolToAnthropic(h) \subseteq HostedOn("messages")
  BY <1>1 DEF HostedToolToAnthropic, HostedOn
<1> QED BY <1>2, <1>3, <1>4

LEMMA HostedIsKnown ==
  ASSUME NEW p, NEW o \in AllOptions, p.wire \in {"chat", "responses", "messages"}
  PROVE  Parameters(p, o).hosted \subseteq HostedOn(p.wire)
<1>1. o.hosted \subseteq HostedTools
  BY OptionsAre
<1>2. CASE p.wire = "chat"
  <2>1. Parameters(p, o) = ChatParameters(p, o)
    BY <1>2 DEF Parameters
  <2>2. ChatParameters(p, o).hosted = UNION {HostedToolToOpenAi(h) : h \in o.hosted}
    BY DEF ChatParameters
  <2> QED BY <1>1, <1>2, <2>1, <2>2, HostedToolsFit
<1>3. CASE p.wire = "responses"
  <2>1. Parameters(p, o) = ResponsesParameters(p, o)
    BY <1>3 DEF Parameters
  <2>2. ResponsesParameters(p, o).hosted = UNION {HostedToolToResponses(h) : h \in o.hosted}
    BY DEF ResponsesParameters
  <2> QED BY <1>1, <1>3, <2>1, <2>2, HostedToolsFit
<1>4. CASE p.wire = "messages"
  <2>1. Parameters(p, o) = MessagesParameters(p, o)
    BY <1>4 DEF Parameters
  <2>2. MessagesParameters(p, o).hosted = UNION {HostedToolToAnthropic(h) : h \in o.hosted}
    BY DEF MessagesParameters
  <2> QED BY <1>1, <1>4, <2>1, <2>2, HostedToolsFit
<1> QED BY <1>2, <1>3, <1>4

LEMMA Translations ==
  ASSUME NEW o \in AllOptions, NEW v4 \in BOOLEAN
  PROVE  /\ NativeThinking(v4, o) \subseteq AllThinking
         /\ v4 => NativeThinking(v4, o) \subseteq {"enabled", "disabled"}
         /\ DeepSeekV4Effort(o) \subseteq AllEffort
<1>1. /\ o.thinking \in {{}, {"enabled"}, {"disabled"}, {"adaptive"}}
      /\ o.effort \subseteq AllEffort
  BY OptionsAre
<1>2. NativeThinking(v4, o) \subseteq AllThinking
  BY <1>1 DEF NativeThinking, AllThinking
<1>3. v4 => NativeThinking(v4, o) \subseteq {"enabled", "disabled"}
  BY <1>1 DEF NativeThinking
<1>4. "high" \in AllEffort
  BY DEF AllEffort
<1>5. DeepSeekV4Effort(o) = {} \/ DeepSeekV4Effort(o) = {"high"} \/ DeepSeekV4Effort(o) = o.effort
  BY <1>1 DEF DeepSeekV4Effort
<1> QED BY <1>1, <1>2, <1>3, <1>4, <1>5

V4OnChat(p) == (p.deepseek \/ ContainsDeepSeek(p.model)) /\ IsDeepSeekV4Alias(p.model)

ChatThinking(p, o) ==
  IF p.dialect = {} THEN NativeThinking(V4OnChat(p), o)
  ELSE UNION {DialectThinkingValue(d, o.thinking) : d \in p.dialect}

\* What stands in a body, wire by wire.
LEMMA ChatAsked ==
  ASSUME NEW p, p.wire = "chat", NEW o
  PROVE  /\ Parameters(p, o).thinking
              = IF ContainsQwen(p.model)
                THEN {IF t = "disabled" THEN "false" ELSE "true" : t \in ChatThinking(p, o)}
                ELSE ChatThinking(p, o)
         /\ Parameters(p, o).effort
              = IF p.dialect # {}
                THEN UNION {IF d.effort_wire = "top_level"
                            THEN FilteredEffort(d, o.effort) ELSE {} : d \in p.dialect}
                ELSE IF V4OnChat(p) THEN DeepSeekV4Effort(o) ELSE o.effort
         /\ Parameters(p, o).temperature
              <=> /\ o.temperature
                  /\ \A d \in p.dialect : ~d.omit_temperature
                  /\ ~DeepSeekThinking(p, ChatThinking(p, o))
         /\ Parameters(p, o).stream_usage = SupportsStreamUsage(p)
         /\ Parameters(p, o).cache_control = FALSE
<1>1. Parameters(p, o) = ChatParameters(p, o)
  BY DEF Parameters
<1> QED BY <1>1 DEF ChatParameters, V4OnChat, ChatThinking

LEMMA MessagesAsked ==
  ASSUME NEW p, p.wire = "messages", NEW o, NEW a, a = Parameters(p, o)
  PROVE  /\ a.cache_control = p.cache_control
         /\ p.dialect = {} =>
              /\ a.thinking = PlainParameters(p, o).thinking
              /\ a.effort = PlainParameters(p, o).effort
              /\ a.temperature = o.temperature
<1>1. a = MessagesParameters(p, o)
  BY DEF Parameters
<1>2. PlainParameters(p, o).temperature = o.temperature
  BY DEF PlainParameters
<1> QED BY <1>1, <1>2 DEF MessagesParameters

LEMMA DialectMessagesAsked ==
  ASSUME NEW p, p.wire = "messages", NEW o, NEW a, a = Parameters(p, o), NEW d, p.dialect = {d}
  PROVE  /\ a.thinking = DialectThinkingValue(d, o.thinking)
         /\ a.effort = IF d.effort_wire = "nested" /\ a.thinking # {}
                       THEN FilteredEffort(d, o.effort) ELSE {}
         /\ a.temperature <=> o.temperature /\ ~d.omit_temperature
<1>1. a = MessagesParameters(p, o)
  BY DEF Parameters
<1>2. p.dialect # {} /\ (CHOOSE x \in p.dialect : TRUE) = d
  OBVIOUS
<1> DEFINE b == DialectParameters(d, o)
<1>3. a.thinking = b.thinking /\ a.effort = b.effort /\ a.temperature = b.temperature
  <2> HIDE DEF b
  <2> DEFINE body == IF p.dialect = {} THEN PlainParameters(p, o)
                     ELSE DialectParameters(CHOOSE x \in p.dialect : TRUE, o)
  <2>1. a.thinking = body.thinking /\ a.effort = body.effort /\ a.temperature = body.temperature
    BY <1>1 DEF MessagesParameters
  <2>2. body = b
    BY <1>2, Zenon DEF b
  <2> QED BY <2>1, <2>2, Zenon
<1>4. /\ b.thinking = DialectThinkingValue(d, o.thinking)
      /\ b.effort = IF d.effort_wire = "nested" /\ b.thinking # {}
                    THEN FilteredEffort(d, o.effort) ELSE {}
      /\ b.temperature <=> o.temperature /\ ~d.omit_temperature
  BY DEF DialectParameters
<1> HIDE DEF b
<1> QED BY <1>3, <1>4

LEMMA ResponsesAsked ==
  ASSUME NEW p, p.wire = "responses", NEW o, NEW a, a = Parameters(p, o)
  PROVE  a.thinking = {} /\ a.effort = ResponsesEffort(p, o) /\ a.cache_control = FALSE
<1>1. a = ResponsesParameters(p, o)
  BY DEF Parameters
<1> QED BY <1>1 DEF ResponsesParameters

\* What the dialects make of the user's choices.
LEMMA KimiTranslates ==
  ASSUME NEW m, NEW port, NEW o \in AllOptions, NEW d, d = Kimi(m, port)
  PROVE  /\ DialectThinkingValue(d, o.thinking) \subseteq {"enabled"}
         /\ FilteredEffort(d, o.effort) \subseteq AllEffort
         /\ m \in {"k3", "k3-256k"} => FilteredEffort(d, o.effort) \subseteq {"low", "high", "max"}
         /\ d.omit_temperature
         /\ d.effort_wire = IF port = "chat" THEN "top_level" ELSE "nested"
<1>1. /\ d.thinking_vocab = {"enabled"} /\ d.adaptive_maps_to = {"enabled"}
      /\ d.effort_vocab = KimiEffortVocab(m) /\ d.omit_temperature
      /\ d.effort_wire = IF port = "chat" THEN "top_level" ELSE "nested"
  BY SMT DEF Kimi
<1>2. o.effort \subseteq AllEffort
  BY OptionsAre
<1>3. DialectThinkingValue(d, o.thinking) \subseteq {"enabled"}
  BY <1>1 DEF DialectThinkingValue
<1>4. m \in {"k3", "k3-256k"} => KimiEffortVocab(m) = {"low", "high", "max"}
  BY DEF KimiEffortVocab
<1>5. FilteredEffort(d, o.effort) \subseteq AllEffort
  BY <1>2 DEF FilteredEffort
<1>6. m \in {"k3", "k3-256k"} => FilteredEffort(d, o.effort) \subseteq {"low", "high", "max"}
  BY <1>1, <1>4 DEF FilteredEffort
<1> QED BY <1>1, <1>3, <1>5, <1>6

LEMMA ArkTranslates ==
  ASSUME NEW m, NEW context, NEW port, NEW o \in AllOptions, NEW d, d = Ark(m, context, port)
  PROVE  /\ DialectThinkingValue(d, o.thinking) \subseteq ArkThinking
         /\ FilteredEffort(d, o.effort) \subseteq AllEffort
         /\ d.effort_wire = IF port = "chat" THEN "top_level" ELSE "none"
         /\ port = "chat" => d.force_stream_usage
<1>1. /\ d.adaptive_maps_to = {} /\ d.effort_vocab = {}
      /\ d.effort_wire = IF port = "chat" THEN "top_level" ELSE "none"
      /\ d.force_stream_usage = (port = "chat")
  BY SMT DEF Ark
<1>2. o.effort \subseteq AllEffort
  BY OptionsAre
<1>3. DialectThinkingValue(d, o.thinking) \subseteq ArkThinking
  <2>1. d.thinking_vocab = {"enabled", "disabled", "auto", "adaptive", "low"}
    BY SMT DEF Ark
  <2> QED BY <1>1, <2>1 DEF DialectThinkingValue, ArkThinking
<1>4. FilteredEffort(d, o.effort) = o.effort
  BY <1>1 DEF FilteredEffort
<1> QED BY <1>1, <1>2, <1>3, <1>4

LEMMA ResponsesEfforts ==
  ASSUME NEW p, NEW o \in AllOptions
  PROVE  /\ ResponsesEffort(p, o) \subseteq AllEffort
         /\ p.ark_effort /\ ~p.deepseek => ResponsesEffort(p, o) \subseteq ArkEffortVocab
<1>1. o.effort \subseteq AllEffort
  BY OptionsAre
<1>2. DeepSeekV4Effort(o) \subseteq AllEffort
  BY Translations
<1>3. {"none"} \subseteq AllEffort /\ {"high"} \subseteq AllEffort /\ {"high"} \subseteq ArkEffortVocab
      /\ ArkEffortVocab \subseteq AllEffort
  BY DEF AllEffort, ArkEffortVocab
<1>4. \/ ResponsesEffort(p, o) \in {{"none"}, DeepSeekV4Effort(o), o.effort} /\ (p.deepseek \/ ~p.ark_effort)
      \/ ResponsesEffort(p, o) \in {{"high"}, {}, o.effort \cap ArkEffortVocab}
  BY Zenon DEF ResponsesEffort
<1> QED BY <1>1, <1>2, <1>3, <1>4

\* What the servers take, variant by variant.
LEMMA TakenThinking ==
  ASSUME NEW s, s.variant \in Variants
  PROVE  /\ s.variant \in {"KimiChat", "KimiCodingAnthropic"} => TakesThinking(s) = {"enabled"}
         /\ s.variant \in {"ArkChat", "ArkAnthropic"} => TakesThinking(s) = ArkThinking
         /\ s.variant \in {"DeepSeek", "DeepSeekAnthropic"} =>
              TakesThinking(s) = IF IsDeepSeekV4Alias(s.model) THEN {"enabled", "disabled"} ELSE AllThinking
         /\ s.variant \in {"Anthropic", "OpenAi"} => TakesThinking(s) = AllThinking
<1>1. UNION Thinkings = AllThinking
  BY DEF Thinkings, AllThinking
<1>2. s.variant \in {"KimiChat", "KimiCodingAnthropic"} => TakesThinking(s) = {"enabled"}
  BY DEF TakesThinking
<1>3. s.variant \in {"ArkChat", "ArkAnthropic"} => TakesThinking(s) = ArkThinking
  BY DEF TakesThinking
<1>4. s.variant \in {"DeepSeek", "DeepSeekAnthropic"} =>
        TakesThinking(s) = IF IsDeepSeekV4Alias(s.model) THEN {"enabled", "disabled"} ELSE AllThinking
  BY <1>1 DEF TakesThinking
<1>5. s.variant \in {"Anthropic", "OpenAi"} => TakesThinking(s) = AllThinking
  BY <1>1 DEF TakesThinking
<1> QED BY <1>2, <1>3, <1>4, <1>5, Zenon

LEMMA TakenEffort ==
  ASSUME NEW s, s.variant \in Variants
  PROVE  /\ s.variant \in {"KimiChat", "KimiCodingAnthropic"} =>
              TakesEffort(s) = IF s.model \in {"k3", "k3-256k"} THEN {"low", "high", "max"} ELSE AllEffort
         /\ s.variant = "ArkAnthropic" => TakesEffort(s) = {}
         /\ s.variant = "ArkResponses" => TakesEffort(s) = ArkEffortVocab
         /\ s.variant \in {"Anthropic", "OpenAi", "Responses", "ArkChat", "DeepSeek",
                           "DeepSeekResponses", "DeepSeekAnthropic"} => TakesEffort(s) = AllEffort
<1>1. UNION Efforts = AllEffort
  BY DEF Efforts, AllEffort
<1>2. s.variant \in {"KimiChat", "KimiCodingAnthropic"} =>
        TakesEffort(s) = IF s.model \in {"k3", "k3-256k"} THEN {"low", "high", "max"} ELSE AllEffort
  BY <1>1 DEF TakesEffort
<1>3. s.variant = "ArkAnthropic" => TakesEffort(s) = {}
  BY DEF TakesEffort
<1>4. s.variant = "ArkResponses" => TakesEffort(s) = ArkEffortVocab
  BY DEF TakesEffort, ArkEffortVocab
<1>5. s.variant \in {"Anthropic", "OpenAi", "Responses", "ArkChat", "DeepSeek",
                     "DeepSeekResponses", "DeepSeekAnthropic"} => TakesEffort(s) = AllEffort
  BY <1>1 DEF TakesEffort
<1> QED BY <1>2, <1>3, <1>4, <1>5, Zenon

(* What VocabularyKept says of a thinking, an effort and the rest that     *)
(* depends on the variant.                                                 *)
Translated(s, a) ==
  /\ a.thinking \subseteq TakesThinking(s) \/ ContainsQwen(s.model)
  /\ a.effort \subseteq TakesEffort(s)
  /\ (s.variant \in {"KimiChat", "KimiCodingAnthropic"}
        \/ (s.variant = "DeepSeek" /\ a.thinking = {"enabled"})) => ~a.temperature
  /\ s.variant \in {"DeepSeek", "ArkChat"} => a.stream_usage

LEMMA ChatTranslates ==
  ASSUME NEW s \in ProviderConfigs, Created(s).ok, NEW p, p = Created(s).provider,
         NEW o \in AllOptions, NEW a, a = Parameters(p, o),
         s.variant \in {"OpenAi", "DeepSeek", "KimiChat", "ArkChat"},
         s.variant = "ArkChat" => s.kind # "kimi_coding"
  PROVE  Translated(s, a) /\ p.wire = "chat" /\ a.cache_control = FALSE
<1> DEFINE T == ChatThinking(p, o)
<1>1. s.variant \in Variants
  BY DEF ProviderConfigs
<1>2. p.wire = "chat" /\ p.model = s.model
  <2>1. CASE s.variant = "OpenAi"
    <3>1. p = OpenAiProvider(s)
      BY <2>1, CreatedByVariant, OkIsGiven, ZenonT(30)
    <3>2. Plainly(p, s, "chat")
      BY <3>1, PlainProviders, Zenon
    <3> QED BY <3>2 DEF Plainly
  <2>2. CASE s.variant = "DeepSeek"
    <3>1. IsOfDeepSeek(p, s) /\ WireOf(s.variant) = "chat"
      BY <2>2, DeepSeekProviders DEF DeepSeekVariants, WireOf
    <3> QED BY <3>1 DEF IsOfDeepSeek
  <2>3. CASE s.variant \in {"KimiChat", "ArkChat"}
    BY <2>3, DialectProviders
  <2> QED BY <2>1, <2>2, <2>3
<1>3. /\ a.thinking = IF ContainsQwen(p.model)
                      THEN {IF t = "disabled" THEN "false" ELSE "true" : t \in T} ELSE T
      /\ a.effort = IF p.dialect # {}
                    THEN UNION {IF d.effort_wire = "top_level"
                                THEN FilteredEffort(d, o.effort) ELSE {} : d \in p.dialect}
                    ELSE IF V4OnChat(p) THEN DeepSeekV4Effort(o) ELSE o.effort
      /\ a.stream_usage = SupportsStreamUsage(p)
      /\ a.cache_control = FALSE
  <2>1. p.wire = "chat"
    BY <1>2
  <2>2. a.thinking = IF ContainsQwen(p.model)
                     THEN {IF t = "disabled" THEN "false" ELSE "true" : t \in T} ELSE T
    BY <2>1, ChatAsked, ZenonT(30)
  <2>3. a.effort = IF p.dialect # {}
                   THEN UNION {IF d.effort_wire = "top_level"
                               THEN FilteredEffort(d, o.effort) ELSE {} : d \in p.dialect}
                   ELSE IF V4OnChat(p) THEN DeepSeekV4Effort(o) ELSE o.effort
    BY <2>1, ChatAsked, ZenonT(30)
  <2>4. a.stream_usage = SupportsStreamUsage(p) /\ a.cache_control = FALSE
    BY <2>1, ChatAsked
  <2> HIDE DEF T
  <2> QED BY <2>2, <2>3, <2>4
<1>10. a.temperature => /\ \A d \in p.dialect : ~d.omit_temperature
                        /\ ~DeepSeekThinking(p, T)
  BY <1>2, ChatAsked
<1> HIDE DEF T
<1>4. V4OnChat(p) \in BOOLEAN
  BY DEF V4OnChat
<1>5. ~ContainsQwen(s.model) => a.thinking = T
  BY <1>2, <1>3
<1>6. CASE s.variant = "OpenAi"
  <2>1. p.dialect = {}
    <3>1. p = OpenAiProvider(s)
      BY <1>6, CreatedByVariant, OkIsGiven, ZenonT(30)
    <3> QED BY <3>1, PlainProviders DEF Plainly
  <2>2. T \subseteq AllThinking
    BY <1>4, <2>1, Translations DEF T, ChatThinking
  <2>3. a.effort \subseteq AllEffort
    BY <1>3, <1>4, <2>1, Translations, OptionsAre
  <2>4. TakesThinking(s) = AllThinking /\ TakesEffort(s) = AllEffort
    BY <1>1, <1>6, TakenThinking, TakenEffort
  <2> QED BY <1>2, <1>3, <1>5, <1>6, <2>2, <2>3, <2>4 DEF Translated
<1>7. CASE s.variant = "DeepSeek"
  <2>1. p.dialect = {} /\ p.deepseek
    <3>1. IsOfDeepSeek(p, s)
      BY <1>7, DeepSeekProviders DEF DeepSeekVariants
    <3> QED BY <3>1 DEF IsOfDeepSeek
  <2>2. V4OnChat(p) <=> IsDeepSeekV4Alias(s.model)
    BY <1>2, <2>1 DEF V4OnChat
  <2>3. T = NativeThinking(V4OnChat(p), o)
    BY <2>1 DEF T, ChatThinking
  <2>4. T \subseteq TakesThinking(s)
    BY <1>1, <1>4, <1>7, <2>2, <2>3, Translations, TakenThinking
  <2>5. a.effort \subseteq AllEffort /\ TakesEffort(s) = AllEffort
    BY <1>1, <1>3, <1>4, <1>7, <2>1, Translations, OptionsAre, TakenEffort
  <2>6. a.thinking = {"enabled"} => T = {"enabled"}
    BY <1>3
  <2>7. T = {"enabled"} => DeepSeekThinking(p, T)
    BY <2>1 DEF DeepSeekThinking
  <2>8. a.thinking = {"enabled"} => ~a.temperature
    BY <1>10, <2>6, <2>7
  <2>9. a.stream_usage
    BY <1>3, <2>1 DEF SupportsStreamUsage
  <2> QED BY <1>2, <1>3, <1>5, <1>7, <2>4, <2>5, <2>8, <2>9 DEF Translated
<1>8. CASE s.variant = "KimiChat"
  <2>1. PICK d : d = Kimi(s.model, "chat") /\ p.dialect = {d}
    BY <1>8, DialectProviders
  <2>2. /\ DialectThinkingValue(d, o.thinking) \subseteq {"enabled"}
        /\ FilteredEffort(d, o.effort) \subseteq AllEffort
        /\ s.model \in {"k3", "k3-256k"} => FilteredEffort(d, o.effort) \subseteq {"low", "high", "max"}
        /\ d.omit_temperature /\ d.effort_wire = "top_level"
    BY <2>1, KimiTranslates
  <2>3. T = DialectThinkingValue(d, o.thinking)
    BY <2>1, Zenon DEF T, ChatThinking
  <2>4. a.effort = FilteredEffort(d, o.effort)
    BY <1>3, <2>1, <2>2
  <2>5. ~a.temperature
    BY <1>10, <2>1, <2>2
  <2>6. /\ TakesThinking(s) = {"enabled"}
        /\ TakesEffort(s) = IF s.model \in {"k3", "k3-256k"} THEN {"low", "high", "max"} ELSE AllEffort
    BY <1>1, <1>8, TakenThinking, TakenEffort
  <2> QED BY <1>2, <1>3, <1>5, <1>8, <2>2, <2>3, <2>4, <2>5, <2>6 DEF Translated
<1>9. CASE s.variant = "ArkChat"
  <2>1. PICK d : (\E context \in Nat : d = Ark(s.model, context, "chat")) /\ p.dialect = {d}
    <3>1. PICK context \in Nat : p.dialect = {Ark(s.model, context, "chat")}
      BY <1>9, DialectProviders
    <3> QED BY <3>1, Zenon
  <2>2. /\ DialectThinkingValue(d, o.thinking) \subseteq ArkThinking
        /\ FilteredEffort(d, o.effort) \subseteq AllEffort
        /\ d.force_stream_usage /\ d.effort_wire = "top_level"
    BY <2>1, ArkTranslates
  <2>3. T = DialectThinkingValue(d, o.thinking)
    BY <2>1, Zenon DEF T, ChatThinking
  <2>4. a.effort = FilteredEffort(d, o.effort)
    BY <1>3, <2>1, <2>2
  <2>5. a.stream_usage
    BY <1>3, <2>1, <2>2 DEF SupportsStreamUsage
  <2>6. TakesThinking(s) = ArkThinking /\ TakesEffort(s) = AllEffort
    BY <1>1, <1>9, TakenThinking, TakenEffort
  <2> QED BY <1>2, <1>3, <1>5, <1>9, <2>2, <2>3, <2>4, <2>5, <2>6 DEF Translated
<1> QED BY <1>6, <1>7, <1>8, <1>9

LEMMA ResponsesTranslates ==
  ASSUME NEW s \in ProviderConfigs, NEW p, p = Created(s).provider,
         NEW o \in AllOptions, NEW a, a = Parameters(p, o),
         s.variant \in {"Responses", "ArkResponses", "DeepSeekResponses"}
  PROVE  Translated(s, a) /\ p.wire = "responses" /\ a.cache_control = FALSE
<1>1. s.variant \in Variants
  BY DEF ProviderConfigs
<1>2. p.wire = "responses" /\ (s.variant = "ArkResponses" => p.ark_effort /\ ~p.deepseek)
  <2>1. CASE s.variant = "Responses"
    <3>1. p = ResponsesProvider(s)
      BY <2>1, CreatedByVariant, OkIsGiven, ZenonT(30)
    <3>2. Plainly(p, s, "responses")
      BY <3>1, PlainProviders, Zenon
    <3> QED BY <2>1, <3>2 DEF Plainly
  <2>2. CASE s.variant = "ArkResponses"
    <3>1. p = ArkResponses(s)
      BY <2>2, CreatedByVariant, OkIsGiven, ZenonT(30)
    <3>2. Plainly(ResponsesProvider(s), s, "responses")
      BY PlainProviders, Zenon
    <3> DEFINE base == ResponsesProvider(s)
    <3>3. p.wire = base.wire /\ p.ark_effort = TRUE /\ p.deepseek = base.deepseek
      <4>1. DOMAIN base = ProviderFields
        BY <3>2 DEF Plainly
      <4> HIDE DEF base
      <4> QED BY <3>1, <4>1, SMT DEF ArkResponses, ProviderFields, base
    <3> QED BY <3>2, <3>3 DEF Plainly
  <2>3. CASE s.variant = "DeepSeekResponses"
    <3>1. IsOfDeepSeek(p, s) /\ WireOf(s.variant) = "responses"
      BY <2>3, DeepSeekProviders DEF DeepSeekVariants, WireOf
    <3> QED BY <2>3, <3>1 DEF IsOfDeepSeek
  <2> QED BY <2>1, <2>2, <2>3
<1>3. a.thinking = {} /\ a.effort = ResponsesEffort(p, o) /\ a.cache_control = FALSE
  <2>1. Parameters(p, o) = ResponsesParameters(p, o)
    BY <1>2 DEF Parameters
  <2> QED BY <2>1 DEF ResponsesParameters
<1>4. a.effort \subseteq TakesEffort(s)
  <2>1. CASE s.variant = "ArkResponses"
    <3>1. ResponsesEffort(p, o) \subseteq ArkEffortVocab
      BY <1>2, <2>1, ResponsesEfforts
    <3> QED BY <1>1, <1>3, <2>1, <3>1, TakenEffort
  <2>2. CASE s.variant \in {"Responses", "DeepSeekResponses"}
    <3>1. ResponsesEffort(p, o) \subseteq AllEffort
      BY ResponsesEfforts
    <3> QED BY <1>1, <1>3, <2>2, <3>1, TakenEffort
  <2> QED BY <2>1, <2>2
<1> QED BY <1>2, <1>3, <1>4 DEF Translated

LEMMA PlainEfforts ==
  ASSUME NEW p, NEW o \in AllOptions
  PROVE  /\ PlainParameters(p, o).effort \subseteq AllEffort
         /\ PlainParameters(p, o).thinking \subseteq AllThinking
         /\ p.deepseek /\ IsDeepSeekV4Alias(p.model) =>
              /\ PlainParameters(p, o).thinking = NativeThinking(TRUE, o)
              /\ PlainParameters(p, o).effort = DeepSeekV4Effort(o)
<1> DEFINE v4 == p.deepseek /\ IsDeepSeekV4Alias(p.model)
<1>1. v4 \in BOOLEAN
  OBVIOUS
<1>2. /\ PlainParameters(p, o).thinking
           = IF o.thinking = {} /\ o.effort # {} /\ ContainsClaude(p.model)
             THEN {"adaptive"} ELSE NativeThinking(v4, o)
      /\ PlainParameters(p, o).effort = IF v4 THEN DeepSeekV4Effort(o) ELSE o.effort
  BY Zenon DEF PlainParameters
<1>3. {"adaptive"} \subseteq AllThinking
  BY DEF AllThinking
<1>4. IsDeepSeekV4Alias(p.model) => ~ContainsClaude(p.model)
  BY DEF IsDeepSeekV4Alias, ContainsDeepSeekV4, ContainsClaude
<1> HIDE DEF v4
<1>5. o.effort \subseteq AllEffort /\ DeepSeekV4Effort(o) \subseteq AllEffort
      /\ NativeThinking(v4, o) \subseteq AllThinking
  BY <1>1, OptionsAre, Translations
<1>6. PlainParameters(p, o).effort \subseteq AllEffort
  BY <1>2, <1>5
<1>7. PlainParameters(p, o).thinking \subseteq AllThinking
  BY <1>2, <1>3, <1>5
<1>8. v4 = TRUE => /\ PlainParameters(p, o).effort = DeepSeekV4Effort(o)
                   /\ IsDeepSeekV4Alias(p.model) =>
                        PlainParameters(p, o).thinking = NativeThinking(TRUE, o)
  BY <1>2, <1>4
<1>9. p.deepseek /\ IsDeepSeekV4Alias(p.model) => v4 = TRUE
  BY DEF v4
<1> QED BY <1>6, <1>7, <1>8, <1>9

LEMMA MessagesTranslates ==
  ASSUME NEW s \in ProviderConfigs, Created(s).ok, NEW p, p = Created(s).provider,
         NEW o \in AllOptions, NEW a, a = Parameters(p, o),
         s.variant \in {"Anthropic", "DeepSeekAnthropic", "KimiCodingAnthropic", "ArkAnthropic"},
         s.variant = "ArkAnthropic" => s.kind # "kimi_coding"
  PROVE  Translated(s, a) /\ p.wire = "messages" /\ (a.cache_control => ~p.deepseek)
<1>1. s.variant \in Variants
  BY DEF ProviderConfigs
<1>2. CASE s.variant = "Anthropic"
  <2>1. p = AnthropicProvider(s)
    BY <1>2, CreatedByVariant, OkIsGiven, ZenonT(30)
  <2>2. Plainly(p, s, "messages")
    BY <2>1, PlainProviders, Zenon
  <2>3. p.wire = "messages" /\ p.dialect = {} /\ ~p.deepseek
    BY <2>2 DEF Plainly
  <2>4. a.thinking \subseteq AllThinking /\ a.effort \subseteq AllEffort
    <3>1. a.thinking = PlainParameters(p, o).thinking /\ a.effort = PlainParameters(p, o).effort
      BY <2>3, MessagesAsked
    <3> QED BY <3>1, PlainEfforts
  <2>5. TakesThinking(s) = AllThinking /\ TakesEffort(s) = AllEffort
    BY <1>1, <1>2, TakenThinking, TakenEffort
  <2> QED BY <1>2, <2>3, <2>4, <2>5 DEF Translated
<1>3. CASE s.variant = "DeepSeekAnthropic"
  <2>1. IsOfDeepSeek(p, s) /\ WireOf(s.variant) = "messages"
    BY <1>3, DeepSeekProviders DEF DeepSeekVariants, WireOf
  <2>2. p.wire = "messages" /\ p.dialect = {} /\ p.deepseek /\ p.model = s.model
        /\ p.cache_control = FALSE
    BY <2>1 DEF IsOfDeepSeek
  <2>3. /\ a.thinking = PlainParameters(p, o).thinking
        /\ a.effort = PlainParameters(p, o).effort
        /\ a.cache_control = FALSE
    BY <2>2, MessagesAsked
  <2>4. a.effort \subseteq AllEffort /\ a.thinking \subseteq AllThinking
        /\ (IsDeepSeekV4Alias(s.model) => a.thinking = NativeThinking(TRUE, o))
    BY <2>2, <2>3, PlainEfforts
  <2>5. NativeThinking(TRUE, o) \subseteq {"enabled", "disabled"}
    BY Translations
  <2>6. /\ TakesThinking(s) = IF IsDeepSeekV4Alias(s.model) THEN {"enabled", "disabled"} ELSE AllThinking
        /\ TakesEffort(s) = AllEffort
    BY <1>1, <1>3, TakenThinking, TakenEffort
  <2> QED BY <1>3, <2>2, <2>3, <2>4, <2>5, <2>6 DEF Translated
<1>4. CASE s.variant = "KimiCodingAnthropic"
  <2>1. p.wire = "messages" /\ p.deepseek = FALSE
    BY <1>4, DialectProviders
  <2>2. PICK d : d = Kimi(s.model, "messages") /\ p.dialect = {d}
    BY <1>4, DialectProviders
  <2>3. /\ DialectThinkingValue(d, o.thinking) \subseteq {"enabled"}
        /\ FilteredEffort(d, o.effort) \subseteq AllEffort
        /\ s.model \in {"k3", "k3-256k"} => FilteredEffort(d, o.effort) \subseteq {"low", "high", "max"}
        /\ d.omit_temperature
    BY <2>2, KimiTranslates
  <2>4. /\ a.thinking = DialectThinkingValue(d, o.thinking)
        /\ a.effort = {} \/ a.effort = FilteredEffort(d, o.effort)
        /\ ~a.temperature
    BY <2>1, <2>2, <2>3, DialectMessagesAsked
  <2>5. /\ TakesThinking(s) = {"enabled"}
        /\ TakesEffort(s) = IF s.model \in {"k3", "k3-256k"} THEN {"low", "high", "max"} ELSE AllEffort
    BY <1>1, <1>4, TakenThinking, TakenEffort
  <2> QED BY <1>4, <2>1, <2>3, <2>4, <2>5 DEF Translated
<1>5. CASE s.variant = "ArkAnthropic"
  <2>1. p.wire = "messages" /\ p.deepseek = FALSE
    BY <1>5, DialectProviders
  <2>2. PICK d : (\E context \in Nat : d = Ark(s.model, context, "messages")) /\ p.dialect = {d}
    <3>1. PICK context \in Nat : p.dialect = {Ark(s.model, context, "messages")}
      BY <1>5, DialectProviders
    <3> QED BY <3>1, Zenon
  <2>3. DialectThinkingValue(d, o.thinking) \subseteq ArkThinking /\ d.effort_wire = "none"
    BY <2>2, ArkTranslates
  <2>4. a.thinking = DialectThinkingValue(d, o.thinking) /\ a.effort = {}
    BY <2>1, <2>2, <2>3, DialectMessagesAsked
  <2>5. TakesThinking(s) = ArkThinking
    BY <1>1, <1>5, TakenThinking
  <2> QED BY <1>5, <2>1, <2>3, <2>4, <2>5 DEF Translated
<1> QED BY <1>2, <1>3, <1>4, <1>5

\* The wire a provider speaks, and whose it is.
LEMMA MadeProviders ==
  ASSUME NEW s \in ProviderConfigs, Created(s).ok, NEW p, p = Created(s).provider
  PROVE  /\ p.wire \in {"chat", "responses", "messages"}
         /\ p.deepseek => s.variant \in DeepSeekVariants
<1>1. s.variant \in Variants
  BY DEF ProviderConfigs
<1>2. CASE s.variant \in {"KimiChat", "KimiCodingAnthropic", "ArkChat", "ArkAnthropic"}
  BY <1>2, DialectProviders
<1>3. CASE s.variant \in {"Anthropic", "OpenAi", "Responses"}
  <2>1. \E wire \in {"chat", "responses", "messages"} : Plainly(p, s, wire)
    <3>1. p \in {AnthropicProvider(s), OpenAiProvider(s), ResponsesProvider(s)}
      BY <1>3, CreatedByVariant, OkIsGiven, ZenonT(30)
    <3> QED BY <3>1, PlainProviders
  <2> QED BY <2>1 DEF Plainly
<1>4. CASE s.variant = "ArkResponses"
  <2>1. p = ArkResponses(s)
    BY <1>4, CreatedByVariant, OkIsGiven, ZenonT(30)
  <2> DEFINE base == ResponsesProvider(s)
  <2>2. Plainly(base, s, "responses")
    BY PlainProviders, Zenon
  <2>3. p.wire = base.wire /\ p.deepseek = base.deepseek
    <3>1. DOMAIN base = ProviderFields
      BY <2>2 DEF Plainly
    <3> HIDE DEF base
    <3> QED BY <2>1, <3>1, SMT DEF ArkResponses, ProviderFields, base
  <2> QED BY <2>2, <2>3 DEF Plainly
<1>5. CASE s.variant \in DeepSeekVariants
  <2>1. IsOfDeepSeek(p, s)
    BY <1>5, DeepSeekProviders
  <2> QED BY <1>5, <2>1 DEF IsOfDeepSeek, WireOf
<1> QED BY <1>1, <1>2, <1>3, <1>4, <1>5 DEF Variants, DeepSeekVariants

-----------------------------------------------------------------------------
(* The steps of a session *)

LEMMA AskNext == AskInv /\ [Next]_vars => AskInv'
<1> SUFFICES ASSUME AskInv, [Next]_vars PROVE AskInv'
  OBVIOUS
<1>1. CASE Start
  <2>1. PICK file \in Files, env \in Envs : config' = Load(file, env)
    BY <1>1 DEF Start
  <2>2. \A c \in config' : IsLoaded(c)
    BY <2>1, LoadIsLoaded
  <2> QED BY <1>1, <2>2 DEF Start, askVars, AskInv
<1>2. CASE Stop
  <2>1. NoOptions \in AllOptions
    BY DEF NoOptions, AllOptions, Thinkings, Efforts
  <2> QED BY <1>2, <2>1 DEF Stop, AskInv
<1>3. CASE UseDefault
  <2>1. PICK c \in config : \E s \in DefaultProviderConfig(c) : UseProvider(s)
    BY <1>3 DEF UseDefault
  <2>2. PICK s \in DefaultProviderConfig(c) : UseProvider(s)
    BY <2>1
  <2>3. s \in Usable
    BY <2>1, <2>2 DEF AskInv, IsLoaded, DefaultProviderConfig, Provider
  <2> QED BY <2>2, <2>3, UseKeeps
<1>4. CASE SwitchProvider
  <2>1. PICK c \in config : \E name \in DOMAIN c.providers : UseProvider(c.providers[name])
    BY <1>4 DEF SwitchProvider
  <2>2. PICK name \in DOMAIN c.providers : UseProvider(c.providers[name])
    BY <2>1
  <2>3. c.providers[name] \in Usable
    BY <2>1, <2>2 DEF AskInv, IsLoaded
  <2> QED BY <2>2, <2>3, UseKeeps
<1>5. CASE Choose
  <2>1. options' \in AllOptions
    BY <1>5, WishesAssumption DEF Choose, AllOptions
  <2> QED BY <1>5, <2>1 DEF Choose, AskInv
<1>6. CASE Ask
  <2>1. PICK p \in provider : asked' = {Parameters(p.made, options)}
    BY <1>6 DEF Ask
  <2>2. \A a \in asked' : \A q \in provider : a = Parameters(q.made, options)
    BY <2>1 DEF AskInv
  <2> QED BY <1>6, <2>2 DEF Ask, AskInv
<1>7. CASE Answered
  <2>1. PICK p \in provider, t \in Turns :
          LET u == Usage(p.made, Counted(p.made.wire, t[1], t[2]))
          IN  /\ p.made.deepseek
              /\ served' = Plus(served, t[1] + t[2], t[1], t[2])
              /\ total'  = Plus(total, u.input, ValueOr(u.read, 0), ValueOr(u.write, 0))
    BY <1>7 DEF Answered
  <2>2. t[1] \in Nat /\ t[2] \in Nat
    BY TurnsAssumption
  <2>3. p.settings \in ProviderConfigs /\ Created(p.settings).ok /\ p.made = Created(p.settings).provider
    BY DEF AskInv, Usable
  <2>4. p.made.wire \in {"chat", "responses", "messages"}
    BY <2>3, MadeProviders
  <2> DEFINE q == p.made
             h == t[1]
             m == t[2]
             u == Usage(q, Counted(q.wire, h, m))
  <2>5. u.input = h + m /\ ValueOr(u.read, 0) = h /\ ValueOr(u.write, 0) = m
    <3>1. q.deepseek
      BY <2>1
    <3>2. q.wire \in {"chat", "responses", "messages"} /\ h \in Nat /\ m \in Nat
      BY <2>2, <2>4
    <3>3. /\ Usage(q, Counted(q.wire, h, m)).input = h + m
          /\ ValueOr(Usage(q, Counted(q.wire, h, m)).read, 0) = h
          /\ ValueOr(Usage(q, Counted(q.wire, h, m)).write, 0) = m
      <4> HIDE DEF q, h, m
      <4> QED BY <3>1, <3>2, UsageIsCounted
    <3> QED BY <3>3
  <2>6. total' = Plus(total, u.input, ValueOr(u.read, 0), ValueOr(u.write, 0))
    BY <2>1
  <2> HIDE DEF u
  <2>7. total' = served'
    BY <2>1, <2>5, <2>6, Zenon DEF AskInv
  <2> QED BY <1>7, <2>7 DEF Answered, AskInv
<1>8. CASE UNCHANGED <<config, askVars>>
  BY <1>8 DEF askVars, AskInv
<1>9. CASE Hosting
  BY <1>8, <1>9 DEF Hosting
<1>10. CASE UNCHANGED vars
  BY <1>8, <1>10 DEF vars
<1> QED BY <1>1, <1>2, <1>3, <1>4, <1>5, <1>6, <1>7, <1>9, <1>10 DEF Next

LEMMA AskInvHolds == Spec => []AskInv
BY AskInit, AskNext, PTL DEF Spec

(* Whatever the file and the environment hold, a configuration that was    *)
(* loaded can be used: no provider of it is refused for its key, the       *)
(* default and the one for images are among its providers, and whatever    *)
(* number is drawn, one slot of its pool answers to it.                    *)
THEOREM WhatLoadsIsUsable == Spec => []LoadedIsUsable
<1>1. AskInv => LoadedIsUsable
  <2> SUFFICES ASSUME AskInv, NEW c \in config
               PROVE  /\ "AuthFailed" \notin refused
                      /\ \A name \in DOMAIN c.providers :
                           CreateProvider(c.providers[name]) # Err("AuthFailed")
                      /\ DefaultProviderConfig(c) # {}
                      /\ c.image.engine = "model" =>
                           \A name \in Trimmed(c.image.model_provider) : Provider(c, name) # {}
                      /\ c.subagent_pool # <<>> =>
                           \A roll \in 1 .. 100 : Cardinality(SharesOf(c.subagent_pool, roll)) = 1
    BY Zenon DEF LoadedIsUsable
  <2>1. IsLoaded(c) /\ "AuthFailed" \notin refused
    BY DEF AskInv
  <2>2. \A name \in DOMAIN c.providers : CreateProvider(c.providers[name]) # Err("AuthFailed")
    BY <2>1, CreatedIsFound DEF IsLoaded
  <2>3. \A name \in DOMAIN c.providers : Provider(c, name) # {}
    BY DEF Provider
  <2>4. DefaultProviderConfig(c) # {}
    BY <2>1, <2>3, Zenon DEF IsLoaded, Validate, DefaultProviderConfig
  <2>5. c.image.engine = "model" =>
          \A name \in Trimmed(c.image.model_provider) : name \in DOMAIN c.providers
    BY <2>1, Zenon DEF IsLoaded, Validate, ImageModelIsValid
  <2>6. ASSUME c.subagent_pool # <<>>, NEW roll \in 1 .. 100
        PROVE  Cardinality(SharesOf(c.subagent_pool, roll)) = 1
    <3>1. c.subagent_pool \in Seq(SubagentSlots) /\ PoolIsValid(c.subagent_pool)
      BY <2>1, Zenon DEF IsLoaded, Validate
    <3>2. /\ Len(c.subagent_pool) \in Nat /\ Len(c.subagent_pool) # 0
          /\ DOMAIN c.subagent_pool = 1 .. Len(c.subagent_pool)
      BY <2>6, <3>1, EmptySeq, LenProperties
    <3> QED BY <2>6, <3>1, <3>2, RollsAreShared
  <2> QED BY <2>1, <2>2, <2>3, <2>4, <2>5, <2>6, Zenon
<1> QED BY <1>1, AskInvHolds, PTL

-----------------------------------------------------------------------------
(* What the servers understand *)

LEMMA AskedIsTranslated ==
  ASSUME KindsAreTheirs, NEW s \in Usable, Created(s).ok, NEW p, p = Created(s).provider,
         NEW o \in AllOptions, NEW a, a = Parameters(p, o)
  PROVE  /\ Translated(s, a) /\ p.wire \in {"chat", "responses", "messages"}
         /\ a.cache_control => p.wire = "messages" /\ ~p.deepseek
<1>1. s \in ProviderConfigs
  BY DEF Usable
<1>2. s.variant \in Variants
  BY <1>1 DEF ProviderConfigs
<1>3. s.variant \in {"ArkChat", "ArkAnthropic"} => s.kind # "kimi_coding"
  <2>1. PICK f \in Files : \E name \in DOMAIN f.config.providers :
               /\ f.config.providers[name].variant = s.variant
               /\ f.config.providers[name].kind = s.kind
    BY DEF Usable
  <2> QED BY <2>1 DEF KindsAreTheirs
<1>4. CASE s.variant \in {"OpenAi", "DeepSeek", "KimiChat", "ArkChat"}
  BY <1>1, <1>3, <1>4, ChatTranslates
<1>5. CASE s.variant \in {"Responses", "ArkResponses", "DeepSeekResponses"}
  BY <1>1, <1>5, ResponsesTranslates
<1>6. CASE s.variant \in {"Anthropic", "DeepSeekAnthropic", "KimiCodingAnthropic", "ArkAnthropic"}
  BY <1>1, <1>3, <1>6, MessagesTranslates
<1> QED BY <1>2, <1>4, <1>5, <1>6 DEF Variants

(* Whatever was chosen, also before the provider was changed, a request    *)
(* has only values of thinking and effort and hosted tools that are of its *)
(* server's vocabulary, no temperature for Kimi or for a DeepSeek that     *)
(* thinks over Chat, usage asked for where it must be, and cache marks     *)
(* only where they are read.  Nothing is said of a temperature sent with   *)
(* thinking to the other servers, which their adapters do send.            *)
THEOREM VocabularyIsKept ==
  ASSUME KindsAreTheirs
  PROVE  Spec => []VocabularyKept
<1>1. AskInv => VocabularyKept
  <2> SUFFICES ASSUME AskInv, NEW a \in asked, NEW p \in provider, NEW s, s = p.settings
               PROVE  /\ a.thinking \subseteq TakesThinking(s) \/ ContainsQwen(s.model)
                      /\ a.effort \subseteq TakesEffort(s)
                      /\ s.variant \in {"KimiChat", "KimiCodingAnthropic"}
                           \/ (s.variant = "DeepSeek" /\ a.thinking = {"enabled"}) => ~a.temperature
                      /\ s.variant \in {"DeepSeek", "ArkChat"} => a.stream_usage
                      /\ a.cache_control => p.made.wire = "messages" /\ ~p.made.deepseek
                      /\ a.hosted \subseteq
                           CASE p.made.wire = "chat" ->
                                  {"openrouter:web_search", "openrouter:web_fetch"}
                             [] p.made.wire = "responses" ->
                                  {"web_search", "web_extractor",
                                   "openrouter:web_search", "openrouter:web_fetch"}
                             [] p.made.wire = "messages" ->
                                  {"web_search_20250305", "web_fetch_20250910"}
    BY Zenon DEF VocabularyKept
  <2>1. /\ s \in Usable /\ Created(s).ok /\ p.made = Created(s).provider
        /\ options \in AllOptions /\ a = Parameters(p.made, options)
    BY DEF AskInv
  <2>2. /\ Translated(s, a) /\ p.made.wire \in {"chat", "responses", "messages"}
        /\ a.cache_control => p.made.wire = "messages" /\ ~p.made.deepseek
    BY <2>1, AskedIsTranslated
  <2>3. a.hosted \subseteq HostedOn(p.made.wire)
    BY <2>1, <2>2, HostedIsKnown
  <2>4. a.hosted \subseteq
          CASE p.made.wire = "chat" -> {"openrouter:web_search", "openrouter:web_fetch"}
            [] p.made.wire = "responses" -> {"web_search", "web_extractor",
                                             "openrouter:web_search", "openrouter:web_fetch"}
            [] p.made.wire = "messages" -> {"web_search_20250305", "web_fetch_20250910"}
    BY <2>2, <2>3 DEF HostedOn
  <2> QED BY <2>2, <2>4 DEF Translated
<1> QED BY <1>1, AskInvHolds, PTL

-----------------------------------------------------------------------------
(* DeepSeek's three wires *)

V4Reasoning(o) ==
  (IF o.thinking = {"disabled"} THEN {"off"} ELSE {})
    \cup {IF e = "none" THEN "off" ELSE e : e \in DeepSeekV4Effort(o)}

LEMMA V4Reasons ==
  ASSUME NEW s, s.variant \in DeepSeekVariants, NEW p, IsOfDeepSeek(p, s), ContainsDeepSeekV4(p.model),
         NEW o \in AllOptions
  PROVE  Reasoning(Parameters(p, o)) = V4Reasoning(o)
<1> DEFINE a == Parameters(p, o)
<1>1. /\ p.wire = WireOf(s.variant) /\ p.dialect = {} /\ p.deepseek
      /\ IsDeepSeekV4Alias(p.model) /\ ~ContainsQwen(p.model)
  BY DEF IsOfDeepSeek, IsDeepSeekV4Alias, ContainsDeepSeekV4, ContainsQwen
<1>2. p.wire \in {"chat", "responses", "messages"}
  BY <1>1 DEF WireOf
<1>3. NativeThinking(TRUE, o) = {"disabled"} <=> o.thinking = {"disabled"}
  BY DEF NativeThinking
<1>4. ASSUME a.thinking = NativeThinking(TRUE, o), a.effort = DeepSeekV4Effort(o)
      PROVE  Reasoning(a) = V4Reasoning(o)
  BY <1>3, <1>4, Zenon DEF Reasoning, V4Reasoning
<1>5. CASE p.wire = "chat"
  <2>1. V4OnChat(p) /\ V4OnChat(p) = TRUE
    BY <1>1 DEF V4OnChat
  <2>2. ChatThinking(p, o) = NativeThinking(TRUE, o)
    BY <1>1, <2>1 DEF ChatThinking
  <2>3. a.thinking = NativeThinking(TRUE, o) /\ a.effort = DeepSeekV4Effort(o)
    BY <1>1, <1>5, <2>1, <2>2, ChatAsked
  <2> QED BY <1>4, <2>3
<1>6. CASE p.wire = "responses"
  <2>1. a.thinking = {} /\ a.effort = ResponsesEffort(p, o)
    BY <1>6, ResponsesAsked
  <2>2. CASE o.thinking = {"disabled"}
    <3>1. a.effort = {"none"}
      BY <1>1, <2>1, <2>2 DEF ResponsesEffort
    <3>2. DeepSeekV4Effort(o) = {}
      BY <2>2 DEF DeepSeekV4Effort
    <3> QED BY <2>1, <2>2, <3>1, <3>2 DEF Reasoning, V4Reasoning
  <2>3. CASE o.thinking # {"disabled"}
    <3>1. a.effort = DeepSeekV4Effort(o)
      BY <1>1, <2>1, <2>3 DEF ResponsesEffort
    <3>2. {} # {"disabled"}
      OBVIOUS
    <3> QED BY <2>1, <2>3, <3>1, <3>2, Zenon DEF Reasoning, V4Reasoning
  <2> QED BY <2>2, <2>3
<1>7. CASE p.wire = "messages"
  <2>1. a.thinking = PlainParameters(p, o).thinking /\ a.effort = PlainParameters(p, o).effort
    BY <1>1, <1>7, MessagesAsked
  <2>2. a.thinking = NativeThinking(TRUE, o) /\ a.effort = DeepSeekV4Effort(o)
    BY <1>1, <2>1, PlainEfforts
  <2> QED BY <1>4, <2>2
<1> QED BY <1>2, <1>5, <1>6, <1>7

LEMMA OverOtherIsDeepSeek ==
  ASSUME NEW s \in Usable, NEW variant \in DeepSeekVariants
  PROVE  \E t : /\ t.variant = variant /\ t.model = s.model
                /\ IsOfDeepSeek(OverOther(s, variant), t)
<1> DEFINE t == [s EXCEPT !.variant = variant]
<1>1. s \in ProviderConfigs /\ s.api_key # ""
  BY DEF Usable
<1>2. t.variant = variant /\ t.model = s.model /\ t.api_key # ""
  BY <1>1 DEF ProviderConfigs
<1>3. OverOther(s, variant) = CreateProvider(t).provider
  BY DEF OverOther
<1> HIDE DEF t
<1>4. CreateProvider(t) = Created(t)
  BY <1>2, Zenon DEF CreateProvider
<1>5. IsOfDeepSeek(Created(t).provider, t)
  BY <1>2, DeepSeekProviders
<1> QED BY <1>2, <1>3, <1>4, <1>5

(* DeepSeek's V4 is asked for the same reasoning over each of its three    *)
(* wires, can do the same, and its tokens are counted as the server does.  *)
THEOREM TheWiresAgree == Spec => []SameOnEveryWire
<1>1. AskInv => SameOnEveryWire
  <2> SUFFICES ASSUME AskInv, NEW p \in provider, NEW variant \in DeepSeekVariants, p.made.deepseek,
                      NEW other, other = OverOther(p.settings, variant)
               PROVE  /\ IsDeepSeekV4Alias(p.made.model) => Capabilities(other) = Capabilities(p.made)
                      /\ ContainsDeepSeekV4(p.made.model) =>
                           Reasoning(Parameters(other, options)) = Reasoning(Parameters(p.made, options))
    BY Zenon DEF SameOnEveryWire, AskInv, DeepSeekVariants
  <2>1. /\ p.settings \in Usable /\ p.settings \in ProviderConfigs /\ Created(p.settings).ok
        /\ p.made = Created(p.settings).provider /\ options \in AllOptions
    BY DEF AskInv, Usable
  <2>2. p.settings.variant \in DeepSeekVariants
    BY <2>1, MadeProviders
  <2>3. IsOfDeepSeek(p.made, p.settings)
    BY <2>1, <2>2, DeepSeekProviders
  <2>4. PICK t : /\ t.variant = variant /\ t.model = p.settings.model
                 /\ IsOfDeepSeek(other, t)
    BY <2>1, OverOtherIsDeepSeek
  <2>5. p.made.model = p.settings.model /\ other.model = p.settings.model
    BY <2>3, <2>4 DEF IsOfDeepSeek
  <2>6. IsDeepSeekV4Alias(p.made.model) => Capabilities(other) = Capabilities(p.made)
    BY <2>3, <2>4, <2>5 DEF IsOfDeepSeek, Capabilities
  <2>7. ASSUME ContainsDeepSeekV4(p.made.model)
        PROVE  Reasoning(Parameters(other, options)) = Reasoning(Parameters(p.made, options))
    <3>1. Reasoning(Parameters(other, options)) = V4Reasoning(options)
      BY <2>1, <2>4, <2>5, <2>7, V4Reasons
    <3>2. Reasoning(Parameters(p.made, options)) = V4Reasoning(options)
      BY <2>1, <2>2, <2>3, <2>7, V4Reasons
    <3> QED BY <3>1, <3>2
  <2> QED BY <2>6, <2>7
<1> QED BY <1>1, AskInvHolds, PTL
=============================================================================
