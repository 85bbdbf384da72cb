----------------------------- MODULE ToolHosts ------------------------------
(***************************************************************************)
(* How a tool call finds the host that runs it: CompositeToolHost and      *)
(* NullToolHost (crates/agent-contract/src/tool_host.rs), McpToolHost      *)
(* (crates/agent-mcp/src/host.rs) and the servers behind it                *)
(* (crates/agent-mcp/src/server.rs), whose lists of tools change while     *)
(* calls are looked up.  What happens inside a request to a server is the  *)
(* subject of McpStdio.                                                    *)
(*                                                                         *)
(* A name is the sequence of its parts between the separators "__"; the    *)
(* part "" stands for nothing at all.                                      *)
(***************************************************************************)
EXTENDS Naturals, Sequences

CONSTANTS Servers,   \* names of MCP servers
          Tools,     \* names of tools, as their servers know them
          OwnTools,  \* names of tools of the application's own host
          Names,     \* names that are called
          Batches    \* the lengths of call_batch that occur (1 for call)

VARIABLES hosts,      \* the hosts in order: "own", "mcp" or "null"
          composite,  \* the application has a CompositeToolHost
          connected,  \* servers that answered `initialize`
          tools,      \* the list each server was last known to have
          batch,      \* names of the batch being executed
          results,    \* of the calls of the batch so far
          step,       \* of the call: "idle", "looking", "found" or "sent"
          at,         \* the host it is at
          heard,      \* whether the hosts up to there listed it, as sets
          reached     \* which host got which call as which tool

callVars == <<batch, results, step, at, heard, reached>>
hostVars == <<hosts, composite, connected, tools, callVars>>

Part(name) == name \in Seq(STRING) /\ name # <<>>

(* Nothing in the code keeps the separator out of a server's name: it is   *)
(* the key of a table of the configuration.                                *)
ASSUME ServersArePlain == \A s \in Servers : Part(s) /\ Len(s) = 1 /\ s[1] # ""
ASSUME ToolsAreNames ==
  /\ \A t \in Tools : Part(t) /\ t # <<"">>
  /\ \A n \in OwnTools \cup Names : Part(n)
ASSUME BatchesAssumption == Batches \subseteq Nat

Hosts == {"own", "mcp", "null"}

-----------------------------------------------------------------------------
(* Errors: what an McpError is to everyone else *)

FromMcp(e) ==
  CASE e = "NotConnected"    -> "McpNotConnected"
    [] e = "ServerNotFound"  -> "McpServerNotFound"
    [] e = "ToolNotFound"    -> "ToolNotFound"
    [] e = "Timeout"         -> "IpcTimeout"
    [] e \in {"InvalidToolName", "CallFailed"} -> "ToolHost"
    [] OTHER -> "Mcp"

-----------------------------------------------------------------------------
(* Names *)

Qualified(s, t) == s \o t

(* Mutant: the name is split at the last separator. *)
SplitLast(name) ==
  IF Len(name) < 2 THEN {}
  ELSE {[server |-> SubSeq(name, 1, Len(name) - 1), tool |-> <<name[Len(name)]>>]}

(* An Option: both parts must be something.                                *)
ParseNamespaced(name) ==
  IF Len(name) < 2 \/ name[1] = "" \/ Tail(name) = <<"">> THEN {}
  ELSE {[server |-> <<Head(name)>>, tool |-> Tail(name)]}

ToolSpecs(s) == {Qualified(s, t) : t \in tools[s]}

ListTools(host) ==
  CASE host = "own"  -> SUBSET OwnTools
    [] host = "mcp"  -> {UNION {ToolSpecs(s) : s \in Servers}}
    [] host = "null" -> {{}}

-----------------------------------------------------------------------------
(* The servers *)

(* connect: the handshake succeeds; the refresh that follows is an action  *)
(* of its own, and may fail with the server connected already.             *)
Connect(s) ==
  /\ connected' = connected \cup {s}
  /\ UNCHANGED <<hosts, composite, tools, callVars>>

(* refresh_tools: whatever the server answers; of two at a time either may *)
(* come last.  An answer that is not a list of tools makes it empty.       *)
RefreshTools(s) ==
  /\ \E list \in SUBSET Tools : tools' = [tools EXCEPT ![s] = list]
  /\ UNCHANGED <<hosts, composite, connected, callVars>>

-----------------------------------------------------------------------------
(* A call *)

Current == batch[Len(results) + 1]
AtHost  == hosts[at]

(* call_batch: one call after the other.  A host that is alone is called   *)
(* without a look at what it lists.                                        *)
FirstStep == IF composite THEN "looking" ELSE "found"

CallBatch ==
  /\ step = "idle"
  /\ \E n \in Batches : batch' \in [1 .. n -> Names] /\ n > 0
  /\ results' = <<>> /\ reached' = <<>> /\ heard' = <<>>
  /\ at' = 1
  /\ step' = FirstStep
  /\ UNCHANGED <<hosts, composite, connected, tools>>

Finish(result) ==
  /\ results' = Append(results, result)
  /\ step' = IF Len(results) + 1 < Len(batch) THEN FirstStep ELSE "idle"
  /\ at' = 1
  /\ heard' = <<>>
  /\ UNCHANGED <<hosts, composite, connected, tools, batch>>

(* CompositeToolHost::call asks the hosts in their order.                  *)
Look ==
  /\ step = "looking"
  /\ at <= Len(hosts)
  /\ \E list \in ListTools(AtHost) :
       /\ heard' = Append(heard, list \cap {Current})
       /\ IF Current \in list THEN step' = "found" /\ at' = at
                              ELSE step' = step /\ at' = at + 1
  /\ UNCHANGED <<hosts, composite, connected, tools, batch, results, reached>>

LookFails ==
  /\ step = "looking"
  /\ at <= Len(hosts)
  /\ AtHost = "own"
  /\ Finish("ToolHost")
  /\ UNCHANGED reached

NotFound ==
  /\ step = "looking"
  /\ at > Len(hosts)
  /\ Finish("ToolNotFound")
  /\ UNCHANGED reached

Reach(host, tool) ==
  /\ reached' = Append(reached, [call |-> Len(results) + 1, host |-> host, tool |-> tool])
  /\ step' = "sent"
  /\ UNCHANGED <<hosts, composite, connected, tools, batch, results, at, heard>>

CallOwn == step = "found" /\ AtHost = "own" /\ Reach(<<"own">>, Current)

CallNull ==
  /\ step = "found"
  /\ AtHost = "null"
  /\ Finish("ToolHost")
  /\ UNCHANGED reached

(* McpToolHost::call and McpServer::call_tool up to the request.           *)
CallMcp ==
  /\ step = "found"
  /\ AtHost = "mcp"
  /\ \E p \in ParseNamespaced(Current) :
       /\ p.server \in Servers \cap connected
       /\ Reach(p.server, p.tool)

RefuseMcp ==
  /\ step = "found"
  /\ AtHost = "mcp"
  /\ LET parsed == ParseNamespaced(Current)
         known  == {p \in parsed : p.server \in Servers}
     IN  /\ \A p \in known : p.server \notin connected
         /\ Finish(FromMcp(IF parsed = {} THEN "InvalidToolName"
                           ELSE IF known = {} THEN "ServerNotFound"
                           ELSE "NotConnected"))
  /\ UNCHANGED reached

(* The answer, or what request gives instead: that the connection is lost  *)
(* does not say whether the tool has run.                                  *)
Answers == {"ok"} \cup {FromMcp(e) : e \in {"CallFailed", "NotConnected", "Transport", "Parse"}}

Answer ==
  /\ step = "sent"
  /\ \E a \in Answers : Finish(a)
  /\ UNCHANGED reached

CallStep == CallBatch \/ Look \/ LookFails \/ NotFound
            \/ CallOwn \/ CallNull \/ CallMcp \/ RefuseMcp \/ Answer

(* from_config connects nothing: who owns the host does, when it likes.    *)
ServerStep == "mcp" \in {hosts[i] : i \in DOMAIN hosts}
              /\ \E s \in Servers : Connect(s) \/ RefreshTools(s)

NoCall == /\ batch = <<>> /\ results = <<>> /\ step = "idle"
          /\ at = 1 /\ heard = <<>> /\ reached = <<>>

HostsInit ==
  /\ hosts \in Seq(Hosts)
  /\ composite \in BOOLEAN
  /\ ~composite => Len(hosts) = 1
  /\ connected = {} /\ tools = [s \in Servers |-> {}]
  /\ NoCall

HostsNext == CallStep \/ ServerStep

HostsSpec == HostsInit /\ [][HostsNext]_hostVars

-----------------------------------------------------------------------------
(* Properties *)

\* Where a call may end up: at the server its name begins with, as the tool
\* the name goes on with, or at the application's host under its own name.
Belongs(r) ==
  LET name == batch[r.call]
  IN  \/ r.host = <<"own">> /\ r.tool = name /\ "own" \in {hosts[i] : i \in DOMAIN hosts}
      \/ r.host \in Servers /\ r.host \in connected /\ Qualified(r.host, r.tool) = name

\* A name that McpToolHost lists is one it finds a server for.
Routed(name) ==
  \E p \in ParseNamespaced(name) : p.server \in Servers /\ Qualified(p.server, p.tool) = name

\* The call that is with a host was listed by this one, when it was asked,
\* and by none before it.
Chosen ==
  step \in {"found", "sent"} /\ composite =>
    /\ Len(heard) = at
    /\ Current \in heard[at]
    /\ \A i \in 1 .. at - 1 : Current \notin heard[i]
    /\ AtHost = "mcp" => Routed(Current)

(* However the lists of the servers change between the look and the call,  *)
(* a call reaches one host at most and once, which is the first in order   *)
(* that listed it, and there under the name it has there; what the servers *)
(* listed is never refused for its name; the calls of a batch reach their  *)
(* hosts one after the other, and each has its result                      *)
(* (CompositeToolHost::call, McpToolHost::call, parse_namespaced).         *)
CallReachesItsHost ==
  /\ \A i \in DOMAIN reached : reached[i].call \in DOMAIN batch /\ Belongs(reached[i])
  /\ \A i \in DOMAIN results : results[i] = "ok" => \E k \in DOMAIN reached : reached[k].call = i
  /\ \A i, j \in DOMAIN reached : i < j => reached[i].call < reached[j].call
  /\ Chosen
=============================================================================
