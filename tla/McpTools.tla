----------------------------- MODULE McpTools ------------------------------
(***************************************************************************)
(* MCPManager, the ToolRegistry it publishes into and the ToolToggle over  *)
(* it, for one session: which servers are connected, which tools the model *)
(* may call and which client each of them calls.  HTTP requests connect,   *)
(* disconnect, reload and edit servers and switch tools; they interleave   *)
(* at every await.  A server contributes one tool here, under its own      *)
(* name; a client is a number, given out anew by every connection.         *)
(***************************************************************************)
EXTENDS Integers, Sequences, FiniteSets, SequencesExt

CONSTANTS Servers,     \* names in the configuration
          Requests,    \* concurrent HTTP requests
          Versions,    \* definitions a server may have in config.toml, without 0
          MaxClients,  \* bound on connections ever made
          MaxRequests  \* bound on requests

VARIABLES entries,    \* _entries: the definition the manager holds, 0 for none
          clients,    \* _clients: the client per server, 0 for none
          owned,      \* _tools: the tools the manager counts as its own
          registry,   \* the client each registered tool calls, 0 for not registered
          known,      \* ToolToggle._known: the tool object kept, by its client
          disabled,   \* ToolToggle._disabled
          open,       \* clients that are connected
          made,       \* connections made
          request,    \* each request's remaining steps
          shut,       \* the runtime was closed
          served,     \* requests so far
          switched, overlapped, unapplied   \* history

toolVars == <<entries, clients, owned, registry, known, disabled, open, made, request,
              shut, served, switched, overlapped, unapplied>>

None == [todo |-> <<>>, want |-> [s \in Servers |-> 0], apply |-> FALSE]
Do(kind, s) == [do |-> kind, server |-> s]
Order == SetToSeq(Servers)
AtWork(s) == {r \in Requests : \E i \in 1..Len(request[r].todo) : request[r].todo[i].server = s}

\* Servers and tools that are there when the agent starts: all connected, the toggle applied.
Init == /\ entries = [s \in Servers |-> CHOOSE v \in Versions : TRUE]
        /\ made = Len(Order)
        /\ clients = [s \in Servers |-> CHOOSE i \in 1..Len(Order) : Order[i] = s]
        /\ owned = Servers /\ registry = clients /\ known = clients /\ disabled = {}
        /\ open = 1..made
        /\ request = [r \in Requests |-> None] /\ shut = FALSE /\ served = 0
        /\ switched = {} /\ overlapped = {} /\ unapplied = {}

Observed == [s \in Servers |-> IF known[s] = 0 THEN registry[s] ELSE known[s]]
\* register: a name that is taken is refused, and the tool stays what it was.
Registered(s, client) == IF registry[s] = 0 THEN [registry EXCEPT ![s] = client] ELSE registry
Unregistered(s) == /\ owned' = owned \ {s}
                   /\ registry' = IF s \in owned THEN [registry EXCEPT ![s] = 0] ELSE registry

-----------------------------------------------------------------------------
Start(r, steps, want, apply) ==
    /\ ~shut /\ request[r] = None /\ served < MaxRequests
    /\ served' = served + 1
    /\ request' = [request EXCEPT ![r] = [todo |-> steps, want |-> want, apply |-> apply]]
    /\ overlapped' = overlapped \cup {s \in Servers : AtWork(s) # {} /\ \E i \in 1..Len(steps) : steps[i].server = s}

\* server_action, for a server the manager knows.
Connect(r, s) == entries[s] # 0 /\ Start(r, <<Do("connect", s)>>, entries, TRUE)
Disconnect(r, s) == entries[s] # 0 /\ Start(r, <<Do("detach", s)>>, entries, TRUE)

\* reload_all: reload disconnects, and connect disconnects again; no toggle afterwards.
ReloadAll(r) ==
    LET names == SetToSeq({s \in Servers : entries[s] # 0}) IN
    Start(r, [i \in 1..2 * Len(names) |->
                Do(IF i % 2 = 1 THEN "detach" ELSE "connect", names[(i + 1) \div 2])],
          entries, FALSE)

\* upsert_server, delete_server, set_enabled: the new configuration is adopted.
EditConfig(r, s, v) ==
    LET n == Len(Order) IN
    /\ v # entries[s]
    /\ Start(r, [i \in 1..2 * n |-> IF i <= n THEN Do("drop", Order[i]) ELSE Do("adopt", Order[i - n])],
             [entries EXCEPT ![s] = v], FALSE)

Requested == /\ \E r \in Requests :
                   \/ \E s \in Servers : \/ Connect(r, s) \/ Disconnect(r, s)
                                         \/ \E v \in Versions \cup {0} : EditConfig(r, s, v)
                   \/ ReloadAll(r)
             /\ UNCHANGED <<entries, clients, owned, registry, known, disabled, open, made,
                            shut, switched, unapplied>>

-----------------------------------------------------------------------------
Then(r, steps) == request' = [request EXCEPT ![r].todo = steps \o Tail(@)]

\* MutantDetach: the tools are left for the reconnection to replace.
MutantDetach(r, s) ==
    /\ clients' = [clients EXCEPT ![s] = 0] /\ open' = open \ {clients[s]}
    /\ Then(r, <<>>)
    /\ UNCHANGED <<entries, owned, registry, made, unapplied>>

\* disconnect: the client goes at once, its tools after its close was awaited.
Detach(r, s) ==
    /\ clients' = [clients EXCEPT ![s] = 0] /\ open' = open \ {clients[s]}
    /\ \/ clients[s] # 0 /\ Then(r, <<Do("detached", s)>>) /\ UNCHANGED <<owned, registry>>
       \/ clients[s] = 0 /\ Then(r, <<>>) /\ Unregistered(s)
    /\ UNCHANGED <<entries, made, unapplied>>

\* connect: an unknown name is refused; the old client is detached first, so that
\* the fresh tools do not collide.
Reconnect(r, s) ==
    /\ Then(r, IF entries[s] = 0 THEN <<>> ELSE <<Do("detach", s), Do("link", s)>>)
    /\ UNCHANGED <<entries, clients, owned, registry, open, made, unapplied>>

Detached(r, s) == /\ Unregistered(s) /\ Then(r, <<>>)
                  /\ UNCHANGED <<entries, clients, open, made, unapplied>>

\* connect_server: a failure is recorded and returned; a tool that cannot be
\* registered is skipped.
Link(r, s) ==
    \/ Then(r, <<>>) /\ UNCHANGED <<entries, clients, owned, registry, open, made, unapplied>>
    \/ /\ made < MaxClients /\ made' = made + 1
       /\ clients' = [clients EXCEPT ![s] = made'] /\ open' = open \cup {made'}
       /\ registry' = Registered(s, made')
       /\ owned' = IF registry[s] = 0 THEN owned \cup {s} ELSE owned
       /\ unapplied' = IF s \in disabled /\ ~request[r].apply THEN unapplied \cup {s} ELSE unapplied
       /\ Then(r, <<>>) /\ UNCHANGED entries

\* apply_config, first loop: what vanished or was disabled is disconnected and forgotten.
Drop(r, s) == /\ Then(r, IF request[r].want[s] # 0 \/ entries[s] = 0 THEN <<>>
                         ELSE <<Do("detach", s), Do("forget", s)>>)
              /\ UNCHANGED <<entries, clients, owned, registry, open, made, unapplied>>

\* Second loop: what is new or changed is connected, the old client first detached.
Adopt(r, s) ==
    LET want == request[r].want[s] IN
    /\ \/ want \in {0, entries[s]} /\ Then(r, <<>>) /\ UNCHANGED entries
       \/ want \notin {0, entries[s]} /\ entries[s] # 0 /\ Then(r, <<Do("detach", s), Do("enter", s)>>) /\ UNCHANGED entries
       \/ want # 0 /\ entries[s] = 0 /\ Then(r, <<Do("enter", s)>>) /\ UNCHANGED entries
    /\ UNCHANGED <<clients, owned, registry, open, made, unapplied>>

Enter(r, s) == /\ entries' = [entries EXCEPT ![s] = request[r].want[s]]
               /\ Then(r, <<Do("link", s)>>)
               /\ UNCHANGED <<clients, owned, registry, open, made, unapplied>>

ForgetEntry(r, s) == /\ entries' = [entries EXCEPT ![s] = 0] /\ Then(r, <<>>)
                     /\ UNCHANGED <<clients, owned, registry, open, made, unapplied>>

Step(r) ==
    /\ request[r].todo # <<>>
    /\ LET step == Head(request[r].todo)
           s == step.server IN
       \/ step.do = "detach" /\ Detach(r, s)
       \/ step.do = "detached" /\ Detached(r, s)
       \/ step.do = "connect" /\ Reconnect(r, s)
       \/ step.do = "link" /\ Link(r, s)
       \/ step.do = "drop" /\ Drop(r, s)
       \/ step.do = "adopt" /\ Adopt(r, s)
       \/ step.do = "enter" /\ Enter(r, s)
       \/ step.do = "forget" /\ ForgetEntry(r, s)
    /\ UNCHANGED <<known, disabled, shut, served, switched, overlapped>>

\* MutantAnswer: a reconnection shows what was switched off again.
MutantAnswer(r) ==
    /\ request[r] # None /\ request[r].todo = <<>>
    /\ request' = [request EXCEPT ![r] = None]
    /\ UNCHANGED <<known, registry, entries, clients, owned, disabled, open, made, shut,
                   served, switched, overlapped, unapplied>>

\* The end of a request; server_action re-applies the toggle in the same breath
\* as the registration it follows.
Answer(r) ==
    /\ request[r] # None /\ request[r].todo = <<>>
    /\ request' = [request EXCEPT ![r] = None]
    /\ IF request[r].apply
       THEN known' = Observed /\ registry' = [s \in Servers |-> IF s \in disabled THEN 0 ELSE registry[s]]
       ELSE UNCHANGED <<known, registry>>
    /\ UNCHANGED <<entries, clients, owned, disabled, open, made, shut, served,
                   switched, overlapped, unapplied>>

-----------------------------------------------------------------------------
\* set_tool_enabled.  A tool the toggle never saw is answered 404.
Disable(s) ==
    /\ served < MaxRequests /\ served' = served + 1
    /\ known' = Observed /\ known'[s] # 0
    /\ disabled' = disabled \cup {s} /\ switched' = switched \cup {s}
    /\ registry' = [registry EXCEPT ![s] = 0]
    /\ UNCHANGED <<entries, clients, owned, open, made, request, shut, overlapped, unapplied>>

\* The object that goes back is the one the toggle kept.
Enable(s) ==
    /\ served < MaxRequests /\ served' = served + 1
    /\ known' = Observed /\ known'[s] # 0
    /\ disabled' = disabled \ {s} /\ unapplied' = unapplied \ {s}
    /\ registry' = Registered(s, known'[s])
    /\ switched' = switched \cup {s}
    /\ UNCHANGED <<entries, clients, owned, open, made, request, shut, overlapped>>

\* aclose disconnects the clients there are; a connection under way goes on.
Shut == /\ ~shut /\ shut' = TRUE
        /\ clients' = [s \in Servers |-> 0] /\ open' = open \ {clients[s] : s \in Servers}
        /\ overlapped' = overlapped \cup {s \in Servers : AtWork(s) # {}}
        /\ owned' = {s \in owned : clients[s] = 0}
        /\ registry' = [s \in Servers |-> IF s \in owned \ owned' THEN 0 ELSE registry[s]]
        /\ UNCHANGED <<entries, known, disabled, made, request, served, switched, unapplied>>

Next == Requested \/ (\E r \in Requests : Step(r) \/ Answer(r))
        \/ (\E s \in Servers : Disable(s) \/ Enable(s)) \/ Shut

Spec == Init /\ [][Next]_toolVars

-----------------------------------------------------------------------------
Detaching(s) == \E r \in AtWork(s) : Head(request[r].todo) = Do("detached", s)

\* "Removing the tools keeps the registry honest": a tool on offer calls the
\* client its server has now, and every open client is one a server has, as long
\* as requests on a server do not overlap and nobody switches its tool
\* (disconnect, connect_server, apply_config).
RegistryIsHonest ==
    /\ \A s \in Servers \ (switched \cup overlapped) :
          registry[s] # 0 /\ ~Detaching(s) => registry[s] = clients[s]
    /\ \A i \in open : \/ \E s \in Servers : clients[s] = i
                       \/ overlapped # {}

\* What the operator switched off is not on offer, whatever is reconnected, but
\* for the requests that do not re-apply the toggle (reload_all, apply_config).
DisabledStaysHidden ==
    \A s \in disabled \ (unapplied \cup overlapped) :
        registry[s] = 0 \/ \E r \in Requests : request[r].apply /\ request[r].todo = <<>>

ToolsetIsHonest == RegistryIsHonest /\ DisabledStaysHidden

=============================================================================
