-------------------------- MODULE ServicesMcpProofs -------------------------
(***************************************************************************)
(* What is proved of the MCP components around a session: the process pool *)
(* for every number of sessions, the client for every number of calls and  *)
(* the tool set for every finite set of servers and every set of requests. *)
(* Each component has an inductive invariant over its own variables; a     *)
(* step of Services is a step of the component or leaves these variables   *)
(* alone.                                                                  *)
(***************************************************************************)
EXTENDS Services, FiniteSetTheorems, TLAPS

---------------------------------------------------------------------------
(* The MCP pool.                                                           *)

(* McpPoolProofs proves the pool by itself: its instance here is the same   *)
(* system as the component of Services, and its theorem carries over.      *)
PoolProofs == INSTANCE McpPoolProofs WITH
    Sessions <- PoolSessions, entry <- pool_entry,
    shared <- pool_shared, claims <- pool_claims, gone <- pool_gone,
    escaped <- pool_escaped

(* A step of a component, or of another one, is a step of the component or *)
(* leaves it alone: so it is for each of them.                             *)
LEMMA PoolSteps == [ServicesNext]_servicesVars => [Pool!Next]_(Pool!poolVars)
BY DEF ServicesNext, Only, servicesVars, poolVars, Pool!poolVars

(* The pool the proofs of McpPoolProofs are about is this one.             *)
LEMMA SamePool ==
    /\ Pool!Init = PoolProofs!Init
    /\ Pool!Next = PoolProofs!Next
    /\ Pool!poolVars = PoolProofs!poolVars
    /\ Pool!PoolIsExact = PoolProofs!PoolIsExact
<1>1. Pool!Init = PoolProofs!Init
  BY DEF Pool!Init, PoolProofs!Init, Pool!Unused, PoolProofs!Unused, Pool!NoClaim,
         PoolProofs!NoClaim, Pool!Numbers, PoolProofs!Numbers
<1>2. \A s : Pool!LookUp(s) = PoolProofs!LookUp(s)
  BY DEF Pool!LookUp, PoolProofs!LookUp, Pool!SetClaim, PoolProofs!SetClaim, Pool!Numbers,
         PoolProofs!Numbers, Pool!Unused, PoolProofs!Unused
<1>3. \A s : Pool!Give(s) = PoolProofs!Give(s)
  BY DEF Pool!Give, PoolProofs!Give, Pool!SetClaim, PoolProofs!SetClaim
<1>4. \A s : Pool!Take(s) = PoolProofs!Take(s)
  BY <1>2 DEF Pool!Take, PoolProofs!Take, Pool!SetClaim, PoolProofs!SetClaim
<1>5. Pool!PoolIsExact = PoolProofs!PoolIsExact
  BY DEF Pool!PoolIsExact, PoolProofs!PoolIsExact, Pool!HeldIsRunning, PoolProofs!HeldIsRunning,
    Pool!RunningIsWanted, PoolProofs!RunningIsWanted, Pool!WaiterHasOwner, PoolProofs!WaiterHasOwner,
    Pool!Numbers, PoolProofs!Numbers, Pool!Owner, PoolProofs!Owner
<1>6. Pool!poolVars = PoolProofs!poolVars
  BY DEF Pool!poolVars, PoolProofs!poolVars
<1>7. Pool!Next = PoolProofs!Next
  BY <1>2, <1>3, <1>4 DEF Pool!Next, PoolProofs!Next, Pool!Acquire, PoolProofs!Acquire,
   Pool!Connected, PoolProofs!Connected, Pool!ConnectFails, PoolProofs!ConnectFails,
   Pool!Wake, PoolProofs!Wake, Pool!Release, PoolProofs!Release, Pool!Leave, PoolProofs!Leave,
   Pool!SetClaim, PoolProofs!SetClaim
<1> QED BY <1>1, <1>5, <1>6, <1>7

(* With whatever number of sessions, no server process of the pool runs    *)
(* for nobody, none is closed under a session, and no session waits for a  *)
(* connection that nobody is making (MCPProcessPool).                     *)
THEOREM PoolIsSafe == ServicesSpec => []PoolIsExact
<1>1. PoolProofs!Spec => []PoolProofs!PoolIsExact
  BY PoolProofs!PoolStaysExact
<1>2. ServicesInit => PoolProofs!Init
  BY SamePool DEF ServicesInit
<1>3. [ServicesNext]_servicesVars => [PoolProofs!Next]_(PoolProofs!poolVars)
  <2> SUFFICES ASSUME [ServicesNext]_servicesVars PROVE PoolProofs!Next \/ UNCHANGED PoolProofs!poolVars
    OBVIOUS
  <2>1. Pool!Next \/ UNCHANGED Pool!poolVars
    BY PoolSteps
  <2>2. UNCHANGED Pool!poolVars => UNCHANGED PoolProofs!poolVars
    BY DEF Pool!poolVars, PoolProofs!poolVars
  <2> QED  BY <2>1, <2>2, SamePool
<1>4. PoolProofs!PoolIsExact => PoolIsExact
  BY SamePool DEF PoolIsExact
<1> QED  BY <1>1, <1>2, <1>3, <1>4, PTL DEF ServicesSpec, PoolProofs!Spec

---------------------------------------------------------------------------
(* The MCP client.                                                         *)

Lines == [at : {"idle", "closed", "queued", "writing", "waiting", "timeout", "result"},
          id : Nat, via : Nat]

(* Ids are given out once, a caller has the one its line was written with, *)
(* and an answer on its way comes from the process that line went to.      *)
ClientInv ==
    /\ client_process \in Nat /\ client_started \in Nat /\ client_lastId \in Nat
    /\ client_call \in [ClientCalls -> Lines]
    /\ client_waiters \subseteq 1..client_lastId
    /\ \A a \in client_answers : /\ a = [id |-> a.id, from |-> a.from]
                                 /\ a.id \in 1..client_lastId
    /\ \A c \in ClientCalls :
          /\ client_call[c].id <= client_lastId
          /\ client_call[c].at \in {"idle", "queued"} => client_call[c].id = 0
          /\ client_call[c].at \in {"writing", "waiting"} => client_call[c].id \in client_waiters
          /\ client_call[c].at = "result" =>
                [id |-> client_call[c].id, from |-> client_call[c].via] \notin client_answers
          /\ \A a \in client_answers : a.id = client_call[c].id => a.from = client_call[c].via
    /\ \A c, d \in ClientCalls :
          client_call[c].id = client_call[d].id /\ client_call[c].id # 0 => c = d

(* See PoolSteps.                                                          *)
LEMMA ClientSteps == [ServicesNext]_servicesVars => [Client!Next]_(Client!clientVars)
BY DEF ServicesNext, Only, servicesVars, clientVars, Client!clientVars

(* Every action of the client keeps the invariant.                         *)
LEMMA ClientStep == ClientInv /\ [Client!Next]_(Client!clientVars) => ClientInv'
<1> SUFFICES ASSUME ClientInv, [Client!Next]_(Client!clientVars) PROVE ClientInv'
  OBVIOUS
<1> USE DEF Client!Waits
<1>1. CASE Client!Connect
  BY <1>1 DEF Client!Connect, ClientInv
<1>2. ASSUME NEW c \in ClientCalls, Client!Request(c) PROVE ClientInv'
  <2>1. /\ client_call' \in [ClientCalls -> Lines]
        /\ client_call'[c].id = 0 /\ client_call'[c].at \in {"closed", "queued"}
        /\ \A d \in ClientCalls \ {c} : client_call'[d] = client_call[d]
        /\ UNCHANGED <<client_process, client_started, client_waiters, client_lastId, client_answers>>
    BY <1>2 DEF Client!Request, Client!Idle, ClientInv, Lines
  <2>2. \A a \in client_answers : a.id # 0
    BY DEF ClientInv
  <2>3. \A e, d \in ClientCalls :
           client_call'[e].id = client_call'[d].id /\ client_call'[e].id # 0 => e = d
    BY <2>1 DEF ClientInv
  <2> QED  BY <2>1, <2>2, <2>3 DEF ClientInv
<1>3. ASSUME NEW c \in ClientCalls, Client!Write(c) PROVE ClientInv'
  <2> DEFINE n == client_lastId + 1
             line == [id |-> n, from |-> client_call[c].via]
  <2>10. /\ client_lastId \in Nat /\ n \in Nat /\ n # 0 /\ n > client_lastId
         /\ client_call \in [ClientCalls -> Lines]
         /\ \A a \in client_answers : a.id \in 1..client_lastId
    BY DEF ClientInv
  <2>11. /\ client_call' = [client_call EXCEPT ![c] = [@ EXCEPT !.at = "writing", !.id = n]]
         /\ client_lastId' = n /\ client_waiters' = client_waiters \cup {n}
         /\ client_answers' \subseteq client_answers \cup {line}
         /\ UNCHANGED <<client_process, client_started>>
    BY <1>3 DEF Client!Write
  <2>12. client_call[c] \in Lines
    BY <2>10
  <2>13. /\ [client_call[c] EXCEPT !.at = "writing", !.id = n] \in Lines
         /\ [client_call[c] EXCEPT !.at = "writing", !.id = n].id = n
         /\ [client_call[c] EXCEPT !.at = "writing", !.id = n].at = "writing"
         /\ [client_call[c] EXCEPT !.at = "writing", !.id = n].via = client_call[c].via
    BY <2>10, <2>12 DEF Lines
  <2>1. /\ client_call' \in [ClientCalls -> Lines]
        /\ client_call'[c].id = n /\ client_call'[c].at = "writing"
        /\ client_call'[c].via = client_call[c].via
        /\ \A d \in ClientCalls \ {c} : client_call'[d] = client_call[d]
    BY <2>10, <2>11, <2>13
  <2>2. line.id = n /\ line.from = client_call[c].via /\ line = [id |-> line.id, from |-> line.from]
    OBVIOUS
  <2>3. \A d \in ClientCalls \ {c} : client_call[d].id # n /\ client_call[d].id \in Nat
    <3>1. \A d \in ClientCalls : client_call[d].id <= client_lastId
      BY DEF ClientInv
    <3>2. \A d \in ClientCalls : client_call[d].id \in Nat
      BY <2>10 DEF Lines
    <3> QED  BY <2>10, <3>1, <3>2
  <2>4. \A a \in client_answers : a.id # n /\ a.id \in 1..client_lastId
    BY <2>10
  <2> HIDE DEF n, line
  <2>5. client_waiters' \subseteq 1..n
    <3>1. client_waiters \subseteq 1..client_lastId /\ client_lastId \in Nat /\ n = client_lastId + 1
      BY DEF ClientInv, n
    <3> QED  BY <2>1, <2>10, <2>11, <3>1
  <2>6. \A a \in client_answers' : a = [id |-> a.id, from |-> a.from] /\ a.id \in 1..n
    <3>1. n \in 1..n /\ 1..client_lastId \subseteq 1..n
      BY <2>1, <2>10, <2>11 DEF n
    <3> QED  BY <2>1, <2>10, <2>11, <2>2, <2>4, <3>1 DEF ClientInv
  <2>7. \A d, e \in ClientCalls :
           client_call'[d].id = client_call'[e].id /\ client_call'[d].id # 0 => d = e
    BY <2>1, <2>10, <2>11, <2>3 DEF ClientInv
  <2>8. \A a \in client_answers' : a.id = n => a = line
    BY <2>1, <2>10, <2>11, <2>4
  <2>9. ASSUME NEW d \in ClientCalls, d # c
        PROVE  /\ client_call'[d].id <= n
               /\ client_call'[d].at \in {"idle", "queued"} => client_call'[d].id = 0
               /\ client_call'[d].at \in {"writing", "waiting"} => client_call'[d].id \in client_waiters'
               /\ client_call'[d].at = "result" =>
                     [id |-> client_call'[d].id, from |-> client_call'[d].via] \notin client_answers'
               /\ \A a \in client_answers' : a.id = client_call'[d].id => a.from = client_call'[d].via
    <3>1. client_call'[d] = client_call[d] /\ client_call[d].id <= client_lastId
          /\ client_call[d].id # n /\ client_call[d].id \in Nat
      BY <2>1, <2>3, <2>9 DEF ClientInv
    <3>2. \A a \in client_answers' : a.id = client_call[d].id => a \in client_answers
      BY <2>1, <2>10, <2>11, <2>2, <3>1
    <3>3. client_call[d].at = "result" =>
             [id |-> client_call[d].id, from |-> client_call[d].via] \notin client_answers'
      BY <3>2 DEF ClientInv
    <3>4. /\ client_call[d].at \in {"idle", "queued"} => client_call[d].id = 0
          /\ client_call[d].at \in {"writing", "waiting"} => client_call[d].id \in client_waiters
          /\ \A a \in client_answers : a.id = client_call[d].id => a.from = client_call[d].via
      BY DEF ClientInv
    <3>5. client_call[d].id <= n
      BY <2>10, <3>1
    <3>6. client_call'[d] = client_call[d]
      BY <3>1
    <3>7. client_call[d].at \in {"writing", "waiting"} => client_call[d].id \in client_waiters'
      BY <2>11, <3>4
    <3>8. \A a \in client_answers' : a.id = client_call[d].id => a.from = client_call[d].via
      BY <3>2, <3>4
    <3> QED  BY <3>3, <3>4, <3>5, <3>6, <3>7, <3>8
  <2>14. /\ client_call'[c].id <= n
         /\ client_call'[c].id \in client_waiters'
         /\ client_call'[c].at = "writing"
         /\ \A a \in client_answers' : a.id = client_call'[c].id => a.from = client_call'[c].via
    BY <2>1, <2>10, <2>11, <2>2, <2>8
  <2>15. client_process' \in Nat /\ client_started' \in Nat /\ client_lastId' \in Nat
    BY <2>10, <2>11 DEF ClientInv
  <2> QED  BY <2>1, <2>11, <2>5, <2>6, <2>7, <2>9, <2>14, <2>15 DEF ClientInv
<1>4. ASSUME NEW c \in ClientCalls, Client!Drained(c) PROVE ClientInv'
  BY <1>4 DEF Client!Drained, Client!Move, ClientInv, Lines
<1>5. ASSUME NEW c \in ClientCalls, Client!Timeout(c) PROVE ClientInv'
  BY <1>5 DEF Client!Timeout, Client!Move, ClientInv, Lines
<1>6. ASSUME NEW c \in ClientCalls, Client!Cancelled(c) PROVE ClientInv'
  BY <1>6 DEF Client!Cancelled, Client!Move, ClientInv, Lines
<1>7. ASSUME NEW a \in client_answers, Client!Dispatch(a) PROVE ClientInv'
  BY <1>7 DEF Client!Dispatch, Client!Answered, ClientInv, Lines
<1>8. CASE Client!Eof \/ Client!Close
  BY <1>8 DEF Client!Eof, Client!Close, Client!FailPending, ClientInv, Lines
<1>9. CASE UNCHANGED Client!clientVars
  BY <1>9 DEF Client!clientVars, ClientInv
<1> QED  BY <1>1, <1>2, <1>3, <1>4, <1>5, <1>6, <1>7, <1>8, <1>9 DEF Client!Next

(* Whatever answers come late, twice or after the pipe broke: every        *)
(* waiting call is registered, so that it is released, and a reply goes to *)
(* the call it belongs to (MCPClient._request, _dispatch).                 *)
THEOREM ClientStaysExact == ServicesSpec => []ClientIsExact
<1>1. ServicesInit => ClientInv
  BY DEF ServicesInit, Client!Init, Client!Idle, ClientInv, Lines
<1>2. ClientInv => ClientIsExact
  BY DEF ClientInv, ClientIsExact, Client!ClientIsExact, Client!EveryWaiterIsRegistered,
         Client!RepliesAreRouted, Client!Waits
<1>3. ClientInv /\ [ServicesNext]_servicesVars => ClientInv'
  BY ClientSteps, ClientStep
<1> QED  BY <1>1, <1>2, <1>3, PTL DEF ServicesSpec

---------------------------------------------------------------------------
(* The tool set.                                                           *)

(* The server and its tool are safe in the hands of one request: while no  *)
(* other works on the server, whatever registers a tool finds the name     *)
(* free, because what waits for a disconnection stands right behind it in  *)
(* the list of steps.  The invariant says so of the list, of the server    *)
(* the first step is about, and of every server with an entry.             *)

(* See PoolSteps.                                                          *)
LEMMA ToolsSteps == [ServicesNext]_servicesVars => [Sync!Next]_(Sync!toolVars)
BY DEF ServicesNext, Only, servicesVars, toolsVars, Sync!toolVars

---------------------------------------------------------------------------
(* Lists of steps.                                                         *)

StepKinds == {"detach", "detached", "connect", "link", "drop", "adopt", "enter", "forget"}
ToolSteps == [do : StepKinds, server : Servers]

(* What follows a disconnection waits right behind it.                     *)
InTurn(todo) ==
    \A i \in 1..Len(todo) :
        /\ todo[i].do = "detached" => i = 1
        /\ todo[i].do \in {"link", "enter", "forget"} =>
              \/ i = 1
              \/ i = 2 /\ todo[1].do \in {"detach", "detached"} /\ todo[1].server = todo[2].server

(* A request that re-applies the toggle registers last.                    *)
AppliesLast(todo) ==
    \A i \in 1..Len(todo) :
        /\ todo[i].do \in {"connect", "detach", "detached", "link"}
        /\ todo[i].do \in {"connect", "link"} => i = Len(todo)

(* What a request still has to do after its first step pushed others.      *)
LEMMA Pushed ==
    ASSUME NEW todo \in Seq(ToolSteps), todo # <<>>, NEW steps \in Seq(ToolSteps)
    PROVE  LET new == steps \o Tail(todo) n == Len(steps) IN
           /\ new \in Seq(ToolSteps)
           /\ Len(todo) \in Nat \ {0} /\ n \in Nat /\ Len(new) = n + Len(todo) - 1
           /\ \A i \in 1..n : new[i] = steps[i]
           /\ \A i \in 1..Len(new) : i > n => i - n + 1 \in 2..Len(todo) /\ new[i] = todo[i - n + 1]
<1>1. /\ Len(todo) \in Nat /\ Len(todo) > 0 /\ Tail(todo) \in Seq(ToolSteps)
      /\ Len(Tail(todo)) = Len(todo) - 1
      /\ \A i \in 1..(Len(todo) - 1) : Tail(todo)[i] = todo[i + 1]
  OBVIOUS
<1>2. /\ steps \o Tail(todo) \in Seq(ToolSteps) /\ Len(steps) \in Nat
      /\ Len(steps \o Tail(todo)) = Len(steps) + Len(todo) - 1
  BY <1>1
<1>3. \A i \in 1..Len(steps) : (steps \o Tail(todo))[i] = steps[i]
  BY <1>1
<1>4. ASSUME NEW i \in 1..Len(steps \o Tail(todo)), i > Len(steps)
      PROVE  /\ i - Len(steps) + 1 \in 2..Len(todo)
             /\ (steps \o Tail(todo))[i] = todo[i - Len(steps) + 1]
  <2>1. i - Len(steps) \in 1..(Len(todo) - 1)
    BY <1>1, <1>2, <1>4
  <2>2. (steps \o Tail(todo))[i] = Tail(todo)[i - Len(steps)]
    BY <1>1, <1>2, <1>4
  <2>3. Tail(todo)[i - Len(steps)] = todo[i - Len(steps) + 1]
    BY <1>1, <2>1
  <2> QED  BY <1>1, <1>2, <2>1, <2>2, <2>3
<1> QED  BY <1>1, <1>2, <1>3, <1>4

(* What a step pushes in order leaves the rest in order: behind a step     *)
(* that is no disconnection nothing waits for one.                         *)
LEMMA PushedInTurn ==
    ASSUME NEW todo \in Seq(ToolSteps), todo # <<>>, InTurn(todo),
           NEW steps \in Seq(ToolSteps), InTurn(steps), Len(steps) <= 2,
           \/ steps = <<>>
           \/ todo[1].do \notin {"detach", "detached"}
           \/ steps = <<Sync!Do("detached", todo[1].server)>>
    PROVE  InTurn(steps \o Tail(todo))
<1> DEFINE new == steps \o Tail(todo)
           n == Len(steps)
<1>0. /\ Len(todo) \in Nat \ {0} /\ n \in Nat /\ Len(new) = n + Len(todo) - 1
      /\ \A i \in 1..n : new[i] = steps[i]
      /\ \A i \in 1..Len(new) : i > n => i - n + 1 \in 2..Len(todo) /\ new[i] = todo[i - n + 1]
  BY Pushed
<1>n. /\ steps = <<>> => n = 0
      /\ steps = <<Sync!Do("detached", todo[1].server)>> =>
            n = 1 /\ steps[1].do = "detached" /\ steps[1].server = todo[1].server
  BY DEF Sync!Do
<1>m. InTurn(steps) => \A i \in 1..n :
        /\ steps[i].do = "detached" => i = 1
        /\ steps[i].do \in {"link", "enter", "forget"} =>
              \/ i = 1
              \/ i = 2 /\ steps[1].do \in {"detach", "detached"} /\ steps[1].server = steps[2].server
  BY DEF InTurn
<1> HIDE DEF new, n
<1> SUFFICES ASSUME NEW i \in 1..Len(new)
             PROVE  /\ new[i].do = "detached" => i = 1
                    /\ new[i].do \in {"link", "enter", "forget"} =>
                          \/ i = 1
                          \/ /\ i = 2 /\ new[1].do \in {"detach", "detached"}
                             /\ new[1].server = new[2].server
  BY DEF InTurn, new
<1>1. CASE i <= n
  <2>1. i \in 1..n /\ 1 \in 1..n /\ new[i] = steps[i] /\ new[1] = steps[1]
    <3>1. i \in 1..n /\ 1 \in 1..n
      BY <1>0, <1>1
    <3> QED  BY <3>1, <1>0
  <2>2. new[i].do = "detached" => i = 1
    BY <2>1, <1>m
  <2>3. ASSUME new[i].do \in {"link", "enter", "forget"}, i # 1
        PROVE  i = 2 /\ new[1].do \in {"detach", "detached"} /\ new[1].server = new[2].server
    <3>1. i = 2 /\ steps[1].do \in {"detach", "detached"} /\ steps[1].server = steps[2].server
      BY <2>1, <2>3, <1>m
    <3> QED  BY <3>1, <2>1
  <2> QED  BY <2>2, <2>3
<1>2. CASE i > n
  <2> DEFINE j == i - n + 1
  <2>1. j \in 2..Len(todo) /\ new[i] = todo[j] /\ j \in 1..Len(todo) /\ j # 1
    <3>1. j \in 2..Len(todo) /\ new[i] = todo[j]
      BY <1>0, <1>2
    <3>2. 2..Len(todo) \subseteq 1..Len(todo) /\ 1 \notin 2..Len(todo)
      BY <1>0
    <3> HIDE DEF j
    <3> QED  BY <3>1, <3>2
  <2>2. new[i].do # "detached"
    BY <2>1 DEF InTurn
  <2>3. ASSUME new[i].do \in {"link", "enter", "forget"}
        PROVE  /\ j = 2 /\ todo[1].do \in {"detach", "detached"} /\ todo[1].server = todo[2].server
    BY <2>1, <2>3 DEF InTurn
  <2>4. CASE steps = <<>>
    <3>1. n = 0
      BY <2>4, <1>n
    <3>2. j = 2 => i = 1
      BY <3>1, <1>0
    <3> QED  BY <2>2, <2>3, <3>2
  <2>5. CASE steps = <<Sync!Do("detached", todo[1].server)>>
    <3>1. n = 1 /\ steps[1].do = "detached" /\ steps[1].server = todo[1].server
      BY <2>5, <1>n
    <3>2. new[1] = steps[1]
      BY <3>1, <1>0
    <3>3. ASSUME new[i].do \in {"link", "enter", "forget"}
          PROVE  i = 2 /\ new[1].do \in {"detach", "detached"} /\ new[1].server = new[2].server
      <4>1. i = 2 /\ new[2] = todo[2] /\ todo[1].server = todo[2].server
        BY <2>1, <2>3, <3>1, <3>3, <1>0
      <4> QED  BY <4>1, <3>1, <3>2
    <3> QED  BY <3>3, <2>2
  <2>6. CASE todo[1].do \notin {"detach", "detached"}
    BY <2>2, <2>3, <2>6
  <2> QED  BY <2>4, <2>5, <2>6
<1> QED  BY <1>0, <1>1, <1>2

(* A request that re-applies the toggle goes on doing so last.             *)
LEMMA PushedAppliesLast ==
    ASSUME NEW todo \in Seq(ToolSteps), todo # <<>>, AppliesLast(todo),
           NEW s, NEW steps \in Seq(ToolSteps),
           \/ steps = <<>>
           \/ todo[1].do = "detach" /\ steps = <<Sync!Do("detached", s)>>
           \/ todo[1].do = "connect" /\ steps = <<Sync!Do("detach", s), Sync!Do("link", s)>>
    PROVE  /\ AppliesLast(steps \o Tail(todo))
           /\ todo[1].do = "link" => Tail(todo) = <<>>
<1> DEFINE new == steps \o Tail(todo)
           n == Len(steps)
<1>0. /\ Len(todo) \in Nat \ {0} /\ n \in Nat /\ Len(new) = n + Len(todo) - 1
      /\ \A i \in 1..n : new[i] = steps[i]
      /\ \A i \in 1..Len(new) : i > n => i - n + 1 \in 2..Len(todo) /\ new[i] = todo[i - n + 1]
  BY Pushed
<1>1. /\ steps = <<>> => n = 0
      /\ steps = <<Sync!Do("detached", s)>> => n = 1 /\ steps[1].do = "detached"
      /\ steps = <<Sync!Do("detach", s), Sync!Do("link", s)>> =>
            n = 2 /\ steps[1].do = "detach" /\ steps[2].do = "link"
  BY DEF Sync!Do
<1>2. \A i \in 1..Len(todo) :
        /\ todo[i].do \in {"connect", "detach", "detached", "link"}
        /\ todo[i].do \in {"connect", "link"} => i = Len(todo)
  BY DEF AppliesLast
<1>3. 1 \in 1..Len(todo)
  BY <1>0
<1>4. todo[1].do = "link" => Tail(todo) = <<>>
  <2>1. todo[1].do = "link" => Len(todo) = 1
    BY <1>2, <1>3
  <2>2. Tail(todo) \in Seq(ToolSteps) /\ Len(Tail(todo)) = Len(todo) - 1
    OBVIOUS
  <2> QED  BY <2>1, <2>2
<1> HIDE DEF new, n
<1>5. ASSUME NEW i \in 1..Len(new)
      PROVE  /\ new[i].do \in {"connect", "detach", "detached", "link"}
             /\ new[i].do \in {"connect", "link"} => i = Len(new)
  <2>6. CASE i <= n
    <3>1. i \in 1..n /\ new[i] = steps[i]
      <4>1. i \in 1..n
        BY <1>0, <2>6
      <4> QED  BY <4>1, <1>0
    <3>2. CASE steps = <<>>
      BY <3>1, <3>2, <1>1
    <3>3. CASE todo[1].do = "detach" /\ steps = <<Sync!Do("detached", s)>>
      <4>1. i = 1 /\ new[i].do = "detached"
        BY <3>1, <3>3, <1>1
      <4> QED  BY <4>1
    <3>4. CASE todo[1].do = "connect" /\ steps = <<Sync!Do("detach", s), Sync!Do("link", s)>>
      <4>1. Len(todo) = 1
        BY <3>4, <1>2, <1>3
      <4>2. n = 2
        BY <3>4, <1>1
      <4>3. Len(new) = 2
        BY <4>1, <4>2, <1>0
      <4>4. i \in 1..2 /\ steps[1].do = "detach" /\ steps[2].do = "link"
        BY <3>1, <3>4, <4>2, <1>1
      <4>5. (i = 1 /\ new[i].do = "detach") \/ (i = 2 /\ new[i].do = "link")
        BY <3>1, <4>4
      <4> QED  BY <4>3, <4>5
    <3> QED  BY <3>2, <3>3, <3>4
  <2>7. CASE i > n
    <3>1. i - n + 1 \in 1..Len(todo) /\ new[i] = todo[i - n + 1]
      BY <1>0, <2>7
    <3>2. new[i].do \in {"connect", "link"} => i - n + 1 = Len(todo)
      BY <3>1, <1>2
    <3>3. new[i].do \in {"connect", "link"} => i = Len(new)
      BY <3>2, <1>0
    <3> QED  BY <3>1, <3>3, <1>2
  <2> QED  BY <1>0, <2>6, <2>7
<1> QED  BY <1>4, <1>5 DEF AppliesLast, new

---------------------------------------------------------------------------
(* The invariant.                                                          *)

TodoOK(t) == /\ t.todo \in Seq(ToolSteps) /\ InTurn(t.todo)
             /\ t.want \in [Servers -> Versions \cup {0}] /\ t.apply \in BOOLEAN
             /\ t = [todo |-> t.todo, want |-> t.want, apply |-> t.apply]
             /\ t.apply => AppliesLast(t.todo)

AtServer(r, s) ==
    \E i \in 1..Len(tools_request[r].todo) : tools_request[r].todo[i].server = s

(* The server is without a client, and its tool without a place.           *)
Free(s) == tools_clients[s] = 0 /\ (s \notin tools_switched => tools_registry[s] = 0)

(* What request r is about to do to the server finds it ready.             *)
FindsReady(r, s) ==
    LET todo == tools_request[r].todo IN
    /\ todo # <<>> /\ todo[1].server = s =>
          /\ todo[1].do = "detached" => tools_clients[s] = 0
          /\ todo[1].do \in {"link", "enter", "forget"} => Free(s)
    /\ \A i \in 1..Len(todo) : todo[i].server = s =>
          /\ todo[i].do = "link" => tools_entries[s] # 0
          /\ todo[i].do = "enter" => tools_request[r].want[s] # 0

OnOffer(s) ==
    s \notin tools_switched /\ tools_registry[s] # 0 =>
       s \in tools_owned /\ (~Sync!Detaching(s) => tools_registry[s] = tools_clients[s])

ServerOK(s) ==
    /\ \A r, q \in ToolRequests : AtServer(r, s) /\ AtServer(q, s) => r = q
    /\ tools_entries[s] = 0 => Free(s)
    /\ OnOffer(s)
    /\ \A r \in ToolRequests : FindsReady(r, s)

ToolsTypes ==
    /\ tools_made \in Nat /\ tools_open \subseteq 1..tools_made
    /\ tools_clients \in [Servers -> Nat] /\ tools_registry \in [Servers -> Nat]
    /\ tools_entries \in [Servers -> Versions \cup {0}] /\ tools_known \in [Servers -> Nat]
    /\ tools_owned \subseteq Servers /\ tools_disabled \subseteq tools_switched
    /\ tools_switched \subseteq Servers

OpenOK ==
    \A i \in tools_open : tools_overlapped # {} \/ \E s \in Servers : tools_clients[s] = i

ToolsInv ==
    /\ ToolsTypes
    /\ DOMAIN tools_request = ToolRequests /\ \A r \in ToolRequests : TodoOK(tools_request[r])
    /\ \A s \in Servers \ tools_overlapped : ServerOK(s)
    /\ OpenOK
    /\ Sync!DisabledStaysHidden

---------------------------------------------------------------------------
(* A request takes its next step.                                          *)

(* The step r is at, about server s, is replaced by steps.                 *)
Pushes(r, s, steps) ==
    LET todo == tools_request[r].todo IN
    /\ todo # <<>> /\ todo[1].server = s
    /\ steps \in Seq(ToolSteps) /\ Len(steps) <= 2 /\ InTurn(steps)
    /\ \A i \in 1..Len(steps) : steps[i].server = s
    /\ \/ steps = <<>>
       \/ todo[1].do \notin {"detach", "detached"}
       \/ steps = <<Sync!Do("detached", s)>>
    /\ tools_request[r].apply =>
          \/ steps = <<>>
          \/ todo[1].do = "detach" /\ steps = <<Sync!Do("detached", s)>>
          \/ todo[1].do = "connect" /\ steps = <<Sync!Do("detach", s), Sync!Do("link", s)>>
    /\ Sync!Then(r, steps)

(* What concerns the other servers stays.                                  *)
Elsewhere(s) ==
    /\ UNCHANGED <<tools_known, tools_disabled, tools_switched, tools_overlapped>>
    /\ \A x \in Servers \ {s} :
          /\ tools_clients'[x] = tools_clients[x] /\ tools_registry'[x] = tools_registry[x]
          /\ tools_entries'[x] = tools_entries[x] /\ (x \in tools_owned' <=> x \in tools_owned)

(* The requests after a step: r has its steps replaced, the others wait.   *)
LEMMA PushedRequests ==
    ASSUME ToolsInv, NEW r \in ToolRequests, NEW s, NEW steps, Pushes(r, s, steps)
    PROVE  LET todo == tools_request[r].todo new == tools_request'[r].todo n == Len(steps) IN
           /\ DOMAIN tools_request' = ToolRequests
           /\ \A q \in ToolRequests : TodoOK(tools_request'[q])
           /\ \A q \in ToolRequests \ {r} : tools_request'[q] = tools_request[q]
           /\ tools_request'[r].want = tools_request[r].want
           /\ tools_request'[r].apply = tools_request[r].apply
           /\ new = steps \o Tail(todo)
           /\ Len(todo) \in Nat \ {0} /\ n \in Nat /\ Len(new) = n + Len(todo) - 1
           /\ \A i \in 1..n : new[i] = steps[i]
           /\ \A i \in 1..Len(new) : i > n => i - n + 1 \in 2..Len(todo) /\ new[i] = todo[i - n + 1]
<1> DEFINE todo == tools_request[r].todo
           new == steps \o Tail(todo)
<1>1. /\ todo \in Seq(ToolSteps) /\ todo # <<>> /\ InTurn(todo) /\ TodoOK(tools_request[r])
      /\ DOMAIN tools_request = ToolRequests
      /\ steps \in Seq(ToolSteps) /\ Len(steps) <= 2 /\ InTurn(steps) /\ todo[1].server = s
      /\ tools_request[r].apply => AppliesLast(todo)
  BY DEF ToolsInv, TodoOK, Pushes
<1>2. /\ tools_request' = [tools_request EXCEPT ![r].todo = new]
  BY <1>1 DEF Pushes, Sync!Then
<1>3. /\ DOMAIN tools_request' = ToolRequests
      /\ \A q \in ToolRequests \ {r} : tools_request'[q] = tools_request[q]
      /\ tools_request'[r] = [todo |-> new, want |-> tools_request[r].want,
                              apply |-> tools_request[r].apply]
  <2>1. tools_request'[r] = [tools_request[r] EXCEPT !.todo = new]
    BY <1>1, <1>2
  <2>2. tools_request[r] = [todo |-> todo, want |-> tools_request[r].want,
                            apply |-> tools_request[r].apply]
    BY <1>1 DEF TodoOK
  <2>3. [tools_request[r] EXCEPT !.todo = new] = [todo |-> new, want |-> tools_request[r].want,
                                                  apply |-> tools_request[r].apply]
    <3>1. \A a, b, c, d : [[todo |-> a, want |-> b, apply |-> c] EXCEPT !.todo = d]
                             = [todo |-> d, want |-> b, apply |-> c]
      OBVIOUS
    <3> DEFINE q == tools_request[r]
    <3>2. \A a, b, c : q = [todo |-> a, want |-> b, apply |-> c] =>
                          [q EXCEPT !.todo = new] = [todo |-> new, want |-> b, apply |-> c]
      <4> HIDE DEF q, new
      <4> QED  BY <3>1
    <3> HIDE DEF new
    <3> QED  BY <2>2, <3>2
  <2> QED  BY <1>1, <1>2, <2>1, <2>3
<1>4. InTurn(new)
  BY <1>1, PushedInTurn DEF Pushes
<1>5. tools_request[r].apply => AppliesLast(new)
  BY <1>1, PushedAppliesLast DEF Pushes
<1>6. /\ new \in Seq(ToolSteps)
      /\ Len(todo) \in Nat \ {0} /\ Len(steps) \in Nat /\ Len(new) = Len(steps) + Len(todo) - 1
      /\ \A i \in 1..Len(steps) : new[i] = steps[i]
      /\ \A i \in 1..Len(new) : i > Len(steps) =>
            i - Len(steps) + 1 \in 2..Len(todo) /\ new[i] = todo[i - Len(steps) + 1]
  BY <1>1, Pushed
<1> HIDE DEF new
<1>7. /\ tools_request'[r].todo = new
      /\ tools_request'[r].want = tools_request[r].want
      /\ tools_request'[r].apply = tools_request[r].apply
  BY <1>3
<1>8. \A q \in ToolRequests : TodoOK(tools_request'[q])
  <2>1. TodoOK(tools_request'[r])
    BY <1>1, <1>3, <1>4, <1>5, <1>6, <1>7 DEF TodoOK
  <2> QED  BY <2>1, <1>3 DEF ToolsInv
<1> QED  BY <1>3, <1>6, <1>7, <1>8 DEF new

(* The other servers are as they were, and so is what awaits them.         *)
LEMMA OthersOK ==
    ASSUME ToolsInv, NEW r \in ToolRequests, NEW s, NEW steps, Pushes(r, s, steps), Elsewhere(s),
           NEW x \in Servers \ tools_overlapped, x # s
    PROVE  ServerOK(x)'
<1> DEFINE todo == tools_request[r].todo
           new == tools_request'[r].todo
           n == Len(steps)
<1>1. /\ \A q \in ToolRequests \ {r} : tools_request'[q] = tools_request[q]
      /\ tools_request'[r].want = tools_request[r].want
      /\ Len(todo) \in Nat \ {0} /\ n \in Nat /\ Len(new) = n + Len(todo) - 1
      /\ \A i \in 1..n : new[i] = steps[i]
      /\ \A i \in 1..Len(new) : i > n => i - n + 1 \in 2..Len(todo) /\ new[i] = todo[i - n + 1]
      /\ new = steps \o Tail(todo)
  BY PushedRequests
<1>2. /\ todo # <<>> /\ todo[1].server = s /\ \A i \in 1..n : steps[i].server = s
      /\ InTurn(todo) /\ InTurn(steps) /\ ServerOK(x)
      /\ \A q \in ToolRequests : FindsReady(q, x)
  BY DEF Pushes, ToolsInv, TodoOK, ServerOK
<1>3. /\ tools_clients'[x] = tools_clients[x] /\ tools_registry'[x] = tools_registry[x]
      /\ tools_entries'[x] = tools_entries[x] /\ (x \in tools_owned' <=> x \in tools_owned)
      /\ tools_switched' = tools_switched
  BY DEF Elsewhere
<1> HIDE DEF new, n
<1>4. \A i \in 1..Len(new) : new[i].server = x =>
         \E j \in 2..Len(todo) : todo[j] = new[i] /\ j = i - n + 1 /\ i > n
  <2> SUFFICES ASSUME NEW i \in 1..Len(new), new[i].server = x
               PROVE  i > n /\ i - n + 1 \in 2..Len(todo) /\ new[i] = todo[i - n + 1]
    OBVIOUS
  <2>1. i \notin 1..n
    BY <1>1, <1>2
  <2>2. i > n
    BY <2>1, <1>1
  <2> QED  BY <2>2, <1>1
<1>5. \A q \in ToolRequests : AtServer(q, x)' => AtServer(q, x)
  <2>1. AtServer(r, x)' => AtServer(r, x)
    <3>1. 2..Len(todo) \subseteq 1..Len(todo)
      BY <1>1
    <3> QED  BY <1>4, <3>1 DEF AtServer, new
  <2> QED  BY <2>1, <1>1 DEF AtServer
<1>6. Sync!Detaching(x) => Sync!Detaching(x)'
  <2> SUFFICES ASSUME Sync!Detaching(x) PROVE Sync!Detaching(x)'
    OBVIOUS
  <2>1. PICK q \in ToolRequests : /\ \E i \in 1..Len(tools_request[q].todo) : tools_request[q].todo[i].server = x
                                  /\ Head(tools_request[q].todo) = Sync!Do("detached", x)
    BY DEF Sync!Detaching, Sync!AtWork
  <2>2. q # r
    <3>1. Head(todo) = todo[1]
      BY <1>2 DEF ToolsInv, TodoOK
    <3> QED  BY <2>1, <3>1, <1>2 DEF Sync!Do
  <2> QED  BY <2>1, <2>2, <1>1 DEF Sync!Detaching, Sync!AtWork
<1>7. ASSUME NEW q \in ToolRequests PROVE FindsReady(q, x)'
  <2>1. CASE q # r
    BY <2>1, <1>1, <1>2, <1>3 DEF FindsReady, Free
  <2>2. CASE q = r
    <3>1. ASSUME new # <<>>, new[1].server = x
          PROVE  new[1].do \notin {"detached", "link", "enter", "forget"}
      <4>1. 1 \in 1..Len(new)
        BY <3>1, PushedRequests DEF TodoOK, new
      <4>2. 2 \in 1..Len(todo) /\ todo[2] = new[1]
        <5>1. n = 0
          BY <1>1, <1>4, <3>1, <4>1
        <5> QED  BY <1>4, <3>1, <4>1, <5>1, <1>1
      <4>3. todo[2].do # "detached"
        BY <1>2, <4>2 DEF InTurn
      <4>4. todo[2].do \notin {"link", "enter", "forget"}
        BY <1>2, <4>2, <3>1 DEF InTurn
      <4> QED  BY <4>2, <4>3, <4>4
    <3>2. ASSUME NEW i \in 1..Len(new), new[i].server = x
          PROVE  /\ new[i].do = "link" => tools_entries[x] # 0
                 /\ new[i].do = "enter" => tools_request[r].want[x] # 0
      <4>1. PICK j \in 2..Len(todo) : todo[j] = new[i]
        BY <1>4, <3>2
      <4>2. j \in 1..Len(todo)
        BY <4>1, <1>1
      <4> QED  BY <4>1, <4>2, <3>2, <1>2 DEF FindsReady
    <3> QED  BY <2>2, <3>1, <3>2, <1>1, <1>3 DEF FindsReady, Free, new
  <2> QED  BY <2>1, <2>2
<1>8. /\ \A p, q \in ToolRequests : AtServer(p, x)' /\ AtServer(q, x)' => p = q
      /\ tools_entries'[x] = 0 => Free(x)'
      /\ OnOffer(x)'
  BY <1>2, <1>3, <1>5, <1>6 DEF ServerOK, Free, OnOffer
<1> QED  BY <1>7, <1>8 DEF ServerOK

(* What a step on server s has to leave for what follows it.               *)
LeavesReady(r, s, steps) ==
    LET head == tools_request[r].todo[1].do IN
    /\ tools_entries'[s] = 0 => Free(s)'
    /\ s \notin tools_switched /\ tools_registry'[s] # 0 =>
          /\ s \in tools_owned'
          /\ steps # <<Sync!Do("detached", s)>> => tools_registry'[s] = tools_clients'[s]
    /\ steps # <<>> => /\ steps[1].do = "detached" => tools_clients'[s] = 0
                       /\ steps[1].do \in {"link", "enter", "forget"} => Free(s)'
    /\ \A i \in 1..Len(steps) : /\ steps[i].do = "link" => tools_entries'[s] # 0
                                /\ steps[i].do = "enter" => tools_request[r].want[s] # 0
    /\ head \in {"detach", "detached"} =>
          /\ steps = <<>> => Free(s)'
          /\ tools_entries'[s] = tools_entries[s]

(* The server the step is about finds what the step left ready.            *)
LEMMA HereOK ==
    ASSUME ToolsInv, NEW r \in ToolRequests, NEW s \in Servers \ tools_overlapped, NEW steps,
           Pushes(r, s, steps), Elsewhere(s), LeavesReady(r, s, steps)
    PROVE  ServerOK(s)'
<1> DEFINE todo == tools_request[r].todo
           new == tools_request'[r].todo
           n == Len(steps)
<1>1. /\ \A q \in ToolRequests \ {r} : tools_request'[q] = tools_request[q]
      /\ tools_request'[r].want = tools_request[r].want
      /\ Len(todo) \in Nat \ {0} /\ n \in Nat /\ Len(new) = n + Len(todo) - 1
      /\ \A i \in 1..n : new[i] = steps[i]
      /\ \A i \in 1..Len(new) : i > n => i - n + 1 \in 2..Len(todo) /\ new[i] = todo[i - n + 1]
      /\ new \in Seq(ToolSteps)
  <2>1. TodoOK(tools_request'[r])
    BY PushedRequests
  <2> QED  BY <2>1, PushedRequests DEF TodoOK
<1>2. /\ todo # <<>> /\ todo[1].server = s /\ \A i \in 1..n : steps[i].server = s
      /\ InTurn(todo) /\ InTurn(steps) /\ ServerOK(s) /\ steps \in Seq(ToolSteps)
      /\ \A q \in ToolRequests : FindsReady(q, s)
  BY DEF Pushes, ToolsInv, TodoOK, ServerOK
<1>3. tools_switched' = tools_switched
  BY DEF Elsewhere
<1>4. n = 0 <=> steps = <<>>
  BY <1>2
<1>5. steps = <<Sync!Do("detached", s)>> => n = 1 /\ steps[1] = Sync!Do("detached", s)
  OBVIOUS
<1>6. 1 \in 1..Len(todo) /\ AtServer(r, s)
  BY <1>1, <1>2 DEF AtServer
<1>7. \A q \in ToolRequests : AtServer(q, s) => q = r
  BY <1>2, <1>6 DEF ServerOK
<1>8. \A q \in ToolRequests \ {r} : ~AtServer(q, s)'
  BY <1>1, <1>7 DEF AtServer
<1> HIDE DEF new, n
<1>9. ASSUME steps = <<Sync!Do("detached", s)>> PROVE Sync!Detaching(s)'
  <2>1. 1 \in 1..Len(new) /\ new[1] = Sync!Do("detached", s)
    BY <1>1, <1>5, <1>9
  <2>2. Head(new) = new[1]
    BY <2>1, <1>1
  <2>3. new[1].server = s
    BY <2>1 DEF Sync!Do
  <2> QED  BY <2>1, <2>2, <2>3 DEF Sync!Detaching, Sync!AtWork, new
<1>10. /\ \A p, q \in ToolRequests : AtServer(p, s)' /\ AtServer(q, s)' => p = q
       /\ tools_entries'[s] = 0 => Free(s)'
       /\ OnOffer(s)'
  <2>1. \A p \in ToolRequests : AtServer(p, s)' => p = r
    BY <1>8
  <2>2. ASSUME s \notin tools_switched, tools_registry'[s] # 0
        PROVE  /\ s \in tools_owned'
               /\ Sync!Detaching(s)' \/ tools_registry'[s] = tools_clients'[s]
    BY <2>2, <1>9 DEF LeavesReady
  <2>3. OnOffer(s)'
    BY <2>2, <1>3 DEF OnOffer
  <2>4. tools_entries'[s] = 0 => Free(s)'
    BY DEF LeavesReady
  <2> QED  BY <2>1, <2>3, <2>4
<1>11. ASSUME new # <<>>, new[1].server = s
       PROVE  /\ new[1].do = "detached" => tools_clients'[s] = 0
              /\ new[1].do \in {"link", "enter", "forget"} => Free(s)'
  <2>1. 1 \in 1..Len(new)
    BY <1>11, <1>1
  <2>2. CASE steps # <<>>
    <3>1. 1 \in 1..n
      BY <2>2, <1>1, <1>4
    <3> QED  BY <3>1, <2>2, <1>1 DEF LeavesReady
  <2>3. CASE steps = <<>>
    <3>1. n = 0 /\ 2 \in 1..Len(todo) /\ todo[2] = new[1]
      BY <2>1, <2>3, <1>1, <1>4
    <3>2. todo[2].do # "detached"
      BY <3>1, <1>2 DEF InTurn
    <3>3. todo[2].do \in {"link", "enter", "forget"} => todo[1].do \in {"detach", "detached"}
      BY <3>1, <1>2 DEF InTurn
    <3> QED  BY <2>3, <3>1, <3>2, <3>3 DEF LeavesReady
  <2> QED  BY <2>2, <2>3
<1>12. ASSUME NEW i \in 1..Len(new), new[i].server = s
       PROVE  /\ new[i].do = "link" => tools_entries'[s] # 0
              /\ new[i].do = "enter" => tools_request[r].want[s] # 0
  <2>1. CASE i <= n
    <3>1. i \in 1..n
      BY <2>1, <1>1
    <3> QED  BY <3>1, <1>1 DEF LeavesReady, n
  <2>2. CASE i > n
    <3> DEFINE j == i - n + 1
    <3>1. j \in 2..Len(todo) /\ new[i] = todo[j]
      BY <2>2, <1>1
    <3>2. j \in 1..Len(todo) /\ j # 1
      BY <3>1, <1>1
    <3> HIDE DEF j
    <3>3. new[i].do = "enter" => tools_request[r].want[s] # 0
      BY <3>1, <3>2, <1>2, <1>12 DEF FindsReady
    <3>4. ASSUME new[i].do = "link" PROVE tools_entries'[s] # 0
      <4>1. tools_entries[s] # 0
        BY <3>1, <3>2, <3>4, <1>2, <1>12 DEF FindsReady
      <4>2. todo[1].do \in {"detach", "detached"}
        BY <3>1, <3>2, <3>4, <1>2 DEF InTurn
      <4> QED  BY <4>1, <4>2 DEF LeavesReady
    <3> QED  BY <3>3, <3>4
  <2> QED  BY <2>1, <2>2, <1>1
<1>13. ASSUME NEW q \in ToolRequests PROVE FindsReady(q, s)'
  <2>1. CASE q = r
    BY <2>1, <1>1, <1>11, <1>12 DEF FindsReady, new
  <2>2. CASE q # r
    <3>1. tools_request'[q] = tools_request[q] /\ tools_request[q].todo \in Seq(ToolSteps)
      BY <2>2, <1>1 DEF ToolsInv, TodoOK
    <3>2. \A i \in 1..Len(tools_request[q].todo) : tools_request[q].todo[i].server # s
      BY <2>2, <1>7 DEF AtServer
    <3>3. tools_request[q].todo # <<>> => tools_request[q].todo[1].server # s
      <4>1. tools_request[q].todo # <<>> => 1 \in 1..Len(tools_request[q].todo)
        BY <3>1
      <4> QED  BY <4>1, <3>2
    <3> QED  BY <3>1, <3>2, <3>3 DEF FindsReady
  <2> QED  BY <2>1, <2>2
<1> QED  BY <1>10, <1>13 DEF ServerOK

(* A step of a request keeps the invariant, if the types, the open clients *)
(* and the hidden tools are kept.                                          *)
LEMMA StepKeeps ==
    ASSUME ToolsInv, NEW r \in ToolRequests, NEW s \in Servers, NEW steps,
           Pushes(r, s, steps), Elsewhere(s),
           s \notin tools_overlapped => LeavesReady(r, s, steps),
           ToolsTypes', OpenOK', Sync!DisabledStaysHidden'
    PROVE  ToolsInv'
<1>1. DOMAIN tools_request' = ToolRequests /\ \A q \in ToolRequests : TodoOK(tools_request'[q])
  BY PushedRequests
<1>2. tools_overlapped' = tools_overlapped
  BY DEF Elsewhere
<1>3. ASSUME NEW x \in Servers \ tools_overlapped PROVE ServerOK(x)'
  <2>1. CASE x = s
    BY <2>1, HereOK
  <2>2. CASE x # s
    BY <2>2, OthersOK
  <2> QED  BY <2>1, <2>2
<1>4. \A q \in ToolRequests : TodoOK(tools_request[q])'
  BY <1>1 DEF TodoOK
<1> QED  BY <1>1, <1>2, <1>3, <1>4 DEF ToolsInv

(* A tool that was switched off and hidden stays so while nothing is       *)
(* registered: the request that is about to re-apply the toggle waits.     *)
LEMMA HiddenKept ==
    ASSUME ToolsInv, NEW r \in ToolRequests, NEW s, NEW steps, Pushes(r, s, steps), Elsewhere(s),
           tools_unapplied' = tools_unapplied,
           \A x \in Servers : tools_registry'[x] \in {0, tools_registry[x]}
    PROVE  Sync!DisabledStaysHidden'
<1>1. /\ tools_request[r].todo # <<>> /\ tools_overlapped' = tools_overlapped
      /\ tools_disabled' = tools_disabled
      /\ tools_disabled \subseteq Servers
  BY DEF Pushes, Elsewhere, ToolsInv, ToolsTypes
<1>2. \A q \in ToolRequests \ {r} : tools_request'[q] = tools_request[q]
  BY PushedRequests
<1>3. \A x \in tools_disabled \ (tools_unapplied \cup tools_overlapped) :
         \/ tools_registry[x] = 0
         \/ \E q \in ToolRequests : tools_request[q].apply /\ tools_request[q].todo = <<>>
  BY DEF ToolsInv, Sync!DisabledStaysHidden
<1> QED  BY <1>1, <1>2, <1>3 DEF Sync!DisabledStaysHidden

(* The steps that only look at the configuration.                          *)
Looks == UNCHANGED <<tools_clients, tools_owned, tools_registry, tools_open, tools_made,
                     tools_unapplied, tools_known, tools_disabled, tools_switched,
                     tools_overlapped>>

(* A step that changes the server's entry at most.                         *)
LEMMA LookKeeps ==
    ASSUME ToolsInv, NEW r \in ToolRequests, NEW s \in Servers, NEW steps,
           Pushes(r, s, steps), Looks, NEW v \in Versions \cup {0},
           tools_entries' = [tools_entries EXCEPT ![s] = v],
           s \notin tools_overlapped => LeavesReady(r, s, steps)
    PROVE  ToolsInv'
<1>1. Elsewhere(s)
  BY DEF Looks, Elsewhere, ToolsInv, ToolsTypes
<1>2. ToolsTypes'
  BY DEF Looks, ToolsTypes, ToolsInv
<1>3. OpenOK'
  BY DEF Looks, OpenOK, ToolsInv
<1>4. Sync!DisabledStaysHidden'
  BY <1>1, HiddenKept DEF Looks
<1> QED  BY <1>1, <1>2, <1>3, <1>4, StepKeeps

(* The lists of steps a step leaves: none, one, or two.                    *)
LEMMA NoStep ==
    /\ <<>> \in Seq(ToolSteps) /\ Len(<<>>) = 0 /\ InTurn(<<>>)
BY DEF InTurn

(* A single step is a list in order.                                       *)
LEMMA OneStep ==
    ASSUME NEW s \in Servers, NEW k \in StepKinds, NEW steps, steps = <<Sync!Do(k, s)>>
    PROVE  /\ steps \in Seq(ToolSteps) /\ Len(steps) = 1 /\ InTurn(steps) /\ steps # <<>>
           /\ steps[1].do = k /\ steps[1].server = s
<1>1. Sync!Do(k, s) \in ToolSteps /\ Sync!Do(k, s).do = k /\ Sync!Do(k, s).server = s
  BY DEF Sync!Do, ToolSteps
<1> QED  BY <1>1 DEF InTurn

(* A disconnection and what waits for it are a list in order.              *)
LEMMA TwoSteps ==
    ASSUME NEW s \in Servers, NEW k \in {"link", "enter", "forget"}, NEW steps,
           steps = <<Sync!Do("detach", s), Sync!Do(k, s)>>
    PROVE  /\ steps \in Seq(ToolSteps) /\ Len(steps) = 2 /\ InTurn(steps) /\ steps # <<>>
           /\ steps[1].do = "detach" /\ steps[1].server = s
           /\ steps[2].do = k /\ steps[2].server = s
<1>1. /\ Sync!Do("detach", s) \in ToolSteps /\ Sync!Do(k, s) \in ToolSteps
      /\ Sync!Do("detach", s).do = "detach" /\ Sync!Do("detach", s).server = s
      /\ Sync!Do(k, s).do = k /\ Sync!Do(k, s).server = s
  BY DEF Sync!Do, ToolSteps, StepKinds
<1>2. /\ steps \in Seq(ToolSteps) /\ Len(steps) = 2 /\ steps # <<>>
      /\ steps[1].do = "detach" /\ steps[1].server = s
      /\ steps[2].do = k /\ steps[2].server = s
  BY <1>1
<1>3. InTurn(steps)
  <2>1. \A i \in 1..Len(steps) : i = 1 \/ i = 2
    BY <1>2
  <2> QED  BY <1>2, <2>1 DEF InTurn
<1> QED  BY <1>2, <1>3

(* What r is at.                                                           *)
LEMMA AtStep ==
    ASSUME ToolsInv, NEW r \in ToolRequests, tools_request[r].todo # <<>>
    PROVE  LET todo == tools_request[r].todo IN
           /\ Head(todo) = todo[1] /\ todo[1] \in ToolSteps /\ todo[1].server \in Servers
           /\ 1 \in 1..Len(todo) /\ todo \in Seq(ToolSteps)
           /\ tools_request[r].want \in [Servers -> Versions \cup {0}]
           /\ AtServer(r, todo[1].server)
           /\ todo[1].server \notin tools_overlapped =>
                 /\ ServerOK(todo[1].server) /\ FindsReady(r, todo[1].server)
           /\ tools_request[r].apply => AppliesLast(todo)
<1> DEFINE todo == tools_request[r].todo
<1>1. TodoOK(tools_request[r]) /\ todo \in Seq(ToolSteps) /\ todo # <<>>
  BY DEF ToolsInv, TodoOK
<1>2. /\ Head(todo) = todo[1] /\ todo[1] \in ToolSteps /\ 1 \in 1..Len(todo)
  BY <1>1
<1>3. todo[1].server \in Servers
  BY <1>2 DEF ToolSteps
<1> QED  BY <1>1, <1>2, <1>3 DEF ToolsInv, TodoOK, ServerOK, AtServer

(* Only a request that is at the second half of a disconnection detaches.  *)
LEMMA NotDetaching ==
    ASSUME ToolsInv, NEW r \in ToolRequests, tools_request[r].todo # <<>>, NEW s,
           tools_request[r].todo[1].server = s, tools_request[r].todo[1].do # "detached",
           s \notin tools_overlapped
    PROVE  ~Sync!Detaching(s)
<1>1. \A q \in ToolRequests : AtServer(q, s) => q = r
  BY AtStep DEF ServerOK
<1>2. Head(tools_request[r].todo) = tools_request[r].todo[1]
  BY AtStep
<1> QED  BY <1>1, <1>2 DEF Sync!Detaching, Sync!AtWork, AtServer, Sync!Do

(* Where nothing changes, what is left to do finds what it needs.          *)
LEMMA LookReady ==
    ASSUME ToolsInv, NEW r \in ToolRequests, tools_request[r].todo # <<>>, NEW s,
           tools_request[r].todo[1].server = s,
           tools_request[r].todo[1].do \notin {"detach", "detached"},
           s \notin tools_overlapped, Looks, tools_entries' = tools_entries, NEW steps,
           steps # <<>> => /\ steps[1].do # "detached"
                           /\ steps[1].do \in {"link", "enter", "forget"} => tools_entries[s] = 0,
           \A i \in 1..Len(steps) : /\ steps[i].do = "link" => tools_entries[s] # 0
                                    /\ steps[i].do = "enter" => tools_request[r].want[s] # 0
    PROVE  LeavesReady(r, s, steps)
<1>1. ServerOK(s) /\ ~Sync!Detaching(s)
  BY AtStep, NotDetaching
<1> QED  BY <1>1 DEF LeavesReady, ServerOK, Free, OnOffer, Looks

(* An entry that stays is one of the entries there may be.                 *)
LEMMA SameEntries ==
    ASSUME ToolsInv, NEW s \in Servers, tools_entries' = tools_entries
    PROVE  /\ tools_entries[s] \in Versions \cup {0}
           /\ tools_entries' = [tools_entries EXCEPT ![s] = tools_entries[s]]
BY DEF ToolsInv, ToolsTypes

(* A step that only decides what to do next.                               *)
LEMMA DecideKeeps ==
    ASSUME ToolsInv, NEW r \in ToolRequests, NEW s \in Servers, NEW steps,
           Pushes(r, s, steps), Looks, tools_entries' = tools_entries,
           tools_request[r].todo[1].do \notin {"detach", "detached"},
           steps # <<>> => /\ steps[1].do # "detached"
                           /\ steps[1].do \in {"link", "enter", "forget"} => tools_entries[s] = 0,
           \A i \in 1..Len(steps) : /\ steps[i].do = "link" => tools_entries[s] # 0
                                    /\ steps[i].do = "enter" => tools_request[r].want[s] # 0
    PROVE  ToolsInv'
<1>1. tools_request[r].todo # <<>> /\ tools_request[r].todo[1].server = s
  BY DEF Pushes
<1>2. s \notin tools_overlapped => LeavesReady(r, s, steps)
  BY <1>1, LookReady
<1> QED  BY <1>2, SameEntries, LookKeeps

(* A disconnection and what waits for it take the place of a step.         *)
LEMMA PushesTwo ==
    ASSUME ToolsInv, NEW r \in ToolRequests, tools_request[r].todo # <<>>, NEW s \in Servers,
           tools_request[r].todo[1].server = s, NEW k \in {"link", "enter", "forget"},
           tools_request[r].todo[1].do \notin {"detach", "detached"},
           tools_request[r].apply => tools_request[r].todo[1].do = "connect" /\ k = "link",
           NEW steps, steps = <<Sync!Do("detach", s), Sync!Do(k, s)>>, Sync!Then(r, steps)
    PROVE  /\ Pushes(r, s, steps)
           /\ steps[1].do = "detach" /\ \A i \in 1..Len(steps) : steps[i].do \in {"detach", k}
<1>1. /\ steps \in Seq(ToolSteps) /\ Len(steps) = 2 /\ InTurn(steps) /\ steps # <<>>
      /\ steps[1].do = "detach" /\ steps[1].server = s
      /\ steps[2].do = k /\ steps[2].server = s
  BY TwoSteps
<1>2. \A i \in 1..Len(steps) : i = 1 \/ i = 2
  BY <1>1
<1>3. Len(steps) <= 2
  BY <1>1
<1>4. \A i \in 1..Len(steps) : steps[i].server = s
  BY <1>1, <1>2
<1>5. Pushes(r, s, steps)
  BY <1>1, <1>3, <1>4 DEF Pushes
<1> QED  BY <1>1, <1>2, <1>5

(* One step takes the place of another.                                    *)
LEMMA PushesOne ==
    ASSUME ToolsInv, NEW r \in ToolRequests, tools_request[r].todo # <<>>, NEW s \in Servers,
           tools_request[r].todo[1].server = s, NEW k \in StepKinds,
           tools_request[r].todo[1].do \notin {"detach", "detached"},
           ~tools_request[r].apply,
           NEW steps, steps = <<Sync!Do(k, s)>>, Sync!Then(r, steps)
    PROVE  Pushes(r, s, steps) /\ \A i \in 1..Len(steps) : i = 1 /\ steps[i].do = k
<1>1. /\ steps \in Seq(ToolSteps) /\ Len(steps) = 1 /\ InTurn(steps) /\ steps # <<>>
      /\ steps[1].do = k /\ steps[1].server = s
  BY OneStep
<1>2. \A i \in 1..Len(steps) : i = 1
  BY <1>1
<1>3. Len(steps) <= 2
  BY <1>1
<1>4. Pushes(r, s, steps)
  BY <1>1, <1>2, <1>3 DEF Pushes
<1> QED  BY <1>1, <1>2, <1>4

(* A step that is over.                                                    *)
LEMMA PushesNone ==
    ASSUME ToolsInv, NEW r \in ToolRequests, tools_request[r].todo # <<>>, NEW s,
           tools_request[r].todo[1].server = s, Sync!Then(r, <<>>)
    PROVE  Pushes(r, s, <<>>)
BY NoStep DEF Pushes

(* A request that re-applies the toggle only connects and disconnects.     *)
LEMMA AppliesKinds ==
    ASSUME ToolsInv, NEW r \in ToolRequests, tools_request[r].todo # <<>>, tools_request[r].apply
    PROVE  tools_request[r].todo[1].do \in {"connect", "detach", "detached", "link"}
BY AtStep DEF AppliesLast
StandStill == UNCHANGED <<tools_known, tools_disabled, tools_switched, tools_overlapped>>

(* connect: the old client goes first.                                     *)
LEMMA ReconnectKeeps ==
    ASSUME ToolsInv, NEW r \in ToolRequests, tools_request[r].todo # <<>>, NEW s,
           tools_request[r].todo[1].server = s, tools_request[r].todo[1].do = "connect",
           Sync!Reconnect(r, s), StandStill
    PROVE  ToolsInv'
<1>0. s \in Servers /\ s \notin tools_overlapped => ServerOK(s)
  BY AtStep
<1>1. s \in Servers
  BY AtStep
<1>2. Looks /\ tools_entries' = tools_entries
  BY DEF Looks, Sync!Reconnect, StandStill
<1>3. CASE tools_entries[s] = 0
  <2>1. Pushes(r, s, <<>>)
    BY <1>3, PushesNone DEF Sync!Reconnect
  <2> QED  BY <1>1, <1>2, <2>1, DecideKeeps, NoStep
<1>4. CASE tools_entries[s] # 0
  <2> DEFINE steps == <<Sync!Do("detach", s), Sync!Do("link", s)>>
  <2>1. /\ Pushes(r, s, steps) /\ steps[1].do = "detach"
        /\ \A i \in 1..Len(steps) : steps[i].do \in {"detach", "link"}
    <3>1. Sync!Then(r, steps)
      BY <1>4 DEF Sync!Reconnect
    <3> QED  BY <1>1, <3>1, PushesTwo
  <2> HIDE DEF steps
  <2> QED  BY <1>1, <1>2, <1>4, <2>1, DecideKeeps
<1> QED  BY <1>3, <1>4

(* apply_config, the first loop.                                           *)
LEMMA DropKeeps ==
    ASSUME ToolsInv, NEW r \in ToolRequests, tools_request[r].todo # <<>>, NEW s,
           tools_request[r].todo[1].server = s, tools_request[r].todo[1].do = "drop",
           Sync!Drop(r, s), StandStill
    PROVE  ToolsInv'
<1>1. s \in Servers /\ ~tools_request[r].apply
  BY AtStep, AppliesKinds
<1>2. Looks /\ tools_entries' = tools_entries
  BY DEF Looks, Sync!Drop, StandStill
<1>3. CASE Sync!Then(r, <<>>)
  BY <1>1, <1>2, <1>3, PushesNone, DecideKeeps, NoStep
<1>4. CASE Sync!Then(r, <<Sync!Do("detach", s), Sync!Do("forget", s)>>)
  <2> DEFINE steps == <<Sync!Do("detach", s), Sync!Do("forget", s)>>
  <2>1. /\ Pushes(r, s, steps) /\ steps[1].do = "detach"
        /\ \A i \in 1..Len(steps) : steps[i].do \in {"detach", "forget"}
    BY <1>1, <1>4, PushesTwo
  <2> HIDE DEF steps
  <2> QED  BY <1>1, <1>2, <2>1, DecideKeeps
<1> QED  BY <1>3, <1>4 DEF Sync!Drop

(* apply_config, the second loop.                                          *)
LEMMA AdoptKeeps ==
    ASSUME ToolsInv, NEW r \in ToolRequests, tools_request[r].todo # <<>>, NEW s,
           tools_request[r].todo[1].server = s, tools_request[r].todo[1].do = "adopt",
           Sync!Adopt(r, s), StandStill
    PROVE  ToolsInv'
<1>1. s \in Servers /\ ~tools_request[r].apply
  BY AtStep, AppliesKinds
<1>2. Looks /\ tools_entries' = tools_entries
  BY DEF Looks, Sync!Adopt, StandStill
<1>3. CASE Sync!Then(r, <<>>)
  BY <1>1, <1>2, <1>3, PushesNone, DecideKeeps, NoStep
<1>4. CASE /\ tools_request[r].want[s] # 0
           /\ Sync!Then(r, <<Sync!Do("detach", s), Sync!Do("enter", s)>>)
  <2> DEFINE steps == <<Sync!Do("detach", s), Sync!Do("enter", s)>>
  <2>1. /\ Pushes(r, s, steps) /\ steps[1].do = "detach"
        /\ \A i \in 1..Len(steps) : steps[i].do \in {"detach", "enter"}
    BY <1>1, <1>4, PushesTwo
  <2> HIDE DEF steps
  <2> QED  BY <1>1, <1>2, <1>4, <2>1, DecideKeeps
<1>5. CASE /\ tools_request[r].want[s] # 0 /\ tools_entries[s] = 0
           /\ Sync!Then(r, <<Sync!Do("enter", s)>>)
  <2>1. PICK steps : steps = <<Sync!Do("enter", s)>>
    OBVIOUS
  <2>2. Pushes(r, s, steps) /\ \A i \in 1..Len(steps) : i = 1 /\ steps[i].do = "enter"
    BY <1>1, <1>5, <2>1, PushesOne DEF StepKinds
  <2>3. 1 \in 1..Len(steps)
    BY <2>1
  <2> QED  BY <1>1, <1>2, <1>5, <2>2, <2>3, DecideKeeps
<1> QED  BY <1>3, <1>4, <1>5 DEF Sync!Adopt

(* A definition is entered, or forgotten, for a server without a client.   *)
LEMMA EnterKeeps ==
    ASSUME ToolsInv, NEW r \in ToolRequests, tools_request[r].todo # <<>>, NEW s,
           tools_request[r].todo[1].server = s, tools_request[r].todo[1].do = "enter",
           Sync!Enter(r, s), StandStill
    PROVE  ToolsInv'
<1>1. /\ s \in Servers /\ ~tools_request[r].apply
      /\ tools_request[r].want[s] \in Versions \cup {0}
      /\ tools_entries \in [Servers -> Versions \cup {0}]
  BY AtStep, AppliesKinds DEF ToolsInv, ToolsTypes
<1>2. Looks /\ tools_entries' = [tools_entries EXCEPT ![s] = tools_request[r].want[s]]
  BY DEF Looks, Sync!Enter, StandStill
<1>3. PICK steps : steps = <<Sync!Do("link", s)>>
  OBVIOUS
<1>4. Pushes(r, s, steps) /\ \A i \in 1..Len(steps) : i = 1 /\ steps[i].do = "link"
  BY <1>1, <1>3, PushesOne DEF StepKinds, Sync!Enter
<1>5. 1 \in 1..Len(steps) /\ steps # <<Sync!Do("detached", s)>>
  BY <1>3 DEF Sync!Do
<1>6. ASSUME s \notin tools_overlapped PROVE LeavesReady(r, s, steps)
  <2>1. FindsReady(r, s) /\ 1 \in 1..Len(tools_request[r].todo)
    BY <1>6, AtStep
  <2>2. Free(s) /\ tools_request[r].want[s] # 0
    BY <2>1 DEF FindsReady
  <2>3. tools_entries'[s] # 0
    BY <1>1, <1>2, <2>2
  <2>4. Free(s)' /\ (s \notin tools_switched => tools_registry'[s] = 0)
    BY <1>2, <2>2 DEF Free, Looks
  <2> QED  BY <1>4, <1>5, <2>3, <2>4 DEF LeavesReady
<1> QED  BY <1>1, <1>2, <1>4, <1>6, LookKeeps

(* See EnterKeeps.                                                         *)
LEMMA ForgetKeeps ==
    ASSUME ToolsInv, NEW r \in ToolRequests, tools_request[r].todo # <<>>, NEW s,
           tools_request[r].todo[1].server = s, tools_request[r].todo[1].do = "forget",
           Sync!ForgetEntry(r, s), StandStill
    PROVE  ToolsInv'
<1>1. s \in Servers /\ tools_entries \in [Servers -> Versions \cup {0}]
  BY AtStep DEF ToolsInv, ToolsTypes
<1>2. Looks /\ tools_entries' = [tools_entries EXCEPT ![s] = 0]
  BY DEF Looks, Sync!ForgetEntry, StandStill
<1>3. Pushes(r, s, <<>>)
  BY PushesNone DEF Sync!ForgetEntry
<1>4. ASSUME s \notin tools_overlapped PROVE LeavesReady(r, s, <<>>)
  <2>1. FindsReady(r, s)
    BY <1>4, AtStep
  <2>2. Free(s)
    BY <2>1 DEF FindsReady
  <2>3. Free(s)' /\ (s \notin tools_switched => tools_registry'[s] = 0)
    BY <1>2, <2>2 DEF Free, Looks
  <2> QED  BY <2>3, NoStep DEF LeavesReady
<1> QED  BY <1>1, <1>2, <1>3, <1>4, LookKeeps

(* disconnect: the client goes, its tools with it or behind it.            *)
LEMMA DetachKeeps ==
    ASSUME ToolsInv, NEW r \in ToolRequests, tools_request[r].todo # <<>>, NEW s,
           tools_request[r].todo[1].server = s, tools_request[r].todo[1].do = "detach",
           Sync!Detach(r, s), StandStill
    PROVE  ToolsInv'
<1>1. /\ s \in Servers /\ ToolsTypes
      /\ s \notin tools_overlapped => ServerOK(s)
  BY AtStep DEF ToolsInv
<1>2. /\ tools_clients' = [tools_clients EXCEPT ![s] = 0]
      /\ tools_open' = tools_open \ {tools_clients[s]}
      /\ UNCHANGED <<tools_entries, tools_made, tools_unapplied>>
  BY DEF Sync!Detach
<1>3. OpenOK'
  BY <1>1, <1>2 DEF OpenOK, ToolsTypes, ToolsInv, StandStill
<1>4. CASE /\ tools_clients[s] # 0 /\ Sync!Then(r, <<Sync!Do("detached", s)>>)
           /\ UNCHANGED <<tools_owned, tools_registry>>
  <2> DEFINE steps == <<Sync!Do("detached", s)>>
  <2>1. /\ steps \in Seq(ToolSteps) /\ Len(steps) = 1 /\ InTurn(steps) /\ steps # <<>>
        /\ steps[1].do = "detached" /\ steps[1].server = s
    BY <1>1, OneStep DEF StepKinds
  <2>2. Sync!Then(r, steps) /\ steps = <<Sync!Do("detached", s)>>
    BY <1>4
  <2> HIDE DEF steps
  <2>3. Pushes(r, s, steps)
    BY <2>1, <2>2 DEF Pushes
  <2>4. Elsewhere(s)
    BY <1>1, <1>2, <1>4 DEF Elsewhere, StandStill, ToolsTypes
  <2>5. ASSUME s \notin tools_overlapped PROVE LeavesReady(r, s, steps)
    <3>1. tools_entries[s] # 0
      BY <1>1, <1>4, <2>5 DEF ServerOK, Free
    <3>2. s \notin tools_switched /\ tools_registry[s] # 0 => s \in tools_owned
      BY <1>1, <2>5 DEF ServerOK, OnOffer
    <3>3. tools_clients'[s] = 0
      BY <1>1, <1>2 DEF ToolsTypes
    <3>4. \A i \in 1..Len(steps) : steps[i].do = "detached"
      BY <2>1
    <3> QED  BY <1>2, <1>4, <2>1, <2>2, <3>1, <3>2, <3>3, <3>4 DEF LeavesReady
  <2>6. ToolsTypes'
    BY <1>1, <1>2, <1>4 DEF ToolsTypes, StandStill
  <2>7. Sync!DisabledStaysHidden'
    BY <1>2, <1>4, <2>3, <2>4, HiddenKept
  <2> QED  BY <1>1, <1>3, <2>3, <2>4, <2>5, <2>6, <2>7, StepKeeps
<1>5. CASE tools_clients[s] = 0 /\ Sync!Then(r, <<>>) /\ Sync!Unregistered(s)
  <2>1. Pushes(r, s, <<>>)
    BY <1>5, PushesNone
  <2>2. /\ tools_owned' = tools_owned \ {s}
        /\ tools_registry' = IF s \in tools_owned THEN [tools_registry EXCEPT ![s] = 0]
                                                  ELSE tools_registry
    BY <1>5 DEF Sync!Unregistered
  <2>3. Elsewhere(s)
    BY <1>1, <1>2, <2>2 DEF Elsewhere, StandStill, ToolsTypes
  <2>4. ASSUME s \notin tools_overlapped PROVE LeavesReady(r, s, <<>>)
    <3>1. s \notin tools_switched => tools_registry'[s] = 0
      BY <1>1, <2>2, <2>4 DEF ServerOK, OnOffer, ToolsTypes
    <3>2. Free(s)'
      BY <1>1, <1>2, <3>1 DEF Free, ToolsTypes, StandStill
    <3> QED  BY <1>2, <3>1, <3>2, NoStep DEF LeavesReady
  <2>5. ToolsTypes'
    BY <1>1, <1>2, <2>2 DEF ToolsTypes, StandStill
  <2>6. \A x \in Servers : tools_registry'[x] \in {0, tools_registry[x]}
    BY <1>1, <2>2 DEF ToolsTypes
  <2>7. Sync!DisabledStaysHidden'
    BY <1>2, <2>1, <2>3, <2>6, HiddenKept
  <2> QED  BY <1>1, <1>3, <2>1, <2>3, <2>4, <2>5, <2>7, StepKeeps
<1> QED  BY <1>4, <1>5 DEF Sync!Detach

(* The second half of a disconnection withdraws the tools.                 *)
LEMMA DetachedKeeps ==
    ASSUME ToolsInv, NEW r \in ToolRequests, tools_request[r].todo # <<>>, NEW s,
           tools_request[r].todo[1].server = s, tools_request[r].todo[1].do = "detached",
           Sync!Detached(r, s), StandStill
    PROVE  ToolsInv'
<1>1. /\ s \in Servers /\ ToolsTypes
      /\ s \notin tools_overlapped => ServerOK(s) /\ FindsReady(r, s)
  BY AtStep DEF ToolsInv
<1>2. /\ tools_owned' = tools_owned \ {s}
      /\ tools_registry' = IF s \in tools_owned THEN [tools_registry EXCEPT ![s] = 0]
                                                ELSE tools_registry
      /\ UNCHANGED <<tools_entries, tools_clients, tools_open, tools_made, tools_unapplied>>
  BY DEF Sync!Detached, Sync!Unregistered
<1>3. Pushes(r, s, <<>>)
  BY PushesNone DEF Sync!Detached
<1>4. Elsewhere(s)
  BY <1>1, <1>2 DEF Elsewhere, StandStill, ToolsTypes
<1>5. ASSUME s \notin tools_overlapped PROVE LeavesReady(r, s, <<>>)
  <2>1. s \notin tools_switched => tools_registry'[s] = 0
    BY <1>1, <1>2, <1>5 DEF ServerOK, OnOffer, ToolsTypes
  <2>2. tools_clients[s] = 0
    BY <1>1, <1>5 DEF FindsReady
  <2>3. Free(s)'
    BY <1>2, <2>1, <2>2 DEF Free, StandStill
  <2> QED  BY <1>2, <2>1, <2>3, NoStep DEF LeavesReady
<1>6. ToolsTypes'
  BY <1>1, <1>2 DEF ToolsTypes, StandStill
<1>7. \A x \in Servers : tools_registry'[x] \in {0, tools_registry[x]}
  BY <1>1, <1>2 DEF ToolsTypes
<1>8. Sync!DisabledStaysHidden'
  BY <1>2, <1>3, <1>4, <1>7, HiddenKept
<1>9. OpenOK'
  BY <1>2 DEF OpenOK, ToolsInv, StandStill
<1> QED  BY <1>1, <1>3, <1>4, <1>5, <1>6, <1>8, <1>9, StepKeeps

(* connect_server: the fresh tool finds its name free.                     *)
LEMMA LinkKeeps ==
    ASSUME ToolsInv, NEW r \in ToolRequests, tools_request[r].todo # <<>>, NEW s,
           tools_request[r].todo[1].server = s, tools_request[r].todo[1].do = "link",
           Sync!Link(r, s), StandStill
    PROVE  ToolsInv'
<1>1. /\ s \in Servers /\ ToolsTypes
      /\ s \notin tools_overlapped => ServerOK(s) /\ FindsReady(r, s)
      /\ 1 \in 1..Len(tools_request[r].todo)
  BY AtStep DEF ToolsInv
<1>2. CASE Sync!Then(r, <<>>) /\ UNCHANGED <<tools_entries, tools_clients, tools_owned,
                           tools_registry, tools_open, tools_made, tools_unapplied>>
  <2>1. Looks /\ tools_entries' = tools_entries
    BY <1>2 DEF Looks, StandStill
  <2>2. Pushes(r, s, <<>>)
    BY <1>2, PushesNone
  <2> QED  BY <1>1, <2>1, <2>2, DecideKeeps, NoStep
<1>3. CASE /\ tools_made' = tools_made + 1
           /\ tools_clients' = [tools_clients EXCEPT ![s] = tools_made']
           /\ tools_open' = tools_open \cup {tools_made'}
           /\ tools_registry' = Sync!Registered(s, tools_made')
           /\ tools_owned' = IF tools_registry[s] = 0 THEN tools_owned \cup {s} ELSE tools_owned
           /\ tools_unapplied' = IF s \in tools_disabled /\ ~tools_request[r].apply
                                 THEN tools_unapplied \cup {s} ELSE tools_unapplied
           /\ Sync!Then(r, <<>>) /\ UNCHANGED tools_entries
  <2>0. /\ tools_made' \in Nat /\ tools_made' # 0
        /\ tools_registry' = IF tools_registry[s] = 0
                             THEN [tools_registry EXCEPT ![s] = tools_made'] ELSE tools_registry
    BY <1>1, <1>3 DEF Sync!Registered, ToolsTypes
  <2>1. Pushes(r, s, <<>>)
    BY <1>3, PushesNone
  <2>2. Elsewhere(s)
    BY <1>1, <1>3, <2>0 DEF Elsewhere, StandStill, ToolsTypes
  <2>3. ASSUME s \notin tools_overlapped PROVE LeavesReady(r, s, <<>>)
    <3>1. Free(s) /\ tools_entries[s] # 0
      BY <1>1, <2>3 DEF FindsReady
    <3>2. s \notin tools_switched => /\ s \in tools_owned'
                                     /\ tools_registry'[s] = tools_clients'[s]
      BY <1>1, <1>3, <2>0, <3>1 DEF Free, ToolsTypes
    <3> QED  BY <1>1, <1>3, <3>1, <3>2, NoStep DEF LeavesReady
  <2>4. ToolsTypes'
    <3>1. tools_open' \subseteq 1..tools_made'
      <4>1. tools_made \in Nat /\ tools_open \subseteq 1..tools_made
        BY <1>1 DEF ToolsTypes
      <4>2. tools_open' = tools_open \cup {tools_made + 1} /\ tools_made' = tools_made + 1
        BY <1>3
      <4>3. 1..tools_made \subseteq 1..(tools_made + 1) /\ tools_made + 1 \in 1..(tools_made + 1)
        BY <4>1
      <4> QED  BY <4>1, <4>2, <4>3
    <3>2. tools_clients' \in [Servers -> Nat] /\ tools_registry' \in [Servers -> Nat]
      BY <1>1, <1>3, <2>0 DEF ToolsTypes
    <3> QED  BY <1>1, <1>3, <2>0, <3>1, <3>2 DEF ToolsTypes, StandStill
  <2>5. OpenOK'
    <3> SUFFICES ASSUME NEW i \in tools_open', tools_overlapped = {}
                 PROVE  \E x \in Servers : tools_clients'[x] = i
      BY DEF OpenOK, StandStill
    <3>1. CASE i = tools_made'
      BY <1>1, <1>3, <3>1 DEF ToolsTypes
    <3>2. CASE i \in tools_open
      <4>1. PICK x \in Servers : tools_clients[x] = i
        BY <3>2 DEF ToolsInv, OpenOK
      <4>2. i # 0
        BY <1>1, <3>2 DEF ToolsTypes
      <4>3. tools_clients[s] = 0
        BY <1>1 DEF FindsReady, Free
      <4> QED  BY <1>1, <1>3, <4>1, <4>2, <4>3 DEF ToolsTypes
    <3> QED  BY <1>3, <3>1, <3>2
  <2>6. Sync!DisabledStaysHidden'
    <3>1. tools_request[r].apply => tools_request'[r].apply /\ tools_request'[r].todo = <<>>
      <4>1. /\ tools_request'[r].apply = tools_request[r].apply
            /\ tools_request'[r].todo = <<>> \o Tail(tools_request[r].todo)
        <5>1. PICK steps : steps = <<>>
          OBVIOUS
        <5>2. Pushes(r, s, steps)
          BY <2>1, <5>1
        <5>3. /\ tools_request'[r].apply = tools_request[r].apply
              /\ tools_request'[r].todo = steps \o Tail(tools_request[r].todo)
          BY <5>2, PushedRequests
        <5> QED  BY <5>1, <5>3
      <4>2. tools_request[r].todo \in Seq(ToolSteps)
        BY AtStep
      <4>3. <<>> \o Tail(tools_request[r].todo) = Tail(tools_request[r].todo)
        BY <4>2
      <4>4. tools_request[r].apply => Tail(tools_request[r].todo) = <<>>
        BY <4>2, NoStep, AtStep, PushedAppliesLast
      <4> QED  BY <4>1, <4>3, <4>4
    <3>2. \A q \in ToolRequests \ {r} : tools_request'[q] = tools_request[q]
      BY <2>1, PushedRequests
    <3> SUFFICES ASSUME NEW x \in tools_disabled \ (tools_unapplied' \cup tools_overlapped)
                 PROVE  \/ tools_registry'[x] = 0
                        \/ \E q \in ToolRequests : tools_request'[q].apply /\ tools_request'[q].todo = <<>>
      BY DEF Sync!DisabledStaysHidden, StandStill
    <3>3. CASE x = s
      BY <1>3, <3>1, <3>3
    <3>4. CASE x # s
      <4>1. \/ tools_registry[x] = 0
            \/ \E q \in ToolRequests : tools_request[q].apply /\ tools_request[q].todo = <<>>
        BY <1>3, <3>4 DEF ToolsInv, Sync!DisabledStaysHidden
      <4>2. x \in Servers /\ tools_registry'[x] = tools_registry[x]
        BY <1>1, <2>2, <3>4 DEF Elsewhere, ToolsTypes
      <4> QED  BY <3>2, <4>1, <4>2
    <3> QED  BY <3>3, <3>4
  <2> QED  BY <1>1, <2>1, <2>2, <2>3, <2>4, <2>5, <2>6, StepKeeps
<1> QED  BY <1>2, <1>3 DEF Sync!Link

(* A request takes its next step.                                          *)
LEMMA TakesStep == ASSUME ToolsInv, NEW r \in ToolRequests, Sync!Step(r) PROVE ToolsInv'
<1> DEFINE step == tools_request[r].todo[1]
           s == step.server
<1>1. tools_request[r].todo # <<>> /\ StandStill
  BY DEF Sync!Step, StandStill
<1>2. Head(tools_request[r].todo) = step
  BY <1>1, AtStep
<1>3. \/ step.do = "detach" /\ Sync!Detach(r, s)
      \/ step.do = "detached" /\ Sync!Detached(r, s)
      \/ step.do = "connect" /\ Sync!Reconnect(r, s)
      \/ step.do = "link" /\ Sync!Link(r, s)
      \/ step.do = "drop" /\ Sync!Drop(r, s)
      \/ step.do = "adopt" /\ Sync!Adopt(r, s)
      \/ step.do = "enter" /\ Sync!Enter(r, s)
      \/ step.do = "forget" /\ Sync!ForgetEntry(r, s)
  BY <1>2 DEF Sync!Step
<1> QED  BY <1>1, <1>3, DetachKeeps, DetachedKeeps, ReconnectKeeps, LinkKeeps, DropKeeps,
            AdoptKeeps, EnterKeeps, ForgetKeeps

---------------------------------------------------------------------------
(* A request begins and ends.                                              *)

(* Nothing a request starts with waits for a disconnection.                *)
LEMMA StartKeeps ==
    ASSUME ToolsInv, NEW r \in ToolRequests, NEW steps \in Seq(ToolSteps),
           NEW want \in [Servers -> Versions \cup {0}], NEW apply \in BOOLEAN,
           \A i \in 1..Len(steps) : steps[i].do \in {"connect", "detach", "drop", "adopt"},
           apply => AppliesLast(steps), Sync!Start(r, steps, want, apply),
           UNCHANGED <<tools_entries, tools_clients, tools_owned, tools_registry, tools_known,
                       tools_disabled, tools_open, tools_made, tools_switched, tools_unapplied>>
    PROVE  ToolsInv'
<1> DEFINE new == [todo |-> steps, want |-> want, apply |-> apply]
<1>1. /\ DOMAIN tools_request = ToolRequests
      /\ tools_request[r] = Sync!None /\ tools_request' = [tools_request EXCEPT ![r] = new]
      /\ \A q \in ToolRequests : TodoOK(tools_request[q])
      /\ tools_overlapped' = tools_overlapped \cup
            {s \in Servers : Sync!AtWork(s) # {} /\ \E i \in 1..Len(steps) : steps[i].server = s}
  BY DEF Sync!Start, ToolsInv
<1>2. /\ DOMAIN tools_request' = ToolRequests /\ tools_request'[r] = new
      /\ \A q \in ToolRequests \ {r} : tools_request'[q] = tools_request[q]
  BY <1>1
<1>3. tools_request[r].todo = <<>> /\ ~tools_request[r].apply /\ Len(tools_request[r].todo) = 0
  <2>1. Sync!None.todo = <<>> /\ Sync!None.apply = FALSE
    BY DEF Sync!None
  <2> QED  BY <1>1, <2>1
<1>4. new.todo = steps /\ new.want = want /\ new.apply = apply
  OBVIOUS
<1> HIDE DEF new
<1>5. TodoOK(new)
  <2>1. InTurn(steps)
    BY DEF InTurn
  <2>2. new = [todo |-> new.todo, want |-> new.want, apply |-> new.apply]
    BY DEF new
  <2> QED  BY <1>4, <2>1, <2>2 DEF TodoOK
<1>6. \A q \in ToolRequests : TodoOK(tools_request'[q]) /\ TodoOK(tools_request[q])'
  BY <1>1, <1>2, <1>5 DEF TodoOK
<1>7. ASSUME NEW x \in Servers \ tools_overlapped' PROVE ServerOK(x)'
  <2>1. ServerOK(x) /\ x \in Servers \ tools_overlapped
    BY <1>1, <1>7 DEF ToolsInv
  <2>2. \A q \in ToolRequests \ {r} : AtServer(q, x)' <=> AtServer(q, x)
    BY <1>2 DEF AtServer
  <2>3. ASSUME AtServer(r, x)', NEW q \in ToolRequests \ {r} PROVE ~AtServer(q, x)
    <3>1. \E i \in 1..Len(steps) : steps[i].server = x
      BY <2>3, <1>2, <1>4 DEF AtServer
    <3>2. Sync!AtWork(x) = {}
      BY <3>1, <2>1, <1>1, <1>7
    <3> QED  BY <3>2 DEF Sync!AtWork, AtServer
  <2>4. \A p, q \in ToolRequests : AtServer(p, x)' /\ AtServer(q, x)' => p = q
    BY <2>1, <2>2, <2>3 DEF ServerOK
  <2>5. OnOffer(x)'
    <3>1. Sync!Detaching(x) => Sync!Detaching(x)'
      <4>1. \A q \in Sync!AtWork(x) : q \in ToolRequests /\ AtServer(q, x) /\ q # r
        BY <1>3 DEF Sync!AtWork, AtServer
      <4>2. \A q \in Sync!AtWork(x) : q \in Sync!AtWork(x)' /\ tools_request'[q] = tools_request[q]
        BY <1>2, <4>1 DEF Sync!AtWork
      <4> QED  BY <4>2 DEF Sync!Detaching
    <3> QED  BY <2>1, <3>1 DEF ServerOK, OnOffer
  <2>6. ASSUME NEW q \in ToolRequests PROVE FindsReady(q, x)'
    <3>1. CASE q = r
      <4>1. steps # <<>> => 1 \in 1..Len(steps)
        OBVIOUS
      <4> QED  BY <3>1, <4>1, <1>2, <1>4 DEF FindsReady
    <3>2. CASE q # r
      BY <2>1, <3>2, <1>2 DEF ServerOK, FindsReady, Free
    <3> QED  BY <3>1, <3>2
  <2> QED  BY <2>1, <2>4, <2>5, <2>6 DEF ServerOK, Free
<1>8. ToolsTypes' /\ OpenOK'
  BY <1>1 DEF ToolsInv, ToolsTypes, OpenOK
<1>9. Sync!DisabledStaysHidden'
  <2> SUFFICES ASSUME NEW x \in tools_disabled \ (tools_unapplied \cup tools_overlapped)
               PROVE  \/ tools_registry[x] = 0
                      \/ \E q \in ToolRequests : tools_request'[q].apply /\ tools_request'[q].todo = <<>>
    BY <1>1 DEF Sync!DisabledStaysHidden
  <2>1. \/ tools_registry[x] = 0
        \/ \E q \in ToolRequests : tools_request[q].apply /\ tools_request[q].todo = <<>>
    BY DEF ToolsInv, Sync!DisabledStaysHidden
  <2> QED  BY <2>1, <1>2, <1>3
<1> QED  BY <1>2, <1>6, <1>7, <1>8, <1>9 DEF ToolsInv

(* A request is answered, and the toggle applied again if it is to be.     *)
LEMMA AnswerKeeps == ASSUME ToolsInv, NEW r \in ToolRequests, Sync!Answer(r) PROVE ToolsInv'
<1>1. /\ DOMAIN tools_request = ToolRequests /\ ToolsTypes
      /\ tools_request[r].todo = <<>> /\ Len(tools_request[r].todo) = 0
      /\ tools_request' = [tools_request EXCEPT ![r] = Sync!None]
      /\ \A q \in ToolRequests : TodoOK(tools_request[q])
      /\ UNCHANGED <<tools_entries, tools_clients, tools_owned, tools_disabled, tools_open,
                     tools_made, tools_switched, tools_overlapped, tools_unapplied>>
  BY DEF Sync!Answer, ToolsInv
<1>2. /\ DOMAIN tools_request' = ToolRequests /\ tools_request'[r] = Sync!None
      /\ \A q \in ToolRequests \ {r} : tools_request'[q] = tools_request[q]
  BY <1>1
<1>3. /\ Sync!None.todo = <<>> /\ Sync!None.apply = FALSE /\ Len(Sync!None.todo) = 0
      /\ TodoOK(Sync!None)
  BY NoStep DEF Sync!None, TodoOK
<1>4. \A q \in ToolRequests : TodoOK(tools_request'[q]) /\ TodoOK(tools_request[q])'
  BY <1>1, <1>2, <1>3 DEF TodoOK
<1>5. /\ \A x \in Servers : /\ x \notin tools_disabled => tools_registry'[x] = tools_registry[x]
                            /\ tools_registry'[x] \in {0, tools_registry[x]}
                            /\ tools_request[r].apply /\ x \in tools_disabled => tools_registry'[x] = 0
      /\ tools_registry' \in [Servers -> Nat] /\ tools_known' \in [Servers -> Nat]
  <2>0. tools_registry \in [Servers -> Nat] /\ tools_known \in [Servers -> Nat]
    BY <1>1 DEF ToolsTypes
  <2>1. CASE tools_request[r].apply
    <3>1. /\ tools_known' = [s \in Servers |-> IF tools_known[s] = 0 THEN tools_registry[s]
                                                                  ELSE tools_known[s]]
          /\ tools_registry' = [s \in Servers |-> IF s \in tools_disabled THEN 0
                                                  ELSE tools_registry[s]]
      BY <2>1 DEF Sync!Answer, Sync!Observed
    <3> QED  BY <2>0, <3>1
  <2>2. CASE ~tools_request[r].apply
    <3>1. UNCHANGED <<tools_known, tools_registry>>
      BY <2>2 DEF Sync!Answer
    <3> QED  BY <2>0, <2>2, <3>1
  <2> QED  BY <2>1, <2>2
<1>6. ASSUME NEW x \in Servers \ tools_overlapped PROVE ServerOK(x)'
  <2>1. ServerOK(x)
    BY DEF ToolsInv
  <2>2. \A q \in ToolRequests : AtServer(q, x)' => AtServer(q, x)
    BY <1>2, <1>3 DEF AtServer
  <2>3. x \notin tools_switched => tools_registry'[x] = tools_registry[x]
    BY <1>1, <1>5 DEF ToolsTypes
  <2>4. Free(x) => Free(x)'
    BY <2>3, <1>1 DEF Free
  <2>5. Sync!Detaching(x) => Sync!Detaching(x)'
    <3>1. \A q \in Sync!AtWork(x) : q \in ToolRequests /\ AtServer(q, x) /\ q # r
      BY <1>1 DEF Sync!AtWork, AtServer
    <3>2. \A q \in Sync!AtWork(x) : q \in Sync!AtWork(x)' /\ tools_request'[q] = tools_request[q]
      BY <1>2, <3>1 DEF Sync!AtWork
    <3> QED  BY <3>2 DEF Sync!Detaching
  <2>6. ASSUME NEW q \in ToolRequests PROVE FindsReady(q, x)'
    <3>1. CASE q = r
      BY <3>1, <1>2, <1>3 DEF FindsReady
    <3>2. CASE q # r
      BY <2>1, <2>4, <3>2, <1>1, <1>2 DEF ServerOK, FindsReady
    <3> QED  BY <3>1, <3>2
  <2>7. OnOffer(x)'
    BY <2>1, <2>3, <2>5, <1>1 DEF ServerOK, OnOffer
  <2> QED  BY <2>1, <2>2, <2>4, <2>6, <2>7, <1>1 DEF ServerOK
<1>7. ToolsTypes' /\ OpenOK'
  BY <1>1, <1>5 DEF ToolsInv, ToolsTypes, OpenOK
<1>8. Sync!DisabledStaysHidden'
  <2> SUFFICES ASSUME NEW x \in tools_disabled \ (tools_unapplied \cup tools_overlapped),
                      tools_registry'[x] # 0
               PROVE  \E q \in ToolRequests : tools_request'[q].apply /\ tools_request'[q].todo = <<>>
    BY <1>1 DEF Sync!DisabledStaysHidden
  <2>0. x \in Servers
    BY <1>1 DEF ToolsTypes
  <2>1. \E q \in ToolRequests : tools_request[q].apply /\ tools_request[q].todo = <<>>
    BY <1>5, <2>0 DEF ToolsInv, Sync!DisabledStaysHidden
  <2>2. ~tools_request[r].apply
    BY <1>5, <2>0
  <2> QED  BY <2>1, <2>2, <1>2
<1> QED  BY <1>1, <1>2, <1>4, <1>6, <1>7, <1>8 DEF ToolsInv

---------------------------------------------------------------------------
(* The operator switches a tool, and the runtime is closed.                *)

(* set_tool_enabled: the invariant asks nothing of a tool that was         *)
(* switched but that it is hidden while it is off.                         *)
LEMMA SwitchKeeps ==
    ASSUME ToolsInv, NEW s \in Servers, Sync!Disable(s) \/ Sync!Enable(s)
    PROVE  ToolsInv'
<1>1. /\ ToolsTypes /\ tools_known' = Sync!Observed
      /\ tools_switched' = tools_switched \cup {s}
      /\ UNCHANGED <<tools_entries, tools_clients, tools_owned, tools_open, tools_made,
                     tools_request, tools_overlapped>>
  BY DEF Sync!Disable, Sync!Enable, ToolsInv
<1>2. tools_known' \in [Servers -> Nat]
  BY <1>1 DEF Sync!Observed, ToolsTypes
<1>3. /\ tools_registry' \in [Servers -> Nat]
      /\ \A x \in Servers \ {s} : tools_registry'[x] = tools_registry[x]
  BY <1>1, <1>2 DEF Sync!Disable, Sync!Enable, Sync!Registered, ToolsTypes
<1>4. \A x \in Servers \ tools_overlapped : ServerOK(x)'
  <2> SUFFICES ASSUME NEW x \in Servers \ tools_overlapped PROVE ServerOK(x)'
    OBVIOUS
  <2>1. ServerOK(x)
    BY DEF ToolsInv
  <2>2. x \notin tools_switched' => tools_registry'[x] = tools_registry[x] /\ x \notin tools_switched
    BY <1>1, <1>3
  <2>3. Free(x) => Free(x)'
    BY <1>1, <2>2 DEF Free
  <2>4. \A q \in ToolRequests : AtServer(q, x)' <=> AtServer(q, x)
    BY <1>1 DEF AtServer
  <2>5. Sync!Detaching(x)' <=> Sync!Detaching(x)
    BY <1>1 DEF Sync!Detaching, Sync!AtWork
  <2>6. OnOffer(x)'
    BY <1>1, <2>1, <2>2, <2>5 DEF ServerOK, OnOffer
  <2>7. \A q \in ToolRequests : FindsReady(q, x)'
    BY <1>1, <2>1, <2>3 DEF ServerOK, FindsReady
  <2> QED  BY <1>1, <2>1, <2>3, <2>4, <2>6, <2>7 DEF ServerOK
<1>5. ToolsTypes' /\ OpenOK'
  <2>1. tools_disabled' \subseteq tools_switched'
    BY <1>1 DEF Sync!Disable, Sync!Enable, ToolsTypes
  <2> QED  BY <1>1, <1>2, <1>3, <2>1 DEF ToolsInv, ToolsTypes, OpenOK
<1>6. Sync!DisabledStaysHidden'
  <2>1. CASE Sync!Disable(s)
    BY <1>1, <1>3, <2>1 DEF Sync!Disable, Sync!DisabledStaysHidden, ToolsInv, ToolsTypes
  <2>2. CASE Sync!Enable(s)
    BY <1>1, <1>3, <2>2 DEF Sync!Enable, Sync!DisabledStaysHidden, ToolsInv, ToolsTypes
  <2> QED  BY <2>1, <2>2
<1>7. \A q \in ToolRequests : TodoOK(tools_request[q])'
  BY <1>1 DEF ToolsInv, TodoOK
<1> QED  BY <1>1, <1>4, <1>5, <1>6, <1>7 DEF ToolsInv

(* aclose: a server a request is still at work on counts as overlapped.    *)
LEMMA ShutKeeps == ASSUME ToolsInv, Sync!Shut PROVE ToolsInv'
<1>1. /\ ToolsTypes
      /\ tools_clients' = [s \in Servers |-> 0]
      /\ tools_open' = tools_open \ {tools_clients[s] : s \in Servers}
      /\ tools_overlapped' = tools_overlapped \cup {s \in Servers : Sync!AtWork(s) # {}}
      /\ tools_owned' = {s \in tools_owned : tools_clients[s] = 0}
      /\ tools_registry' = [s \in Servers |-> IF s \in tools_owned \ tools_owned' THEN 0
                                              ELSE tools_registry[s]]
      /\ UNCHANGED <<tools_entries, tools_known, tools_disabled, tools_made, tools_request,
                     tools_switched, tools_unapplied>>
  BY DEF Sync!Shut, ToolsInv
<1>2. ASSUME NEW x \in Servers \ tools_overlapped' PROVE ServerOK(x)'
  <2>1. ServerOK(x) /\ Sync!AtWork(x) = {}
    BY <1>1, <1>2 DEF ToolsInv
  <2>2. \A q \in ToolRequests : ~AtServer(q, x)
    BY <2>1 DEF Sync!AtWork, AtServer
  <2>3. ~Sync!Detaching(x)
    BY <2>1 DEF Sync!Detaching
  <2>4. x \notin tools_switched => tools_registry'[x] = 0
    BY <1>1, <2>1, <2>3 DEF ServerOK, OnOffer, ToolsTypes
  <2>5. Free(x)'
    BY <1>1, <2>4 DEF Free
  <2>6. ASSUME NEW q \in ToolRequests PROVE FindsReady(q, x)'
    <3>1. \A i \in 1..Len(tools_request[q].todo) : tools_request[q].todo[i].server # x
      BY <2>2 DEF AtServer
    <3>2. tools_request[q].todo # <<>> => 1 \in 1..Len(tools_request[q].todo)
      BY DEF ToolsInv, TodoOK
    <3> QED  BY <1>1, <3>1, <3>2 DEF FindsReady
  <2>7. \A q \in ToolRequests : ~AtServer(q, x)'
    BY <1>1, <2>2 DEF AtServer
  <2> QED  BY <1>1, <2>4, <2>5, <2>6, <2>7 DEF ServerOK, OnOffer
<1>3. ToolsTypes' /\ OpenOK'
  <2>1. ToolsTypes'
    BY <1>1 DEF ToolsTypes
  <2>2. OpenOK'
    BY <1>1 DEF ToolsInv, OpenOK
  <2> QED  BY <2>1, <2>2
<1>4. Sync!DisabledStaysHidden'
  BY <1>1 DEF Sync!DisabledStaysHidden, ToolsInv, ToolsTypes
<1>5. \A q \in ToolRequests : TodoOK(tools_request[q])'
  BY <1>1 DEF ToolsInv, TodoOK
<1> QED  BY <1>1, <1>2, <1>3, <1>4, <1>5 DEF ToolsInv

---------------------------------------------------------------------------
(* The requests there are.                                                 *)

(* The instance counts as FiniteSets does.                                 *)
LEMMA SameSyncCardinality == \A S : Sync!Cardinality(S) = Cardinality(S)
BY DEF Sync!Cardinality, Cardinality

(* SetToSeq lists the elements of a finite set, each of them once.         *)
LEMMA Listed ==
    ASSUME NEW S, IsFiniteSet(S)
    PROVE  LET order == Sync!SetToSeq(S) IN
           /\ order \in Seq(S) /\ Len(order) \in Nat /\ DOMAIN order = 1..Len(order)
           /\ \A i, j \in 1..Len(order) : order[i] = order[j] => i = j
           /\ \A s \in S : \E i \in 1..Len(order) : order[i] = s
<1> DEFINE n == Cardinality(S)
           order == Sync!SetToSeq(S)
<1>1. n \in Nat /\ ExistsBijection(1..n, S)
  BY FS_CardinalityType
<1>2. order = CHOOSE f \in [1..n -> S] : \A i, j \in DOMAIN f : f[i] = f[j] => i = j
  BY SameSyncCardinality DEF Sync!SetToSeq, Sync!IsInjective
<1>3. \E f \in [1..n -> S] : \A i, j \in DOMAIN f : f[i] = f[j] => i = j
  BY <1>1 DEF ExistsBijection, Bijection, Injection, IsInjective
<1>4. order \in [1..n -> S] /\ \A i, j \in DOMAIN order : order[i] = order[j] => i = j
  <2> HIDE DEF order, n
  <2> QED  BY <1>2, <1>3
<1>5. order \in Injection(1..n, S)
  <2> HIDE DEF order, n
  <2> QED  BY <1>4 DEF Injection, IsInjective
<1>6. order \in Surjection(1..n, S)
  <2>1. IsFiniteSet(1..n) /\ Cardinality(1..n) = n
    BY <1>1, FS_Interval
  <2> HIDE DEF order
  <2> QED  BY <1>5, <2>1, FS_Injection
<1> HIDE DEF order, n
<1>7. order \in Seq(S) /\ Len(order) = n /\ DOMAIN order = 1..n
  BY <1>1, <1>4
<1>8. \A s \in S : \E i \in 1..n : order[i] = s
  BY <1>6 DEF Surjection
<1> QED  BY <1>1, <1>4, <1>7, <1>8 DEF order

(* At the start every server has its client and every tool calls it.       *)
LEMMA ToolsBegin == ServicesInit => ToolsInv
<1> SUFFICES ASSUME Sync!Init PROVE ToolsInv
  BY DEF ServicesInit
<1> DEFINE order == Sync!SetToSeq(Servers)
           client == [s \in Servers |-> CHOOSE i \in 1..Len(order) : order[i] = s]
           first == CHOOSE v \in Versions : TRUE
<1>1. /\ order \in Seq(Servers) /\ Len(order) \in Nat
      /\ \A i, j \in 1..Len(order) : order[i] = order[j] => i = j
      /\ \A s \in Servers : \E i \in 1..Len(order) : order[i] = s
  BY Listed, ToolsAssumption
<1>2. first \in Versions /\ first # 0
  BY ToolsAssumption
<1>3. /\ tools_entries = [s \in Servers |-> first]
      /\ tools_made = Len(order) /\ tools_clients = client
      /\ tools_owned = Servers /\ tools_registry = client /\ tools_known = client
      /\ tools_disabled = {} /\ tools_open = 1..tools_made
      /\ tools_request = [r \in ToolRequests |-> Sync!None]
      /\ tools_switched = {} /\ tools_overlapped = {} /\ tools_unapplied = {}
  BY DEF Sync!Init, Sync!Order
<1> HIDE DEF order, first
<1>4. \A s \in Servers : client[s] \in 1..Len(order) /\ order[client[s]] = s
  <2> SUFFICES ASSUME NEW s \in Servers
               PROVE  client[s] \in 1..Len(order) /\ order[client[s]] = s
    OBVIOUS
  <2>1. client[s] = CHOOSE i \in 1..Len(order) : order[i] = s
    OBVIOUS
  <2>2. \E i \in 1..Len(order) : order[i] = s
    BY <1>1
  <2> QED  BY <2>1, <2>2
<1>5. client \in [Servers -> Nat]
  <2>1. client = [s \in Servers |-> client[s]]
    OBVIOUS
  <2> HIDE DEF client
  <2> QED  BY <1>1, <1>4, <2>1
<1> HIDE DEF client
<1>6. Sync!None.todo = <<>> /\ Len(Sync!None.todo) = 0 /\ TodoOK(Sync!None)
  BY NoStep DEF Sync!None, TodoOK
<1>7. \A r \in ToolRequests : tools_request[r].todo = <<>> /\ TodoOK(tools_request[r])
                              /\ Len(tools_request[r].todo) = 0
  BY <1>3, <1>6
<1>8. ToolsTypes
  BY <1>1, <1>2, <1>3, <1>5 DEF ToolsTypes
<1>9. ASSUME NEW s \in Servers PROVE ServerOK(s)
  <2>1. \A r \in ToolRequests : ~AtServer(r, s) /\ FindsReady(r, s)
    BY <1>7 DEF AtServer, FindsReady
  <2>2. OnOffer(s) /\ tools_entries[s] # 0
    BY <1>2, <1>3 DEF OnOffer
  <2> QED  BY <2>1, <2>2 DEF ServerOK
<1>10. OpenOK
  <2> SUFFICES ASSUME NEW i \in tools_open PROVE \E s \in Servers : tools_clients[s] = i
    BY DEF OpenOK
  <2>1. i \in 1..Len(order)
    BY <1>3
  <2>2. order[i] \in Servers
    BY <1>1, <2>1
  <2>3. client[order[i]] = i
    BY <1>1, <1>4, <2>1, <2>2
  <2> QED  BY <1>3, <2>2, <2>3
<1>11. Sync!DisabledStaysHidden
  BY <1>3 DEF Sync!DisabledStaysHidden
<1> QED  BY <1>3, <1>7, <1>8, <1>9, <1>10, <1>11 DEF ToolsInv

(* A list given by an index function.                                      *)
LEMMA Plan ==
    ASSUME NEW n \in Nat, NEW kinds, NEW plan \in [1..n -> ToolSteps],
           \A i \in 1..n : plan[i].do \in kinds
    PROVE  /\ plan \in Seq(ToolSteps)
           /\ \A i \in 1..Len(plan) : plan[i].do \in kinds
OBVIOUS

(* Do makes steps.                                                         *)
LEMMA DoIsStep ==
    ASSUME NEW k \in StepKinds, NEW s \in Servers
    PROVE  Sync!Do(k, s) \in ToolSteps /\ Sync!Do(k, s).do = k
BY DEF Sync!Do, ToolSteps

(* Connecting, disconnecting, reloading and editing begin with lists in    *)
(* order.                                                                  *)
LEMMA RequestedKeeps == ASSUME ToolsInv, Sync!Requested PROVE ToolsInv'
<1> DEFINE kinds == {"connect", "detach", "drop", "adopt"}
<1>0. /\ tools_entries \in [Servers -> Versions \cup {0}]
      /\ kinds \subseteq StepKinds
      /\ UNCHANGED <<tools_entries, tools_clients, tools_owned, tools_registry, tools_known,
                     tools_disabled, tools_open, tools_made, tools_switched, tools_unapplied>>
  BY DEF ToolsInv, ToolsTypes, StepKinds, Sync!Requested
<1>1. ASSUME NEW r \in ToolRequests, NEW s \in Servers, NEW k \in {"connect", "detach"},
             Sync!Start(r, <<Sync!Do(k, s)>>, tools_entries, TRUE)
      PROVE  ToolsInv'
  <2>1. PICK steps : steps = <<Sync!Do(k, s)>>
    OBVIOUS
  <2>2. steps \in Seq(ToolSteps) /\ Len(steps) = 1 /\ steps[1].do = k
    BY <2>1, OneStep DEF StepKinds
  <2>3. \A i \in 1..Len(steps) : i = 1 /\ steps[i].do = k
    BY <2>2
  <2>4. AppliesLast(steps)
    BY <2>2, <2>3 DEF AppliesLast
  <2>5. \A i \in 1..Len(steps) : steps[i].do \in kinds
    BY <2>3
  <2> QED  BY <1>0, <1>1, <2>1, <2>2, <2>4, <2>5, StartKeeps
<1>2. ASSUME NEW r \in ToolRequests, Sync!ReloadAll(r) PROVE ToolsInv'
  <2> DEFINE names == Sync!SetToSeq({s \in Servers : tools_entries[s] # 0})
             steps == [i \in 1..2 * Len(names) |->
                          Sync!Do(IF i % 2 = 1 THEN "detach" ELSE "connect", names[(i + 1) \div 2])]
  <2>1. Sync!Start(r, steps, tools_entries, FALSE)
    BY <1>2 DEF Sync!ReloadAll
  <2>2. /\ names \in Seq({s \in Servers : tools_entries[s] # 0}) /\ Len(names) \in Nat
    <3>1. IsFiniteSet({s \in Servers : tools_entries[s] # 0})
      BY ToolsAssumption, FS_Subset
    <3> QED  BY <3>1, Listed
  <2> HIDE DEF names
  <2>3. \A i \in 1..2 * Len(names) : names[(i + 1) \div 2] \in Servers
    <3>1. \A i \in 1..2 * Len(names) : (i + 1) \div 2 \in 1..Len(names)
      BY <2>2
    <3>2. \A j \in 1..Len(names) : names[j] \in Servers
      BY <2>2
    <3> QED  BY <3>1, <3>2
  <2>4. steps = [i \in 1..2 * Len(names) |-> steps[i]]
    OBVIOUS
  <2>5. ASSUME NEW i \in 1..2 * Len(names)
        PROVE  steps[i] \in ToolSteps /\ steps[i].do \in kinds
    <3>1. steps[i] = Sync!Do(IF i % 2 = 1 THEN "detach" ELSE "connect", names[(i + 1) \div 2])
      OBVIOUS
    <3>2. names[(i + 1) \div 2] \in Servers
      BY <2>3
    <3>3. (IF i % 2 = 1 THEN "detach" ELSE "connect") \in kinds
      OBVIOUS
    <3> HIDE DEF steps, kinds
    <3> QED  BY <1>0, <3>1, <3>2, <3>3, DoIsStep
  <2>6. 2 * Len(names) \in Nat
    BY <2>2
  <2> HIDE DEF steps, kinds
  <2>7. steps \in Seq(ToolSteps) /\ \A i \in 1..Len(steps) : steps[i].do \in kinds
    <3>1. steps \in [1..2 * Len(names) -> ToolSteps]
      BY <2>4, <2>5
    <3> QED  BY <2>5, <2>6, <3>1, Plan
  <2> QED  BY <1>0, <2>1, <2>7, StartKeeps DEF kinds
<1>3. ASSUME NEW r \in ToolRequests, NEW s \in Servers, NEW v \in Versions \cup {0},
             Sync!EditConfig(r, s, v)
      PROVE  ToolsInv'
  <2> DEFINE order == Sync!Order
             n == Len(order)
             steps == [i \in 1..2 * n |-> IF i <= n THEN Sync!Do("drop", order[i])
                                                    ELSE Sync!Do("adopt", order[i - n])]
             want == [tools_entries EXCEPT ![s] = v]
  <2>1. Sync!Start(r, steps, want, FALSE)
    BY <1>3 DEF Sync!EditConfig
  <2>2. want \in [Servers -> Versions \cup {0}]
    BY <1>0
  <2>3. order \in Seq(Servers) /\ n \in Nat
    BY Listed, ToolsAssumption DEF Sync!Order
  <2> HIDE DEF order, want
  <2>4. \A i \in 1..2 * n : /\ i <= n => order[i] \in Servers
                            /\ ~(i <= n) => order[i - n] \in Servers
    <3>1. \A i \in 1..2 * n : /\ i <= n => i \in 1..n
                              /\ ~(i <= n) => i - n \in 1..n
      BY <2>3
    <3>2. \A j \in 1..n : order[j] \in Servers
      BY <2>3
    <3> QED  BY <3>1, <3>2
  <2>5. steps = [i \in 1..2 * n |-> steps[i]]
    OBVIOUS
  <2>6. ASSUME NEW i \in 1..2 * n
        PROVE  steps[i] \in ToolSteps /\ steps[i].do \in kinds
    <3>1. CASE i <= n
      <4>1. steps[i] = Sync!Do("drop", order[i]) /\ order[i] \in Servers
        BY <2>4, <3>1
      <4> HIDE DEF steps
      <4> QED  BY <1>0, <4>1, DoIsStep
    <3>2. CASE ~(i <= n)
      <4>1. steps[i] = Sync!Do("adopt", order[i - n]) /\ order[i - n] \in Servers
        BY <2>4, <3>2
      <4> HIDE DEF steps
      <4> QED  BY <1>0, <4>1, DoIsStep
    <3> QED  BY <3>1, <3>2
  <2>7. 2 * n \in Nat
    BY <2>3
  <2> HIDE DEF steps, n, kinds
  <2>8. steps \in Seq(ToolSteps) /\ \A i \in 1..Len(steps) : steps[i].do \in kinds
    <3>1. steps \in [1..2 * n -> ToolSteps]
      BY <2>5, <2>6
    <3> QED  BY <2>6, <2>7, <3>1, Plan
  <2> QED  BY <1>0, <2>1, <2>2, <2>8, StartKeeps DEF kinds
<1> HIDE DEF kinds
<1>4. \/ \E r \in ToolRequests, s \in Servers, k \in {"connect", "detach"} :
            Sync!Start(r, <<Sync!Do(k, s)>>, tools_entries, TRUE)
      \/ \E r \in ToolRequests : Sync!ReloadAll(r)
      \/ \E r \in ToolRequests, s \in Servers, v \in Versions \cup {0} : Sync!EditConfig(r, s, v)
  BY DEF Sync!Requested, Sync!Connect, Sync!Disconnect
<1> QED  BY <1>1, <1>2, <1>3, <1>4

(* Every step of the component keeps the invariant.                        *)
LEMMA ToolsStep == ToolsInv /\ [Sync!Next]_(Sync!toolVars) => ToolsInv'
<1>1. ASSUME ToolsInv, Sync!Next PROVE ToolsInv'
  BY <1>1, RequestedKeeps, TakesStep, AnswerKeeps, SwitchKeeps, ShutKeeps DEF Sync!Next
<1>2. ASSUME ToolsInv, UNCHANGED Sync!toolVars PROVE ToolsInv'
  <2>1. UNCHANGED <<tools_entries, tools_clients, tools_owned, tools_registry, tools_known,
                    tools_disabled, tools_open, tools_made, tools_request, tools_switched,
                    tools_overlapped, tools_unapplied>>
    BY <1>2 DEF Sync!toolVars
  <2>2. ASSUME NEW s PROVE ServerOK(s)' <=> ServerOK(s)
    BY <2>1 DEF ServerOK, AtServer, Free, OnOffer, FindsReady, Sync!Detaching, Sync!AtWork
  <2>3. ASSUME NEW r \in ToolRequests PROVE TodoOK(tools_request[r])' <=> TodoOK(tools_request[r])
    BY <2>1 DEF TodoOK
  <2>4. ToolsTypes' /\ OpenOK' /\ Sync!DisabledStaysHidden'
    BY <1>2, <2>1 DEF ToolsInv, ToolsTypes, OpenOK, Sync!DisabledStaysHidden
  <2> QED  BY <1>2, <2>1, <2>2, <2>3, <2>4 DEF ToolsInv
<1> QED  BY <1>1, <1>2

(* Whatever requests connect, disconnect, reload and edit, and however     *)
(* they interleave: a tool on offer calls the client its server has now,   *)
(* no client is left open without a server, and a tool that was switched   *)
(* off stays hidden (MCPManager, ToolToggle).                              *)
THEOREM ToolsetStaysHonest == ServicesSpec => []ToolsetIsHonest
<1>1. ToolsInv => ToolsetIsHonest
  <2> SUFFICES ASSUME ToolsInv PROVE Sync!RegistryIsHonest
    BY DEF ToolsInv, ToolsetIsHonest, Sync!ToolsetIsHonest
  <2>1. ASSUME NEW s \in Servers \ (tools_switched \cup tools_overlapped),
               tools_registry[s] # 0, ~Sync!Detaching(s)
        PROVE  tools_registry[s] = tools_clients[s]
    BY <2>1 DEF ToolsInv, ServerOK, OnOffer
  <2> QED  BY <2>1 DEF ToolsInv, OpenOK, Sync!RegistryIsHonest
<1>2. ToolsInv /\ [ServicesNext]_servicesVars => ToolsInv'
  BY ToolsSteps, ToolsStep
<1> QED  BY <1>1, <1>2, ToolsBegin, PTL DEF ServicesSpec

=============================================================================
