------------------------------ MODULE McpPool ------------------------------
(***************************************************************************)
(* MCPProcessPool: one server process shared by the sessions that ask for  *)
(* the same definition.  An entry of the pool is numbered here (a replaced *)
(* one gets a new number); sessions acquire and release concurrently, and  *)
(* a session may be closed while its acquire waits (MCPManager.close only  *)
(* hands back what has arrived).                                           *)
(***************************************************************************)
EXTENDS Integers, FiniteSets

CONSTANTS Sessions,   \* holders
          MaxEntries  \* bound on the processes ever started for the one definition

VARIABLES entry,    \* the pool's entry for the definition, 0 when there is none
          shared,   \* what became of each entry
          claims,   \* each session's acquire
          gone,     \* sessions whose runtime was closed
          escaped   \* history: sessions closed while their acquire was under way

poolVars == <<entry, shared, claims, gone, escaped>>

Numbers == 1..MaxEntries
NoClaim == [at |-> "idle", of |-> 0]
Unused == [client |-> "none", ready |-> FALSE, failed |-> FALSE, holders |-> {}]
SetClaim(s, at, e) == claims' = [claims EXCEPT ![s] = [at |-> at, of |-> e]]
Owner(e) == {s \in Sessions : claims[s] = [at |-> "connecting", of |-> e]}

Init == /\ entry = 0 /\ shared = [e \in Numbers |-> Unused]
        /\ claims = [s \in Sessions |-> NoClaim]
        /\ gone = {} /\ escaped = {}

\* Under the lock: find the entry, or make one and become its owner.
LookUp(s) ==
    \/ /\ entry # 0
       /\ SetClaim(s, "waiting", entry)
       /\ UNCHANGED <<entry, shared>>
    \/ /\ entry = 0
       /\ \E e \in Numbers :
            /\ \A n \in Numbers : n >= e <=> shared[n] = Unused
            /\ entry' = e
            /\ shared' = [shared EXCEPT ![e].client = "starting"]
            /\ SetClaim(s, "connecting", e)

Acquire(s) == claims[s].at = "idle" /\ s \notin gone /\ LookUp(s) /\ UNCHANGED <<gone, escaped>>

Connected(s) ==
    LET e == claims[s].of IN
    /\ claims[s].at = "connecting"
    /\ shared' = [shared EXCEPT ![e].client = "running", ![e].ready = TRUE]
    /\ SetClaim(s, "taking", e)
    /\ UNCHANGED <<entry, gone, escaped>>

\* MutantConnectFails: the owner forgets to wake the others.
MutantConnectFails(s) ==
    LET e == claims[s].of IN
    /\ claims[s].at = "connecting"
    /\ entry' = IF entry = e THEN 0 ELSE entry
    /\ shared' = [shared EXCEPT ![e].client = "closed", ![e].failed = TRUE]
    /\ SetClaim(s, "idle", 0)
    /\ UNCHANGED <<gone, escaped>>

\* The entry goes, everybody waiting for it is told, the client is closed.
ConnectFails(s) ==
    LET e == claims[s].of IN
    /\ claims[s].at = "connecting"
    /\ entry' = IF entry = e THEN 0 ELSE entry
    /\ shared' = [shared EXCEPT ![e].client = "closed", ![e].ready = TRUE, ![e].failed = TRUE]
    /\ SetClaim(s, "idle", 0)
    /\ UNCHANGED <<gone, escaped>>

\* A waiter shares the owner's failure, or goes on to take the lock.
Wake(s) ==
    LET e == claims[s].of IN
    /\ claims[s].at = "waiting" /\ shared[e].ready
    /\ IF shared[e].failed THEN SetClaim(s, "idle", 0) ELSE SetClaim(s, "taking", e)
    /\ UNCHANGED <<entry, shared, gone, escaped>>

\* MutantTake: the client is handed out although its entry was replaced.
MutantTake(s) ==
    LET e == claims[s].of IN
    /\ claims[s].at = "taking"
    /\ shared' = [shared EXCEPT ![e].holders = @ \cup {s}]
    /\ SetClaim(s, "held", e)
    /\ UNCHANGED <<entry, gone, escaped>>

\* Under the lock again: the entry may have been released and closed meanwhile.
Take(s) ==
    LET e == claims[s].of IN
    /\ claims[s].at = "taking"
    /\ \/ /\ entry = e
          /\ shared' = [shared EXCEPT ![e].holders = @ \cup {s}]
          /\ SetClaim(s, "held", e)
          /\ UNCHANGED entry
       \/ entry # e /\ LookUp(s)
    /\ UNCHANGED <<gone, escaped>>

\* The last holder closes the process, after it left the pool.
Give(s) ==
    LET e == claims[s].of
        left == shared[e].holders \ {s} IN
    /\ SetClaim(s, "idle", 0)
    /\ entry' = IF left = {} /\ entry = e THEN 0 ELSE entry
    /\ shared' = [shared EXCEPT ![e].holders = left,
                                ![e].client = IF left = {} THEN "closed" ELSE @]

Release(s) == claims[s].at = "held" /\ Give(s) /\ UNCHANGED <<gone, escaped>>

\* AgentRuntime.aclose: what is held is given back, an acquire goes on unseen.
Leave(s) ==
    /\ s \notin gone /\ gone' = gone \cup {s}
    /\ \/ claims[s].at = "held" /\ Give(s) /\ UNCHANGED escaped
       \/ claims[s].at = "idle" /\ UNCHANGED <<entry, shared, claims, escaped>>
       \/ /\ claims[s].at \notin {"held", "idle"}
          /\ escaped' = escaped \cup {s}
          /\ UNCHANGED <<entry, shared, claims>>

Next == \E s \in Sessions : \/ Acquire(s) \/ Connected(s) \/ ConnectFails(s) \/ Wake(s)
                            \/ Take(s) \/ Release(s) \/ Leave(s)

Spec == Init /\ [][Next]_poolVars

-----------------------------------------------------------------------------
\* A process is never closed under a session that uses it (acquire, release).
HeldIsRunning ==
    \A s \in Sessions : claims[s].at = "held" =>
        shared[claims[s].of].client = "running" /\ s \in shared[claims[s].of].holders

\* "Closed once the last of them releases it": a running process is the pool's
\* entry, and somebody holds it or is about to.  A session that was closed in
\* the middle of its acquire may hold it for ever.
RunningIsWanted ==
    \A e \in Numbers : shared[e].client = "running" =>
        entry = e /\ \E s \in Sessions : claims[s].of = e /\ (s \in gone => s \in escaped)

\* Nobody waits for a handshake that nobody is performing.
WaiterHasOwner ==
    \A s \in Sessions : claims[s].at = "waiting" =>
        shared[claims[s].of].ready \/ Owner(claims[s].of) # {}

\* The pool keeps one process, for exactly as long as a session uses it or is
\* about to, and leaves no session waiting (acquire and release interleaved).
PoolIsExact == HeldIsRunning /\ RunningIsWanted /\ WaiterHasOwner
=============================================================================
