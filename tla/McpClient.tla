----------------------------- MODULE McpClient -----------------------------
(***************************************************************************)
(* MCPClient: one stdio server, many calls in flight.  Each call takes an  *)
(* id and writes its line under a lock, then waits for the reader task to  *)
(* hand it the answer with that id, for its timeout, or for the end of the *)
(* pipe.  Answers come in any order, late, or never; the server may exit;  *)
(* close() may come at any time, and connect() may start the next process. *)
(***************************************************************************)
EXTENDS Integers, FiniteSets

CONSTANTS Calls,        \* concurrent callers of call_tool, each one call
          MaxProcesses  \* bound on the processes started one after the other

VARIABLES process,   \* _process: the process in use, 0 for None
          started,   \* processes started so far
          reading,   \* the process whose output the reader task still reads, or 0
          exited,    \* processes that ended their output
          call,      \* each caller's place in _request
          waiters,   \* ids of the futures in _pending that are not done
          lastId,    \* _next_id
          answers    \* answers on their way, as [id, process]

clientVars == <<process, started, reading, exited, call, waiters, lastId, answers>>

Idle == [at |-> "idle", id |-> 0, via |-> 0]
Writing == {c \in Calls : call[c].at = "writing"}              \* who has _write_lock
Waits(c) == call[c].at \in {"writing", "waiting"}
Move(c, at) == call' = [call EXCEPT ![c].at = at]

Init == /\ process = 0 /\ started = 0 /\ reading = 0 /\ exited = {}
        /\ call = [c \in Calls |-> Idle] /\ waiters = {} /\ lastId = 0 /\ answers = {}

\* connect: a process and its reader; the handshake is a request like any other.
Connect ==
    /\ process = 0 /\ started < MaxProcesses
    /\ started' = started + 1 /\ process' = started' /\ reading' = started'
    /\ UNCHANGED <<exited, call, waiters, lastId, answers>>

\* _request notes the process, then queues for the write lock.
Request(c) ==
    /\ call[c].at = "idle"
    /\ call' = [call EXCEPT ![c] = IF process = 0 THEN [Idle EXCEPT !.at = "closed"]
                                   ELSE [Idle EXCEPT !.at = "queued", !.via = process]]
    /\ UNCHANGED <<process, started, reading, exited, waiters, lastId, answers>>

\* Id, registration and line under one lock; a live server may answer from now on.
Write(c) ==
    /\ call[c].at = "queued" /\ Writing = {}
    /\ lastId' = lastId + 1
    /\ waiters' = waiters \cup {lastId'}
    /\ call' = [call EXCEPT ![c].at = "writing", ![c].id = lastId']
    /\ \/ answers' = answers \cup {[id |-> lastId', from |-> call[c].via]}
       \/ answers' = answers
    /\ UNCHANGED <<process, started, reading, exited>>

\* drain returns, or finds the pipe broken.
Drained(c) ==
    /\ call[c].at = "writing"
    /\ \/ Move(c, "waiting") /\ UNCHANGED waiters
       \/ /\ call[c].via # process \/ call[c].via \in exited
          /\ Move(c, "closed") /\ waiters' = waiters \ {call[c].id}
    /\ UNCHANGED <<process, started, reading, exited, lastId, answers>>

\* wait_for gives up: the waiter is dropped, so a late answer meets nobody.
Timeout(c) ==
    /\ call[c].at = "waiting" /\ call[c].id \in waiters
    /\ Move(c, "timeout") /\ waiters' = waiters \ {call[c].id}
    /\ UNCHANGED <<process, started, reading, exited, lastId, answers>>

\* MutantAnswered: an answer goes to whoever has waited longest.
MutantAnswered(id) ==
    LET oldest == CHOOSE i \in waiters \cup {id} : \A j \in waiters : i <= j
    IN [c \in Calls |-> IF call[c].id = oldest /\ Waits(c) THEN [call[c] EXCEPT !.at = "result"] ELSE call[c]]

\* A caller cancelled at the lock or in drain leaves what it registered behind.
Cancelled(c) ==
    /\ call[c].at \in {"queued", "writing"}
    /\ Move(c, "timeout")
    /\ UNCHANGED <<process, started, reading, exited, waiters, lastId, answers>>

-----------------------------------------------------------------------------
\* _dispatch: the waiter with that id is resolved, if it still waits.
Answered(id) == [c \in Calls |-> IF call[c].id = id /\ Waits(c) THEN [call[c] EXCEPT !.at = "result"] ELSE call[c]]

Dispatch(a) ==
    /\ a \in answers /\ a.from = reading
    /\ answers' = answers \ {a}
    /\ IF a.id \in waiters
       THEN call' = Answered(a.id) /\ waiters' = waiters \ {a.id}
       ELSE UNCHANGED <<call, waiters>>
    /\ UNCHANGED <<process, started, reading, exited, lastId>>

\* MutantFailPending: the waiters are dropped without being told.
MutantFailPending == call' = call /\ waiters' = {}

\* Everybody registered is released at once, not after N timeouts.
FailPending ==
    /\ call' = [c \in Calls |-> IF Waits(c) /\ call[c].id \in waiters
                                THEN [call[c] EXCEPT !.at = "closed"] ELSE call[c]]
    /\ waiters' = {}

\* End of the server's output: the reader ends, _process stays.
Eof == /\ reading # 0
       /\ exited' = exited \cup {reading} /\ reading' = 0
       /\ FailPending
       /\ UNCHANGED <<process, started, lastId, answers>>

Close == /\ process # 0
         /\ process' = 0 /\ reading' = 0 /\ exited' = exited \cup {process}
         /\ FailPending
         /\ UNCHANGED <<started, lastId, answers>>

Next == \/ Connect \/ Eof \/ Close
        \/ \E c \in Calls : Request(c) \/ Write(c) \/ Drained(c) \/ Timeout(c) \/ Cancelled(c)
        \/ \E a \in answers : Dispatch(a)

Spec == Init /\ [][Next]_clientVars

-----------------------------------------------------------------------------
\* Whoever waits is registered, so that the reader, its timeout, the end of the
\* pipe or close() releases it (_request, _dispatch, _fail_pending): no answer,
\* late, early or for another call, takes a waiter's place in _pending away.
EveryWaiterIsRegistered == \A c \in Calls : Waits(c) => call[c].id \in waiters

\* A call is answered only by an answer to its own line: while nothing took it
\* off the wire, the caller still waits or gave up (_dispatch routes by id).
RepliesAreRouted ==
    \A c \in Calls : call[c].at = "result" => [id |-> call[c].id, from |-> call[c].via] \notin answers

ClientIsExact == EveryWaiterIsRegistered /\ RepliesAreRouted
=============================================================================
