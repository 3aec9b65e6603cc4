-------------------------- MODULE SessionRegistry --------------------------
(***************************************************************************)
(* SessionManager: which sessions exist, which of them have a runtime, and *)
(* what of them is on disk.  A session is live (in _sessions), recorded    *)
(* (in _pending, waiting for its first visitor after a restart), in the    *)
(* hands of the call that rebuilds or closes it, or only on disk.  Calls   *)
(* arrive concurrently and interleave at their awaits; the process may be  *)
(* killed or shut down between any two steps; the stores may fail, and     *)
(* every such failure is swallowed.                                        *)
(***************************************************************************)
EXTENDS Integers, FiniteSets

CONSTANTS Ids,          \* session ids (uuid4: an id is given out once)
          Callers,      \* concurrent requests
          MaxRestarts,  \* bound on crashes and shutdowns
          MaxFaults     \* bound on failing reads and writes of the stores

ASSUME RegistryAssumption == MaxRestarts \in Nat /\ MaxFaults \in Nat
ASSUME IdsAssumption == "none" \notin Ids

VARIABLES up,        \* the server process runs
          live,      \* _sessions
          pending,   \* _pending
          row,       \* sessions.json
          traces,    \* ids with rows in the event store or the state store
          titling,   \* ids whose generated title is on its way
          runtimes,  \* open runtimes per id
          calls,     \* what each request is doing
          created, forgotten, named,   \* history: answered creates, erased ids, answered renames
          raced,     \* history: erased while another request worked on them
          faulty,    \* history: a store failure concerned them
          restarts, faults

memory == <<up, live, pending, titling, runtimes, calls>>
disk == <<row, traces>>
history == <<created, forgotten, named, raced, faulty, restarts, faults>>
registryVars == <<memory, disk, history>>

-----------------------------------------------------------------------------
\* A record or session is told apart by its title and who chose it: "" is shown
\* as the directory name, which is what the record on disk then holds.
NoSession == [title |-> "", source |-> "none"]
Fresh == [title |-> "", source |-> "auto"]
Displayed(s) == IF s.title = "" THEN [s EXCEPT !.title = "directory"] ELSE s

Idle == [op |-> "idle", id |-> "none", at |-> "idle", record |-> NoSession]

Known(id) == live[id] # NoSession \/ pending[id] # NoSession     \* has_session
BusyWith(id) == {c \in Callers : calls[c].id = id}
Goto(c, point) == calls' = [calls EXCEPT ![c].at = point]
Return(c) == calls' = [calls EXCEPT ![c] = Idle]

Init == /\ up = TRUE
        /\ live = [id \in Ids |-> NoSession] /\ pending = live /\ row = live
        /\ traces = {} /\ titling = {} /\ runtimes = [id \in Ids |-> 0]
        /\ calls = [c \in Callers |-> Idle]
        /\ created = {} /\ forgotten = {} /\ named = {} /\ raced = {} /\ faulty = {}
        /\ restarts = 0 /\ faults = 0

-----------------------------------------------------------------------------
\* SessionStore.upsert and remove read the whole file and write it back.  A
\* read that fails counts as an empty file, so upsert then drops the others.
Fails(ids) == faults < MaxFaults /\ faults' = faults + 1 /\ faulty' = faulty \cup ids
Works == UNCHANGED <<faults, faulty>>

\* MutantUpsert: the title is written without who chose it.
MutantUpsert(id, s) == /\ Works
                       /\ row' = [row EXCEPT ![id] = [Displayed(s) EXCEPT !.source = "auto"]]

Upsert(id, s) ==
    \/ Works /\ row' = [row EXCEPT ![id] = Displayed(s)]
    \/ Fails({id}) /\ row' = row
    \/ /\ Fails({i \in Ids \ {id} : row[i] # NoSession})
       /\ row' = [i \in Ids |-> IF i = id THEN Displayed(s) ELSE NoSession]

\* MutantForget: the transcript of a deleted session is left behind.
MutantForget(id) == /\ forgotten' = forgotten \cup {id}
                    /\ Works /\ row' = [row EXCEPT ![id] = NoSession] /\ traces' = traces

\* Each of the three stores is forgotten on its own; a failure is swallowed.
Forget(id) ==
    /\ forgotten' = forgotten \cup {id}
    /\ \/ Works /\ row' = [row EXCEPT ![id] = NoSession] /\ traces' = traces \ {id}
       \/ Fails({id}) /\ row' = row /\ traces' = traces \ {id}
       \/ Fails({id}) /\ row' = [row EXCEPT ![id] = NoSession] /\ traces' = traces

\* SessionStateStore.save, with the events flushed before it: an id has rows from then on.
Saved(ids) == traces' = traces \cup ids

-----------------------------------------------------------------------------
\* create_session registers nothing before its runtime is built.
Create(c, id) ==
    /\ up /\ calls[c] = Idle /\ id \notin created
    /\ ~Known(id) /\ BusyWith(id) = {} /\ row[id] = NoSession /\ id \notin forgotten
    /\ calls' = [calls EXCEPT ![c] = [op |-> "create", id |-> id, at |-> "building", record |-> Fresh]]
    /\ UNCHANGED <<up, live, pending, titling, runtimes, disk, history>>

Created(c) ==
    LET id == calls[c].id IN
    /\ calls[c].op = "create"
    /\ live' = [live EXCEPT ![id] = Fresh]
    /\ runtimes' = [runtimes EXCEPT ![id] = @ + 1]
    /\ created' = created \cup {id}
    /\ Upsert(id, Fresh) /\ Saved({id})
    /\ Return(c)
    /\ UNCHANGED <<up, pending, titling, forgotten, named, raced, restarts>>

\* session.rename and _remember run without a suspension in between.
Rename(id) == /\ live' = [live EXCEPT ![id] = [title |-> "manual", source |-> "manual"]]
              /\ Upsert(id, live'[id])
              /\ named' = named \cup {id}

\* get_session answers a live session at once: a rename then never waits.
RenameLive(c, id) ==
    /\ up /\ calls[c] = Idle /\ live[id] # NoSession
    /\ Rename(id)
    /\ UNCHANGED <<up, pending, titling, runtimes, calls, traces, created, forgotten, raced, restarts>>

\* MutantTakeRecord: the record is only looked at, so a second visitor rebuilds too.
MutantTakeRecord(c, op, id) ==
    /\ up /\ calls[c] = Idle /\ live[id] = NoSession /\ pending[id] # NoSession
    /\ calls' = [calls EXCEPT ![c] = [op |-> op, id |-> id, at |-> "building", record |-> pending[id]]]
    /\ UNCHANGED <<up, live, pending, titling, runtimes, disk, history>>

\* get_session on a recorded one takes the record out before it awaits create_runtime.
TakeRecord(c, op, id) ==
    /\ up /\ calls[c] = Idle /\ live[id] = NoSession /\ pending[id] # NoSession
    /\ pending' = [pending EXCEPT ![id] = NoSession]
    /\ calls' = [calls EXCEPT ![c] = [op |-> op, id |-> id, at |-> "building", record |-> pending[id]]]
    /\ UNCHANGED <<up, live, titling, runtimes, disk, history>>

\* The rebuilt session is published, then the pinned skills are awaited.
Rebuilt(c) ==
    LET id == calls[c].id IN
    /\ calls[c].at = "building" /\ calls[c].op \in {"open", "rename"}
    /\ live' = [live EXCEPT ![id] = calls[c].record]
    /\ runtimes' = [runtimes EXCEPT ![id] = @ + 1]
    /\ Goto(c, "skills")
    /\ UNCHANGED <<up, pending, titling, disk, history>>

\* create_runtime raised: a create answers 500, get_session answers None.
BuildFails(c) ==
    /\ calls[c].at = "building"
    /\ Return(c)
    /\ UNCHANGED <<up, live, pending, titling, runtimes, disk, history>>

\* The handler of a rename looks the session up again before it renames it.
Opened(c) ==
    LET id == calls[c].id IN
    /\ calls[c].at = "skills"
    /\ Return(c)
    /\ \/ calls[c].op = "rename" /\ live[id] # NoSession /\ Rename(id)
       \/ /\ calls[c].op = "open" \/ live[id] = NoSession
          /\ UNCHANGED <<live, row, named, faulty, faults>>
    /\ UNCHANGED <<up, pending, titling, runtimes, traces, created, forgotten, raced, restarts>>

-----------------------------------------------------------------------------
\* close_session of a live session takes it out first and closes it then.
StartClose(c, id) ==
    /\ up /\ calls[c] = Idle /\ live[id] # NoSession
    /\ live' = [live EXCEPT ![id] = NoSession]
    /\ calls' = [calls EXCEPT ![c] = [op |-> "delete", id |-> id, at |-> "closing", record |-> live[id]]]
    /\ UNCHANGED <<up, pending, titling, runtimes, disk, history>>

\* AgentSession.close: the buffered events are written, then the runtime is released.
CloseFlushed(c) ==
    /\ calls[c].at = "closing"
    /\ Saved({calls[c].id})
    /\ Goto(c, "releasing")
    /\ UNCHANGED <<up, live, pending, titling, runtimes, row, history>>

Closed(c) ==
    LET id == calls[c].id IN
    /\ calls[c].at = "releasing"
    /\ runtimes' = [runtimes EXCEPT ![id] = @ - 1]
    /\ Forget(id)
    /\ raced' = IF BusyWith(id) = {c} THEN raced ELSE raced \cup {id}
    /\ Return(c)
    /\ UNCHANGED <<up, live, pending, titling, created, named, restarts>>

\* close_session of one that is not live: the record goes, the answer is 404.
EraseRecord(c, id) ==
    /\ up /\ calls[c] = Idle /\ live[id] = NoSession
    /\ pending' = [pending EXCEPT ![id] = NoSession]
    /\ Forget(id)
    /\ raced' = IF BusyWith(id) = {} THEN raced ELSE raced \cup {id}
    /\ UNCHANGED <<up, live, titling, runtimes, calls, created, named, restarts>>

-----------------------------------------------------------------------------
\* The first prompt of an untitled session derives a title and asks for a better one.
FirstPrompt(id) ==
    /\ live[id] # NoSession /\ live[id].title = "" /\ live[id].source # "manual"
    /\ live' = [live EXCEPT ![id].title = "auto"]
    /\ titling' = titling \cup {id}
    /\ UNCHANGED <<up, pending, runtimes, calls, disk, history>>

\* MutantTitleArrives: the generated title is taken whatever happened meanwhile.
MutantTitleArrives(id) ==
    /\ id \in titling /\ live[id] # NoSession
    /\ titling' = titling \ {id}
    /\ live' = [live EXCEPT ![id].title = "auto"]
    /\ UNCHANGED <<up, pending, runtimes, calls, disk, history>>

\* A manual rename during generation wins.
TitleArrives(id) ==
    /\ id \in titling /\ live[id] # NoSession
    /\ titling' = titling \ {id}
    /\ live' = IF live[id].source = "manual" THEN live ELSE [live EXCEPT ![id].title = "auto"]
    /\ UNCHANGED <<up, pending, runtimes, calls, disk, history>>

\* A live session writes its events and its working state as it runs.
Flush(id) ==
    /\ live[id] # NoSession /\ id \notin traces
    /\ Saved({id})
    /\ UNCHANGED <<memory, row, history>>

\* All memory goes; what is on disk is what the next process starts from.
Gone == /\ up' = FALSE /\ restarts' = restarts + 1
        /\ live' = [id \in Ids |-> NoSession] /\ pending' = live'
        /\ runtimes' = [id \in Ids |-> 0] /\ titling' = {}
        /\ calls' = [c \in Callers |-> Idle]
        /\ UNCHANGED <<row, created, forgotten, named, raced, faulty, faults>>

Crash == /\ up /\ restarts < MaxRestarts
         /\ Gone /\ traces' = traces

\* close_all: every live session is closed, none is forgotten.
Shutdown == /\ up /\ restarts < MaxRestarts /\ \A c \in Callers : calls[c] = Idle
            /\ Gone /\ Saved({id \in Ids : live[id] # NoSession})

\* SessionManager.__init__: every record on disk waits to be rebuilt.
Boot == /\ ~up /\ up' = TRUE
        /\ pending' = row
        /\ UNCHANGED <<live, titling, runtimes, calls, disk, history>>

Next == \/ \E c \in Callers :
              \/ \E id \in Ids : \/ Create(c, id) \/ RenameLive(c, id)
                                 \/ StartClose(c, id) \/ EraseRecord(c, id)
                                 \/ \E op \in {"open", "rename"} : TakeRecord(c, op, id)
              \/ Created(c) \/ Rebuilt(c) \/ BuildFails(c) \/ Opened(c) \/ CloseFlushed(c) \/ Closed(c)
        \/ \E id \in Ids : FirstPrompt(id) \/ TitleArrives(id) \/ Flush(id)
        \/ Crash \/ Shutdown \/ Boot

Spec == Init /\ [][Next]_registryVars

-----------------------------------------------------------------------------
\* An id has at most one open runtime, however many requests meet while it is
\* rebuilt, and that runtime is always in reach: in _sessions, where DELETE and
\* shutdown find it, or held by the one call that closes it (get_session,
\* close_session).  Two rebuilds of one record would leave the first one open
\* for ever, with its MCP processes and its database handle.
RuntimeIsReachable ==
    \A id \in Ids :
        /\ runtimes[id] <= 1
        /\ runtimes[id] = 1 <=> \/ live[id] # NoSession
                                \/ \E c \in BusyWith(id) : calls[c].at \in {"closing", "releasing"}

\* What a DELETE erased stays erased, in memory, on disk and over restarts,
\* unless another request was at work on the same session or a store failed.
DeletedStaysDeleted ==
    \A id \in forgotten \ (raced \cup faulty) :
        ~Known(id) /\ BusyWith(id) = {} /\ row[id] = NoSession /\ id \notin traces

\* A created session is on disk until it is erased, and a manual title is final:
\* no generated title, rebuild or restart takes it away again.
RecordIsDurable ==
    \A id \in created \ (forgotten \cup faulty) :
        /\ row[id] # NoSession
        /\ id \in named => /\ row[id] = [title |-> "manual", source |-> "manual"]
                           /\ live[id] \in {NoSession, row[id]} /\ pending[id] \in {NoSession, row[id]}

\* "The record is deliberately kept: a transient failure must not silently
\* destroy a user's session entry" (get_session): while the server runs, a
\* session that nobody deletes is known, or being rebuilt.
RecordKept ==
    up => \A id \in created \ (forgotten \cup faulty) : Known(id) \/ BusyWith(id) # {}
=============================================================================
