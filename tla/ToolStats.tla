----------------------------- MODULE ToolStats -----------------------------
(***************************************************************************)
(* The usage statistics of tools and approvals. A session counts what its  *)
(* event bus shows it (ToolStats.observe) and hands its counters to a      *)
(* durable store, keyed by session and tool, at the end of every run and   *)
(* when it is closed (flush); the store adds them to the session's rows.   *)
(* A write that fails is swallowed. Counters live as long as the session   *)
(* object: a restart rebuilds a recorded session with counters of zero,    *)
(* and the history sums the rows of all sessions there ever were.          *)
(*                                                                         *)
(* Durations and names of error codes are left out; `explained` stands for *)
(* the sum of the dictionary error_codes.                                  *)
(***************************************************************************)
EXTENDS Naturals, Sequences, FiniteSets, Functions

CONSTANTS Sessions,     \* the ids of sessions
          Tools,        \* the names of tools
          MaxEvents,    \* bound: tool calls, refusals and approval requests
          MaxRuns,      \* bound: runs
          MaxFaults     \* bound: writes that fail, and crashes

VARIABLES phase,      \* each session: "none", "idle", "running", "recorded", "deleted"
          usage,      \* its counters of each tool (ToolUsage)
          approval,   \* and of its approvals (ApprovalUsage)
          open,       \* the calls its run has started, innermost last
          waiting,    \* a request for approval waits
          late,       \* denials whose ApprovalResolved is still to be handled
          rows,       \* the store: the row of each session and tool
          decisions,  \* the store: each session's row of approvals
          ended,      \* what its id counted in earlier processes
          missed,     \* the rows a fault kept something from
          events, runs, faults

statsVars == <<phase, usage, approval, open, waiting, late, rows, decisions, ended,
               missed, events, runs, faults>>

Live == {s \in Sessions : phase[s] \in {"idle", "running"}}

NoRow == [calls |-> 0, successes |-> 0, errors |-> 0, explained |-> 0]
NoUsage == [calls |-> 0, running |-> 0, successes |-> 0, errors |-> 0, explained |-> 0]
NoApprovals == [requested |-> 0, allowed |-> 0, denied |-> 0, pending |-> FALSE]

Init ==
    /\ phase = [s \in Sessions |-> "none"]
    /\ usage = [s \in Sessions |-> [t \in Tools |-> NoUsage]]
    /\ approval = [s \in Sessions |-> NoApprovals]
    /\ open = [s \in Sessions |-> <<>>]
    /\ waiting = [s \in Sessions |-> FALSE]
    /\ late = [s \in Sessions |-> 0]
    /\ rows = [s \in Sessions |-> [t \in Tools |-> NoRow]]
    /\ decisions = [s \in Sessions |-> [requested |-> 0, allowed |-> 0, denied |-> 0]]
    /\ ended = [s \in Sessions |-> [t \in Tools |-> NoRow]]
    /\ missed = {}
    /\ events = 0 /\ runs = 0 /\ faults = 0

-----------------------------------------------------------------------------
(* What is counted: ToolStats.observe *)

Started(u) == [u EXCEPT !.calls = @ + 1, !.running = @ + 1]

\* A call of a run that was cancelled stays `running`: nothing finishes it. A refused
\* call is finished without having been started.
Finished(u, ok) ==
    LET settled == [u EXCEPT !.running = IF @ = 0 THEN 0 ELSE @ - 1] IN
    IF ok THEN [settled EXCEPT !.successes = @ + 1]
    ELSE [settled EXCEPT !.errors = @ + 1, !.explained = @ + 1]

Count(s, t, counted) == usage' = [usage EXCEPT ![s][t] = counted]

Asked(a) == [a EXCEPT !.requested = @ + 1, !.pending = TRUE]
Resolved(a, approved) ==
    IF approved THEN [a EXCEPT !.allowed = @ + 1, !.pending = FALSE]
    ELSE [a EXCEPT !.denied = @ + 1, !.pending = FALSE]

Occurs == events < MaxEvents /\ events' = events + 1
storeVars == <<rows, decisions, ended, missed, faults>>

\* A subagent's calls appear on the session's bus within the call that started it.
ToolStarted(s, t) ==
    /\ phase[s] = "running" /\ ~waiting[s] /\ Len(open[s]) < 2 /\ Occurs
    /\ open' = [open EXCEPT ![s] = Append(@, t)]
    /\ Count(s, t, Started(usage[s][t]))
    /\ UNCHANGED <<phase, approval, waiting, late, runs, storeVars>>

ToolFinished(s, ok) ==
    /\ phase[s] = "running" /\ ~waiting[s] /\ open[s] # <<>>
    /\ LET t == open[s][Len(open[s])] IN Count(s, t, Finished(usage[s][t], ok))
    /\ open' = [open EXCEPT ![s] = SubSeq(@, 1, Len(@) - 1)]
    /\ UNCHANGED <<phase, approval, waiting, late, events, runs, storeVars>>

\* The call that failed too often is answered for, not executed.
ToolRefused(s, t) ==
    /\ phase[s] = "running" /\ ~waiting[s] /\ Len(open[s]) < 2 /\ Occurs
    /\ Count(s, t, Finished(usage[s][t], FALSE))
    /\ UNCHANGED <<phase, approval, open, waiting, late, runs, storeVars>>

ApprovalRequested(s) ==
    /\ phase[s] = "running" /\ ~waiting[s] /\ open[s] # <<>> /\ Occurs
    /\ waiting' = [waiting EXCEPT ![s] = TRUE]
    /\ approval' = [approval EXCEPT ![s] = Asked(@)]
    /\ UNCHANGED <<phase, usage, open, late, runs, storeVars>>

ApprovalResolved(s, approved) ==
    /\ phase[s] = "running" /\ waiting[s]
    /\ waiting' = [waiting EXCEPT ![s] = FALSE]
    /\ approval' = [approval EXCEPT ![s] = Resolved(@, approved)]
    /\ UNCHANGED <<phase, usage, open, late, events, runs, storeVars>>

\* The denial that ended a run is published by a task of its own.
LateDenial(s) ==
    /\ s \in Live /\ late[s] > 0
    /\ late' = [late EXCEPT ![s] = @ - 1]
    /\ approval' = [approval EXCEPT ![s] = Resolved(@, FALSE)]
    /\ UNCHANGED <<phase, usage, open, waiting, events, runs, storeVars>>

-----------------------------------------------------------------------------
(* What is written: ToolStats.flush, ToolStatsStore *)

Records == Tools \union {"approvals"}

\* MutantAdded: the upsert replaces the counts.
MutantAdded(row, u) ==
    [calls |-> u.calls, successes |-> u.successes, errors |-> u.errors,
     explained |-> u.explained]

\* record_tool_delta: the row's counts grow by what is handed over; the error codes
\* are those handed over.
Added(row, u) ==
    [calls |-> row.calls + u.calls, successes |-> row.successes + u.successes,
     errors |-> row.errors + u.errors, explained |-> u.explained]

\* record_approval_delta
AddedApprovals(row, a) ==
    [requested |-> row.requested + a.requested, allowed |-> row.allowed + a.allowed,
     denied |-> row.denied + a.denied]

\* MutantCounted: a tool with a call that never finished is not written.
MutantCounted(u) == u.calls + u.errors > 0 /\ u.running = 0

\* flush hands over every tool the session has counted; record_tool passes the
\* counters as they are. `broken` are the writes the database refuses.
Counted(u) == u.calls + u.errors > 0
FlushedRows(s, stored, broken) ==
    [t \in Tools |->
        IF Counted(usage[s][t]) /\ t \notin broken
        THEN Added(stored[t], usage[s][t])
        ELSE stored[t]]
FlushedApprovals(s, stored, broken) ==
    IF "approvals" \in broken THEN stored ELSE AddedApprovals(stored, approval[s])

Fails(lost) ==
    /\ Cardinality(lost) + faults <= MaxFaults
    /\ faults' = faults + Cardinality(lost)
    /\ missed' = missed \union lost

\* The calls a session's id has counted, in this process and before it.
Ever == [s \in Sessions |-> [t \in Tools |->
            [count \in DOMAIN NoRow |-> ended[s][t][count] + usage[s][t][count]]]]

-----------------------------------------------------------------------------
(* The life of a session *)

Create(s) ==
    /\ phase[s] = "none"
    /\ phase' = [phase EXCEPT ![s] = "idle"]
    /\ UNCHANGED <<usage, approval, open, waiting, late, events, runs, storeVars>>

Start(s) ==
    /\ phase[s] = "idle" /\ runs < MaxRuns
    /\ phase' = [phase EXCEPT ![s] = "running"]
    /\ runs' = runs + 1
    /\ UNCHANGED <<usage, approval, open, waiting, late, events, storeVars>>

\* However a run ends: a request that waits is denied, the counters are flushed.
EndRun(s) == \E broken \in SUBSET Records :
    /\ phase[s] = "running"
    /\ phase' = [phase EXCEPT ![s] = "idle"]
    /\ open' = [open EXCEPT ![s] = <<>>]
    /\ late' = [late EXCEPT ![s] = IF waiting[s] THEN @ + 1 ELSE @]
    /\ waiting' = [waiting EXCEPT ![s] = FALSE]
    /\ rows' = [rows EXCEPT ![s] = FlushedRows(s, @, broken)]
    /\ decisions' = [decisions EXCEPT ![s] = FlushedApprovals(s, @, broken)]
    /\ Fails({<<s, record>> : record \in broken})
    /\ UNCHANGED <<usage, approval, ended, events, runs>>

\* close: the run that is still going is cancelled and flushes as it ends, then close
\* flushes again. DELETE forgets the session, a shutdown keeps its record. The rows
\* stay either way: nothing calls ToolStatsStore.forget.
Closed(s, broken) ==
    LET once == FlushedRows(s, rows[s], broken)
        denied == FlushedApprovals(s, decisions[s], broken)
    IN IF phase[s] = "running"
       THEN <<FlushedRows(s, once, broken), FlushedApprovals(s, denied, broken)>>
       ELSE <<once, denied>>

Leaves(gone, last) ==
    /\ phase' = [s \in Sessions |-> IF s \in gone THEN last ELSE phase[s]]
    /\ usage' = [s \in Sessions |-> IF s \in gone THEN [t \in Tools |-> NoUsage]
                                    ELSE usage[s]]
    /\ approval' = [s \in Sessions |-> IF s \in gone THEN NoApprovals ELSE approval[s]]
    /\ open' = [s \in Sessions |-> IF s \in gone THEN <<>> ELSE open[s]]
    /\ waiting' = [s \in Sessions |-> s \notin gone /\ waiting[s]]
    /\ late' = [s \in Sessions |-> IF s \in gone THEN 0 ELSE late[s]]
    /\ ended' = [s \in Sessions |-> IF s \in gone THEN Ever[s] ELSE ended[s]]

Close(s, last) == \E broken \in SUBSET Records :
    /\ s \in Live
    /\ rows' = [rows EXCEPT ![s] = Closed(s, broken)[1]]
    /\ decisions' = [decisions EXCEPT ![s] = Closed(s, broken)[2]]
    /\ Fails({<<s, record>> : record \in broken})
    /\ Leaves({s}, last)
    /\ UNCHANGED <<events, runs>>

\* The process dies: what was counted since the last flush is not written.
Crash ==
    /\ Live # {} /\ faults < MaxFaults
    /\ faults' = faults + 1
    /\ missed' = missed \union ({s \in Live : phase[s] = "running"} \X Records)
    /\ Leaves(Live, "recorded")
    /\ UNCHANGED <<rows, decisions, events, runs>>

\* A recorded session is rebuilt with fresh counters.
Rebuild(s) ==
    /\ phase[s] = "recorded"
    /\ phase' = [phase EXCEPT ![s] = "idle"]
    /\ UNCHANGED <<usage, approval, open, waiting, late, events, runs, storeVars>>

Next == \/ \E s \in Sessions, t \in Tools : ToolStarted(s, t) \/ ToolRefused(s, t)
        \/ \E s \in Sessions, yes \in BOOLEAN :
                ToolFinished(s, yes) \/ ApprovalResolved(s, yes)
        \/ \E s \in Sessions : ApprovalRequested(s) \/ LateDenial(s) \/ Create(s)
                               \/ Start(s) \/ EndRun(s) \/ Rebuild(s)
        \/ \E s \in Sessions, last \in {"recorded", "deleted"} : Close(s, last)
        \/ Crash

Spec == Init /\ [][Next]_statsVars

-----------------------------------------------------------------------------
(* What the statistics promise *)

\* tool_totals, total_tool_calls: the history sums every session's rows.
TotalCalls(stored) ==
    SumFunction([p \in Sessions \X Tools |-> stored[p[1]][p[2]].calls])
TotalErrors(stored) ==
    SumFunction([p \in Sessions \X Tools |-> stored[p[1]][p[2]].errors])

AtRest == \A s \in Sessions : phase[s] # "running"

\* Every call is counted: while no run is going, a row that lost no write holds at
\* least the calls, successes and errors its session counted, those of earlier
\* processes included, and at least the requests for approval of this one; if no row
\* lost one, so does the history ("these totals survive a restart even though the live
\* per-session counters do not", web/api/tools.py:435-436).
EveryCallIsCounted ==
    AtRest =>
        /\ \A s \in Sessions, t \in Tools :
              <<s, t>> \notin missed =>
                  /\ rows[s][t].calls >= Ever[s][t].calls
                  /\ rows[s][t].successes >= Ever[s][t].successes
                  /\ rows[s][t].errors >= Ever[s][t].errors
        /\ \A s \in Live : <<s, "approvals">> \notin missed =>
              decisions[s].requested >= approval[s].requested
        /\ missed = {} => /\ TotalCalls(rows) >= TotalCalls(Ever)
                          /\ TotalErrors(rows) >= TotalErrors(Ever)

\* No call is counted twice: the history never shows more calls than were made. The
\* code does not keep this: flush hands the counters since the session was built to an
\* upsert that adds, so the calls of a run are added again at the end of every later
\* run and at close.
NoCallIsCountedTwice ==
    AtRest => TotalCalls(rows) <= TotalCalls(Ever)

\* A request waits exactly when the counters say so. The code does not keep this: the
\* late denial of an ended run clears the flag of the next run's request.
PendingIsWaiting == \A s \in Live : waiting[s] => approval[s].pending

=============================================================================
