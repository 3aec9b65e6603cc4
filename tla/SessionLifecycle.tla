------------------------- MODULE SessionLifecycle -------------------------
(***************************************************************************)
(* One AgentSession (core/application/session.py) with its                 *)
(* ApprovalController (core/entities/models/approval.py), the run task     *)
(* _supervise, and the HTTP handlers that call into it, all on ONE asyncio *)
(* event loop.                                                             *)
(*                                                                         *)
(* asyncio runs callbacks from a FIFO ready queue, and a coroutine keeps   *)
(* the thread until it awaits something unfinished.  The queue is          *)
(* therefore modelled exactly (variable ready): a step of this             *)
(* specification is one callback, popped from the head, and whatever it    *)
(* schedules is appended at the tail.  What the outside world does (a      *)
(* request arrives, an LLM call or a tool completes) appends to the tail   *)
(* at any moment.  The order between a woken task and a task created right *)
(* after it matters for several properties below, so nothing is permuted.  *)
(***************************************************************************)
EXTENDS Naturals, Sequences, FiniteSets

CONSTANTS
    Callers,       \* tasks of the web layer that call session methods
    MaxRuns,       \* bound: run tasks launched in one behaviour
    MaxRequests    \* bound: approval requests raised in one behaviour

ASSUME BoundsAssumption ==
    /\ MaxRuns \in Nat
    /\ MaxRequests \in Nat

RunIds     == 1..MaxRuns
RequestIds == 1..MaxRequests
NoRun      == 0
NoRequest  == [id |-> 0, by |-> NoRun]

SessionState == {"idle", "running", "waiting_approval", "completed",
                 "cancelled", "error", "closed"}

(* Where a run task is suspended.                                          *)
(*   created    the task exists, its first step has not run                *)
(*   working    on I/O: an LLM call or a tool                              *)
(*   asking     on the future of ApprovalController.__call__               *)
(*   unwinding  on I/O of a cleanup, with a CancelledError in flight       *)
RunPc == {"unborn", "created", "working", "asking", "unwinding", "done"}

(* A call is a method and, for a decision, the approval id it names.       *)
Call(name)       == [name |-> name, id |-> 0]
Decision(v, i)   == [name |-> v, id |-> i]
Starts           == {Call("start"), Call("regenerate")}
Decisions        == {Decision(v, i) : v \in {"allow", "deny"}, i \in RequestIds}
Ops              == Starts \cup {Call("cancel"), Call("close")} \cup Decisions

(* Entries of the ready queue.                                             *)
RunHandle(r)      == [kind |-> "run",  run |-> r]
EmitHandle(i)     == [kind |-> "emit", id |-> i]
CallHandle(c, op) == [kind |-> "call", caller |-> c, op |-> op]
WakeHandle(c)     == [kind |-> "wake", caller |-> c]

Handles == {RunHandle(r) : r \in RunIds}
    \cup {EmitHandle(i) : i \in RequestIds}
    \cup {CallHandle(c, op) : c \in Callers, op \in Ops}
    \cup {WakeHandle(c) : c \in Callers}

VARIABLES
    state,      \* AgentSession.state
    lastError,  \* AgentSession._last_error is not empty
    runTask,    \* AgentSession._run_task: NoRun or the task it refers to
    launched,   \* run tasks created so far
    run,        \* where each run task is
    cancelReq,  \* a CancelledError is due at the next step of the task
    awaiting,   \* per run task: callers awaiting it, in registration order
    request,    \* ApprovalController._request/_future: id and the waiting run
    outcome,    \* per request: state of its future
    asked,      \* requests raised so far
    reported,   \* requests whose ApprovalResolved was published
    caller,     \* what each caller is doing
    released,   \* runtime.aclose() was reached
    absorbed,   \* history: a cancellation was lost in a cleanup (see Absorb)
    reopened,   \* history: a cancel() wrote over CLOSED (see CancelReturns)
    ready       \* the event loop's ready queue

history      == <<absorbed, reopened>>
sessionVars  == <<state, lastError, runTask, launched, released, history>>
approvalVars == <<request, outcome, asked, reported>>
vars == <<sessionVars, run, cancelReq, awaiting, approvalVars, caller, ready>>

TypeOK ==
    /\ state \in SessionState
    /\ lastError \in BOOLEAN
    /\ runTask \in RunIds \cup {NoRun}
    /\ launched \in 0..MaxRuns
    /\ run \in [RunIds -> RunPc]
    /\ cancelReq \in [RunIds -> BOOLEAN]
    /\ awaiting \in [RunIds -> Seq(Callers)]
    /\ request \in [id : RequestIds, by : RunIds] \cup {NoRequest}
    /\ outcome \in [RequestIds ->
                      {"unasked", "pending", "allowed", "denied"}]
    /\ asked \in 0..MaxRequests
    /\ reported \subseteq RequestIds
    /\ caller \in [Callers -> {"idle", "queued", "cancelling", "closing"}]
    /\ released \in BOOLEAN
    /\ absorbed \in BOOLEAN
    /\ reopened \in BOOLEAN
    /\ ready \in Seq(Handles)

Init ==
    /\ state = "idle"
    /\ lastError = FALSE
    /\ runTask = NoRun
    /\ launched = 0
    /\ run = [r \in RunIds |-> "unborn"]
    /\ cancelReq = [r \in RunIds |-> FALSE]
    /\ awaiting = [r \in RunIds |-> << >>]
    /\ request = NoRequest
    /\ outcome = [i \in RequestIds |-> "unasked"]
    /\ asked = 0
    /\ reported = {}
    /\ caller = [c \in Callers |-> "idle"]
    /\ released = FALSE
    /\ absorbed = FALSE
    /\ reopened = FALSE
    /\ ready = << >>

---------------------------------------------------------------------------
(* Helpers                                                                 *)

Live(r) == run[r] \notin {"unborn", "done"}

(* Mutant of Running: a task parked on an approval counts as idle.         *)
MutantRunning == runTask # NoRun /\ run[runTask] = "working"

(* AgentSession.running: _run_task is set and not done.                    *)
Running == runTask # NoRun /\ Live(runTask)

(* ApprovalController.active, and the future is not done yet.              *)
Active  == request # NoRequest
Pending == Active /\ outcome[request.id] = "pending"

Holds(q, h)  == \E i \in 1..Len(q) : q[i] = h
Scheduled(r) == Holds(ready, RunHandle(r))

(* What a callback h leaves in the queue before it schedules anything.     *)
AtHead(h) == ready # << >> /\ Head(ready) = h
Rest     == Tail(ready)

(* Mutant of Woken: the cancelled task is left to its own wakeup.          *)
MutantWoken(q, r) == q

(* Task.cancel() on a suspended task wakes it, unless it is due already.   *)
Woken(q, r) == IF Holds(q, RunHandle(r)) THEN q ELSE Append(q, RunHandle(r))

(* A task that ends wakes the callers awaiting it in registration order.   *)
WithWakes(q, r) ==
    q \o [i \in 1..Len(awaiting[r]) |-> WakeHandle(awaiting[r][i])]

(* Mutant of Resolving: the verdict is not announced.                      *)
MutantResolving(q) == Append(q, RunHandle(request.by))

(* ApprovalController._resolve: the result wakes the agent FIRST, then the *)
(* task that publishes ApprovalResolved is created behind it.              *)
Resolving(q) == q \o <<RunHandle(request.by), EmitHandle(request.id)>>

(* Mutants of AfterDeny and DeniedOutcome: cancel() sets the result itself, *)
(* and nobody publishes it; cancel() leaves the request to the task.       *)
MutantAfterDeny(q) == IF Pending THEN Append(q, RunHandle(request.by)) ELSE q
MutantDeniedOutcome == outcome

(* ApprovalController.cancel: deny whatever is pending.                    *)
AfterDeny(q) == IF Pending THEN Resolving(q) ELSE q

DeniedOutcome ==
    IF Pending THEN [outcome EXCEPT ![request.id] = "denied"] ELSE outcome

---------------------------------------------------------------------------
(* The outside world                                                       *)

(* A request for the session reaches the server: its handler is scheduled. *)
(* A decision names a request the client has been told about.              *)
Arrive(c, op) ==
    /\ caller[c] = "idle"
    /\ op.id <= asked
    /\ caller' = [caller EXCEPT ![c] = "queued"]
    /\ ready' = Append(ready, CallHandle(c, op))
    /\ UNCHANGED <<sessionVars, run, cancelReq, awaiting, approvalVars>>

(* The I/O a run is suspended on completes.                                *)
IoCompletes(r) ==
    /\ run[r] \in {"working", "unwinding"}
    /\ ~Scheduled(r)
    /\ ready' = Append(ready, RunHandle(r))
    /\ UNCHANGED <<sessionVars, run, cancelReq, awaiting, approvalVars, caller>>

---------------------------------------------------------------------------
(* Calls into the session                                                  *)

Return(c) == caller' = [caller EXCEPT ![c] = "idle"]

(* start_run, start_continue, start_regenerate, start_resume: past         *)
(* _require_idle, then _launch.                                            *)
Launch(c, op) ==
    /\ op \in Starts
    /\ AtHead(CallHandle(c, op))
    /\ state # "closed"
    /\ ~Running
    /\ launched < MaxRuns
    /\ state' = "running"
    /\ lastError' = FALSE
    /\ launched' = launched + 1
    /\ runTask' = launched + 1
    /\ run' = [run EXCEPT ![launched + 1] = "created"]
    /\ ready' = Append(Rest, RunHandle(launched + 1))
    /\ Return(c)
    /\ UNCHANGED <<released, history, cancelReq, awaiting, approvalVars>>

(* _require_idle raises; or start_regenerate finds no assistant turn to    *)
(* replace; or (bound) the behaviour has launched MaxRuns runs.            *)
Refuse(c, op) ==
    /\ op \in Starts
    /\ AtHead(CallHandle(c, op))
    /\ state = "closed" \/ Running \/ op.name = "regenerate" \/ launched = MaxRuns
    /\ ready' = Rest
    /\ Return(c)
    /\ UNCHANGED <<sessionVars, run, cancelReq, awaiting, approvalVars>>

(* cancel() with a live run: deny a pending approval, cancel the task,     *)
(* await it.                                                               *)
CancelRun(c) ==
    /\ AtHead(CallHandle(c, Call("cancel")))
    /\ Running
    /\ outcome' = DeniedOutcome
    /\ cancelReq' = [cancelReq EXCEPT ![runTask] = TRUE]
    /\ ready' = Woken(AfterDeny(Rest), runTask)
    /\ awaiting' = [awaiting EXCEPT ![runTask] = Append(@, c)]
    /\ caller' = [caller EXCEPT ![c] = "cancelling"]
    /\ UNCHANGED <<sessionVars, run, request, asked, reported>>

(* cancel() with no live run.                                              *)
CancelIdle(c) ==
    /\ AtHead(CallHandle(c, Call("cancel")))
    /\ ~Running
    /\ outcome' = DeniedOutcome
    /\ ready' = AfterDeny(Rest)
    /\ state' = IF state = "running" THEN "idle" ELSE state
    /\ Return(c)
    /\ UNCHANGED <<lastError, runTask, launched, released, history, run, cancelReq,
                   awaiting, request, asked, reported>>

(* Mutants of CancelReturns: it resets _run_task as close() does; it       *)
(* leaves the state to the task, which may never have entered _supervise.  *)
MutantCancelReturns(c) ==
    /\ AtHead(WakeHandle(c))
    /\ caller[c] = "cancelling"
    /\ state' = "cancelled"
    /\ reopened' = (reopened \/ state = "closed")
    /\ runTask' = NoRun
    /\ ready' = Rest
    /\ Return(c)
    /\ UNCHANGED <<lastError, launched, released, absorbed, run, cancelReq,
                   awaiting, approvalVars>>
MutantCancelReturnsSilently(c) ==
    /\ AtHead(WakeHandle(c))
    /\ caller[c] = "cancelling"
    /\ ready' = Rest
    /\ Return(c)
    /\ UNCHANGED <<sessionVars, run, cancelReq, awaiting, approvalVars>>

(* cancel() after the await: the task is done.                             *)
CancelReturns(c) ==
    /\ AtHead(WakeHandle(c))
    /\ caller[c] = "cancelling"
    /\ state' = "cancelled"
    /\ reopened' = (reopened \/ state = "closed")
    /\ ready' = Rest
    /\ Return(c)
    /\ UNCHANGED <<lastError, runTask, launched, released, absorbed, run, cancelReq,
                   awaiting, approvalVars>>

(* close() on a session that is closed already.                            *)
CloseAgain(c) ==
    /\ AtHead(CallHandle(c, Call("close")))
    /\ state = "closed"
    /\ ready' = Rest
    /\ Return(c)
    /\ UNCHANGED <<sessionVars, run, cancelReq, awaiting, approvalVars>>

(* Mutant of CloseRun: it denies and waits, and does not cancel the task.  *)
MutantCloseRun(c) ==
    /\ AtHead(CallHandle(c, Call("close")))
    /\ state # "closed"
    /\ Running
    /\ state' = "closed"
    /\ outcome' = DeniedOutcome
    /\ ready' = AfterDeny(Rest)
    /\ awaiting' = [awaiting EXCEPT ![runTask] = Append(@, c)]
    /\ caller' = [caller EXCEPT ![c] = "closing"]
    /\ UNCHANGED <<lastError, runTask, launched, released, history, run,
                   cancelReq, request, asked, reported>>

(* close() with a live run, up to the await.                               *)
CloseRun(c) ==
    /\ AtHead(CallHandle(c, Call("close")))
    /\ state # "closed"
    /\ Running
    /\ state' = "closed"
    /\ outcome' = DeniedOutcome
    /\ cancelReq' = [cancelReq EXCEPT ![runTask] = TRUE]
    /\ ready' = Woken(AfterDeny(Rest), runTask)
    /\ awaiting' = [awaiting EXCEPT ![runTask] = Append(@, c)]
    /\ caller' = [caller EXCEPT ![c] = "closing"]
    /\ UNCHANGED <<lastError, runTask, launched, released, history, run, request,
                   asked, reported>>

(* close() with no live run goes straight to runtime.aclose().             *)
CloseIdle(c) ==
    /\ AtHead(CallHandle(c, Call("close")))
    /\ state # "closed"
    /\ ~Running
    /\ state' = "closed"
    /\ outcome' = DeniedOutcome
    /\ ready' = AfterDeny(Rest)
    /\ runTask' = NoRun
    /\ released' = TRUE
    /\ Return(c)
    /\ UNCHANGED <<lastError, launched, history, run, cancelReq, awaiting, request,
                   asked, reported>>

(* close() after the await: forget the task and release the runtime.       *)
CloseReturns(c) ==
    /\ AtHead(WakeHandle(c))
    /\ caller[c] = "closing"
    /\ runTask' = NoRun
    /\ released' = TRUE
    /\ ready' = Rest
    /\ Return(c)
    /\ UNCHANGED <<state, lastError, launched, history, run, cancelReq, awaiting,
                   approvalVars>>

(* Mutant of Decide: the decision is taken for whatever is pending.        *)
MutantDecide(c, op) ==
    /\ AtHead(CallHandle(c, op))
    /\ Pending
    /\ outcome' = [outcome EXCEPT ![request.id] =
                      IF op.name = "allow" THEN "allowed" ELSE "denied"]
    /\ ready' = Resolving(Rest)
    /\ Return(c)
    /\ UNCHANGED <<sessionVars, run, cancelReq, awaiting, request, asked, reported>>

(* POST /approvals/{id}/allow|deny: _decide, then _resolve.                *)
Decide(c, op) ==
    /\ AtHead(CallHandle(c, op))
    /\ Pending
    /\ request.id = op.id
    /\ outcome' = [outcome EXCEPT ![op.id] = IF op.name = "allow" THEN "allowed" ELSE "denied"]
    /\ ready' = Resolving(Rest)
    /\ Return(c)
    /\ UNCHANGED <<sessionVars, run, cancelReq, awaiting, request, asked, reported>>

(* The decision is stale, or comes second: 409.                            *)
DecideStale(c, op) ==
    /\ AtHead(CallHandle(c, op))
    /\ ~(Pending /\ request.id = op.id)
    /\ ready' = Rest
    /\ Return(c)
    /\ UNCHANGED <<sessionVars, run, cancelReq, awaiting, approvalVars>>

(* The task created by _resolve: _on_approval_event(ApprovalResolved).     *)
EmitResolved(i) ==
    /\ AtHead(EmitHandle(i))
    /\ reported' = reported \cup {i}
    /\ state' = IF Running THEN "running" ELSE state
    /\ ready' = Rest
    /\ UNCHANGED <<lastError, runTask, launched, released, history, run, cancelReq,
                   awaiting, request, outcome, asked, caller>>

---------------------------------------------------------------------------
(* Steps of a run task                                                     *)

(* Mutant of Cleared: the finally clears nothing.                          *)
MutantClearedNothing(r) == request

(* A run that wakes from the approval future clears it in the finally of   *)
(* ApprovalController.__call__.                                            *)
Cleared(r) == IF run[r] = "asking" THEN NoRequest ELSE request

(* The task leaves _supervise: the finally block and the done callbacks.   *)
Ends(r) ==
    /\ run' = [run EXCEPT ![r] = "done"]
    /\ cancelReq' = [cancelReq EXCEPT ![r] = FALSE]
    /\ awaiting' = [awaiting EXCEPT ![r] = << >>]
    /\ ready' = WithWakes(Rest, r)

Steps(r) ==
    /\ AtHead(RunHandle(r))
    /\ ~cancelReq[r]
    /\ run[r] \in {"created", "working", "asking"}

(* The agent awaits an LLM call or a tool.                                 *)
Works(r) ==
    /\ Steps(r)
    /\ run' = [run EXCEPT ![r] = "working"]
    /\ request' = Cleared(r)
    /\ ready' = Rest
    /\ UNCHANGED <<sessionVars, cancelReq, awaiting, outcome, asked, reported, caller>>

(* The agent asks for an approval.  From "asking": a denied call is        *)
(* answered without any I/O, so the next call of the same response asks    *)
(* before the loop has run anything else.                                  *)
Asks(r) ==
    /\ Steps(r)
    /\ run[r] # "created"
    /\ Cleared(r) = NoRequest
    /\ asked < MaxRequests
    /\ asked' = asked + 1
    /\ request' = [id |-> asked + 1, by |-> r]
    /\ outcome' = [outcome EXCEPT ![asked + 1] = "pending"]
    /\ run' = [run EXCEPT ![r] = "asking"]
    /\ state' = "waiting_approval"
    /\ ready' = Rest
    /\ UNCHANGED <<lastError, runTask, launched, released, history, cancelReq,
                   awaiting, reported, caller>>

(* The agent returns an answer.  From "asking": the token ceiling is       *)
(* checked at the top of the loop, before the next LLM call.               *)
Finishes(r) ==
    /\ Steps(r)
    /\ run[r] # "created"
    /\ state' = IF state = "running" THEN "completed" ELSE state
    /\ runTask' = NoRun
    /\ request' = Cleared(r)
    /\ Ends(r)
    /\ UNCHANGED <<lastError, launched, released, history, outcome, asked,
                   reported, caller>>

(* The agent raises: RunFailed is published.                               *)
Fails(r) ==
    /\ Steps(r)
    /\ state' = "error"
    /\ lastError' = TRUE
    /\ runTask' = NoRun
    /\ request' = Cleared(r)
    /\ Ends(r)
    /\ UNCHANGED <<launched, released, history, outcome, asked,
                   reported, caller>>

(* A task cancelled before its first step never enters _supervise: its     *)
(* finally does not run, and _run_task keeps pointing at the done task.    *)
CancelledUnborn(r) ==
    /\ AtHead(RunHandle(r))
    /\ cancelReq[r]
    /\ run[r] = "created"
    /\ Ends(r)
    /\ UNCHANGED <<sessionVars, approvalVars, caller>>

(* A cleanup on the way out awaits (the model swap back in                 *)
(* ModelRuntimeManager.use, the closing of an HTTP response).              *)
Unwinds(r) ==
    /\ AtHead(RunHandle(r))
    /\ cancelReq[r]
    /\ run[r] \in {"working", "unwinding"}
    /\ run' = [run EXCEPT ![r] = "unwinding"]
    /\ cancelReq' = [cancelReq EXCEPT ![r] = FALSE]
    /\ ready' = Rest
    /\ UNCHANGED <<sessionVars, awaiting, approvalVars, caller>>

(* CancelledError reaches _supervise.                                      *)
EndsCancelled(r) ==
    /\ AtHead(RunHandle(r))
    /\ \/ cancelReq[r] /\ run[r] \in {"working", "asking", "unwinding"}
       \/ run[r] = "unwinding"
    /\ state' = IF state = "closed" THEN state ELSE "cancelled"
    /\ runTask' = NoRun
    /\ request' = Cleared(r)
    /\ Ends(r)
    /\ UNCHANGED <<lastError, launched, released, history, outcome, asked,
                   reported, caller>>

(* A cleanup that raises replaces the CancelledError: the unload in the    *)
(* finally of ModelRuntimeManager.use fails, SubagentManager reports a     *)
(* failed subagent (except Exception) and the parent run carries on.       *)
Absorb(r) ==
    /\ AtHead(RunHandle(r))
    /\ run[r] = "unwinding"
    /\ ~cancelReq[r]
    /\ run' = [run EXCEPT ![r] = "working"]
    /\ ready' = Rest
    /\ absorbed' = TRUE
    /\ UNCHANGED <<state, lastError, runTask, launched, released, reopened,
                   cancelReq, awaiting, approvalVars, caller>>

---------------------------------------------------------------------------

RunStep(r) ==
    \/ Works(r) \/ Asks(r) \/ Finishes(r) \/ Fails(r)
    \/ CancelledUnborn(r) \/ Unwinds(r) \/ EndsCancelled(r) \/ Absorb(r)

CallStep(c) ==
    \/ \E op \in Starts : Launch(c, op) \/ Refuse(c, op)
    \/ CancelRun(c) \/ CancelIdle(c) \/ CancelReturns(c)
    \/ CloseAgain(c) \/ CloseRun(c) \/ CloseIdle(c) \/ CloseReturns(c)
    \/ \E op \in Decisions : Decide(c, op) \/ DecideStale(c, op)

(* The loop runs the callback at the head of its queue.                    *)
LoopStep ==
    \/ \E r \in RunIds : RunStep(r)
    \/ \E c \in Callers : CallStep(c)
    \/ \E i \in RequestIds : EmitResolved(i)

Next ==
    \/ \E c \in Callers, op \in Ops : Arrive(c, op)
    \/ \E r \in RunIds : IoCompletes(r)
    \/ LoopStep

Spec == Init /\ [][Next]_vars

(* The loop never stops while its queue is not empty; every LLM call, tool *)
(* and cleanup ends, because each one carries a timeout.  Nothing is       *)
(* assumed of the callers: a decision may never come.                      *)
FairSpec ==
    /\ Spec
    /\ WF_vars(LoopStep)
    /\ \A r \in RunIds : WF_vars(IoCompletes(r))

---------------------------------------------------------------------------
(* Safety                                                                  *)

(* A session never runs two agents at once: every start passes             *)
(* _require_idle, which looks at _run_task only, so this rests on          *)
(* _run_task naming whatever task is alive.  It can fail where a cleanup   *)
(* swallowed a cancellation, or where a cancel() reopened a closed session *)
(* and a start got in before close() came back from its await.             *)
AtMostOneRun ==
    ~absorbed /\ ~reopened => \A r, s \in RunIds : Live(r) /\ Live(s) => r = s

(* A live run is the one _run_task names, so that cancel() and close() can *)
(* reach it.  close() resets _run_task after an await during which other   *)
(* callers ran, and the finally of _supervise resets it from the task.     *)
(* It says nothing once a cleanup swallowed a cancellation (Absorb), nor   *)
(* once a cancel() wrote over CLOSED (CancelReturns): a run started after  *)
(* that is forgotten by the close() that is still on its way out.          *)
LiveRunIsTracked ==
    ~absorbed /\ ~reopened => \A r \in RunIds : Live(r) => runTask = r

(* The controller's future is there exactly while a run is parked on it,   *)
(* so a second request never meets "Another approval request is already    *)
(* active", and a run that dies never leaves a request behind.             *)
RequestHasWaiter ==
    /\ Active => run[request.by] = "asking"
    /\ \A r \in RunIds : run[r] = "asking" => request.by = r

(* No wakeup is lost: a run that was decided, cancelled or just created is *)
(* in the ready queue, and a caller inside cancel() or close() waits for a *)
(* live run or is in the queue itself.                                     *)
NoLostWakeup ==
    /\ \A r \in RunIds :
          \/ run[r] = "created" \/ cancelReq[r]
          \/ run[r] = "asking" /\ ~Pending
          => Scheduled(r)
    /\ \A c \in Callers : caller[c] \in {"cancelling", "closing"} =>
          \/ Holds(ready, WakeHandle(c))
          \/ \E r \in RunIds : Live(r) /\ Holds(awaiting[r], c)

(* Every settled request is announced exactly once: its ApprovalResolved   *)
(* was published or its task is in the queue, never both and never twice.  *)
(* The approval card of a client is taken down by that event alone.        *)
SettledIsAnnounced ==
    \A i \in RequestIds :
        LET waiting == {n \in 1..Len(ready) : ready[n] = EmitHandle(i)} IN
        Cardinality(waiting) =
            IF outcome[i] \in {"allowed", "denied"} /\ i \notin reported
            THEN 1 ELSE 0

(* A session at rest does not claim to be running: whichever way the last  *)
(* run ended (an answer, an error, a cancellation before its first step),  *)
(* once no run is live, nothing is queued and no call is in progress, the  *)
(* state has left RUNNING.                                                 *)
AtRest == /\ ready = << >>
          /\ \A r \in RunIds : ~Live(r)
          /\ \A c \in Callers : caller[c] = "idle"
NotRunningAtRest == AtRest => state # "running"

(* What the session says of its runs is so: it can reach the one that      *)
(* lives, and does not claim one when none does.                           *)
RunsAreKnown == LiveRunIsTracked /\ NotRunningAtRest

(* A request is settled by the decision that names it, or by cancel() and  *)
(* close(), and the first one stands: no later or stale decision turns it. *)
DecisionsStand ==
    [][\A i \in RequestIds : outcome'[i] # outcome[i] =>
          \/ outcome[i] = "unasked" /\ outcome'[i] = "pending"
          \/ /\ outcome[i] = "pending"
             /\ \/ outcome'[i] = "denied"
                \/ \E c \in Callers :
                      Head(ready) = CallHandle(c, Decision("allow", i))]_vars

---------------------------------------------------------------------------
(* Liveness                                                                *)

(* Every call returns: cancel() and close() deny the pending approval and  *)
(* cancel the task, so neither waits for a decision that may never come.   *)
EveryCallReturns ==
    \A c \in Callers : caller[c] # "idle" ~> caller[c] = "idle" \/ absorbed

(* The controller inside the session keeps the promise of ApprovalGate:    *)
(* one request at a time, each settled once, no agent left parked on a     *)
(* settled request and no verdict left unannounced, in every interleaving  *)
(* of decisions, cancel(), close() and the end of the run.                 *)
Gate == INSTANCE ApprovalGate WITH
            open <- request.id, verdict <- outcome, announced <- reported
GateSafety   == Gate!Spec
GateLiveness == Gate!FairSpec

---------------------------------------------------------------------------
(* What the code's comments and tests say, and its interleavings break     *)

(* Neither cancel() nor close() leaves the agent parked: every call returns, *)
(* also when a cleanup failed on the way.                                  *)
CallsReturnRegardless ==
    \A c \in Callers : caller[c] # "idle" ~> caller[c] = "idle"

(* A closed session stays closed.                                          *)
ClosedIsFinal == [][state = "closed" => state' = "closed"]_vars

(* The state shown for a session that is executing a run nobody cancelled  *)
(* says so.                                                                *)
LiveRunIsShown ==
    \A r \in RunIds : run[r] \in {"created", "working"} /\ ~cancelReq[r]
                       => state \in {"running", "waiting_approval"}

(* While execution is blocked on a decision, the session shows it.         *)
PendingIsShown == Pending => state = "waiting_approval"

(* A session at rest does not wait for an approval.                        *)
NotWaitingAtRest == AtRest => state # "waiting_approval"
=============================================================================
