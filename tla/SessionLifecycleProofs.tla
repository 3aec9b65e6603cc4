----------------------- MODULE SessionLifecycleProofs -----------------------
(***************************************************************************)
(* Proofs about SessionLifecycle, for every set of callers and any number  *)
(* of runs and requests.                                                   *)
(***************************************************************************)
EXTENDS SessionLifecycle, FiniteSetTheorems, TLAPS

---------------------------------------------------------------------------
(* The ready queue                                                         *)

(* Everything the event loop is given to run is a handle.                  *)
LEMMA HandleTypes ==
    /\ \A r \in RunIds : RunHandle(r) \in Handles
    /\ \A i \in RequestIds : EmitHandle(i) \in Handles
    /\ \A c \in Callers, op \in Ops : CallHandle(c, op) \in Handles
    /\ \A c \in Callers : WakeHandle(c) \in Handles
BY DEF Handles

(* Popping the head and scheduling at the tail leave a queue of handles.   *)
LEMMA QueueTypes ==
    ASSUME NEW q \in Seq(Handles)
    PROVE  /\ q # << >> => Head(q) \in Handles /\ Tail(q) \in Seq(Handles)
           /\ \A h \in Handles : Append(q, h) \in Seq(Handles)
           /\ \A r \in RunIds : Woken(q, r) \in Seq(Handles)
<1>1. \A h \in Handles : Append(q, h) \in Seq(Handles)
  OBVIOUS
<1>2. \A r \in RunIds : Woken(q, r) \in Seq(Handles)
  BY <1>1, HandleTypes DEF Woken
<1> QED  BY <1>1, <1>2

(* A run that ends schedules handles for the callers that await it.        *)
LEMMA WakesType ==
    ASSUME TypeOK, NEW q \in Seq(Handles), NEW r \in RunIds
    PROVE  WithWakes(q, r) \in Seq(Handles)
<1>1. awaiting[r] \in Seq(Callers)
  BY DEF TypeOK
<1>2. \A i \in 1..Len(awaiting[r]) : WakeHandle(awaiting[r][i]) \in Handles
  BY <1>1, HandleTypes
<1>3. Len(awaiting[r]) \in Nat
  BY <1>1
<1>4. [i \in 1..Len(awaiting[r]) |-> WakeHandle(awaiting[r][i])] \in Seq(Handles)
  BY <1>2, <1>3
<1> QED  BY <1>4 DEF WithWakes

(* Resolving a pending request schedules its run and its announcement.     *)
LEMMA ResolvingType ==
    ASSUME TypeOK, NEW q \in Seq(Handles)
    PROVE  /\ Active => Resolving(q) \in Seq(Handles)
           /\ AfterDeny(q) \in Seq(Handles)
           /\ DeniedOutcome \in [RequestIds -> {"unasked", "pending", "allowed", "denied"}]
<1>1. ASSUME Active PROVE Resolving(q) \in Seq(Handles)
  <2>1. request.by \in RunIds /\ request.id \in RequestIds
    BY <1>1 DEF TypeOK, Active
  <2>2. RunHandle(request.by) \in Handles /\ EmitHandle(request.id) \in Handles
    BY <2>1, HandleTypes
  <2> QED  BY <2>2 DEF Resolving
<1>2. AfterDeny(q) \in Seq(Handles)
  BY <1>1 DEF AfterDeny, Pending
<1>3. DeniedOutcome \in [RequestIds -> {"unasked", "pending", "allowed", "denied"}]
  BY DEF DeniedOutcome, TypeOK
<1> QED  BY <1>1, <1>2, <1>3

---------------------------------------------------------------------------
(* Type correctness                                                        *)

(* Everything but the queue.                                               *)
StateTypes ==
    /\ state \in SessionState
    /\ lastError \in BOOLEAN
    /\ runTask \in RunIds \cup {NoRun}
    /\ launched \in 0..MaxRuns
    /\ run \in [RunIds -> RunPc]
    /\ cancelReq \in [RunIds -> BOOLEAN]
    /\ awaiting \in [RunIds -> Seq(Callers)]
    /\ request \in [id : RequestIds, by : RunIds] \cup {NoRequest}
    /\ outcome \in [RequestIds -> {"unasked", "pending", "allowed", "denied"}]
    /\ asked \in 0..MaxRequests
    /\ reported \subseteq RequestIds
    /\ caller \in [Callers -> {"idle", "queued", "cancelling", "closing"}]
    /\ released \in BOOLEAN
    /\ absorbed \in BOOLEAN
    /\ reopened \in BOOLEAN

(* TypeOK is the typing of the queue and of everything else.               *)
LEMMA TypeOKParts == TypeOK <=> StateTypes /\ ready \in Seq(Handles)
BY DEF TypeOK, StateTypes

(* The state of a fresh AgentSession is well typed.                        *)
LEMMA InitTypes == Init => TypeOK
<1> SUFFICES ASSUME Init PROVE TypeOK
  OBVIOUS
<1> USE BoundsAssumption DEF Init, RunIds, RequestIds, SessionState, RunPc, NoRun
<1>0. /\ lastError \in BOOLEAN /\ released \in BOOLEAN
      /\ absorbed \in BOOLEAN /\ reopened \in BOOLEAN
  BY Zenon
<1>1. /\ state \in SessionState
      /\ runTask \in RunIds \cup {NoRun} /\ launched \in 0..MaxRuns
      /\ asked \in 0..MaxRequests /\ reported \subseteq RequestIds
  OBVIOUS
<1>2. /\ run \in [RunIds -> RunPc] /\ cancelReq \in [RunIds -> BOOLEAN]
      /\ awaiting \in [RunIds -> Seq(Callers)]
      /\ outcome \in [RequestIds -> {"unasked", "pending", "allowed", "denied"}]
      /\ caller \in [Callers -> {"idle", "queued", "cancelling", "closing"}]
  OBVIOUS
<1>3. request \in [id : RequestIds, by : RunIds] \cup {NoRequest}
  OBVIOUS
<1>4. ready \in Seq(Handles)
  OBVIOUS
<1> QED  BY <1>0, <1>1, <1>2, <1>3, <1>4 DEF TypeOK

(* No step of the loop breaks the type of a variable but ready, which      *)
(* QueueStep takes care of.                                                *)
LEMMA StateTypesStep == TypeOK /\ Next => StateTypes'
<1> SUFFICES ASSUME TypeOK, Next PROVE StateTypes'
  OBVIOUS
<1> USE BoundsAssumption DEF TypeOK, StateTypes, SessionState, RunPc, sessionVars,
        history, approvalVars, RunIds, RequestIds, NoRun, NoRequest
<1>1. ASSUME NEW c \in Callers, NEW op \in Ops, Arrive(c, op) PROVE StateTypes'
  BY <1>1, ResolvingType DEF Arrive, Return, Running, Pending, Active
<1>2. ASSUME NEW c \in Callers, NEW op \in Ops, Launch(c, op) PROVE StateTypes'
  <2>1. launched + 1 \in RunIds /\ launched + 1 \in 0..MaxRuns
    BY <1>2 DEF Launch
  <2>2. /\ run' \in [RunIds -> RunPc] /\ runTask' \in RunIds
        /\ launched' \in 0..MaxRuns
    BY <1>2, <2>1 DEF Launch
  <2>3. caller' \in [Callers -> {"idle", "queued", "cancelling", "closing"}]
    BY <1>2 DEF Launch, Return
  <2> QED  BY <1>2, <2>2, <2>3 DEF Launch
<1>3. ASSUME NEW c \in Callers, NEW op \in Ops, Refuse(c, op) PROVE StateTypes'
  BY <1>3, ResolvingType DEF Refuse, Return, Running, Pending, Active
<1>4. ASSUME NEW c \in Callers, CancelRun(c) PROVE StateTypes'
  <2>1. runTask \in RunIds
    BY <1>4 DEF CancelRun, Running
  <2>2. Append(awaiting[runTask], c) \in Seq(Callers)
    BY <2>1
  <2>3. /\ awaiting' \in [RunIds -> Seq(Callers)]
        /\ cancelReq' \in [RunIds -> BOOLEAN]
    BY <1>4, <2>1, <2>2 DEF CancelRun
  <2>4. outcome' \in [RequestIds -> {"unasked", "pending", "allowed", "denied"}]
    BY <1>4, ResolvingType DEF CancelRun
  <2>5. caller' \in [Callers -> {"idle", "queued", "cancelling", "closing"}]
    BY <1>4 DEF CancelRun
  <2> QED  BY <1>4, <2>3, <2>4, <2>5 DEF CancelRun
<1>5. ASSUME NEW c \in Callers, CancelIdle(c) PROVE StateTypes'
  BY <1>5, ResolvingType DEF CancelIdle, Return, Running, Pending, Active
<1>6. ASSUME NEW c \in Callers, CancelReturns(c) PROVE StateTypes'
  BY <1>6, ResolvingType DEF CancelReturns, Return, Running, Pending, Active
<1>7. ASSUME NEW c \in Callers, CloseAgain(c) PROVE StateTypes'
  BY <1>7, ResolvingType DEF CloseAgain, Return, Running, Pending, Active
<1>8. ASSUME NEW c \in Callers, CloseRun(c) PROVE StateTypes'
  <2>1. runTask \in RunIds
    BY <1>8 DEF CloseRun, Running
  <2>2. Append(awaiting[runTask], c) \in Seq(Callers)
    BY <2>1
  <2>3. /\ awaiting' \in [RunIds -> Seq(Callers)]
        /\ cancelReq' \in [RunIds -> BOOLEAN]
    BY <1>8, <2>1, <2>2 DEF CloseRun
  <2>4. outcome' \in [RequestIds -> {"unasked", "pending", "allowed", "denied"}]
    BY <1>8, ResolvingType DEF CloseRun
  <2>5. caller' \in [Callers -> {"idle", "queued", "cancelling", "closing"}]
    BY <1>8 DEF CloseRun
  <2> QED  BY <1>8, <2>3, <2>4, <2>5 DEF CloseRun
<1>9. ASSUME NEW c \in Callers, CloseIdle(c) PROVE StateTypes'
  BY <1>9, ResolvingType DEF CloseIdle, Return, Running, Pending, Active
<1>10. ASSUME NEW c \in Callers, CloseReturns(c) PROVE StateTypes'
  BY <1>10, ResolvingType DEF CloseReturns, Return, Running, Pending, Active
<1>11. ASSUME NEW c \in Callers, NEW op \in Ops, Decide(c, op) PROVE StateTypes'
  BY <1>11, ResolvingType DEF Decide, Return, Running, Pending, Active
<1>12. ASSUME NEW c \in Callers, NEW op \in Ops, DecideStale(c, op) PROVE StateTypes'
  BY <1>12, ResolvingType DEF DecideStale, Return, Running, Pending, Active
<1>13. ASSUME NEW r \in RunIds, IoCompletes(r) PROVE StateTypes'
  BY <1>13 DEF IoCompletes, Steps, Ends, Cleared
<1>14. ASSUME NEW r \in RunIds, Works(r) PROVE StateTypes'
  BY <1>14 DEF Works, Steps, Ends, Cleared
<1>15. ASSUME NEW r \in RunIds, Asks(r) PROVE StateTypes'
  BY <1>15 DEF Asks, Steps, Ends, Cleared
<1>16. ASSUME NEW r \in RunIds, Finishes(r) PROVE StateTypes'
  BY <1>16 DEF Finishes, Steps, Ends, Cleared
<1>17. ASSUME NEW r \in RunIds, Fails(r) PROVE StateTypes'
  BY <1>17 DEF Fails, Steps, Ends, Cleared
<1>18. ASSUME NEW r \in RunIds, CancelledUnborn(r) PROVE StateTypes'
  BY <1>18 DEF CancelledUnborn, Steps, Ends, Cleared
<1>19. ASSUME NEW r \in RunIds, Unwinds(r) PROVE StateTypes'
  BY <1>19 DEF Unwinds, Steps, Ends, Cleared
<1>20. ASSUME NEW r \in RunIds, EndsCancelled(r) PROVE StateTypes'
  BY <1>20 DEF EndsCancelled, Steps, Ends, Cleared
<1>21. ASSUME NEW r \in RunIds, Absorb(r) PROVE StateTypes'
  BY <1>21 DEF Absorb, Steps, Ends, Cleared
<1>22. ASSUME NEW i \in RequestIds, EmitResolved(i) PROVE StateTypes'
  BY <1>22 DEF EmitResolved
<1> HIDE DEF TypeOK, StateTypes, SessionState, RunPc, sessionVars, history, approvalVars,
             RunIds, RequestIds, NoRun, NoRequest
<1>23. ASSUME NEW r \in RunIds, RunStep(r) PROVE StateTypes'
  BY <1>14, <1>15, <1>16, <1>17, <1>18, <1>19, <1>20, <1>21, <1>23 DEF RunStep
<1>24. ASSUME NEW c \in Callers, CallStep(c) PROVE StateTypes'
  <2>1. Starts \subseteq Ops /\ Decisions \subseteq Ops
    BY DEF Ops
  <2> QED  BY <1>2, <1>3, <1>4, <1>5, <1>6, <1>7, <1>8, <1>9, <1>10, <1>11, <1>12, <1>24, <2>1
              DEF CallStep
<1> QED  BY <1>1, <1>13, <1>22, <1>23, <1>24 DEF Next, LoopStep

(* What a step leaves of the queue and adds to it are handles.             *)
LEMMA QueueStep == TypeOK /\ Next => ready' \in Seq(Handles)
<1> SUFFICES ASSUME TypeOK, Next PROVE ready' \in Seq(Handles)
  OBVIOUS
<1>0. ready \in Seq(Handles)
  BY DEF TypeOK
<1>1. ready # << >> => Rest \in Seq(Handles)
  BY <1>0, QueueTypes DEF Rest
<1>2. ASSUME NEW c \in Callers, NEW op \in Ops, Arrive(c, op)
      PROVE  ready' \in Seq(Handles)
  BY <1>0, <1>2, HandleTypes DEF Arrive
<1>3. ASSUME NEW c \in Callers, NEW op \in Ops, Launch(c, op)
      PROVE  ready' \in Seq(Handles)
  <2>1. RunHandle(launched + 1) \in Handles
    BY <1>3, HandleTypes, BoundsAssumption DEF Launch, TypeOK, RunIds
  <2> QED  BY <1>1, <1>3, <2>1 DEF Launch, AtHead
<1>4. ASSUME NEW c \in Callers, CancelRun(c) \/ CloseRun(c)
      PROVE  ready' \in Seq(Handles)
  <2>1. runTask \in RunIds
    BY <1>4 DEF CancelRun, CloseRun, Running, TypeOK
  <2>2. AfterDeny(Rest) \in Seq(Handles)
    BY <1>1, <1>4, ResolvingType DEF CancelRun, CloseRun, AtHead
  <2> QED  BY <1>4, <2>1, <2>2, QueueTypes DEF CancelRun, CloseRun
<1>5. ASSUME NEW c \in Callers, CancelIdle(c) \/ CloseIdle(c)
      PROVE  ready' \in Seq(Handles)
  BY <1>1, <1>5, ResolvingType DEF CancelIdle, CloseIdle, AtHead
<1>6. ASSUME NEW c \in Callers, NEW op \in Ops, Decide(c, op)
      PROVE  ready' \in Seq(Handles)
  BY <1>1, <1>6, ResolvingType DEF Decide, AtHead, Pending
<1>7. ASSUME NEW c \in Callers, NEW op \in Ops,
             \/ Refuse(c, op) \/ DecideStale(c, op) \/ CancelReturns(c)
             \/ CloseAgain(c) \/ CloseReturns(c)
      PROVE  ready' \in Seq(Handles)
  BY <1>1, <1>7 DEF Refuse, DecideStale, CancelReturns, CloseAgain,
                    CloseReturns, AtHead
<1>8. ASSUME NEW i \in RequestIds, EmitResolved(i)
      PROVE  ready' \in Seq(Handles)
  BY <1>1, <1>8 DEF EmitResolved, AtHead
<1>9. ASSUME NEW r \in RunIds, IoCompletes(r)
      PROVE  ready' \in Seq(Handles)
  BY <1>0, <1>9, HandleTypes DEF IoCompletes
<1>10. ASSUME NEW r \in RunIds, Works(r) \/ Asks(r) \/ Unwinds(r) \/ Absorb(r)
       PROVE  ready' \in Seq(Handles)
  BY <1>1, <1>10 DEF Works, Asks, Unwinds, Absorb, Steps, AtHead
<1>11. ASSUME NEW r \in RunIds,
              Finishes(r) \/ Fails(r) \/ CancelledUnborn(r) \/ EndsCancelled(r)
       PROVE  ready' \in Seq(Handles)
  BY <1>1, <1>11, WakesType DEF Finishes, Fails, CancelledUnborn, EndsCancelled,
                                Ends, Steps, AtHead
<1>12. Call("cancel") \in Ops
  BY DEF Ops
<1> QED
  BY <1>2, <1>3, <1>4, <1>5, <1>6, <1>7, <1>8, <1>9, <1>10, <1>11, <1>12
  DEF Next, LoopStep, RunStep, CallStep, Ops

(* TypeOK is inductive.                                                    *)
LEMMA TypeOKStep == TypeOK /\ [Next]_vars => TypeOK'
<1>1. TypeOK /\ UNCHANGED vars => TypeOK'
  BY DEF TypeOK, vars, sessionVars, history, approvalVars
<1>2. TypeOK /\ Next => TypeOK'
  <2>1. StateTypes' /\ (ready \in Seq(Handles))' => TypeOK'
    BY DEF StateTypes, TypeOK
  <2> QED  BY <2>1, StateTypesStep, QueueStep
<1> QED  BY <1>1, <1>2

(* Every variable of the session keeps its type; in particular the queue   *)
(* holds callbacks only, and _run_task and the approval request always     *)
(* name a task and a request that exist.                                   *)
THEOREM Typing == Spec => []TypeOK
BY InitTypes, TypeOKStep, PTL DEF Spec

---------------------------------------------------------------------------
(* Requests and the runs that wait for them                                *)

(* Identifiers not handed out yet are unused.                              *)
Fresh ==
    /\ \A r \in RunIds : r > launched => run[r] = "unborn"
    /\ \A i \in RequestIds : i > asked => outcome[i] = "unasked"

RequestInv == TypeOK /\ Fresh /\ RequestHasWaiter

(* A fresh session has no request and no run that waits for one.           *)
LEMMA InitRequestInv == Init => RequestInv
<1> SUFFICES ASSUME Init PROVE RequestInv
  OBVIOUS
<1>1. TypeOK
  BY InitTypes
<1>2. Fresh
  BY DEF Init, Fresh
<1>3. RequestHasWaiter
  BY DEF Init, RequestHasWaiter, Active
<1> QED  BY <1>1, <1>2, <1>3 DEF RequestInv

(* Which actions touch the requests, and how.                              *)
LEMMA OutcomeSteps ==
    ASSUME TypeOK, Next
    PROVE  \/ UNCHANGED <<outcome, asked>>
           \/ /\ asked + 1 \in RequestIds /\ asked' = asked + 1
              /\ outcome' = [outcome EXCEPT ![asked + 1] = "pending"]
           \/ /\ Pending /\ UNCHANGED asked
              /\ outcome' = [outcome EXCEPT ![request.id] = "denied"]
           \/ /\ Pending /\ UNCHANGED asked
              /\ \E c \in Callers : Head(ready) = CallHandle(c, Decision("allow", request.id))
              /\ outcome' = [outcome EXCEPT ![request.id] = "allowed"]
<1> USE DEF sessionVars, history, approvalVars
<1>1. ASSUME NEW c \in Callers, NEW op \in Ops,
             \/ Arrive(c, op) \/ Launch(c, op) \/ Refuse(c, op)
             \/ DecideStale(c, op) \/ CancelReturns(c) \/ CloseAgain(c)
             \/ CloseReturns(c)
      PROVE  UNCHANGED <<outcome, asked>>
  BY <1>1 DEF Arrive, Launch, Refuse, DecideStale, CancelReturns, CloseAgain,
              CloseReturns
<1>2. ASSUME NEW c \in Callers,
             CancelRun(c) \/ CancelIdle(c) \/ CloseRun(c) \/ CloseIdle(c)
      PROVE  \/ UNCHANGED <<outcome, asked>>
             \/ /\ Pending /\ UNCHANGED asked
                /\ outcome' = [outcome EXCEPT ![request.id] = "denied"]
  BY <1>2 DEF CancelRun, CancelIdle, CloseRun, CloseIdle, DeniedOutcome
<1>3. ASSUME NEW c \in Callers, NEW op \in Decisions, Decide(c, op)
      PROVE  /\ Pending /\ UNCHANGED asked
             /\ \/ outcome' = [outcome EXCEPT ![request.id] = "denied"]
                \/ /\ Head(ready) = CallHandle(c, Decision("allow", request.id))
                   /\ outcome' = [outcome EXCEPT ![request.id] = "allowed"]
  <2>1. PICK v \in {"allow", "deny"}, i \in RequestIds : op = Decision(v, i)
    BY DEF Decisions
  <2>2. op.name = v /\ op.id = i
    BY <2>1 DEF Decision
  <2>3. /\ Pending /\ UNCHANGED asked /\ request.id = i
        /\ outcome' = [outcome EXCEPT ![i] = IF v = "allow" THEN "allowed" ELSE "denied"]
        /\ Head(ready) = CallHandle(c, op)
    BY <1>3, <2>2 DEF Decide, AtHead
  <2> QED  BY <2>1, <2>3
<1>4. ASSUME NEW r \in RunIds, Asks(r)
      PROVE  /\ asked + 1 \in RequestIds /\ asked' = asked + 1
             /\ outcome' = [outcome EXCEPT ![asked + 1] = "pending"]
  BY <1>4, BoundsAssumption DEF Asks, TypeOK, RequestIds
<1>5. ASSUME NEW r \in RunIds,
             \/ IoCompletes(r) \/ Works(r) \/ Finishes(r) \/ Fails(r)
             \/ CancelledUnborn(r) \/ Unwinds(r) \/ EndsCancelled(r) \/ Absorb(r)
      PROVE  UNCHANGED <<outcome, asked>>
  BY <1>5 DEF IoCompletes, Works, Finishes, Fails, CancelledUnborn, Unwinds,
              EndsCancelled, Absorb
<1>6. ASSUME NEW i \in RequestIds, EmitResolved(i)
      PROVE  UNCHANGED <<outcome, asked>>
  BY <1>6 DEF EmitResolved
<1>7. Call("cancel") \in Ops /\ Starts \subseteq Ops /\ Decisions \subseteq Ops
  BY DEF Ops
<1> QED  BY <1>1, <1>2, <1>3, <1>4, <1>5, <1>6, <1>7
         DEF Next, LoopStep, RunStep, CallStep

(* Which actions touch the runs and the request they wait for.             *)
LEMMA RunSteps ==
    ASSUME TypeOK, Next
    PROVE  \/ UNCHANGED <<run, request, launched>>
           \/ /\ launched + 1 \in RunIds /\ launched' = launched + 1
              /\ run' = [run EXCEPT ![launched + 1] = "created"]
              /\ UNCHANGED request
           \/ \E r \in RunIds :
                 /\ run[r] # "unborn" /\ UNCHANGED launched
                 /\ \/ \E pc \in {"working", "unwinding", "done"} :
                          /\ run' = [run EXCEPT ![r] = pc]
                          /\ request' = Cleared(r)
                    \/ /\ Cleared(r) = NoRequest
                       /\ run' = [run EXCEPT ![r] = "asking"]
                       /\ asked + 1 \in RequestIds
                       /\ request' = [id |-> asked + 1, by |-> r]
<1> USE DEF sessionVars, history, approvalVars
<1>1. ASSUME NEW c \in Callers, NEW op \in Ops, Launch(c, op)
      PROVE  /\ launched + 1 \in RunIds /\ launched' = launched + 1
             /\ run' = [run EXCEPT ![launched + 1] = "created"]
             /\ UNCHANGED request
  BY <1>1, BoundsAssumption DEF Launch, TypeOK, RunIds
<1>2. ASSUME NEW c \in Callers, NEW op \in Ops,
             \/ Arrive(c, op) \/ Refuse(c, op) \/ Decide(c, op)
             \/ DecideStale(c, op) \/ CancelRun(c) \/ CancelIdle(c)
             \/ CancelReturns(c) \/ CloseAgain(c) \/ CloseRun(c)
             \/ CloseIdle(c) \/ CloseReturns(c)
      PROVE  UNCHANGED <<run, request, launched>>
  BY <1>2 DEF Arrive, Refuse, Decide, DecideStale, CancelRun, CancelIdle,
              CancelReturns, CloseAgain, CloseRun, CloseIdle, CloseReturns
<1>3. ASSUME NEW r \in RunIds, Asks(r)
      PROVE  /\ run[r] # "unborn" /\ UNCHANGED launched
             /\ Cleared(r) = NoRequest
             /\ run' = [run EXCEPT ![r] = "asking"]
             /\ asked + 1 \in RequestIds
             /\ request' = [id |-> asked + 1, by |-> r]
  BY <1>3, BoundsAssumption DEF Asks, Steps, TypeOK, RequestIds
<1>4. ASSUME NEW r \in RunIds, Works(r) \/ Finishes(r) \/ Fails(r) \/ EndsCancelled(r)
      PROVE  /\ run[r] # "unborn" /\ UNCHANGED launched
             /\ \E pc \in {"working", "unwinding", "done"} : run' = [run EXCEPT ![r] = pc]
             /\ request' = Cleared(r)
  BY <1>4 DEF Works, Finishes, Fails, EndsCancelled, Steps, Ends
<1>5. ASSUME NEW r \in RunIds, CancelledUnborn(r) \/ Unwinds(r) \/ Absorb(r)
      PROVE  /\ run[r] # "unborn" /\ UNCHANGED launched
             /\ \E pc \in {"working", "unwinding", "done"} : run' = [run EXCEPT ![r] = pc]
             /\ request' = Cleared(r)
  BY <1>5 DEF CancelledUnborn, Unwinds, Absorb, Ends, Cleared
<1>6. ASSUME NEW r \in RunIds, IoCompletes(r)
      PROVE  UNCHANGED <<run, request, launched>>
  BY <1>6 DEF IoCompletes
<1>7. ASSUME NEW i \in RequestIds, EmitResolved(i)
      PROVE  UNCHANGED <<run, request, launched>>
  BY <1>7 DEF EmitResolved
<1>8. Call("cancel") \in Ops /\ Starts \subseteq Ops /\ Decisions \subseteq Ops
  BY DEF Ops
<1> QED  BY <1>1, <1>2, <1>3, <1>4, <1>5, <1>6, <1>7, <1>8
         DEF Next, LoopStep, RunStep, CallStep

(* The invariant about requests is inductive: the steps that park a run,   *)
(* wake it or end it are the ones OutcomeSteps and RunSteps single out.    *)
LEMMA RequestInvStep == RequestInv /\ [Next]_vars => RequestInv'
<1> SUFFICES ASSUME RequestInv, [Next]_vars PROVE Fresh' /\ RequestHasWaiter'
  <2>1. TypeOK /\ [Next]_vars => TypeOK'
    BY TypeOKStep
  <2> QED  BY <2>1 DEF RequestInv
<1>0. TypeOK /\ Fresh /\ RequestHasWaiter
  BY DEF RequestInv
<1>1. CASE UNCHANGED vars
  BY <1>0, <1>1 DEF vars, sessionVars, history, approvalVars, Fresh, RequestHasWaiter, Active
<1>2. CASE Next
  <2> USE <1>0
  <2>1. /\ launched \in Nat /\ asked \in Nat /\ RunIds \subseteq Nat \ {0}
        /\ RequestIds \subseteq Nat \ {0}
        /\ run \in [RunIds -> RunPc]
        /\ outcome \in [RequestIds -> {"unasked", "pending", "allowed", "denied"}]
        /\ Active => request.by \in RunIds /\ request.id \in RequestIds
    BY BoundsAssumption DEF TypeOK, RunIds, RequestIds, Active
  <2>2. \A i \in RequestIds : i > asked' => outcome'[i] = "unasked"
    <3>1. Pending => request.id \in RequestIds /\ outcome[request.id] = "pending"
      BY <2>1 DEF Pending
    <3>2. /\ asked' = asked \/ asked' = asked + 1
          /\ \A i \in RequestIds : i > asked' => outcome'[i] = outcome[i]
      <4>1. CASE UNCHANGED <<outcome, asked>>
        BY <4>1
      <4>2. CASE /\ asked + 1 \in RequestIds /\ asked' = asked + 1
                 /\ outcome' = [outcome EXCEPT ![asked + 1] = "pending"]
        BY <2>1, <4>2
      <4>3. ASSUME NEW v, Pending, UNCHANGED asked,
                   outcome' = [outcome EXCEPT ![request.id] = v]
            PROVE  \A i \in RequestIds : i > asked' => outcome'[i] = outcome[i]
        <5>1. ~(request.id > asked)
          BY <3>1, <4>3 DEF Fresh
        <5> QED  BY <2>1, <3>1, <4>3, <5>1
      <4> QED  BY <1>2, <4>1, <4>2, <4>3, OutcomeSteps
    <3> QED  BY <2>1, <3>2 DEF Fresh
  <2>3. (\A r \in RunIds : r > launched => run[r] = "unborn")' /\ RequestHasWaiter'
    <3>1. CASE UNCHANGED <<run, request, launched>>
      BY <3>1 DEF Fresh, RequestHasWaiter, Active
    <3>2. CASE /\ launched + 1 \in RunIds /\ launched' = launched + 1
               /\ run' = [run EXCEPT ![launched + 1] = "created"]
               /\ UNCHANGED request
      <4>1. run[launched + 1] = "unborn"
        BY <2>1, <3>2 DEF Fresh
      <4>2. \A r \in RunIds : (run'[r] = "asking") <=> (run[r] = "asking")
        BY <2>1, <3>2, <4>1
      <4>3. RequestHasWaiter'
        BY <2>1, <3>2, <4>2 DEF RequestHasWaiter, Active
      <4> QED  BY <2>1, <3>2, <4>3 DEF Fresh
    <3>3. ASSUME NEW r \in RunIds, run[r] # "unborn", UNCHANGED launched,
                 NEW pc, run' = [run EXCEPT ![r] = pc]
          PROVE  \A s \in RunIds : s > launched' => run'[s] = "unborn"
      <4>1. ~(r > launched)
        BY <3>3 DEF Fresh
      <4> QED  BY <2>1, <3>3, <4>1 DEF Fresh
    <3>4. ASSUME NEW r \in RunIds, NEW pc \in {"working", "unwinding", "done"},
                 run' = [run EXCEPT ![r] = pc], request' = Cleared(r)
          PROVE  RequestHasWaiter'
      <4>1. CASE run[r] = "asking"
        <5>1. \A s \in RunIds : run[s] = "asking" => s = r
          BY <4>1 DEF RequestHasWaiter
        <5>2. request' = NoRequest
          BY <3>4, <4>1 DEF Cleared
        <5> QED  BY <2>1, <3>4, <5>1, <5>2 DEF RequestHasWaiter, Active
      <4>2. CASE run[r] # "asking"
        <5>1. request' = request
          BY <3>4, <4>2 DEF Cleared
        <5>2. \A s \in RunIds : run'[s] = "asking" <=> run[s] = "asking"
          BY <2>1, <3>4, <4>2
        <5> QED  BY <2>1, <5>1, <5>2 DEF RequestHasWaiter, Active
      <4> QED  BY <4>1, <4>2
    <3>5. ASSUME NEW r \in RunIds, Cleared(r) = NoRequest,
                 run' = [run EXCEPT ![r] = "asking"], asked + 1 \in RequestIds,
                 request' = [id |-> asked + 1, by |-> r]
          PROVE  RequestHasWaiter'
      <4>1. \A s \in RunIds : run[s] = "asking" => s = r
        <5>1. CASE run[r] = "asking"
          BY <5>1 DEF RequestHasWaiter
        <5>2. CASE run[r] # "asking"
          <6>1. request = NoRequest
            BY <3>5, <5>2 DEF Cleared
          <6>2. \A s \in RunIds : run[s] # "asking"
            BY <2>1, <6>1 DEF RequestHasWaiter, NoRequest, NoRun
          <6> QED  BY <6>2
        <5> QED  BY <5>1, <5>2
      <4> QED  BY <2>1, <3>5, <4>1 DEF RequestHasWaiter, Active
    <3> QED  BY <1>2, <3>1, <3>2, <3>3, <3>4, <3>5, RunSteps
  <2> QED  BY <2>2, <2>3 DEF Fresh
<1> QED  BY <1>1, <1>2

(* A second approval request never meets a controller that is busy, and no *)
(* run that ends, however it ends, leaves a request behind it.             *)
THEOREM RequestsHaveWaiters == Spec => []RequestHasWaiter
<1>1. RequestInv => RequestHasWaiter
  BY DEF RequestInv
<1> QED  BY <1>1, InitRequestInv, RequestInvStep, PTL DEF Spec

(* The first decision on a request stands: a later or stale decision, a    *)
(* cancel() or a close() never turns it, and only an allow that names the  *)
(* request allows it.                                                      *)
THEOREM FirstDecisionStands == Spec => DecisionsStand
<1>1. ASSUME RequestInv, Next, NEW i \in RequestIds, outcome'[i] # outcome[i]
      PROVE  \/ outcome[i] = "unasked" /\ outcome'[i] = "pending"
             \/ /\ outcome[i] = "pending"
                /\ \/ outcome'[i] = "denied"
                   \/ \E c \in Callers :
                         Head(ready) = CallHandle(c, Decision("allow", i))
  <2>1. /\ TypeOK /\ Fresh /\ asked \in Nat
        /\ outcome \in [RequestIds -> {"unasked", "pending", "allowed", "denied"}]
    BY <1>1, BoundsAssumption DEF RequestInv, TypeOK
  <2>2. CASE /\ asked + 1 \in RequestIds
             /\ outcome' = [outcome EXCEPT ![asked + 1] = "pending"]
    BY <1>1, <2>1, <2>2 DEF Fresh
  <2>3. CASE Pending /\ outcome' = [outcome EXCEPT ![request.id] = "denied"]
    BY <1>1, <2>1, <2>3 DEF Pending
  <2>4. CASE /\ Pending
             /\ \E c \in Callers : Head(ready) = CallHandle(c, Decision("allow", request.id))
             /\ outcome' = [outcome EXCEPT ![request.id] = "allowed"]
    <3>1. i = request.id /\ outcome[i] = "pending"
      BY <1>1, <2>1, <2>4 DEF Pending
    <3> QED  BY <2>4, <3>1
  <2> QED  BY <1>1, <2>1, <2>2, <2>3, <2>4, OutcomeSteps
<1>2. ASSUME RequestInv, [Next]_vars
      PROVE  [\A i \in RequestIds : outcome'[i] # outcome[i] =>
                \/ outcome[i] = "unasked" /\ outcome'[i] = "pending"
                \/ /\ outcome[i] = "pending"
                   /\ \/ outcome'[i] = "denied"
                      \/ \E c \in Callers :
                            Head(ready) = CallHandle(c, Decision("allow", i))]_vars
  BY <1>1, <1>2
<1> QED  BY <1>2, InitRequestInv, RequestInvStep, PTL DEF Spec, DecisionsStand
---------------------------------------------------------------------------
(* What a queue holds                                                      *)

(* Two handles that may not both be queued: one callback twice, or two     *)
(* steps of one caller.                                                    *)
Same(g, h) ==
    \/ g = h
    \/ /\ g.kind \in {"call", "wake"} /\ h.kind \in {"call", "wake"}
       /\ g.caller = h.caller

Once(q)   == \A m, n \in 1..Len(q) : Same(q[m], q[n]) => m = n
New(q, h) == \A n \in 1..Len(q) : ~Same(q[n], h)

(* Handles are the same when they are equal or belong to one caller.       *)
LEMMA SameHandles ==
    /\ \A r \in RunIds, h \in Handles : Same(h, RunHandle(r)) <=> h = RunHandle(r)
    /\ \A i \in RequestIds, h \in Handles : Same(h, EmitHandle(i)) <=> h = EmitHandle(i)
    /\ \A c \in Callers, h \in Handles :
          Same(h, WakeHandle(c)) <=>
                h = WakeHandle(c) \/ \E op \in Ops : h = CallHandle(c, op)
    /\ \A c \in Callers, o \in Ops, h \in Handles :
          Same(h, CallHandle(c, o)) <=>
                h = WakeHandle(c) \/ \E op \in Ops : h = CallHandle(c, op)
    /\ \A g, h \in Handles : Same(g, h) => Same(h, g)
<1>1. /\ \A r : RunHandle(r).kind = "run" /\ RunHandle(r).run = r
      /\ \A i : EmitHandle(i).kind = "emit" /\ EmitHandle(i).id = i
      /\ \A c, op : /\ CallHandle(c, op).kind = "call"
                    /\ CallHandle(c, op).caller = c /\ CallHandle(c, op).op = op
      /\ \A c : WakeHandle(c).kind = "wake" /\ WakeHandle(c).caller = c
  BY DEF RunHandle, EmitHandle, CallHandle, WakeHandle
<1>2. ASSUME NEW h \in Handles
      PROVE  \/ \E r \in RunIds : h = RunHandle(r)
             \/ \E i \in RequestIds : h = EmitHandle(i)
             \/ \E c \in Callers, op \in Ops : h = CallHandle(c, op)
             \/ \E c \in Callers : h = WakeHandle(c)
  BY DEF Handles
<1>3. ASSUME NEW h \in Handles, h.kind \in {"call", "wake"}, NEW c, h.caller = c
      PROVE  h = WakeHandle(c) \/ \E op \in Ops : h = CallHandle(c, op)
  BY <1>1, <1>2, <1>3
<1>4. /\ \A c \in Callers, h \in Handles :
            Same(h, WakeHandle(c)) <=>
                h = WakeHandle(c) \/ \E op \in Ops : h = CallHandle(c, op)
      /\ \A c \in Callers, o \in Ops, h \in Handles :
            Same(h, CallHandle(c, o)) <=>
                h = WakeHandle(c) \/ \E op \in Ops : h = CallHandle(c, op)
  BY <1>1, <1>3 DEF Same
<1> QED  BY <1>1, <1>4 DEF Same

(* The four kinds of handle are told apart, and each names its task.       *)
LEMMA Distinct ==
    /\ \A r, s : RunHandle(r) = RunHandle(s) => r = s
    /\ \A i, j : EmitHandle(i) = EmitHandle(j) => i = j
    /\ \A c, d : WakeHandle(c) = WakeHandle(d) => c = d
    /\ \A c, d, op, o : CallHandle(c, op) = CallHandle(d, o) => c = d /\ op = o
    /\ \A r, i : RunHandle(r) # EmitHandle(i)
    /\ \A r, c : RunHandle(r) # WakeHandle(c)
    /\ \A r, c, op : RunHandle(r) # CallHandle(c, op)
    /\ \A i, c : EmitHandle(i) # WakeHandle(c)
    /\ \A i, c, op : EmitHandle(i) # CallHandle(c, op)
    /\ \A c, d, op : WakeHandle(c) # CallHandle(d, op)
<1>1. /\ \A r : RunHandle(r).kind = "run" /\ RunHandle(r).run = r
      /\ \A i : EmitHandle(i).kind = "emit" /\ EmitHandle(i).id = i
      /\ \A c, op : /\ CallHandle(c, op).kind = "call"
                    /\ CallHandle(c, op).caller = c /\ CallHandle(c, op).op = op
      /\ \A c : WakeHandle(c).kind = "wake" /\ WakeHandle(c).caller = c
  BY DEF RunHandle, EmitHandle, CallHandle, WakeHandle
<1>2. "run" # "emit" /\ "run" # "wake" /\ "run" # "call"
  OBVIOUS
<1>3. "emit" # "wake" /\ "emit" # "call" /\ "wake" # "call"
  OBVIOUS
<1> QED  BY <1>1, <1>2, <1>3

(* Popping the head takes that handle away, and no other.                  *)
LEMMA PopQueue ==
    ASSUME NEW q \in Seq(Handles), q # << >>
    PROVE  /\ Tail(q) \in Seq(Handles) /\ Head(q) \in Handles
           /\ Len(q) \in Nat \ {0} /\ Len(Tail(q)) = Len(q) - 1 /\ Head(q) = q[1]
           /\ \A n \in 1..Len(Tail(q)) : Tail(q)[n] = q[n + 1]
           /\ \A g : Holds(q, g) <=> g = Head(q) \/ Holds(Tail(q), g)
           /\ Once(q) => Once(Tail(q)) /\ New(Tail(q), Head(q))
<1>1. /\ Tail(q) \in Seq(Handles) /\ Head(q) \in Handles /\ Head(q) = q[1]
      /\ Len(q) \in Nat \ {0} /\ Len(Tail(q)) = Len(q) - 1
      /\ \A n \in 1..Len(Tail(q)) : Tail(q)[n] = q[n + 1]
  OBVIOUS
<1>2. ASSUME NEW g, Holds(q, g) PROVE g = Head(q) \/ Holds(Tail(q), g)
  <2>1. PICK n \in 1..Len(q) : q[n] = g
    BY <1>2 DEF Holds
  <2>2. CASE n = 1
    BY <1>1, <2>1, <2>2
  <2>3. CASE n # 1
    <3>1. n - 1 \in 1..Len(Tail(q)) /\ Tail(q)[n - 1] = q[n]
      BY <1>1, <2>1, <2>3
    <3> QED  BY <2>1, <3>1 DEF Holds
  <2> QED  BY <2>2, <2>3
<1>3. ASSUME NEW g, g = Head(q) \/ Holds(Tail(q), g) PROVE Holds(q, g)
  <2>1. CASE g = Head(q)
    BY <1>1, <2>1 DEF Holds
  <2>2. CASE Holds(Tail(q), g)
    <3>1. PICK n \in 1..Len(Tail(q)) : Tail(q)[n] = g
      BY <2>2 DEF Holds
    <3>2. n + 1 \in 1..Len(q) /\ q[n + 1] = g
      BY <1>1, <3>1
    <3> QED  BY <3>2 DEF Holds
  <2> QED  BY <1>3, <2>1, <2>2
<1>4. ASSUME Once(q) PROVE Once(Tail(q)) /\ New(Tail(q), Head(q))
  <2>1. \A n \in 1..Len(Tail(q)) : n + 1 \in 1..Len(q) /\ n + 1 # 1
    BY <1>1
  <2>2. Once(Tail(q))
    BY <1>1, <1>4, <2>1 DEF Once
  <2>3. 1 \in 1..Len(q)
    BY <1>1
  <2>4. New(Tail(q), Head(q))
    BY <1>1, <1>4, <2>1, <2>3 DEF Once, New
  <2> QED  BY <2>2, <2>4
<1> QED  BY <1>1, <1>2, <1>3, <1>4

(* Scheduling a handle adds that one; the queue holds nothing twice if it  *)
(* was not there.                                                          *)
LEMMA PushQueue ==
    ASSUME NEW q \in Seq(Handles), NEW h \in Handles
    PROVE  /\ Append(q, h) \in Seq(Handles)
           /\ Len(q) \in Nat /\ Len(Append(q, h)) = Len(q) + 1
           /\ \A n \in 1..Len(q) : Append(q, h)[n] = q[n]
           /\ Append(q, h)[Len(q) + 1] = h
           /\ \A g : Holds(Append(q, h), g) <=> Holds(q, g) \/ g = h
           /\ \A g : New(Append(q, h), g) <=> New(q, g) /\ ~Same(h, g)
           /\ Once(q) /\ New(q, h) => Once(Append(q, h))
<1>1. /\ Append(q, h) \in Seq(Handles)
      /\ Len(q) \in Nat /\ Len(Append(q, h)) = Len(q) + 1
      /\ \A n \in 1..Len(q) : Append(q, h)[n] = q[n]
      /\ Append(q, h)[Len(q) + 1] = h
  OBVIOUS
<1>2. 1..(Len(q) + 1) = 1..Len(q) \cup {Len(q) + 1}
  BY <1>1
<1>3. \A g : Holds(Append(q, h), g) <=> Holds(q, g) \/ g = h
  BY <1>1, <1>2 DEF Holds
<1>4. \A g : New(Append(q, h), g) <=> New(q, g) /\ ~Same(h, g)
  BY <1>1, <1>2 DEF New
<1>5. ASSUME Once(q), New(q, h) PROVE Once(Append(q, h))
  <2>1. \A n \in 1..Len(q) : ~Same(q[n], h) /\ ~Same(h, q[n])
    <3>1. \A n \in 1..Len(q) : q[n] \in Handles
      OBVIOUS
    <3> QED  BY <1>5, <3>1, SameHandles DEF New
  <2> QED  BY <1>1, <1>2, <1>5, <2>1 DEF Once
<1> QED  BY <1>1, <1>3, <1>4, <1>5

(* What it takes for a handle not to be there.                             *)
LEMMA NewHandles ==
    ASSUME NEW q \in Seq(Handles)
    PROVE  /\ \A r \in RunIds : New(q, RunHandle(r)) <=> ~Holds(q, RunHandle(r))
           /\ \A i \in RequestIds : New(q, EmitHandle(i)) <=> ~Holds(q, EmitHandle(i))
           /\ \A c \in Callers :
                 New(q, WakeHandle(c)) <=>
                       ~Holds(q, WakeHandle(c)) /\ \A op \in Ops : ~Holds(q, CallHandle(c, op))
           /\ \A c \in Callers, o \in Ops :
                 New(q, CallHandle(c, o)) <=>
                       ~Holds(q, WakeHandle(c)) /\ \A op \in Ops : ~Holds(q, CallHandle(c, op))
<1>1. \A n \in 1..Len(q) : q[n] \in Handles
  OBVIOUS
<1> QED  BY <1>1, SameHandles DEF New, Holds
(* An announcement is the first thing to run.                              *)
EmitFirst(q) == q # << >> /\ \E i \in RequestIds : Head(q) = EmitHandle(i)

(* Further back, an announcement follows the wakeup of a run of X.         *)
InOrder(q, X) ==
    \A n \in 2..Len(q), i \in RequestIds :
        q[n] = EmitHandle(i) => \E r \in X : q[n - 1] = RunHandle(r)

(* q is p with the handles A scheduled behind it.                          *)
Adds(p, q, A, X) ==
    /\ q \in Seq(Handles)
    /\ \A g : Holds(q, g) <=> Holds(p, g) \/ g \in A
    /\ EmitFirst(q) => EmitFirst(p)
    /\ InOrder(p, X) => InOrder(q, X)

(* What is behind the head is in order, without the run that was popped.   *)
LEMMA PopOrder ==
    ASSUME NEW q \in Seq(Handles), q # << >>, NEW X, Once(q), InOrder(q, X)
    PROVE  /\ InOrder(Tail(q), {r \in X : RunHandle(r) # Head(q)})
           /\ EmitFirst(Tail(q)) => \E r \in X : Head(q) = RunHandle(r)
<1> DEFINE Y == {r \in X : RunHandle(r) # Head(q)}
<1>0. /\ Len(q) \in Nat \ {0} /\ Len(Tail(q)) = Len(q) - 1 /\ Head(q) = q[1]
      /\ \A n \in 1..Len(Tail(q)) : Tail(q)[n] = q[n + 1]
  BY PopQueue
<1>1. ASSUME NEW n \in 2..Len(Tail(q)), NEW i \in RequestIds, Tail(q)[n] = EmitHandle(i)
      PROVE  \E r \in Y : Tail(q)[n - 1] = RunHandle(r)
  <2>1. /\ n + 1 \in 2..Len(q) /\ (n + 1) - 1 = n /\ q[n + 1] = EmitHandle(i)
        /\ n \in 1..Len(q) /\ 1 \in 1..Len(q) /\ n # 1
        /\ Tail(q)[n - 1] = q[n]
    <3>1. n - 1 \in 1..Len(Tail(q)) /\ n \in 1..Len(Tail(q)) /\ (n - 1) + 1 = n
      BY <1>0
    <3>2. Tail(q)[n - 1] = q[n] /\ Tail(q)[n] = q[n + 1]
      BY <1>0, <3>1
    <3> QED  BY <1>0, <1>1, <3>2
  <2>2. PICK r \in X : q[n] = RunHandle(r)
    BY <2>1 DEF InOrder
  <2>3. q[n] # q[1]
    BY <2>1 DEF Once, Same
  <2> QED  BY <1>0, <2>1, <2>2, <2>3
<1>2. ASSUME EmitFirst(Tail(q)) PROVE \E r \in X : Head(q) = RunHandle(r)
  <2>1. PICK i \in RequestIds : Tail(q) # << >> /\ Head(Tail(q)) = EmitHandle(i)
    BY <1>2 DEF EmitFirst
  <2>2. Tail(q) \in Seq(Handles)
    OBVIOUS
  <2>3. Len(Tail(q)) \in Nat \ {0} /\ Tail(q)[1] = EmitHandle(i)
    BY <2>1, <2>2
  <2>4. 2 \in 2..Len(q) /\ q[2] = EmitHandle(i) /\ 2 - 1 = 1
    BY <1>0, <2>3
  <2> QED  BY <1>0, <2>4 DEF InOrder
<1> QED  BY <1>1, <1>2 DEF InOrder

(* Scheduling anything but an announcement.                                *)
LEMMA PushAdds ==
    ASSUME NEW q \in Seq(Handles), NEW h \in Handles, NEW X,
           \A i \in RequestIds : h # EmitHandle(i)
    PROVE  Adds(q, Append(q, h), {h}, X)
<1>1. /\ Append(q, h) \in Seq(Handles)
      /\ Len(q) \in Nat /\ Len(Append(q, h)) = Len(q) + 1
      /\ \A n \in 1..Len(q) : Append(q, h)[n] = q[n]
      /\ Append(q, h)[Len(q) + 1] = h
      /\ \A g : Holds(Append(q, h), g) <=> Holds(q, g) \/ g = h
  BY PushQueue
<1>2. EmitFirst(Append(q, h)) => EmitFirst(q)
  <2>1. CASE q = << >>
    <3>1. Head(Append(q, h)) = h
      BY <2>1
    <3> QED  BY <3>1 DEF EmitFirst
  <2>2. CASE q # << >>
    <3>1. Head(Append(q, h)) = Head(q)
      BY <2>2
    <3> QED  BY <2>2, <3>1 DEF EmitFirst
  <2> QED  BY <2>1, <2>2
<1>3. ASSUME InOrder(q, X) PROVE InOrder(Append(q, h), X)
  <2>1. ASSUME NEW n \in 2..Len(Append(q, h)), NEW i \in RequestIds,
               Append(q, h)[n] = EmitHandle(i)
        PROVE  \E r \in X : Append(q, h)[n - 1] = RunHandle(r)
    <3>1. n # Len(q) + 1
      BY <1>1, <2>1
    <3>2. n \in 2..Len(q) /\ n \in 1..Len(q) /\ n - 1 \in 1..Len(q)
      BY <1>1, <2>1, <3>1
    <3>3. q[n] = EmitHandle(i) /\ Append(q, h)[n - 1] = q[n - 1]
      BY <1>1, <2>1, <3>2
    <3> QED  BY <1>3, <3>2, <3>3 DEF InOrder
  <2> QED  BY <2>1 DEF InOrder
<1> QED  BY <1>1, <1>2, <1>3 DEF Adds

(* Scheduling in two goes.                                                 *)
LEMMA AddsTwice ==
    ASSUME NEW p, NEW q, NEW s, NEW A, NEW B, NEW X,
           Adds(p, q, A, X), Adds(q, s, B, X)
    PROVE  Adds(p, s, A \cup B, X)
BY DEF Adds
(* A task that is cancelled is woken once.                                 *)
LEMMA WokenAdds ==
    ASSUME NEW q \in Seq(Handles), NEW r \in RunIds, NEW X
    PROVE  /\ Adds(q, Woken(q, r), {RunHandle(r)}, X)
           /\ Once(q) => Once(Woken(q, r))
<1>0. RunHandle(r) \in Handles /\ \A i \in RequestIds : RunHandle(r) # EmitHandle(i)
  BY HandleTypes, Distinct
<1>1. CASE Holds(q, RunHandle(r))
  BY <1>1 DEF Adds, Woken
<1>2. CASE ~Holds(q, RunHandle(r))
  BY <1>0, <1>2, PushAdds, PushQueue, NewHandles DEF Woken
<1> QED  BY <1>1, <1>2

(* Settling a request schedules its run and, behind it, its announcement.  *)
LEMMA ResolvingAdds ==
    ASSUME TypeOK, Active, NEW q \in Seq(Handles), NEW X, request.by \in X
    PROVE  /\ Adds(q, Resolving(q), {RunHandle(request.by), EmitHandle(request.id)}, X)
           /\ /\ Once(q) /\ ~Holds(q, RunHandle(request.by))
              /\ ~Holds(q, EmitHandle(request.id))
              => Once(Resolving(q))
<1> DEFINE a == RunHandle(request.by)
           b == EmitHandle(request.id)
           p == Append(q, a)
<1>0. /\ request.by \in RunIds /\ request.id \in RequestIds
      /\ a \in Handles /\ b \in Handles /\ a # b
      /\ \A i \in RequestIds : a # EmitHandle(i)
  BY HandleTypes, Distinct DEF TypeOK, Active
<1>1. Resolving(q) = Append(p, b)
  <2> HIDE DEF a, b
  <2>1. q \o <<a, b>> = Append(Append(q, a), b)
    BY <1>0
  <2> QED  BY <2>1 DEF Resolving, a, b
<1>2. Adds(q, p, {a}, X) /\ p \in Seq(Handles)
  BY <1>0, PushAdds, PushQueue
<1>3. /\ Len(q) \in Nat /\ Len(p) = Len(q) + 1 /\ p[Len(q) + 1] = a
      /\ Append(p, b) \in Seq(Handles) /\ Len(Append(p, b)) = Len(p) + 1
      /\ \A n \in 1..Len(p) : Append(p, b)[n] = p[n]
      /\ Append(p, b)[Len(p) + 1] = b
      /\ \A g : Holds(Append(p, b), g) <=> Holds(p, g) \/ g = b
  <2>1. Len(q) \in Nat /\ Len(p) = Len(q) + 1 /\ p[Len(q) + 1] = a
    BY <1>0, PushQueue
  <2> HIDE DEF p
  <2> QED  BY <1>0, <1>2, <2>1, PushQueue
<1>4. EmitFirst(Append(p, b)) => EmitFirst(p)
  <2> HIDE DEF a, b, p
  <2>1. p # << >>
    BY <1>2, <1>3
  <2>2. Head(Append(p, b)) = Head(p)
    BY <1>0, <1>2, <2>1
  <2> QED  BY <2>1, <2>2 DEF EmitFirst
<1>5. ASSUME InOrder(p, X) PROVE InOrder(Append(p, b), X)
  <2>1. ASSUME NEW n \in 2..Len(Append(p, b)), NEW i \in RequestIds,
               Append(p, b)[n] = EmitHandle(i)
        PROVE  \E r \in X : Append(p, b)[n - 1] = RunHandle(r)
    <3>1. CASE n = Len(p) + 1
      <4>1. n - 1 = Len(q) + 1 /\ n - 1 \in 1..Len(p)
        BY <1>3, <3>1
      <4> QED  BY <1>3, <4>1
    <3>2. CASE n # Len(p) + 1
      <4>1. n \in 2..Len(p) /\ n \in 1..Len(p) /\ n - 1 \in 1..Len(p)
        BY <1>3, <2>1, <3>2
      <4>2. p[n] = EmitHandle(i) /\ Append(p, b)[n - 1] = p[n - 1]
        BY <1>3, <2>1, <4>1
      <4> QED  BY <1>5, <4>1, <4>2 DEF InOrder
    <3> QED  BY <3>1, <3>2
  <2> QED  BY <2>1 DEF InOrder
<1>6. Adds(p, Append(p, b), {b}, X)
  BY <1>3, <1>4, <1>5 DEF Adds
<1>7. Adds(q, Append(p, b), {a} \cup {b}, X)
  BY <1>2, <1>6, AddsTwice
<1>8. ASSUME Once(q), ~Holds(q, a), ~Holds(q, b) PROVE Once(Append(p, b))
  <2>1. Once(p)
    BY <1>0, <1>8, PushQueue, NewHandles
  <2>2. ~Holds(p, b)
    BY <1>0, <1>2, <1>8 DEF Adds
  <2> QED  BY <1>0, <1>2, <2>1, <2>2, PushQueue, NewHandles
<1>9. {a} \cup {b} = {a, b}
  OBVIOUS
<1> QED  BY <1>1, <1>7, <1>8, <1>9

(* What cancel() and close() schedule when they deny a pending request.    *)
Denied == IF Pending THEN {RunHandle(request.by), EmitHandle(request.id)} ELSE {}

(* A denial queues the wakeup of the run it answers and the announcement,  *)
(* once each.                                                              *)
LEMMA AfterDenyAdds ==
    ASSUME TypeOK, NEW q \in Seq(Handles), NEW X, Pending => request.by \in X
    PROVE  /\ Adds(q, AfterDeny(q), Denied, X)
           /\ /\ Once(q)
              /\ Pending => /\ ~Holds(q, RunHandle(request.by))
                            /\ ~Holds(q, EmitHandle(request.id))
              => Once(AfterDeny(q))
<1>1. CASE Pending
  BY <1>1, ResolvingAdds DEF AfterDeny, Denied, Pending
<1>2. CASE ~Pending
  BY <1>2 DEF AfterDeny, Denied, Adds
<1> QED  BY <1>1, <1>2

(* The callers that wait for a run.                                        *)
Waits(r, c) == Holds(awaiting[r], c)
Wakes(r)    == {WakeHandle(c) : c \in {d \in Callers : Waits(r, d)}}

AwaitOnce ==
    \A r, s \in RunIds :
        \A m \in 1..Len(awaiting[r]), n \in 1..Len(awaiting[s]) :
            awaiting[r][m] = awaiting[s][n] => r = s /\ m = n

(* One queue behind another.                                               *)
LEMMA TwoQueues ==
    ASSUME NEW q \in Seq(Handles), NEW z \in Seq(Handles)
    PROVE  /\ q \o z \in Seq(Handles) /\ Len(q \o z) = Len(q) + Len(z)
           /\ \A n \in 1..Len(q) : (q \o z)[n] = q[n]
           /\ \A n \in Len(q) + 1..Len(q) + Len(z) : (q \o z)[n] = z[n - Len(q)]
OBVIOUS

(* A run that ends schedules every caller that awaits it, once.            *)
LEMMA WakesAdd ==
    ASSUME TypeOK, NEW q \in Seq(Handles), NEW r \in RunIds, NEW X
    PROVE  /\ Adds(q, WithWakes(q, r), Wakes(r), X)
           /\ /\ Once(q) /\ AwaitOnce
              /\ \A c \in Callers : Waits(r, c) => New(q, WakeHandle(c))
              => Once(WithWakes(q, r))
<1> DEFINE w == awaiting[r]
           z == [k \in 1..Len(w) |-> WakeHandle(w[k])]
           s == WithWakes(q, r)
<1>1. /\ w \in Seq(Callers) /\ Len(w) \in Nat /\ Len(q) \in Nat
      /\ \A k \in 1..Len(w) : w[k] \in Callers /\ Waits(r, w[k])
  BY DEF TypeOK, Waits, Holds
<1>2. z \in Seq(Handles) /\ Len(z) = Len(w)
  BY <1>1, HandleTypes
<1>3. /\ s \in Seq(Handles) /\ Len(s) = Len(q) + Len(w)
      /\ \A n \in 1..Len(q) : s[n] = q[n]
      /\ \A n \in Len(q) + 1..Len(q) + Len(w) : s[n] = WakeHandle(w[n - Len(q)])
  <2>1. s = q \o z
    BY DEF WithWakes
  <2>2. /\ s \in Seq(Handles) /\ Len(s) = Len(q) + Len(z)
        /\ \A n \in 1..Len(q) : s[n] = q[n]
        /\ \A n \in Len(q) + 1..Len(q) + Len(z) : s[n] = z[n - Len(q)]
    <3> HIDE DEF z, s
    <3> QED  BY <1>2, <2>1, TwoQueues
  <2>3. \A n \in Len(q) + 1..Len(q) + Len(w) : n - Len(q) \in 1..Len(w)
    BY <1>1
  <2> QED  BY <1>2, <2>2, <2>3
<1>4. \A n \in Len(q) + 1..Len(q) + Len(w) :
         \E c \in Callers : s[n] = WakeHandle(c) /\ Waits(r, c)
  <2>1. \A n \in Len(q) + 1..Len(q) + Len(w) : n - Len(q) \in 1..Len(w)
    BY <1>1
  <2> QED  BY <1>1, <1>3, <2>1
<1> HIDE DEF s, z
<1>5. \A n \in 1..Len(s) : n \in 1..Len(q) \/ n \in Len(q) + 1..Len(q) + Len(w)
  BY <1>1, <1>3
<1>6. ASSUME NEW g PROVE Holds(s, g) <=> Holds(q, g) \/ g \in Wakes(r)
  <2>1. ASSUME Holds(s, g) PROVE Holds(q, g) \/ g \in Wakes(r)
    BY <1>3, <1>4, <1>5, <2>1 DEF Holds, Wakes
  <2>2. ASSUME Holds(q, g) PROVE Holds(s, g)
    <3>1. \A n \in 1..Len(q) : n \in 1..Len(s)
      BY <1>1, <1>3
    <3> QED  BY <1>3, <2>2, <3>1 DEF Holds
  <2>3. ASSUME g \in Wakes(r) PROVE Holds(s, g)
    <3>1. PICK c \in Callers : g = WakeHandle(c) /\ Waits(r, c)
      BY <2>3 DEF Wakes
    <3>2. PICK k \in 1..Len(w) : w[k] = c
      BY <3>1 DEF Waits, Holds
    <3>3. /\ Len(q) + k \in Len(q) + 1..Len(q) + Len(w) /\ (Len(q) + k) - Len(q) = k
          /\ Len(q) + k \in 1..Len(s)
      BY <1>1, <1>3, <3>2
    <3>4. s[Len(q) + k] = g
      BY <1>3, <3>1, <3>2, <3>3
    <3> QED  BY <3>3, <3>4 DEF Holds
  <2> QED  BY <2>1, <2>2, <2>3
<1>7. ASSUME EmitFirst(s) PROVE EmitFirst(q)
  <2>1. PICK i \in RequestIds : s # << >> /\ Head(s) = EmitHandle(i)
    BY <1>7 DEF EmitFirst
  <2>2. 1 \in 1..Len(s) /\ s[1] = EmitHandle(i)
    BY <1>3, <2>1
  <2>3. 1 \in 1..Len(q) /\ q[1] = EmitHandle(i)
    BY <1>3, <1>4, <1>5, <2>2, Distinct
  <2>4. q # << >> /\ Head(q) = q[1]
    BY <2>3
  <2> QED  BY <2>3, <2>4 DEF EmitFirst
<1>8. ASSUME InOrder(q, X) PROVE InOrder(s, X)
  <2>1. ASSUME NEW n \in 2..Len(s), NEW i \in RequestIds, s[n] = EmitHandle(i)
        PROVE  \E t \in X : s[n - 1] = RunHandle(t)
    <3>1. n \in 1..Len(s) /\ n \in 1..Len(q)
      BY <1>3, <1>4, <1>5, <2>1, Distinct
    <3>2. n \in 2..Len(q) /\ n - 1 \in 1..Len(q)
      BY <1>1, <2>1, <3>1
    <3> QED  BY <1>3, <1>8, <2>1, <3>1, <3>2 DEF InOrder
  <2> QED  BY <2>1 DEF InOrder
<1>9. ASSUME Once(q), AwaitOnce, \A c \in Callers : Waits(r, c) => New(q, WakeHandle(c))
      PROVE  Once(s)
  <2>0. \A n \in 1..Len(q) : q[n] \in Handles
    OBVIOUS
  <2>1. ASSUME NEW m \in 1..Len(q), NEW n \in Len(q) + 1..Len(q) + Len(w)
        PROVE  ~Same(s[m], s[n]) /\ ~Same(s[n], s[m])
    <3>1. PICK c \in Callers : s[n] = WakeHandle(c) /\ Waits(r, c)
      BY <1>4
    <3>2. ~Same(q[m], WakeHandle(c))
      BY <1>9, <3>1 DEF New
    <3> QED  BY <1>3, <2>0, <3>1, <3>2, SameHandles, HandleTypes
  <2>2. ASSUME NEW m \in Len(q) + 1..Len(q) + Len(w), NEW n \in Len(q) + 1..Len(q) + Len(w),
               Same(s[m], s[n])
        PROVE  m = n
    <3>1. m - Len(q) \in 1..Len(w) /\ n - Len(q) \in 1..Len(w)
      BY <1>1
    <3>2. s[m] = WakeHandle(w[m - Len(q)]) /\ s[n] = WakeHandle(w[n - Len(q)])
      BY <1>3
    <3>3. w[m - Len(q)] \in Callers /\ w[n - Len(q)] \in Callers
      BY <1>1, <3>1
    <3>4. s[m] = s[n]
      BY <2>2, <3>2, <3>3, SameHandles, HandleTypes, Distinct
    <3>5. w[m - Len(q)] = w[n - Len(q)]
      BY <3>2, <3>4, Distinct
    <3>6. m - Len(q) = n - Len(q)
      BY <1>9, <3>1, <3>5 DEF AwaitOnce
    <3> QED  BY <1>1, <3>6
  <2>3. \A m, n \in 1..Len(q) : Same(s[m], s[n]) => m = n
    BY <1>3, <1>9 DEF Once
  <2> QED  BY <1>5, <2>1, <2>2, <2>3 DEF Once
<1> QED  BY <1>3, <1>6, <1>7, <1>8, <1>9 DEF Adds, s
---------------------------------------------------------------------------
(* The invariant of the session and its queue                              *)

Busy(c)    == caller[c] \in {"cancelling", "closing"}
Settled(i) == outcome[i] \in {"allowed", "denied"}
Asking     == {r \in RunIds : run[r] = "asking"}

(* A caller is in one place: its call is queued, or its wakeup is, or it   *)
(* awaits one live run, or it is idle and nowhere.                         *)
CallerOK(c) ==
    /\ \A op \in Ops : Holds(ready, CallHandle(c, op)) => caller[c] = "queued"
    /\ Holds(ready, WakeHandle(c)) => Busy(c) /\ \A r \in RunIds : ~Waits(r, c)
    /\ \A r \in RunIds : Waits(r, c) => Busy(c) /\ Live(r)
    /\ Busy(c) => Holds(ready, WakeHandle(c)) \/ \E r \in RunIds : Waits(r, c)

(* Only live runs are scheduled, a run that must step is, and a run whose  *)
(* request is open is not.                                                 *)
RunOK(r) ==
    /\ Scheduled(r) => Live(r)
    /\ run[r] = "created" => Scheduled(r)
    /\ cancelReq[r] => Scheduled(r)
    /\ run[r] = "asking" => (Pending <=> ~Scheduled(r))

(* The announcement of a request is queued from its verdict to its event.  *)
RequestOK(i) ==
    /\ Holds(ready, EmitHandle(i)) <=> Settled(i) /\ i \notin reported
    /\ i \in reported => Settled(i)
    /\ i <= asked => outcome[i] # "unasked"
    /\ outcome[i] = "pending" => request.id = i

CallersOK  == \A c \in Callers : CallerOK(c)
RunsOK     == \A r \in RunIds : RunOK(r)
RequestsOK == \A i \in RequestIds : RequestOK(i)

QueueInv == /\ RequestInv /\ Once(ready) /\ InOrder(ready, Asking)
            /\ CallersOK /\ AwaitOnce /\ RunsOK /\ RequestsOK

(* The step pops the head, with all that is the same, and schedules A; the *)
(* step pops nothing and schedules A.                                      *)
Took(A) ==
    /\ ready # << >>
    /\ \A g : Holds(ready', g) <=> (Holds(ready, g) /\ ~Same(g, Head(ready))) \/ g \in A
    /\ EmitFirst(ready') => \E r \in Asking : Head(ready) = RunHandle(r)
    /\ InOrder(ready', {r \in Asking : RunHandle(r) # Head(ready)})
    /\ Once(ready')
Got(A) ==
    /\ \A g : Holds(ready', g) <=> Holds(ready, g) \/ g \in A
    /\ EmitFirst(ready') => EmitFirst(ready)
    /\ InOrder(ready', Asking)
    /\ Once(ready')

(* What is known of the rest of the queue.                                 *)
LEMMA RestOK ==
    ASSUME QueueInv, ready # << >>
    PROVE  /\ Rest \in Seq(Handles) /\ Once(Rest) /\ New(Rest, Head(ready))
           /\ \A g : Holds(Rest, g) <=> Holds(ready, g) /\ ~Same(g, Head(ready))
           /\ Head(ready) \in Handles
<1>0. ready \in Seq(Handles) /\ Once(ready)
  BY DEF QueueInv, RequestInv, TypeOK
<1>1. /\ Rest \in Seq(Handles) /\ Once(Rest) /\ New(Rest, Head(ready))
      /\ Head(ready) \in Handles
      /\ \A g : Holds(ready, g) <=> g = Head(ready) \/ Holds(Rest, g)
  BY <1>0, PopQueue DEF Rest
<1>2. \A g : Holds(Rest, g) => ~Same(g, Head(ready))
  BY <1>1 DEF New, Holds
<1>3. \A g : ~Same(g, Head(ready)) => g # Head(ready)
  BY DEF Same
<1> QED  BY <1>1, <1>2, <1>3

(* A step that schedules A behind the rest of the queue takes the head.    *)
LEMMA TookRest ==
    ASSUME QueueInv, ready # << >>, NEW A, Once(ready'),
           Adds(Rest, ready', A, {r \in Asking : RunHandle(r) # Head(ready)})
    PROVE  Took(A)
<1> DEFINE Y == {r \in Asking : RunHandle(r) # Head(ready)}
<1>1. /\ InOrder(Rest, Y)
      /\ EmitFirst(Rest) => \E r \in Asking : Head(ready) = RunHandle(r)
  BY PopOrder DEF QueueInv, RequestInv, TypeOK, Rest
<1>2. \A g : Holds(Rest, g) <=> Holds(ready, g) /\ ~Same(g, Head(ready))
  BY RestOK
<1>3. /\ \A g : Holds(ready', g) <=> Holds(Rest, g) \/ g \in A
      /\ EmitFirst(ready') => EmitFirst(Rest)
      /\ InOrder(Rest, Y) => InOrder(ready', Y)
  BY DEF Adds
<1> QED  BY <1>1, <1>2, <1>3 DEF Took

(* The handle is consumed.                                                 *)
LEMMA TookNothing ==
    ASSUME QueueInv, ready # << >>, ready' = Rest
    PROVE  Took({})
<1>1. Adds(Rest, ready', {}, {r \in Asking : RunHandle(r) # Head(ready)})
  BY RestOK DEF Adds
<1> QED  BY <1>1, RestOK, TookRest

(* Facts about a pending request.                                          *)
LEMMA PendingOK ==
    ASSUME QueueInv, Pending
    PROVE  /\ request.by \in Asking /\ request.id \in RequestIds
           /\ ~Scheduled(request.by) /\ ~Holds(ready, EmitHandle(request.id))
           /\ outcome[request.id] = "pending"
<1>1. /\ request.by \in RunIds /\ request.id \in RequestIds
      /\ outcome[request.id] = "pending" /\ Active
  BY DEF QueueInv, RequestInv, TypeOK, Pending, Active
<1>2. run[request.by] = "asking"
  BY <1>1 DEF QueueInv, RequestInv, RequestHasWaiter
<1>3. RunOK(request.by) /\ RequestOK(request.id)
  BY <1>1 DEF QueueInv, RunsOK, RequestsOK
<1> QED  BY <1>1, <1>2, <1>3 DEF RunOK, RequestOK, Settled, Asking

(* A step of a caller that denies what is pending.                         *)
LEMMA TookDenied ==
    ASSUME QueueInv, ready # << >>, \A r \in RunIds : Head(ready) # RunHandle(r)
    PROVE  /\ ready' = AfterDeny(Rest) => Took(Denied)
           /\ runTask \in RunIds /\ ready' = Woken(AfterDeny(Rest), runTask)
              => Took(Denied \cup {RunHandle(runTask)})
<1> DEFINE Y == {r \in Asking : RunHandle(r) # Head(ready)}
<1>0. TypeOK /\ Rest \in Seq(Handles) /\ Once(Rest)
  BY RestOK DEF QueueInv, RequestInv
<1>1. Pending => /\ request.by \in Y
                 /\ ~Holds(Rest, RunHandle(request.by))
                 /\ ~Holds(Rest, EmitHandle(request.id))
  BY PendingOK, RestOK DEF Scheduled, Asking
<1>2. Adds(Rest, AfterDeny(Rest), Denied, Y) /\ Once(AfterDeny(Rest))
  BY <1>0, <1>1, AfterDenyAdds
<1>3. AfterDeny(Rest) \in Seq(Handles)
  BY <1>2 DEF Adds
<1>4. ready' = AfterDeny(Rest) => Took(Denied)
  BY <1>2, TookRest
<1>5. ASSUME runTask \in RunIds, ready' = Woken(AfterDeny(Rest), runTask)
      PROVE  Took(Denied \cup {RunHandle(runTask)})
  <2>1. /\ Adds(AfterDeny(Rest), ready', {RunHandle(runTask)}, Y)
        /\ Once(ready')
    BY <1>2, <1>3, <1>5, WokenAdds
  <2>2. Adds(Rest, ready', Denied \cup {RunHandle(runTask)}, Y)
    BY <1>2, <2>1, AddsTwice
  <2> QED  BY <2>1, <2>2, TookRest
<1> QED  BY <1>4, <1>5

(* The step of a start, of a run that ends, and of the outside world.      *)
LEMMA TookRun ==
    ASSUME QueueInv, ready # << >>, NEW r \in RunIds, ~Scheduled(r),
           ready' = Append(Rest, RunHandle(r))
    PROVE  Took({RunHandle(r)})
<1>1. ~Holds(Rest, RunHandle(r)) /\ Rest \in Seq(Handles) /\ Once(Rest)
  BY RestOK DEF Scheduled
<1>2. RunHandle(r) \in Handles /\ \A i \in RequestIds : RunHandle(r) # EmitHandle(i)
  BY HandleTypes, Distinct
<1>3. Once(ready')
  BY <1>1, <1>2, PushQueue, NewHandles
<1>4. Adds(Rest, ready', {RunHandle(r)}, {s \in Asking : RunHandle(s) # Head(ready)})
  BY <1>1, <1>2, PushAdds
<1> QED  BY <1>3, <1>4, TookRest

(* A handle that ran and woke the callers of its run was taken from the    *)
(* queue.                                                                  *)
LEMMA TookWakes ==
    ASSUME QueueInv, NEW r \in RunIds, AtHead(RunHandle(r)), ready' = WithWakes(Rest, r)
    PROVE  Took(Wakes(r))
<1>0. TypeOK /\ AwaitOnce /\ ready # << >> /\ Rest \in Seq(Handles) /\ Once(Rest)
  BY RestOK DEF QueueInv, RequestInv, AtHead
<1>1. ASSUME NEW c \in Callers, Waits(r, c) PROVE New(Rest, WakeHandle(c))
  <2>1. CallerOK(c)
    BY DEF QueueInv, CallersOK
  <2>2. ~Holds(ready, WakeHandle(c)) /\ \A op \in Ops : ~Holds(ready, CallHandle(c, op))
    BY <1>1, <2>1 DEF CallerOK, Busy
  <2> QED  BY <1>0, <2>2, RestOK, NewHandles
<1>2. /\ Once(ready')
      /\ Adds(Rest, ready', Wakes(r), {s \in Asking : RunHandle(s) # Head(ready)})
  BY <1>0, <1>1, WakesAdd
<1> QED  BY <1>0, <1>2, TookRest

(* A handle put behind the others was added to the queue.                  *)
LEMMA GotHandle ==
    ASSUME QueueInv, NEW h \in Handles, \A i \in RequestIds : h # EmitHandle(i),
           New(ready, h), ready' = Append(ready, h)
    PROVE  Got({h})
<1>1. ready \in Seq(Handles) /\ Once(ready) /\ InOrder(ready, Asking)
  BY DEF QueueInv, RequestInv, TypeOK
<1>2. Adds(ready, ready', {h}, Asking) /\ Once(ready')
  BY <1>1, PushAdds, PushQueue
<1> QED  BY <1>1, <1>2 DEF Adds, Got
---------------------------------------------------------------------------
(* Callers                                                                 *)

(* The head belongs to a caller.                                           *)
AtCall(c) == AtHead(WakeHandle(c)) \/ \E op \in Ops : AtHead(CallHandle(c, op))

(* Nothing in A is a step of a caller.                                     *)
Quiet(A) == \A c : WakeHandle(c) \notin A /\ \A op : CallHandle(c, op) \notin A

(* The handles of runs, and those of a denial, wake nobody twice.          *)
LEMMA QuietHandles ==
    /\ Quiet({}) /\ Quiet(Denied)
    /\ \A r : Quiet({RunHandle(r)}) /\ Quiet(Denied \cup {RunHandle(r)})
BY Distinct DEF Quiet, Denied

(* A caller whose step is at the head awaits nothing, and what is left in  *)
(* the queue is of other callers.                                          *)
LEMMA AtCallOK ==
    ASSUME QueueInv, NEW c \in Callers, AtCall(c), NEW A, Quiet(A), Took(A)
    PROVE  /\ \A r \in RunIds : ~Waits(r, c) /\ Head(ready) # RunHandle(r)
           /\ ~Holds(ready', WakeHandle(c)) /\ \A op \in Ops : ~Holds(ready', CallHandle(c, op))
           /\ \A d \in Callers \ {c} :
                 /\ Holds(ready', WakeHandle(d)) <=> Holds(ready, WakeHandle(d))
                 /\ \A op \in Ops :
                       Holds(ready', CallHandle(d, op)) <=> Holds(ready, CallHandle(d, op))
           /\ AtHead(WakeHandle(c)) => Busy(c)
           /\ ~AtHead(WakeHandle(c)) => caller[c] = "queued"
<1>1. CallerOK(c)
  BY DEF QueueInv, CallersOK
<1>2. ready # << >> /\ Head(ready) \in Handles /\ Holds(ready, Head(ready))
  <2>1. /\ ready # << >> /\ ready \in Seq(Handles)
    BY DEF AtCall, AtHead, QueueInv, RequestInv, TypeOK
  <2> QED  BY <2>1, PopQueue
<1>3. Head(ready) = WakeHandle(c) \/ \E op \in Ops : Head(ready) = CallHandle(c, op)
  BY DEF AtCall, AtHead
<1>4. \A g \in Handles :
         Same(g, Head(ready)) <=> g = WakeHandle(c) \/ \E op \in Ops : g = CallHandle(c, op)
  BY <1>3, SameHandles
<1>5. \A d \in Callers :
         WakeHandle(d) \in Handles /\ \A op \in Ops : CallHandle(d, op) \in Handles
  BY HandleTypes
<1>6. /\ \A d : Holds(ready', WakeHandle(d)) <=>
                 Holds(ready, WakeHandle(d)) /\ ~Same(WakeHandle(d), Head(ready))
      /\ \A d, op : Holds(ready', CallHandle(d, op)) <=>
                 Holds(ready, CallHandle(d, op)) /\ ~Same(CallHandle(d, op), Head(ready))
  BY DEF Took, Quiet
<1>7. ~Holds(ready', WakeHandle(c)) /\ \A op \in Ops : ~Holds(ready', CallHandle(c, op))
  BY <1>4, <1>5, <1>6
<1>8. ASSUME NEW d \in Callers \ {c}
      PROVE  /\ Holds(ready', WakeHandle(d)) <=> Holds(ready, WakeHandle(d))
             /\ \A op \in Ops :
                   Holds(ready', CallHandle(d, op)) <=> Holds(ready, CallHandle(d, op))
  BY <1>4, <1>5, <1>6, <1>8, Distinct
<1>9. \A r \in RunIds : ~Waits(r, c)
  BY <1>1, <1>2, <1>3 DEF CallerOK, Busy
<1>10. \A r \in RunIds : Head(ready) # RunHandle(r)
  BY <1>3, Distinct
<1>11. /\ AtHead(WakeHandle(c)) => Busy(c)
       /\ ~AtHead(WakeHandle(c)) => caller[c] = "queued"
  BY <1>1, <1>2, <1>3 DEF CallerOK, AtHead
<1> QED  BY <1>7, <1>8, <1>9, <1>10, <1>11

(* A call that returns, or starts to await a live run, leaves every caller *)
(* in one place.                                                           *)
LEMMA CallKeepsCallers ==
    ASSUME QueueInv, NEW c \in Callers, AtCall(c), NEW A, Quiet(A), Took(A),
           \A d \in Callers \ {c} :
              /\ caller'[d] = caller[d]
              /\ \A r \in RunIds : Waits(r, d)' <=> Waits(r, d),
           \A r \in RunIds : Live(r) => Live(r)',
           \A r \in RunIds : Waits(r, c)' => Live(r)',
           (\E r \in RunIds : Waits(r, c)') <=> Busy(c)'
    PROVE  CallersOK'
<1>0. CallersOK
  BY DEF QueueInv
<1>a. /\ ~Holds(ready', WakeHandle(c)) /\ \A op \in Ops : ~Holds(ready', CallHandle(c, op))
      /\ \A d \in Callers \ {c} :
            /\ Holds(ready', WakeHandle(d)) <=> Holds(ready, WakeHandle(d))
            /\ \A op \in Ops :
                  Holds(ready', CallHandle(d, op)) <=> Holds(ready, CallHandle(d, op))
  BY AtCallOK
<1>1. CallerOK(c)'
  BY <1>a DEF CallerOK
<1>2. ASSUME NEW d \in Callers \ {c} PROVE CallerOK(d)'
  <2>1. CallerOK(d)
    BY <1>0 DEF CallersOK
  <2>2. Busy(d)' <=> Busy(d)
    BY <1>2 DEF Busy
  <2> QED  BY <1>2, <1>a, <2>1, <2>2 DEF CallerOK
<1> QED  BY <1>1, <1>2 DEF CallersOK

(* The call returns, and nothing else about callers changes.               *)
LEMMA ReturnKeepsCallers ==
    ASSUME QueueInv, NEW c \in Callers, AtCall(c), NEW A, Quiet(A), Took(A),
           Return(c), UNCHANGED awaiting, \A r \in RunIds : Live(r) => Live(r)'
    PROVE  CallersOK' /\ AwaitOnce'
<1>0. caller \in [Callers -> {"idle", "queued", "cancelling", "closing"}]
  BY DEF QueueInv, RequestInv, TypeOK
<1>1. caller'[c] = "idle" /\ \A d \in Callers \ {c} : caller'[d] = caller[d]
  BY <1>0 DEF Return
<1>2. \A d \in Callers, r \in RunIds : Waits(r, d)' <=> Waits(r, d)
  BY DEF Waits, Holds
<1>3. \A r \in RunIds : ~Waits(r, c)'
  BY <1>2, AtCallOK
<1>4. ~Busy(c)'
  BY <1>1 DEF Busy
<1>5. CallersOK'
  BY <1>1, <1>2, <1>3, <1>4, CallKeepsCallers
<1> QED  BY <1>5 DEF QueueInv, AwaitOnce

(* The call awaits the run it cancelled.                                   *)
LEMMA AwaitKeepsCallers ==
    ASSUME QueueInv, NEW c \in Callers, AtCall(c), NEW A, Quiet(A), Took(A),
           NEW v \in {"cancelling", "closing"}, caller' = [caller EXCEPT ![c] = v],
           NEW t \in RunIds, Live(t), UNCHANGED run,
           awaiting' = [awaiting EXCEPT ![t] = Append(@, c)]
    PROVE  CallersOK' /\ AwaitOnce'
<1>0. /\ caller \in [Callers -> {"idle", "queued", "cancelling", "closing"}]
      /\ awaiting \in [RunIds -> Seq(Callers)] /\ AwaitOnce
  BY DEF QueueInv, RequestInv, TypeOK
<1>1. Busy(c)' /\ \A d \in Callers \ {c} : caller'[d] = caller[d]
  BY <1>0 DEF Busy
<1>2. /\ awaiting'[t] = Append(awaiting[t], c) /\ awaiting[t] \in Seq(Callers)
      /\ \A r \in RunIds \ {t} : awaiting'[r] = awaiting[r]
  BY <1>0
<1>3. /\ Len(awaiting[t]) \in Nat /\ Len(awaiting'[t]) = Len(awaiting[t]) + 1
      /\ \A n \in 1..Len(awaiting[t]) : awaiting'[t][n] = awaiting[t][n]
      /\ awaiting'[t][Len(awaiting[t]) + 1] = c
  BY <1>2
<1>4. 1..(Len(awaiting[t]) + 1) = 1..Len(awaiting[t]) \cup {Len(awaiting[t]) + 1}
  BY <1>3
<1>5. \A d : Waits(t, d)' <=> Waits(t, d) \/ d = c
  BY <1>3, <1>4 DEF Waits, Holds
<1>6. \A r \in RunIds \ {t}, d \in Callers : Waits(r, d)' <=> Waits(r, d)
  BY <1>2 DEF Waits, Holds
<1>7. \A r \in RunIds : ~Waits(r, c)
  BY AtCallOK
<1>8. Live(t)' /\ \A r \in RunIds : Live(r) => Live(r)'
  BY DEF Live
<1>9. CallersOK'
  <2>1. \A d \in Callers \ {c}, r \in RunIds : Waits(r, d)' <=> Waits(r, d)
    BY <1>5, <1>6
  <2>2. \A r \in RunIds : Waits(r, c)' => r = t
    BY <1>5, <1>6, <1>7
  <2>3. Waits(t, c)'
    BY <1>5
  <2> QED  BY <1>1, <1>8, <2>1, <2>2, <2>3, CallKeepsCallers
<1>10. AwaitOnce'
  <2>1. ASSUME NEW r \in RunIds, NEW m \in 1..Len(awaiting'[r]), awaiting'[r][m] = c
        PROVE  r = t /\ m = Len(awaiting[t]) + 1
    <3>1. r = t
      BY <1>2, <1>7, <2>1 DEF Waits, Holds
    <3>2. m \notin 1..Len(awaiting[t])
      BY <1>3, <1>7, <2>1, <3>1 DEF Waits, Holds
    <3> QED  BY <1>3, <1>4, <2>1, <3>1, <3>2
  <2>2. ASSUME NEW r \in RunIds, NEW m \in 1..Len(awaiting'[r]), awaiting'[r][m] # c
        PROVE  m \in 1..Len(awaiting[r]) /\ awaiting'[r][m] = awaiting[r][m]
    <3>1. CASE r = t
      BY <1>3, <1>4, <2>2, <3>1
    <3>2. CASE r # t
      BY <1>2, <2>2, <3>2
    <3> QED  BY <3>1, <3>2
  <2>3. ASSUME NEW r \in RunIds, NEW s \in RunIds,
               NEW m \in 1..Len(awaiting'[r]), NEW n \in 1..Len(awaiting'[s]),
               awaiting'[r][m] = awaiting'[s][n]
        PROVE  r = s /\ m = n
    <3>1. CASE awaiting'[r][m] = c
      BY <2>1, <2>3, <3>1
    <3>2. CASE awaiting'[r][m] # c
      BY <1>0, <2>2, <2>3, <3>2 DEF AwaitOnce
    <3> QED  BY <3>1, <3>2
  <2> QED  BY <2>3 DEF AwaitOnce
<1> QED  BY <1>9, <1>10
(* The steps of a run that lives on, of an announcement and of the outside *)
(* world leave the callers alone.                                          *)
LEMMA OthersKeepCallers ==
    ASSUME QueueInv, NEW A, Quiet(A),
           \/ Got(A)
           \/ Took(A) /\ \E r \in RunIds : Head(ready) = RunHandle(r)
           \/ Took(A) /\ \E i \in RequestIds : Head(ready) = EmitHandle(i),
           UNCHANGED <<caller, awaiting>>, \A r \in RunIds : Live(r) => Live(r)'
    PROVE  CallersOK' /\ AwaitOnce'
<1>1. ASSUME NEW c \in Callers
      PROVE  /\ Holds(ready', WakeHandle(c)) <=> Holds(ready, WakeHandle(c))
             /\ \A op \in Ops : Holds(ready', CallHandle(c, op)) <=> Holds(ready, CallHandle(c, op))
  <2>1. /\ WakeHandle(c) \in Handles /\ \A op \in Ops : CallHandle(c, op) \in Handles
        /\ WakeHandle(c) \notin A /\ \A op : CallHandle(c, op) \notin A
    BY HandleTypes DEF Quiet
  <2>2. CASE Got(A)
    BY <2>1, <2>2 DEF Got
  <2>3. ASSUME Took(A), NEW h \in Handles, Head(ready) = h,
               \A g \in Handles : Same(g, h) <=> g = h,
               h # WakeHandle(c), \A op \in Ops : h # CallHandle(c, op)
        PROVE  /\ Holds(ready', WakeHandle(c)) <=> Holds(ready, WakeHandle(c))
               /\ \A op \in Ops :
                     Holds(ready', CallHandle(c, op)) <=> Holds(ready, CallHandle(c, op))
    <3>1. ~Same(WakeHandle(c), h) /\ \A op \in Ops : ~Same(CallHandle(c, op), h)
      BY <2>1, <2>3
    <3> QED  BY <2>1, <2>3, <3>1 DEF Took
  <2>4. ASSUME Took(A), NEW r \in RunIds, Head(ready) = RunHandle(r)
        PROVE  /\ Holds(ready', WakeHandle(c)) <=> Holds(ready, WakeHandle(c))
               /\ \A op \in Ops :
                     Holds(ready', CallHandle(c, op)) <=> Holds(ready, CallHandle(c, op))
    BY <2>3, <2>4, SameHandles, HandleTypes, Distinct
  <2>5. ASSUME Took(A), NEW i \in RequestIds, Head(ready) = EmitHandle(i)
        PROVE  /\ Holds(ready', WakeHandle(c)) <=> Holds(ready, WakeHandle(c))
               /\ \A op \in Ops :
                     Holds(ready', CallHandle(c, op)) <=> Holds(ready, CallHandle(c, op))
    BY <2>3, <2>5, SameHandles, HandleTypes, Distinct
  <2> QED  BY <2>2, <2>4, <2>5
<1>2. \A c \in Callers, r \in RunIds : Waits(r, c)' <=> Waits(r, c)
  BY DEF Waits, Holds
<1>3. ASSUME NEW c \in Callers PROVE CallerOK(c)'
  <2>1. CallerOK(c)
    BY DEF QueueInv, CallersOK
  <2>2. Busy(c)' <=> Busy(c)
    BY DEF Busy
  <2> QED  BY <1>1, <1>2, <2>1, <2>2 DEF CallerOK
<1> QED  BY <1>3 DEF CallersOK, QueueInv, AwaitOnce

(* A run that ends hands its callers over to the queue.                    *)
LEMMA EndKeepsCallers ==
    ASSUME QueueInv, NEW r \in RunIds, Took(Wakes(r)), Head(ready) = RunHandle(r),
           awaiting' = [awaiting EXCEPT ![r] = << >>], UNCHANGED caller,
           \A s \in RunIds \ {r} : Live(s) => Live(s)'
    PROVE  CallersOK' /\ AwaitOnce'
<1>0. awaiting \in [RunIds -> Seq(Callers)] /\ AwaitOnce
  BY DEF QueueInv, RequestInv, TypeOK
<1>1. awaiting'[r] = << >> /\ \A s \in RunIds \ {r} : awaiting'[s] = awaiting[s]
  BY <1>0
<1>2. \A c \in Callers : ~Waits(r, c)' /\ \A s \in RunIds \ {r} : Waits(s, c)' <=> Waits(s, c)
  BY <1>1 DEF Waits, Holds
<1>3. \A s \in RunIds \ {r}, c \in Callers : ~(Waits(r, c) /\ Waits(s, c))
  BY <1>0 DEF AwaitOnce, Waits, Holds
<1>4. ASSUME NEW c \in Callers
      PROVE  /\ Holds(ready', WakeHandle(c)) <=> Holds(ready, WakeHandle(c)) \/ Waits(r, c)
             /\ \A op \in Ops : Holds(ready', CallHandle(c, op)) <=> Holds(ready, CallHandle(c, op))
  <2>1. /\ WakeHandle(c) \in Handles /\ \A op \in Ops : CallHandle(c, op) \in Handles
        /\ ~Same(WakeHandle(c), RunHandle(r)) /\ \A op \in Ops : ~Same(CallHandle(c, op), RunHandle(r))
    BY HandleTypes, SameHandles, Distinct
  <2>2. /\ WakeHandle(c) \in Wakes(r) <=> Waits(r, c)
        /\ \A op \in Ops : CallHandle(c, op) \notin Wakes(r)
    BY Distinct DEF Wakes
  <2> QED  BY <2>1, <2>2 DEF Took
<1>5. ASSUME NEW c \in Callers PROVE CallerOK(c)'
  <2>1. CallerOK(c) /\ (Busy(c)' <=> Busy(c))
    BY DEF QueueInv, CallersOK, Busy
  <2>2. CASE Waits(r, c)
    BY <1>2, <1>3, <1>4, <2>1, <2>2 DEF CallerOK
  <2>3. CASE ~Waits(r, c)
    BY <1>2, <1>4, <2>1, <2>3 DEF CallerOK
  <2> QED  BY <2>2, <2>3
<1>6. AwaitOnce'
  <2>1. \A s \in RunIds : \A n \in 1..Len(awaiting'[s]) : s # r /\ awaiting'[s] = awaiting[s]
    BY <1>1
  <2> QED  BY <1>0, <2>1 DEF AwaitOnce
<1> QED  BY <1>5, <1>6 DEF CallersOK

(* A request from outside puts an idle caller in the queue.                *)
LEMMA ArriveKeepsCallers ==
    ASSUME QueueInv, NEW c \in Callers, NEW op \in Ops, Arrive(c, op)
    PROVE  Got({CallHandle(c, op)}) /\ CallersOK' /\ AwaitOnce'
<1>0. /\ caller \in [Callers -> {"idle", "queued", "cancelling", "closing"}]
      /\ ready \in Seq(Handles) /\ CallerOK(c) /\ caller[c] = "idle"
      /\ ready' = Append(ready, CallHandle(c, op))
      /\ caller' = [caller EXCEPT ![c] = "queued"] /\ UNCHANGED <<awaiting, run>>
  BY DEF QueueInv, RequestInv, TypeOK, CallersOK, Arrive
<1>1. /\ ~Holds(ready, WakeHandle(c)) /\ \A o \in Ops : ~Holds(ready, CallHandle(c, o))
      /\ \A r \in RunIds : ~Waits(r, c)
  BY <1>0 DEF CallerOK, Busy
<1>2. CallHandle(c, op) \in Handles /\ \A i \in RequestIds : CallHandle(c, op) # EmitHandle(i)
  BY HandleTypes, Distinct
<1>3. Got({CallHandle(c, op)})
  BY <1>0, <1>1, <1>2, NewHandles, GotHandle
<1>4. \A d \in Callers, r \in RunIds : (Waits(r, d)' <=> Waits(r, d)) /\ (Live(r)' <=> Live(r))
  BY <1>0 DEF Waits, Holds, Live
<1>5. ASSUME NEW d \in Callers PROVE CallerOK(d)'
  <2>1. /\ Holds(ready', WakeHandle(d)) <=> Holds(ready, WakeHandle(d))
        /\ \A o \in Ops : Holds(ready', CallHandle(d, o)) <=>
                             Holds(ready, CallHandle(d, o)) \/ (d = c /\ o = op)
    BY <1>3, Distinct DEF Got
  <2>2. CASE d = c
    <3>1. caller'[c] = "queued" /\ ~Busy(c)'
      BY <1>0 DEF Busy
    <3> QED  BY <1>1, <1>4, <2>1, <2>2, <3>1 DEF CallerOK
  <2>3. CASE d # c
    <3>1. caller'[d] = caller[d] /\ (Busy(d)' <=> Busy(d)) /\ CallerOK(d)
      BY <1>0, <2>3 DEF Busy, QueueInv, CallersOK
    <3> QED  BY <1>4, <2>1, <2>3, <3>1 DEF CallerOK
  <2> QED  BY <2>2, <2>3
<1> QED  BY <1>0, <1>3, <1>5 DEF CallersOK, QueueInv, AwaitOnce
---------------------------------------------------------------------------
(* Runs and requests                                                       *)

(* What a step that takes the head does to the wakeups of runs and to the  *)
(* announcements.                                                          *)
LEMMA TookRuns ==
    ASSUME QueueInv, NEW A, Took(A)
    PROVE  /\ \A r \in RunIds : Scheduled(r)' <=>
                 (Scheduled(r) /\ Head(ready) # RunHandle(r)) \/ RunHandle(r) \in A
           /\ \A i \in RequestIds : Holds(ready', EmitHandle(i)) <=>
                 (Holds(ready, EmitHandle(i)) /\ Head(ready) # EmitHandle(i)) \/ EmitHandle(i) \in A
           /\ Holds(ready, Head(ready))
<1>0. Head(ready) \in Handles /\ ready # << >> /\ ready \in Seq(Handles)
  BY RestOK DEF Took, QueueInv, RequestInv, TypeOK
<1>1. Holds(ready, Head(ready))
  BY <1>0, PopQueue
<1>2. \A r \in RunIds : Same(RunHandle(r), Head(ready)) <=> Head(ready) = RunHandle(r)
  BY <1>0, SameHandles, HandleTypes
<1>3. \A i \in RequestIds : Same(EmitHandle(i), Head(ready)) <=> Head(ready) = EmitHandle(i)
  BY <1>0, SameHandles, HandleTypes
<1>4. \A r \in RunIds : Scheduled(r)' <=> Holds(ready', RunHandle(r))
  BY DEF Scheduled
<1> QED  BY <1>1, <1>2, <1>3, <1>4 DEF Took, Scheduled

(* What was added is scheduled, and nothing else.                          *)
LEMMA GotRuns ==
    ASSUME NEW A, Got(A)
    PROVE  /\ \A r \in RunIds : Scheduled(r)' <=> Scheduled(r) \/ RunHandle(r) \in A
           /\ \A i \in RequestIds : Holds(ready', EmitHandle(i)) <=>
                 Holds(ready, EmitHandle(i)) \/ EmitHandle(i) \in A
<1>1. \A r \in RunIds : Scheduled(r)' <=> Holds(ready', RunHandle(r))
  BY DEF Scheduled
<1> QED  BY <1>1 DEF Got, Scheduled

(* Typing facts, as the lemmas below use them.                             *)
LEMMA QueueTyping ==
    ASSUME QueueInv
    PROVE  /\ run \in [RunIds -> RunPc] /\ cancelReq \in [RunIds -> BOOLEAN]
           /\ outcome \in [RequestIds -> {"unasked", "pending", "allowed", "denied"}]
           /\ Active => request.by \in RunIds /\ request.id \in RequestIds
           /\ RunIds \subseteq Nat \ {0} /\ RequestIds \subseteq Nat \ {0}
           /\ launched \in Nat /\ asked \in Nat
           /\ \A r \in RunIds : run[r] = "asking" => Active /\ request.by = r
           /\ NoRequest.id = 0 /\ NoRequest.by = 0
BY BoundsAssumption
DEF QueueInv, RequestInv, TypeOK, Active, RunIds, RequestIds, RequestHasWaiter, NoRequest, NoRun

(* Steps that touch no run and no request.                                 *)
LEMMA IdleKeepsRuns ==
    ASSUME QueueInv, UNCHANGED <<run, cancelReq, request, outcome>>,
           \A r \in RunIds : Scheduled(r) => Scheduled(r)',
           \A r \in RunIds : Scheduled(r)' => Scheduled(r) \/ run[r] \in {"working", "unwinding"}
    PROVE  RunsOK'
<1>1. ASSUME NEW r \in RunIds PROVE RunOK(r)'
  <2>1. RunOK(r) /\ (Live(r)' <=> Live(r)) /\ (Pending' <=> Pending)
    BY DEF QueueInv, RunsOK, Live, Pending, Active
  <2>2. run[r] \in {"working", "unwinding"} =>
           Live(r) /\ run[r] # "created" /\ run[r] # "asking"
    BY DEF Live
  <2>3. CASE run[r] \in {"working", "unwinding"}
    BY <2>1, <2>2, <2>3 DEF RunOK
  <2>4. CASE run[r] \notin {"working", "unwinding"}
    BY <2>1, <2>4 DEF RunOK
  <2> QED  BY <2>3, <2>4
<1> QED  BY <1>1 DEF RunsOK

(* Steps that settle what is pending, and cancel the runs B.               *)
LEMMA SettleKeepsRuns ==
    ASSUME QueueInv, UNCHANGED <<run, request>>, ~Pending', NEW B,
           \A r \in RunIds : Scheduled(r)' <=>
              \/ Scheduled(r)
              \/ Pending /\ r = request.by
              \/ r \in B,
           \A r \in RunIds : cancelReq'[r] <=> cancelReq[r] \/ r \in B,
           \A r \in RunIds : r \in B => Live(r)
    PROVE  RunsOK'
<1>1. ASSUME NEW r \in RunIds PROVE RunOK(r)'
  <2>1. RunOK(r) /\ (Live(r)' <=> Live(r))
    BY DEF QueueInv, RunsOK, Live
  <2>2. Pending => run[request.by] = "asking"
    BY PendingOK DEF Asking
  <2>3. run[r] = "asking" => request.by = r /\ Live(r)
    BY QueueTyping DEF Live
  <2> QED  BY <2>1, <2>2, <2>3 DEF RunOK
<1> QED  BY <1>1 DEF RunsOK

(* A run that is launched.                                                 *)
LEMMA LaunchKeepsRuns ==
    ASSUME QueueInv, NEW t \in RunIds, run[t] = "unborn",
           run' = [run EXCEPT ![t] = "created"], UNCHANGED <<cancelReq, request, outcome>>,
           \A r \in RunIds : Scheduled(r)' <=> Scheduled(r) \/ r = t
    PROVE  RunsOK'
<1>1. ASSUME NEW r \in RunIds PROVE RunOK(r)'
  <2>1. RunOK(r) /\ (Pending' <=> Pending)
    BY DEF QueueInv, RunsOK, Pending, Active
  <2>2. run'[r] = IF r = t THEN "created" ELSE run[r]
    BY QueueTyping
  <2>3. Live(r)' <=> Live(r) \/ r = t
    BY <2>2 DEF Live
  <2> QED  BY <2>1, <2>2, <2>3 DEF RunOK
<1> QED  BY <1>1 DEF RunsOK

(* A step of run t: it is parked on a new request, or works, or ends.      *)
LEMMA StepKeepsRuns ==
    ASSUME QueueInv, NEW t \in RunIds, NEW pc, run' = [run EXCEPT ![t] = pc],
           ~cancelReq'[t], \A r \in RunIds \ {t} : cancelReq'[r] = cancelReq[r],
           \A r \in RunIds : Scheduled(r)' <=> Scheduled(r) /\ r # t,
           \/ pc \in {"working", "unwinding", "done"}
           \/ pc = "asking" /\ Pending',
           \A r \in RunIds \ {t} : run[r] = "asking" => (Pending' <=> Pending)
    PROVE  RunsOK'
<1>1. ASSUME NEW r \in RunIds PROVE RunOK(r)'
  <2>1. RunOK(r)
    BY DEF QueueInv, RunsOK
  <2>2. run'[r] = IF r = t THEN pc ELSE run[r]
    BY QueueTyping
  <2>3. CASE r = t
    BY <2>2, <2>3 DEF RunOK
  <2>4. CASE r # t
    BY <2>1, <2>2, <2>4 DEF RunOK, Live
  <2> QED  BY <2>3, <2>4
<1> QED  BY <1>1 DEF RunsOK

(* Steps that touch no request, but may clear one that is settled.         *)
LEMMA IdleKeepsRequests ==
    ASSUME QueueInv, UNCHANGED <<outcome, reported, asked>>,
           \/ UNCHANGED request
           \/ ~Pending,
           \A i \in RequestIds : Holds(ready', EmitHandle(i)) <=> Holds(ready, EmitHandle(i))
    PROVE  RequestsOK'
<1>1. ASSUME NEW i \in RequestIds PROVE RequestOK(i)'
  <2>1. RequestOK(i)
    BY DEF QueueInv, RequestsOK
  <2>2. outcome[i] = "pending" => Pending
    BY <2>1, QueueTyping DEF RequestOK, Pending, Active
  <2> QED  BY <2>1, <2>2 DEF RequestOK, Settled
<1> QED  BY <1>1 DEF RequestsOK

(* A verdict on the pending request.                                       *)
LEMMA SettleKeepsRequests ==
    ASSUME QueueInv, Pending, UNCHANGED <<request, reported, asked>>,
           NEW v \in {"allowed", "denied"}, outcome' = [outcome EXCEPT ![request.id] = v],
           \A i \in RequestIds : Holds(ready', EmitHandle(i)) <=>
              Holds(ready, EmitHandle(i)) \/ i = request.id
    PROVE  RequestsOK' /\ ~Pending'
<1>0. request.id \in RequestIds /\ outcome[request.id] = "pending"
  BY PendingOK
<1>1. \A i \in RequestIds : outcome'[i] = IF i = request.id THEN v ELSE outcome[i]
  BY <1>0, QueueTyping
<1>2. ASSUME NEW i \in RequestIds PROVE RequestOK(i)'
  <2>1. RequestOK(i)
    BY DEF QueueInv, RequestsOK
  <2>2. CASE i = request.id
    <3>1. Settled(i)' /\ ~Settled(i) /\ outcome'[i] # "unasked" /\ outcome'[i] # "pending"
      BY <1>0, <1>1, <2>2 DEF Settled
    <3> QED  BY <2>1, <2>2, <3>1 DEF RequestOK
  <2>3. CASE i # request.id
    <3>1. outcome'[i] = outcome[i] /\ (Settled(i)' <=> Settled(i))
      BY <1>1, <2>3 DEF Settled
    <3> QED  BY <2>1, <2>3, <3>1 DEF RequestOK
  <2> QED  BY <2>2, <2>3
<1>3. ~Pending'
  BY <1>0, <1>1 DEF Pending
<1> QED  BY <1>2, <1>3 DEF RequestsOK
---------------------------------------------------------------------------
(* Every action keeps the invariant of the queue                           *)

QueueRest == /\ Once(ready) /\ InOrder(ready, Asking)
             /\ CallersOK /\ AwaitOnce /\ RunsOK /\ RequestsOK

(* The queue keeps each handle once and in order, whether it grew or       *)
(* shrank.                                                                 *)
LEMMA OrderKept ==
    ASSUME NEW A, \/ Got(A) /\ Asking \subseteq Asking'
                  \/ Took(A) /\ \A r \in Asking : RunHandle(r) # Head(ready) => r \in Asking'
    PROVE  Once(ready)' /\ InOrder(ready, Asking)'
<1>1. CASE Got(A) /\ Asking \subseteq Asking'
  BY <1>1 DEF Got, InOrder, Once
<1>2. CASE Took(A) /\ \A r \in Asking : RunHandle(r) # Head(ready) => r \in Asking'
  BY <1>2 DEF Took, InOrder, Once
<1> QED  BY <1>1, <1>2

(* A call that changes at most the state of the session.                   *)
LEMMA PlainCallKeepsQueue ==
    ASSUME QueueInv, NEW c \in Callers, AtCall(c), ready' = Rest, Return(c),
           UNCHANGED <<run, cancelReq, awaiting, request, outcome, reported, asked>>
    PROVE  QueueRest' /\ Took({})
<1>1. ready # << >>
  BY DEF AtCall, AtHead
<1>2. Took({}) /\ Quiet({})
  BY <1>1, TookNothing, QuietHandles
<1>3. \A r \in RunIds : Head(ready) # RunHandle(r)
  BY <1>2, AtCallOK
<1>4. \A i \in RequestIds : Head(ready) # EmitHandle(i)
  BY Distinct DEF AtCall, AtHead
<1>5. /\ \A r \in RunIds : Scheduled(r)' <=> Scheduled(r)
      /\ \A i \in RequestIds : Holds(ready', EmitHandle(i)) <=> Holds(ready, EmitHandle(i))
  BY <1>2, <1>3, <1>4, TookRuns
<1>6. CallersOK' /\ AwaitOnce'
  BY <1>2, ReturnKeepsCallers DEF Live
<1>7. RunsOK'
  BY <1>5, IdleKeepsRuns
<1>8. RequestsOK'
  BY <1>5, IdleKeepsRequests
<1>9. Once(ready)' /\ InOrder(ready, Asking)'
  BY <1>2, OrderKept DEF Asking
<1> QED  BY <1>2, <1>6, <1>7, <1>8, <1>9 DEF QueueRest

(* A call that settles what is pending.                                    *)
LEMMA SettlingCallKeepsQueue ==
    ASSUME QueueInv, NEW c \in Callers, AtCall(c), Pending, ready' = AfterDeny(Rest),
           Return(c), NEW v \in {"allowed", "denied"},
           outcome' = [outcome EXCEPT ![request.id] = v],
           UNCHANGED <<run, cancelReq, awaiting, request, reported, asked>>
    PROVE  QueueRest' /\ Took(Denied)
<1>1. ready # << >> /\ \A r : Head(ready) # RunHandle(r)
  BY Distinct DEF AtCall, AtHead
<1>2. Took(Denied) /\ Quiet(Denied)
  BY <1>1, TookDenied, QuietHandles
<1>4. \A i \in RequestIds : Head(ready) # EmitHandle(i)
  BY Distinct DEF AtCall, AtHead
<1>5. /\ \A r \in RunIds : Scheduled(r)' <=> Scheduled(r) \/ r = request.by
      /\ \A i \in RequestIds : Holds(ready', EmitHandle(i)) <=>
            Holds(ready, EmitHandle(i)) \/ i = request.id
  <2>1. /\ \A r : RunHandle(r) \in Denied <=> r = request.by
        /\ \A i : EmitHandle(i) \in Denied <=> i = request.id
    BY Distinct DEF Denied
  <2> QED  BY <1>1, <1>2, <1>4, <2>1, TookRuns
<1>6. CallersOK' /\ AwaitOnce'
  BY <1>2, ReturnKeepsCallers DEF Live
<1>8. RequestsOK' /\ ~Pending'
  BY <1>5, SettleKeepsRequests
<1>7. RunsOK'
  <2> DEFINE B == {}
  <2>1. \A r \in RunIds : Scheduled(r)' <=>
              \/ Scheduled(r)
              \/ Pending /\ r = request.by
              \/ r \in B
    BY <1>5
  <2>2. /\ B \in SUBSET RunIds
        /\ \A r \in RunIds : cancelReq'[r] <=> cancelReq[r] \/ r \in B
        /\ \A r \in RunIds : r \in B => Live(r)
    OBVIOUS
  <2> HIDE DEF B
  <2> QED  BY <1>8, <2>1, <2>2, SettleKeepsRuns
<1>9. Once(ready)' /\ InOrder(ready, Asking)'
  BY <1>2, OrderKept DEF Asking
<1> QED  BY <1>2, <1>6, <1>7, <1>8, <1>9 DEF QueueRest

(* cancel() and close() with no live run.                                  *)
LEMMA IdleCallKeepsQueue ==
    ASSUME QueueInv, NEW c \in Callers, AtCall(c), ready' = AfterDeny(Rest),
           Return(c), outcome' = DeniedOutcome,
           UNCHANGED <<run, cancelReq, awaiting, request, reported, asked>>
    PROVE  QueueRest' /\ Took(Denied)
<1>1. CASE Pending
  BY <1>1, SettlingCallKeepsQueue DEF DeniedOutcome
<1>2. CASE ~Pending
  BY <1>2, PlainCallKeepsQueue DEF DeniedOutcome, AfterDeny, Denied
<1> QED  BY <1>1, <1>2

(* cancel() and close() with a live run.                                   *)
LEMMA CancellingCallKeepsQueue ==
    ASSUME QueueInv, NEW c \in Callers, AtCall(c), Running,
           outcome' = DeniedOutcome,
           cancelReq' = [cancelReq EXCEPT ![runTask] = TRUE],
           ready' = Woken(AfterDeny(Rest), runTask),
           awaiting' = [awaiting EXCEPT ![runTask] = Append(@, c)],
           NEW v \in {"cancelling", "closing"}, caller' = [caller EXCEPT ![c] = v],
           UNCHANGED <<run, request, reported, asked>>
    PROVE  QueueRest' /\ Took(Denied \cup {RunHandle(runTask)})
<1> DEFINE A == Denied \cup {RunHandle(runTask)}
<1>0. runTask \in RunIds /\ Live(runTask)
  BY DEF Running, QueueInv, RequestInv, TypeOK
<1>1. ready # << >> /\ \A r : Head(ready) # RunHandle(r)
  BY Distinct DEF AtCall, AtHead
<1>2. Took(A) /\ Quiet(A)
  BY <1>0, <1>1, TookDenied, QuietHandles
<1>4. \A i \in RequestIds : Head(ready) # EmitHandle(i)
  BY Distinct DEF AtCall, AtHead
<1>5. /\ \A r \in RunIds : Scheduled(r)' <=>
            Scheduled(r) \/ (Pending /\ r = request.by) \/ r \in {runTask}
      /\ \A i \in RequestIds : Holds(ready', EmitHandle(i)) <=>
            Holds(ready, EmitHandle(i)) \/ (Pending /\ i = request.id)
  <2>1. /\ \A r : RunHandle(r) \in A <=> (Pending /\ r = request.by) \/ r = runTask
        /\ \A i : EmitHandle(i) \in A <=> Pending /\ i = request.id
    BY Distinct DEF Denied
  <2> HIDE DEF A
  <2> QED  BY <1>1, <1>2, <1>4, <2>1, TookRuns
<1>6. CallersOK' /\ AwaitOnce'
  <2> HIDE DEF A
  <2> QED  BY <1>0, <1>2, AwaitKeepsCallers
<1>8. RequestsOK' /\ ~Pending'
  <2>1. CASE Pending
    BY <1>5, <2>1, SettleKeepsRequests DEF DeniedOutcome
  <2>2. CASE ~Pending
    <3>1. UNCHANGED outcome /\ ~Pending'
      BY <2>2 DEF DeniedOutcome, Pending, Active
    <3> QED  BY <1>5, <2>2, <3>1, IdleKeepsRequests
  <2> QED  BY <2>1, <2>2
<1>7. RunsOK'
  <2>1. \A r \in RunIds : cancelReq'[r] <=> cancelReq[r] \/ r \in {runTask}
    BY <1>0, QueueTyping
  <2>2. {runTask} \in SUBSET RunIds /\ \A r \in RunIds : r \in {runTask} => Live(r)
    BY <1>0
  <2> QED  BY <1>5, <1>8, <2>1, <2>2, SettleKeepsRuns
<1>9. Once(ready)' /\ InOrder(ready, Asking)'
  <2> HIDE DEF A
  <2> QED  BY <1>2, OrderKept DEF Asking
<1> QED  BY <1>2, <1>6, <1>7, <1>8, <1>9 DEF QueueRest
(* A start creates a run no one knew of.                                   *)
LEMMA LaunchKeepsQueue ==
    ASSUME QueueInv, NEW c \in Callers, NEW op \in Ops, Launch(c, op)
    PROVE  /\ QueueRest' /\ Took({RunHandle(launched + 1)}) /\ AtCall(c)
           /\ launched + 1 \in RunIds /\ run[launched + 1] = "unborn"
<1> DEFINE t == launched + 1
<1>0. /\ t \in RunIds /\ ready' = Append(Rest, RunHandle(t)) /\ Return(c)
      /\ run' = [run EXCEPT ![t] = "created"] /\ AtCall(c)
      /\ UNCHANGED <<cancelReq, awaiting, request, outcome, reported, asked>>
  BY BoundsAssumption DEF Launch, AtCall, approvalVars, QueueInv, RequestInv, TypeOK, RunIds
<1>1. run[t] = "unborn" /\ RunOK(t)
  BY <1>0, QueueTyping DEF QueueInv, RequestInv, Fresh, RunsOK
<1> HIDE DEF t
<1>2. /\ ready # << >> /\ ~Scheduled(t) /\ \A r : Head(ready) # RunHandle(r)
      /\ \A i : Head(ready) # EmitHandle(i)
  BY <1>0, <1>1, Distinct DEF AtCall, AtHead, RunOK, Live
<1>3. Took({RunHandle(t)}) /\ Quiet({RunHandle(t)})
  BY <1>0, <1>2, TookRun, QuietHandles
<1>4. /\ \A r \in RunIds : Scheduled(r)' <=> Scheduled(r) \/ r = t
      /\ \A i \in RequestIds : Holds(ready', EmitHandle(i)) <=> Holds(ready, EmitHandle(i))
  <2>1. /\ \A r : RunHandle(r) \in {RunHandle(t)} <=> r = t
        /\ \A i : EmitHandle(i) \notin {RunHandle(t)}
    BY Distinct
  <2> QED  BY <1>2, <1>3, <2>1, TookRuns
<1>5. \A r \in RunIds : run'[r] = IF r = t THEN "created" ELSE run[r]
  BY <1>0, QueueTyping
<1>6. CallersOK' /\ AwaitOnce'
  <2>1. \A r \in RunIds : Live(r) => Live(r)'
    BY <1>5 DEF Live
  <2> QED  BY <1>0, <1>3, <2>1, ReturnKeepsCallers
<1>7. RunsOK'
  BY <1>0, <1>1, <1>4, LaunchKeepsRuns
<1>8. RequestsOK'
  BY <1>0, <1>4, IdleKeepsRequests
<1>9. Once(ready)' /\ InOrder(ready, Asking)'
  <2>1. Asking \subseteq Asking'
    BY <1>1, <1>5 DEF Asking
  <2> QED  BY <1>3, <2>1, OrderKept
<1> QED  BY <1>0, <1>1, <1>3, <1>6, <1>7, <1>8, <1>9 DEF QueueRest, t

(* The world outside.                                                      *)
LEMMA ArriveKeepsQueue ==
    ASSUME QueueInv, NEW c \in Callers, NEW op \in Ops, Arrive(c, op)
    PROVE  QueueRest' /\ Got({CallHandle(c, op)})
<1>0. UNCHANGED <<run, cancelReq, request, outcome, reported, asked>>
  BY DEF Arrive, approvalVars
<1>1. Got({CallHandle(c, op)}) /\ CallersOK' /\ AwaitOnce'
  BY ArriveKeepsCallers
<1>2. /\ \A r \in RunIds : Scheduled(r)' <=> Scheduled(r)
      /\ \A i \in RequestIds : Holds(ready', EmitHandle(i)) <=> Holds(ready, EmitHandle(i))
  <2>1. /\ \A r : RunHandle(r) \notin {CallHandle(c, op)}
        /\ \A i : EmitHandle(i) \notin {CallHandle(c, op)}
    BY Distinct
  <2> QED  BY <1>1, <2>1, GotRuns
<1>3. RunsOK'
  BY <1>0, <1>2, IdleKeepsRuns
<1>4. RequestsOK'
  BY <1>0, <1>2, IdleKeepsRequests
<1>5. Once(ready)' /\ InOrder(ready, Asking)'
  BY <1>0, <1>1, OrderKept DEF Asking
<1> QED  BY <1>1, <1>3, <1>4, <1>5 DEF QueueRest

(* The completion of a run's I/O queues its handle and disturbs nothing    *)
(* else.                                                                   *)
LEMMA IoKeepsQueue ==
    ASSUME QueueInv, NEW t \in RunIds, IoCompletes(t)
    PROVE  QueueRest' /\ Got({RunHandle(t)})
<1>0. /\ UNCHANGED <<run, cancelReq, awaiting, caller, request, outcome, reported, asked>>
      /\ ready' = Append(ready, RunHandle(t)) /\ ~Holds(ready, RunHandle(t))
      /\ run[t] \in {"working", "unwinding"}
  BY DEF IoCompletes, approvalVars, Scheduled
<1>1. /\ RunHandle(t) \in Handles /\ \A i \in RequestIds : RunHandle(t) # EmitHandle(i)
      /\ New(ready, RunHandle(t))
  BY <1>0, HandleTypes, Distinct, NewHandles DEF QueueInv, RequestInv, TypeOK
<1>2. Got({RunHandle(t)}) /\ Quiet({RunHandle(t)})
  BY <1>0, <1>1, GotHandle, QuietHandles
<1>3. /\ \A r \in RunIds : Scheduled(r)' <=> Scheduled(r) \/ r = t
      /\ \A i \in RequestIds : Holds(ready', EmitHandle(i)) <=> Holds(ready, EmitHandle(i))
  <2>1. /\ \A r : RunHandle(r) \in {RunHandle(t)} <=> r = t
        /\ \A i : EmitHandle(i) \notin {RunHandle(t)}
    BY Distinct
  <2> QED  BY <1>2, <2>1, GotRuns
<1>4. CallersOK' /\ AwaitOnce'
  BY <1>0, <1>2, OthersKeepCallers DEF Live
<1>5. RunsOK'
  BY <1>0, <1>3, IdleKeepsRuns
<1>6. RequestsOK'
  BY <1>0, <1>3, IdleKeepsRequests
<1>7. Once(ready)' /\ InOrder(ready, Asking)'
  BY <1>0, <1>2, OrderKept DEF Asking
<1> QED  BY <1>2, <1>4, <1>5, <1>6, <1>7 DEF QueueRest

(* The task that publishes a verdict.                                      *)
LEMMA EmitKeepsQueue ==
    ASSUME QueueInv, NEW j \in RequestIds, EmitResolved(j)
    PROVE  QueueRest' /\ Took({}) /\ Head(ready) = EmitHandle(j)
<1>0. /\ UNCHANGED <<run, cancelReq, awaiting, caller, request, outcome, asked>>
      /\ reported' = reported \cup {j} /\ ready' = Rest
      /\ ready # << >> /\ Head(ready) = EmitHandle(j)
  BY DEF EmitResolved, AtHead
<1>1. Took({}) /\ Quiet({}) /\ \A r : Head(ready) # RunHandle(r)
  BY <1>0, TookNothing, QuietHandles, Distinct
<1>2. /\ \A r \in RunIds : Scheduled(r)' <=> Scheduled(r)
      /\ \A i \in RequestIds : Holds(ready', EmitHandle(i)) <=> Holds(ready, EmitHandle(i)) /\ i # j
      /\ Holds(ready, EmitHandle(j))
  BY <1>0, <1>1, TookRuns, Distinct
<1>3. CallersOK' /\ AwaitOnce'
  BY <1>0, <1>1, OthersKeepCallers DEF Live
<1>4. RunsOK'
  BY <1>0, <1>2, IdleKeepsRuns
<1>5. ASSUME NEW i \in RequestIds PROVE RequestOK(i)'
  <2>1. RequestOK(i) /\ (Settled(i)' <=> Settled(i))
    BY <1>0 DEF QueueInv, RequestsOK, Settled
  <2> QED  BY <1>0, <1>2, <2>1 DEF RequestOK
<1>6. Once(ready)' /\ InOrder(ready, Asking)'
  BY <1>0, <1>1, OrderKept DEF Asking
<1> QED  BY <1>0, <1>1, <1>3, <1>4, <1>5, <1>6 DEF QueueRest, RequestsOK
(* A run at the head is live, and its request, if it has one, is settled.  *)
LEMMA AtRunOK ==
    ASSUME QueueInv, NEW t \in RunIds, AtHead(RunHandle(t))
    PROVE  /\ ready # << >> /\ Head(ready) = RunHandle(t) /\ Live(t)
           /\ run[t] = "asking" => ~Pending
           /\ Cleared(t) = request \/ ~Pending
           /\ Cleared(t) = NoRequest => ~Pending
           /\ \A r \in RunIds \ {t} : run[r] = "asking" => Cleared(t) = request
           /\ \A i \in RequestIds : Head(ready) # EmitHandle(i)
           /\ \A r \in RunIds \ {t} : Head(ready) # RunHandle(r)
<1>1. ready # << >> /\ Head(ready) = RunHandle(t) /\ ready \in Seq(Handles)
  BY DEF AtHead, QueueInv, RequestInv, TypeOK
<1>2. Scheduled(t) /\ RunOK(t)
  BY <1>1, PopQueue DEF Scheduled, QueueInv, RunsOK
<1>3. \A r \in RunIds \ {t} : run[r] = "asking" => run[t] # "asking"
  BY QueueTyping
<1>4. run[t] = "asking" => ~Pending
  BY <1>2 DEF RunOK
<1> QED  BY <1>1, <1>2, <1>3, <1>4, Distinct DEF RunOK, Cleared, Pending, Active

(* A run that works on, or unwinds.                                        *)
LEMMA WorkKeepsQueue ==
    ASSUME QueueInv, NEW t \in RunIds, AtHead(RunHandle(t)), ready' = Rest,
           NEW pc \in {"working", "unwinding"}, run' = [run EXCEPT ![t] = pc],
           ~cancelReq'[t], \A r \in RunIds \ {t} : cancelReq'[r] = cancelReq[r],
           request' = Cleared(t),
           UNCHANGED <<awaiting, caller, outcome, reported, asked>>
    PROVE  QueueRest' /\ Took({})
<1>1. Took({}) /\ Quiet({})
  BY AtRunOK, TookNothing, QuietHandles
<1>2. /\ \A r \in RunIds : Scheduled(r)' <=> Scheduled(r) /\ r # t
      /\ \A i \in RequestIds : Holds(ready', EmitHandle(i)) <=> Holds(ready, EmitHandle(i))
  BY <1>1, AtRunOK, TookRuns
<1>3. \A r \in RunIds : run'[r] = IF r = t THEN pc ELSE run[r]
  BY QueueTyping
<1>4. CallersOK' /\ AwaitOnce'
  <2>1. \A r \in RunIds : Live(r) => Live(r)'
    BY <1>3 DEF Live
  <2> QED  BY <1>1, <2>1, AtRunOK, OthersKeepCallers
<1>5. RunsOK'
  <2>1. \A r \in RunIds \ {t} : run[r] = "asking" => (Pending' <=> Pending)
    BY AtRunOK DEF Pending, Active
  <2>2. pc \in {"working", "unwinding", "done"}
    OBVIOUS
  <2> QED  BY <1>2, <2>1, <2>2, StepKeepsRuns
<1>6. RequestsOK'
  BY <1>2, AtRunOK, IdleKeepsRequests
<1>7. Once(ready)' /\ InOrder(ready, Asking)'
  <2>1. \A r \in Asking : RunHandle(r) # Head(ready) => r \in Asking'
    BY <1>3, AtRunOK DEF Asking
  <2> QED  BY <1>1, <2>1, OrderKept
<1> QED  BY <1>1, <1>4, <1>5, <1>6, <1>7 DEF QueueRest

(* A run that asks.                                                        *)
LEMMA AskKeepsQueue ==
    ASSUME QueueInv, NEW t \in RunIds, Asks(t)
    PROVE  QueueRest' /\ Took({}) /\ AtHead(RunHandle(t))
<1> DEFINE j == asked + 1
<1>0. /\ AtHead(RunHandle(t)) /\ ready' = Rest /\ ~cancelReq[t] /\ Cleared(t) = NoRequest
      /\ asked' = j /\ request' = [id |-> j, by |-> t] /\ j \in RequestIds
      /\ outcome' = [outcome EXCEPT ![j] = "pending"] /\ run' = [run EXCEPT ![t] = "asking"]
      /\ UNCHANGED <<cancelReq, awaiting, caller, reported>>
  BY BoundsAssumption DEF Asks, Steps, QueueInv, RequestInv, TypeOK, RequestIds
<1>1. Took({}) /\ Quiet({})
  BY <1>0, AtRunOK, TookNothing, QuietHandles
<1>2. /\ \A r \in RunIds : Scheduled(r)' <=> Scheduled(r) /\ r # t
      /\ \A i \in RequestIds : Holds(ready', EmitHandle(i)) <=> Holds(ready, EmitHandle(i))
  BY <1>0, <1>1, AtRunOK, TookRuns
<1>3. \A r \in RunIds : run'[r] = IF r = t THEN "asking" ELSE run[r]
  BY <1>0, QueueTyping
<1>4. CallersOK' /\ AwaitOnce'
  <2>1. \A r \in RunIds : Live(r) => Live(r)'
    BY <1>3 DEF Live
  <2> QED  BY <1>0, <1>1, <2>1, AtRunOK, OthersKeepCallers
<1>a. /\ outcome[j] = "unasked" /\ j \in Nat \ {0} /\ j > asked
      /\ \A i \in RequestIds : outcome'[i] = IF i = j THEN "pending" ELSE outcome[i]
  BY <1>0, QueueTyping DEF QueueInv, RequestInv, Fresh
<1>b. request'.id = j /\ request' # NoRequest
  <2>1. [id |-> j, by |-> t].id = j /\ NoRequest.id # j
    BY <1>a, QueueTyping
  <2> QED  BY <1>0, <2>1
<1>c. Pending'
  BY <1>0, <1>a, <1>b DEF Pending, Active
<1>d. ~Pending /\ \A r \in RunIds \ {t} : run[r] # "asking"
  <2>1. ~Pending
    BY <1>0, AtRunOK
  <2>2. ASSUME NEW r \in RunIds \ {t}, run[r] = "asking" PROVE FALSE
    <3>1. request = NoRequest
      BY <1>0, <2>2, AtRunOK
    <3> QED  BY <2>2, <3>1, QueueTyping DEF Active
  <2> QED  BY <2>1, <2>2
<1>5. RunsOK'
  BY <1>0, <1>2, <1>c, <1>d, StepKeepsRuns
<1>6. ASSUME NEW i \in RequestIds PROVE RequestOK(i)'
  <2>1. RequestOK(i)
    BY DEF QueueInv, RequestsOK
  <2>2. CASE i = j
    <3>1. outcome'[i] = "pending" /\ ~Settled(i)' /\ ~Settled(i)
      BY <1>a, <2>2 DEF Settled
    <3>2. reported' = reported /\ outcome'[i] # "unasked" /\ request'.id = i
      BY <1>0, <1>b, <2>2, <3>1
    <3> QED  BY <1>2, <2>1, <3>1, <3>2 DEF RequestOK
  <2>3. CASE i # j
    <3>1. outcome'[i] = outcome[i] /\ (Settled(i)' <=> Settled(i)) /\ reported' = reported
      BY <1>0, <1>a, <2>3 DEF Settled
    <3>2. outcome[i] # "pending"
      BY <1>d, <2>1, QueueTyping DEF RequestOK, Pending, Active
    <3>3. i <= asked' => i <= asked
      BY <1>0, <2>3, QueueTyping
    <3> QED  BY <1>2, <2>1, <3>1, <3>2, <3>3 DEF RequestOK
  <2> QED  BY <2>2, <2>3
<1>7. Once(ready)' /\ InOrder(ready, Asking)'
  <2>1. \A r \in Asking : RunHandle(r) # Head(ready) => r \in Asking'
    BY <1>3 DEF Asking
  <2> QED  BY <1>1, <2>1, OrderKept
<1> QED  BY <1>0, <1>1, <1>4, <1>5, <1>6, <1>7 DEF QueueRest, RequestsOK

(* A run that ends.                                                        *)
LEMMA EndKeepsQueue ==
    ASSUME QueueInv, NEW t \in RunIds, AtHead(RunHandle(t)), Ends(t),
           request' = Cleared(t),
           UNCHANGED <<caller, outcome, reported, asked>>
    PROVE  QueueRest' /\ Took(Wakes(t))
<1>0. /\ run' = [run EXCEPT ![t] = "done"] /\ cancelReq' = [cancelReq EXCEPT ![t] = FALSE]
      /\ awaiting' = [awaiting EXCEPT ![t] = << >>] /\ ready' = WithWakes(Rest, t)
  BY DEF Ends
<1>1. Took(Wakes(t))
  BY <1>0, TookWakes
<1>2. /\ \A r \in RunIds : Scheduled(r)' <=> Scheduled(r) /\ r # t
      /\ \A i \in RequestIds : Holds(ready', EmitHandle(i)) <=> Holds(ready, EmitHandle(i))
  <2>1. /\ \A r : RunHandle(r) \notin Wakes(t)
        /\ \A i : EmitHandle(i) \notin Wakes(t)
    BY Distinct DEF Wakes
  <2> QED  BY <1>1, <2>1, AtRunOK, TookRuns
<1>3. \A r \in RunIds : run'[r] = IF r = t THEN "done" ELSE run[r]
  BY <1>0, QueueTyping
<1>4. CallersOK' /\ AwaitOnce'
  <2>1. \A r \in RunIds \ {t} : Live(r) => Live(r)'
    BY <1>3 DEF Live
  <2> QED  BY <1>0, <1>1, <2>1, AtRunOK, EndKeepsCallers
<1>5. RunsOK'
  <2>1. \A r \in RunIds \ {t} : run[r] = "asking" => (Pending' <=> Pending)
    BY AtRunOK DEF Pending, Active
  <2>2. ~cancelReq'[t] /\ \A r \in RunIds \ {t} : cancelReq'[r] = cancelReq[r]
    BY <1>0, QueueTyping
  <2> QED  BY <1>0, <1>2, <2>1, <2>2, StepKeepsRuns
<1>6. RequestsOK'
  BY <1>2, AtRunOK, IdleKeepsRequests
<1>7. Once(ready)' /\ InOrder(ready, Asking)'
  <2>1. \A r \in Asking : RunHandle(r) # Head(ready) => r \in Asking'
    BY <1>3, AtRunOK DEF Asking
  <2> QED  BY <1>1, <2>1, OrderKept
<1> QED  BY <1>1, <1>4, <1>5, <1>6, <1>7 DEF QueueRest
---------------------------------------------------------------------------
(* The state of the session and the run it names                           *)

(* An announcement is next: it says "running" for a run that does run.     *)
FrontOK == EmitFirst(ready) /\ Running => \E r \in RunIds : Live(r) /\ run[r] # "created"

(* A session that says "running" has a run that will have the last word,   *)
(* or a cancel() that will.                                                *)
StateOK ==
    state = "running" =>
        \/ \E c \in Callers : caller[c] = "cancelling"
        \/ \E r \in RunIds : Live(r) /\ ~(run[r] = "created" /\ cancelReq[r])

(* No cleanup swallowed a cancellation, no cancel() wrote over CLOSED.     *)
Undisturbed == ~absorbed /\ ~reopened

(* Until then the live run is the one _run_task names, a session stays     *)
(* closed while a close() waits, and all that is left of it then unwinds.  *)
LoneOK ==
    Undisturbed =>
        /\ \A r \in RunIds : Live(r) => runTask = r
        /\ \A c \in Callers : caller[c] = "closing" => state = "closed"
        /\ \A c \in Callers : caller[c] = "closing" /\ Holds(ready, WakeHandle(c))
                                 => \A r \in RunIds : ~Live(r)
        /\ state = "closed" => \A r \in RunIds : Live(r) => cancelReq[r] \/ run[r] = "unwinding"
        /\ EmitFirst(ready) /\ state = "closed" => ~Running

StateInv == FrontOK /\ StateOK /\ LoneOK

(* What the callers see of the run task is whether a run lives.            *)
LEMMA RunningOK ==
    ASSUME QueueInv
    PROVE  /\ Running <=> \E r \in RunIds : runTask = r /\ Live(r)
           /\ caller \in [Callers -> {"idle", "queued", "cancelling", "closing"}]
           /\ ~EmitFirst(<< >>)
BY BoundsAssumption DEF Running, QueueInv, RequestInv, TypeOK, RunIds, NoRun, EmitFirst

(* Only a run that was asking can leave an announcement at the head.       *)
LEMMA FrontSteps ==
    ASSUME QueueInv, NEW A, Took(A)
    PROVE  /\ \A c \in Callers : AtCall(c) => ~EmitFirst(ready')
           /\ \A i \in RequestIds : Head(ready) = EmitHandle(i) => ~EmitFirst(ready')
           /\ \A t \in RunIds : Head(ready) = RunHandle(t) /\ EmitFirst(ready') => run[t] = "asking"
BY Distinct DEF Took, Asking, AtCall, AtHead

(* The wakeups of callers after the step of a run or an announcement.      *)
LEMMA WakesLater ==
    ASSUME QueueInv, NEW c \in Callers, NEW A, WakeHandle(c) \notin A,
           \/ Got(A)
           \/ Took(A)
    PROVE  Holds(ready', WakeHandle(c)) => Holds(ready, WakeHandle(c))
BY DEF Got, Took

(* A call that returns.                                                    *)
LEMMA ReturnKeepsState ==
    ASSUME QueueInv, StateInv, NEW c \in Callers, AtCall(c), NEW A, Quiet(A), Took(A),
           Return(c), UNCHANGED <<run, cancelReq, absorbed>>, reopened => reopened',
           (state' = state /\ caller[c] # "cancelling") \/ state' # "running",
           state = "closed" => state' = "closed" \/ reopened',
           state' = "closed" => state = "closed" \/ ~Running,
           \/ runTask' = runTask
           \/ caller[c] = "closing" /\ Holds(ready, WakeHandle(c))
           \/ ~Running
    PROVE  StateInv'
<1>1. /\ ~EmitFirst(ready') /\ \A r \in RunIds : Live(r)' <=> Live(r)
      /\ caller'[c] = "idle" /\ \A d \in Callers \ {c} : caller'[d] = caller[d]
  BY FrontSteps, RunningOK DEF Live, Return
<1>2. FrontOK'
  BY <1>1 DEF FrontOK, EmitFirst
<1>3. StateOK'
  <2>1. SUFFICES ASSUME state' = "running", state' = state, caller[c] # "cancelling"
                 PROVE  StateOK'
    BY DEF StateOK
  <2>2. CASE \E d \in Callers : caller[d] = "cancelling"
    BY <1>1, <2>1, <2>2 DEF StateOK
  <2>3. CASE \E r \in RunIds : Live(r) /\ ~(run[r] = "created" /\ cancelReq[r])
    BY <1>1, <2>3 DEF StateOK
  <2> QED  BY <2>1, <2>2, <2>3 DEF StateOK, StateInv
<1>4. ASSUME Undisturbed'
      PROVE  /\ \A r \in RunIds : Live(r)' => runTask' = r
             /\ \A d \in Callers : caller'[d] = "closing" => state' = "closed"
             /\ \A d \in Callers : caller'[d] = "closing" /\ Holds(ready', WakeHandle(d))
                                     => \A r \in RunIds : ~Live(r)'
             /\ state' = "closed" =>
                   \A r \in RunIds : Live(r)' => cancelReq'[r] \/ run'[r] = "unwinding"
  <2>1. Undisturbed /\ ~reopened'
    BY <1>4 DEF Undisturbed
  <2>2. /\ \A r \in RunIds : Live(r) => runTask = r
        /\ \A d \in Callers : caller[d] = "closing" => state = "closed"
        /\ \A d \in Callers : caller[d] = "closing" /\ Holds(ready, WakeHandle(d))
                                 => \A r \in RunIds : ~Live(r)
        /\ state = "closed" => \A r \in RunIds : Live(r) => cancelReq[r] \/ run[r] = "unwinding"
    BY <2>1 DEF StateInv, LoneOK
  <2>3. ~Running => \A r \in RunIds : ~Live(r)
    BY <2>2, RunningOK
  <2>4. \A d \in Callers : Holds(ready', WakeHandle(d)) => Holds(ready, WakeHandle(d))
    BY WakesLater DEF Quiet
  <2> QED  BY <1>1, <2>1, <2>2, <2>3, <2>4
<1> QED  BY <1>1, <1>2, <1>3, <1>4 DEF StateInv, LoneOK

(* A call that cancels the run and awaits it.                              *)
LEMMA CancellingKeepsState ==
    ASSUME QueueInv, StateInv, NEW c \in Callers, AtCall(c), NEW A, Quiet(A), Took(A), Running,
           cancelReq' = [cancelReq EXCEPT ![runTask] = TRUE],
           NEW v \in {"cancelling", "closing"}, caller' = [caller EXCEPT ![c] = v],
           IF v = "closing" THEN state' = "closed" ELSE state' = state,
           UNCHANGED <<run, runTask, absorbed, reopened>>
    PROVE  StateInv'
<1>1. /\ ~EmitFirst(ready') /\ \A r \in RunIds : Live(r)' <=> Live(r)
      /\ caller'[c] = v /\ \A d \in Callers \ {c} : caller'[d] = caller[d]
      /\ \A r \in RunIds : cancelReq'[r] = (cancelReq[r] \/ r = runTask)
  BY FrontSteps, RunningOK, QueueTyping DEF Live
<1>2. FrontOK'
  BY <1>1 DEF FrontOK, EmitFirst
<1>3. StateOK'
  BY <1>1 DEF StateOK
<1>4. ASSUME Undisturbed'
      PROVE  /\ \A r \in RunIds : Live(r)' => runTask' = r
             /\ \A d \in Callers : caller'[d] = "closing" => state' = "closed"
             /\ \A d \in Callers : caller'[d] = "closing" /\ Holds(ready', WakeHandle(d))
                                     => \A r \in RunIds : ~Live(r)'
             /\ state' = "closed" =>
                   \A r \in RunIds : Live(r)' => cancelReq'[r] \/ run'[r] = "unwinding"
  <2>1. Undisturbed
    BY <1>4 DEF Undisturbed
  <2>2. /\ \A r \in RunIds : Live(r) => runTask = r
        /\ \A d \in Callers : caller[d] = "closing" => state = "closed"
        /\ \A d \in Callers : caller[d] = "closing" /\ Holds(ready, WakeHandle(d))
                                 => \A r \in RunIds : ~Live(r)
    BY <2>1 DEF StateInv, LoneOK
  <2>3. ~Holds(ready', WakeHandle(c))
    BY AtCallOK
  <2>4. \A d \in Callers : Holds(ready', WakeHandle(d)) => Holds(ready, WakeHandle(d))
    BY WakesLater DEF Quiet
  <2>5. \A d \in Callers : caller'[d] = "closing" => state' = "closed"
    BY <1>1, <2>2
  <2>6. \A r \in RunIds : Live(r)' => cancelReq'[r]
    BY <1>1, <2>2
  <2> QED  BY <1>1, <2>2, <2>3, <2>4, <2>5, <2>6
<1> QED  BY <1>1, <1>2, <1>3, <1>4 DEF StateInv, LoneOK
(* A start.                                                                *)
LEMMA LaunchKeepsState ==
    ASSUME QueueInv, StateInv, NEW c \in Callers, NEW op \in Ops, Launch(c, op)
    PROVE  StateInv'
<1>0. PICK t \in RunIds :
      /\ run[t] = "unborn" /\ AtCall(c) /\ Took({RunHandle(t)})
      /\ run' = [run EXCEPT ![t] = "created"] /\ runTask' = t /\ state' = "running"
      /\ state # "closed" /\ ~Running /\ caller' = [caller EXCEPT ![c] = "idle"]
      /\ UNCHANGED <<cancelReq, absorbed, reopened>>
  BY LaunchKeepsQueue DEF Launch, Return, history
<1>1. /\ ~EmitFirst(ready') /\ \A r \in RunIds : run'[r] = IF r = t THEN "created" ELSE run[r]
      /\ caller'[c] = "idle" /\ \A d \in Callers \ {c} : caller'[d] = caller[d]
  BY <1>0, FrontSteps, RunningOK, QueueTyping
<1>2. Live(t)' /\ \A r \in RunIds \ {t} : Live(r)' <=> Live(r)
  BY <1>0, <1>1 DEF Live
<1>3. StateOK'
  <2>1. RunOK(t) /\ ~Live(t)
    BY <1>0 DEF QueueInv, RunsOK, Live
  <2>2. ~cancelReq[t]
    BY <2>1 DEF RunOK
  <2> QED  BY <1>0, <1>2, <2>2 DEF StateOK
<1>4. ASSUME Undisturbed
      PROVE  /\ \A r \in RunIds : Live(r)' => r = t
             /\ \A d \in Callers : caller'[d] # "closing"
  <2>1. \A r \in RunIds : ~Live(r)
    BY <1>0, <1>4, RunningOK DEF StateInv, LoneOK
  <2>2. \A d \in Callers : caller[d] # "closing"
    BY <1>0, <1>4 DEF StateInv, LoneOK
  <2> QED  BY <1>1, <1>2, <2>1, <2>2
<1>5. LoneOK'
  BY <1>0, <1>1, <1>4 DEF LoneOK, Undisturbed
<1> QED  BY <1>1, <1>3, <1>5 DEF StateInv, FrontOK

(* A verdict is published.                                                 *)
LEMMA EmitKeepsState ==
    ASSUME QueueInv, StateInv, NEW j \in RequestIds, EmitResolved(j)
    PROVE  StateInv'
<1>0. /\ UNCHANGED <<run, cancelReq, caller, runTask, absorbed, reopened>>
      /\ state' = (IF Running THEN "running" ELSE state) /\ EmitFirst(ready)
      /\ Took({}) /\ Head(ready) = EmitHandle(j)
  BY EmitKeepsQueue DEF EmitResolved, AtHead, EmitFirst, history
<1>1. ~EmitFirst(ready') /\ \A r \in RunIds : Live(r)' <=> Live(r)
  BY <1>0, FrontSteps DEF Live
<1>2. StateOK'
  BY <1>0, <1>1 DEF StateOK, StateInv, FrontOK
<1>3. \A d \in Callers : Holds(ready', WakeHandle(d)) => Holds(ready, WakeHandle(d))
  BY <1>0, WakesLater
<1>4. LoneOK'
  BY <1>0, <1>1, <1>3 DEF LoneOK, StateInv, Undisturbed
<1> QED  BY <1>1, <1>2, <1>4 DEF StateInv, FrontOK

(* The world outside.                                                      *)
LEMMA OutsideKeepsState ==
    ASSUME QueueInv, StateInv, NEW A, Got(A), \A d \in Callers : WakeHandle(d) \notin A,
           UNCHANGED <<run, cancelReq, state, runTask, absorbed, reopened>>,
           \A d \in Callers : caller'[d] = caller[d] \/ (caller[d] = "idle" /\ caller'[d] = "queued")
    PROVE  StateInv'
<1>1. /\ \A r \in RunIds : Live(r)' <=> Live(r)
      /\ Running' <=> Running
      /\ EmitFirst(ready') => EmitFirst(ready)
  BY DEF Live, Running, Got
<1>2. \A d \in Callers : Holds(ready', WakeHandle(d)) => Holds(ready, WakeHandle(d))
  BY WakesLater
<1>3. FrontOK'
  BY <1>1 DEF FrontOK, StateInv
<1>4. StateOK'
  BY <1>1 DEF StateOK, StateInv
<1>5. LoneOK'
  BY <1>1, <1>2 DEF LoneOK, StateInv, Undisturbed
<1> QED  BY <1>3, <1>4, <1>5 DEF StateInv

(* A run that works on, unwinds or asks.                                   *)
LEMMA WorkKeepsState ==
    ASSUME QueueInv, StateInv, NEW t \in RunIds, AtHead(RunHandle(t)), NEW A, Quiet(A), Took(A),
           NEW pc \in {"working", "asking", "unwinding"}, run' = [run EXCEPT ![t] = pc],
           \A r \in RunIds \ {t} : cancelReq'[r] = cancelReq[r],
           UNCHANGED <<caller, runTask, reopened>>, absorbed => absorbed',
           state' = state \/ (state' = "waiting_approval" /\ ~cancelReq[t] /\ run[t] # "unwinding"),
           \/ absorbed'
           \/ ~cancelReq[t] /\ run[t] # "unwinding"
           \/ run[t] # "asking" /\ pc = "unwinding"
    PROVE  StateInv'
<1>1. /\ \A r \in RunIds : run'[r] = IF r = t THEN pc ELSE run[r]
      /\ Head(ready) = RunHandle(t) /\ Live(t)
  BY QueueTyping, AtRunOK
<1>2. /\ \A r \in RunIds : Live(r)' <=> Live(r)
      /\ Live(t)' /\ run'[t] # "created"
  BY <1>1 DEF Live
<1>3. FrontOK'
  BY <1>2 DEF FrontOK
<1>4. StateOK'
  BY <1>2 DEF StateOK
<1>5. ASSUME Undisturbed' PROVE
             /\ \A r \in RunIds : Live(r)' => runTask' = r
             /\ \A c \in Callers : caller'[c] = "closing" => state' = "closed"
             /\ \A c \in Callers : caller'[c] = "closing" /\ Holds(ready', WakeHandle(c))
                                      => \A r \in RunIds : ~Live(r)'
             /\ state' = "closed" =>
                   \A r \in RunIds : Live(r)' => cancelReq'[r] \/ run'[r] = "unwinding"
             /\ EmitFirst(ready') => state' # "closed"
  <2>1. Undisturbed /\ ~absorbed'
    BY <1>5 DEF Undisturbed
  <2>2. /\ \A r \in RunIds : Live(r) => runTask = r
        /\ \A c \in Callers : caller[c] = "closing" => state = "closed"
        /\ \A c \in Callers : caller[c] = "closing" /\ Holds(ready, WakeHandle(c))
                                 => \A r \in RunIds : ~Live(r)
        /\ state = "closed" => \A r \in RunIds : Live(r) => cancelReq[r] \/ run[r] = "unwinding"
    BY <2>1 DEF StateInv, LoneOK
  <2>3. \A c \in Callers : Holds(ready', WakeHandle(c)) => Holds(ready, WakeHandle(c))
    BY WakesLater DEF Quiet
  <2>4. EmitFirst(ready') => run[t] = "asking"
    BY <1>1, FrontSteps
  <2>5. state = "closed" => state' = state /\ pc = "unwinding" /\ run[t] # "asking"
    BY <1>1, <2>1, <2>2
  <2>6. state' = "closed" => state = "closed"
    OBVIOUS
  <2> QED  BY <1>1, <1>2, <2>2, <2>3, <2>4, <2>5, <2>6
<1>6. LoneOK'
  BY <1>5 DEF LoneOK
<1> QED  BY <1>3, <1>4, <1>6 DEF StateInv

(* A run that ends.                                                        *)
LEMMA EndKeepsState ==
    ASSUME QueueInv, StateInv, NEW t \in RunIds, AtHead(RunHandle(t)), Ends(t), Took(Wakes(t)),
           UNCHANGED <<caller, absorbed, reopened>>,
           \/ runTask' = NoRun /\ state' # "running"
           \/ runTask' = runTask /\ state' = state /\ run[t] = "created" /\ cancelReq[t],
           state = "closed" => state' = "closed" \/ (~cancelReq[t] /\ run[t] # "unwinding"),
           state' = "closed" => state = "closed"
    PROVE  StateInv'
<1>1. /\ \A r \in RunIds : run'[r] = IF r = t THEN "done" ELSE run[r]
      /\ \A r \in RunIds \ {t} : cancelReq'[r] = cancelReq[r]
      /\ Head(ready) = RunHandle(t) /\ Live(t)
  BY QueueTyping, AtRunOK DEF Ends
<1>2. \A r \in RunIds : Live(r)' <=> Live(r) /\ r # t
  BY <1>1 DEF Live
<1>3. runTask' = NoRun => ~Running'
  BY DEF Running
<1>4. EmitFirst(ready') => run[t] = "asking"
  BY <1>1, FrontSteps
<1>5. FrontOK'
  BY <1>3, <1>4 DEF FrontOK
<1>6. StateOK'
  <2>1. SUFFICES ASSUME state' = "running", state = "running", run[t] = "created", cancelReq[t]
                 PROVE  StateOK'
    BY DEF StateOK
  <2> QED  BY <1>1, <1>2, <2>1 DEF StateInv, StateOK
<1>7. ASSUME Undisturbed' PROVE
             /\ \A r \in RunIds : ~Live(r)'
             /\ \A c \in Callers : caller'[c] = "closing" => state' = "closed"
             /\ ~Running'
  <2>1. Undisturbed
    BY <1>7 DEF Undisturbed
  <2>2. /\ \A r \in RunIds : Live(r) => runTask = r
        /\ \A c \in Callers : caller[c] = "closing" => state = "closed"
        /\ state = "closed" => \A r \in RunIds : Live(r) => cancelReq[r] \/ run[r] = "unwinding"
    BY <2>1 DEF StateInv, LoneOK
  <2>3. \A r \in RunIds : ~Live(r)'
    BY <1>1, <1>2, <2>2
  <2>4. ~Running'
    <3>1. runTask' = NoRun \/ runTask' = t
      BY <1>1, <2>2
    <3> QED  BY <1>3, <2>3, <3>1 DEF Running
  <2> QED  BY <1>1, <2>2, <2>3, <2>4
<1>8. LoneOK'
  BY <1>7 DEF LoneOK
<1> QED  BY <1>5, <1>6, <1>8 DEF StateInv
---------------------------------------------------------------------------
(* The invariant, and what it shows                                        *)

SessionInv == QueueInv /\ StateInv

(* A new session satisfies the invariant.                                  *)
LEMMA InitSessionInv == Init => SessionInv
<1> SUFFICES ASSUME Init PROVE SessionInv
  OBVIOUS
<1>1. ready = << >> /\ Len(ready) = 0 /\ \A h : ~Holds(ready, h)
  BY DEF Init, Holds
<1>2. \A r \in RunIds : /\ ~Live(r) /\ run[r] = "unborn" /\ ~cancelReq[r]
                        /\ awaiting[r] = << >> /\ Len(awaiting[r]) = 0
  BY DEF Init, Live
<1>3. Once(ready) /\ InOrder(ready, Asking) /\ ~EmitFirst(ready) /\ AwaitOnce
  BY <1>1, <1>2 DEF Once, InOrder, EmitFirst, AwaitOnce
<1>4. CallersOK
  BY <1>1, <1>2 DEF Init, CallersOK, CallerOK, Busy, Waits, Holds
<1>5. RunsOK
  BY <1>1, <1>2 DEF RunsOK, RunOK, Scheduled
<1>6. RequestsOK
  BY <1>1 DEF Init, RequestsOK, RequestOK, Settled, RequestIds
<1>7. StateInv
  BY <1>1, <1>2, <1>3 DEF Init, StateInv, FrontOK, StateOK, LoneOK
<1> QED  BY <1>3, <1>4, <1>5, <1>6, <1>7, InitRequestInv DEF SessionInv, QueueInv

(* Calls that return.                                                      *)
LEMMA ReturningCalls ==
    ASSUME SessionInv, NEW c \in Callers, NEW op \in Ops,
           \/ Refuse(c, op) \/ Decide(c, op) \/ DecideStale(c, op)
           \/ CancelIdle(c) \/ CancelReturns(c)
           \/ CloseAgain(c) \/ CloseIdle(c) \/ CloseReturns(c)
    PROVE  QueueRest' /\ StateInv'
<1>0. QueueInv /\ StateInv
  BY DEF SessionInv
<1>1. Call("cancel") \in Ops /\ Call("close") \in Ops
  BY DEF Ops
<1>2. AtCall(c) /\ Return(c) /\ UNCHANGED <<run, cancelReq, awaiting, request, reported, asked, absorbed>>
  BY <1>1 DEF AtCall, Refuse, Decide, DecideStale, CancelIdle, CancelReturns, CloseAgain,
              CloseIdle, CloseReturns, sessionVars, approvalVars, history
<1>3. /\ AtHead(WakeHandle(c)) => Holds(ready, WakeHandle(c))
      /\ ~AtHead(WakeHandle(c)) => caller[c] = "queued"
  <2>1. ready \in Seq(Handles) /\ ready # << >> /\ CallerOK(c)
    BY <1>0, <1>2 DEF QueueInv, RequestInv, TypeOK, CallersOK, AtCall, AtHead
  <2>2. Holds(ready, Head(ready))
    BY <2>1, PopQueue
  <2> QED  BY <1>2, <2>1, <2>2 DEF AtCall, AtHead, CallerOK
<1>4. ASSUME Refuse(c, op) \/ DecideStale(c, op) \/ CancelReturns(c) \/ CloseAgain(c) \/ CloseReturns(c)
      PROVE  QueueRest' /\ Took({})
  <2>1. ready' = Rest /\ UNCHANGED outcome
    BY <1>4 DEF Refuse, DecideStale, CancelReturns, CloseAgain, CloseReturns, approvalVars
  <2> QED  BY <1>0, <1>2, <2>1, PlainCallKeepsQueue
<1>5. ASSUME CancelIdle(c) \/ CloseIdle(c) PROVE QueueRest' /\ Took(Denied)
  <2>1. ready' = AfterDeny(Rest) /\ outcome' = DeniedOutcome
    BY <1>5 DEF CancelIdle, CloseIdle
  <2> QED  BY <1>0, <1>2, <2>1, IdleCallKeepsQueue
<1>6. ASSUME Decide(c, op) PROVE QueueRest' /\ Took(Denied)
  <2>1. PICK v \in {"allowed", "denied"} :
           /\ Pending /\ ready' = AfterDeny(Rest)
           /\ outcome' = [outcome EXCEPT ![request.id] = v]
    BY <1>6 DEF Decide, AfterDeny
  <2> QED  BY <1>0, <1>2, <2>1, SettlingCallKeepsQueue
<1>7. QueueRest' /\ \E A \in {{}, Denied} : Took(A) /\ Quiet(A)
  BY <1>4, <1>5, <1>6, QuietHandles
<1>8. /\ reopened => reopened'
      /\ (state' = state /\ caller[c] # "cancelling") \/ state' # "running"
      /\ state = "closed" => state' = "closed" \/ reopened'
      /\ state' = "closed" => state = "closed" \/ ~Running
      /\ \/ runTask' = runTask
         \/ caller[c] = "closing" /\ Holds(ready, WakeHandle(c))
         \/ ~Running
  <2>1. CASE Refuse(c, op) \/ Decide(c, op) \/ DecideStale(c, op) \/ CloseAgain(c)
    <3>1. ~AtHead(WakeHandle(c)) /\ UNCHANGED <<state, reopened, runTask>>
      BY <2>1, Distinct DEF AtHead, Refuse, Decide, DecideStale, CloseAgain, sessionVars, history
    <3> QED  BY <1>3, <3>1
  <2>2. CASE CancelIdle(c)
    <3>1. /\ ~AtHead(WakeHandle(c)) /\ UNCHANGED <<reopened, runTask>>
          /\ state' = IF state = "running" THEN "idle" ELSE state
      BY <2>2, Distinct DEF AtHead, CancelIdle, history
    <3> QED  BY <1>3, <3>1
  <2>3. CASE CancelReturns(c)
    BY <2>3 DEF CancelReturns
  <2>4. CASE CloseIdle(c)
    BY <2>4 DEF CloseIdle, history
  <2>5. CASE CloseReturns(c)
    BY <1>3, <2>5 DEF CloseReturns, history
  <2> QED  BY <2>1, <2>2, <2>3, <2>4, <2>5
<1>9. StateInv'
  <2>1. PICK A \in {{}, Denied} : Took(A) /\ Quiet(A)
    BY <1>7
  <2>2. UNCHANGED <<run, cancelReq, absorbed>>
    BY <1>2
  <2> QED  BY <1>0, <1>2, <1>8, <2>1, <2>2, ReturnKeepsState
<1> QED  BY <1>7, <1>9

(* Calls that wait for the run they cancel.                                *)
LEMMA WaitingCalls ==
    ASSUME SessionInv, NEW c \in Callers, CancelRun(c) \/ CloseRun(c)
    PROVE  QueueRest' /\ StateInv'
<1>0. QueueInv /\ StateInv
  BY DEF SessionInv
<1>1. /\ Call("cancel") \in Ops /\ Call("close") \in Ops
  BY DEF Ops
<1>2. PICK v \in {"cancelling", "closing"} :
         /\ caller' = [caller EXCEPT ![c] = v]
         /\ IF v = "closing" THEN state' = "closed" ELSE state' = state
  BY DEF CancelRun, CloseRun, sessionVars
<1>3. /\ AtCall(c) /\ Running /\ outcome' = DeniedOutcome
      /\ cancelReq' = [cancelReq EXCEPT ![runTask] = TRUE]
      /\ ready' = Woken(AfterDeny(Rest), runTask)
      /\ awaiting' = [awaiting EXCEPT ![runTask] = Append(@, c)]
      /\ UNCHANGED <<run, request, reported, asked>>
      /\ UNCHANGED <<run, runTask, absorbed, reopened>>
  BY <1>1 DEF CancelRun, CloseRun, AtCall, sessionVars, history
<1>4. QueueRest' /\ Took(Denied \cup {RunHandle(runTask)})
  BY <1>0, <1>2, <1>3, CancellingCallKeepsQueue
<1>5. StateInv'
  <2> DEFINE A == Denied \cup {RunHandle(runTask)}
  <2>1. Took(A) /\ Quiet(A)
    BY <1>4, QuietHandles
  <2> HIDE DEF A
  <2> QED  BY <1>0, <1>2, <1>3, <2>1, CancellingKeepsState
<1> QED  BY <1>4, <1>5
(* Steps of a run.                                                         *)
LEMMA RunSteps2 ==
    ASSUME SessionInv, NEW t \in RunIds, RunStep(t)
    PROVE  QueueRest' /\ StateInv'
<1>0. QueueInv /\ StateInv /\ cancelReq \in [RunIds -> BOOLEAN]
  BY QueueTyping DEF SessionInv
<1>1. CASE Works(t)
  <2>1. /\ AtHead(RunHandle(t)) /\ ready' = Rest /\ ~cancelReq[t] /\ run[t] # "unwinding"
        /\ run' = [run EXCEPT ![t] = "working"] /\ request' = Cleared(t)
        /\ UNCHANGED <<state, runTask, absorbed, reopened, cancelReq>>
        /\ UNCHANGED <<awaiting, caller, outcome, reported, asked>>
    BY <1>1 DEF Works, Steps, sessionVars, history
  <2>2. QueueRest' /\ Took({})
    <3>1. "working" \in {"working", "unwinding"}
      OBVIOUS
    <3> QED  BY <1>0, <2>1, <3>1, WorkKeepsQueue
  <2>3. StateInv'
    <3>1. "working" \in {"working", "asking", "unwinding"}
      OBVIOUS
    <3> QED  BY <1>0, <2>1, <2>2, <3>1, QuietHandles, WorkKeepsState
  <2> QED  BY <2>2, <2>3
<1>2. CASE Asks(t)
  <2>1. QueueRest' /\ Took({}) /\ AtHead(RunHandle(t))
    BY <1>0, <1>2, AskKeepsQueue
  <2>2. /\ ~cancelReq[t] /\ run[t] # "unwinding"
        /\ run' = [run EXCEPT ![t] = "asking"] /\ state' = "waiting_approval"
        /\ UNCHANGED <<runTask, absorbed, reopened, cancelReq, caller>>
    BY <1>2 DEF Asks, Steps, history
  <2>3. StateInv'
    <3>1. "asking" \in {"working", "asking", "unwinding"}
      OBVIOUS
    <3> QED  BY <1>0, <2>1, <2>2, <3>1, QuietHandles, WorkKeepsState
  <2> QED  BY <2>1, <2>3
<1>3. CASE Unwinds(t)
  <2>1. /\ AtHead(RunHandle(t)) /\ ready' = Rest /\ run[t] # "asking"
        /\ run' = [run EXCEPT ![t] = "unwinding"]
        /\ cancelReq' = [cancelReq EXCEPT ![t] = FALSE]
        /\ UNCHANGED <<state, runTask, absorbed, reopened>>
        /\ UNCHANGED <<awaiting, caller, request, outcome, reported, asked>>
    BY <1>3 DEF Unwinds, sessionVars, approvalVars, history
  <2>2. ~cancelReq'[t] /\ \A r \in RunIds \ {t} : cancelReq'[r] = cancelReq[r]
    BY <1>0, <2>1
  <2>3. request' = Cleared(t) /\ "unwinding" \in {"working", "unwinding"}
    BY <2>1 DEF Cleared
  <2>4. QueueRest' /\ Took({})
    BY <1>0, <2>1, <2>2, <2>3, WorkKeepsQueue
  <2>5. StateInv'
    <3>1. "unwinding" \in {"working", "asking", "unwinding"}
      OBVIOUS
    <3> QED  BY <1>0, <2>1, <2>2, <2>4, <3>1, QuietHandles, WorkKeepsState
  <2> QED  BY <2>4, <2>5
<1>4. CASE Absorb(t)
  <2>1. /\ AtHead(RunHandle(t)) /\ ready' = Rest /\ run[t] # "asking" /\ ~cancelReq[t]
        /\ run' = [run EXCEPT ![t] = "working"] /\ absorbed'
        /\ UNCHANGED <<state, runTask, reopened, cancelReq>>
        /\ UNCHANGED <<awaiting, caller, request, outcome, reported, asked>>
    BY <1>4 DEF Absorb, approvalVars
  <2>2. request' = Cleared(t) /\ "working" \in {"working", "unwinding"}
    BY <2>1 DEF Cleared
  <2>3. ~cancelReq'[t] /\ \A r \in RunIds \ {t} : cancelReq'[r] = cancelReq[r]
    BY <2>1
  <2>4. QueueRest' /\ Took({})
    BY <1>0, <2>1, <2>2, <2>3, WorkKeepsQueue
  <2>5. StateInv'
    <3>1. "working" \in {"working", "asking", "unwinding"}
      OBVIOUS
    <3> QED  BY <1>0, <2>1, <2>3, <2>4, <3>1, QuietHandles, WorkKeepsState
  <2> QED  BY <2>4, <2>5
<1>5. ASSUME Finishes(t) \/ Fails(t) \/ CancelledUnborn(t) \/ EndsCancelled(t)
      PROVE  QueueRest' /\ StateInv'
  <2>1. /\ AtHead(RunHandle(t)) /\ Ends(t) /\ request' = Cleared(t)
        /\ UNCHANGED <<caller, outcome, reported, asked>>
        /\ UNCHANGED <<caller, absorbed, reopened>>
    <3>1. CASE Finishes(t) \/ Fails(t) \/ EndsCancelled(t)
      BY <3>1 DEF Finishes, Fails, EndsCancelled, Steps, history
    <3>2. CASE CancelledUnborn(t)
      BY <3>2 DEF CancelledUnborn, Cleared, sessionVars, approvalVars, history
    <3> QED  BY <1>5, <3>1, <3>2
  <2>2. /\ \/ runTask' = NoRun /\ state' # "running"
           \/ runTask' = runTask /\ state' = state /\ run[t] = "created" /\ cancelReq[t]
        /\ state = "closed" => state' = "closed" \/ (~cancelReq[t] /\ run[t] # "unwinding")
        /\ state' = "closed" => state = "closed"
    <3>1. CASE Finishes(t)
      BY <3>1 DEF Finishes, Steps
    <3>2. CASE Fails(t)
      BY <3>2 DEF Fails, Steps
    <3>3. CASE CancelledUnborn(t)
      BY <3>3 DEF CancelledUnborn, sessionVars
    <3>4. CASE EndsCancelled(t)
      BY <3>4 DEF EndsCancelled
    <3> QED  BY <1>5, <3>1, <3>2, <3>3, <3>4
  <2>3. QueueRest' /\ Took(Wakes(t))
    BY <1>0, <2>1, EndKeepsQueue
  <2>4. StateInv'
    BY <1>0, <2>1, <2>2, <2>3, EndKeepsState
  <2> QED  BY <2>3, <2>4
<1> QED  BY <1>1, <1>2, <1>3, <1>4, <1>5 DEF RunStep

(* The invariant is inductive.                                             *)
LEMMA SessionInvStep == SessionInv /\ [Next]_vars => SessionInv'
<1> SUFFICES ASSUME SessionInv, [Next]_vars PROVE QueueRest' /\ StateInv'
  <2>1. SessionInv /\ [Next]_vars => RequestInv'
    BY RequestInvStep DEF SessionInv, QueueInv
  <2> QED  BY <2>1 DEF SessionInv, QueueInv, QueueRest
<1>0. QueueInv /\ StateInv
  BY DEF SessionInv
<1>1. CASE UNCHANGED vars
  <2>1. /\ UNCHANGED <<state, runTask, run, cancelReq, awaiting, caller, ready>>
        /\ UNCHANGED <<request, outcome, asked, reported, absorbed, reopened>>
    BY <1>1 DEF vars, sessionVars, history, approvalVars
  <2>2. (Once(ready) /\ InOrder(ready, Asking) /\ AwaitOnce)'
    BY <1>0, <2>1 DEF QueueInv, Once, InOrder, Asking, AwaitOnce
  <2>3. CallersOK'
    BY <1>0, <2>1 DEF QueueInv, CallersOK, CallerOK, Busy, Waits, Live
  <2>4. RunsOK' /\ RequestsOK'
    BY <1>0, <2>1 DEF QueueInv, RunsOK, RunOK, Scheduled, Live, Pending, Active,
                      RequestsOK, RequestOK, Settled
  <2>5. FrontOK' /\ StateOK' /\ LoneOK'
    BY <1>0, <2>1 DEF StateInv, FrontOK, StateOK, LoneOK, Running, Live, Undisturbed, EmitFirst
  <2> QED  BY <2>2, <2>3, <2>4, <2>5 DEF QueueRest, StateInv
<1>2. ASSUME NEW c \in Callers, NEW op \in Ops, Arrive(c, op) PROVE QueueRest' /\ StateInv'
  <2>1. QueueRest' /\ Got({CallHandle(c, op)})
    BY <1>0, <1>2, ArriveKeepsQueue
  <2>2. /\ UNCHANGED <<run, cancelReq, state, runTask, absorbed, reopened>>
        /\ \A d \in Callers :
              caller'[d] = caller[d] \/ (caller[d] = "idle" /\ caller'[d] = "queued")
    BY <1>0, <1>2, RunningOK DEF Arrive, sessionVars, history
  <2>3. \A d \in Callers : WakeHandle(d) \notin {CallHandle(c, op)}
    BY Distinct
  <2> QED  BY <1>0, <2>1, <2>2, <2>3, OutsideKeepsState
<1>3. ASSUME NEW r \in RunIds, IoCompletes(r) PROVE QueueRest' /\ StateInv'
  <2>1. QueueRest' /\ Got({RunHandle(r)})
    BY <1>0, <1>3, IoKeepsQueue
  <2>2. /\ UNCHANGED <<run, cancelReq, state, runTask, absorbed, reopened>>
        /\ \A d \in Callers :
              caller'[d] = caller[d] \/ (caller[d] = "idle" /\ caller'[d] = "queued")
    BY <1>3 DEF IoCompletes, sessionVars, history
  <2>3. \A d \in Callers : WakeHandle(d) \notin {RunHandle(r)}
    BY Distinct
  <2> QED  BY <1>0, <2>1, <2>2, <2>3, OutsideKeepsState
<1>4. ASSUME NEW r \in RunIds, RunStep(r) PROVE QueueRest' /\ StateInv'
  BY <1>4, RunSteps2
<1>5. ASSUME NEW c \in Callers, CallStep(c) PROVE QueueRest' /\ StateInv'
  <2>1. Call("cancel") \in Ops /\ Starts \subseteq Ops /\ Decisions \subseteq Ops
    BY DEF Ops
  <2>2. ASSUME NEW op \in Ops, Launch(c, op) PROVE QueueRest' /\ StateInv'
    BY <1>0, <2>2, LaunchKeepsQueue, LaunchKeepsState
  <2> QED  BY <1>5, <2>1, <2>2, ReturningCalls, WaitingCalls DEF CallStep
<1>6. ASSUME NEW i \in RequestIds, EmitResolved(i) PROVE QueueRest' /\ StateInv'
  BY <1>0, <1>6, EmitKeepsQueue, EmitKeepsState
<1> QED  BY <1>1, <1>2, <1>3, <1>4, <1>5, <1>6 DEF Next, LoopStep

(* In every reachable state of the session the invariant holds.            *)
LEMMA SessionHolds == Spec => []SessionInv
BY InitSessionInv, SessionInvStep, PTL DEF Spec

(* cancel() and close() can reach the run that lives, and a session at     *)
(* rest does not claim to run: the one needs that a session stays closed   *)
(* while close() waits, the other that an announcement follows its run.    *)
THEOREM RunsStayKnown == Spec => []RunsAreKnown
<1>1. SessionInv => RunsAreKnown
  BY DEF SessionInv, StateInv, LoneOK, StateOK, Undisturbed, RunsAreKnown, LiveRunIsTracked,
         NotRunningAtRest, AtRest
<1> QED  BY <1>1, SessionHolds, PTL

(* Two agents never work for one session, unless a cleanup swallowed a     *)
(* cancellation or a cancel() wrote over CLOSED.                           *)
THEOREM OneRunAtATime == Spec => []AtMostOneRun
<1>1. SessionInv => AtMostOneRun
  BY DEF SessionInv, StateInv, LoneOK, Undisturbed, AtMostOneRun
<1> QED  BY <1>1, SessionHolds, PTL

(* Every run that was decided, cancelled or created is in the queue, and   *)
(* every caller that waits will be woken.                                  *)
THEOREM WakeupsArrive == Spec => []NoLostWakeup
<1>1. SessionInv => NoLostWakeup
  <2>1. ASSUME SessionInv, NEW r \in RunIds,
               run[r] = "created" \/ cancelReq[r] \/ (run[r] = "asking" /\ ~Pending)
        PROVE  Scheduled(r)
    <3>1. RunOK(r)
      BY <2>1 DEF SessionInv, QueueInv, RunsOK
    <3> QED  BY <2>1, <3>1 DEF RunOK
  <2>2. ASSUME SessionInv, NEW c \in Callers, Busy(c)
        PROVE  Holds(ready, WakeHandle(c)) \/ \E r \in RunIds : Live(r) /\ Holds(awaiting[r], c)
    <3>1. CallerOK(c)
      BY <2>2 DEF SessionInv, QueueInv, CallersOK
    <3> QED  BY <2>2, <3>1 DEF CallerOK, Waits
  <2> QED  BY <2>1, <2>2 DEF NoLostWakeup, Busy
<1> QED  BY <1>1, SessionHolds, PTL

(* Every verdict is announced exactly once, whoever settled the request.   *)
THEOREM VerdictsAreAnnounced == Spec => []SettledIsAnnounced
<1>1. ASSUME SessionInv, NEW i \in RequestIds
      PROVE  Cardinality({n \in 1..Len(ready) : ready[n] = EmitHandle(i)}) =
                IF outcome[i] \in {"allowed", "denied"} /\ i \notin reported THEN 1 ELSE 0
  <2> DEFINE waiting == {n \in 1..Len(ready) : ready[n] = EmitHandle(i)}
  <2>1. Once(ready) /\ RequestOK(i)
    BY <1>1 DEF SessionInv, QueueInv, RequestsOK
  <2>2. CASE Settled(i) /\ i \notin reported
    <3>1. PICK n \in 1..Len(ready) : ready[n] = EmitHandle(i)
      BY <2>1, <2>2 DEF RequestOK, Holds
    <3>2. waiting = {n}
      BY <2>1, <3>1 DEF Once, Same
    <3> QED  BY <2>2, <3>2, FS_Singleton DEF Settled
  <2>3. CASE ~(Settled(i) /\ i \notin reported)
    <3>1. waiting = {}
      BY <2>1, <2>3 DEF RequestOK, Holds
    <3> QED  BY <2>3, <3>1, FS_EmptySet DEF Settled
  <2> QED  BY <2>2, <2>3
<1>2. SessionInv => SettledIsAnnounced
  BY <1>1 DEF SettledIsAnnounced
<1> QED  BY <1>2, SessionHolds, PTL
---------------------------------------------------------------------------
(* The session implements the approval gate                                *)

(* What a step of the session does to the requests.                        *)
LEMMA GateSteps ==
    ASSUME Next
    PROVE  \/ UNCHANGED <<request, outcome, reported, asked>>
           \/ /\ Pending /\ UNCHANGED <<request, reported, asked>>
              /\ \E v \in {"allowed", "denied"} :
                    outcome' = [outcome EXCEPT ![request.id] = v]
           \/ \E i \in RequestIds :
                 /\ AtHead(EmitHandle(i)) /\ reported' = reported \cup {i}
                 /\ UNCHANGED <<request, outcome, asked>>
           \/ \E r \in RunIds :
                 /\ AtHead(RunHandle(r)) /\ run[r] = "asking" /\ request' = NoRequest
                 /\ UNCHANGED <<outcome, reported, asked>>
           \/ \E r \in RunIds : Asks(r)
<1> DEFINE Still == UNCHANGED <<request, outcome, reported, asked>>
           Judged == /\ Pending /\ UNCHANGED <<request, reported, asked>>
                     /\ \E v \in {"allowed", "denied"} :
                           outcome' = [outcome EXCEPT ![request.id] = v]
           Left(r) == /\ AtHead(RunHandle(r)) /\ run[r] = "asking" /\ request' = NoRequest
                      /\ UNCHANGED <<outcome, reported, asked>>
<1>1. ASSUME NEW c \in Callers, NEW op \in Ops, Arrive(c, op) PROVE Still
  BY <1>1 DEF Arrive, approvalVars
<1>2. ASSUME NEW r \in RunIds, IoCompletes(r) PROVE Still
  BY <1>2 DEF IoCompletes, approvalVars
<1>3. ASSUME NEW r \in RunIds, RunStep(r) PROVE Still \/ Left(r) \/ Asks(r)
  <2>1. CASE Works(r) \/ Finishes(r) \/ Fails(r) \/ EndsCancelled(r)
    <3>1. AtHead(RunHandle(r)) /\ request' = Cleared(r) /\ UNCHANGED <<outcome, reported, asked>>
      BY <2>1 DEF Works, Finishes, Fails, EndsCancelled, Steps
    <3> QED  BY <3>1 DEF Cleared
  <2>2. CASE CancelledUnborn(r) \/ Unwinds(r) \/ Absorb(r)
    BY <2>2 DEF CancelledUnborn, Unwinds, Absorb, approvalVars
  <2> QED  BY <1>3, <2>1, <2>2 DEF RunStep
<1>4. ASSUME NEW c \in Callers, CallStep(c) PROVE Still \/ Judged
  <2>1. ASSUME outcome' = DeniedOutcome, UNCHANGED <<request, reported, asked>>
        PROVE  Still \/ Judged
    BY <2>1 DEF DeniedOutcome
  <2>2. CASE CancelRun(c) \/ CancelIdle(c) \/ CloseRun(c) \/ CloseIdle(c)
    BY <2>1, <2>2 DEF CancelRun, CancelIdle, CloseRun, CloseIdle
  <2>3. CASE CancelReturns(c) \/ CloseAgain(c) \/ CloseReturns(c)
    BY <2>3 DEF CancelReturns, CloseAgain, CloseReturns, approvalVars
  <2>4. ASSUME NEW op \in Starts, Launch(c, op) \/ Refuse(c, op) PROVE Still
    BY <2>4 DEF Launch, Refuse, approvalVars
  <2>5. ASSUME NEW op \in Decisions, Decide(c, op) PROVE Judged
    BY <2>5 DEF Decide
  <2>6. ASSUME NEW op \in Decisions, DecideStale(c, op) PROVE Still
    BY <2>6 DEF DecideStale, approvalVars
  <2> QED  BY <1>4, <2>2, <2>3, <2>4, <2>5, <2>6 DEF CallStep
<1>5. ASSUME NEW i \in RequestIds, EmitResolved(i)
      PROVE  /\ AtHead(EmitHandle(i)) /\ reported' = reported \cup {i}
             /\ UNCHANGED <<request, outcome, asked>>
  BY <1>5 DEF EmitResolved
<1> QED  BY <1>1, <1>2, <1>3, <1>4, <1>5 DEF Next, LoopStep

(* The request a run is parked on was raised.                              *)
GateInv == SessionInv /\ request.id <= asked

(* Every step of the session preserves the invariant of the gate.          *)
LEMMA GateInvStep == GateInv /\ [Next]_vars => GateInv'
<1> SUFFICES ASSUME GateInv, [Next]_vars PROVE (request.id <= asked)'
  <2>1. GateInv /\ [Next]_vars => SessionInv'
    BY SessionInvStep DEF GateInv
  <2> QED  BY <2>1 DEF GateInv
<1>1. request.id <= asked /\ asked \in Nat
  BY BoundsAssumption DEF GateInv, SessionInv, QueueInv, RequestInv, TypeOK
<1>2. CASE UNCHANGED vars
  BY <1>1, <1>2 DEF vars, approvalVars
<1>3. CASE Next
  <2>1. UNCHANGED <<request, asked>> => request'.id <= asked'
    BY <1>1
  <2>2. ASSUME request' = NoRequest, UNCHANGED asked PROVE request'.id <= asked'
    BY <1>1, <2>2 DEF NoRequest
  <2>3. ASSUME NEW r \in RunIds, Asks(r) PROVE request'.id <= asked'
    BY <1>1, <2>3 DEF Asks
  <2> QED  BY <1>3, GateSteps, <2>1, <2>2, <2>3
<1> QED  BY <1>2, <1>3

(* It holds in every reachable state.                                      *)
LEMMA GateHolds == Spec => []GateInv
<1>1. Init => request.id <= asked
  BY DEF Init, NoRequest
<1>2. Init => GateInv
  BY <1>1, InitSessionInv DEF GateInv
<1> QED  BY <1>2, GateInvStep, PTL DEF Spec

(* A request no run is parked on any more, or that is not open, is settled. *)
LEMMA NothingOpen ==
    ASSUME GateInv
    PROVE  /\ ~Pending => \A i \in RequestIds : i <= asked => Settled(i)
           /\ request.id # 0 => Active
           /\ Active => request.id \in RequestIds /\ (Pending \/ Settled(request.id))
           /\ ~Active => request.id = 0
<1>1. /\ request \in [id : RequestIds, by : RunIds] \cup {NoRequest} /\ asked \in Nat
      /\ outcome \in [RequestIds -> {"unasked", "pending", "allowed", "denied"}]
      /\ \A i \in RequestIds : RequestOK(i) /\ (i > asked => outcome[i] = "unasked")
  BY BoundsAssumption DEF GateInv, SessionInv, QueueInv, RequestInv, TypeOK, Fresh, RequestsOK
<1>2. /\ request.id # 0 => Active
      /\ Active => request.id \in RequestIds
      /\ ~Active => request.id = 0
  BY <1>1 DEF Active, NoRequest, RequestIds
<1>3. ASSUME ~Pending, NEW i \in RequestIds, i <= asked PROVE Settled(i)
  <2>1. outcome[i] # "unasked" /\ (outcome[i] = "pending" => request.id = i)
    BY <1>1, <1>3 DEF RequestOK
  <2>2. outcome[i] # "pending"
    BY <1>2, <1>3, <2>1 DEF Pending, RequestIds
  <2> QED  BY <1>1, <2>1, <2>2 DEF Settled
<1>4. Active => Pending \/ Settled(request.id)
  BY <1>2, <1>3 DEF GateInv
<1> QED  BY <1>2, <1>3, <1>4

(* Every step of the session is a step of the gate, or leaves it alone.    *)
LEMMA GateStep == GateInv /\ [Next]_vars => [Gate!Next]_(Gate!vars)
<1> SUFFICES ASSUME GateInv, [Next]_vars PROVE Gate!Next \/ UNCHANGED <<request.id, outcome, reported>>
  BY DEF Gate!vars
<1>0. /\ QueueInv /\ asked \in Nat /\ ready \in Seq(Handles)
      /\ outcome \in [RequestIds -> {"unasked", "pending", "allowed", "denied"}]
      /\ \A i \in RequestIds : RequestOK(i) /\ (i > asked => outcome[i] = "unasked")
  BY BoundsAssumption DEF GateInv, SessionInv, QueueInv, RequestInv, TypeOK, Fresh, RequestsOK
<1>1. ASSUME NEW h, AtHead(h) PROVE Holds(ready, h)
  BY <1>0, <1>1, PopQueue DEF AtHead, Holds
<1>2. CASE UNCHANGED vars
  BY <1>2 DEF vars, approvalVars
<1>3. ASSUME Pending, UNCHANGED <<request, reported>>,
             NEW v \in {"allowed", "denied"}, outcome' = [outcome EXCEPT ![request.id] = v]
      PROVE  Gate!Next
  <2>1. request.id \in RequestIds /\ outcome[request.id] = "pending"
    BY <1>0, <1>3, PendingOK
  <2>2. Gate!Settle(request.id, v)
    BY <1>3, <2>1 DEF Gate!Settle
  <2> QED  BY <2>1, <2>2 DEF Gate!Next, Gate!Requests, RequestIds
<1>4. ASSUME NEW i \in RequestIds, AtHead(EmitHandle(i)), reported' = reported \cup {i},
             UNCHANGED <<request, outcome>>
      PROVE  Gate!Next
  <2>1. Settled(i) /\ i \notin reported
    BY <1>0, <1>1, <1>4 DEF RequestOK
  <2>2. Gate!Announce(i)
    BY <1>4, <2>1 DEF Gate!Announce, Gate!Settled, Settled
  <2> QED  BY <2>2 DEF Gate!Next, Gate!Requests, RequestIds
<1>5. ASSUME NEW r \in RunIds, AtHead(RunHandle(r)), run[r] = "asking"
      PROVE  ~Pending /\ Active /\ Settled(request.id) /\ request.id # 0
  <2>1. Scheduled(r) /\ RunOK(r)
    BY <1>0, <1>1, <1>5 DEF Scheduled, QueueInv, RunsOK
  <2>2. request.by = r
    BY <1>0, <1>5 DEF QueueInv, RequestInv, RequestHasWaiter
  <2>3. Active
    BY <2>2 DEF Active, NoRequest, NoRun, RunIds
  <2> QED  BY <1>5, <2>1, <2>3, NothingOpen DEF RunOK, RequestIds
<1>6. ASSUME NEW r \in RunIds, AtHead(RunHandle(r)), run[r] = "asking", request' = NoRequest,
             UNCHANGED <<outcome, reported>>
      PROVE  Gate!Next
  <2>1. Gate!Leave
    BY <1>5, <1>6 DEF Gate!Leave, Gate!Settled, Settled, NoRequest
  <2> QED  BY <2>1 DEF Gate!Next
<1>7. ASSUME NEW r \in RunIds, Asks(r) PROVE Gate!Next
  <2> DEFINE i == asked + 1
  <2>1. /\ AtHead(RunHandle(r)) /\ Cleared(r) = NoRequest
        /\ request' = [id |-> i, by |-> r] /\ UNCHANGED reported
        /\ outcome' = [outcome EXCEPT ![i] = "pending"]
        /\ i \in RequestIds /\ outcome[i] = "unasked"
    BY <1>0, <1>7, BoundsAssumption DEF Asks, Steps, RequestIds
  <2>2. ~Pending /\ (request.id = 0 \/ Settled(request.id))
    <3>1. CASE run[r] = "asking"
      BY <1>5, <2>1, <3>1
    <3>2. CASE run[r] # "asking"
      BY <2>1, <3>2 DEF Cleared, Pending, Active, NoRequest
    <3> QED  BY <3>1, <3>2
  <2>3. \A j \in 1..(i - 1) : Settled(j)
    <3>1. \A j \in 1..(i - 1) : j \in RequestIds /\ j <= asked
      BY <1>0, <2>1, BoundsAssumption DEF RequestIds
    <3> QED  BY <2>2, <3>1, NothingOpen
  <2>4. Gate!Raise(i)
    BY <2>1, <2>2, <2>3 DEF Gate!Raise, Gate!Settled, Settled
  <2> QED  BY <2>1, <2>4 DEF Gate!Next, Gate!Requests, RequestIds
<1> QED  BY <1>2, <1>3, <1>4, <1>6, <1>7, GateSteps

(* The session keeps the promise of the approval gate: requests are raised *)
(* one at a time, each is settled once, the agent leaves only a settled    *)
(* request, and a verdict is announced once.                               *)
THEOREM SessionImplementsGate == Spec => GateSafety
<1>1. Init => Gate!Init
  BY DEF Init, Gate!Init, NoRequest, RequestIds, Gate!Requests
<1> QED  BY <1>1, GateStep, GateHolds, PTL DEF Spec, GateSafety, Gate!Spec
=============================================================================
