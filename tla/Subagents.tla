----------------------------- MODULE Subagents -----------------------------
(***************************************************************************)
(* Delegation to a subagent: the router picks a model from the catalog,    *)
(* the model runtime swaps it in for the time of the run and restores what *)
(* was loaded before, and a failed or timed-out run is tried once more on  *)
(* a stronger model.  Loading and unloading are requests to the model      *)
(* server that may fail, and a cancellation may arrive at any await.       *)
(***************************************************************************)
EXTENDS Integers, FiniteSets

CONSTANTS Catalog,     \* model profiles: name, usage, quality, speed, capabilities, vram, context, thinking
          Requests,    \* what subagent.run is called with: role, model, capability, power,
                       \* complexity, minContext, tools
          Registered,  \* tools of the parent
          VramBudget,  \* vram_budget_gb
          SingleModel, \* the main model in single-model mode, "none" otherwise
          Escalation,  \* SubagentConfig.escalation
          MaxCalls     \* bound on delegations

VARIABLES call,      \* the delegation in progress
          loaded,    \* ModelRuntimeManager._loaded_model
          resident,  \* models the server keeps because of this runtime
          locked,    \* the runtime's lock is held
          nested,    \* the subagent itself called subagent.run, and waits for the lock
          calls,     \* delegations so far
          disturbed  \* history: a request to the server failed or was interrupted

subagentVars == <<call, loaded, resident, locked, nested, calls, disturbed>>

-----------------------------------------------------------------------------
(* The catalog and the request *)

Unstated == -1       \* context_size of a profile that does not give one

\* ModelCatalogLoader: any other catalog is refused as a whole.
ValidCatalog ==
    \A m \in Catalog :
        /\ m.quality \in 1..5 /\ m.usage \in 1..5 /\ m.speed \in {"fast", "medium", "slow"}
        /\ \A c \in DOMAIN m.capabilities : m.capabilities[c] \in 0..5
        /\ \A n \in Catalog : n.name = m.name => n = m

\* What a known role stands for when the request does not say otherwise.
Preset(role) ==
    CASE role = "researcher" -> [capability |-> "research", power |-> "low", tools |-> {"web_fetch", "web_crawl"}]
      [] role = "coder" -> [capability |-> "coding", power |-> "medium",
                            tools |-> {"read_file", "write_file", "edit_file", "execute_shell"}]
      [] role = "reviewer" -> [capability |-> "general", power |-> "medium", tools |-> {"read_file", "search_files"}]
      [] OTHER -> [capability |-> "general", power |-> "auto", tools |-> {}]

WithPreset(request) ==
    LET preset == Preset(request.role) IN
    [request EXCEPT !.capability = IF @ = "general" THEN preset.capability ELSE @,
                    !.power = IF @ = "auto" THEN preset.power ELSE @,
                    !.tools = IF @ = {} THEN preset.tools ELSE @]

\* options_by_model passes over a profile that states neither; such a model is
\* then asked to think, as one the catalog does not know.
HasOptions(m) == m.context # Unstated \/ m.thinking

\* SubagentAgentFactory.create: whether the requests to the model ask it to think, and
\* which of the tools asked for the subagent gets.
Thinks(name, task) ==
    /\ task.power \notin {"low", "medium"}
    /\ \A m \in Catalog : m.name = name /\ HasOptions(m) => m.thinking
ToolsOf(task) == task.tools \cap Registered

-----------------------------------------------------------------------------
\* DefaultModelRouter, with scores in tenths.  "auto" power knows no band.
Band(power) == CASE power = "low" -> 1..2 [] power = "medium" -> {3} [] power = "high" -> 3..5
                 [] OTHER -> 1..5
HighSwapThreshold == 4
FitsVram(m) == m.vram <= VramBudget

EligibleModels(task) ==
    {m \in Catalog : /\ m.usage \in Band(task.power) /\ FitsVram(m)
                     /\ ~(/\ task.power = "auto" /\ task.complexity # "complex"
                          /\ m.usage >= HighSwapThreshold)}

ComplexityScore(m, c) == CASE c = "simple" -> (6 - m.quality) * 20
                           [] c = "medium" -> m.quality * 5
                           [] OTHER -> m.quality * 20
SpeedScore(m, c) == LET s == CASE m.speed = "fast" -> 30 [] m.speed = "medium" -> 20 [] OTHER -> 10
                    IN CASE c = "simple" -> s * 2 [] c = "complex" -> s \div 2 [] OTHER -> s
ContextScore(m, need) ==
    IF need = 0 \/ m.context < need THEN 0      \* Unstated is below any need
    ELSE IF m.context >= 3 * need THEN 30 ELSE (10 * m.context) \div need

\* A model that declares what it can do, and not this, scores nothing; one that
\* declares nothing is only unranked there.
Skill(m, capability) == IF capability \in DOMAIN m.capabilities THEN m.capabilities[capability] ELSE 0
Score(m, task, here) ==
    IF DOMAIN m.capabilities # {} /\ Skill(m, task.capability) = 0 THEN 0
    ELSE Skill(m, task.capability) * 100
         + ComplexityScore(m, task.complexity) + m.quality * 15 + (6 - m.usage)
         + SpeedScore(m, task.complexity) + ContextScore(m, task.minContext)
         + (IF m.name = here THEN 80 ELSE 0)

\* rank and _select_best: the best score, then the better quality.
Best(task, here) ==
    {m \in EligibleModels(task) :
        /\ Score(m, task, here) > 0
        /\ \A n \in EligibleModels(task) :
              \/ Score(n, task, here) < Score(m, task, here)
              \/ Score(n, task, here) = Score(m, task, here) /\ n.quality <= m.quality}

\* The names select may return; none means ModelRoutingError.
Select(task, here) ==
    CASE task.model # "auto" -> {task.model}
      [] task.model = "auto" /\ SingleModel # "none" -> {SingleModel}
      [] OTHER -> {m.name : m \in Best(task, here)}

\* power_for: the first band the model's usage falls into.
PowerFor(name) ==
    LET usage == {m.usage : m \in {n \in Catalog : n.name = name}} IN
    CASE usage \cap 1..2 # {} -> "low" [] 3 \in usage -> "medium" [] usage \cap 4..5 # {} -> "high"
      [] OTHER -> "unknown"

\* _escalated_task: one step up from the model that was used.
Stronger(task, name) ==
    LET base == IF PowerFor(name) = "unknown" THEN task.power ELSE PowerFor(name) IN
    CASE base = "low" -> {[task EXCEPT !.power = "medium"]}
      [] base = "medium" -> {[task EXCEPT !.power = "high"]}
      [] OTHER -> {}

-----------------------------------------------------------------------------
NoCall == [at |-> "idle", task |-> CHOOSE r \in Requests : TRUE, model |-> "none", first |-> "none",
           previous |-> "none", status |-> "none"]
Goto(point) == call' = [call EXCEPT !.at = point]
Calm == disturbed' = disturbed
Disturbs == disturbed' = TRUE

Init == /\ ValidCatalog /\ call = NoCall /\ loaded = "none" /\ resident = {}
        /\ locked = FALSE /\ nested = FALSE /\ calls = 0 /\ disturbed = FALSE

\* The tool call: the model is chosen by what is resident now.
Delegate ==
    /\ call.at = "idle" /\ calls < MaxCalls /\ calls' = calls + 1
    /\ \E request \in Requests :
          LET task == WithPreset(request) IN
          \/ Select(task, loaded) = {} /\ UNCHANGED call
          \/ \E m \in Select(task, loaded) :
                call' = [NoCall EXCEPT !.at = "queued", !.task = task, !.model = m]
    /\ UNCHANGED <<loaded, resident, locked, nested, disturbed>>

\* MutantEscalate: the second attempt may be on the same model.
MutantEscalate(status) ==
    IF Escalation /\ status \in {"failed", "timeout"} /\ call.first = "none"
    THEN {[call EXCEPT !.at = "queued", !.model = m, !.first = call.model] :
            m \in UNION {Select(t, loaded') : t \in Stronger(call.task, call.model)}}
    ELSE {}

\* run(): once, and only onto a different model.
Escalate(status) ==
    IF Escalation /\ status \in {"failed", "timeout"} /\ call.first = "none"
    THEN {[call EXCEPT !.at = "queued", !.model = m, !.first = call.model] :
            m \in (UNION {Select(t, loaded') : t \in Stronger(call.task, call.model)}) \ {call.model}}
    ELSE {}

\* The end of an attempt: the lock is free, the result goes to run().
Finish(status) ==
    /\ locked' = FALSE /\ nested' = FALSE
    /\ IF Escalate(status) = {} THEN call' = NoCall ELSE call' \in Escalate(status)

\* use(): the lock, then _switch_locked, outside the try that restores.
Enter ==
    /\ call.at = "queued" /\ ~locked /\ locked' = TRUE
    /\ call' = [call EXCEPT !.previous = loaded,
                            !.at = IF loaded = call.model THEN "running"
                                   ELSE IF loaded # "none" THEN "unloading" ELSE "loading"]
    /\ UNCHANGED <<loaded, resident, nested, calls, disturbed>>

\* The server keeps a model until it is told otherwise (keep_alive).
Keeps(m) == resident' = resident \cup {m}
Releases(m) == resident' = resident \ {m}

Unload(then) ==
    \/ /\ Releases(loaded) /\ loaded' = "none" /\ Calm
       /\ then
    \/ /\ UNCHANGED <<resident, loaded>> /\ Disturbs
       /\ Finish("failed")

SwitchUnload == call.at = "unloading" /\ Unload(Goto("loading") /\ UNCHANGED <<locked, nested>>) /\ calls' = calls

SwitchLoad ==
    /\ call.at = "loading"
    /\ \/ /\ loaded' = call.model /\ Keeps(call.model) /\ Calm
          /\ Goto("running") /\ UNCHANGED <<locked, nested>>
       \/ UNCHANGED <<loaded, resident>> /\ Disturbs /\ Finish("failed")
    /\ calls' = calls

\* A subagent that has the tool may delegate in turn; the lock is not reentrant, so that call
\* waits until its tool timeout or until the subagent itself is stopped.
NestedCall == /\ call.at = "running" /\ "subagent.run" \in ToolsOf(call.task)
              /\ ~nested /\ nested' = TRUE
              /\ UNCHANGED <<call, loaded, resident, locked, calls, disturbed>>
NestedTimeout == /\ nested /\ nested' = FALSE
                 /\ UNCHANGED <<call, loaded, resident, locked, calls, disturbed>>

\* MutantEnded: what the subagent used stays loaded.
MutantEnded(status) ==
    /\ call.at = "running" /\ (nested => status \in {"timeout", "cancelled"})
    /\ UNCHANGED <<loaded, resident, calls, disturbed>>
    /\ Finish(status)

\* The run ends, times out or is cancelled; _restore_locked comes first. A model that
\* cannot think refuses to be asked.
Refused == Thinks(call.model, call.task) /\ \E m \in Catalog : m.name = call.model /\ ~m.thinking
Ended(status) ==
    /\ call.at = "running" /\ (nested => status \in {"timeout", "cancelled"})
    /\ Refused => status # "completed"
    /\ call' = [call EXCEPT !.at = "restoring", !.status = status]
    /\ nested' = FALSE
    /\ UNCHANGED <<loaded, resident, locked, calls, disturbed>>

Restore ==
    /\ call.at = "restoring"
    /\ Unload(IF call.previous = "none" THEN Finish(call.status)
              ELSE Goto("reloading") /\ UNCHANGED <<locked, nested>>)
    /\ calls' = calls

Reload ==
    /\ call.at = "reloading"
    /\ \/ /\ loaded' = call.previous /\ Keeps(call.previous) /\ Calm
          /\ Finish(call.status)
       \/ UNCHANGED <<loaded, resident>> /\ Disturbs /\ Finish("failed")
    /\ calls' = calls

\* A cancellation outside the run: nothing is restored, and what the server
\* made of the interrupted request is unknown.
Interrupt ==
    /\ call.at \in {"queued", "unloading", "loading", "restoring", "reloading"}
    /\ call' = NoCall /\ locked' = FALSE /\ nested' = FALSE
    /\ IF call.at = "queued" THEN Calm ELSE Disturbs
    /\ resident' \in CASE call.at \in {"unloading", "restoring"} -> {resident, resident \ {loaded}}
                       [] call.at = "loading" -> {resident, resident \cup {call.model}}
                       [] call.at = "reloading" -> {resident, resident \cup {call.previous}}
                       [] OTHER -> {resident}
    /\ UNCHANGED <<loaded, calls>>

Next == \/ Delegate \/ Enter \/ SwitchUnload \/ SwitchLoad \/ NestedCall \/ NestedTimeout
        \/ \E status \in {"completed", "failed", "timeout", "cancelled"} : Ended(status)
        \/ Restore \/ Reload \/ Interrupt

Spec == Init /\ [][Next]_subagentVars

-----------------------------------------------------------------------------
\* "The previously active model is restored when the context exits" (use): at
\* rest the runtime holds the lock for nobody and, unless a request to the
\* server failed or was interrupted, keeps no model loaded.
RestoredAtRest ==
    /\ call.at \in {"idle", "queued"} <=> ~locked
    /\ ~locked /\ ~disturbed => loaded = "none" /\ resident = {}

\* A subagent runs on the model that was chosen for it, and a second attempt on
\* another one of at least the first one's class (_escalated_task, run).
EscalatesUpward ==
    /\ call.at = "running" => loaded = call.model
    /\ call.first # "none" =>
          /\ call.model # call.first
          /\ \A m, n \in Catalog : m.name = call.first /\ n.name = call.model => n.usage >= m.usage

SubagentsAreSound == RestoredAtRest /\ EscalatesUpward
=============================================================================
