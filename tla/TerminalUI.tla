----------------------------- MODULE TerminalUI -----------------------------
(***************************************************************************)
(* The Textual terminal: AgentUI folds the events of a main agent and the  *)
(* subagents it calls into a conversation with one panel per subagent,     *)
(* shows the pending approval in a bar and turns key presses into prompts, *)
(* commands and decisions. Textual itself (focus, "after refresh"          *)
(* callbacks, the message queue) is modelled as this code uses it; a task  *)
(* that is created has begun before the next key reaches the input.        *)
(***************************************************************************)
EXTENDS Naturals, SequencesExt

CONSTANTS Kids,      \* run ids of subagents, each used once; main runs are 1, 2, ...
          MaxRuns, MaxRequests, MaxChunks, MaxCalls   \* bounds

VARIABLES ui,        \* AgentUI and UIState
          approval,  \* the ApprovalController: its request, and whether it is decided
          pending,   \* an _apply_approval_state waits for the next refresh
          actor,     \* the agents: what "main" and "child" are doing
          remembered,\* prompts in the agent's context
          said,      \* history: per LLM request, its run and the chunks published
          calls,     \* history: per tool call, its outcome
          homes,     \* history: the tool call each subagent was started by
          finished,  \* history: the last request of each run that finished
          decisions, \* history: the request decided and the one on the screen
          runsMade, cleared   \* main runs; requests made before the last /clear

agentVars == <<actor, remembered, said, calls, homes, finished, runsMade>>
terminalVars == <<ui, approval, pending, agentVars, decisions, cleared>>

None == 0
NoRequest == [request |-> None, decided |-> FALSE]
Off == [stage |-> "off", run |-> None, request |-> 0, iteration |-> 0, call |-> 0, asks |-> FALSE]
EmptyView == [items |-> <<>>, iteration |-> 0, thinking |-> FALSE, streaming |-> FALSE, streamed |-> FALSE]

Init == /\ ui = [view |-> EmptyView, runs |-> <<>>, main |-> None, active |-> None,
                 slots |-> <<>>, order |-> <<>>, stage |-> "idle",
                 running |-> FALSE, first |-> TRUE, shown |-> None, focus |-> "input", closed |-> FALSE]
        /\ approval = NoRequest /\ pending = FALSE
        /\ actor = [a \in {"main", "child"} |-> Off] /\ remembered = {}
        /\ said = <<>> /\ calls = <<>> /\ homes = <<>> /\ finished = {}
        /\ decisions = {} /\ runsMade = 0 /\ cleared = 0

-----------------------------------------------------------------------------
(* A view: UIState for the main agent, AgentRunView for a subagent *)

Put(f, k, v) == [x \in DOMAIN f \cup {k} |-> IF x = k THEN v ELSE f[x]]
Item(kind, text) == [kind |-> kind, text |-> text, iteration |-> 0, call |-> 0, status |-> "none"]
Add(v, item) == [v EXCEPT !.items = Append(@, item)]
LastOf(v, Is(_)) == LET at == {i \in DOMAIN v.items : Is(v.items[i])} IN IF at = {} THEN 0 ELSE Max(at)

StartThinking(v, iteration) ==
    [v EXCEPT !.iteration = iteration, !.thinking = TRUE, !.streaming = FALSE, !.streamed = FALSE]

\* The chunk goes to the last thinking block if that has the current iteration.
AppendThinking(v, chunk) ==
    LET i == LastOf(v, LAMBDA item : item.kind = "thinking")
    IN  IF i # 0 /\ v.items[i].iteration = v.iteration
        THEN [v EXCEPT !.items[i].text = Append(@, chunk)]
        ELSE Add(v, [Item("thinking", <<chunk>>) EXCEPT !.iteration = v.iteration])

\* The chunk goes to the last assistant message, which the stream's first chunk opens.
AppendAssistant(v, chunk) ==
    LET w == IF v.streaming THEN v ELSE [Add(v, Item("assistant", <<>>)) EXCEPT !.streaming = TRUE, !.streamed = TRUE]
    IN  [w EXCEPT !.items[LastOf(w, LAMBDA item : item.kind = "assistant")].text = Append(@, chunk), !.thinking = FALSE]

Quiet(v) == [v EXCEPT !.thinking = FALSE, !.streaming = FALSE]
AddTool(v, call) ==
    Add([v EXCEPT !.thinking = FALSE], [Item("tool", <<>>) EXCEPT !.call = call, !.status = "running"])
FinishTool(v, call, status) ==
    LET i == LastOf(v, LAMBDA item : item.kind = "tool" /\ item.call = call)
    IN  IF i = 0 THEN v ELSE [v EXCEPT !.items[i].status = status]

\* AgentFinished: its result is added when the last request streamed no content.
MutantWithResult(v, q) == Quiet(v)
WithResult(v, q) ==
    IF v.streamed THEN Quiet(v) ELSE Add(Quiet(v), Item("assistant", <<[request |-> q, n |-> 0]>>))

-----------------------------------------------------------------------------
(* Runs and events *)

\* UIState.start_run: a known run is left as it is; a new one without a parent is
\* taken for the main run.
StartRun(u, run, parent) ==
    IF run \in DOMAIN u.runs THEN u
    ELSE IF parent = None THEN [u EXCEPT !.runs = Put(@, run, EmptyView), !.main = run]
    ELSE [u EXCEPT !.runs = Put(@, run, EmptyView), !.active = run]
FinishRun(u, run) == IF u.active = run THEN [u EXCEPT !.active = None] ELSE u

InOrder(u, run) == IF \E i \in DOMAIN u.order : u.order[i] = run THEN u ELSE [u EXCEPT !.order = Append(@, run)]

IsSubagent(u, run) == u.main # None /\ run # u.main

\* _handle_subagent_event, up to the event itself: an unknown run gets a panel.
Known(u, run, parent) ==
    LET v == IF run \in DOMAIN u.runs THEN u
             ELSE InOrder([StartRun(u, run, parent) EXCEPT
                             !.slots = IF run \in DOMAIN @ THEN @ ELSE Put(@, run, Len(u.view.items))], run)
    IN  [v EXCEPT !.active = run]

\* _render_approval: the bar, and with it whether the input can be seen. A widget
\* that is hidden loses the focus.
RenderApproval(u) ==
    [u EXCEPT !.shown = approval.request,
              !.focus = CASE approval.request # None /\ u.focus = "input" -> "none"
                          [] approval.request = None /\ u.focus = "button" -> "none"
                          [] OTHER -> u.focus]
FocusInput(u) == IF u.shown = None THEN [u EXCEPT !.focus = "input"] ELSE u

\* The handler of an event that changes one view.
OnView(u, run, parent, Change(_)) ==
    RenderApproval(IF IsSubagent(u, run)
                   THEN LET v == Known(u, run, parent) IN [v EXCEPT !.runs[run] = Change(@)]
                   ELSE [u EXCEPT !.view = Change(@)])

\* The agent announces its phase before it announces that it has started.
OnPhase(u, run, parent) ==
    IF IsSubagent(u, run) THEN Known(u, run, parent) ELSE [u EXCEPT !.stage = "working"]

OnStarted(u, run, parent) ==
    LET v == StartRun(u, run, parent)
    IN  RenderApproval(IF parent = None THEN v
                       ELSE InOrder([v EXCEPT !.active = run, !.slots = Put(@, run, Len(u.view.items))], run))

OnFinished(u, run, parent, q) ==
    LET v == FinishRun(OnView(u, run, parent, LAMBDA w : WithResult(w, q)), run)
    IN  IF parent = None THEN [v EXCEPT !.stage = "completed"] ELSE v

\* The conversation as it is drawn: after each item the panels of its slot.
Screen(u) ==
    LET Panels(slot) == SelectSeq(u.order, LAMBDA run : u.slots[run] = slot)
        Drawn(i)     == [j \in DOMAIN Panels(i) |-> [Item("panel", <<>>) EXCEPT !.call = Panels(i)[j]]]
    IN  Drawn(0) \o FlattenSeq([i \in DOMAIN u.view.items |-> <<u.view.items[i]>> \o Drawn(i)])

-----------------------------------------------------------------------------
(* The human *)

AtPrompt == approval.request = None /\ ~ui.running /\ ~ui.closed /\ ui.focus = "input"

\* _run_agent up to the first request: the prompt, the task, the run's first events.
Submit ==
    /\ AtPrompt /\ runsMade < MaxRuns
    /\ LET run == runsMade + 1
       IN  /\ runsMade' = run
           /\ actor' = [actor EXCEPT !["main"] = [Off EXCEPT !.stage = "ready", !.run = run]]
           /\ remembered' = IF ui.first THEN {run} ELSE remembered \cup {run}
           /\ ui' = OnStarted(OnPhase([ui EXCEPT !.running = TRUE,
                        !.view = Add(@, [Item("user", <<>>) EXCEPT !.call = run])], run, None), run, None)
    /\ UNCHANGED <<approval, pending, said, calls, homes, finished, decisions, cleared>>

\* clear_context, clear_conversation and the panels.
Clear ==
    /\ AtPrompt /\ ui.view.items # <<>>
    /\ ui' = FocusInput(RenderApproval([ui EXCEPT !.view = EmptyView, !.runs = <<>>, !.main = None,
                  !.active = None, !.slots = <<>>, !.order = <<>>, !.stage = "idle", !.first = TRUE]))
    /\ remembered' = {} /\ cleared' = Len(said)
    /\ UNCHANGED <<approval, pending, actor, said, calls, homes, finished, decisions, runsMade>>

\* /help, /plugins and /plugin answer with a message of their own.
Command ==
    /\ AtPrompt /\ \A i \in DOMAIN ui.view.items : ui.view.items[i].kind # "note"
    /\ ui' = FocusInput(RenderApproval([ui EXCEPT !.view = Add(@, Item("note", <<>>))]))
    /\ UNCHANGED <<approval, pending, agentVars, decisions, cleared>>

\* The keys a and d, or a button of the bar: the controller is told allow or deny,
\* not which request is meant. A letter typed into the input stays text.
Decide(button) ==
    /\ approval.request # None /\ ~ui.closed /\ ui.focus # "input"
    /\ button => ui.shown # None
    /\ decisions' = IF approval.decided THEN decisions
                    ELSE decisions \cup {[request |-> approval.request, shown |-> ui.shown]}
    /\ approval' = [approval EXCEPT !.decided = TRUE]
    /\ ui' = IF ui.shown # None /\ ~button THEN [ui EXCEPT !.focus = "button"] ELSE ui
    /\ UNCHANGED <<pending, agentVars, cleared>>

MutantRefresh ==
    /\ pending /\ pending' = FALSE
    /\ LET v == RenderApproval(ui)
       IN  ui' = IF ui.closed \/ approval.request = None THEN v ELSE [v EXCEPT !.focus = "button"]
    /\ UNCHANGED <<approval, agentVars, decisions, cleared>>
Refresh ==
    /\ pending /\ pending' = FALSE
    /\ LET v == RenderApproval(ui)
       IN  ui' = IF ui.closed THEN ui
                 ELSE IF approval.request = None THEN FocusInput(v) ELSE [v EXCEPT !.focus = "button"]
    /\ UNCHANGED <<approval, agentVars, decisions, cleared>>

\* /quit: every task is cancelled, nothing is drawn any more.
Quit ==
    /\ ~ui.closed
    /\ ui' = [ui EXCEPT !.closed = TRUE, !.running = FALSE, !.view = Quiet(@)]
    /\ actor' = [a \in DOMAIN actor |-> Off] /\ approval' = NoRequest
    /\ UNCHANGED <<pending, remembered, said, calls, homes, finished, decisions, runsMade, cleared>>

-----------------------------------------------------------------------------
(* The agents, and the event each step publishes *)

Parent(a) == IF a = "main" THEN None ELSE actor["main"].run
Told(a, Change(_)) == ui' = OnView(ui, actor[a].run, Parent(a), Change)
Step(a, state) == actor' = [actor EXCEPT ![a] = state]

StartChild(k) ==
    /\ actor["main"].stage = "tool" /\ ~actor["main"].asks /\ actor["child"] = Off
    /\ k \notin DOMAIN homes
    /\ Step("child", [Off EXCEPT !.stage = "ready", !.run = k])
    /\ homes' = Put(homes, k, actor["main"].call)
    /\ ui' = OnStarted(OnPhase(ui, k, actor["main"].run), k, actor["main"].run)
    /\ UNCHANGED <<approval, pending, remembered, said, calls, finished, decisions, runsMade, cleared>>

Request(a) ==
    /\ actor[a].stage = "ready" /\ Len(said) < MaxRequests
    /\ said' = Append(said, [run |-> actor[a].run, thinking |-> 0, assistant |-> 0])
    /\ Step(a, [actor[a] EXCEPT !.stage = "streaming", !.request = Len(said) + 1, !.iteration = @ + 1])
    /\ Told(a, LAMBDA v : StartThinking(v, actor[a].iteration + 1))
    /\ UNCHANGED <<approval, pending, remembered, calls, homes, finished, decisions, runsMade, cleared>>

Chunk(a, kind) ==
    LET q     == actor[a].request
        chunk == [request |-> q, n |-> said[q][kind] + 1]
    IN  /\ actor[a].stage = "streaming" /\ said[q].thinking + said[q].assistant < MaxChunks
        /\ said' = [said EXCEPT ![q][kind] = @ + 1]
        /\ Told(a, LAMBDA v : IF kind = "thinking" THEN AppendThinking(v, chunk) ELSE AppendAssistant(v, chunk))
        /\ UNCHANGED <<approval, pending, actor, remembered, calls, homes, finished, decisions, runsMade, cleared>>

Responded(a) ==
    /\ actor[a].stage = "streaming" /\ Step(a, [actor[a] EXCEPT !.stage = "ready"])
    /\ Told(a, Quiet)
    /\ UNCHANGED <<approval, pending, remembered, said, calls, homes, finished, decisions, runsMade, cleared>>

\* A call is announced before the hook that may ask for an approval runs.
CallTool(a, asks) ==
    /\ actor[a].stage = "ready" /\ actor[a].request # 0 /\ Len(calls) < MaxCalls
    /\ calls' = Append(calls, "running")
    /\ Step(a, [actor[a] EXCEPT !.stage = "tool", !.call = Len(calls) + 1, !.asks = asks])
    /\ Told(a, LAMBDA v : AddTool(v, Len(calls) + 1))
    /\ UNCHANGED <<approval, pending, remembered, said, homes, finished, decisions, runsMade, cleared>>

\* ApprovalController.__call__, and its finally once the future is set.
Ask(a) ==
    /\ actor[a].stage = "tool" /\ actor[a].asks /\ approval.request = None
    /\ approval' = [request |-> actor[a].call, decided |-> FALSE] /\ pending' = TRUE
    /\ UNCHANGED <<ui, agentVars, decisions, cleared>>
Answered(a) ==
    /\ actor[a].stage = "tool" /\ approval.request = actor[a].call /\ approval.decided
    /\ approval' = NoRequest /\ pending' = TRUE
    /\ Step(a, [actor[a] EXCEPT !.asks = FALSE])
    /\ UNCHANGED <<ui, remembered, said, calls, homes, finished, decisions, runsMade, cleared>>

ToolFinished(a, status) ==
    /\ actor[a].stage = "tool" /\ ~actor[a].asks /\ (a = "main" => actor["child"] = Off)
    /\ calls' = [calls EXCEPT ![actor[a].call] = status]
    /\ Step(a, [actor[a] EXCEPT !.stage = "ready"])
    /\ Told(a, LAMBDA v : FinishTool(v, actor[a].call, status))
    /\ UNCHANGED <<approval, pending, remembered, said, homes, finished, decisions, runsMade, cleared>>

\* _run_agent's finally, after the run's last event or its error.
AtRest(u) == FocusInput(RenderApproval([u EXCEPT !.running = FALSE, !.view = Quiet(@)]))

Finish(a) ==
    /\ actor[a].stage = "ready" /\ actor[a].request # 0
    /\ Step(a, Off) /\ finished' = finished \cup {actor[a].request}
    /\ LET u == OnFinished(ui, actor[a].run, Parent(a), actor[a].request)
       IN  ui' = IF a = "main" THEN AtRest([u EXCEPT !.first = FALSE]) ELSE u
    /\ UNCHANGED <<approval, pending, remembered, said, calls, homes, decisions, runsMade, cleared>>

Fail ==
    /\ actor["main"].stage \in {"ready", "streaming"}
    /\ Step("main", Off)
    /\ ui' = AtRest([ui EXCEPT !.stage = "blocked", !.view = Add(@, Item("note", <<>>))])
    /\ UNCHANGED <<approval, pending, remembered, said, calls, homes, finished, decisions, runsMade, cleared>>

\* A subagent that fails publishes nothing more: its caller gets an error.
ChildDies ==
    /\ actor["child"].stage \in {"ready", "streaming"} /\ Step("child", Off)
    /\ UNCHANGED <<ui, approval, pending, remembered, said, calls, homes, finished, decisions, runsMade, cleared>>

Next == \/ Submit \/ Clear \/ Command \/ Refresh \/ Quit \/ Fail \/ ChildDies
        \/ \E button \in BOOLEAN : Decide(button)
        \/ \E k \in Kids : StartChild(k)
        \/ \E a \in DOMAIN actor :
              \/ Request(a) \/ Responded(a) \/ Ask(a) \/ Answered(a) \/ Finish(a)
              \/ \E kind \in {"thinking", "assistant"} : Chunk(a, kind)
              \/ \E asks \in BOOLEAN : CallTool(a, asks)
              \/ \E status \in {"success", "error"} : ToolFinished(a, status)
Spec == Init /\ [][Next]_terminalVars

-----------------------------------------------------------------------------
Texts(v, kind) == {i \in DOMAIN v.items : v.items[i].kind = kind /\ v.items[i].text # <<>>}
Of(item) == item.text[1].request
Whole(q, kind) == [n \in 1..said[q][kind] |-> [request |-> q, n |-> n]]
ViewOf(run) == IF run \in Kids THEN ui.runs[run] ELSE ui.view
Present == {q \in DOMAIN said : q > cleared}

\* Every answer is on the screen once, whole, in the order given and in the view of
\* its run, be it streamed or only the result of a run; a row shows its own call.
AnswersAreShown ==
    /\ \A q \in Present :
          (said[q].assistant > 0 \/ q \in finished) =>
             \E i \in Texts(ViewOf(said[q].run), "assistant") :
                LET item == ViewOf(said[q].run).items[i]
                IN  item.text = IF said[q].assistant > 0 THEN Whole(q, "assistant") ELSE <<[request |-> q, n |-> 0]>>
    /\ \A v \in {ui.view} \cup {ui.runs[k] : k \in DOMAIN ui.runs} :
          /\ \A i, j \in Texts(v, "assistant") : i < j => Of(v.items[i]) < Of(v.items[j])
          /\ \A i \in DOMAIN v.items : v.items[i].kind = "tool" => v.items[i].status = calls[v.items[i].call]

\* Each subagent has one panel, below the row of the call that started it.
PanelsAreInPlace ==
    LET screen    == Screen(ui)
        PanelOf(k) == {p \in DOMAIN screen : screen[p].kind = "panel" /\ screen[p].call = k}
    IN  \A k \in DOMAIN ui.runs \cap Kids :
           \E p \in PanelOf(k) :
              /\ PanelOf(k) = {p}
              /\ LET above == {r \in 1..p : screen[r].kind # "panel"}
                 IN  above # {} /\ screen[Max(above)].kind = "tool" /\ screen[Max(above)].call = homes[k]

\* Once drawn, the bar shows the request that is waiting and has the keyboard; when
\* nothing waits and no run goes on, the prompt has it and nothing seems to stream.
KeyboardIsReady ==
    ~ui.closed =>
       /\ ~pending => /\ ui.shown = approval.request
                      /\ ui.focus = IF approval.request # None THEN "button" ELSE "input"
       /\ (~pending /\ actor["main"] = Off) => AtPrompt
       /\ actor["main"] = Off => ~ui.view.streaming /\ ~ui.view.thinking

\* After /clear the agent remembers no prompt the screen does not show.
NothingHidden == \A p \in remembered : \E i \in DOMAIN ui.view.items :
                    ui.view.items[i].kind = "user" /\ ui.view.items[i].call = p

TerminalIsFaithful == AnswersAreShown /\ PanelsAreInPlace /\ KeyboardIsReady /\ NothingHidden

\* A decision is about the request the human sees: one that answers an earlier
\* request must not resolve a newer one.
DecidesWhatIsShown == \A d \in decisions : d.request = d.shown

\* What the code does not keep: thinking is shown in a block of its own request, and
\* the run shown as the active subagent is one.
ThinkingIsItsOwn == \A i \in Texts(ui.view, "thinking") :
                       \A n \in DOMAIN ui.view.items[i].text : ui.view.items[i].text[n].request = Of(ui.view.items[i])
ActiveIsSubagent == ui.active \in Kids \cup {None}
=============================================================================
