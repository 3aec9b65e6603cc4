----------------------------- MODULE AgentRun -----------------------------
(***************************************************************************)
(* The runs of one agent: the control of Agent (agent.py) and of its       *)
(* AgentOrchestrator (agent_orchestrator.py) over a whole conversation.    *)
(*                                                                         *)
(* A user asks questions, asks for an answer again, resumes a run that     *)
(* stopped, and cancels; the model answers, answers nothing, or calls      *)
(* tools, in any order; tools succeed, fail or bring research.  One step   *)
(* is the code between two real suspensions of the run: its first step,    *)
(* the return of an LLM call, the return of a tool.  Publishing an event   *)
(* does not suspend, so synthesis and the completion gate are one step.    *)
(*                                                                         *)
(* SessionLifecycle guarantees the premise: one run at a time, and a run   *)
(* that is cancelled before its first step never executes.  Questions are  *)
(* numbered; a hint given with a regenerate belongs to the question it     *)
(* refines.  What the repeat and cycle guards count is left out: a failed  *)
(* call may or may not have been one too many.                             *)
(***************************************************************************)
EXTENDS TaskPlan

CONSTANTS
    Contracts,       \* the sets of requirements a question may come with
    MaxIterations,   \* Agent._max_iterations
    MaxToolCalls,    \* Agent._max_tool_calls
    MaxBatch,        \* bound: tool calls in one response
    MaxQuestions,    \* bound: questions asked in one behaviour
    MaxAttempts      \* bound: runs, retries and resumptions launched

ASSUME RunAssumption ==
    /\ Contracts \subseteq SUBSET Requirements
    /\ MaxIterations \in Nat \ {0}
    /\ MaxToolCalls \in Nat
    /\ MaxBatch \in Nat \ {0}
    /\ MaxQuestions \in Nat
    /\ MaxAttempts \in Nat

Questions == 1..MaxQuestions
NoQuestion == 0
NoAnchor   == [id |-> 0, prompt |-> NoQuestion, objective |-> NoQuestion]
Anchors    == [id : Nat, prompt : Nat, objective : Nat]

WorkPhases == Requirements \cup {"execution", "debugging"}
Phases     == WorkPhases \cup {"idle", "planning", "synthesis",
                               "waiting_approval", "blocked", "completed"}

VARIABLES
    (* what the orchestrator keeps                                         *)
    phase,         \* AgentState.phase
    finished,      \* AgentState.finished
    plan,          \* _plan, NoPlan when None
    prepared,      \* _task_plan_prepared
    planFor,       \* the question _task_plan was made for, NoQuestion when None
    contract,      \* _task_contract: the requirements it sets
    done,          \* _task_progress: the requirements met
    anchor,        \* _task_anchor
    evidence,      \* _evidence_store: the questions its pages were fetched for
    (* what the agent keeps                                                *)
    baseline,      \* _attempt_baseline: the evidence when the attempt began
    question,      \* the last question in the dialogue
    answered,      \* the dialogue ends with a turn of the assistant or a tool
    (* the run                                                             *)
    pc,            \* "idle", "launched", "asking" the model, in a "tool"
    job,           \* what the run was launched as
    iteration,     \* of _run_loop
    batch,         \* tool calls of the response that are not finished
    used,          \* tool_calls_used
    revised,       \* guide_revision_done
    looping,       \* repeat_detected, with signatures counted
    crashed,       \* the last run ended in an internal RuntimeError
    (* history                                                             *)
    asked,         \* questions asked so far
    attempts,      \* runs launched so far
    gained         \* requirements met since the attempt began

taskVars == <<prepared, planFor, contract, anchor>>
workVars == <<phase, finished, plan, done, gained>>
talkVars == <<question, answered>>
pageVars == <<evidence, baseline>>
loopVars == <<iteration, batch, used, revised, looping>>
countVars == <<asked, attempts, job>>

vars == <<taskVars, workVars, talkVars, pageVars, loopVars, countVars, pc, crashed>>

Jobs == {"run", "continue", "regenerate", "resume"}

TypeOK ==
    /\ phase \in Phases
    /\ plan \in Plans
    /\ contract \in Contracts \cup {{}}
    /\ done \subseteq Requirements
    /\ gained \subseteq Requirements
    /\ anchor \in Anchors
    /\ planFor \in Questions \cup {NoQuestion}
    /\ question \in Questions \cup {NoQuestion}
    /\ evidence \subseteq Questions
    /\ baseline \subseteq Questions
    /\ pc \in {"idle", "launched", "asking", "tool"}
    /\ job \in Jobs
    /\ iteration \in 0..MaxIterations
    /\ batch \in 0..MaxBatch
    /\ used \in 0..MaxToolCalls
    /\ asked \in 0..MaxQuestions
    /\ attempts \in 0..MaxAttempts
    /\ prepared \in BOOLEAN
    /\ finished \in BOOLEAN
    /\ answered \in BOOLEAN
    /\ revised \in BOOLEAN
    /\ looping \in BOOLEAN
    /\ crashed \in BOOLEAN

Init ==
    /\ phase = "idle" /\ finished = FALSE /\ plan = NoPlan
    /\ done = {} /\ gained = {}
    /\ prepared = FALSE /\ planFor = NoQuestion /\ contract = {} /\ anchor = NoAnchor
    /\ question = NoQuestion /\ answered = FALSE
    /\ evidence = {} /\ baseline = {}
    /\ pc = "idle" /\ job = "run" /\ crashed = FALSE
    /\ iteration = 0 /\ batch = 0 /\ used = 0 /\ revised = FALSE /\ looping = FALSE
    /\ asked = 0 /\ attempts = 0

---------------------------------------------------------------------------
(* Phases.  _ALLOWED_TRANSITIONS; staying is always allowed.               *)

Allowed ==
    [from \in Phases |->
        CASE from = "idle"     -> {"planning", "research", "execution", "blocked"}
          [] from = "planning" -> WorkPhases \cup {"synthesis", "waiting_approval", "blocked"}
          [] from \in WorkPhases
                               -> WorkPhases \cup {"synthesis", "waiting_approval", "blocked"}
          [] from = "synthesis"
                               -> WorkPhases \cup {"synthesis", "blocked", "completed"}
          [] from = "waiting_approval"
                               -> WorkPhases \cup {"synthesis", "blocked"}
          [] from = "blocked"  -> WorkPhases \cup {"planning"}
          [] OTHER             -> {}]

CanMove(from, to) == from = to \/ to \in Allowed[from]

(* The phase of the step to work on; without one, tools are execution.     *)
StepPhase(p) == IF p.current = None THEN "execution" ELSE p.current

(* CompletionGate.check: the first requirement that is not met.            *)
Missing(c, d) ==
    IF "research" \in c \ d THEN "research"
    ELSE IF "verification" \in c \ d THEN "verification" ELSE "reflection"

MutantGateAllows(c, d) == \A r \in c : r \in d \/ plan.status[r] = "active"

GateAllows(c, d) == c \subseteq d

---------------------------------------------------------------------------
(* How an iteration begins and ends.                                       *)

Stop(p, ph) ==
    /\ pc' = "idle"
    /\ plan' = p
    /\ phase' = ph

(* block(), then the RuntimeError that ends the run.                       *)
Block(p) == Stop(CurrentFailed(p), "blocked")

MutantAskingPhase(p, ph) == ph

(* on_llm_requested: work resumes after debugging.                         *)
AskingPhase(p, ph) ==
    IF p.current # None /\ ph = "debugging" THEN p.current ELSE ph

MutantNextIteration(p, ph) ==
    /\ iteration' = (iteration % MaxIterations) + 1
    /\ pc' = "asking"
    /\ plan' = p
    /\ phase' = AskingPhase(p, ph)

(* The next pass of the loop, with plan p and phase ph left by this one:   *)
(* no iteration is left, the token allowance is spent, or the model is     *)
(* asked again.                                                            *)
NextIteration(p, ph) ==
    \/ /\ iteration = MaxIterations
       /\ Block(p)
       /\ iteration' = iteration
    \/ /\ iteration < MaxIterations
       /\ Stop(p, ph)
       /\ iteration' = iteration
    \/ /\ iteration < MaxIterations
       /\ iteration' = iteration + 1
       /\ pc' = "asking"
       /\ plan' = p
       /\ phase' = AskingPhase(p, ph)

(* _run_loop starts: its counters are its own.                             *)
EnterLoop(p, ph) ==
    /\ plan' = p
    /\ phase' = AskingPhase(p, ph)
    /\ pc' = "asking"
    /\ iteration' = 1
    /\ batch' = 0 /\ used' = 0 /\ revised' = FALSE /\ looping' = FALSE

Raise(p) ==
    /\ pc' = "idle"
    /\ plan' = p
    /\ crashed' = TRUE

---------------------------------------------------------------------------
(* The session launches a run.                                             *)

Launch(kind) ==
    /\ pc = "idle"
    /\ attempts < MaxAttempts
    /\ attempts' = attempts + 1
    /\ pc' = "launched"
    /\ job' = kind
    /\ crashed' = FALSE

(* start_run and start_continue prepare the task before the run's task     *)
(* exists (prepare_task without prompt or anchor).                         *)
PrepareTask(kind, c) ==
    /\ kind \in {"run", "continue"}
    /\ asked < MaxQuestions
    /\ Launch(kind)
    /\ asked' = asked + 1
    /\ prepared' = TRUE
    /\ planFor' = asked'
    /\ contract' = c
    /\ done' = {}
    /\ plan' = NoPlan
    /\ anchor' = NoAnchor
    /\ UNCHANGED <<phase, finished, gained, talkVars, pageVars, loopVars>>

AskAgain ==
    /\ answered
    /\ Launch("regenerate")
    /\ UNCHANGED <<asked, taskVars, workVars, talkVars, pageVars, loopVars>>

Resume ==
    /\ Launch("resume")
    /\ UNCHANGED <<asked, taskVars, workVars, talkVars, pageVars, loopVars>>

---------------------------------------------------------------------------
(* The first step of a run.                                                *)

(* TaskAnchor.create, in ensure_task_anchor: the prompt is the question,   *)
(* the objective is that of the task plan at hand, if there is one.        *)
MintedAnchor(q) ==
    [id        |-> attempts,
     prompt    |-> q,
     objective |-> IF planFor = NoQuestion THEN q ELSE planFor]

(* on_agent_started: reset_for_run, initialize_plan.  A task plan that was *)
(* consumed by a completed run is made anew from the question.             *)
StartAttempt(q) ==
    LET p == BuildPlan(contract)
    IN  /\ question' = q
        /\ anchor' = IF anchor # NoAnchor /\ prepared THEN anchor ELSE MintedAnchor(q)
        /\ planFor' = IF prepared /\ planFor # NoQuestion THEN planFor ELSE q
        /\ prepared' = TRUE
        /\ finished' = FALSE
        /\ done' = {}
        /\ gained' = {}
        /\ EnterLoop(p, p.current)

BeginTask ==
    /\ pc = "launched"
    /\ job \in {"run", "continue"}
    /\ StartAttempt(asked)
    /\ answered' = FALSE
    /\ baseline' = evidence
    /\ UNCHANGED <<evidence, contract, countVars, crashed>>

MutantBeginRegenerate ==
    /\ pc = "launched"
    /\ job = "regenerate"
    /\ StartAttempt(question)
    /\ answered' = FALSE
    /\ baseline' = evidence
    /\ UNCHANGED <<evidence, contract, countVars, crashed>>

(* regenerate: the answer is dropped from the dialogue and the research of *)
(* the attempt from the store.                                             *)
BeginRegenerate ==
    /\ pc = "launched"
    /\ job = "regenerate"
    /\ StartAttempt(question)
    /\ answered' = FALSE
    /\ evidence' = evidence \cap baseline
    /\ baseline' = evidence'
    /\ UNCHANGED <<contract, countVars, crashed>>

(* resume_run refuses without a task, after completion and without a plan. *)
Resumable == anchor # NoAnchor /\ ~finished /\ plan # NoPlan

MutantBeginResume ==
    /\ pc = "launched"
    /\ job = "resume"
    /\ IF Resumable THEN LET p == BuildPlan(contract) IN EnterLoop(p, p.current)
                    ELSE Stop(plan, phase) /\ UNCHANGED loopVars
    /\ UNCHANGED <<crashed, finished, done, gained, taskVars, talkVars, pageVars, countVars>>

BeginResume ==
    /\ pc = "launched"
    /\ job = "resume"
    /\ \/ /\ ~Resumable
          /\ Stop(plan, phase)
          /\ UNCHANGED <<crashed, loopVars>>
       \/ /\ Resumable
          /\ plan.current # None => CanMove(phase, plan.current)
          /\ EnterLoop(plan, IF plan.current = None THEN phase ELSE plan.current)
          /\ UNCHANGED crashed
       \/ /\ Resumable
          /\ plan.current # None /\ ~CanMove(phase, plan.current)
          /\ Raise(plan)
          /\ UNCHANGED <<phase, loopVars>>
    /\ UNCHANGED <<finished, done, gained, taskVars, talkVars, pageVars, countVars>>

---------------------------------------------------------------------------
(* The model answers.                                                      *)

EmptyAnswer ==
    /\ pc = "asking"
    /\ NextIteration(plan, phase)
    /\ UNCHANGED <<finished, done, gained, taskVars, talkVars, pageVars, countVars,
                   batch, used, revised, looping, crashed>>

(* A draft that needs the guide (research) or a check (code) gets one more *)
(* pass; the draft joins the dialogue.                                     *)
Draft ==
    /\ pc = "asking"
    /\ ~revised
    /\ revised' = TRUE
    /\ answered' = TRUE
    /\ NextIteration(plan, phase)
    /\ UNCHANGED <<finished, done, gained, taskVars, question, pageVars, countVars,
                   batch, used, looping, crashed>>

(* begin_synthesis: an answer ends execution; synthesis becomes current.   *)
Synthesizing(p) ==
    LET q == IF p.current = "execution" THEN Marked(p, "execution", "completed") ELSE p
    IN  [Marked(q, "synthesis", "active") EXCEPT !.current = "synthesis"]

Answer ==
    LET p == Synthesizing(plan)
        q == Replanned(p, Missing(contract, done))
    IN  /\ pc = "asking"
        /\ "research" \in contract => revised
        /\ \/ /\ ~CanMove(phase, "synthesis")
              /\ Raise(p)
              /\ UNCHANGED <<phase, finished, prepared, answered, iteration>>
           \/ /\ CanMove(phase, "synthesis")
              /\ GateAllows(contract, done)
              /\ Stop(Marked(p, "synthesis", "completed"), "completed")
              /\ finished' = TRUE
              /\ prepared' = FALSE
              /\ answered' = TRUE
              /\ UNCHANGED <<iteration, crashed>>
           \/ /\ CanMove(phase, "synthesis")
              /\ ~GateAllows(contract, done)
              /\ IF q.current = "synthesis"    \* complete() asserts that the phase changed
                 THEN Raise(q) /\ phase' = "synthesis" /\ UNCHANGED iteration
                 ELSE NextIteration(q, q.current) /\ UNCHANGED crashed
              /\ UNCHANGED <<finished, prepared, answered>>
        /\ UNCHANGED <<done, gained, planFor, contract, anchor, question, pageVars,
                       countVars, batch, used, revised, looping>>

(* After repeated failures the next tool call is refused: one more LLM     *)
(* call without tools, whose text is the result.  The orchestrator is not  *)
(* told, so the run can be resumed.                                        *)
RefuseTools ==
    /\ pc = "asking"
    /\ looping
    /\ Stop(plan, phase)
    /\ answered' = TRUE
    /\ UNCHANGED <<finished, done, gained, taskVars, question, pageVars, countVars,
                   loopVars, crashed>>

---------------------------------------------------------------------------
(* Tools.                                                                  *)

(* The next call of a response: the limit is tested before each.           *)
StartTool(p) ==
    IF used = MaxToolCalls
    THEN Block(p) /\ UNCHANGED used
    ELSE /\ used' = used + 1
         /\ pc' = "tool"
         /\ plan' = p
         /\ phase' = StepPhase(p)

CallTools(n) ==
    /\ pc = "asking"
    /\ ~looping
    /\ batch' = n
    /\ answered' = TRUE
    /\ StartTool(plan)
    /\ UNCHANGED <<finished, done, gained, taskVars, question, pageVars, countVars,
                   iteration, revised, looping, crashed>>

(* After a call: the next one of the response, or the next iteration.      *)
ToolDone(p, ph) ==
    /\ batch' = batch - 1
    /\ IF batch > 1
       THEN StartTool(p) /\ UNCHANGED iteration
       ELSE NextIteration(p, ph) /\ UNCHANGED used

ToolFails ==
    /\ pc = "tool"
    /\ looping' \in {looping, TRUE}
    /\ ToolDone(plan, "debugging")
    /\ UNCHANGED <<finished, done, gained, taskVars, talkVars, pageVars, countVars,
                   revised, crashed>>

ToolSucceeds ==
    /\ pc = "tool"
    /\ looping' = FALSE
    /\ ToolDone(plan, StepPhase(plan))
    /\ UNCHANGED <<finished, done, gained, taskVars, talkVars, pageVars, countVars,
                   revised, crashed>>

MutantAdvanced(p) ==
    ActivatedNext(IF p.current = None THEN p ELSE Marked(p, p.current, "pending"))

(* advance_plan: the current step is over and the next pending one starts. *)
Advanced(p) ==
    ActivatedNext(IF p.current = None THEN p ELSE Marked(p, p.current, "completed"))

(* store_research_evidence, and once the contract is satisfied             *)
(* mark_research_completed and advance_plan: whatever step is current is   *)
(* over, also when the research was satisfied before.                      *)
ResearchSatisfies ==
    LET p == Advanced(plan)
    IN  /\ pc = "tool"
        /\ "research" \in contract
        /\ evidence' = evidence \cup {question}
        /\ done' = done \cup {"research"}
        /\ gained' = gained \cup {"research"}
        /\ looping' = FALSE
        /\ ToolDone(p, StepPhase(IF p.current = None THEN plan ELSE p))
        /\ UNCHANGED <<finished, taskVars, talkVars, baseline, countVars, revised, crashed>>

ResearchFallsShort ==
    /\ pc = "tool"
    /\ evidence' = evidence \cup {question}
    /\ looping' = FALSE
    /\ ToolDone(plan, StepPhase(plan))
    /\ UNCHANGED <<finished, done, gained, taskVars, talkVars, baseline, countVars,
                   revised, crashed>>

---------------------------------------------------------------------------
(* The run is cancelled, or the provider or a hook raises.                 *)
Interrupt ==
    /\ pc # "idle"
    /\ pc' = "idle"
    /\ UNCHANGED <<taskVars, workVars, talkVars, pageVars, loopVars, countVars, crashed>>

LoopStep ==
    \/ BeginTask \/ BeginRegenerate \/ BeginResume
    \/ EmptyAnswer \/ Draft \/ Answer \/ RefuseTools
    \/ \E n \in 1..MaxBatch : CallTools(n)
    \/ ToolFails \/ ToolSucceeds \/ ResearchSatisfies \/ ResearchFallsShort

UserStep ==
    \/ \E kind \in {"run", "continue"}, c \in Contracts : PrepareTask(kind, c)
    \/ AskAgain
    \/ Resume
    \/ Interrupt

Next == LoopStep \/ UserStep

(* The model and the tools return: each has a timeout.                     *)
Spec == Init /\ [][Next]_vars /\ WF_vars(LoopStep)
---------------------------------------------------------------------------
(* Properties.                                                             *)

Running == pc \in {"asking", "tool"}

(* A run is accepted as finished only if every requirement of its contract *)
(* was met by research of this very attempt: what an earlier question, or  *)
(* an answer the user rejected, had gathered does not count.               *)
(* (completion_gate.py, reset_for_run, _restore_baseline.)                 *)
AnswerIsEarned == phase = "completed" /\ plan # NoPlan => contract \subseteq gained

(* The plan and the progress of the task are kept by two classes and agree *)
(* on the research: the step is completed exactly if the requirement is    *)
(* met, however often the plan was revised.                                *)
PlanAgreesWithProgress ==
    plan # NoPlan /\ "research" \in contract =>
        (plan.status["research"] = "completed" <=> "research" \in done)

(* Whenever the model is asked, the plan satisfies what _validate_plan     *)
(* demands, and the agent is in the phase of the step it is to work on.    *)
(* (A blocked run is resumed with its step still FAILED; nothing else may  *)
(* be out of order.)                                                       *)
AskedInPhase ==
    pc = "asking" =>
        /\ plan.current # None => phase = plan.current
        /\ ValidPlan(IF plan.current # None /\ plan.status[plan.current] = "failed"
                     THEN Marked(plan, plan.current, "active") ELSE plan)

(* The orchestrator raises one of its internal errors (an illegal phase    *)
(* change, a replan that changes nothing) only in a run that was resumed   *)
(* after it had been blocked; no order of answers, tools, retries and      *)
(* cancellations reaches one otherwise.                                    *)
CrashesOnlyResumed == crashed => job = "resume" /\ phase = "blocked"

(* Within an attempt, however often it is interrupted, blocked and resumed *)
(* again, work that was done stays done: no revision of the plan reopens a *)
(* completed step other than synthesis.  (revise_for_missing_phase:        *)
(* "Existing completed work is preserved"; resume_run: "nothing is         *)
(* recreated here".)                                                       *)
CompletedStaysCompleted ==
    [][\A s \in Steps \ {"synthesis"} :
          plan.status[s] = "completed" /\ (Running \/ (pc = "launched" /\ job = "resume"))
              => plan'.status[s] = "completed"]_vars

(* A retry starts without the research of the attempt it replaces, and     *)
(* with all the research of earlier questions, whatever happened since     *)
(* that attempt began: blocks, resumptions, cancelled questions.           *)
(* (_capture_baseline, _restore_baseline, and regenerate_rollback_test.)   *)
RetryStartsClean ==
    [][job = "regenerate" /\ pc = "launched" /\ pc' = "asking"
          => evidence' = evidence \ {question}]_vars

(* Every run ends, whatever the model does: with an answer, a refusal, a   *)
(* spent allowance, or blocked at a limit.                                 *)
RunsEnd == pc # "idle" ~> pc = "idle"

(* A retry keeps the identity of the task it retries.                      *)
RetryKeepsAnchor ==
    [][job = "regenerate" /\ pc = "launched" /\ pc' = "asking"
          => anchor' = anchor]_vars

(* A run that was blocked can be resumed.                                  *)
BlockedRunResumes == ~crashed
================================================================================
