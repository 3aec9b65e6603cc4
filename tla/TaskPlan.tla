----------------------------- MODULE TaskPlan -----------------------------
(***************************************************************************)
(* The execution plan of an agent run: AgentPlan and PlanStep              *)
(* (agent_plan.py, plan_step.py) and the operations of Planner             *)
(* (planner.py) that build and revise it.                                  *)
(*                                                                         *)
(* A plan never holds two steps of one phase (build_execution_plan adds    *)
(* each once, revise_for_missing_phase reuses the one there is), so a step *)
(* is named by its phase, and a plan is the order of its steps, the status *)
(* of each and the current one.  Descriptions, hints, results and the      *)
(* number of attempts of a step decide nothing and are left out.           *)
(***************************************************************************)
EXTENDS Naturals, Sequences

Requirements == {"research", "verification", "reflection"}
Steps        == Requirements \cup {"execution", "synthesis"}
None         == "none"
StepStatus   == {"absent", "pending", "active", "completed", "failed"}

Plans == [order   : Seq(Steps),
          status  : [Steps -> StepStatus],
          current : Steps \cup {None}]

NoPlan == [order   |-> << >>,
           status  |-> [s \in Steps |-> "absent"],
           current |-> None]

---------------------------------------------------------------------------
(* AgentPlan.                                                              *)

Marked(p, s, status) == [p EXCEPT !.status[s] = status]

(* activate: the step becomes current and, if it is pending, starts.       *)
Activated(p, s) ==
    [p EXCEPT !.current = s,
              !.status[s] = IF p.status[s] = "pending" THEN "active" ELSE @]

PendingPositions(p) == {i \in DOMAIN p.order : p.status[p.order[i]] = "pending"}

(* next_pending_step and activate_next: the first pending step in order.   *)
NextPending(p) ==
    p.order[CHOOSE i \in PendingPositions(p) :
                \A j \in PendingPositions(p) : i <= j]

ActivatedNext(p) ==
    IF PendingPositions(p) = {} THEN [p EXCEPT !.current = None]
                                ELSE Activated(p, NextPending(p))

(* The current step fails when the run is blocked (PlanStep.fail).         *)
CurrentFailed(p) ==
    IF p.current = None THEN p ELSE Marked(p, p.current, "failed")

---------------------------------------------------------------------------
(* Planner.build_execution_plan: research? -> execution -> verification?   *)
(* -> reflection? -> synthesis, the first one active.                      *)

BuildPlan(contract) ==
    LET Required(s) == IF s \in contract THEN <<s>> ELSE << >>
        order == Required("research") \o <<"execution">>
                 \o Required("verification") \o Required("reflection")
                 \o <<"synthesis">>
        steps == contract \cup {"execution", "synthesis"}
    IN  Activated([order   |-> order,
                   status  |-> [s \in Steps |-> IF s \in steps THEN "pending"
                                                ELSE "absent"],
                   current |-> None],
                  order[1])

---------------------------------------------------------------------------
(* Planner.revise_for_missing_phase and its helpers.                       *)

Position(p, s) == CHOOSE i \in DOMAIN p.order : p.order[i] = s

(* _move_before_synthesis: synthesis is the last step, so the step becomes *)
(* the last but one and those behind it move up.                           *)
MovedBeforeSynthesis(p, s) ==
    LET n  == Len(p.order)
        at == Position(p, s)
    IN  [p EXCEPT !.order = [i \in 1..n |-> IF i < at \/ i = n THEN p.order[i]
                                            ELSE IF i = n - 1 THEN s
                                            ELSE p.order[i + 1]]]

(* _insert_before_synthesis, for a phase the plan does not have.           *)
InsertedBeforeSynthesis(p, s) ==
    LET n == Len(p.order)
    IN  [Marked(p, s, "pending") EXCEPT !.order =
            [i \in 1..(n + 1) |-> IF i < n THEN p.order[i]
                                  ELSE IF i = n THEN s ELSE p.order[n]]]

(* _reopen_synthesis: an answer given under the old plan does not count.   *)
SynthesisReopened(p) ==
    IF p.status["synthesis"] \in {"completed", "failed"}
    THEN Marked(p, "synthesis", "pending")
    ELSE p

(* _normalize_plan with an active step: what comes before it is over,      *)
(* whatever became of it; what comes after it is still to do.              *)
Normalized(p, active) ==
    LET at == Position(p, active)
        New(s) ==
            CASE s = active -> "active"
              [] s # active /\ p.status[s] \in {"pending", "active", "failed"}
                   -> IF Position(p, s) < at THEN "completed" ELSE "pending"
              [] OTHER -> p.status[s]
    IN  [p EXCEPT !.current = active, !.status = [s \in Steps |-> New(s)]]

MutantRevised(p, phase) == Normalized(SynthesisReopened(p), "synthesis")

(* A completed phase is not repeated: only synthesis is reopened.  An      *)
(* unfinished one, or a new one, becomes the step before synthesis and the *)
(* active one.  The plan that results has the step to work on as current.  *)
Revised(p, phase) ==
    LET q == IF p.status[phase] = "absent"
             THEN InsertedBeforeSynthesis(p, phase)
             ELSE MovedBeforeSynthesis(p, phase)
    IN  IF p.status[phase] = "completed"
        THEN Normalized(SynthesisReopened(p), "synthesis")
        ELSE Normalized(SynthesisReopened(q), phase)

(* AgentOrchestrator.replan: the synthesis step in progress is put back    *)
(* before the plan is revised.                                             *)
Replanned(p, phase) ==
    Revised(IF p.current = "synthesis" /\ p.status["synthesis"] = "active"
            THEN Marked(p, "synthesis", "pending") ELSE p,
            phase)

---------------------------------------------------------------------------
(* The invariants Planner._validate_plan raises on.                        *)

StepsInPlan(p) == {p.order[i] : i \in DOMAIN p.order}

ValidPlan(p) ==
    LET n == Len(p.order)
        ActiveSteps == {s \in Steps : p.status[s] = "active"}
    IN  /\ n > 0
        /\ \A i, j \in 1..n : p.order[i] = p.order[j] => i = j
        /\ p.order[n] = "synthesis"
        /\ ActiveSteps = IF p.current = None THEN {} ELSE {p.current}
        /\ p.current # None =>
             \A i \in 1..n : i > Position(p, p.current) => p.status[p.order[i]] # "failed"
============================================================================
