--------------------------- MODULE AgentRunProofs ---------------------------
(***************************************************************************)
(* Proofs about TaskPlan and AgentRun: what the operations on plans keep,  *)
(* for every contract and every plan, and what the runs keep, for every    *)
(* set of contracts and every bound.                                       *)
(***************************************************************************)
EXTENDS AgentRun, NaturalsInduction, WellFoundedInduction, TLAPS

---------------------------------------------------------------------------
(* The operations on plans.                                                *)

(* A plan whose steps can be found: synthesis is its last step, and it has *)
(* a place for every step that has a status.                               *)
WellFormed(p) ==
    /\ p \in Plans
    /\ Len(p.order) > 0
    /\ p.order[Len(p.order)] = "synthesis"
    /\ \A s \in Steps : p.status[s] # "absent" => \E i \in DOMAIN p.order : p.order[i] = s
    /\ p.status["synthesis"] # "absent"
    /\ p.current # None => p.status[p.current] # "absent"

(* The steps a plan may hold.                                              *)
LEMMA StepFacts ==
    /\ None \notin Steps
    /\ Requirements \subseteq Steps
    /\ "synthesis" \in Steps /\ "execution" \in Steps
    /\ "synthesis" \notin Requirements
BY DEF None, Steps, Requirements

(* A set of positions that is not empty has a first one.                   *)
LEMMA FirstPosition ==
    ASSUME NEW T, T \subseteq Nat, T # {}
    PROVE  \E x \in T : \A y \in T : x <= y
<1>1. IsWellFoundedOn(OpToRel(<, Nat), Nat)
  BY NatLessThanWellFounded
<1>2. \E x \in T : \A y \in T : ~ (<<y, x>> \in OpToRel(<, Nat))
  BY <1>1, WFMin
<1>3. \A x, y \in Nat : x < y => <<x, y>> \in OpToRel(<, Nat)
  BY DEF OpToRel
<1>4. PICK x \in T : \A y \in T : ~ (<<y, x>> \in OpToRel(<, Nat))
  BY <1>2
<1>5. \A y \in T : ~ (y < x)
  BY <1>3, <1>4
<1>6. \A y \in T : x <= y
  BY <1>5
<1> QED  BY <1>6

(* The fields of a plan have their types.                                  *)
LEMMA PlanFields ==
    ASSUME NEW p \in Plans
    PROVE  /\ p.order \in Seq(Steps)
           /\ p.status \in [Steps -> StepStatus]
           /\ p.current \in Steps \cup {None}
           /\ Len(p.order) \in Nat
           /\ DOMAIN p.order = 1..Len(p.order)
           /\ \A i \in DOMAIN p.order : p.order[i] \in Steps
BY DEF Plans

(* Reordering a plan leaves the rest.                                      *)
LEMMA Reordered ==
    ASSUME NEW p \in Plans
    PROVE  \A o \in Seq(Steps) :
              /\ [p EXCEPT !.order = o] \in Plans
              /\ [p EXCEPT !.order = o].order = o
              /\ [p EXCEPT !.order = o].status = p.status
              /\ [p EXCEPT !.order = o].current = p.current
BY DEF Plans

(* A step that is over, or fails, or starts, stays in its place.           *)
LEMMA MarkedKeeps ==
    ASSUME NEW p, WellFormed(p), NEW s \in Steps, p.status[s] # "absent",
           NEW st \in StepStatus \ {"absent"}
    PROVE  /\ WellFormed(Marked(p, s, st))
           /\ Marked(p, s, st).current = p.current
           /\ Marked(p, s, st).order = p.order
           /\ Marked(p, s, st).status[s] = st
           /\ \A t \in Steps \ {s} : Marked(p, s, st).status[t] = p.status[t]
<1>1. p \in Plans
  BY DEF WellFormed
<1>2. /\ Marked(p, s, st).order = p.order
      /\ Marked(p, s, st).current = p.current
      /\ Marked(p, s, st).status = [p.status EXCEPT ![s] = st]
  BY <1>1 DEF Marked, Plans
<1>3. Marked(p, s, st) \in Plans
  BY <1>1 DEF Marked, Plans
<1>4. /\ Marked(p, s, st).status[s] = st
      /\ \A t \in Steps \ {s} : Marked(p, s, st).status[t] = p.status[t]
  BY <1>1, <1>2, PlanFields
<1>5. \A t \in Steps : Marked(p, s, st).status[t] # "absent" => p.status[t] # "absent"
  BY <1>4
<1>6. p.current \in Steps \cup {None}
  BY <1>1, PlanFields
<1>7. p.current # None => Marked(p, s, st).status[p.current] # "absent"
  BY <1>4, <1>6 DEF WellFormed
<1>8. Marked(p, s, st).status["synthesis"] # "absent"
  BY <1>4, StepFacts DEF WellFormed
<1>9. WellFormed(Marked(p, s, st))
  BY <1>2, <1>3, <1>5, <1>7, <1>8 DEF WellFormed
<1> QED  BY <1>2, <1>4, <1>9

(* A step that is activated is the current one.                            *)
LEMMA ActivatedKeeps ==
    ASSUME NEW p, WellFormed(p), NEW s \in Steps, p.status[s] # "absent"
    PROVE  /\ WellFormed(Activated(p, s))
           /\ Activated(p, s).current = s
           /\ \A t \in Steps : t # s => Activated(p, s).status[t] = p.status[t]
<1>1. p \in Plans
  BY DEF WellFormed
<1>2. /\ Activated(p, s).order = p.order
      /\ Activated(p, s).current = s
      /\ Activated(p, s).status =
            [p.status EXCEPT ![s] = IF p.status[s] = "pending" THEN "active" ELSE @]
  BY <1>1 DEF Activated, Plans
<1>3. Activated(p, s) \in Plans
  BY <1>1 DEF Activated, Plans, StepStatus
<1>4. /\ \A t \in Steps : t # s => Activated(p, s).status[t] = p.status[t]
      /\ Activated(p, s).status[s] # "absent"
  BY <1>1, <1>2, PlanFields
<1>5. \A t \in Steps : Activated(p, s).status[t] # "absent" => p.status[t] # "absent"
  BY <1>4
<1>6. Activated(p, s).status["synthesis"] # "absent"
  BY <1>4, StepFacts DEF WellFormed
<1>7. WellFormed(Activated(p, s))
  BY <1>2, <1>3, <1>4, <1>5, <1>6 DEF WellFormed
<1> QED  BY <1>2, <1>4, <1>7

(* The next pending step becomes current, or there is none: a step that is *)
(* not pending is left as it is.                                           *)
LEMMA ActivatedNextKeeps ==
    ASSUME NEW p, WellFormed(p)
    PROVE  /\ WellFormed(ActivatedNext(p))
           /\ \A s \in Steps : p.status[s] # "pending" =>
                 /\ ActivatedNext(p).status[s] = p.status[s]
                 /\ ActivatedNext(p).current # s
<1>1. p \in Plans
  BY DEF WellFormed
<1>2. CASE PendingPositions(p) = {}
  <2>1. ActivatedNext(p) = [p EXCEPT !.current = None]
    BY <1>2 DEF ActivatedNext
  <2>2. /\ ActivatedNext(p) \in Plans
        /\ ActivatedNext(p).order = p.order
        /\ ActivatedNext(p).status = p.status
        /\ ActivatedNext(p).current = None
    BY <1>1, <2>1 DEF Plans
  <2> QED  BY <2>2, StepFacts DEF WellFormed
<1>3. CASE PendingPositions(p) # {}
  <2>1. PendingPositions(p) \subseteq DOMAIN p.order
    BY DEF PendingPositions
  <2>2. PendingPositions(p) \subseteq Nat
    BY <1>1, <2>1, PlanFields
  <2>3. \E i \in PendingPositions(p) : \A j \in PendingPositions(p) : i <= j
    BY <1>3, <2>2, FirstPosition
  <2>4. \E i \in PendingPositions(p) : NextPending(p) = p.order[i]
    BY <2>3 DEF NextPending
  <2>5. NextPending(p) \in Steps /\ p.status[NextPending(p)] = "pending"
    BY <1>1, <2>1, <2>4, PlanFields DEF PendingPositions
  <2>6. ActivatedNext(p) = Activated(p, NextPending(p))
    BY <1>3 DEF ActivatedNext
  <2> QED  BY <2>5, <2>6, ActivatedKeeps
<1> QED  BY <1>2, <1>3

(* Blocking a run leaves a plan whose current step has failed.             *)
LEMMA CurrentFailedKeeps ==
    ASSUME NEW p, WellFormed(p)
    PROVE  /\ WellFormed(CurrentFailed(p))
           /\ CurrentFailed(p).current = p.current
           /\ p.current # None => CurrentFailed(p).status[p.current] = "failed"
           /\ \A s \in Steps : s # p.current => CurrentFailed(p).status[s] = p.status[s]
<1>1. p \in Plans
  BY DEF WellFormed
<1>2. CASE p.current = None
  BY <1>2 DEF CurrentFailed
<1>3. CASE p.current # None
  <2>1. p.current \in Steps /\ p.status[p.current] # "absent"
    BY <1>1, <1>3, PlanFields DEF WellFormed
  <2>2. CurrentFailed(p) = Marked(p, p.current, "failed")
    BY <1>3 DEF CurrentFailed
  <2>3. "failed" \in StepStatus \ {"absent"}
    BY DEF StepStatus
  <2> QED  BY <2>1, <2>2, <2>3, MarkedKeeps
<1> QED  BY <1>2, <1>3

---------------------------------------------------------------------------
(* Building and revising.                                                  *)

(* A new plan starts at the research, if the contract asks for it.         *)
LEMMA BuildPlanWorks ==
    ASSUME NEW required, required \subseteq Requirements
    PROVE  /\ WellFormed(BuildPlan(required))
           /\ BuildPlan(required).current \in Steps
           /\ "research" \in required =>
                 /\ BuildPlan(required).current = "research"
                 /\ BuildPlan(required).status["research"] = "active"
<1> DEFINE Required(s) == IF s \in required THEN <<s>> ELSE << >>
           order == Required("research") \o <<"execution">>
                    \o Required("verification") \o Required("reflection")
                    \o <<"synthesis">>
           steps == required \cup {"execution", "synthesis"}
           status == [s \in Steps |-> IF s \in steps THEN "pending" ELSE "absent"]
           p == [order |-> order, status |-> status, current |-> None]
<1>1. BuildPlan(required) = Activated(p, order[1])
  BY DEF BuildPlan
<1>2. order \in Seq(Steps)
  <2>1. /\ Required("research") \in Seq(Steps)
        /\ Required("verification") \in Seq(Steps)
        /\ Required("reflection") \in Seq(Steps)
    <3>1. \A s \in Steps : <<s>> \in Seq(Steps)
      OBVIOUS
    <3>2. << >> \in Seq(Steps)
      OBVIOUS
    <3>3. {"research", "verification", "reflection"} \subseteq Steps
      BY DEF Steps, Requirements
    <3> QED  BY <3>1, <3>2, <3>3
  <2>2. <<"execution">> \in Seq(Steps) /\ <<"synthesis">> \in Seq(Steps)
    BY StepFacts
  <2>3. \A a, b \in Seq(Steps) : a \o b \in Seq(Steps)
    OBVIOUS
  <2> HIDE DEF Required
  <2> QED  BY <2>1, <2>2, <2>3
<1>3. p \in Plans
  BY <1>2 DEF Plans, StepStatus
<1>4. /\ Len(order) > 0
      /\ order[Len(order)] = "synthesis"
      /\ order[1] = IF "research" \in required THEN "research" ELSE "execution"
  OBVIOUS
<1>5. \A s \in steps : \E i \in DOMAIN order : order[i] = s
  <2>1. \E i \in DOMAIN order : order[i] = "execution"
    <3>1. CASE "research" \in required
      <4>1. 2 \in DOMAIN order /\ order[2] = "execution"
        BY <3>1
      <4> QED  BY <4>1
    <3>2. CASE "research" \notin required
      <4>1. 1 \in DOMAIN order /\ order[1] = "execution"
        BY <3>2
      <4> QED  BY <4>1
    <3> QED  BY <3>1, <3>2
  <2>2. \E i \in DOMAIN order : order[i] = "synthesis"
    <3>1. Len(order) \in DOMAIN order
      BY <1>2, <1>4
    <3> QED  BY <1>4, <3>1
  <2>3. "research" \in required => \E i \in DOMAIN order : order[i] = "research"
    <3>1. 1 \in DOMAIN order
      BY <1>2, <1>4
    <3> QED  BY <1>4, <3>1
  <2>4. "verification" \in required => \E i \in DOMAIN order : order[i] = "verification"
    <3>1. ASSUME "verification" \in required, "research" \in required
          PROVE  3 \in DOMAIN order /\ order[3] = "verification"
      BY <3>1
    <3>2. ASSUME "verification" \in required, "research" \notin required
          PROVE  2 \in DOMAIN order /\ order[2] = "verification"
      BY <3>2
    <3> QED  BY <3>1, <3>2
  <2>5. "reflection" \in required => \E i \in DOMAIN order : order[i] = "reflection"
    <3>1. ASSUME "reflection" \in required
          PROVE  Len(order) - 1 \in DOMAIN order /\ order[Len(order) - 1] = "reflection"
      BY <3>1
    <3> QED  BY <3>1
  <2>6. \A s \in required : s \in {"research", "verification", "reflection"}
    BY DEF Requirements
  <2> HIDE DEF order
  <2> QED  BY <2>1, <2>2, <2>3, <2>4, <2>5, <2>6
<1>6. \A s \in Steps : status[s] # "absent" <=> s \in steps
  OBVIOUS
<1>7. WellFormed(p)
  BY <1>3, <1>4, <1>5, <1>6, StepFacts DEF WellFormed
<1>8. order[1] \in steps /\ order[1] \in Steps
  BY <1>4, StepFacts
<1>9. WellFormed(Activated(p, order[1])) /\ Activated(p, order[1]).current = order[1]
  BY <1>6, <1>7, <1>8, ActivatedKeeps
<1>10. ASSUME "research" \in required
       PROVE  Activated(p, "research").status["research"] = "active"
  BY <1>3, <1>10, StepFacts DEF Activated, Plans
<1> QED  BY <1>1, <1>4, <1>8, <1>9, <1>10

(* A step that is moved, or a new one, is in the plan and so are the rest. *)
LEMMA MovedKeeps ==
    ASSUME NEW p, WellFormed(p), NEW s \in Steps, s # "synthesis", p.status[s] # "absent"
    PROVE  /\ WellFormed(MovedBeforeSynthesis(p, s))
           /\ MovedBeforeSynthesis(p, s).status = p.status
<1> DEFINE n  == Len(p.order)
           at == Position(p, s)
           order == [i \in 1..n |-> IF i < at \/ i = n THEN p.order[i]
                                    ELSE IF i = n - 1 THEN s ELSE p.order[i + 1]]
           q == MovedBeforeSynthesis(p, s)
<1>1. p \in Plans
  BY DEF WellFormed
<1>2. q = [p EXCEPT !.order = order]
  BY DEF MovedBeforeSynthesis
<1>3. /\ n \in Nat /\ n > 0
      /\ DOMAIN p.order = 1..n
      /\ \A i \in 1..n : p.order[i] \in Steps
  BY <1>1, PlanFields DEF WellFormed
<1>4. at \in 1..n /\ p.order[at] = s
  BY <1>3 DEF WellFormed, Position
<1>5. at < n
  BY <1>3, <1>4 DEF WellFormed
<1>6. \A i \in 1..n : order[i] \in Steps
  BY <1>3, <1>4, <1>5
<1>7. order \in Seq(Steps) /\ Len(order) = n /\ DOMAIN order = 1..n
  BY <1>3, <1>6
<1>8. /\ q \in Plans
      /\ q.order = order
      /\ q.status = p.status
      /\ q.current = p.current
  <2> HIDE DEF order, q
  <2> QED  BY <1>1, <1>2, <1>7, Reordered
<1>9. order[n] = "synthesis"
  BY <1>3 DEF WellFormed
<1>10. ASSUME NEW t \in Steps, p.status[t] # "absent"
       PROVE  \E i \in 1..n : order[i] = t
  <2>1. PICK k \in 1..n : p.order[k] = t
    BY <1>3, <1>10 DEF WellFormed
  <2>2. CASE k < at \/ k = n
    <3>1. order[k] = t
      BY <2>1, <2>2
    <3> QED  BY <3>1
  <2>3. CASE k = at
    <3>1. n - 1 \in 1..n /\ n - 1 >= at /\ n - 1 # n
      BY <1>3, <1>4, <1>5
    <3>2. order[n - 1] = s
      BY <1>4, <1>5, <3>1
    <3> QED  BY <1>4, <2>1, <2>3, <3>1, <3>2
  <2>4. CASE k > at /\ k < n
    <3>1. k - 1 \in 1..n /\ k - 1 >= at /\ k - 1 # n - 1 /\ k - 1 # n /\ (k - 1) + 1 = k
      BY <1>3, <1>4, <2>4
    <3>2. order[k - 1] = p.order[k]
      BY <1>4, <3>1
    <3> QED  BY <2>1, <3>1, <3>2
  <2> QED  BY <1>3, <1>4, <2>2, <2>3, <2>4
<1>11. WellFormed(q)
  <2> HIDE DEF order, q
  <2> QED  BY <1>3, <1>7, <1>8, <1>9, <1>10 DEF WellFormed
<1> QED  BY <1>8, <1>11

(* Inserting a step before the synthesis leaves the plan well-formed and   *)
(* the others as they were.                                                *)
LEMMA InsertedKeeps ==
    ASSUME NEW p, WellFormed(p), NEW s \in Steps, s # "synthesis"
    PROVE  /\ WellFormed(InsertedBeforeSynthesis(p, s))
           /\ InsertedBeforeSynthesis(p, s).status[s] = "pending"
           /\ \A t \in Steps \ {s} : InsertedBeforeSynthesis(p, s).status[t] = p.status[t]
<1> DEFINE n == Len(p.order)
           order == [i \in 1..(n + 1) |-> IF i < n THEN p.order[i]
                                          ELSE IF i = n THEN s ELSE p.order[n]]
           m == Marked(p, s, "pending")
           q == InsertedBeforeSynthesis(p, s)
<1>1. p \in Plans
  BY DEF WellFormed
<1>2. q = [m EXCEPT !.order = order]
  BY DEF InsertedBeforeSynthesis
<1>3. /\ n \in Nat /\ n > 0
      /\ DOMAIN p.order = 1..n
      /\ \A i \in 1..n : p.order[i] \in Steps
  BY <1>1, PlanFields DEF WellFormed
<1>4. \A i \in 1..(n + 1) : order[i] \in Steps
  BY <1>3
<1>5. order \in Seq(Steps) /\ Len(order) = n + 1 /\ DOMAIN order = 1..(n + 1)
  BY <1>3, <1>4
<1>6. /\ m \in Plans
      /\ m.current = p.current
      /\ m.status = [p.status EXCEPT ![s] = "pending"]
  BY <1>1 DEF Marked, Plans, StepStatus
<1>7. /\ m.status[s] = "pending"
      /\ \A t \in Steps \ {s} : m.status[t] = p.status[t]
  BY <1>1, <1>6, PlanFields
<1>8. /\ q \in Plans
      /\ q.order = order
      /\ q.status = m.status
      /\ q.current = p.current
  <2> HIDE DEF order, m, q
  <2> QED  BY <1>2, <1>5, <1>6, Reordered
<1>9. order[n + 1] = "synthesis"
  BY <1>3 DEF WellFormed
<1>10. ASSUME NEW t \in Steps, m.status[t] # "absent"
       PROVE  \E i \in 1..(n + 1) : order[i] = t
  <2>1. CASE t = s
    <3>1. n \in 1..(n + 1) /\ order[n] = s
      BY <1>3
    <3> QED  BY <2>1, <3>1
  <2>2. CASE t # s
    <3>1. PICK k \in 1..n : p.order[k] = t
      BY <1>3, <1>7, <1>10, <2>2 DEF WellFormed
    <3>2. CASE k < n
      <4>1. k \in 1..(n + 1) /\ order[k] = t
        BY <1>3, <3>1, <3>2
      <4> QED  BY <4>1
    <3>3. CASE k = n
      <4>1. n + 1 \in 1..(n + 1) /\ order[n + 1] = t
        BY <1>3, <3>1, <3>3
      <4> QED  BY <4>1
    <3> QED  BY <1>3, <3>2, <3>3
  <2> QED  BY <2>1, <2>2
<1>11. p.current \in Steps \cup {None}
  BY <1>1, PlanFields
<1>12. WellFormed(q)
  <2> HIDE DEF order, m, q, n
  <2>1. q \in Plans /\ Len(q.order) > 0 /\ q.order[Len(q.order)] = "synthesis"
    BY <1>3, <1>5, <1>8, <1>9
  <2>2. \A t \in Steps : q.status[t] # "absent" => \E i \in DOMAIN q.order : q.order[i] = t
    BY <1>5, <1>8, <1>10
  <2>3. q.status["synthesis"] # "absent"
    BY <1>7, <1>8, StepFacts DEF WellFormed
  <2>4. q.current # None => q.status[q.current] # "absent"
    BY <1>7, <1>8, <1>11 DEF WellFormed
  <2> QED  BY <2>1, <2>2, <2>3, <2>4 DEF WellFormed
<1> QED  BY <1>7, <1>8, <1>12

(* Normalizing leaves completed steps completed.                           *)
LEMMA NormalizedKeeps ==
    ASSUME NEW p, WellFormed(p), NEW s \in Steps, p.status[s] # "absent"
    PROVE  /\ WellFormed(Normalized(p, s))
           /\ Normalized(p, s).current = s
           /\ Normalized(p, s).status[s] = "active"
           /\ \A t \in Steps \ {s} : p.status[t] = "completed" =>
                 Normalized(p, s).status[t] = "completed"
<1> DEFINE q == Normalized(p, s)
           New(t) == CASE t = s -> "active"
                       [] t # s /\ p.status[t] \in {"pending", "active", "failed"}
                            -> IF Position(p, t) < Position(p, s) THEN "completed" ELSE "pending"
                       [] OTHER -> p.status[t]
           status == [t \in Steps |-> New(t)]
<1>1. p \in Plans
  BY DEF WellFormed
<1>2. q = [p EXCEPT !.current = s, !.status = status]
  BY DEF Normalized
<1>3. New(s) = "active"
  OBVIOUS
<1>4. \A t \in Steps \ {s} :
        /\ New(t) \in StepStatus
        /\ New(t) = "absent" <=> p.status[t] = "absent"
        /\ p.status[t] = "completed" => New(t) = "completed"
  BY <1>1, PlanFields DEF StepStatus
<1>5. status \in [Steps -> StepStatus]
  BY <1>3, <1>4 DEF StepStatus
<1>6. /\ q \in Plans
      /\ q.order = p.order
      /\ q.current = s
      /\ q.status = status
  <2> DEFINE r(st) == [p EXCEPT !.current = s, !.status = st]
  <2>1. \A st \in [Steps -> StepStatus] :
           r(st) \in Plans /\ r(st).order = p.order /\ r(st).current = s /\ r(st).status = st
    BY <1>1 DEF Plans
  <2>2. q = r(status)
    BY <1>2
  <2> HIDE DEF status, q, r
  <2> QED  BY <1>5, <2>1, <2>2
<1>7. \A t \in Steps : q.status[t] = New(t)
  BY <1>6
<1>8. WellFormed(q)
  <2> HIDE DEF New, q
  <2> QED  BY <1>3, <1>4, <1>6, <1>7, StepFacts DEF WellFormed
<1> QED  BY <1>3, <1>4, <1>6, <1>7, <1>8

(* After a revision the missing phase is the one to work on, unless its    *)
(* step is completed already; what was completed stays so.                 *)
LEMMA RevisedKeeps ==
    ASSUME NEW p, WellFormed(p), NEW s \in Requirements
    PROVE  /\ WellFormed(Revised(p, s))
           /\ Revised(p, s).current =
                 IF p.status[s] = "completed" THEN "synthesis" ELSE s
           /\ p.status[s] # "completed" => Revised(p, s).status[s] = "active"
           /\ \A t \in Steps \ {"synthesis"} : p.status[t] = "completed" =>
                 Revised(p, s).status[t] = "completed"
<1>1. s \in Steps /\ s # "synthesis"
  BY StepFacts
<1>2. ASSUME NEW q, WellFormed(q)
      PROVE  /\ WellFormed(SynthesisReopened(q))
             /\ \A t \in Steps \ {"synthesis"} :
                   SynthesisReopened(q).status[t] = q.status[t]
  <2>1. "pending" \in StepStatus \ {"absent"}
    BY DEF StepStatus
  <2>2. "synthesis" \in Steps /\ q.status["synthesis"] # "absent"
    BY <1>2, StepFacts DEF WellFormed
  <2> QED  BY <1>2, <2>1, <2>2, MarkedKeeps DEF SynthesisReopened
<1>3. CASE p.status[s] = "completed"
  <2> DEFINE q == SynthesisReopened(p)
  <2>1. WellFormed(q) /\ \A t \in Steps \ {"synthesis"} : q.status[t] = p.status[t]
    BY <1>2
  <2>2. "synthesis" \in Steps /\ q.status["synthesis"] # "absent"
    BY <2>1, StepFacts DEF WellFormed
  <2>3. Revised(p, s) = Normalized(q, "synthesis")
    BY <1>3 DEF Revised
  <2>4. /\ WellFormed(Normalized(q, "synthesis"))
        /\ Normalized(q, "synthesis").current = "synthesis"
        /\ \A t \in Steps \ {"synthesis"} : q.status[t] = "completed" =>
              Normalized(q, "synthesis").status[t] = "completed"
    BY <2>1, <2>2, NormalizedKeeps
  <2> QED  BY <1>3, <2>1, <2>3, <2>4
<1>4. CASE p.status[s] # "completed"
  <2> DEFINE r == IF p.status[s] = "absent" THEN InsertedBeforeSynthesis(p, s)
                  ELSE MovedBeforeSynthesis(p, s)
             q == SynthesisReopened(r)
  <2>1. /\ WellFormed(r)
        /\ r.status[s] # "absent"
        /\ \A t \in Steps \ {s} : r.status[t] = p.status[t]
    BY <1>1, InsertedKeeps, MovedKeeps
  <2>2. /\ WellFormed(q)
        /\ q.status[s] # "absent"
        /\ \A t \in Steps \ {"synthesis"} : q.status[t] = r.status[t]
    BY <1>1, <1>2, <2>1
  <2>3. Revised(p, s) = Normalized(q, s)
    BY <1>4 DEF Revised
  <2>4. /\ WellFormed(Normalized(q, s))
        /\ Normalized(q, s).current = s
        /\ Normalized(q, s).status[s] = "active"
        /\ \A t \in Steps \ {s} : q.status[t] = "completed" =>
              Normalized(q, s).status[t] = "completed"
    BY <1>1, <2>2, NormalizedKeeps
  <2> QED  BY <1>4, <2>1, <2>2, <2>3, <2>4
<1> QED  BY <1>3, <1>4

(* Replanning: the same, whether or not an answer was being given.         *)
THEOREM ReplannedKeeps ==
    ASSUME NEW p, WellFormed(p), NEW s \in Requirements
    PROVE  /\ WellFormed(Replanned(p, s))
           /\ Replanned(p, s).current =
                 IF p.status[s] = "completed" THEN "synthesis" ELSE s
           /\ p.status[s] # "completed" => Replanned(p, s).status[s] = "active"
           /\ \A t \in Steps \ {"synthesis"} : p.status[t] = "completed" =>
                 Replanned(p, s).status[t] = "completed"
<1> DEFINE q == IF p.current = "synthesis" /\ p.status["synthesis"] = "active"
                THEN Marked(p, "synthesis", "pending") ELSE p
<1>1. "pending" \in StepStatus \ {"absent"}
  BY DEF StepStatus
<1>2. "synthesis" \in Steps /\ p.status["synthesis"] # "absent"
  BY StepFacts DEF WellFormed
<1>3. WellFormed(q) /\ \A t \in Steps \ {"synthesis"} : q.status[t] = p.status[t]
  BY <1>1, <1>2, MarkedKeeps
<1>4. s \in Steps \ {"synthesis"}
  BY StepFacts
<1>5. Replanned(p, s) = Revised(q, s)
  BY DEF Replanned
<1> QED  BY <1>3, <1>4, <1>5, RevisedKeeps
---------------------------------------------------------------------------
(* Plans in order                                                          *)

(* Every place holds another step, and that step has a status.             *)
Distinct(p) == \A i, j \in DOMAIN p.order : p.order[i] = p.order[j] => i = j
Placed(p) ==
    /\ WellFormed(p)
    /\ Distinct(p)
    /\ \A i \in DOMAIN p.order : p.status[p.order[i]] # "absent"

(* The current step is being worked on or has failed, what comes before it *)
(* is not pending, what comes after it has not been begun and given up;    *)
(* without a current step nothing is left to do.                           *)
InStep(p) ==
    /\ \A s \in Steps : p.status[s] = "active" => p.current = s
    /\ p.current = None => \A s \in Steps : p.status[s] # "pending"
    /\ p.current # None => p.status[p.current] \in {"active", "failed"}
    /\ \A i, j \in DOMAIN p.order : p.order[i] = p.current =>
          /\ j < i => p.status[p.order[j]] # "pending"
          /\ j > i => p.status[p.order[j]] \in {"pending", "completed"}

Orderly(p) == Placed(p) /\ InStep(p)

(* An orderly plan is what _validate_plan accepts, once the step that      *)
(* failed is taken up again.                                               *)
LEMMA OrderlyIsValid ==
    ASSUME NEW p, Orderly(p)
    PROVE  ValidPlan(IF p.current # None /\ p.status[p.current] = "failed"
                     THEN Marked(p, p.current, "active") ELSE p)
<1> DEFINE q == IF p.current # None /\ p.status[p.current] = "failed"
                THEN Marked(p, p.current, "active") ELSE p
<1>1. /\ WellFormed(p) /\ p \in Plans /\ Distinct(p)
      /\ p.current \in Steps \cup {None}
      /\ Len(p.order) \in Nat /\ DOMAIN p.order = 1..Len(p.order)
      /\ \A i \in DOMAIN p.order : p.order[i] \in Steps
  BY PlanFields DEF Orderly, Placed, WellFormed
<1>2. /\ q.order = p.order /\ q.current = p.current
      /\ p.current # None => q.status[p.current] = "active"
      /\ \A s \in Steps \ {p.current} : q.status[s] = p.status[s]
  <2>1. CASE p.current # None /\ p.status[p.current] = "failed"
    <3>1. "active" \in StepStatus \ {"absent"} /\ p.current \in Steps
      BY <1>1, <2>1 DEF StepStatus
    <3> QED  BY <1>1, <2>1, <3>1, MarkedKeeps
  <2>2. CASE ~(p.current # None /\ p.status[p.current] = "failed")
    BY <2>2 DEF Orderly, InStep
  <2> QED  BY <2>1, <2>2
<1> HIDE DEF q
<1>3. {s \in Steps : q.status[s] = "active"} = IF q.current = None THEN {} ELSE {q.current}
  BY <1>1, <1>2 DEF Orderly, InStep, None, Steps, Requirements
<1>4. ASSUME q.current # None, NEW i \in 1..Len(q.order), i > Position(q, q.current)
      PROVE  q.status[q.order[i]] # "failed"
  <2> DEFINE k == Position(q, q.current)
  <2>1. k \in DOMAIN p.order /\ p.order[k] = p.current
    BY <1>1, <1>2, <1>4 DEF Position, WellFormed
  <2>2. i \in DOMAIN p.order /\ p.order[i] # p.current
    BY <1>1, <1>2, <1>4, <2>1 DEF Distinct
  <2>3. p.status[p.order[i]] \in {"pending", "completed"}
    BY <1>4, <2>1, <2>2 DEF Orderly, InStep
  <2> QED  BY <1>1, <1>2, <2>2, <2>3
<1>5. \A i, j \in 1..Len(q.order) : q.order[i] = q.order[j] => i = j
  BY <1>1, <1>2 DEF Distinct
<1>6. ValidPlan(q)
  BY <1>1, <1>2, <1>3, <1>4, <1>5 DEF ValidPlan, WellFormed
<1> QED  BY <1>6 DEF q

(* Marking a step of a plan moves none.                                    *)
LEMMA PlacedMarked ==
    ASSUME NEW p, Placed(p), NEW s \in Steps, p.status[s] # "absent",
           NEW st \in StepStatus \ {"absent"}
    PROVE  Placed(Marked(p, s, st))
<1>1. WellFormed(p) /\ p \in Plans
  BY DEF Placed, WellFormed
<1>2. /\ WellFormed(Marked(p, s, st))
      /\ Marked(p, s, st).order = p.order
      /\ Marked(p, s, st).status[s] = st
      /\ \A t \in Steps \ {s} : Marked(p, s, st).status[t] = p.status[t]
  BY <1>1, MarkedKeeps
<1>3. \A i \in DOMAIN p.order : p.order[i] \in Steps
  BY <1>1, PlanFields
<1> QED  BY <1>2, <1>3 DEF Placed, Distinct

(* A blocked run leaves an orderly plan.                                   *)
LEMMA FailedIsOrderly ==
    ASSUME NEW p, Orderly(p)
    PROVE  Orderly(CurrentFailed(p))
<1> DEFINE q == CurrentFailed(p)
<1>1. WellFormed(p) /\ p \in Plans /\ p.current \in Steps \cup {None}
  BY PlanFields DEF Orderly, Placed, WellFormed
<1>2. CASE p.current = None
  BY <1>2 DEF CurrentFailed
<1>3. CASE p.current # None
  <2>1. /\ p.current \in Steps /\ p.status[p.current] # "absent"
        /\ "failed" \in StepStatus \ {"absent"}
        /\ q = Marked(p, p.current, "failed")
    BY <1>1, <1>3 DEF WellFormed, StepStatus, CurrentFailed
  <2>2. /\ q.order = p.order /\ q.current = p.current
        /\ q.status[p.current] = "failed"
        /\ \A t \in Steps \ {p.current} : q.status[t] = p.status[t]
    BY <1>1, <2>1, MarkedKeeps
  <2>3. Placed(q)
    BY <2>1, PlacedMarked DEF Orderly
  <2>4. /\ \A i \in DOMAIN p.order : p.order[i] \in Steps
        /\ \A i, j \in DOMAIN p.order : i \in Nat /\ (p.order[i] = p.order[j] => i = j)
    BY <1>1, PlanFields DEF Orderly, Placed, Distinct
  <2> HIDE DEF q
  <2>5. InStep(q)
    BY <1>3, <2>2, <2>4 DEF Orderly, InStep
  <2> QED  BY <2>3, <2>5 DEF Orderly, q
<1> QED  BY <1>2, <1>3

(* The current step is over, and the first pending one is the next.        *)
LEMMA NextIsOrderly ==
    ASSUME NEW p, Placed(p), \A s \in Steps : p.status[s] # "active",
           \A i, j \in DOMAIN p.order :
              p.status[p.order[i]] = "pending" /\ j > i =>
                 p.status[p.order[j]] \in {"pending", "completed"}
    PROVE  Orderly(ActivatedNext(p))
<1> DEFINE q == ActivatedNext(p)
<1>1. /\ WellFormed(p) /\ p \in Plans /\ Distinct(p)
      /\ DOMAIN p.order = 1..Len(p.order) /\ Len(p.order) \in Nat
      /\ \A i \in DOMAIN p.order : p.order[i] \in Steps
  BY PlanFields DEF Placed, WellFormed
<1>2. CASE PendingPositions(p) = {}
  <2>1. q = [p EXCEPT !.current = None]
    BY <1>2 DEF ActivatedNext
  <2>2. q.order = p.order /\ q.status = p.status /\ q.current = None
    BY <1>1, <2>1 DEF Plans
  <2>3. WellFormed(q)
    BY <1>1, ActivatedNextKeeps
  <2>4. \A s \in Steps : p.status[s] # "pending"
    BY <1>1, <1>2 DEF PendingPositions, WellFormed
  <2>5. \A i \in DOMAIN p.order : p.order[i] # None
    BY <1>1, StepFacts
  <2> HIDE DEF q
  <2>6. Orderly(q)
    BY <2>2, <2>3, <2>4, <2>5 DEF Orderly, Placed, Distinct, InStep
  <2> QED  BY <2>6 DEF q
<1>3. CASE PendingPositions(p) # {}
  <2>1. PendingPositions(p) \subseteq Nat
    BY <1>1 DEF PendingPositions
  <2>2. \E i \in PendingPositions(p) : \A j \in PendingPositions(p) : i <= j
    BY <1>3, <2>1, FirstPosition
  <2>3. PICK k \in PendingPositions(p) :
              (\A j \in PendingPositions(p) : k <= j) /\ NextPending(p) = p.order[k]
    BY <2>2 DEF NextPending
  <2> DEFINE s == p.order[k]
  <2>4. k \in DOMAIN p.order /\ s \in Steps /\ p.status[s] = "pending"
    BY <1>1, <2>3 DEF PendingPositions
  <2>5. q = Activated(p, s)
    BY <1>3, <2>3 DEF ActivatedNext
  <2>6. /\ WellFormed(q) /\ q.current = s
        /\ \A t \in Steps : t # s => q.status[t] = p.status[t]
    BY <1>1, <2>4, <2>5, ActivatedKeeps
  <2>7. q.order = p.order /\ q.status[s] = "active"
    BY <1>1, <2>4, <2>5, PlanFields DEF Activated, Plans
  <2>8. \A i \in DOMAIN p.order : p.order[i] = s <=> i = k
    BY <1>1, <2>4 DEF Distinct
  <2>9. ASSUME NEW j \in DOMAIN p.order, j < k PROVE q.status[p.order[j]] # "pending"
    <3>1. j \notin PendingPositions(p)
      BY <1>1, <2>3, <2>4, <2>9
    <3>2. p.order[j] # s /\ p.order[j] \in Steps
      BY <1>1, <2>4, <2>8, <2>9
    <3> QED  BY <2>6, <2>9, <3>1, <3>2 DEF PendingPositions
  <2>10. ASSUME NEW j \in DOMAIN p.order, j > k
         PROVE  q.status[p.order[j]] \in {"pending", "completed"}
    <3>1. p.order[j] # s /\ p.order[j] \in Steps
      BY <1>1, <2>4, <2>8, <2>10
    <3> QED  BY <2>4, <2>6, <2>10, <3>1
  <2>11. Placed(q)
    BY <1>1, <2>4, <2>6, <2>7 DEF Placed, Distinct
  <2> HIDE DEF q, s
  <2>12. s # None
    BY <2>4, StepFacts
  <2>13. InStep(q)
    BY <2>4, <2>6, <2>7, <2>8, <2>9, <2>10, <2>12 DEF InStep
  <2> QED  BY <2>11, <2>13 DEF Orderly, q
<1> QED  BY <1>2, <1>3

(* A new plan is in order: its first step is active, the others wait.      *)
LEMMA BuiltIsOrderly ==
    ASSUME NEW required, required \subseteq Requirements
    PROVE  Orderly(BuildPlan(required))
<1> DEFINE Required(s) == IF s \in required THEN <<s>> ELSE << >>
           order == Required("research") \o <<"execution">>
                    \o Required("verification") \o Required("reflection")
                    \o <<"synthesis">>
           steps == required \cup {"execution", "synthesis"}
           status == [s \in Steps |-> IF s \in steps THEN "pending" ELSE "absent"]
           p == [order |-> order, status |-> status, current |-> None]
           q == BuildPlan(required)
<1>1. q = Activated(p, order[1])
  BY DEF BuildPlan
<1>2. /\ q.order = order /\ q.current = order[1]
      /\ q.status = [status EXCEPT ![order[1]] =
                        IF status[order[1]] = "pending" THEN "active" ELSE @]
  BY <1>1 DEF Activated
<1>3. /\ Len(order) \in Nat \ {0} /\ DOMAIN order = 1..Len(order)
      /\ \A i \in 1..Len(order) : order[i] \in steps
      /\ \A i, j \in 1..Len(order) : order[i] = order[j] => i = j
  <2>1. CASE "research" \in required /\ "verification" \in required /\ "reflection" \in required
    <3>1. Len(order) = 5 /\ DOMAIN order = 1..5
      BY <2>1
    <3>2. /\ order[1] = "research"
          /\ order[2] = "execution"
          /\ order[3] = "verification"
          /\ order[4] = "reflection"
          /\ order[5] = "synthesis"
      BY <2>1
    <3> HIDE DEF order
    <3> QED  BY <2>1, <3>1, <3>2
  <2>2. CASE "research" \in required /\ "verification" \in required /\ "reflection" \notin required
    <3>1. Len(order) = 4 /\ DOMAIN order = 1..4
      BY <2>2
    <3>2. /\ order[1] = "research"
          /\ order[2] = "execution"
          /\ order[3] = "verification"
          /\ order[4] = "synthesis"
      BY <2>2
    <3> HIDE DEF order
    <3> QED  BY <2>2, <3>1, <3>2
  <2>3. CASE "research" \in required /\ "verification" \notin required /\ "reflection" \in required
    <3>1. Len(order) = 4 /\ DOMAIN order = 1..4
      BY <2>3
    <3>2. /\ order[1] = "research"
          /\ order[2] = "execution"
          /\ order[3] = "reflection"
          /\ order[4] = "synthesis"
      BY <2>3
    <3> HIDE DEF order
    <3> QED  BY <2>3, <3>1, <3>2
  <2>4. CASE "research" \in required /\ "verification" \notin required /\ "reflection" \notin required
    <3>1. Len(order) = 3 /\ DOMAIN order = 1..3
      BY <2>4
    <3>2. /\ order[1] = "research"
          /\ order[2] = "execution"
          /\ order[3] = "synthesis"
      BY <2>4
    <3> HIDE DEF order
    <3> QED  BY <2>4, <3>1, <3>2
  <2>5. CASE "research" \notin required /\ "verification" \in required /\ "reflection" \in required
    <3>1. Len(order) = 4 /\ DOMAIN order = 1..4
      BY <2>5
    <3>2. /\ order[1] = "execution"
          /\ order[2] = "verification"
          /\ order[3] = "reflection"
          /\ order[4] = "synthesis"
      BY <2>5
    <3> HIDE DEF order
    <3> QED  BY <2>5, <3>1, <3>2
  <2>6. CASE "research" \notin required /\ "verification" \in required /\ "reflection" \notin required
    <3>1. Len(order) = 3 /\ DOMAIN order = 1..3
      BY <2>6
    <3>2. /\ order[1] = "execution"
          /\ order[2] = "verification"
          /\ order[3] = "synthesis"
      BY <2>6
    <3> HIDE DEF order
    <3> QED  BY <2>6, <3>1, <3>2
  <2>7. CASE "research" \notin required /\ "verification" \notin required /\ "reflection" \in required
    <3>1. Len(order) = 3 /\ DOMAIN order = 1..3
      BY <2>7
    <3>2. /\ order[1] = "execution"
          /\ order[2] = "reflection"
          /\ order[3] = "synthesis"
      BY <2>7
    <3> HIDE DEF order
    <3> QED  BY <2>7, <3>1, <3>2
  <2>8. CASE "research" \notin required /\ "verification" \notin required /\ "reflection" \notin required
    <3>1. Len(order) = 2 /\ DOMAIN order = 1..2
      BY <2>8
    <3>2. /\ order[1] = "execution"
          /\ order[2] = "synthesis"
      BY <2>8
    <3> HIDE DEF order
    <3> QED  BY <2>8, <3>1, <3>2
  <2> QED  BY <2>1, <2>2, <2>3, <2>4, <2>5, <2>6, <2>7, <2>8
<1>4. WellFormed(q)
  BY BuildPlanWorks
<1>5. steps \subseteq Steps
  BY StepFacts
<1> HIDE DEF order, q, steps
<1>6. order[1] \in steps /\ order[1] \in Steps /\ order[1] # None
  BY <1>3, <1>5, StepFacts
<1>7. /\ q.status[order[1]] = "active"
      /\ \A s \in Steps \ {order[1]} :
            q.status[s] = IF s \in steps THEN "pending" ELSE "absent"
  BY <1>2, <1>6
<1>8. \A i \in 1..Len(order) : i # 1 => q.status[order[i]] = "pending"
  BY <1>3, <1>5, <1>7
<1>9. Placed(q)
  BY <1>2, <1>3, <1>4, <1>7, <1>8 DEF Placed, Distinct
<1>10. InStep(q)
  <2>1. \A i \in 1..Len(order) : order[i] = order[1] => i = 1
    BY <1>3
  <2>2. \A s \in Steps : q.status[s] = "active" => s = order[1]
    BY <1>7
  <2> QED  BY <1>2, <1>3, <1>6, <1>7, <1>8, <2>1, <2>2 DEF InStep
<1> QED  BY <1>9, <1>10 DEF Orderly, q

(* A revision keeps the steps apart...                                     *)
LEMMA MovedIsPlaced ==
    ASSUME NEW p, Placed(p), NEW s \in Steps, s # "synthesis", p.status[s] # "absent"
    PROVE  Placed(MovedBeforeSynthesis(p, s))
<1> DEFINE n  == Len(p.order)
           at == Position(p, s)
           order == [i \in 1..n |-> IF i < at \/ i = n THEN p.order[i]
                                    ELSE IF i = n - 1 THEN s ELSE p.order[i + 1]]
           from(i) == IF i < at \/ i = n THEN i ELSE IF i = n - 1 THEN at ELSE i + 1
           q == MovedBeforeSynthesis(p, s)
<1>1. /\ WellFormed(p) /\ p \in Plans /\ Distinct(p)
      /\ n \in Nat /\ n > 0 /\ DOMAIN p.order = 1..n
  BY PlanFields DEF Placed, WellFormed
<1>2. WellFormed(q) /\ q.status = p.status
  BY <1>1, MovedKeeps
<1>3. q.order = order
  BY <1>1 DEF MovedBeforeSynthesis, Plans
<1>4. at \in 1..n /\ p.order[at] = s
  BY <1>1 DEF WellFormed, Position
<1>5. at < n
  BY <1>1, <1>4 DEF WellFormed
<1>6. \A i \in 1..n : from(i) \in 1..n /\ order[i] = p.order[from(i)]
  BY <1>1, <1>4, <1>5
<1>7. \A i, j \in 1..n : from(i) = from(j) => i = j
  BY <1>1, <1>4, <1>5
<1>8. DOMAIN order = 1..n
  OBVIOUS
<1> HIDE DEF order, from, q, n
<1>9. \A i, j \in 1..n : order[i] = order[j] => i = j
  <2>1. \A i, j \in 1..n : p.order[i] = p.order[j] => i = j
    BY <1>1 DEF Distinct
  <2> QED  BY <1>6, <1>7, <2>1
<1>10. \A i \in 1..n : q.status[order[i]] # "absent"
  BY <1>1, <1>2, <1>6 DEF Placed
<1>11. Placed(q)
  BY <1>2, <1>3, <1>8, <1>9, <1>10 DEF Placed, Distinct
<1> QED  BY <1>11 DEF q

(* Inserting a step that was absent gives every place another step.        *)
LEMMA InsertedIsPlaced ==
    ASSUME NEW p, Placed(p), NEW s \in Steps, s # "synthesis", p.status[s] = "absent"
    PROVE  Placed(InsertedBeforeSynthesis(p, s))
<1> DEFINE n == Len(p.order)
           order == [i \in 1..(n + 1) |-> IF i < n THEN p.order[i]
                                          ELSE IF i = n THEN s ELSE p.order[n]]
           q == InsertedBeforeSynthesis(p, s)
<1>1. /\ WellFormed(p) /\ p \in Plans /\ Distinct(p)
      /\ n \in Nat /\ n > 0 /\ DOMAIN p.order = 1..n
      /\ \A i \in 1..n : p.order[i] \in Steps
  BY PlanFields DEF Placed, WellFormed
<1>2. /\ WellFormed(q)
      /\ q.status[s] = "pending"
      /\ \A t \in Steps \ {s} : q.status[t] = p.status[t]
  BY <1>1, InsertedKeeps
<1>3. q.order = order
  BY <1>1 DEF InsertedBeforeSynthesis, Marked, Plans
<1>4. \A i \in 1..n : p.order[i] # s /\ p.status[p.order[i]] # "absent"
  BY <1>1 DEF Placed
<1>5. \A i, j \in 1..n : p.order[i] = p.order[j] => i = j
  BY <1>1 DEF Distinct
<1>6. /\ \A i, j \in 1..(n + 1) : order[i] = order[j] => i = j
      /\ \A i \in 1..(n + 1) : order[i] = s \/ \E k \in 1..n : order[i] = p.order[k]
      /\ DOMAIN order = 1..(n + 1)
  <2>1. /\ \A i \in 1..(n + 1) : order[i] = IF i < n THEN p.order[i]
                                           ELSE IF i = n THEN s ELSE p.order[n]
        /\ DOMAIN order = 1..(n + 1)
    OBVIOUS
  <2> HIDE DEF order
  <2>2. ASSUME NEW i \in 1..(n + 1), NEW j \in 1..(n + 1), order[i] = order[j] PROVE i = j
    <3>1. CASE i = n \/ j = n
      BY <1>1, <1>4, <2>1, <2>2, <3>1
    <3>2. CASE i # n /\ j # n
      <4> DEFINE old(k) == IF k < n THEN k ELSE n
      <4>1. /\ old(i) \in 1..n /\ order[i] = p.order[old(i)]
            /\ old(j) \in 1..n /\ order[j] = p.order[old(j)]
        BY <1>1, <2>1, <3>2
      <4>2. old(i) = old(j)
        BY <1>5, <2>2, <4>1
      <4> QED  BY <1>1, <3>2, <4>2
    <3> QED  BY <3>1, <3>2
  <2>3. ASSUME NEW i \in 1..(n + 1) PROVE order[i] = s \/ \E k \in 1..n : order[i] = p.order[k]
    <3>1. CASE i < n
      BY <1>1, <2>1, <3>1
    <3>2. CASE i = n
      BY <1>1, <2>1, <3>2
    <3>3. CASE i = n + 1
      <4>1. n \in 1..n /\ order[i] = p.order[n]
        BY <1>1, <2>1, <3>3
      <4> QED  BY <4>1
    <3> QED  BY <1>1, <3>1, <3>2, <3>3
  <2> QED  BY <2>1, <2>2, <2>3
<1>7. \A i \in 1..(n + 1) : q.status[order[i]] # "absent"
  <2> HIDE DEF order, q
  <2> QED  BY <1>1, <1>2, <1>4, <1>6
<1> HIDE DEF order, q, n
<1> QED  BY <1>2, <1>3, <1>6, <1>7 DEF Placed, Distinct, q

(* ... and leaves the plan in order, whatever order it was in: what comes  *)
(* before the step to work on is over, what comes after it is to do.       *)
LEMMA NormalizedIsOrderly ==
    ASSUME NEW p, Placed(p), NEW s \in Steps, p.status[s] # "absent"
    PROVE  Orderly(Normalized(p, s))
<1> DEFINE q == Normalized(p, s)
           New(t) == CASE t = s -> "active"
                       [] t # s /\ p.status[t] \in {"pending", "active", "failed"}
                            -> IF Position(p, t) < Position(p, s) THEN "completed" ELSE "pending"
                       [] OTHER -> p.status[t]
<1>1. /\ WellFormed(p) /\ p \in Plans /\ Distinct(p)
      /\ DOMAIN p.order = 1..Len(p.order) /\ Len(p.order) \in Nat
      /\ \A i \in DOMAIN p.order : p.order[i] \in Steps
      /\ p.status \in [Steps -> StepStatus]
  BY PlanFields DEF Placed, WellFormed
<1>2. /\ WellFormed(q) /\ q.current = s /\ q.status[s] = "active"
  BY <1>1, NormalizedKeeps
<1>3. q.order = p.order /\ \A t \in Steps : q.status[t] = New(t)
  BY <1>1 DEF Normalized, Plans
<1>4. \A i \in DOMAIN p.order : Position(p, p.order[i]) = i
  BY <1>1 DEF Position, Distinct
<1>5. PICK k \in DOMAIN p.order : p.order[k] = s
  BY <1>1 DEF WellFormed
<1>6. \A i \in DOMAIN p.order : p.order[i] = s <=> i = k
  BY <1>1, <1>5 DEF Distinct
<1>7. ASSUME NEW i \in DOMAIN p.order, i # k
      PROVE  /\ q.status[p.order[i]] \in {"pending", "completed"}
             /\ i < k => q.status[p.order[i]] = "completed"
  <2>1. /\ p.order[i] # s /\ p.order[i] \in Steps
        /\ Position(p, p.order[i]) = i /\ Position(p, s) = k
        /\ p.status[p.order[i]] \in StepStatus \ {"absent"}
    BY <1>1, <1>4, <1>5, <1>6, <1>7 DEF Placed
  <2>2. p.status[p.order[i]] \in {"pending", "active", "failed"} \/ p.status[p.order[i]] = "completed"
    BY <2>1 DEF StepStatus
  <2>3. q.status[p.order[i]] = New(p.order[i])
    BY <1>3, <2>1
  <2> QED  BY <2>1, <2>2, <2>3
<1>8. \A t \in Steps : q.status[t] = "active" => t = s
  BY <1>3
<1> HIDE DEF q, New
<1>9. Placed(q)
  BY <1>1, <1>2, <1>3, <1>5, <1>7 DEF Placed, Distinct
<1>10. s # None
  BY StepFacts
<1>11. InStep(q)
  BY <1>1, <1>2, <1>3, <1>6, <1>7, <1>8, <1>10 DEF InStep
<1> QED  BY <1>9, <1>11 DEF Orderly, q

(* A revision of a plan, in order or not, is in order.                     *)
THEOREM ReplannedIsOrderly ==
    ASSUME NEW p, Placed(p), NEW s \in Requirements
    PROVE  Orderly(Replanned(p, s))
<1>1. s \in Steps /\ s # "synthesis" /\ "synthesis" \in Steps /\ "pending" \in StepStatus \ {"absent"}
  BY StepFacts DEF StepStatus
<1>2. ASSUME NEW q, Placed(q)
      PROVE  /\ q.status["synthesis"] # "absent"
             /\ Placed(Marked(q, "synthesis", "pending"))
             /\ Marked(q, "synthesis", "pending").status[s] = q.status[s]
  <2>1. WellFormed(q) /\ q.status["synthesis"] # "absent"
    BY <1>2 DEF Placed, WellFormed
  <2> QED  BY <1>1, <1>2, <2>1, PlacedMarked, MarkedKeeps
<1>3. ASSUME NEW q, Placed(q)
      PROVE  /\ Placed(SynthesisReopened(q))
             /\ SynthesisReopened(q).status[s] = q.status[s]
             /\ SynthesisReopened(q).status["synthesis"] # "absent"
  <2>1. Placed(SynthesisReopened(q)) /\ SynthesisReopened(q).status[s] = q.status[s]
    BY <1>2, <1>3 DEF SynthesisReopened
  <2> QED  BY <1>2, <2>1
<1>4. ASSUME NEW q, Placed(q) PROVE Orderly(Revised(q, s))
  <2> DEFINE r == IF q.status[s] = "absent" THEN InsertedBeforeSynthesis(q, s)
                  ELSE MovedBeforeSynthesis(q, s)
  <2>1. CASE q.status[s] = "completed"
    <3>1. Revised(q, s) = Normalized(SynthesisReopened(q), "synthesis")
      BY <2>1 DEF Revised
    <3> QED  BY <1>1, <1>3, <1>4, <3>1, NormalizedIsOrderly
  <2>2. CASE q.status[s] # "completed"
    <3>1. Revised(q, s) = Normalized(SynthesisReopened(r), s)
      BY <2>2 DEF Revised
    <3>2. WellFormed(q)
      BY <1>4 DEF Placed
    <3>3. Placed(r) /\ r.status[s] # "absent"
      BY <1>1, <1>4, <3>2, InsertedIsPlaced, MovedIsPlaced, InsertedKeeps, MovedKeeps
    <3> HIDE DEF r
    <3> QED  BY <1>1, <1>3, <3>1, <3>3, NormalizedIsOrderly
  <2> QED  BY <2>1, <2>2
<1> QED  BY <1>2, <1>4 DEF Replanned

---------------------------------------------------------------------------
(* The building blocks of the actions.                                     *)

(* The phases of the agent and the steps of a plan.                        *)
LEMMA PhaseFacts ==
    /\ Steps \subseteq Phases \ {"completed"}
    /\ {"debugging", "execution", "blocked", "synthesis", "completed"} \subseteq Phases
    /\ None \notin Phases
BY DEF Steps, Phases, WorkPhases, Requirements, None

(* The plan after a step is p, or p with its current step failed.          *)
FromPlan(p) ==
    /\ WellFormed(plan')
    /\ plan'.current = p.current
    /\ \A s \in Steps : \/ plan'.status[s] = p.status[s]
                        \/ s = p.current /\ plan'.status[s] = "failed"

(* Blocking a run leaves its plan well-formed.                             *)
LEMMA BlockKeeps ==
    ASSUME NEW p, WellFormed(p), Block(p)
    PROVE  /\ FromPlan(p)
           /\ phase' = "blocked"
           /\ pc' = "idle"
<1>1. plan' = CurrentFailed(p) /\ phase' = "blocked" /\ pc' = "idle"
  BY DEF Block, Stop
<1>2. p.current \in Steps \cup {None}
  BY PlanFields DEF WellFormed
<1>3. /\ WellFormed(plan')
      /\ plan'.current = p.current
      /\ p.current # None => plan'.status[p.current] = "failed"
      /\ \A s \in Steps : s # p.current => plan'.status[s] = p.status[s]
  BY <1>1, CurrentFailedKeeps
<1>4. FromPlan(p)
  BY <1>2, <1>3, StepFacts DEF FromPlan
<1> QED  BY <1>1, <1>4

(* A plan that is kept is one that came from it.                           *)
LEMMA SamePlan ==
    ASSUME NEW p, WellFormed(p), plan' = p
    PROVE  FromPlan(p)
BY DEF FromPlan

(* The next iteration is in the phase of the current step.                 *)
LEMMA NextIterationKeeps ==
    ASSUME iteration \in 0..MaxIterations, NEW p, WellFormed(p),
           NEW ph \in Phases \ {"completed"}, NextIteration(p, ph)
    PROVE  /\ FromPlan(p)
           /\ phase' \in Phases \ {"completed"}
           /\ pc' \in {"idle", "asking"}
           /\ iteration' \in 0..MaxIterations
           /\ pc' = "asking" /\ p.current # None /\ ph \in {p.current, "debugging"}
                 => phase' = p.current
<1>1. CASE iteration = MaxIterations /\ Block(p) /\ iteration' = iteration
  BY <1>1, BlockKeeps, PhaseFacts
<1>2. CASE Stop(p, ph) /\ iteration' = iteration
  BY <1>2, SamePlan DEF Stop
<1>3. CASE /\ iteration < MaxIterations
           /\ iteration' = iteration + 1
           /\ pc' = "asking"
           /\ plan' = p
           /\ phase' = AskingPhase(p, ph)
  <2>1. FromPlan(p)
    BY <1>3, SamePlan
  <2>2. p.current \in Steps \cup {None}
    BY PlanFields DEF WellFormed
  <2>3. phase' = IF p.current # None /\ ph = "debugging" THEN p.current ELSE ph
    BY <1>3 DEF AskingPhase
  <2>4. phase' \in Phases \ {"completed"}
    BY <2>2, <2>3, PhaseFacts
  <2>5. iteration' \in 0..MaxIterations
    BY <1>3, RunAssumption
  <2> QED  BY <1>3, <2>1, <2>3, <2>4, <2>5
<1> QED  BY <1>1, <1>2, <1>3 DEF NextIteration

(* Starting a tool keeps the plan, and the count of tools within its       *)
(* limit.                                                                  *)
LEMMA StartToolKeeps ==
    ASSUME used \in 0..MaxToolCalls, NEW p, WellFormed(p), StartTool(p)
    PROVE  /\ FromPlan(p)
           /\ phase' \in Phases \ {"completed"}
           /\ pc' \in {"idle", "tool"}
           /\ used' \in 0..MaxToolCalls
<1>1. CASE used = MaxToolCalls
  <2>1. Block(p) /\ used' = used
    BY <1>1 DEF StartTool
  <2> QED  BY <2>1, BlockKeeps, PhaseFacts
<1>2. CASE used # MaxToolCalls
  <2>1. used' = used + 1 /\ pc' = "tool" /\ plan' = p /\ phase' = StepPhase(p)
    BY <1>2 DEF StartTool
  <2>2. p.current \in Steps \cup {None}
    BY PlanFields DEF WellFormed
  <2>3. phase' \in Phases \ {"completed"}
    BY <2>1, <2>2, PhaseFacts DEF StepPhase
  <2>4. used' \in 0..MaxToolCalls
    BY <1>2, <2>1, RunAssumption
  <2> QED  BY <2>1, <2>3, <2>4, SamePlan
<1> QED  BY <1>1, <1>2

(* A finished tool keeps the plan and the loop's counters within their     *)
(* limits.                                                                 *)
LEMMA ToolDoneKeeps ==
    ASSUME iteration \in 0..MaxIterations, used \in 0..MaxToolCalls, batch \in 0..MaxBatch,
           batch > 0, NEW p, WellFormed(p), NEW ph \in Phases \ {"completed"}, ToolDone(p, ph)
    PROVE  /\ FromPlan(p)
           /\ phase' \in Phases \ {"completed"}
           /\ pc' \in {"idle", "asking", "tool"}
           /\ iteration' \in 0..MaxIterations
           /\ used' \in 0..MaxToolCalls
           /\ batch' \in 0..MaxBatch
           /\ pc' = "tool" => batch' > 0
           /\ pc' = "asking" /\ p.current # None /\ ph \in {p.current, "debugging"}
                 => phase' = p.current
<1>1. batch' = batch - 1
  BY DEF ToolDone
<1>2. batch' \in 0..MaxBatch
  BY <1>1, RunAssumption
<1>3. CASE batch > 1
  <2>1. StartTool(p) /\ iteration' = iteration
    BY <1>3 DEF ToolDone
  <2>2. batch' > 0
    BY <1>1, <1>3
  <2> QED  BY <1>2, <2>1, <2>2, StartToolKeeps
<1>4. CASE ~(batch > 1)
  <2>1. NextIteration(p, ph) /\ used' = used
    BY <1>4 DEF ToolDone
  <2> QED  BY <1>2, <2>1, NextIterationKeeps
<1> QED  BY <1>3, <1>4

(* Advancing completes the current step and leaves finished ones alone.    *)
LEMMA AdvancedKeeps ==
    ASSUME NEW p, WellFormed(p)
    PROVE  /\ WellFormed(Advanced(p))
           /\ \A s \in Steps : p.status[s] = "completed" \/ p.current = s =>
                 Advanced(p).status[s] = "completed" /\ Advanced(p).current # s
<1> DEFINE q == IF p.current = None THEN p ELSE Marked(p, p.current, "completed")
<1>1. p.current \in Steps \cup {None}
  BY PlanFields DEF WellFormed
<1>2. CASE p.current = None
  <2>1. Advanced(p) = ActivatedNext(p)
    BY <1>2 DEF Advanced
  <2>2. \A s \in Steps : p.current # s
    BY <1>2, StepFacts
  <2> QED  BY <2>1, <2>2, ActivatedNextKeeps
<1>3. CASE p.current # None
  <2>1. "completed" \in StepStatus \ {"absent"}
    BY DEF StepStatus
  <2>2. p.current \in Steps /\ p.status[p.current] # "absent"
    BY <1>1, <1>3 DEF WellFormed
  <2>3. /\ WellFormed(q)
        /\ \A s \in Steps : p.status[s] = "completed" \/ p.current = s =>
              q.status[s] = "completed"
    BY <1>3, <2>1, <2>2, MarkedKeeps
  <2>4. Advanced(p) = ActivatedNext(q)
    BY DEF Advanced
  <2> HIDE DEF q
  <2>5. /\ WellFormed(ActivatedNext(q))
        /\ \A s \in Steps : q.status[s] # "pending" =>
              ActivatedNext(q).status[s] = q.status[s] /\ ActivatedNext(q).current # s
    BY <2>3, ActivatedNextKeeps
  <2> QED  BY <2>3, <2>4, <2>5
<1> QED  BY <1>2, <1>3

(* Beginning the synthesis disturbs execution and synthesis only.          *)
LEMMA SynthesizingKeeps ==
    ASSUME NEW p, WellFormed(p)
    PROVE  /\ WellFormed(Synthesizing(p))
           /\ Synthesizing(p).current = "synthesis"
           /\ \A s \in Requirements : Synthesizing(p).status[s] = p.status[s]
<1> DEFINE q == IF p.current = "execution" THEN Marked(p, "execution", "completed") ELSE p
           r == Marked(q, "synthesis", "active")
<1>1. "completed" \in StepStatus \ {"absent"} /\ "active" \in StepStatus \ {"absent"}
  BY DEF StepStatus
<1>2. \A s \in Requirements : s \in Steps /\ s # "execution" /\ s # "synthesis"
  BY DEF Requirements, Steps
<1>3. WellFormed(q) /\ \A s \in Requirements : q.status[s] = p.status[s]
  <2>1. CASE p.current = "execution"
    <3>1. "execution" \in Steps /\ p.status["execution"] # "absent"
      BY <2>1, StepFacts DEF WellFormed, None
    <3> QED  BY <1>1, <1>2, <2>1, <3>1, MarkedKeeps
  <2> QED  BY <2>1
<1>4. q.status["synthesis"] # "absent" /\ "synthesis" \in Steps
  BY <1>3, StepFacts DEF WellFormed
<1>5. /\ WellFormed(r)
      /\ r.status["synthesis"] = "active"
      /\ \A s \in Requirements : r.status[s] = p.status[s]
  <2> HIDE DEF q
  <2> QED  BY <1>1, <1>2, <1>3, <1>4, MarkedKeeps
<1>6. Synthesizing(p) = [r EXCEPT !.current = "synthesis"]
  BY DEF Synthesizing
<1> HIDE DEF q, r
<1>7. r \in Plans
  BY <1>5 DEF WellFormed
<1>8. /\ Synthesizing(p) \in Plans
      /\ Synthesizing(p).order = r.order
      /\ Synthesizing(p).status = r.status
      /\ Synthesizing(p).current = "synthesis"
  BY <1>4, <1>6, <1>7 DEF Plans
<1>9. WellFormed(Synthesizing(p))
  BY <1>5, <1>8 DEF WellFormed
<1> QED  BY <1>5, <1>8, <1>9

---------------------------------------------------------------------------
(* The pages.  Only the question at hand has pages that are not in the     *)
(* baseline, and none of its pages are.                                    *)

PagesInv ==
    /\ asked \in Nat
    /\ question \in 0..asked
    /\ evidence \subseteq 1..question
    /\ baseline \subseteq evidence
    /\ question \notin baseline
    /\ evidence \subseteq baseline \cup {question}
    /\ pc = "launched" /\ job \in {"run", "continue"} => question < asked
    /\ answered \/ anchor # NoAnchor \/ Running \/ (pc = "launched" /\ job = "regenerate")
           => question > 0

(* A new agent satisfies the invariant.                                    *)
LEMMA PagesInit == Init => PagesInv
BY DEF Init, PagesInv, Running, NoQuestion, NoAnchor

(* Where a step of a run can leave the control.                            *)
LEMMA ControlAfter ==
    /\ \A p, ph : Stop(p, ph) => pc' = "idle"
    /\ \A p, ph : NextIteration(p, ph) => pc' \in {"idle", "asking"}
    /\ \A p : StartTool(p) => pc' \in {"idle", "tool"}
    /\ \A p, ph : ToolDone(p, ph) => pc' \in {"idle", "asking", "tool"}
<1>1. \A p, ph : Stop(p, ph) => pc' = "idle"
  BY DEF Stop
<1>2. \A p, ph : NextIteration(p, ph) => pc' \in {"idle", "asking"}
  BY <1>1 DEF NextIteration, Block
<1>3. \A p : StartTool(p) => pc' \in {"idle", "tool"}
  BY <1>1 DEF StartTool, Block
<1>4. \A p, ph : ToolDone(p, ph) => pc' \in {"idle", "asking", "tool"}
  BY <1>2, <1>3 DEF ToolDone
<1> QED  BY <1>1, <1>2, <1>3, <1>4

(* What the model and the tools do gathers pages of the question at hand.  *)
LEMMA PagesOfQuestion ==
    ASSUME PagesInv, Running,
           asked' = asked, question' = question, baseline' = baseline,
           anchor' = anchor, job' = job,
           evidence' = evidence \/ evidence' = evidence \cup {question},
           pc' \in {"idle", "asking", "tool"}
    PROVE  PagesInv'
<1>1. question \in 1..question /\ question > 0
  BY DEF PagesInv
<1>2. evidence' \subseteq 1..question
  BY <1>1 DEF PagesInv
<1>3. pc' # "launched"
  OBVIOUS
<1> QED  BY <1>1, <1>2, <1>3 DEF PagesInv

(* Every step of the loop preserves the invariant, and is taken by a       *)
(* running agent only.                                                     *)
LEMMA LoopKeepsPages ==
    ASSUME PagesInv,
           \/ EmptyAnswer \/ Draft \/ Answer \/ RefuseTools
           \/ \E n \in 1..MaxBatch : CallTools(n)
           \/ ToolFails \/ ToolSucceeds \/ ResearchSatisfies \/ ResearchFallsShort
    PROVE  PagesInv' /\ Running
<1>1. CASE EmptyAnswer
  BY <1>1, ControlAfter, PagesOfQuestion
     DEF EmptyAnswer, Running, taskVars, talkVars, pageVars, countVars
<1>2. CASE Draft
  BY <1>2, ControlAfter, PagesOfQuestion
     DEF Draft, Running, taskVars, pageVars, countVars
<1>3. CASE Answer
  <2>1. pc' \in {"idle", "asking"}
    BY <1>3, ControlAfter DEF Answer, Raise
  <2> QED  BY <1>3, <2>1, PagesOfQuestion DEF Answer, Running, pageVars, countVars
<1>4. CASE RefuseTools
  BY <1>4, ControlAfter, PagesOfQuestion
     DEF RefuseTools, Running, taskVars, pageVars, countVars
<1>5. CASE \E n \in 1..MaxBatch : CallTools(n)
  BY <1>5, ControlAfter, PagesOfQuestion
     DEF CallTools, Running, taskVars, pageVars, countVars
<1>6. CASE ToolFails
  BY <1>6, ControlAfter, PagesOfQuestion
     DEF ToolFails, Running, taskVars, talkVars, pageVars, countVars
<1>7. CASE ToolSucceeds
  BY <1>7, ControlAfter, PagesOfQuestion
     DEF ToolSucceeds, Running, taskVars, talkVars, pageVars, countVars
<1>8. CASE ResearchSatisfies
  BY <1>8, ControlAfter, PagesOfQuestion
     DEF ResearchSatisfies, Running, taskVars, talkVars, countVars
<1>9. CASE ResearchFallsShort
  BY <1>9, ControlAfter, PagesOfQuestion
     DEF ResearchFallsShort, Running, taskVars, talkVars, countVars
<1> QED  BY <1>1, <1>2, <1>3, <1>4, <1>5, <1>6, <1>7, <1>8, <1>9

(* Every step of the agent preserves the invariant.                        *)
LEMMA PagesStep == PagesInv /\ [Next]_vars => PagesInv'
<1> SUFFICES ASSUME PagesInv, [Next]_vars PROVE PagesInv'
  OBVIOUS
<1>1. ASSUME NEW kind \in {"run", "continue"}, NEW c \in Contracts, PrepareTask(kind, c)
      PROVE  PagesInv'
  <2>1. /\ asked' = asked + 1 /\ pc' = "launched" /\ job' = kind
        /\ anchor' = NoAnchor
        /\ UNCHANGED <<question, answered, evidence, baseline>>
    BY <1>1 DEF PrepareTask, Launch, talkVars, pageVars
  <2> QED  BY <2>1 DEF PagesInv, Running
<1>2. CASE AskAgain
  <2>1. /\ answered /\ pc' = "launched" /\ job' = "regenerate"
        /\ UNCHANGED <<asked, anchor, question, answered, evidence, baseline>>
    BY <1>2 DEF AskAgain, Launch, taskVars, talkVars, pageVars
  <2> QED  BY <2>1 DEF PagesInv, Running
<1>3. CASE Resume
  <2>1. /\ pc' = "launched" /\ job' = "resume"
        /\ UNCHANGED <<asked, anchor, question, answered, evidence, baseline>>
    BY <1>3 DEF Resume, Launch, taskVars, talkVars, pageVars
  <2> QED  BY <2>1 DEF PagesInv, Running
<1>4. CASE Interrupt
  <2>1. /\ pc' = "idle"
        /\ UNCHANGED <<asked, job, anchor, question, answered, evidence, baseline>>
    BY <1>4 DEF Interrupt, taskVars, talkVars, pageVars, countVars
  <2> QED  BY <2>1 DEF PagesInv, Running
<1>5. CASE BeginTask
  <2>1. /\ question' = asked /\ pc' = "asking"
        /\ baseline' = evidence
        /\ UNCHANGED <<asked, job, evidence>>
    BY <1>5 DEF BeginTask, StartAttempt, EnterLoop, countVars
  <2>2. question < asked
    BY <1>5 DEF BeginTask, PagesInv
  <2>3. \A e \in evidence : e \in 1..asked /\ e # asked
    BY <2>2 DEF PagesInv
  <2> QED  BY <2>1, <2>2, <2>3 DEF PagesInv
<1>6. CASE BeginRegenerate
  <2>1. /\ question' = question /\ pc' = "asking"
        /\ evidence' = evidence \cap baseline /\ baseline' = evidence'
        /\ UNCHANGED <<asked, job>>
    BY <1>6 DEF BeginRegenerate, StartAttempt, EnterLoop, countVars
  <2>2. question > 0
    BY <1>6 DEF BeginRegenerate, PagesInv
  <2> QED  BY <2>1, <2>2 DEF PagesInv
<1>7. CASE BeginResume
  <2>1. UNCHANGED <<asked, job, anchor, question, answered, evidence, baseline>>
    BY <1>7 DEF BeginResume, taskVars, talkVars, pageVars, countVars
  <2>2. pc' = "idle" \/ (pc' = "asking" /\ anchor # NoAnchor)
    BY <1>7, ControlAfter DEF BeginResume, Raise, EnterLoop, Resumable
  <2> QED  BY <2>1, <2>2 DEF PagesInv, Running
<1>8. CASE UNCHANGED vars
  BY <1>8 DEF vars, taskVars, talkVars, pageVars, countVars, PagesInv, Running
<1> QED
  BY <1>1, <1>2, <1>3, <1>4, <1>5, <1>6, <1>7, <1>8, LoopKeepsPages
     DEF Next, LoopStep, UserStep

(* The invariant holds in every reachable state.                           *)
LEMMA PagesInvariant == Spec => []PagesInv
BY PagesInit, PagesStep, PTL DEF Spec

(* For any number of questions, retries and resumptions: a retry starts    *)
(* with the evidence of the earlier questions and nothing else.            *)
THEOREM RetriesStartClean == Spec => RetryStartsClean
<1>1. ASSUME PagesInv, [Next]_vars,
             job = "regenerate", pc = "launched", pc' = "asking"
      PROVE  evidence' = evidence \ {question} \/ UNCHANGED vars
  <2>1. CASE BeginRegenerate
    <3>1. evidence' = evidence \cap baseline
      BY <2>1 DEF BeginRegenerate
    <3> QED  BY <1>1, <3>1 DEF PagesInv
  <2>2. CASE BeginTask \/ BeginResume
    BY <1>1, <2>2 DEF BeginTask, BeginResume
  <2>3. CASE \/ EmptyAnswer \/ Draft \/ Answer \/ RefuseTools
             \/ \E n \in 1..MaxBatch : CallTools(n)
             \/ ToolFails \/ ToolSucceeds \/ ResearchSatisfies \/ ResearchFallsShort
    BY <1>1, <2>3, LoopKeepsPages DEF Running
  <2>4. CASE UserStep
    BY <1>1, <2>4 DEF UserStep, PrepareTask, AskAgain, Resume, Launch, Interrupt
  <2>5. CASE UNCHANGED vars
    BY <2>5
  <2> QED  BY <1>1, <2>1, <2>2, <2>3, <2>4, <2>5 DEF Next, LoopStep
<1>2. PagesInv /\ [Next]_vars =>
        [job = "regenerate" /\ pc = "launched" /\ pc' = "asking"
            => evidence' = evidence \ {question}]_vars
  BY <1>1
<1> QED  BY <1>2, PagesInvariant, PTL DEF Spec, RetryStartsClean

---------------------------------------------------------------------------
(* Plan, progress and phase.                                               *)

(* While the research is not done it is what the run works on; afterwards  *)
(* its step is completed and never current again.                          *)
ResearchOf(p, d) ==
    "research" \in contract =>
        IF "research" \in d
        THEN p.status["research"] = "completed" /\ p.current # "research"
        ELSE p.current = "research" /\ p.status["research"] # "completed"

WorkInv ==
    /\ phase \in Phases
    /\ finished \in BOOLEAN
    /\ contract \subseteq Requirements
    /\ done \subseteq gained
    /\ gained \subseteq Requirements
    /\ iteration \in 0..MaxIterations
    /\ used \in 0..MaxToolCalls
    /\ batch \in 0..MaxBatch
    /\ pc \in {"idle", "launched", "asking", "tool"}
    /\ plan # NoPlan => WellFormed(plan) /\ ResearchOf(plan, done)
    /\ phase = "completed" => finished /\ (plan # NoPlan => contract \subseteq gained)
    /\ Running => plan # NoPlan /\ ~finished
    /\ pc = "tool" => batch > 0
    /\ pc = "asking" /\ plan.current # None => phase = plan.current

(* An agent without a task satisfies it.                                   *)
LEMMA WorkInit == Init => WorkInv
<1> SUFFICES ASSUME Init PROVE WorkInv
  OBVIOUS
<1>1. 0 \in 0..MaxIterations /\ 0 \in 0..MaxToolCalls /\ 0 \in 0..MaxBatch
  BY RunAssumption
<1>2. phase = "idle" /\ phase \in Phases /\ phase # "completed"
  BY DEF Init, Phases
<1>3. plan = NoPlan /\ pc = "idle"
  BY DEF Init
<1>4. /\ contract \subseteq Requirements /\ done \subseteq gained
      /\ gained \subseteq Requirements
      /\ finished \in BOOLEAN
  BY DEF Init
<1>5. iteration = 0 /\ used = 0 /\ batch = 0
  BY DEF Init
<1> QED  BY <1>1, <1>2, <1>3, <1>4, <1>5 DEF WorkInv, Running

(* What a step of a running agent must keep.                               *)
LEMMA RunningKeepsWork ==
    ASSUME WorkInv, Running,
           contract' = contract, finished' = finished,
           done' \subseteq gained', gained' \subseteq Requirements,
           iteration' \in 0..MaxIterations, used' \in 0..MaxToolCalls, batch' \in 0..MaxBatch,
           NEW p, ResearchOf(p, done'), FromPlan(p),
           phase' \in Phases \ {"completed"},
           pc' \in {"idle", "asking", "tool"},
           pc' = "tool" => batch' > 0,
           pc' = "asking" /\ p.current # None => phase' = p.current
    PROVE  WorkInv'
<1>1. /\ WellFormed(plan')
      /\ plan'.current = p.current
  BY DEF FromPlan
<1>2. "research" \in Steps
  BY DEF Steps, Requirements
<1>3. \/ plan'.status["research"] = p.status["research"]
      \/ p.current = "research" /\ plan'.status["research"] = "failed"
  BY <1>2 DEF FromPlan
<1>4. "research" \in contract' =>
        IF "research" \in done'
        THEN plan'.status["research"] = "completed" /\ plan'.current # "research"
        ELSE plan'.current = "research" /\ plan'.status["research"] # "completed"
  BY <1>1, <1>3 DEF ResearchOf
<1>5. plan' # NoPlan
  BY <1>1 DEF WellFormed, NoPlan
<1>6. ~finished'
  BY DEF WorkInv
<1>7. contract' \subseteq Requirements /\ finished' \in BOOLEAN
  BY DEF WorkInv
<1> QED
  BY <1>1, <1>4, <1>5, <1>6, <1>7 DEF WorkInv, ResearchOf, Running

(* The answer may follow research (_ALLOWED_TRANSITIONS).                  *)
LEMMA CanAlwaysAnswerResearch == CanMove("research", "synthesis")
<1>1. "research" \in Phases /\ "research" \in WorkPhases
  BY DEF Phases, WorkPhases, Requirements
<1>2. "synthesis" \in Allowed["research"]
  BY <1>1 DEF Allowed
<1> QED  BY <1>2 DEF CanMove

(* The facts about the plan of a running agent that the actions use.       *)
LEMMA RunningPlan ==
    ASSUME WorkInv, Running
    PROVE  /\ WellFormed(plan) /\ ResearchOf(plan, done)
           /\ plan.current \in Steps \cup {None}
           /\ phase \in Phases \ {"completed"}
           /\ StepPhase(plan) \in Phases \ {"completed"}
           /\ plan.current # None => StepPhase(plan) = plan.current
<1>1. WellFormed(plan) /\ ResearchOf(plan, done)
  BY DEF WorkInv
<1>2. plan.current \in Steps \cup {None}
  BY <1>1, PlanFields DEF WellFormed
<1>3. phase \in Phases \ {"completed"}
  BY DEF WorkInv
<1> QED  BY <1>1, <1>2, <1>3, PhaseFacts DEF StepPhase

(* Asking the model once more leaves the work as it is.                    *)
LEMMA AskedKeepsWork ==
    ASSUME WorkInv, pc = "asking", NextIteration(plan, phase),
           UNCHANGED <<finished, contract, done, gained, batch, used>>
    PROVE  WorkInv'
<1>1. Running /\ iteration \in 0..MaxIterations
  BY DEF Running, WorkInv
<1>2. phase \in {plan.current, "debugging"} \/ plan.current = None
  BY DEF WorkInv
<1>3. /\ FromPlan(plan)
      /\ phase' \in Phases \ {"completed"}
      /\ pc' \in {"idle", "asking"}
      /\ iteration' \in 0..MaxIterations
      /\ pc' = "asking" /\ plan.current # None => phase' = plan.current
  BY <1>1, <1>2, RunningPlan, NextIterationKeeps
<1>4. /\ ResearchOf(plan, done')
      /\ done' \subseteq gained' /\ gained' \subseteq Requirements
      /\ used' \in 0..MaxToolCalls /\ batch' \in 0..MaxBatch
  BY <1>1, RunningPlan DEF WorkInv
<1>5. finished' = finished /\ contract' = contract
  OBVIOUS
<1> HIDE DEF FromPlan
<1> QED  BY <1>1, <1>3, <1>4, <1>5, RunningKeepsWork

(* An answer, accepted or sent back to a missing phase, keeps plan and     *)
(* work agreed.                                                            *)
LEMMA AnswerKeepsWork == WorkInv /\ Answer => WorkInv'
<1> SUFFICES ASSUME WorkInv, Answer PROVE WorkInv'
  OBVIOUS
<1> DEFINE p == Synthesizing(plan)
           m == Missing(contract, done)
           q == Replanned(p, m)
<1>1. Running /\ pc = "asking"
  BY DEF Answer, Running
<1>2. /\ contract' = contract /\ done' = done /\ gained' = gained
      /\ batch' = batch /\ used' = used
      /\ done' \subseteq gained' /\ gained' \subseteq Requirements
      /\ used' \in 0..MaxToolCalls /\ batch' \in 0..MaxBatch
  BY DEF Answer, WorkInv
<1>3. /\ WellFormed(plan) /\ ResearchOf(plan, done)
      /\ phase \in Phases \ {"completed"}
  BY <1>1, RunningPlan
<1>4. /\ WellFormed(p)
      /\ p.current = "synthesis"
      /\ \A s \in Requirements : p.status[s] = plan.status[s]
  BY <1>3, SynthesizingKeeps
<1>5. "research" \in Requirements
  BY DEF Requirements
<1>6. CanMove(phase, "synthesis") \/ ("research" \in contract => "research" \in done)
  <2>1. ASSUME "research" \in contract, "research" \notin done
        PROVE  CanMove(phase, "synthesis")
    <3>1. plan.current = "research"
      BY <1>3, <2>1 DEF ResearchOf
    <3>2. phase = "research"
      BY <1>1, <3>1 DEF WorkInv, None
    <3> QED  BY <3>2, CanAlwaysAnswerResearch
  <2> QED  BY <2>1
<1>7. CASE /\ ~CanMove(phase, "synthesis")
           /\ Raise(p)
           /\ UNCHANGED <<phase, finished, prepared, answered, iteration>>
  <2>1. ResearchOf(p, done')
    BY <1>2, <1>3, <1>4, <1>5, <1>6, <1>7 DEF ResearchOf
  <2>2. plan' = p /\ pc' = "idle"
    BY <1>7 DEF Raise
  <2>3. FromPlan(p)
    BY <1>4, <2>2, SamePlan
  <2>4. iteration' \in 0..MaxIterations /\ finished' = finished /\ phase' = phase
    BY <1>7 DEF WorkInv
  <2> HIDE DEF p
  <2> QED  BY <1>1, <1>2, <1>3, <2>1, <2>2, <2>3, <2>4, RunningKeepsWork
<1>8. CASE /\ GateAllows(contract, done)
           /\ Stop(Marked(p, "synthesis", "completed"), "completed")
           /\ finished' = TRUE
           /\ UNCHANGED iteration
  <2>1. "completed" \in StepStatus \ {"absent"} /\ "synthesis" \in Steps
        /\ p.status["synthesis"] # "absent"
    BY <1>4, StepFacts DEF StepStatus, WellFormed
  <2>2. /\ WellFormed(plan')
        /\ plan'.current = "synthesis"
        /\ plan'.status["research"] = p.status["research"]
        /\ phase' = "completed" /\ pc' = "idle"
    <3>1. plan' = Marked(p, "synthesis", "completed") /\ phase' = "completed" /\ pc' = "idle"
      BY <1>8 DEF Stop
    <3>2. "research" \in Steps \ {"synthesis"}
      BY <1>5, StepFacts
    <3> HIDE DEF p
    <3> QED  BY <1>4, <2>1, <3>1, <3>2, MarkedKeeps
  <2>3. contract \subseteq done
    BY <1>8 DEF GateAllows
  <2>4. "research" \in contract => plan'.status["research"] = "completed"
    BY <1>3, <1>4, <1>5, <2>2, <2>3 DEF ResearchOf
  <2>5. ResearchOf(plan, done)'
    BY <1>2, <2>2, <2>3, <2>4 DEF ResearchOf
  <2>6. iteration' \in 0..MaxIterations /\ contract' \subseteq Requirements
    BY <1>2, <1>8 DEF WorkInv
  <2>7. phase' \in Phases /\ finished' \in BOOLEAN /\ contract' \subseteq gained'
    BY <1>2, <1>8, <2>2, <2>3, PhaseFacts
  <2> QED  BY <1>2, <1>8, <2>2, <2>5, <2>6, <2>7 DEF WorkInv, Running
<1>9. CASE /\ ~GateAllows(contract, done)
           /\ IF q.current = "synthesis"
              THEN Raise(q) /\ phase' = "synthesis" /\ UNCHANGED iteration
              ELSE NextIteration(q, q.current) /\ UNCHANGED crashed
           /\ UNCHANGED finished
  <2>1. m \in Requirements /\ m \in contract /\ m \notin done
        /\ ("research" \in contract \ done => m = "research")
    BY <1>9 DEF GateAllows, Missing, Requirements, WorkInv
  <2> HIDE DEF m, p
  <2>2. /\ WellFormed(q)
        /\ q.current = IF p.status[m] = "completed" THEN "synthesis" ELSE m
        /\ p.status[m] # "completed" => q.status[m] = "active"
        /\ \A t \in Steps \ {"synthesis"} : p.status[t] = "completed" =>
              q.status[t] = "completed"
    BY <1>4, <2>1, ReplannedKeeps
  <2>3. ResearchOf(q, done')
    <3>1. CASE "research" \in contract /\ "research" \in done
      <4>1. p.status["research"] = "completed"
        BY <1>3, <1>4, <1>5, <3>1 DEF ResearchOf
      <4>2. "research" \in Steps \ {"synthesis"}
        BY <1>5, StepFacts
      <4>3. q.status["research"] = "completed"
        BY <2>2, <4>1, <4>2
      <4>4. q.current # "research"
        BY <2>1, <2>2, <3>1
      <4> HIDE DEF q
      <4> QED  BY <1>2, <3>1, <4>3, <4>4 DEF ResearchOf
    <3>2. CASE "research" \in contract /\ "research" \notin done
      <4>1. m = "research" /\ p.status["research"] # "completed"
        BY <1>3, <1>4, <1>5, <2>1, <3>2 DEF ResearchOf
      <4>2. q.current = "research" /\ q.status["research"] = "active"
        BY <2>2, <4>1
      <4> HIDE DEF q
      <4> QED  BY <1>2, <3>2, <4>2 DEF ResearchOf
    <3> HIDE DEF q
    <3> QED  BY <3>1, <3>2 DEF ResearchOf
  <2> HIDE DEF q
  <2>4. q.current \in Phases \ {"completed"} /\ q.current # None
    BY <2>1, <2>2, StepFacts, PhaseFacts
  <2>5. /\ FromPlan(q)
        /\ phase' \in Phases \ {"completed"}
        /\ pc' \in {"idle", "asking"}
        /\ iteration' \in 0..MaxIterations
        /\ pc' = "asking" => phase' = q.current
    <3>1. iteration \in 0..MaxIterations
      BY DEF WorkInv
    <3>2. CASE q.current = "synthesis"
      <4>1. plan' = q /\ pc' = "idle" /\ phase' = "synthesis" /\ iteration' = iteration
        BY <1>9, <3>2 DEF Raise
      <4> QED  BY <2>2, <3>1, <4>1, SamePlan, PhaseFacts
    <3>3. CASE q.current # "synthesis"
      <4>1. NextIteration(q, q.current)
        BY <1>9, <3>3
      <4> QED  BY <2>2, <2>4, <3>1, <4>1, NextIterationKeeps
    <3> QED  BY <3>2, <3>3
  <2>6. finished' = finished
    BY <1>9
  <2> QED  BY <1>1, <1>2, <2>3, <2>5, <2>6, RunningKeepsWork
<1> QED  BY <1>7, <1>8, <1>9 DEF Answer

(* A tool that adds to the work, with the plan advanced to match, keeps    *)
(* them agreed.                                                            *)
LEMMA ToolKeepsWork ==
    ASSUME WorkInv, pc = "tool", NEW p, WellFormed(p), ResearchOf(p, done'),
           NEW ph \in Phases \ {"completed"}, ToolDone(p, ph),
           ph \in {p.current, "debugging"} \/ p.current = None,
           done' \subseteq gained', gained' \subseteq Requirements,
           finished' = finished, contract' = contract
    PROVE  WorkInv'
<1>1. /\ Running /\ batch > 0
      /\ iteration \in 0..MaxIterations /\ used \in 0..MaxToolCalls /\ batch \in 0..MaxBatch
  BY DEF Running, WorkInv
<1>2. /\ FromPlan(p)
      /\ phase' \in Phases \ {"completed"}
      /\ pc' \in {"idle", "asking", "tool"}
      /\ iteration' \in 0..MaxIterations
      /\ used' \in 0..MaxToolCalls
      /\ batch' \in 0..MaxBatch
      /\ pc' = "tool" => batch' > 0
      /\ pc' = "asking" /\ p.current # None => phase' = p.current
  BY <1>1, ToolDoneKeeps
<1> QED  BY <1>1, <1>2, RunningKeepsWork

(* Every outcome of a tool keeps plan and work agreed.                     *)
LEMMA ToolsKeepWork ==
    ASSUME WorkInv,
           \/ \E n \in 1..MaxBatch : CallTools(n)
           \/ ToolFails \/ ToolSucceeds \/ ResearchSatisfies \/ ResearchFallsShort
    PROVE  WorkInv'
<1>1. ASSUME NEW n \in 1..MaxBatch, CallTools(n) PROVE WorkInv'
  <2>1. /\ Running /\ batch' = n /\ StartTool(plan)
        /\ UNCHANGED <<finished, contract, done, gained, iteration>>
    BY <1>1 DEF CallTools, Running, taskVars
  <2>2. /\ FromPlan(plan)
        /\ phase' \in Phases \ {"completed"}
        /\ pc' \in {"idle", "tool"}
        /\ used' \in 0..MaxToolCalls
    BY <2>1, RunningPlan, StartToolKeeps DEF WorkInv
  <2>3. batch' \in 0..MaxBatch /\ batch' > 0
    BY <2>1, RunAssumption
  <2>4. /\ ResearchOf(plan, done') /\ done' \subseteq gained' /\ gained' \subseteq Requirements
        /\ iteration' \in 0..MaxIterations
    BY <2>1, RunningPlan DEF WorkInv
  <2> QED  BY <2>1, <2>2, <2>3, <2>4, RunningKeepsWork
<1>2. CASE ToolFails
  <2>1. /\ pc = "tool" /\ Running /\ ToolDone(plan, "debugging")
        /\ UNCHANGED <<finished, contract, done, gained>>
    BY <1>2 DEF ToolFails, Running, taskVars
  <2>2. /\ ResearchOf(plan, done') /\ done' \subseteq gained' /\ gained' \subseteq Requirements
    BY <2>1, RunningPlan DEF WorkInv
  <2>3. "debugging" \in Phases \ {"completed"}
    BY PhaseFacts
  <2> QED  BY <2>1, <2>2, <2>3, RunningPlan, ToolKeepsWork
<1>3. CASE ToolSucceeds
  <2>1. /\ pc = "tool" /\ Running /\ ToolDone(plan, StepPhase(plan))
        /\ UNCHANGED <<finished, contract, done, gained>>
    BY <1>3 DEF ToolSucceeds, Running, taskVars
  <2>2. /\ ResearchOf(plan, done') /\ done' \subseteq gained' /\ gained' \subseteq Requirements
    BY <2>1, RunningPlan DEF WorkInv
  <2> QED  BY <2>1, <2>2, RunningPlan, ToolKeepsWork
<1>4. CASE ResearchFallsShort
  <2>1. /\ pc = "tool" /\ Running /\ ToolDone(plan, StepPhase(plan))
        /\ UNCHANGED <<finished, contract, done, gained>>
    BY <1>4 DEF ResearchFallsShort, Running, taskVars
  <2>2. /\ ResearchOf(plan, done') /\ done' \subseteq gained' /\ gained' \subseteq Requirements
    BY <2>1, RunningPlan DEF WorkInv
  <2> QED  BY <2>1, <2>2, RunningPlan, ToolKeepsWork
<1>5. CASE ResearchSatisfies
  <2> DEFINE p == Advanced(plan)
             ph == StepPhase(IF p.current = None THEN plan ELSE p)
  <2>1. /\ pc = "tool" /\ Running /\ "research" \in contract
        /\ ToolDone(p, ph)
        /\ done' = done \cup {"research"}
        /\ gained' = gained \cup {"research"}
        /\ UNCHANGED <<finished, contract>>
    BY <1>5 DEF ResearchSatisfies, Running, taskVars
  <2>2. /\ WellFormed(p)
        /\ \A s \in Steps : plan.status[s] = "completed" \/ plan.current = s =>
              p.status[s] = "completed" /\ p.current # s
    BY <2>1, RunningPlan, AdvancedKeeps
  <2>3. "research" \in Requirements /\ "research" \in Steps
    BY DEF Requirements, Steps
  <2>4. plan.status["research"] = "completed" \/ plan.current = "research"
    BY <2>1, RunningPlan DEF ResearchOf
  <2> HIDE DEF p
  <2>5. ResearchOf(p, done')
    BY <2>1, <2>2, <2>3, <2>4 DEF ResearchOf
  <2>6. p.current \in Steps \cup {None}
    BY <2>2, PlanFields DEF WellFormed
  <2>7. /\ ph \in Phases \ {"completed"}
        /\ p.current # None => ph = p.current
    <3>1. CASE p.current = None
      BY <2>1, <3>1, RunningPlan
    <3>2. CASE p.current # None
      BY <2>6, <3>2, PhaseFacts DEF StepPhase
    <3> QED  BY <3>1, <3>2
  <2>8. done' \subseteq gained' /\ gained' \subseteq Requirements
    BY <2>1, <2>3 DEF WorkInv
  <2> HIDE DEF ph
  <2>9. finished' = finished /\ contract' = contract
    BY <2>1
  <2> QED  BY <2>1, <2>2, <2>5, <2>7, <2>8, <2>9, ToolKeepsWork
<1> QED  BY <1>1, <1>2, <1>3, <1>4, <1>5

(* A run that begins has a new plan, or goes on with the one there is.     *)
LEMMA EnterLoopKeeps ==
    ASSUME WorkInv, NEW p, WellFormed(p), NEW ph \in Phases \ {"completed"},
           EnterLoop(p, ph), p.current # None => ph = p.current,
           finished' = FALSE, contract' = contract, ResearchOf(p, done'),
           done' \subseteq gained', gained' \subseteq Requirements
    PROVE  WorkInv'
<1>1. /\ plan' = p /\ pc' = "asking" /\ phase' = AskingPhase(p, ph)
      /\ iteration' = 1 /\ batch' = 0 /\ used' = 0
  BY DEF EnterLoop
<1>2. p.current \in Steps \cup {None}
  BY PlanFields DEF WellFormed
<1>3. phase' \in Phases \ {"completed"} /\ (p.current # None => phase' = p.current)
  BY <1>1, <1>2, PhaseFacts DEF AskingPhase
<1>4. iteration' \in 0..MaxIterations /\ batch' \in 0..MaxBatch /\ used' \in 0..MaxToolCalls
  BY <1>1, RunAssumption
<1>5. ResearchOf(plan, done)'
  BY <1>1 DEF ResearchOf
<1>6. plan' # NoPlan
  BY <1>1 DEF WellFormed, NoPlan
<1>7. WellFormed(plan)'
  BY <1>1 DEF WellFormed
<1> QED  BY <1>1, <1>3, <1>4, <1>5, <1>6, <1>7 DEF WorkInv, Running

(* A new attempt starts with no work and a plan that asks for all of it.   *)
LEMMA StartAttemptKeepsWork ==
    ASSUME WorkInv, NEW q, StartAttempt(q), contract' = contract
    PROVE  WorkInv'
<1> DEFINE p == BuildPlan(contract)
<1>1. contract \subseteq Requirements
  BY DEF WorkInv
<1>2. /\ WellFormed(p)
      /\ p.current \in Steps
      /\ "research" \in contract =>
            p.current = "research" /\ p.status["research"] = "active"
  BY <1>1, BuildPlanWorks
<1>3. /\ EnterLoop(p, p.current)
      /\ finished' = FALSE /\ done' = {} /\ gained' = {}
  BY DEF StartAttempt
<1> HIDE DEF p
<1>4. ResearchOf(p, done')
  BY <1>2, <1>3 DEF ResearchOf
<1>5. p.current \in Phases \ {"completed"}
  BY <1>2, PhaseFacts
<1>6. done' \subseteq gained' /\ gained' \subseteq Requirements /\ finished' = FALSE
  BY <1>3
<1> QED  BY <1>2, <1>3, <1>4, <1>5, <1>6, EnterLoopKeeps

(* A resumed run goes on with the plan and the work it had.                *)
LEMMA ResumeKeepsWork == WorkInv /\ BeginResume => WorkInv'
<1> SUFFICES ASSUME WorkInv, BeginResume PROVE WorkInv'
  OBVIOUS
<1>1. /\ UNCHANGED <<finished, done, gained, contract>>
      /\ pc = "launched"
  BY DEF BeginResume, taskVars
<1>2. CASE Stop(plan, phase) /\ UNCHANGED loopVars
  <2>1. plan' = plan /\ phase' = phase /\ pc' = "idle"
        /\ UNCHANGED <<iteration, batch, used>>
    BY <1>2 DEF Stop, loopVars
  <2> QED  BY <1>1, <2>1 DEF WorkInv, Running, ResearchOf, WellFormed
<1>3. CASE Raise(plan) /\ UNCHANGED <<phase, loopVars>>
  <2>1. plan' = plan /\ phase' = phase /\ pc' = "idle"
        /\ UNCHANGED <<iteration, batch, used>>
    BY <1>3 DEF Raise, loopVars
  <2> QED  BY <1>1, <2>1 DEF WorkInv, Running, ResearchOf, WellFormed
<1>4. CASE /\ Resumable
           /\ EnterLoop(plan, IF plan.current = None THEN phase ELSE plan.current)
  <2> DEFINE ph == IF plan.current = None THEN phase ELSE plan.current
  <2>1. ~finished /\ plan # NoPlan
    BY <1>4 DEF Resumable
  <2>2. WellFormed(plan) /\ ResearchOf(plan, done')
    BY <1>1, <2>1 DEF WorkInv, ResearchOf
  <2>3. plan.current \in Steps \cup {None}
    BY <2>2, PlanFields DEF WellFormed
  <2>4. phase \in Phases \ {"completed"}
    BY <2>1 DEF WorkInv
  <2>5. ph \in Phases \ {"completed"} /\ (plan.current # None => ph = plan.current)
    BY <2>3, <2>4, PhaseFacts
  <2>6. finished' = FALSE /\ contract' = contract
    BY <1>1, <2>1 DEF WorkInv
  <2>7. done' \subseteq gained' /\ gained' \subseteq Requirements
    BY <1>1 DEF WorkInv
  <2>8. EnterLoop(plan, ph)
    BY <1>4
  <2> HIDE DEF ph
  <2> QED  BY <2>2, <2>5, <2>6, <2>7, <2>8, EnterLoopKeeps
<1> QED  BY <1>2, <1>3, <1>4 DEF BeginResume

(* Every step of the agent preserves the invariant.                        *)
LEMMA WorkStep == WorkInv /\ [Next]_vars => WorkInv'
<1> SUFFICES ASSUME WorkInv, [Next]_vars PROVE WorkInv'
  OBVIOUS
<1>1. ASSUME NEW kind \in {"run", "continue"}, NEW c \in Contracts, PrepareTask(kind, c)
      PROVE  WorkInv'
  <2>1. /\ pc' = "launched" /\ plan' = NoPlan /\ contract' = c /\ done' = {}
        /\ UNCHANGED <<phase, finished, gained, iteration, batch, used>>
    BY <1>1 DEF PrepareTask, Launch, loopVars
  <2>2. c \subseteq Requirements
    BY RunAssumption
  <2> QED  BY <2>1, <2>2 DEF WorkInv, Running
<1>2. CASE AskAgain \/ Resume
  <2>1. /\ pc' = "launched"
        /\ UNCHANGED <<plan, contract, done, phase, finished, gained, iteration, batch, used>>
    BY <1>2 DEF AskAgain, Resume, Launch, taskVars, workVars, loopVars
  <2> QED  BY <2>1 DEF WorkInv, Running, ResearchOf, WellFormed
<1>3. CASE Interrupt \/ UNCHANGED vars
  <2>1. /\ pc' = "idle" \/ pc' = pc
        /\ UNCHANGED <<plan, contract, done, phase, finished, gained, iteration, batch, used>>
    BY <1>3 DEF Interrupt, vars, taskVars, workVars, loopVars
  <2> QED  BY <2>1 DEF WorkInv, Running, ResearchOf, WellFormed
<1>4. CASE BeginTask \/ BeginRegenerate
  BY <1>4, StartAttemptKeepsWork DEF BeginTask, BeginRegenerate
<1>5. CASE EmptyAnswer \/ Draft
  BY <1>5, AskedKeepsWork DEF EmptyAnswer, Draft, taskVars
<1>6. CASE RefuseTools
  <2>1. /\ plan' = plan /\ phase' = phase /\ pc' = "idle"
        /\ UNCHANGED <<contract, done, finished, gained, iteration, batch, used>>
    BY <1>6 DEF RefuseTools, Stop, taskVars, loopVars
  <2> QED  BY <2>1 DEF WorkInv, Running, ResearchOf, WellFormed
<1> QED
  BY <1>1, <1>2, <1>3, <1>4, <1>5, <1>6, AnswerKeepsWork, ResumeKeepsWork, ToolsKeepWork
     DEF Next, LoopStep, UserStep

(* The invariant holds in every reachable state.                           *)
LEMMA WorkInvariant == Spec => []WorkInv
BY WorkInit, WorkStep, PTL DEF Spec

(* For every contract: a run that is accepted as finished has met each of  *)
(* its requirements in this attempt.                                       *)
THEOREM FinishedRunsAreEarned == Spec => []AnswerIsEarned
<1>1. WorkInv => AnswerIsEarned
  BY DEF WorkInv, AnswerIsEarned
<1> QED  BY <1>1, WorkInvariant, PTL

(* For every contract and every number of revisions: the plan says that    *)
(* the research is completed exactly if the progress does.                 *)
THEOREM PlanAndProgressAgree == Spec => []PlanAgreesWithProgress
<1>1. WorkInv => PlanAgreesWithProgress
  BY DEF WorkInv, PlanAgreesWithProgress, ResearchOf
<1> QED  BY <1>1, WorkInvariant, PTL

(* Type correctness.                                                       *)
THEOREM Typing == Spec => []TypeOK
<1> DEFINE Rest ==
        /\ contract \in Contracts \cup {{}}
        /\ anchor \in Anchors
        /\ planFor \in Questions \cup {NoQuestion}
        /\ job \in Jobs
        /\ asked \in 0..MaxQuestions
        /\ attempts \in 0..MaxAttempts
        /\ prepared \in BOOLEAN
        /\ answered \in BOOLEAN
        /\ revised \in BOOLEAN
        /\ looping \in BOOLEAN
        /\ crashed \in BOOLEAN
<1>1. Init => Rest
  <2> SUFFICES ASSUME Init PROVE Rest
    OBVIOUS
  <2>1. /\ contract = {} /\ anchor = NoAnchor /\ planFor = NoQuestion /\ asked = 0 /\ attempts = 0
        /\ prepared = FALSE /\ answered = FALSE /\ revised = FALSE /\ looping = FALSE
        /\ crashed = FALSE
    BY DEF Init
  <2>2. job \in Jobs
    BY DEF Init, Jobs
  <2>3. 0 \in 0..MaxQuestions /\ 0 \in 0..MaxAttempts
    BY RunAssumption
  <2>4. NoAnchor \in Anchors
    BY DEF NoAnchor, Anchors, NoQuestion
  <2> QED  BY <2>1, <2>2, <2>3, <2>4
<1>2. Rest /\ PagesInv /\ [Next]_vars => Rest'
  <2> SUFFICES ASSUME Rest, PagesInv, [Next]_vars PROVE Rest'
    OBVIOUS
  <2>1. question \in Questions \cup {NoQuestion} /\ question \in Nat
    <3>1. question \in Nat /\ question \in 0..MaxQuestions
      BY RunAssumption DEF PagesInv
    <3>2. question = 0 \/ question \in 1..MaxQuestions
      BY <3>1, RunAssumption
    <3> QED  BY <3>1, <3>2 DEF Questions, NoQuestion
  <2>2. ASSUME NEW kind \in {"run", "continue"}, NEW c \in Contracts, PrepareTask(kind, c)
        PROVE  Rest'
    <3>1. /\ asked' = asked + 1 /\ asked < MaxQuestions
          /\ attempts' = attempts + 1 /\ attempts < MaxAttempts
          /\ prepared' = TRUE /\ planFor' = asked' /\ contract' = c /\ anchor' = NoAnchor
          /\ job' = kind /\ crashed' = FALSE
          /\ UNCHANGED <<answered, revised, looping>>
      BY <2>2 DEF PrepareTask, Launch, talkVars, loopVars
    <3>2. asked' \in 0..MaxQuestions /\ attempts' \in 0..MaxAttempts /\ asked' \in Questions
      BY <3>1, RunAssumption DEF Questions
    <3>3. NoAnchor \in Anchors /\ kind \in Jobs
      BY DEF NoAnchor, Anchors, NoQuestion, Jobs
    <3> QED  BY <3>1, <3>2, <3>3
  <2>3. CASE AskAgain \/ Resume
    <3>1. /\ attempts' = attempts + 1 /\ attempts < MaxAttempts
          /\ job' \in {"regenerate", "resume"} /\ crashed' = FALSE
          /\ UNCHANGED <<asked, prepared, planFor, contract, anchor, answered, revised, looping>>
      BY <2>3 DEF AskAgain, Resume, Launch, taskVars, talkVars, loopVars
    <3>2. attempts' \in 0..MaxAttempts /\ job' \in Jobs
      BY <3>1, RunAssumption DEF Jobs
    <3> QED  BY <3>1, <3>2
  <2>4. ASSUME NEW q \in Questions \cup {NoQuestion}, StartAttempt(q), answered' = FALSE,
               UNCHANGED <<contract, countVars, crashed>>
        PROVE  Rest'
    <3>1. /\ anchor' \in {anchor, MintedAnchor(q)}
          /\ planFor' \in {planFor, q}
          /\ prepared' = TRUE /\ revised' = FALSE /\ looping' = FALSE
      BY <2>4 DEF StartAttempt, EnterLoop
    <3>2. q \in Nat /\ planFor \in Nat /\ attempts \in Nat
      BY RunAssumption DEF Questions, NoQuestion
    <3>3. MintedAnchor(q) \in Anchors
      BY <3>2 DEF MintedAnchor, Anchors
    <3>4. UNCHANGED <<contract, asked, attempts, job, crashed, answered>> \/ answered' = FALSE
      BY <2>4
    <3> QED  BY <2>4, <3>1, <3>3 DEF countVars
  <2>5. asked \in Questions \cup {NoQuestion}
    BY RunAssumption DEF Questions, NoQuestion
  <2>6. CASE BeginTask \/ BeginRegenerate
    BY <2>1, <2>4, <2>5, <2>6 DEF BeginTask, BeginRegenerate
  <2>7. CASE BeginResume
    <3>1. /\ UNCHANGED <<prepared, planFor, contract, anchor, answered, asked, attempts, job>>
          /\ crashed' \in {crashed, TRUE}
          /\ revised' \in {revised, FALSE} /\ looping' \in {looping, FALSE}
      BY <2>7 DEF BeginResume, taskVars, talkVars, countVars, loopVars, EnterLoop, Raise
    <3> QED  BY <3>1
  <2>8. CASE EmptyAnswer \/ Draft \/ RefuseTools \/ \E n \in 1..MaxBatch : CallTools(n)
    <3>1. /\ UNCHANGED <<prepared, planFor, contract, anchor, asked, attempts, job, looping, crashed>>
          /\ answered' \in {answered, TRUE} /\ revised' \in {revised, TRUE}
      BY <2>8 DEF EmptyAnswer, Draft, RefuseTools, CallTools, taskVars, talkVars, countVars, loopVars
    <3> QED  BY <3>1
  <2>9. CASE Answer
    <3>1. /\ UNCHANGED <<planFor, contract, anchor, asked, attempts, job, looping, revised>>
          /\ answered' \in {answered, TRUE} /\ prepared' \in {prepared, FALSE}
          /\ crashed' \in {crashed, TRUE}
      BY <2>9 DEF Answer, Raise, countVars
    <3> QED  BY <3>1
  <2>10. CASE ToolFails \/ ToolSucceeds \/ ResearchSatisfies \/ ResearchFallsShort
    <3>1. /\ UNCHANGED <<prepared, planFor, contract, anchor, asked, attempts, job, answered, revised, crashed>>
          /\ looping' \in {looping, TRUE, FALSE}
      BY <2>10 DEF ToolFails, ToolSucceeds, ResearchSatisfies, ResearchFallsShort,
                   taskVars, talkVars, countVars
    <3> QED  BY <3>1
  <2>11. CASE Interrupt \/ UNCHANGED vars
    <3>1. UNCHANGED <<prepared, planFor, contract, anchor, asked, attempts, job, answered, revised, looping, crashed>>
      BY <2>11 DEF Interrupt, vars, taskVars, talkVars, countVars, loopVars
    <3> QED  BY <3>1
  <2> QED  BY <2>2, <2>3, <2>6, <2>7, <2>8, <2>9, <2>10, <2>11 DEF Next, LoopStep, UserStep
<1>3. Rest /\ PagesInv /\ WorkInv => TypeOK
  <2> SUFFICES ASSUME Rest, PagesInv, WorkInv PROVE TypeOK
    OBVIOUS
  <2>1. question \in Questions \cup {NoQuestion} /\ evidence \subseteq Questions
        /\ baseline \subseteq Questions
    <3>1. question \in 0..MaxQuestions
      BY RunAssumption DEF PagesInv
    <3>2. question = 0 \/ question \in 1..MaxQuestions
      BY <3>1, RunAssumption
    <3>3. 1..question \subseteq 1..MaxQuestions
      BY <3>1, RunAssumption
    <3>4. evidence \subseteq 1..question /\ baseline \subseteq evidence
      BY DEF PagesInv
    <3> QED  BY <3>2, <3>3, <3>4 DEF Questions, NoQuestion
  <2>2. NoPlan \in Plans
    <3>1. << >> \in Seq(Steps)
      OBVIOUS
    <3>2. [s \in Steps |-> "absent"] \in [Steps -> StepStatus]
      BY DEF StepStatus
    <3> QED  BY <3>1, <3>2 DEF NoPlan, Plans
  <2>3. plan \in Plans
    BY <2>2 DEF WorkInv, WellFormed
  <2> QED  BY <2>1, <2>3 DEF TypeOK, WorkInv
<1> HIDE DEF Rest
<1> QED  BY <1>1, <1>2, <1>3, PagesInvariant, WorkInvariant, PTL DEF Spec

---------------------------------------------------------------------------
(* The order of the plan.                                                  *)

(* There is always a place for every step, and until the run is finished   *)
(* the plan is in order: what _validate_plan demands of a plan that was    *)
(* just revised is true all the time, but for a step that failed.          *)
PlanInOrder == plan # NoPlan => Placed(plan) /\ (finished \/ InStep(plan))

(* What was done under the plan at hand is done under q.                   *)
KeptBy(q) == \A s \in Steps \ {"synthesis"} :
                plan.status[s] = "completed" => q.status[s] = "completed"

(* What the shared tails of the loop's steps do to the plan: nothing, or   *)
(* its current step fails.                                                 *)
LEMMA PlanAfter ==
    /\ \A p, ph : NextIteration(p, ph) => plan' \in {p, CurrentFailed(p)}
    /\ \A p : StartTool(p) => plan' \in {p, CurrentFailed(p)}
    /\ \A p, ph : ToolDone(p, ph) => plan' \in {p, CurrentFailed(p)}
<1>1. \A p, ph : NextIteration(p, ph) => plan' \in {p, CurrentFailed(p)}
  BY DEF NextIteration, Block, Stop
<1>2. \A p : StartTool(p) => plan' \in {p, CurrentFailed(p)}
  BY DEF StartTool, Block, Stop
<1> QED  BY <1>1, <1>2 DEF ToolDone

(* To block a run with an orderly plan undoes nothing.                     *)
LEMMA OrderlyAfter ==
    ASSUME NEW p, Orderly(p), KeptBy(p), plan' \in {p, CurrentFailed(p)}
    PROVE  Orderly(plan') /\ KeptBy(plan')
<1>1. WellFormed(p) /\ p.current \in Steps \cup {None}
  BY PlanFields DEF Orderly, Placed, WellFormed
<1>2. Orderly(CurrentFailed(p))
  BY FailedIsOrderly
<1>3. p.current # None => p.status[p.current] # "completed"
  BY DEF Orderly, InStep
<1>4. \A s \in Steps : p.status[s] = "completed" => CurrentFailed(p).status[s] = "completed"
  <2>1. CASE p.current = None
    BY <2>1 DEF CurrentFailed
  <2>2. CASE p.current # None
    BY <1>1, <1>3, <2>2, CurrentFailedKeeps
  <2> QED  BY <2>1, <2>2
<1>5. KeptBy(CurrentFailed(p))
  BY <1>4 DEF KeptBy
<1> QED  BY <1>2, <1>5

(* A step that is over makes way for the first one that is pending.        *)
LEMMA AdvancedIsOrderly ==
    ASSUME NEW p, Orderly(p)
    PROVE  Orderly(Advanced(p))
<1> DEFINE q == IF p.current = None THEN p ELSE Marked(p, p.current, "completed")
<1>1. /\ WellFormed(p) /\ p \in Plans /\ Distinct(p) /\ Placed(p)
      /\ p.current \in Steps \cup {None}
      /\ DOMAIN p.order = 1..Len(p.order) /\ Len(p.order) \in Nat
      /\ \A i \in DOMAIN p.order : p.order[i] \in Steps
  BY PlanFields DEF Orderly, Placed, WellFormed
<1>2. CASE p.current = None
  <2>1. \A s \in Steps : p.status[s] # "active" /\ p.status[s] # "pending"
    BY <1>2, StepFacts DEF Orderly, InStep
  <2>2. Orderly(ActivatedNext(p))
    BY <1>1, <2>1, NextIsOrderly
  <2> QED  BY <1>2, <2>2 DEF Advanced
<1>3. CASE p.current # None
  <2>1. /\ "completed" \in StepStatus \ {"absent"}
        /\ p.current \in Steps /\ p.status[p.current] # "absent"
    BY <1>1, <1>3 DEF StepStatus, WellFormed
  <2>2. /\ q.order = p.order
        /\ q.status[p.current] = "completed"
        /\ \A t \in Steps \ {p.current} : q.status[t] = p.status[t]
    BY <1>1, <1>3, <2>1, MarkedKeeps
  <2>3. Placed(q)
    BY <1>1, <1>3, <2>1, PlacedMarked
  <2> HIDE DEF q
  <2>4. \A s \in Steps : q.status[s] # "active"
    BY <2>2 DEF Orderly, InStep
  <2>5. PICK k \in DOMAIN p.order : p.order[k] = p.current
    BY <1>1, <2>1 DEF WellFormed
  <2>6. ASSUME NEW i \in DOMAIN q.order, NEW j \in DOMAIN q.order,
               q.status[q.order[i]] = "pending", j > i
        PROVE  q.status[q.order[j]] \in {"pending", "completed"}
    <3>1. i \in DOMAIN p.order /\ j \in DOMAIN p.order /\ i \in Nat /\ j \in Nat /\ k \in Nat
      BY <1>1, <2>2, <2>5, <2>6
    <3>2. p.order[i] # p.current /\ p.status[p.order[i]] = "pending"
      BY <1>1, <2>2, <2>6, <3>1
    <3>3. ~(i < k) /\ i # k
      BY <2>5, <3>1, <3>2 DEF Orderly, InStep
    <3>4. j > k
      BY <2>6, <3>1, <3>3
    <3>5. p.order[j] # p.current
      BY <1>1, <2>5, <3>1, <3>4 DEF Distinct
    <3>6. p.status[p.order[j]] \in {"pending", "completed"}
      BY <2>5, <3>1, <3>4 DEF Orderly, InStep
    <3> QED  BY <1>1, <2>2, <3>1, <3>5, <3>6
  <2>7. Orderly(ActivatedNext(q))
    BY <2>3, <2>4, <2>6, NextIsOrderly
  <2> QED  BY <1>3, <2>7 DEF Advanced, q
<1> QED  BY <1>2, <1>3

(* Beginning the synthesis leaves every step in its place, and what was    *)
(* done stays done.                                                        *)
LEMMA SynthesizingIsPlaced ==
    ASSUME NEW p, Placed(p)
    PROVE  /\ Placed(Synthesizing(p))
           /\ \A s \in Steps \ {"synthesis"} :
                 p.status[s] = "completed" => Synthesizing(p).status[s] = "completed"
           /\ p.current = None => \A s \in Steps \ {"synthesis"} :
                 Synthesizing(p).status[s] = p.status[s]
           /\ Synthesizing(p).status["synthesis"] = "active"
           /\ Synthesizing(p).order[Len(p.order)] = "synthesis"
           /\ Synthesizing(p).order = p.order
<1> DEFINE q == IF p.current = "execution" THEN Marked(p, "execution", "completed") ELSE p
           r == Marked(q, "synthesis", "active")
           w == Synthesizing(p)
<1>1. "completed" \in StepStatus \ {"absent"} /\ "active" \in StepStatus \ {"absent"}
  BY DEF StepStatus
<1>2. WellFormed(p)
  BY DEF Placed
<1>3. /\ Placed(q) /\ q.order = p.order
      /\ \A s \in Steps : p.status[s] = "completed" => q.status[s] = "completed"
      /\ p.current = None => q = p
  <2>1. CASE p.current = "execution"
    <3>1. "execution" \in Steps /\ p.status["execution"] # "absent" /\ p.current # None
      BY <1>2, <2>1, StepFacts DEF WellFormed, None
    <3> QED  BY <1>1, <1>2, <2>1, <3>1, MarkedKeeps, PlacedMarked
  <2>2. CASE p.current # "execution"
    BY <2>2
  <2> QED  BY <2>1, <2>2
<1> HIDE DEF q
<1>4. /\ WellFormed(q) /\ q.status["synthesis"] # "absent" /\ "synthesis" \in Steps
  BY <1>3, StepFacts DEF Placed, WellFormed
<1>5. /\ Placed(r) /\ r.order = q.order
      /\ r.status["synthesis"] = "active"
      /\ \A s \in Steps \ {"synthesis"} : r.status[s] = q.status[s]
  BY <1>1, <1>3, <1>4, MarkedKeeps, PlacedMarked
<1>6. w = [r EXCEPT !.current = "synthesis"]
  BY DEF Synthesizing, q
<1> HIDE DEF r
<1>7. r \in Plans
  BY <1>5 DEF Placed, WellFormed
<1>8. w.order = r.order /\ w.status = r.status
  BY <1>6, <1>7 DEF Plans
<1>9. WellFormed(w)
  BY <1>2, SynthesizingKeeps
<1> HIDE DEF w
<1>10. Placed(w)
  BY <1>5, <1>8, <1>9 DEF Placed, Distinct
<1>11. p.order[Len(p.order)] = "synthesis"
  BY <1>2 DEF WellFormed
<1> QED  BY <1>3, <1>5, <1>8, <1>10, <1>11 DEF w

(* The synthesis of a plan that has nothing left to do is in order too.    *)
LEMMA SynthesisAtLast ==
    ASSUME NEW p, Orderly(p), p.current = None
    PROVE  Orderly(Synthesizing(p))
<1> DEFINE w == Synthesizing(p)
<1>1. /\ Placed(p) /\ WellFormed(p) /\ p \in Plans
      /\ DOMAIN p.order = 1..Len(p.order) /\ Len(p.order) \in Nat
      /\ \A i \in DOMAIN p.order : p.order[i] \in Steps
  BY PlanFields DEF Orderly, Placed, WellFormed
<1>2. /\ Placed(w) /\ w.order = p.order /\ w.current = "synthesis"
      /\ w.order[Len(p.order)] = "synthesis" /\ w.status["synthesis"] = "active"
      /\ \A s \in Steps \ {"synthesis"} : w.status[s] = p.status[s]
  BY <1>1, SynthesizingIsPlaced, SynthesizingKeeps
<1> HIDE DEF w
<1>3. \A s \in Steps : p.status[s] # "active" /\ p.status[s] # "pending"
  BY StepFacts DEF Orderly, InStep
<1>4. ASSUME NEW i \in DOMAIN w.order, NEW j \in DOMAIN w.order, w.order[i] = w.current
      PROVE  /\ j < i => w.status[w.order[j]] # "pending"
             /\ j > i => w.status[w.order[j]] \in {"pending", "completed"}
  <2>1. i = Len(p.order) /\ j \in 1..Len(p.order)
    <3>1. Len(p.order) \in DOMAIN w.order /\ w.order[i] = w.order[Len(p.order)]
      BY <1>1, <1>2, <1>4
    <3> QED  BY <1>1, <1>2, <1>4, <3>1 DEF Placed, Distinct
  <2>2. ASSUME j < i PROVE w.status[w.order[j]] # "pending"
    <3>1. w.order[j] # "synthesis" /\ w.order[j] \in Steps
      BY <1>1, <1>2, <1>4, <2>1, <2>2 DEF Placed, Distinct
    <3> QED  BY <1>2, <1>3, <3>1
  <2> QED  BY <1>1, <2>1, <2>2
<1>5. InStep(w)
  BY <1>2, <1>3, <1>4, StepFacts DEF InStep, None
<1> QED  BY <1>2, <1>5 DEF Orderly, w

(* From the phase of a step, or from debugging, any step can be entered.   *)
LEMMA StepsMove ==
    \A s \in Steps \cup {"debugging"}, t \in Steps : CanMove(s, t)
<1>1. Steps \subseteq Phases /\ WorkPhases \subseteq Phases
  BY DEF Steps, Phases, WorkPhases, Requirements
<1>2. \A s \in Steps \cup {"debugging"} : s \in WorkPhases \/ s = "synthesis"
  BY DEF Steps, WorkPhases
<1>3. \A t \in Steps : t \in WorkPhases \cup {"synthesis"}
  BY DEF Steps, WorkPhases
<1>4. \A s \in WorkPhases : WorkPhases \cup {"synthesis"} \subseteq Allowed[s]
  BY <1>1 DEF Allowed, WorkPhases, Requirements
<1>5. WorkPhases \cup {"synthesis"} \subseteq Allowed["synthesis"]
  BY StepFacts, <1>1 DEF Allowed, WorkPhases, Requirements
<1> QED  BY <1>2, <1>3, <1>4, <1>5 DEF CanMove

(* What the model answers and the tools return keeps the plan in order and *)
(* undoes nothing.                                                         *)
LEMMA AnswerKeepsOrder ==
    ASSUME WorkInv, PlanInOrder, Answer
    PROVE  Placed(plan') /\ (finished' \/ InStep(plan')) /\ KeptBy(plan')
<1> DEFINE p == Synthesizing(plan)
           m == Missing(contract, done)
           q == Replanned(p, m)
<1>1. /\ pc = "asking" /\ Running
      /\ plan # NoPlan /\ ~finished
      /\ Orderly(plan) /\ Placed(plan)
  BY DEF Answer, Running, WorkInv, PlanInOrder, Orderly
<1>2. /\ Placed(p) /\ WellFormed(p) /\ KeptBy(p)
  BY <1>1, SynthesizingIsPlaced DEF KeptBy, Placed
<1>3. CASE ~CanMove(phase, "synthesis") /\ Raise(p)
  <2>1. plan.current = None
    <3>1. plan.current \in Steps \cup {None}
      BY <1>1, RunningPlan
    <3>2. plan.current # None => phase = plan.current
      BY <1>1 DEF WorkInv
    <3> QED  BY <1>3, <3>1, <3>2, StepsMove, StepFacts
  <2>2. Orderly(p)
    BY <1>1, <2>1, SynthesisAtLast
  <2>3. plan' = p
    BY <1>3 DEF Raise
  <2> QED  BY <1>2, <2>2, <2>3 DEF Orderly
<1>4. CASE Stop(Marked(p, "synthesis", "completed"), "completed") /\ finished' = TRUE
  <2>1. plan' = Marked(p, "synthesis", "completed")
    BY <1>4 DEF Stop
  <2>2. "completed" \in StepStatus \ {"absent"} /\ "synthesis" \in Steps
        /\ p.status["synthesis"] # "absent"
    BY <1>2, StepFacts DEF StepStatus, WellFormed
  <2> HIDE DEF p
  <2>3. Placed(plan') /\ \A s \in Steps \ {"synthesis"} : plan'.status[s] = p.status[s]
    BY <1>2, <2>1, <2>2, MarkedKeeps, PlacedMarked
  <2> QED  BY <1>2, <1>4, <2>3 DEF KeptBy
<1>5. CASE /\ ~GateAllows(contract, done)
           /\ IF q.current = "synthesis"
              THEN Raise(q) /\ phase' = "synthesis" /\ UNCHANGED iteration
              ELSE NextIteration(q, q.current) /\ UNCHANGED crashed
  <2>1. m \in Requirements
    BY <1>5 DEF GateAllows, Missing, Requirements, WorkInv
  <2>2. plan' \in {q, CurrentFailed(q)}
    <3>1. CASE q.current = "synthesis"
      BY <1>5, <3>1 DEF Raise
    <3>2. CASE q.current # "synthesis"
      BY <1>5, <3>2, PlanAfter
    <3> QED  BY <3>1, <3>2
  <2> HIDE DEF p, m
  <2>3. Orderly(q)
    BY <1>2, <2>1, ReplannedIsOrderly
  <2>4. KeptBy(q)
    BY <1>2, <2>1, ReplannedKeeps DEF KeptBy
  <2> HIDE DEF q
  <2> QED  BY <2>2, <2>3, <2>4, OrderlyAfter DEF Orderly
<1> QED  BY <1>3, <1>4, <1>5 DEF Answer

(* Every step of the loop leaves the plan in order.                        *)
LEMMA LoopKeepsOrder ==
    ASSUME WorkInv, PlanInOrder,
           \/ EmptyAnswer \/ Draft \/ Answer \/ RefuseTools
           \/ \E n \in 1..MaxBatch : CallTools(n)
           \/ ToolFails \/ ToolSucceeds \/ ResearchSatisfies \/ ResearchFallsShort
    PROVE  Placed(plan') /\ (finished' \/ InStep(plan')) /\ KeptBy(plan')
<1>1. CASE Answer
  BY <1>1, AnswerKeepsOrder
<1>2. ASSUME Running, NEW p \in {plan, Advanced(plan)}, plan' \in {p, CurrentFailed(p)}
      PROVE  Placed(plan') /\ InStep(plan') /\ KeptBy(plan')
  <2>1. Orderly(plan) /\ WellFormed(plan)
    BY <1>2 DEF WorkInv, PlanInOrder, Orderly, Placed
  <2>2. KeptBy(plan) /\ KeptBy(Advanced(plan))
    BY <2>1, AdvancedKeeps DEF KeptBy
  <2>3. Orderly(p) /\ KeptBy(p)
    BY <1>2, <2>1, <2>2, AdvancedIsOrderly
  <2>4. Orderly(plan') /\ KeptBy(plan')
    BY <1>2, <2>3, OrderlyAfter
  <2> QED  BY <2>4 DEF Orderly
<1>3. CASE EmptyAnswer \/ Draft
  BY <1>2, <1>3, PlanAfter DEF EmptyAnswer, Draft, Running
<1>4. CASE RefuseTools
  BY <1>2, <1>4 DEF RefuseTools, Stop, Running
<1>5. CASE \E n \in 1..MaxBatch : CallTools(n)
  BY <1>2, <1>5, PlanAfter DEF CallTools, Running
<1>6. CASE ToolFails \/ ToolSucceeds \/ ResearchFallsShort
  BY <1>2, <1>6, PlanAfter DEF ToolFails, ToolSucceeds, ResearchFallsShort, Running
<1>7. CASE ResearchSatisfies
  BY <1>2, <1>7, PlanAfter DEF ResearchSatisfies, Running
<1> QED  BY <1>1, <1>3, <1>4, <1>5, <1>6, <1>7

(* Every step of the agent leaves the plan in order.                       *)
LEMMA OrderStep == WorkInv /\ PlanInOrder /\ [Next]_vars => PlanInOrder'
<1> SUFFICES ASSUME WorkInv, PlanInOrder, [Next]_vars PROVE PlanInOrder'
  OBVIOUS
<1>1. CASE \/ EmptyAnswer \/ Draft \/ Answer \/ RefuseTools
           \/ \E n \in 1..MaxBatch : CallTools(n)
           \/ ToolFails \/ ToolSucceeds \/ ResearchSatisfies \/ ResearchFallsShort
  BY <1>1, LoopKeepsOrder DEF PlanInOrder
<1>2. ASSUME NEW kind \in {"run", "continue"}, NEW c \in Contracts, PrepareTask(kind, c)
      PROVE  PlanInOrder'
  BY <1>2 DEF PrepareTask, PlanInOrder
<1>3. CASE BeginTask \/ BeginRegenerate
  <2>1. plan' = BuildPlan(contract) /\ contract \subseteq Requirements
    BY <1>3 DEF BeginTask, BeginRegenerate, StartAttempt, EnterLoop, WorkInv
  <2> QED  BY <2>1, BuiltIsOrderly DEF PlanInOrder, Orderly
<1>4. CASE AskAgain \/ Resume \/ Interrupt \/ BeginResume \/ UNCHANGED vars
  <2>1. plan' = plan /\ finished' = finished
    BY <1>4 DEF AskAgain, Resume, Interrupt, BeginResume, Stop, EnterLoop, Raise, vars, workVars
  <2> QED  BY <2>1 DEF PlanInOrder
<1> QED  BY <1>1, <1>2, <1>3, <1>4 DEF Next, LoopStep, UserStep

(* Plans are in order in every reachable state.                            *)
LEMMA OrderInvariant == Spec => []PlanInOrder
<1>1. Init => PlanInOrder
  BY DEF Init, PlanInOrder
<1> QED  BY <1>1, OrderStep, WorkInvariant, PTL DEF Spec

(* For every contract: whenever the model is asked, the plan would pass    *)
(* _validate_plan and the agent is in the phase of its current step.       *)
THEOREM AsksAreInPhase == Spec => []AskedInPhase
<1>1. WorkInv /\ PlanInOrder => AskedInPhase
  <2> SUFFICES ASSUME WorkInv, PlanInOrder, pc = "asking"
               PROVE  /\ plan.current # None => phase = plan.current
                      /\ ValidPlan(IF plan.current # None /\ plan.status[plan.current] = "failed"
                                   THEN Marked(plan, plan.current, "active") ELSE plan)
    BY DEF AskedInPhase
  <2>1. Orderly(plan)
    BY DEF WorkInv, PlanInOrder, Orderly, Running
  <2>2. plan.current # None => phase = plan.current
    BY DEF WorkInv
  <2> QED  BY <2>1, <2>2, OrderlyIsValid
<1> QED  BY <1>1, WorkInvariant, OrderInvariant, PTL

(* For every contract: while a run works, or is resumed, no step that is   *)
(* completed is taken back, but for the synthesis.                         *)
THEOREM CompletedWorkIsKept == Spec => CompletedStaysCompleted
<1>1. ASSUME WorkInv, PlanInOrder, [Next]_vars,
             NEW s \in Steps \ {"synthesis"},
             plan.status[s] = "completed", Running \/ (pc = "launched" /\ job = "resume")
      PROVE  plan'.status[s] = "completed"
  <2>1. CASE \/ EmptyAnswer \/ Draft \/ Answer \/ RefuseTools
             \/ \E n \in 1..MaxBatch : CallTools(n)
             \/ ToolFails \/ ToolSucceeds \/ ResearchSatisfies \/ ResearchFallsShort
    BY <1>1, <2>1, LoopKeepsOrder DEF KeptBy
  <2>2. CASE BeginTask \/ BeginRegenerate \/ UserStep
    <3>1. Interrupt
      BY <1>1, <2>2 DEF BeginTask, BeginRegenerate, UserStep, PrepareTask, AskAgain, Resume,
                        Launch, Running
    <3> QED  BY <1>1, <3>1 DEF Interrupt, workVars
  <2>3. CASE BeginResume \/ UNCHANGED vars
    BY <1>1, <2>3 DEF BeginResume, Stop, EnterLoop, Raise, vars, workVars
  <2> QED  BY <1>1, <2>1, <2>2, <2>3 DEF Next, LoopStep
<1>2. WorkInv /\ PlanInOrder /\ [Next]_vars =>
        [\A s \in Steps \ {"synthesis"} :
            plan.status[s] = "completed" /\ (Running \/ (pc = "launched" /\ job = "resume"))
                => plan'.status[s] = "completed"]_vars
  BY <1>1
<1> QED  BY <1>2, WorkInvariant, OrderInvariant, PTL DEF Spec, CompletedStaysCompleted

---------------------------------------------------------------------------
(* Internal errors.                                                        *)

(* Under a plan the agent is in the phase of a step, debugging, blocked or *)
(* completed; it works while blocked only if it was resumed so, and what   *)
(* raised left it idle.                                                    *)
CrashInv ==
    /\ contract \subseteq {"research"}
    /\ plan # NoPlan => phase \in Steps \cup {"debugging", "blocked", "completed"}
    /\ Running /\ phase = "blocked" => job = "resume"
    /\ crashed => pc = "idle" /\ job = "resume" /\ phase = "blocked"

(* A step of a running agent ends it blocked, or leaves it in the phase of *)
(* a step or the one it was given.                                         *)
LEMMA PhaseAfter ==
    ASSUME NEW p, p.current \in Steps \cup {None}
    PROVE  /\ \A ph : NextIteration(p, ph) =>
                 /\ phase' \in Steps \cup {ph, "blocked"}
                 /\ pc' # "idle" => phase' \in Steps \cup {ph}
           /\ StartTool(p) =>
                 /\ phase' \in Steps \cup {"blocked"}
                 /\ pc' # "idle" => phase' \in Steps
           /\ \A ph : ToolDone(p, ph) =>
                 /\ phase' \in Steps \cup {ph, "blocked"}
                 /\ pc' # "idle" => phase' \in Steps \cup {ph}
<1>1. ASSUME NEW ph, NextIteration(p, ph)
      PROVE  /\ phase' \in Steps \cup {ph, "blocked"}
             /\ pc' # "idle" => phase' \in Steps \cup {ph}
  <2>1. AskingPhase(p, ph) \in Steps \cup {ph}
    BY DEF AskingPhase
  <2> QED  BY <1>1, <2>1 DEF NextIteration, Block, Stop
<1>2. ASSUME StartTool(p)
      PROVE  /\ phase' \in Steps \cup {"blocked"}
             /\ pc' # "idle" => phase' \in Steps
  <2>1. StepPhase(p) \in Steps
    BY StepFacts DEF StepPhase
  <2> QED  BY <1>2, <2>1 DEF StartTool, Block, Stop
<1> QED  BY <1>1, <1>2 DEF ToolDone

(* An answer raises only in a run that was resumed after it was blocked.   *)
LEMMA AnswerCrashes ==
    ASSUME WorkInv, PlanInOrder, CrashInv, Answer
    PROVE  CrashInv'
<1> DEFINE p == Synthesizing(plan)
           m == Missing(contract, done)
           q == Replanned(p, m)
<1>1. /\ pc = "asking" /\ Running /\ ~crashed /\ plan # NoPlan
      /\ phase \in Steps \cup {"debugging", "blocked"}
      /\ WellFormed(plan) /\ ResearchOf(plan, done)
      /\ contract' = contract /\ job' = job
  <2>1. pc = "asking" /\ Running /\ contract' = contract /\ job' = job
    BY DEF Answer, Running, countVars
  <2>2. plan # NoPlan /\ phase # "completed"
    BY <2>1 DEF WorkInv
  <2> QED  BY <2>1, <2>2 DEF WorkInv, CrashInv
<1>2. /\ WellFormed(p)
      /\ \A s \in Requirements : p.status[s] = plan.status[s]
  BY <1>1, SynthesizingKeeps
<1>3. CASE ~CanMove(phase, "synthesis") /\ Raise(p) /\ UNCHANGED phase
  <2>1. phase = "blocked"
    BY <1>1, <1>3, StepsMove, StepFacts
  <2>2. pc' = "idle"
    BY <1>3 DEF Raise
  <2> QED  BY <1>1, <1>3, <2>1, <2>2 DEF CrashInv, Running
<1>4. CASE Stop(Marked(p, "synthesis", "completed"), "completed") /\ UNCHANGED crashed
  BY <1>1, <1>4 DEF CrashInv, Running, Stop
<1>5. CASE /\ ~GateAllows(contract, done)
           /\ IF q.current = "synthesis"
              THEN Raise(q) /\ phase' = "synthesis" /\ UNCHANGED iteration
              ELSE NextIteration(q, q.current) /\ UNCHANGED crashed
  <2>1. m = "research" /\ "research" \in contract /\ "research" \notin done
    BY <1>5 DEF GateAllows, Missing, CrashInv
  <2>2. "research" \in Requirements /\ "research" \in Steps /\ "research" # "synthesis"
    BY StepFacts DEF Requirements, Steps
  <2>3. p.status["research"] # "completed"
    BY <1>1, <1>2, <2>1, <2>2 DEF ResearchOf
  <2> HIDE DEF p, m
  <2>4. q.current = "research"
    BY <1>2, <2>1, <2>2, <2>3, ReplannedKeeps
  <2> HIDE DEF q
  <2>5. NextIteration(q, q.current) /\ UNCHANGED crashed
    BY <1>5, <2>2, <2>4
  <2>6. /\ phase' \in Steps \cup {"blocked"}
        /\ pc' # "idle" => phase' \in Steps
    BY <2>2, <2>4, <2>5, PhaseAfter
  <2> QED  BY <1>1, <2>5, <2>6, PhaseFacts, StepFacts DEF CrashInv, Running, Steps, Requirements
<1> QED  BY <1>3, <1>4, <1>5 DEF Answer

(* So does every other step of the loop.                                   *)
LEMMA LoopCrashes ==
    ASSUME WorkInv, PlanInOrder, CrashInv,
           \/ EmptyAnswer \/ Draft \/ RefuseTools
           \/ \E n \in 1..MaxBatch : CallTools(n)
           \/ ToolFails \/ ToolSucceeds \/ ResearchSatisfies \/ ResearchFallsShort
    PROVE  CrashInv'
<1>1. /\ Running /\ contract' = contract /\ job' = job /\ crashed' = crashed
  BY DEF EmptyAnswer, Draft, RefuseTools, CallTools, ToolFails, ToolSucceeds, ResearchSatisfies,
         ResearchFallsShort, Running, taskVars, countVars
<1>2. /\ plan # NoPlan /\ WellFormed(plan) /\ Orderly(plan)
      /\ plan.current \in Steps \cup {None}
      /\ phase \in Steps \cup {"debugging", "blocked"}
      /\ StepPhase(plan) \in Steps
      /\ ~crashed
  <2>1. plan # NoPlan /\ phase # "completed" /\ ~finished
    BY <1>1 DEF WorkInv
  <2>2. ~crashed /\ phase \in Steps \cup {"debugging", "blocked"}
    BY <1>1, <2>1 DEF CrashInv, Running
  <2>3. Orderly(plan)
    BY <2>1 DEF PlanInOrder, Orderly
  <2> QED  BY <1>1, <2>1, <2>2, <2>3, RunningPlan, StepFacts DEF StepPhase
<1>3. "blocked" \notin Steps /\ "debugging" \notin Steps
  BY DEF Steps, Requirements
<1>4. ASSUME phase' \in Steps \cup {phase, "debugging", "blocked"},
             pc' # "idle" => phase' \in Steps \cup {phase, "debugging"}
      PROVE  CrashInv'
  BY <1>1, <1>2, <1>3, <1>4 DEF CrashInv, Running
<1>5. CASE EmptyAnswer \/ Draft
  BY <1>2, <1>4, <1>5, PhaseAfter DEF EmptyAnswer, Draft
<1>6. CASE RefuseTools
  BY <1>4, <1>6 DEF RefuseTools, Stop
<1>7. CASE \E n \in 1..MaxBatch : CallTools(n)
  BY <1>2, <1>4, <1>7, PhaseAfter DEF CallTools
<1>8. CASE ToolFails \/ ToolSucceeds \/ ResearchFallsShort
  <2>1. \E ph \in Steps \cup {"debugging"} : ToolDone(plan, ph)
    BY <1>2, <1>8 DEF ToolFails, ToolSucceeds, ResearchFallsShort
  <2> QED  BY <1>2, <1>4, <2>1, PhaseAfter
<1>9. CASE ResearchSatisfies
  <2> DEFINE p == Advanced(plan)
             ph == StepPhase(IF p.current = None THEN plan ELSE p)
  <2>1. ToolDone(p, ph)
    BY <1>9 DEF ResearchSatisfies
  <2>2. p.current \in Steps \cup {None}
    BY <1>2, AdvancedKeeps, PlanFields DEF WellFormed
  <2> HIDE DEF p
  <2>3. ph \in Steps
    BY <1>2, <2>2 DEF StepPhase
  <2> HIDE DEF ph
  <2> QED  BY <1>4, <2>1, <2>2, <2>3, PhaseAfter
<1> QED  BY <1>5, <1>6, <1>7, <1>8, <1>9

(* Under the contracts a session makes, every step of the agent preserves  *)
(* the invariant.                                                          *)
LEMMA CrashStep ==
    ASSUME Contracts \subseteq SUBSET {"research"}
    PROVE  WorkInv /\ PlanInOrder /\ CrashInv /\ [Next]_vars => CrashInv'
<1> SUFFICES ASSUME WorkInv, PlanInOrder, CrashInv, [Next]_vars PROVE CrashInv'
  OBVIOUS
<1>1. ASSUME NEW kind \in {"run", "continue"}, NEW c \in Contracts, PrepareTask(kind, c)
      PROVE  CrashInv'
  BY <1>1 DEF PrepareTask, Launch, CrashInv, Running
<1>2. CASE AskAgain \/ Resume
  BY <1>2 DEF AskAgain, Resume, Launch, CrashInv, Running, taskVars, workVars
<1>3. CASE Interrupt \/ UNCHANGED vars
  <2>1. /\ UNCHANGED <<contract, plan, phase, job, crashed>>
        /\ pc' = "idle" \/ pc' = pc
        /\ pc' # pc => pc # "idle"
    BY <1>3 DEF Interrupt, vars, taskVars, workVars, countVars
  <2> QED  BY <2>1 DEF CrashInv, Running
<1>4. CASE BeginTask \/ BeginRegenerate
  <2> DEFINE p == BuildPlan(contract)
  <2>1. /\ pc = "launched" /\ EnterLoop(p, p.current)
        /\ UNCHANGED <<contract, job, crashed>>
    BY <1>4 DEF BeginTask, BeginRegenerate, StartAttempt, countVars
  <2>2. p.current \in Steps
    BY BuildPlanWorks DEF WorkInv
  <2> HIDE DEF p
  <2>3. phase' \in Steps /\ "blocked" \notin Steps
    BY <2>1, <2>2, StepFacts DEF EnterLoop, AskingPhase, Steps, Requirements
  <2> QED  BY <2>1, <2>3 DEF CrashInv, Running
<1>5. CASE BeginResume
  <2>1. /\ pc = "launched" /\ job = "resume" /\ ~crashed
        /\ UNCHANGED <<contract, job>>
    BY <1>5 DEF BeginResume, taskVars, countVars, CrashInv
  <2>2. CASE Stop(plan, phase) /\ UNCHANGED crashed
    BY <2>1, <2>2 DEF CrashInv, Running, Stop
  <2>3. CASE /\ Resumable
             /\ EnterLoop(plan, IF plan.current = None THEN phase ELSE plan.current)
             /\ UNCHANGED crashed
    <3>1. plan # NoPlan /\ WellFormed(plan)
      BY <2>3 DEF Resumable, WorkInv
    <3>2. plan.current \in Steps \cup {None}
      BY <3>1, PlanFields DEF WellFormed
    <3>3. plan' = plan /\ phase' \in Steps \cup {phase}
      BY <2>3, <3>2 DEF EnterLoop, AskingPhase
    <3> QED  BY <2>1, <2>3, <3>1, <3>3 DEF CrashInv, Running
  <2>4. CASE /\ Resumable
             /\ plan.current # None /\ ~CanMove(phase, plan.current)
             /\ Raise(plan)
             /\ UNCHANGED phase
    <3>1. plan # NoPlan /\ WellFormed(plan) /\ phase # "completed"
      BY <2>4 DEF Resumable, WorkInv
    <3>2. plan.current \in Steps
      BY <2>4, <3>1, PlanFields DEF WellFormed
    <3>3. phase = "blocked"
      BY <2>4, <3>1, <3>2, StepsMove DEF CrashInv
    <3> QED  BY <2>1, <2>4, <3>3 DEF CrashInv, Running, Raise
  <2> QED  BY <1>5, <2>2, <2>3, <2>4 DEF BeginResume
<1> QED
  BY <1>1, <1>2, <1>3, <1>4, <1>5, AnswerCrashes, LoopCrashes DEF Next, LoopStep, UserStep

(* With the contracts a session makes, a run ends in an internal error     *)
(* only if it was resumed when it was blocked, and it is blocked still.    *)
THEOREM OnlyResumedRunsCrash ==
    ASSUME Contracts \subseteq SUBSET {"research"}
    PROVE  Spec => []CrashesOnlyResumed
<1>1. Init => CrashInv
  BY DEF Init, CrashInv, Running
<1>2. CrashInv => CrashesOnlyResumed
  BY DEF CrashInv, CrashesOnlyResumed
<1> QED  BY <1>1, <1>2, CrashStep, WorkInvariant, OrderInvariant, PTL DEF Spec
=============================================================================
