------------------------- MODULE ServicesDataProofs ------------------------
(***************************************************************************)
(* What is proved of the records a session leaves: the statistics of its   *)
(* tools for every finite set of sessions and tools, and the transcript a  *)
(* page shows for every set of subagents and any number of runs, requests, *)
(* chunks and calls.  Each has an inductive invariant over its own         *)
(* variables; a step of Services is a step of the component or leaves      *)
(* these variables alone.  The totals of the statistics are sums over      *)
(* sets, whose recursion is unfolded by the least counterexample.          *)
(***************************************************************************)
EXTENDS Services, FiniteSetTheorems, WellFoundedInduction, TLAPS

---------------------------------------------------------------------------
(* Numbers.                                                                *)

(* A set of numbers that is not empty has a least one.                     *)
LEMMA LeastNumber ==
    ASSUME NEW T, T \subseteq Nat, T # {}
    PROVE  \E x \in T : \A y \in T : x <= y
<1>1. IsWellFoundedOn(OpToRel(<, Nat), Nat)
  BY NatLessThanWellFounded
<1>2. \E x \in T : \A y \in T : ~ (<<y, x>> \in OpToRel(<, Nat))
  BY <1>1, WFMin
<1>3. \A x, y \in Nat : x < y => <<x, y>> \in OpToRel(<, Nat)
  BY DEF OpToRel
<1>4. PICK x \in T : \A y \in T : ~ (<<y, x>> \in OpToRel(<, Nat))
  BY <1>2
<1>5. \A y \in T : ~ (y < x)
  BY <1>3, <1>4
<1>6. \A y \in T : x <= y
  BY <1>5
<1> QED  BY <1>6

---------------------------------------------------------------------------
(* The statistics.                                                         *)

(* What the statistics hold, and how they relate.                          *)
StatsUsage == [calls : Nat, running : Nat, successes : Nat, errors : Nat, explained : Nat]
StatsRow == [calls : Nat, successes : Nat, errors : Nat, explained : Nat]
StatsTypes ==
    /\ stats_phase \in [StatsSessions -> {"none", "idle", "running", "recorded", "deleted"}]
    /\ stats_usage \in [StatsSessions -> [StatsTools -> StatsUsage]]
    /\ stats_approval \in
          [StatsSessions -> [requested : Nat, allowed : Nat, denied : Nat, pending : BOOLEAN]]
    /\ stats_rows \in [StatsSessions -> [StatsTools -> StatsRow]]
    /\ stats_decisions \in [StatsSessions -> [requested : Nat, allowed : Nat, denied : Nat]]
    /\ stats_ended \in [StatsSessions -> [StatsTools -> StatsRow]]
    /\ stats_open \in [StatsSessions -> Seq(StatsTools)]

(* A row holds at least the given counts.                                  *)
Covers(stored, counts) ==
    /\ stored.calls >= counts.calls
    /\ stored.successes >= counts.successes
    /\ stored.errors >= counts.errors

(* A call that is open has been counted, and a tool without a call has no  *)
(* success: a tool that is not handed over has nothing to hand over.  A    *)
(* row that lost no write covers what earlier processes counted, and while *)
(* no run is going this one's counts too.                                  *)
StatsOf(s) ==
    /\ \A i \in DOMAIN stats_open[s] : stats_usage[s][stats_open[s][i]].calls > 0
    /\ \A t \in StatsTools :
          stats_usage[s][t].calls = 0 => stats_usage[s][t].successes = 0
    /\ \A t \in StatsTools : <<s, t>> \notin stats_missed =>
          /\ Covers(stats_rows[s][t], stats_ended[s][t])
          /\ stats_phase[s] # "running" => Covers(stats_rows[s][t], Stats!Ever[s][t])
    /\ <<s, "approvals">> \notin stats_missed /\ stats_phase[s] # "running" =>
          stats_decisions[s].requested >= stats_approval[s].requested
StatsInv == StatsTypes /\ \A s \in StatsSessions : StatsOf(s)

LEMMA StatsSteps == [ServicesNext]_servicesVars => [Stats!Next]_(Stats!statsVars)
BY DEF ServicesNext, Only, servicesVars, statsVars, Stats!statsVars

(* What an id has ever counted, count by count.                            *)
LEMMA EverCounts ==
    ASSUME StatsTypes, NEW s \in StatsSessions, NEW t \in StatsTools
    PROVE  /\ Stats!Ever[s][t].calls = stats_ended[s][t].calls + stats_usage[s][t].calls
           /\ Stats!Ever[s][t].successes =
                 stats_ended[s][t].successes + stats_usage[s][t].successes
           /\ Stats!Ever[s][t].errors = stats_ended[s][t].errors + stats_usage[s][t].errors
           /\ Stats!Ever[s][t] \in StatsRow
<1>1. DOMAIN Stats!NoRow = {"calls", "successes", "errors", "explained"}
  BY DEF Stats!NoRow
<1>2. stats_ended[s][t] \in StatsRow /\ stats_usage[s][t] \in StatsUsage
  BY DEF StatsTypes
<1>3. Stats!Ever[s][t] = [count \in {"calls", "successes", "errors", "explained"} |->
                            stats_ended[s][t][count] + stats_usage[s][t][count]]
  BY <1>1 DEF Stats!Ever
<1>4. /\ stats_ended[s][t].calls + stats_usage[s][t].calls \in Nat
      /\ stats_ended[s][t].successes + stats_usage[s][t].successes \in Nat
      /\ stats_ended[s][t].errors + stats_usage[s][t].errors \in Nat
      /\ stats_ended[s][t].explained + stats_usage[s][t].explained \in Nat
  BY <1>2 DEF StatsRow, StatsUsage
<1>5. Stats!Ever[s][t] = [calls |-> stats_ended[s][t].calls + stats_usage[s][t].calls,
                          successes |-> stats_ended[s][t].successes + stats_usage[s][t].successes,
                          errors |-> stats_ended[s][t].errors + stats_usage[s][t].errors,
                          explained |-> stats_ended[s][t].explained + stats_usage[s][t].explained]
  BY <1>3
<1> QED  BY <1>4, <1>5 DEF StatsRow

(* The same of the next state.                                             *)
LEMMA EverCountsNext ==
    ASSUME StatsTypes', NEW s \in StatsSessions, NEW t \in StatsTools
    PROVE  /\ Stats!Ever'[s][t].calls = stats_ended'[s][t].calls + stats_usage'[s][t].calls
           /\ Stats!Ever'[s][t].successes =
                 stats_ended'[s][t].successes + stats_usage'[s][t].successes
           /\ Stats!Ever'[s][t].errors = stats_ended'[s][t].errors + stats_usage'[s][t].errors
<1>1. DOMAIN Stats!NoRow = {"calls", "successes", "errors", "explained"}
  BY DEF Stats!NoRow
<1> QED  BY <1>1 DEF Stats!Ever, StatsTypes

(* A flush adds a session's counts to every row whose write succeeds: what *)
(* it passes over has no counts.                                           *)
LEMMA FlushAdds ==
    ASSUME StatsInv, NEW s \in StatsSessions, NEW broken,
           NEW stored \in [StatsTools -> StatsRow]
    PROVE  /\ Stats!FlushedRows(s, stored, broken) \in [StatsTools -> StatsRow]
           /\ \A t \in StatsTools \ broken :
                 LET filed == Stats!FlushedRows(s, stored, broken)[t] IN
                 /\ filed.calls = stored[t].calls + stats_usage[s][t].calls
                 /\ filed.successes = stored[t].successes + stats_usage[s][t].successes
                 /\ filed.errors = stored[t].errors + stats_usage[s][t].errors
<1> SUFFICES ASSUME NEW t \in StatsTools
             PROVE  LET filed == Stats!FlushedRows(s, stored, broken)[t] IN
                    /\ filed \in StatsRow
                    /\ t \notin broken =>
                         /\ filed.calls = stored[t].calls + stats_usage[s][t].calls
                         /\ filed.successes = stored[t].successes + stats_usage[s][t].successes
                         /\ filed.errors = stored[t].errors + stats_usage[s][t].errors
  BY DEF Stats!FlushedRows
<1>1. stored[t] \in StatsRow /\ stats_usage[s][t] \in StatsUsage
  BY DEF StatsInv, StatsTypes
<1>2. stats_usage[s][t].calls = 0 => stats_usage[s][t].successes = 0
  BY DEF StatsInv, StatsOf
<1> DEFINE filed == Stats!FlushedRows(s, stored, broken)[t]
<1>3. filed = IF Stats!Counted(stats_usage[s][t]) /\ t \notin broken
            THEN Stats!Added(stored[t], stats_usage[s][t]) ELSE stored[t]
  BY DEF Stats!FlushedRows
<1>4. Stats!Counted(stats_usage[s][t]) <=>
         ~(stats_usage[s][t].calls = 0 /\ stats_usage[s][t].errors = 0)
  <2>1. stats_usage[s][t].calls \in Nat /\ stats_usage[s][t].errors \in Nat
    BY <1>1 DEF StatsUsage
  <2>2. Stats!Counted(stats_usage[s][t]) <=>
           stats_usage[s][t].calls + stats_usage[s][t].errors > 0
    BY DEF Stats!Counted
  <2> QED  BY <2>1, <2>2
<1>5. CASE t \notin broken /\ Stats!Counted(stats_usage[s][t])
  <2>1. filed = Stats!Added(stored[t], stats_usage[s][t])
    BY <1>3, <1>5
  <2> QED  BY <1>1, <2>1 DEF Stats!Added, StatsRow, StatsUsage
<1>6. CASE t \notin broken /\ ~ Stats!Counted(stats_usage[s][t])
  <2>1. filed = stored[t]
    BY <1>3, <1>6
  <2>2. /\ stats_usage[s][t].calls = 0 /\ stats_usage[s][t].errors = 0
        /\ stats_usage[s][t].successes = 0
    BY <1>2, <1>4, <1>6
  <2> QED  BY <1>1, <2>1, <2>2 DEF StatsRow
<1>7. CASE t \in broken
  BY <1>1, <1>3, <1>7
<1> QED  BY <1>5, <1>6, <1>7

(* So does a flush of the approvals.                                       *)
LEMMA FlushAddsApprovals ==
    ASSUME StatsTypes, NEW s \in StatsSessions, NEW broken,
           NEW stored \in [requested : Nat, allowed : Nat, denied : Nat]
    PROVE  /\ Stats!FlushedApprovals(s, stored, broken) \in
                 [requested : Nat, allowed : Nat, denied : Nat]
           /\ "approvals" \notin broken =>
                 Stats!FlushedApprovals(s, stored, broken).requested =
                    stored.requested + stats_approval[s].requested
<1>1. stats_approval[s] \in [requested : Nat, allowed : Nat, denied : Nat, pending : BOOLEAN]
  BY DEF StatsTypes
<1>2. CASE "approvals" \in broken
  BY <1>2 DEF Stats!FlushedApprovals
<1>3. CASE "approvals" \notin broken
  BY <1>1, <1>3 DEF Stats!FlushedApprovals, Stats!AddedApprovals
<1> QED  BY <1>2, <1>3
(* What the bus shows of calls leaves all of this alone.                   *)
StatsStored == UNCHANGED <<stats_phase, stats_approval, stats_rows, stats_decisions,
                           stats_ended, stats_missed>>

(* What the counters of a tool become.                                     *)
LEMMA UsageChanges ==
    ASSUME NEW u \in StatsUsage
    PROVE  /\ Stats!Started(u) \in StatsUsage
           /\ Stats!Started(u).calls = u.calls + 1
           /\ \A ok \in BOOLEAN :
                 /\ Stats!Finished(u, ok) \in StatsUsage
                 /\ Stats!Finished(u, ok).calls = u.calls
                 /\ ok \/ Stats!Finished(u, ok).successes = u.successes
<1>1. /\ u.calls + 1 \in Nat /\ u.running + 1 \in Nat /\ u.successes + 1 \in Nat
      /\ u.errors + 1 \in Nat /\ u.explained + 1 \in Nat
      /\ (IF u.running = 0 THEN 0 ELSE u.running - 1) \in Nat
  BY DEF StatsUsage
<1>2. \A c \in StatsUsage, n \in Nat :
         /\ [c EXCEPT !.calls = n] \in StatsUsage /\ [c EXCEPT !.calls = n].calls = n
         /\ [c EXCEPT !.calls = n].running = c.running
  BY DEF StatsUsage
<1>3. \A c \in StatsUsage, n \in Nat :
         /\ [c EXCEPT !.running = n] \in StatsUsage /\ [c EXCEPT !.running = n].calls = c.calls
         /\ [c EXCEPT !.running = n].successes = c.successes
         /\ [c EXCEPT !.running = n].errors = c.errors
         /\ [c EXCEPT !.running = n].explained = c.explained
  BY DEF StatsUsage
<1>4. \A c \in StatsUsage, n \in Nat :
         [c EXCEPT !.successes = n] \in StatsUsage /\ [c EXCEPT !.successes = n].calls = c.calls
  BY DEF StatsUsage
<1>5. \A c \in StatsUsage, n \in Nat :
         /\ [c EXCEPT !.errors = n] \in StatsUsage /\ [c EXCEPT !.errors = n].calls = c.calls
         /\ [c EXCEPT !.errors = n].successes = c.successes
         /\ [c EXCEPT !.errors = n].explained = c.explained
  BY DEF StatsUsage
<1>6. \A c \in StatsUsage, n \in Nat :
         /\ [c EXCEPT !.explained = n] \in StatsUsage
         /\ [c EXCEPT !.explained = n].calls = c.calls
         /\ [c EXCEPT !.explained = n].successes = c.successes
  BY DEF StatsUsage
<1>7. PICK left \in Nat : left = IF u.running = 0 THEN 0 ELSE u.running - 1
  BY <1>1
<1>8. PICK settled \in StatsUsage :
         /\ settled = [u EXCEPT !.running = left]
         /\ settled.calls = u.calls /\ settled.successes = u.successes
         /\ settled.errors = u.errors /\ settled.explained = u.explained
  BY <1>3
<1>9. /\ Stats!Started(u) = [[u EXCEPT !.calls = u.calls + 1] EXCEPT !.running = u.running + 1]
      /\ Stats!Finished(u, TRUE) = [settled EXCEPT !.successes = settled.successes + 1]
      /\ Stats!Finished(u, FALSE) =
            [[settled EXCEPT !.errors = settled.errors + 1] EXCEPT
                !.explained = settled.explained + 1]
  BY <1>7, <1>8 DEF Stats!Started, Stats!Finished
<1>10. PICK c \in StatsUsage :
          /\ c = [u EXCEPT !.calls = u.calls + 1]
          /\ c.calls = u.calls + 1
  BY <1>1, <1>2
<1>11. Stats!Started(u) \in StatsUsage /\ Stats!Started(u).calls = u.calls + 1
  <2>1. Stats!Started(u) = [c EXCEPT !.running = u.running + 1]
    BY <1>9, <1>10
  <2>2. /\ [c EXCEPT !.running = u.running + 1] \in StatsUsage
        /\ [c EXCEPT !.running = u.running + 1].calls = c.calls
    BY <1>1, <1>3
  <2> QED  BY <1>10, <2>1, <2>2
<1>12. Stats!Finished(u, TRUE) \in StatsUsage /\ Stats!Finished(u, TRUE).calls = u.calls
  <2>1. settled.successes + 1 \in Nat
    BY <1>1, <1>8
  <2>2. /\ [settled EXCEPT !.successes = settled.successes + 1] \in StatsUsage
        /\ [settled EXCEPT !.successes = settled.successes + 1].calls = settled.calls
    BY <1>4, <2>1
  <2> QED  BY <1>8, <1>9, <2>2, Zenon
<1>13. PICK d \in StatsUsage :
          /\ d = [settled EXCEPT !.errors = settled.errors + 1]
          /\ d.calls = u.calls /\ d.successes = u.successes
          /\ d.explained = settled.explained
  <2>1. settled.errors + 1 \in Nat
    BY <1>1, <1>8
  <2>2. PICK n \in Nat : n = settled.errors + 1
    BY <2>1
  <2>3. /\ [settled EXCEPT !.errors = n] \in StatsUsage
        /\ [settled EXCEPT !.errors = n].calls = settled.calls
        /\ [settled EXCEPT !.errors = n].successes = settled.successes
        /\ [settled EXCEPT !.errors = n].explained = settled.explained
    BY <1>5
  <2> QED  BY <1>8, <2>2, <2>3
<1>14. /\ Stats!Finished(u, FALSE) \in StatsUsage /\ Stats!Finished(u, FALSE).calls = u.calls
       /\ Stats!Finished(u, FALSE).successes = u.successes
  <2>1. settled.explained + 1 \in Nat
    BY <1>1, <1>8
  <2>2. /\ [d EXCEPT !.explained = settled.explained + 1] \in StatsUsage
        /\ [d EXCEPT !.explained = settled.explained + 1].calls = d.calls
        /\ [d EXCEPT !.explained = settled.explained + 1].successes = d.successes
    BY <1>6, <2>1
  <2> QED  BY <1>9, <1>13, <2>2, Zenon
<1> QED  BY <1>11, <1>12, <1>14

(* What a run shows of its calls keeps the invariant.                      *)
LEMMA StatsCounted ==
    ASSUME StatsInv, NEW s \in StatsSessions, stats_phase[s] = "running", StatsStored,
           NEW t \in StatsTools, NEW u \in StatsUsage,
           stats_usage' = [stats_usage EXCEPT ![s][t] = u],
           u.calls >= stats_usage[s][t].calls, u.calls = 0 => u.successes = 0,
           NEW opened \in Seq(StatsTools), stats_open' = [stats_open EXCEPT ![s] = opened],
           \A i \in DOMAIN opened :
              stats_usage[s][opened[i]].calls > 0 \/ (opened[i] = t /\ u.calls > 0)
    PROVE  StatsInv'
<1>1. /\ stats_phase' = stats_phase /\ stats_approval' = stats_approval
      /\ stats_rows' = stats_rows /\ stats_decisions' = stats_decisions
      /\ stats_ended' = stats_ended /\ stats_missed' = stats_missed
  BY DEF StatsStored
<1>2. /\ stats_usage \in [StatsSessions -> [StatsTools -> StatsUsage]]
      /\ stats_open \in [StatsSessions -> Seq(StatsTools)]
      /\ \A r \in StatsSessions : stats_open[r] \in Seq(StatsTools) /\ StatsOf(r)
  BY DEF StatsInv, StatsTypes
<1>3. /\ stats_usage' \in [StatsSessions -> [StatsTools -> StatsUsage]]
      /\ \A r \in StatsSessions, v \in StatsTools :
            stats_usage'[r][v] = IF r = s /\ v = t THEN u ELSE stats_usage[r][v]
  BY <1>2
<1>4. \A r \in StatsSessions : stats_open'[r] = IF r = s THEN opened ELSE stats_open[r]
  BY <1>2
<1>5. StatsTypes'
  BY <1>1, <1>2, <1>3, <1>4 DEF StatsInv, StatsTypes
<1>6. \A r \in StatsSessions \ {s} : \A v \in StatsTools :
         /\ stats_usage'[r][v] = stats_usage[r][v]
         /\ Stats!Ever'[r][v] = Stats!Ever[r][v]
  BY <1>1, <1>3 DEF Stats!Ever
<1>7. \A v \in StatsTools : /\ stats_usage[s][v].calls \in Nat
                            /\ stats_usage'[s][v].calls \in Nat
                            /\ stats_usage'[s][v].calls >= stats_usage[s][v].calls
  BY <1>2, <1>3 DEF StatsUsage
<1> SUFFICES ASSUME NEW r \in StatsSessions
             PROVE  StatsOf(r)'
  BY <1>5 DEF StatsInv
<1>8. CASE r = s
  <2>1. \A i \in DOMAIN opened : stats_usage'[s][opened[i]].calls > 0
    <3> SUFFICES ASSUME NEW i \in DOMAIN opened
                 PROVE  stats_usage'[s][opened[i]].calls > 0
      OBVIOUS
    <3>1. opened[i] \in StatsTools
      OBVIOUS
    <3>2. CASE stats_usage[s][opened[i]].calls > 0
      BY <1>7, <3>1, <3>2
    <3>3. CASE opened[i] = t /\ u.calls > 0
      BY <1>3, <3>3
    <3> QED  BY <3>2, <3>3
  <2>2. \A v \in StatsTools : stats_usage'[s][v].calls = 0 => stats_usage'[s][v].successes = 0
    BY <1>2, <1>3 DEF StatsOf
  <2>3. stats_open'[s] = opened
    BY <1>4
  <2> QED  BY <1>1, <1>2, <1>8, <2>1, <2>2, <2>3 DEF StatsOf
<1>9. CASE r # s
  <2>1. stats_open'[r] = stats_open[r] /\ stats_open[r] \in Seq(StatsTools)
    BY <1>2, <1>4, <1>9
  <2>2. \A i \in DOMAIN stats_open[r] : stats_open[r][i] \in StatsTools
    BY <2>1
  <2> QED  BY <1>1, <1>2, <1>6, <1>9, <2>1, <2>2 DEF StatsOf
<1> QED  BY <1>8, <1>9

(* A call that starts.                                                     *)
LEMMA StatsToolStarted ==
    ASSUME StatsInv, NEW s \in StatsSessions, NEW t \in StatsTools, Stats!ToolStarted(s, t)
    PROVE  StatsInv'
<1> DEFINE u == Stats!Started(stats_usage[s][t])
<1>1. /\ stats_usage[s][t] \in StatsUsage /\ stats_open[s] \in Seq(StatsTools)
      /\ stats_open \in [StatsSessions -> Seq(StatsTools)]
  BY DEF StatsInv, StatsTypes
<1>2. /\ u \in StatsUsage /\ u.calls = stats_usage[s][t].calls + 1
      /\ stats_usage[s][t].calls \in Nat
  <2>1. stats_usage[s][t].calls \in Nat
    BY <1>1 DEF StatsUsage
  <2> QED  BY <1>1, <2>1, UsageChanges
<1>3. /\ stats_phase[s] = "running" /\ StatsStored
      /\ stats_usage' = [stats_usage EXCEPT ![s][t] = u]
      /\ stats_open' = [stats_open EXCEPT ![s] = Append(stats_open[s], t)]
  BY DEF Stats!ToolStarted, Stats!Count, Stats!storeVars, StatsStored
<1> DEFINE opened == Append(stats_open[s], t)
<1>4. opened \in Seq(StatsTools)
  BY <1>1
<1>5. \A i \in DOMAIN opened :
         stats_usage[s][opened[i]].calls > 0 \/ (opened[i] = t /\ u.calls > 0)
  <2> SUFFICES ASSUME NEW i \in DOMAIN opened, i # Len(stats_open[s]) + 1
               PROVE  stats_usage[s][opened[i]].calls > 0
    BY <1>1, <1>2
  <2>1. i \in DOMAIN stats_open[s] /\ opened[i] = stats_open[s][i]
    BY <1>1
  <2> QED  BY <2>1 DEF StatsInv, StatsOf
<1>6. u.calls >= stats_usage[s][t].calls /\ ~(u.calls = 0)
  BY <1>2
<1> HIDE DEF u
<1>7. stats_open' = [stats_open EXCEPT ![s] = opened]
  BY <1>3
<1> HIDE DEF opened
<1>8. PICK v \in StatsUsage : v = u
  BY <1>2
<1>9. /\ stats_usage' = [stats_usage EXCEPT ![s][t] = v]
      /\ v.calls >= stats_usage[s][t].calls /\ (v.calls = 0 => v.successes = 0)
      /\ \A i \in DOMAIN opened :
            stats_usage[s][opened[i]].calls > 0 \/ (opened[i] = t /\ v.calls > 0)
  BY <1>3, <1>5, <1>6, <1>8
<1>10. v.calls >= stats_usage[s][t].calls /\ (v.calls = 0 => v.successes = 0)
  BY <1>9
<1>11. \A i \in DOMAIN opened :
          stats_usage[s][opened[i]].calls > 0 \/ (opened[i] = t /\ v.calls > 0)
  BY <1>9
<1>12. stats_phase[s] = "running" /\ StatsStored
  BY <1>3
<1>13. stats_usage' = [stats_usage EXCEPT ![s][t] = v]
  BY <1>9
<1> QED  BY <1>4, <1>7, <1>10, <1>11, <1>12, <1>13, StatsCounted, ZenonT(30)

(* A call that ends, or is refused.                                        *)
LEMMA StatsToolSettled ==
    ASSUME StatsInv, NEW s \in StatsSessions, NEW t \in StatsTools, NEW ok \in BOOLEAN,
           ok => stats_usage[s][t].calls > 0, stats_phase[s] = "running", StatsStored,
           stats_usage' = [stats_usage EXCEPT ![s][t] = Stats!Finished(stats_usage[s][t], ok)],
           NEW opened \in Seq(StatsTools), stats_open' = [stats_open EXCEPT ![s] = opened],
           \A i \in DOMAIN opened : i \in DOMAIN stats_open[s] /\ opened[i] = stats_open[s][i]
    PROVE  StatsInv'
<1> DEFINE u == Stats!Finished(stats_usage[s][t], ok)
<1>1. stats_usage[s][t] \in StatsUsage
  BY DEF StatsInv, StatsTypes
<1>5. /\ u \in StatsUsage /\ u.calls = stats_usage[s][t].calls
      /\ ok \/ u.successes = stats_usage[s][t].successes
  BY <1>1, UsageChanges
<1> HIDE DEF u
<1>6. stats_usage[s][t].calls \in Nat /\ (u.calls = 0 => u.successes = 0)
  <2>1. stats_usage[s][t].calls \in Nat
    BY <1>1 DEF StatsUsage
  <2>2. stats_usage[s][t].calls = 0 => stats_usage[s][t].successes = 0
    BY DEF StatsInv, StatsOf
  <2>3. ok => ~(stats_usage[s][t].calls = 0)
    BY <2>1
  <2> QED  BY <1>5, <2>1, <2>2, <2>3
<1>7. \A i \in DOMAIN opened :
         stats_usage[s][opened[i]].calls > 0 \/ (opened[i] = t /\ u.calls > 0)
  BY DEF StatsInv, StatsOf
<1>8. u.calls >= stats_usage[s][t].calls
  BY <1>5, <1>6
<1>9. stats_usage' = [stats_usage EXCEPT ![s][t] = u]
  BY DEF u
<1>10. PICK v \in StatsUsage : v = u
  BY <1>5
<1>11. /\ stats_usage' = [stats_usage EXCEPT ![s][t] = v]
       /\ v.calls >= stats_usage[s][t].calls /\ (v.calls = 0 => v.successes = 0)
       /\ \A i \in DOMAIN opened :
             stats_usage[s][opened[i]].calls > 0 \/ (opened[i] = t /\ v.calls > 0)
  BY <1>6, <1>7, <1>8, <1>9, <1>10
<1>12. v.calls >= stats_usage[s][t].calls /\ (v.calls = 0 => v.successes = 0)
  BY <1>11
<1>13. \A i \in DOMAIN opened :
          stats_usage[s][opened[i]].calls > 0 \/ (opened[i] = t /\ v.calls > 0)
  BY <1>11
<1>14. stats_usage' = [stats_usage EXCEPT ![s][t] = v]
  BY <1>11
<1> QED  BY <1>12, <1>13, <1>14, StatsCounted, ZenonT(30)

(* A call that ends was open; a call that is refused was not.              *)
LEMMA StatsToolFinished ==
    ASSUME StatsInv, NEW s \in StatsSessions, NEW ok \in BOOLEAN, Stats!ToolFinished(s, ok)
    PROVE  StatsInv'
<1> DEFINE t == stats_open[s][Len(stats_open[s])]
           opened == SubSeq(stats_open[s], 1, Len(stats_open[s]) - 1)
<1>1. stats_open[s] \in Seq(StatsTools) /\ stats_open[s] # <<>>
  BY DEF StatsInv, StatsTypes, Stats!ToolFinished
<1>2. Len(stats_open[s]) \in DOMAIN stats_open[s] /\ t \in StatsTools
  BY <1>1
<1>3. stats_usage[s][t].calls > 0
  BY <1>2 DEF StatsInv, StatsOf
<1>4. /\ stats_phase[s] = "running" /\ StatsStored
      /\ stats_usage' = [stats_usage EXCEPT ![s][t] = Stats!Finished(stats_usage[s][t], ok)]
      /\ stats_open' = [stats_open EXCEPT ![s] = opened]
  BY DEF Stats!ToolFinished, Stats!Count, Stats!storeVars, StatsStored
<1>5. /\ opened \in Seq(StatsTools)
      /\ \A i \in DOMAIN opened : i \in DOMAIN stats_open[s] /\ opened[i] = stats_open[s][i]
  BY <1>1
<1> HIDE DEF t, opened
<1> QED  BY <1>2, <1>3, <1>4, <1>5, StatsToolSettled

(* A call that is refused.                                                 *)
LEMMA StatsToolRefused ==
    ASSUME StatsInv, NEW s \in StatsSessions, NEW t \in StatsTools, Stats!ToolRefused(s, t)
    PROVE  StatsInv'
<1>1. stats_open[s] \in Seq(StatsTools) /\ stats_open \in [StatsSessions -> Seq(StatsTools)]
  BY DEF StatsInv, StatsTypes
<1>2. /\ stats_phase[s] = "running" /\ StatsStored
      /\ stats_usage' = [stats_usage EXCEPT ![s][t] = Stats!Finished(stats_usage[s][t], FALSE)]
      /\ stats_open' = stats_open
  BY DEF Stats!ToolRefused, Stats!Count, Stats!storeVars, StatsStored
<1>3. stats_open' = [stats_open EXCEPT ![s] = stats_open[s]]
  BY <1>1, <1>2
<1> QED  BY <1>1, <1>2, <1>3, StatsToolSettled

(* What is asked and answered for keeps the invariant: requests are        *)
(* counted only in a run.                                                  *)
LEMMA StatsApprovals ==
    ASSUME StatsInv, NEW s \in StatsSessions, NEW a,
           a \in [requested : Nat, allowed : Nat, denied : Nat, pending : BOOLEAN],
           stats_approval' = [stats_approval EXCEPT ![s] = a],
           stats_phase[s] = "running" \/ a.requested = stats_approval[s].requested,
           UNCHANGED <<stats_phase, stats_usage, stats_open, stats_rows, stats_decisions,
                       stats_ended, stats_missed>>
    PROVE  StatsInv'
<1>1. /\ stats_approval' \in
            [StatsSessions -> [requested : Nat, allowed : Nat, denied : Nat, pending : BOOLEAN]]
      /\ \A r \in StatsSessions :
            stats_approval'[r] = IF r = s THEN a ELSE stats_approval[r]
  BY DEF StatsInv, StatsTypes
<1>2. StatsTypes'
  BY <1>1 DEF StatsInv, StatsTypes
<1>3. \A r \in StatsSessions, t \in StatsTools : Stats!Ever'[r][t] = Stats!Ever[r][t]
  BY DEF Stats!Ever
<1>4. \A r \in StatsSessions : StatsOf(r) => StatsOf(r)'
  BY <1>1, <1>3 DEF StatsOf
<1> QED  BY <1>2, <1>4 DEF StatsInv

(* What an answer makes of the counters.                                   *)
LEMMA ApprovalChanges ==
    ASSUME NEW a \in [requested : Nat, allowed : Nat, denied : Nat, pending : BOOLEAN]
    PROVE  /\ Stats!Asked(a) \in
                 [requested : Nat, allowed : Nat, denied : Nat, pending : BOOLEAN]
           /\ \A yes \in BOOLEAN :
                 /\ Stats!Resolved(a, yes) \in
                       [requested : Nat, allowed : Nat, denied : Nat, pending : BOOLEAN]
                 /\ Stats!Resolved(a, yes).requested = a.requested
<1> DEFINE T == [requested : Nat, allowed : Nat, denied : Nat, pending : BOOLEAN]
<1>1. /\ a.requested \in Nat /\ a.requested + 1 \in Nat /\ a.allowed + 1 \in Nat
      /\ a.denied + 1 \in Nat
  OBVIOUS
<1>2. \A c \in T, n \in Nat :
         /\ [c EXCEPT !.requested = n] \in T
         /\ [c EXCEPT !.allowed = n] \in T /\ [c EXCEPT !.allowed = n].requested = c.requested
         /\ [c EXCEPT !.denied = n] \in T /\ [c EXCEPT !.denied = n].requested = c.requested
  OBVIOUS
<1>3. \A c \in T : /\ [c EXCEPT !.pending = TRUE] \in T
                   /\ [c EXCEPT !.pending = FALSE] \in T
                   /\ [c EXCEPT !.pending = FALSE].requested = c.requested
  OBVIOUS
<1>4. /\ Stats!Asked(a) = [[a EXCEPT !.requested = a.requested + 1] EXCEPT !.pending = TRUE]
      /\ Stats!Resolved(a, TRUE) = [[a EXCEPT !.allowed = a.allowed + 1] EXCEPT !.pending = FALSE]
      /\ Stats!Resolved(a, FALSE) = [[a EXCEPT !.denied = a.denied + 1] EXCEPT !.pending = FALSE]
  BY DEF Stats!Asked, Stats!Resolved
<1>5. a \in T
  OBVIOUS
<1>6. /\ [a EXCEPT !.requested = a.requested + 1] \in T
      /\ [a EXCEPT !.allowed = a.allowed + 1] \in T
      /\ [a EXCEPT !.allowed = a.allowed + 1].requested = a.requested
      /\ [a EXCEPT !.denied = a.denied + 1] \in T
      /\ [a EXCEPT !.denied = a.denied + 1].requested = a.requested
  BY <1>1, <1>2, <1>5
<1> HIDE DEF T
<1>7. /\ Stats!Asked(a) \in T
      /\ Stats!Resolved(a, TRUE) \in T /\ Stats!Resolved(a, TRUE).requested = a.requested
      /\ Stats!Resolved(a, FALSE) \in T /\ Stats!Resolved(a, FALSE).requested = a.requested
  BY <1>3, <1>4, <1>6
<1> QED  BY <1>7 DEF T

(* Requests and their answers.                                             *)
LEMMA StatsAsked ==
    ASSUME StatsInv, NEW s \in StatsSessions, NEW yes \in BOOLEAN,
           \/ Stats!ApprovalRequested(s) \/ Stats!ApprovalResolved(s, yes)
           \/ Stats!LateDenial(s)
    PROVE  StatsInv'
<1>1. stats_approval[s] \in [requested : Nat, allowed : Nat, denied : Nat, pending : BOOLEAN]
  BY DEF StatsInv, StatsTypes
<1>2. CASE Stats!ApprovalRequested(s)
  <2>1. PICK a : a = Stats!Asked(stats_approval[s])
    OBVIOUS
  <2> QED  BY <1>1, <1>2, <2>1, ApprovalChanges, StatsApprovals
           DEF Stats!ApprovalRequested, Stats!storeVars
<1>3. CASE Stats!ApprovalResolved(s, yes)
  <2>1. PICK a : a = Stats!Resolved(stats_approval[s], yes)
    OBVIOUS
  <2> QED  BY <1>1, <1>3, <2>1, ApprovalChanges, StatsApprovals
           DEF Stats!ApprovalResolved, Stats!storeVars
<1>4. CASE Stats!LateDenial(s)
  <2>1. PICK a : a = Stats!Resolved(stats_approval[s], FALSE)
    OBVIOUS
  <2> QED  BY <1>1, <1>4, <2>1, ApprovalChanges, StatsApprovals
           DEF Stats!LateDenial, Stats!storeVars
<1> QED  BY <1>2, <1>3, <1>4

(* A session that appears, or begins a run.                                *)
LEMMA StatsOpened ==
    ASSUME StatsInv, NEW s \in StatsSessions,
           Stats!Create(s) \/ Stats!Start(s) \/ Stats!Rebuild(s)
    PROVE  StatsInv'
<1>1. /\ stats_phase[s] # "running"
      /\ stats_phase' \in [StatsSessions -> {"none", "idle", "running", "recorded", "deleted"}]
      /\ \A r \in StatsSessions : r # s => stats_phase'[r] = stats_phase[r]
      /\ stats_usage' = stats_usage /\ stats_approval' = stats_approval
      /\ stats_open' = stats_open /\ stats_rows' = stats_rows
      /\ stats_decisions' = stats_decisions /\ stats_ended' = stats_ended
      /\ stats_missed' = stats_missed
  BY DEF StatsInv, StatsTypes, Stats!Create, Stats!Start, Stats!Rebuild, Stats!storeVars
<1>2. StatsTypes'
  BY <1>1 DEF StatsInv, StatsTypes
<1>3. \A r \in StatsSessions, t \in StatsTools : Stats!Ever'[r][t] = Stats!Ever[r][t]
  BY <1>1 DEF Stats!Ever
<1>4. \A r \in StatsSessions : StatsOf(r) => StatsOf(r)'
  BY <1>1, <1>3 DEF StatsOf
<1> QED  BY <1>2, <1>4 DEF StatsInv

(* What is added to a row covers what the row covered, and the counts.     *)
LEMMA AddedCovers ==
    ASSUME StatsTypes, NEW s \in StatsSessions, NEW t \in StatsTools,
           NEW stored \in StatsRow, NEW filed \in StatsRow, Covers(stored, stats_ended[s][t]),
           filed.calls >= stored.calls + stats_usage[s][t].calls,
           filed.successes >= stored.successes + stats_usage[s][t].successes,
           filed.errors >= stored.errors + stats_usage[s][t].errors
    PROVE  Covers(filed, Stats!Ever[s][t]) /\ Covers(filed, stats_ended[s][t])
<1>1. /\ stats_ended[s][t] \in StatsRow /\ stats_usage[s][t] \in StatsUsage
  BY DEF StatsTypes
<1>2. /\ stats_ended[s][t].calls \in Nat /\ stats_ended[s][t].successes \in Nat
      /\ stats_ended[s][t].errors \in Nat
      /\ stats_usage[s][t].calls \in Nat /\ stats_usage[s][t].successes \in Nat
      /\ stats_usage[s][t].errors \in Nat
      /\ filed.calls \in Nat /\ filed.successes \in Nat /\ filed.errors \in Nat
      /\ stored.calls \in Nat /\ stored.successes \in Nat /\ stored.errors \in Nat
  BY <1>1 DEF StatsRow, StatsUsage
<1> QED  BY <1>2, EverCounts DEF Covers

(* The writes that fail are remembered.                                    *)
LEMMA Remembered ==
    ASSUME NEW s, NEW broken, Stats!Fails({<<s, record>> : record \in broken})
    PROVE  /\ stats_missed \subseteq stats_missed'
           /\ \A record \in broken : <<s, record>> \in stats_missed'
BY DEF Stats!Fails

(* A run that ends.                                                        *)
LEMMA StatsEndRun ==
    ASSUME StatsInv, NEW s \in StatsSessions, Stats!EndRun(s)
    PROVE  StatsInv'
<1>1. PICK broken \in SUBSET Stats!Records :
         /\ stats_phase' = [stats_phase EXCEPT ![s] = "idle"]
         /\ stats_open' = [stats_open EXCEPT ![s] = <<>>]
         /\ stats_rows' = [stats_rows EXCEPT ![s] = Stats!FlushedRows(s, stats_rows[s], broken)]
         /\ stats_decisions' = [stats_decisions EXCEPT
                ![s] = Stats!FlushedApprovals(s, stats_decisions[s], broken)]
         /\ Stats!Fails({<<s, record>> : record \in broken})
         /\ UNCHANGED <<stats_usage, stats_approval, stats_ended>>
  BY DEF Stats!EndRun
<1>2. /\ stats_rows[s] \in [StatsTools -> StatsRow]
      /\ stats_decisions[s] \in [requested : Nat, allowed : Nat, denied : Nat]
      /\ StatsTypes
  BY DEF StatsInv, StatsTypes
<1>3. PICK flushed \in [StatsTools -> StatsRow] :
         /\ flushed = Stats!FlushedRows(s, stats_rows[s], broken)
         /\ \A t \in StatsTools \ broken :
               /\ flushed[t].calls = stats_rows[s][t].calls + stats_usage[s][t].calls
               /\ flushed[t].successes = stats_rows[s][t].successes + stats_usage[s][t].successes
               /\ flushed[t].errors = stats_rows[s][t].errors + stats_usage[s][t].errors
  BY <1>2, FlushAdds
<1>4. PICK denied \in [requested : Nat, allowed : Nat, denied : Nat] :
         /\ denied = Stats!FlushedApprovals(s, stats_decisions[s], broken)
         /\ "approvals" \notin broken =>
               denied.requested = stats_decisions[s].requested + stats_approval[s].requested
  BY <1>2, FlushAddsApprovals
<1>5. StatsTypes'
  BY <1>1, <1>2, <1>3, <1>4 DEF StatsTypes
<1>6. \A r \in StatsSessions, t \in StatsTools : Stats!Ever'[r][t] = Stats!Ever[r][t]
  BY <1>1 DEF Stats!Ever
<1>7. \A r \in StatsSessions \ {s} :
         /\ stats_phase'[r] = stats_phase[r] /\ stats_open'[r] = stats_open[r]
         /\ stats_rows'[r] = stats_rows[r] /\ stats_decisions'[r] = stats_decisions[r]
  BY <1>1, <1>2 DEF StatsTypes
<1>8. /\ stats_phase'[s] = "idle" /\ stats_open'[s] = <<>> /\ stats_rows'[s] = flushed
      /\ stats_decisions'[s] = denied
  BY <1>1, <1>2, <1>3, <1>4 DEF StatsTypes
<1>9. stats_missed \subseteq stats_missed' /\ \A x \in broken : <<s, x>> \in stats_missed'
  BY <1>1, Remembered
<1> SUFFICES ASSUME NEW r \in StatsSessions
             PROVE  StatsOf(r)'
  BY <1>5 DEF StatsInv
<1>10. CASE r # s
  BY <1>1, <1>6, <1>7, <1>9, <1>10 DEF StatsInv, StatsOf
<1>11. CASE r = s
  <2>1. ASSUME NEW t \in StatsTools, <<s, t>> \notin stats_missed'
        PROVE  Covers(flushed[t], Stats!Ever[s][t]) /\ Covers(flushed[t], stats_ended[s][t])
    <3>1. t \notin broken /\ <<s, t>> \notin stats_missed
      BY <1>9, <2>1
    <3>2. Covers(stats_rows[s][t], stats_ended[s][t])
      BY <3>1 DEF StatsInv, StatsOf
    <3>3. /\ flushed[t] \in StatsRow /\ stats_rows[s][t] \in StatsRow
          /\ stats_usage[s][t] \in StatsUsage
      BY <1>2 DEF StatsTypes
    <3>4. /\ flushed[t].calls >= stats_rows[s][t].calls + stats_usage[s][t].calls
          /\ flushed[t].successes >= stats_rows[s][t].successes + stats_usage[s][t].successes
          /\ flushed[t].errors >= stats_rows[s][t].errors + stats_usage[s][t].errors
      BY <1>3, <3>1, <3>3 DEF StatsRow, StatsUsage
    <3> QED  BY <1>2, <3>2, <3>3, <3>4, AddedCovers
  <2>2. <<s, "approvals">> \notin stats_missed' => denied.requested >= stats_approval[s].requested
    <3>1. stats_decisions[s].requested \in Nat /\ stats_approval[s].requested \in Nat
      BY <1>2 DEF StatsTypes
    <3> QED  BY <1>4, <1>9, <3>1
  <2>3. \A t \in StatsTools : stats_usage[s][t].calls = 0 => stats_usage[s][t].successes = 0
    BY DEF StatsInv, StatsOf
  <2> QED  BY <1>1, <1>6, <1>8, <1>11, <2>1, <2>2, <2>3 DEF StatsOf
<1> QED  BY <1>10, <1>11

(* Sessions that leave with everything they ever counted covered, or with  *)
(* the fault remembered.                                                   *)
LEMMA StatsLeave ==
    ASSUME StatsInv, NEW gone, gone \subseteq StatsSessions, NEW last \in {"recorded", "deleted"},
           Stats!Leaves(gone, last), stats_missed \subseteq stats_missed',
           stats_rows' \in [StatsSessions -> [StatsTools -> StatsRow]],
           stats_decisions' \in
              [StatsSessions -> [requested : Nat, allowed : Nat, denied : Nat]],
           \A r \in StatsSessions \ gone :
              stats_rows'[r] = stats_rows[r] /\ stats_decisions'[r] = stats_decisions[r],
           \A r \in gone, t \in StatsTools : <<r, t>> \notin stats_missed' =>
              Covers(stats_rows'[r][t], Stats!Ever[r][t])
    PROVE  StatsInv'
<1>1. /\ stats_phase' = [s \in StatsSessions |-> IF s \in gone THEN last ELSE stats_phase[s]]
      /\ stats_usage' = [s \in StatsSessions |->
            IF s \in gone THEN [t \in StatsTools |-> Stats!NoUsage] ELSE stats_usage[s]]
      /\ stats_approval' = [s \in StatsSessions |->
            IF s \in gone THEN Stats!NoApprovals ELSE stats_approval[s]]
      /\ stats_open' = [s \in StatsSessions |-> IF s \in gone THEN <<>> ELSE stats_open[s]]
      /\ stats_ended' = [s \in StatsSessions |->
            IF s \in gone THEN Stats!Ever[s] ELSE stats_ended[s]]
  BY DEF Stats!Leaves
<1>2. StatsTypes
  BY DEF StatsInv
<1>3. /\ Stats!NoUsage \in StatsUsage /\ Stats!NoUsage.calls = 0 /\ Stats!NoUsage.successes = 0
      /\ Stats!NoUsage.errors = 0
      /\ Stats!NoApprovals.requested = 0
      /\ <<>> \in Seq(StatsTools)
  BY DEF Stats!NoUsage, Stats!NoApprovals, StatsUsage
<1>4. Stats!NoApprovals \in [requested : Nat, allowed : Nat, denied : Nat, pending : BOOLEAN]
  BY DEF Stats!NoApprovals
<1>5. \A s \in StatsSessions : Stats!Ever[s] \in [StatsTools -> StatsRow]
  <2>1. \A s \in StatsSessions, t \in StatsTools : Stats!Ever[s][t] \in StatsRow
    BY <1>2, EverCounts
  <2> QED  BY <2>1 DEF Stats!Ever
<1>6. StatsTypes'
  <2>1. /\ stats_phase' \in
              [StatsSessions -> {"none", "idle", "running", "recorded", "deleted"}]
        /\ stats_open' \in [StatsSessions -> Seq(StatsTools)]
    BY <1>1, <1>2, <1>3 DEF StatsTypes
  <2>2. /\ stats_usage' \in [StatsSessions -> [StatsTools -> StatsUsage]]
        /\ stats_ended' \in [StatsSessions -> [StatsTools -> StatsRow]]
    BY <1>1, <1>2, <1>3, <1>5 DEF StatsTypes
  <2>3. stats_approval' \in
          [StatsSessions -> [requested : Nat, allowed : Nat, denied : Nat, pending : BOOLEAN]]
    BY <1>1, <1>2, <1>4 DEF StatsTypes
  <2> QED  BY <2>1, <2>2, <2>3 DEF StatsTypes
<1> SUFFICES ASSUME NEW r \in StatsSessions
             PROVE  StatsOf(r)'
  BY <1>6 DEF StatsInv
<1>7. CASE r \notin gone
  <2>1. /\ stats_phase'[r] = stats_phase[r] /\ stats_usage'[r] = stats_usage[r]
        /\ stats_approval'[r] = stats_approval[r] /\ stats_open'[r] = stats_open[r]
        /\ stats_ended'[r] = stats_ended[r]
        /\ stats_rows'[r] = stats_rows[r] /\ stats_decisions'[r] = stats_decisions[r]
    BY <1>1, <1>7
  <2>2. \A t \in StatsTools : Stats!Ever'[r][t] = Stats!Ever[r][t]
    BY <2>1 DEF Stats!Ever
  <2> QED  BY <2>1, <2>2 DEF StatsInv, StatsOf
<1>8. CASE r \in gone
  <2>1. /\ \A t \in StatsTools : stats_usage'[r][t] = Stats!NoUsage
        /\ stats_approval'[r] = Stats!NoApprovals /\ stats_open'[r] = <<>>
        /\ stats_ended'[r] = Stats!Ever[r]
    BY <1>1, <1>8
  <2>2. ASSUME NEW t \in StatsTools, <<r, t>> \notin stats_missed'
        PROVE  Covers(stats_rows'[r][t], stats_ended'[r][t])
               /\ Covers(stats_rows'[r][t], Stats!Ever'[r][t])
    <3>1. Covers(stats_rows'[r][t], stats_ended'[r][t])
      BY <1>8, <2>1, <2>2
    <3>2. /\ Stats!Ever'[r][t].calls = stats_ended'[r][t].calls + 0
          /\ Stats!Ever'[r][t].successes = stats_ended'[r][t].successes + 0
          /\ Stats!Ever'[r][t].errors = stats_ended'[r][t].errors + 0
      BY <1>3, <1>6, <2>1, EverCountsNext
    <3>3. stats_ended'[r][t] \in StatsRow
      BY <1>6 DEF StatsTypes
    <3> QED  BY <3>1, <3>2, <3>3 DEF Covers, StatsRow
  <2>3. stats_decisions'[r].requested \in Nat
    OBVIOUS
  <2> QED  BY <1>3, <2>1, <2>2, <2>3 DEF StatsOf
<1> QED  BY <1>7, <1>8

(* A session that is closed hands over its counters once, or twice.        *)
LEMMA StatsClosed ==
    ASSUME StatsInv, NEW s \in StatsSessions, NEW broken
    PROVE  /\ Stats!Closed(s, broken)[1] \in [StatsTools -> StatsRow]
           /\ Stats!Closed(s, broken)[2] \in [requested : Nat, allowed : Nat, denied : Nat]
           /\ \A t \in StatsTools : t \notin broken /\ <<s, t>> \notin stats_missed =>
                 Covers(Stats!Closed(s, broken)[1][t], Stats!Ever[s][t])
<1>1. /\ stats_rows[s] \in [StatsTools -> StatsRow]
      /\ stats_decisions[s] \in [requested : Nat, allowed : Nat, denied : Nat]
      /\ StatsTypes
  BY DEF StatsInv, StatsTypes
<1>2. PICK once \in [StatsTools -> StatsRow] :
         /\ once = Stats!FlushedRows(s, stats_rows[s], broken)
         /\ \A t \in StatsTools \ broken :
               /\ once[t].calls = stats_rows[s][t].calls + stats_usage[s][t].calls
               /\ once[t].successes = stats_rows[s][t].successes + stats_usage[s][t].successes
               /\ once[t].errors = stats_rows[s][t].errors + stats_usage[s][t].errors
  BY <1>1, FlushAdds
<1>3. PICK twice \in [StatsTools -> StatsRow] :
         /\ twice = Stats!FlushedRows(s, once, broken)
         /\ \A t \in StatsTools \ broken :
               /\ twice[t].calls = once[t].calls + stats_usage[s][t].calls
               /\ twice[t].successes = once[t].successes + stats_usage[s][t].successes
               /\ twice[t].errors = once[t].errors + stats_usage[s][t].errors
  BY FlushAdds
<1>4. PICK denied \in [requested : Nat, allowed : Nat, denied : Nat] :
         denied = Stats!FlushedApprovals(s, stats_decisions[s], broken)
  BY <1>1, FlushAddsApprovals
<1>5. Stats!FlushedApprovals(s, denied, broken) \in
         [requested : Nat, allowed : Nat, denied : Nat]
  BY <1>1, FlushAddsApprovals
<1>6. \/ Stats!Closed(s, broken) = <<once, denied>>
      \/ Stats!Closed(s, broken) = <<twice, Stats!FlushedApprovals(s, denied, broken)>>
  BY <1>2, <1>3, <1>4 DEF Stats!Closed
<1>7. ASSUME NEW t \in StatsTools, t \notin broken, <<s, t>> \notin stats_missed
      PROVE  Covers(once[t], Stats!Ever[s][t]) /\ Covers(twice[t], Stats!Ever[s][t])
  <2>1. Covers(stats_rows[s][t], stats_ended[s][t])
    BY <1>7 DEF StatsInv, StatsOf
  <2>2. /\ once[t] \in StatsRow /\ twice[t] \in StatsRow /\ stats_rows[s][t] \in StatsRow
        /\ stats_usage[s][t] \in StatsUsage
    BY <1>1, <1>2, <1>3 DEF StatsTypes
  <2>3. /\ once[t].calls \in Nat /\ once[t].successes \in Nat /\ once[t].errors \in Nat
        /\ stats_rows[s][t].calls \in Nat /\ stats_rows[s][t].successes \in Nat
        /\ stats_rows[s][t].errors \in Nat
        /\ stats_usage[s][t].calls \in Nat /\ stats_usage[s][t].successes \in Nat
        /\ stats_usage[s][t].errors \in Nat
    BY <2>2 DEF StatsRow, StatsUsage
  <2>4. /\ once[t].calls >= stats_rows[s][t].calls + stats_usage[s][t].calls
        /\ once[t].successes >= stats_rows[s][t].successes + stats_usage[s][t].successes
        /\ once[t].errors >= stats_rows[s][t].errors + stats_usage[s][t].errors
    BY <1>2, <1>7, <2>3
  <2>5. /\ twice[t].calls >= stats_rows[s][t].calls + stats_usage[s][t].calls
        /\ twice[t].successes >= stats_rows[s][t].successes + stats_usage[s][t].successes
        /\ twice[t].errors >= stats_rows[s][t].errors + stats_usage[s][t].errors
    BY <1>2, <1>3, <1>7, <2>3
  <2> QED  BY <1>1, <2>1, <2>2, <2>4, <2>5, AddedCovers
<1> QED  BY <1>5, <1>6, <1>7

(* A session that is closed.                                               *)
LEMMA StatsClose ==
    ASSUME StatsInv, NEW s \in StatsSessions, NEW last \in {"recorded", "deleted"},
           Stats!Close(s, last)
    PROVE  StatsInv'
<1>1. PICK broken \in SUBSET Stats!Records :
         /\ stats_rows' = [stats_rows EXCEPT ![s] = Stats!Closed(s, broken)[1]]
         /\ stats_decisions' = [stats_decisions EXCEPT ![s] = Stats!Closed(s, broken)[2]]
         /\ Stats!Fails({<<s, record>> : record \in broken})
         /\ Stats!Leaves({s}, last)
  BY DEF Stats!Close
<1>2. PICK filed \in [StatsTools -> StatsRow],
           said \in [requested : Nat, allowed : Nat, denied : Nat] :
         /\ filed = Stats!Closed(s, broken)[1] /\ said = Stats!Closed(s, broken)[2]
         /\ \A t \in StatsTools : t \notin broken /\ <<s, t>> \notin stats_missed =>
               Covers(filed[t], Stats!Ever[s][t])
  BY StatsClosed
<1>3. stats_missed \subseteq stats_missed' /\ \A x \in broken : <<s, x>> \in stats_missed'
  BY <1>1, Remembered
<1>4. /\ stats_rows' \in [StatsSessions -> [StatsTools -> StatsRow]]
      /\ stats_decisions' \in
            [StatsSessions -> [requested : Nat, allowed : Nat, denied : Nat]]
      /\ stats_rows'[s] = filed
      /\ \A r \in StatsSessions \ {s} :
            stats_rows'[r] = stats_rows[r] /\ stats_decisions'[r] = stats_decisions[r]
  BY <1>1, <1>2 DEF StatsInv, StatsTypes
<1>5. \A r \in {s}, t \in StatsTools : <<r, t>> \notin stats_missed' =>
         Covers(stats_rows'[r][t], Stats!Ever[r][t])
  BY <1>2, <1>3, <1>4
<1> QED  BY <1>1, <1>3, <1>4, <1>5, StatsLeave

(* The process dies: what the rows of its runs lack is remembered.         *)
LEMMA StatsCrash == ASSUME StatsInv, Stats!Crash PROVE StatsInv'
<1>1. /\ Stats!Leaves(Stats!Live, "recorded")
      /\ stats_rows' = stats_rows /\ stats_decisions' = stats_decisions
      /\ stats_missed' = stats_missed \cup
            ({s \in Stats!Live : stats_phase[s] = "running"} \X Stats!Records)
  BY DEF Stats!Crash
<1>2. Stats!Live \subseteq StatsSessions
  BY DEF Stats!Live
<1>3. ASSUME NEW r \in Stats!Live, NEW t \in StatsTools, <<r, t>> \notin stats_missed'
      PROVE  Covers(stats_rows'[r][t], Stats!Ever[r][t])
  <2>1. t \in Stats!Records
    BY DEF Stats!Records
  <2>2. stats_phase[r] # "running" /\ <<r, t>> \notin stats_missed
    BY <1>1, <1>3, <2>1
  <2> QED  BY <1>1, <1>2, <2>2 DEF StatsInv, StatsOf
<1>4. /\ stats_rows' \in [StatsSessions -> [StatsTools -> StatsRow]]
      /\ stats_decisions' \in
            [StatsSessions -> [requested : Nat, allowed : Nat, denied : Nat]]
  BY <1>1 DEF StatsInv, StatsTypes
<1>5. stats_missed \subseteq stats_missed'
  BY <1>1
<1> QED  BY <1>1, <1>2, <1>3, <1>4, <1>5, StatsLeave

(* Every step keeps the invariant.                                         *)
LEMMA StatsStep == StatsInv /\ [Stats!Next]_(Stats!statsVars) => StatsInv'
<1> SUFFICES ASSUME StatsInv, [Stats!Next]_(Stats!statsVars)
             PROVE  StatsInv'
  OBVIOUS
<1>1. CASE UNCHANGED Stats!statsVars
  <2>1. \A r \in StatsSessions, t \in StatsTools : Stats!Ever'[r][t] = Stats!Ever[r][t]
    BY <1>1 DEF Stats!Ever, Stats!statsVars
  <2> QED  BY <1>1, <2>1 DEF StatsInv, StatsTypes, StatsOf, Stats!statsVars
<1>2. CASE Stats!Crash
  BY <1>2, StatsCrash
<1>3. CASE Stats!Next /\ ~ Stats!Crash
  BY <1>3, StatsToolStarted, StatsToolRefused, StatsToolFinished, StatsAsked, StatsOpened,
     StatsEndRun, StatsClose DEF Stats!Next
<1> QED  BY <1>1, <1>2, <1>3

(* The element a sum over a set begins with.                               *)
FirstOf(s) == CHOOSE x \in s : TRUE

(* The subsets of at most n elements, and what a sum over them is.         *)
Upto(S, n) == {s \in SUBSET S : Cardinality(s) <= n}
Sums(S, f, n, g) ==
   /\ g \in [Upto(S, n) -> Nat]
   /\ g[{}] = 0
   /\ \A s \in Upto(S, n) : s # {} => g[s] = f[FirstOf(s)] + g[s \ {FirstOf(s)}]

(* What a set is without an element.                                       *)
LEMMA SmallerSet ==
   ASSUME NEW S, IsFiniteSet(S), NEW s \in SUBSET S, s # {}
   PROVE  /\ FirstOf(s) \in s
          /\ s \ {FirstOf(s)} \in SUBSET S
          /\ Cardinality(s) \in Nat
          /\ Cardinality(s) # 0
          /\ Cardinality(s \ {FirstOf(s)}) = Cardinality(s) - 1
<1>1. FirstOf(s) \in s
  BY DEF FirstOf
<1>2. IsFiniteSet(s)
  BY FS_Subset
<1> QED  BY <1>1, <1>2, FS_RemoveElement, FS_CardinalityType, FS_EmptySet

(* Sums over sets of n elements extend to sets of n + 1.                   *)
LEMMA SumsExtend ==
   ASSUME NEW S, IsFiniteSet(S), NEW f \in [S -> Nat], NEW n \in Nat,
          NEW g, Sums(S, f, n, g)
   PROVE  \E h : Sums(S, f, n + 1, h)
<1> DEFINE h == [s \in Upto(S, n+1) |-> IF s = {} THEN 0 ELSE f[FirstOf(s)] + g[s \ {FirstOf(s)}]]
<1>1. \A s \in Upto(S, n+1) : s # {} => FirstOf(s) \in S /\ s \ {FirstOf(s)} \in Upto(S, n)
  BY SmallerSet DEF Upto
<1>2. h \in [Upto(S, n+1) -> Nat]
  BY <1>1 DEF Sums
<1>3. {} \in Upto(S, n+1) /\ {} \in Upto(S, n)
  BY FS_EmptySet DEF Upto
<1>4. \A s \in Upto(S, n) : h[s] = g[s]
  <2>1. \A s \in Upto(S, n) : s \in Upto(S, n+1)
    <3> SUFFICES ASSUME NEW s \in Upto(S, n) PROVE s \in Upto(S, n+1)
      OBVIOUS
    <3>1. Cardinality(s) \in Nat
      BY FS_Subset, FS_CardinalityType DEF Upto
    <3> QED  BY <3>1 DEF Upto
  <2> QED  BY <2>1, <1>3 DEF Sums
<1>5. h[{}] = 0
  BY <1>3
<1>6. \A s \in Upto(S, n+1) : s # {} => h[s] = f[FirstOf(s)] + h[s \ {FirstOf(s)}]
  BY <1>1, <1>4
<1> HIDE DEF h
<1>7. Sums(S, f, n+1, h)
  BY <1>2, <1>5, <1>6 DEF Sums
<1> QED  BY <1>7

(* Sums exist: a least n without them would follow one that has them.      *)
LEMMA SumsExist ==
   ASSUME NEW S, IsFiniteSet(S), NEW f \in [S -> Nat], NEW n \in Nat
   PROVE  \E g : Sums(S, f, n, g)
<1> DEFINE Bad == {m \in Nat : ~ \E g : Sums(S, f, m, g)}
<1>1. SUFFICES ASSUME Bad # {} PROVE FALSE
  OBVIOUS
<1>2. PICK m \in Bad : \A k \in Bad : m <= k
  BY <1>1, LeastNumber
<1>3. CASE m = 0
  <2> DEFINE g == [s \in Upto(S, 0) |-> 0]
  <2>1. \A s \in Upto(S, 0) : s = {}
    <3> SUFFICES ASSUME NEW s \in Upto(S, 0), s # {} PROVE FALSE
      OBVIOUS
    <3>1. s \in SUBSET S /\ Cardinality(s) <= 0
      BY DEF Upto
    <3>2. Cardinality(s) \in Nat /\ Cardinality(s) # 0
      BY <3>1, SmallerSet
    <3> QED  BY <3>1, <3>2
  <2>2. {} \in Upto(S, 0)
    BY FS_EmptySet DEF Upto
  <2>3. Sums(S, f, 0, g)
    BY <2>1, <2>2 DEF Sums
  <2> QED  BY <1>3, <2>3
<1>4. CASE m # 0
  <2>1. m - 1 \in Nat /\ m - 1 \notin Bad /\ (m - 1) + 1 = m
    BY <1>2, <1>4
  <2>2. PICK g : Sums(S, f, m - 1, g)
    BY <2>1
  <2>3. \E h : Sums(S, f, m, h)
    BY <2>1, <2>2, SumsExtend
  <2> QED  BY <2>3
<1> QED  BY <1>3, <1>4

(* The sum that a fold computes is the sum of its parts.                   *)
LEMMA SumIs ==
   ASSUME NEW S, IsFiniteSet(S), NEW f \in [S -> Nat]
   PROVE  \E g : Sums(S, f, Cardinality(S), g) /\ Stats!SumFunction(f) = g[S]
<1>1. Cardinality(S) \in Nat
  BY FS_CardinalityType
<1>2. Upto(S, Cardinality(S)) = SUBSET S
  BY FS_Subset DEF Upto
<1>3. PICK g : Sums(S, f, Cardinality(S), g)
  BY <1>1, SumsExist
<1>4. g = [s \in SUBSET S |-> IF s = {} THEN 0 ELSE f[CHOOSE x \in s : TRUE] + g[s \ {CHOOSE x \in s : TRUE}]]
  BY <1>2, <1>3 DEF Sums, FirstOf
<1> DEFINE iter == CHOOSE i : i = [s \in SUBSET S |-> IF s = {} THEN 0 ELSE f[CHOOSE x \in s : TRUE] + i[s \ {CHOOSE x \in s : TRUE}]]
<1>5. iter = [s \in SUBSET S |-> IF s = {} THEN 0 ELSE f[CHOOSE x \in s : TRUE] + iter[s \ {CHOOSE x \in s : TRUE}]]
  BY <1>4
<1>6. Stats!SumFunction(f) = iter[S]
  <2>1. DOMAIN f = S
    OBVIOUS
  <2> QED  BY <2>1 DEF Stats!SumFunction, Stats!SumFunctionOnSet, Stats!FoldFunctionOnSet, Stats!MapThenFoldSet
<1> HIDE DEF iter
<1>7. iter[{}] = 0 /\ g[{}] = 0
  BY <1>5, <1>3 DEF Sums
<1>8. \A s \in SUBSET S : iter[s] = g[s]
  <2> DEFINE Bad == {k \in Nat : \E s \in SUBSET S : Cardinality(s) = k /\ iter[s] # g[s]}
  <2>1. SUFFICES ASSUME NEW s0 \in SUBSET S, iter[s0] # g[s0] PROVE FALSE
    OBVIOUS
  <2>2. Cardinality(s0) \in Bad
    BY <2>1, FS_Subset, FS_CardinalityType
  <2>3. PICK k \in Bad : \A j \in Bad : k <= j
    <3>1. Bad # {} /\ Bad \subseteq Nat
      BY <2>2
    <3> HIDE DEF Bad
    <3> QED  BY <3>1, LeastNumber
  <2>4. PICK s \in SUBSET S : Cardinality(s) = k /\ iter[s] # g[s]
    BY <2>3
  <2>5. s # {}
    BY <2>4, <1>7
  <2>6. iter[s] = f[FirstOf(s)] + iter[s \ {FirstOf(s)}]
    BY <1>5, <2>5 DEF FirstOf
  <2>7. g[s] = f[FirstOf(s)] + g[s \ {FirstOf(s)}]
    BY <1>2, <1>3, <2>5 DEF Sums
  <2>8. iter[s \ {FirstOf(s)}] # g[s \ {FirstOf(s)}]
    BY <2>4, <2>6, <2>7
  <2>9. /\ s \ {FirstOf(s)} \in SUBSET S
        /\ Cardinality(s \ {FirstOf(s)}) = k - 1 /\ k - 1 \in Nat
    <3>1. k \in Nat
      BY <2>3
    <3>2. /\ FirstOf(s) \in s /\ s \ {FirstOf(s)} \in SUBSET S
          /\ Cardinality(s) \in Nat
          /\ Cardinality(s) # 0
          /\ Cardinality(s \ {FirstOf(s)}) = Cardinality(s) - 1
      BY <2>5, SmallerSet
    <3> QED  BY <2>4, <3>1, <3>2
  <2>10. k - 1 \in Bad
    BY <2>8, <2>9
  <2> QED  BY <2>3, <2>10
<1> QED  BY <1>3, <1>6, <1>8

(* Sums of greater parts are greater.                                      *)
LEMMA SumMonotone ==
   ASSUME NEW S, IsFiniteSet(S), NEW e \in [S -> Nat], NEW f \in [S -> Nat],
          \A x \in S : e[x] <= f[x]
   PROVE  Stats!SumFunction(e) <= Stats!SumFunction(f)
<1>1. PICK g : Sums(S, e, Cardinality(S), g) /\ Stats!SumFunction(e) = g[S]
  BY SumIs
<1>2. PICK h : Sums(S, f, Cardinality(S), h) /\ Stats!SumFunction(f) = h[S]
  BY SumIs
<1>3. Upto(S, Cardinality(S)) = SUBSET S
  BY FS_Subset DEF Upto
<1>4. \A s \in SUBSET S : g[s] <= h[s]
  <2> DEFINE Bad == {k \in Nat : \E s \in SUBSET S : Cardinality(s) = k /\ ~(g[s] <= h[s])}
  <2>1. SUFFICES ASSUME NEW s0 \in SUBSET S, ~(g[s0] <= h[s0]) PROVE FALSE
    OBVIOUS
  <2>2. Cardinality(s0) \in Bad
    BY <2>1, FS_Subset, FS_CardinalityType
  <2>3. PICK k \in Bad : \A j \in Bad : k <= j
    <3>1. Bad # {} /\ Bad \subseteq Nat
      BY <2>2
    <3> HIDE DEF Bad
    <3> QED  BY <3>1, LeastNumber
  <2>4. PICK s \in SUBSET S : Cardinality(s) = k /\ ~(g[s] <= h[s])
    BY <2>3
  <2>0. g[{}] = 0 /\ h[{}] = 0
    BY <1>1, <1>2 DEF Sums
  <2>5. s # {}
    BY <2>0, <2>4
  <2>6. /\ FirstOf(s) \in S /\ s \ {FirstOf(s)} \in SUBSET S
        /\ Cardinality(s \ {FirstOf(s)}) = k - 1 /\ k - 1 \in Nat
    <3>1. k \in Nat
      BY <2>3
    <3>2. /\ FirstOf(s) \in s /\ s \ {FirstOf(s)} \in SUBSET S
          /\ Cardinality(s) \in Nat
          /\ Cardinality(s) # 0
          /\ Cardinality(s \ {FirstOf(s)}) = Cardinality(s) - 1
      BY <2>5, SmallerSet
    <3> QED  BY <2>4, <3>1, <3>2
  <2>7. /\ g[s] = e[FirstOf(s)] + g[s \ {FirstOf(s)}]
        /\ h[s] = f[FirstOf(s)] + h[s \ {FirstOf(s)}]
        /\ g[s \ {FirstOf(s)}] \in Nat /\ h[s \ {FirstOf(s)}] \in Nat
    BY <1>1, <1>2, <1>3, <2>5, <2>6 DEF Sums
  <2>8. g[s \ {FirstOf(s)}] <= h[s \ {FirstOf(s)}]
    BY <2>3, <2>6
  <2>9. e[FirstOf(s)] <= f[FirstOf(s)] /\ e[FirstOf(s)] \in Nat /\ f[FirstOf(s)] \in Nat
    BY <2>6
  <2> QED  BY <2>4, <2>7, <2>8, <2>9
<1> QED  BY <1>1, <1>2, <1>3, <1>4

(* A sum of numbers is a number.                                           *)
LEMMA SumIsNumber ==
    ASSUME NEW S, IsFiniteSet(S), NEW f \in [S -> Nat]
    PROVE  Stats!SumFunction(f) \in Nat
<1>1. PICK g : Sums(S, f, Cardinality(S), g) /\ Stats!SumFunction(f) = g[S]
  BY SumIs
<1>2. S \in Upto(S, Cardinality(S))
  BY FS_CardinalityType DEF Upto
<1> QED  BY <1>1, <1>2 DEF Sums

(* A row of the history is a part of its totals.                           *)
LEMMA TotalsCover ==
    ASSUME StatsInv, Stats!AtRest, stats_missed = {}
    PROVE  /\ Stats!TotalCalls(stats_rows) >= Stats!TotalCalls(Stats!Ever)
           /\ Stats!TotalErrors(stats_rows) >= Stats!TotalErrors(Stats!Ever)
<1> DEFINE S == StatsSessions \X StatsTools
           storedCalls == [p \in S |-> stats_rows[p[1]][p[2]].calls]
           everCalls == [p \in S |-> Stats!Ever[p[1]][p[2]].calls]
           storedErrors == [p \in S |-> stats_rows[p[1]][p[2]].errors]
           everErrors == [p \in S |-> Stats!Ever[p[1]][p[2]].errors]
<1>1. IsFiniteSet(S)
  BY StatsAssumption, FS_Product
<1>2. ASSUME NEW s \in StatsSessions, NEW t \in StatsTools
      PROVE  /\ stats_rows[s][t].calls \in Nat /\ stats_rows[s][t].errors \in Nat
             /\ Stats!Ever[s][t].calls \in Nat /\ Stats!Ever[s][t].errors \in Nat
             /\ Stats!Ever[s][t].calls <= stats_rows[s][t].calls
             /\ Stats!Ever[s][t].errors <= stats_rows[s][t].errors
  <2>1. stats_rows[s][t] \in StatsRow /\ Stats!Ever[s][t] \in StatsRow
    BY EverCounts DEF StatsInv, StatsTypes
  <2>2. Covers(stats_rows[s][t], Stats!Ever[s][t])
    BY DEF StatsInv, StatsOf, Stats!AtRest
  <2> QED  BY <2>1, <2>2 DEF Covers, StatsRow
<1>3. /\ storedCalls \in [S -> Nat] /\ everCalls \in [S -> Nat]
      /\ storedErrors \in [S -> Nat] /\ everErrors \in [S -> Nat]
      /\ \A p \in S : everCalls[p] <= storedCalls[p] /\ everErrors[p] <= storedErrors[p]
  BY <1>2
<1>4. /\ Stats!TotalCalls(stats_rows) = Stats!SumFunction(storedCalls)
      /\ Stats!TotalCalls(Stats!Ever) = Stats!SumFunction(everCalls)
      /\ Stats!TotalErrors(stats_rows) = Stats!SumFunction(storedErrors)
      /\ Stats!TotalErrors(Stats!Ever) = Stats!SumFunction(everErrors)
  BY DEF Stats!TotalCalls, Stats!TotalErrors
<1> HIDE DEF S, storedCalls, everCalls, storedErrors, everErrors
<1>5. /\ Stats!SumFunction(everCalls) <= Stats!SumFunction(storedCalls)
      /\ Stats!SumFunction(everErrors) <= Stats!SumFunction(storedErrors)
  BY <1>1, <1>3, SumMonotone
<1>6. /\ Stats!SumFunction(everCalls) \in Nat /\ Stats!SumFunction(storedCalls) \in Nat
      /\ Stats!SumFunction(everErrors) \in Nat /\ Stats!SumFunction(storedErrors) \in Nat
  BY <1>1, <1>3, SumIsNumber
<1> QED  BY <1>4, <1>5, <1>6

(* While no run is going, a row that lost no write holds at least what its *)
(* session ever counted, its approvals' row what it was asked, and, if no  *)
(* write was lost at all, the totals of the history at least what all      *)
(* sessions ever counted, through any runs, closes, crashes and restarts   *)
(* (ToolStats.flush, ToolStatsStore.total_tool_calls).                     *)
THEOREM StatisticsKeepEveryCall == ServicesSpec => []EveryCallIsCounted
<1>1. ServicesInit => StatsInv
  <2> SUFFICES ASSUME ServicesInit
               PROVE  StatsInv
    OBVIOUS
  <2>1. Stats!Init
    BY DEF ServicesInit
  <2>2. StatsTypes
    BY <2>1 DEF Stats!Init, StatsTypes, StatsUsage, StatsRow, Stats!NoUsage, Stats!NoRow,
                Stats!NoApprovals
  <2>3. ASSUME NEW s \in StatsSessions, NEW t \in StatsTools
        PROVE  /\ stats_usage[s][t] = Stats!NoUsage /\ stats_rows[s][t] = Stats!NoRow
               /\ stats_ended[s][t] = Stats!NoRow
    BY <2>1 DEF Stats!Init
  <2>4. ASSUME NEW s \in StatsSessions
        PROVE  StatsOf(s)
    <3>1. /\ \A t \in StatsTools : stats_usage[s][t].successes = 0
          /\ stats_open[s] = <<>>
          /\ stats_decisions[s].requested = 0 /\ stats_approval[s].requested = 0
      BY <2>1 DEF Stats!Init, Stats!NoUsage, Stats!NoApprovals
    <3>2. ASSUME NEW t \in StatsTools
          PROVE  Covers(stats_rows[s][t], stats_ended[s][t])
                 /\ Covers(stats_rows[s][t], Stats!Ever[s][t])
      <4>1. /\ Stats!Ever[s][t].calls = 0 + 0 /\ Stats!Ever[s][t].successes = 0 + 0
            /\ Stats!Ever[s][t].errors = 0 + 0
        BY <2>2, <2>3, EverCounts DEF Stats!NoUsage, Stats!NoRow
      <4> QED  BY <2>3, <4>1 DEF Covers, Stats!NoRow
    <3> QED  BY <3>1, <3>2 DEF StatsOf
  <2> QED  BY <2>2, <2>4 DEF StatsInv
<1>2. StatsInv => EveryCallIsCounted
  <2> SUFFICES ASSUME StatsInv, Stats!AtRest
               PROVE  Stats!EveryCallIsCounted
    BY DEF EveryCallIsCounted, Stats!EveryCallIsCounted
  <2>1. ASSUME NEW s \in StatsSessions, NEW t \in StatsTools, <<s, t>> \notin stats_missed
        PROVE  Covers(stats_rows[s][t], Stats!Ever[s][t])
    BY <2>1 DEF StatsInv, StatsOf, Stats!AtRest
  <2>2. \A s \in Stats!Live : <<s, "approvals">> \notin stats_missed =>
           stats_decisions[s].requested >= stats_approval[s].requested
    BY DEF StatsInv, StatsOf, Stats!AtRest, Stats!Live
  <2> QED  BY <2>1, <2>2, TotalsCover DEF Stats!EveryCallIsCounted, Covers
<1>3. StatsInv /\ [ServicesNext]_servicesVars => StatsInv'
  BY StatsSteps, StatsStep
<1> QED  BY <1>1, <1>2, <1>3, PTL DEF ServicesSpec

---------------------------------------------------------------------------
(* The transcript.                                                         *)

(* What the page, its agents and the history of what was said hold.        *)
PageKinds == {"thinking", "assistant"}
PageChunk == [request : Nat, n : Nat]
PageRun == Kids \cup Nat
PageEntry == [kind : {"user", "thinking", "assistant", "tool", "error"}, id : Nat, run : PageRun,
              text : Seq(PageChunk), call : Nat,
              status : {"none", "running", "success", "error"}]
PageTypes ==
    /\ page_entries \in Seq(PageEntry)
    /\ page_said \in Seq([run : PageRun, thinking : Nat, assistant : Nat])
    /\ page_calls \in Seq({"none", "running", "success", "error"})
    /\ page_ids \in Nat /\ page_counter \in Nat
    /\ page_actor \in [{"main", "child"} ->
          [stage : {"off", "ready", "streaming", "tool"}, run : PageRun, request : Nat,
           call : Nat]]
    /\ \A r \in DOMAIN page_blocks : page_blocks[r] \in [thinking : Nat, assistant : Nat]

(* Chunks 1 to n of request q.                                             *)
ChunksOf(q, n) == [m \in 1..n |-> [request |-> q, n |-> m]]

(* An entry with a text shows all that was said of its kind by a request   *)
(* of its run, and a tool's row the outcome of its call.                   *)
ShowsWhatWasSaid(e, said, outcomes) ==
    /\ e.kind \in PageKinds =>
          /\ e.text # <<>> /\ Page!Of(e) \in DOMAIN said
          /\ said[Page!Of(e)].run = e.run
          /\ e.text = ChunksOf(Page!Of(e), said[Page!Of(e)][e.kind])
    /\ e.kind \notin PageKinds => e.text = <<>>
    /\ e.kind = "tool" => e.call \in DOMAIN outcomes /\ e.status = outcomes[e.call]

(* The entries are numbered upwards and show what was said, in order.      *)
ShownInOrder(E, ids, said, outcomes) ==
    /\ \A i \in DOMAIN E : E[i].id \in 1..ids /\ ShowsWhatWasSaid(E[i], said, outcomes)
    /\ \A i, j \in DOMAIN E : i < j =>
          /\ E[i].id < E[j].id
          /\ E[i].kind = E[j].kind /\ E[i].kind \in PageKinds => Page!Of(E[i]) < Page!Of(E[j])

(* Request q's text of a kind is among the entries.                        *)
Present(E, q, kind) == \E i \in DOMAIN E : E[i].kind = kind /\ Page!Of(E[i]) = q
NothingMissing(E, said, discarded) ==
    \A q \in DOMAIN said, kind \in PageKinds :
       said[q][kind] > 0 => q \in discarded \/ Present(E, q, kind)

(* Entry b is the one the chunks of request q are added to; 0 is none.     *)
Fills(E, kind, b, q, said) ==
    IF b = 0 THEN said[q][kind] = 0
    ELSE \E i \in DOMAIN E : E[i].kind = kind /\ E[i].id = b /\ Page!Of(E[i]) = q

(* Who streams is filling the blocks of the last request, and a subagent   *)
(* works inside a call of the main agent.                                  *)
PageInv ==
    /\ PageTypes
    /\ ShownInOrder(page_entries, page_ids, page_said, page_calls)
    /\ NothingMissing(page_entries, page_said, page_discarded)
    /\ page_actor["child"].stage # "off" => page_actor["main"].stage = "tool"
    /\ \A a \in {"main", "child"} : page_actor[a].stage = "off" => page_actor[a] = Page!Off
    /\ \A a \in {"main", "child"} : page_actor[a].stage = "streaming" =>
          /\ page_actor[a].request = Len(page_said) /\ page_said # <<>>
          /\ page_said[Len(page_said)].run = page_actor[a].run
          /\ \A kind \in PageKinds :
                Fills(page_entries, kind, Page!blocksOf(page_actor[a].run)[kind],
                      Len(page_said), page_said)

(* A step of Services is a step of the transcript or leaves it alone.      *)
LEMMA PageSteps == [ServicesNext]_servicesVars => [Page!Next]_(Page!transcriptVars)
BY DEF ServicesNext, Only, servicesVars, pageVars, Page!transcriptVars, Page!agentVars

(* An entry of the type has the parts of one.                              *)
LEMMA EntryParts ==
    ASSUME NEW e \in PageEntry
    PROVE  /\ e.id \in Nat /\ e.call \in Nat /\ e.run \in PageRun /\ e.text \in Seq(PageChunk)
           /\ e.kind \in {"user", "thinking", "assistant", "tool", "error"}
           /\ e.text # <<>> => Page!Of(e) \in Nat
<1>1. e.text \in Seq(PageChunk)
  BY DEF PageEntry
<1>2. e.text # <<>> => e.text[1] \in PageChunk
  BY <1>1
<1> QED  BY <1>1, <1>2 DEF PageEntry, PageChunk, Page!Of

(* An entry that is added at the end, with the next number and a text of a *)
(* later request than the texts before it.                                 *)
LEMMA AppendShown ==
    ASSUME NEW E \in Seq(PageEntry), NEW top \in Nat, NEW said, NEW outcomes,
           ShownInOrder(E, top, said, outcomes),
           NEW e \in PageEntry, e.id = top + 1, ShowsWhatWasSaid(e, said, outcomes),
           e.kind \in PageKinds =>
              \A i \in DOMAIN E : E[i].kind = e.kind => Page!Of(E[i]) < Page!Of(e)
    PROVE  /\ Append(E, e) \in Seq(PageEntry)
           /\ ShownInOrder(Append(E, e), top + 1, said, outcomes)
           /\ \A i \in DOMAIN E : i \in DOMAIN Append(E, e) /\ Append(E, e)[i] = E[i]
           /\ Len(Append(E, e)) \in DOMAIN Append(E, e) /\ Append(E, e)[Len(Append(E, e))] = e
<1> DEFINE F == Append(E, e)
<1>1. /\ F \in Seq(PageEntry) /\ Len(F) = Len(E) + 1 /\ DOMAIN F = 1..(Len(E) + 1)
      /\ DOMAIN E = 1..Len(E) /\ Len(E) \in Nat
      /\ \A i \in DOMAIN E : i \in DOMAIN F /\ F[i] = E[i]
      /\ F[Len(E) + 1] = e /\ Len(F) \in DOMAIN F
  OBVIOUS
<1> HIDE DEF F
<1>2. \A i \in DOMAIN F : i = Len(E) + 1 \/ i \in DOMAIN E
  BY <1>1
<1>3. \A i \in DOMAIN E : E[i].id \in 1..top /\ E[i].id \in 1..(top + 1)
  BY DEF ShownInOrder
<1>4. \A i \in DOMAIN F : F[i].id \in 1..(top + 1) /\ ShowsWhatWasSaid(F[i], said, outcomes)
  <2> SUFFICES ASSUME NEW i \in DOMAIN F
               PROVE  F[i].id \in 1..(top + 1) /\ ShowsWhatWasSaid(F[i], said, outcomes)
    OBVIOUS
  <2>1. CASE i = Len(E) + 1
    BY <1>1, <2>1
  <2>2. CASE i \in DOMAIN E
    BY <1>1, <1>3, <2>2 DEF ShownInOrder
  <2> QED  BY <1>2, <2>1, <2>2
<1>5. ASSUME NEW i \in DOMAIN F, NEW j \in DOMAIN F, i < j
      PROVE  /\ F[i].id < F[j].id
             /\ F[i].kind = F[j].kind /\ F[i].kind \in PageKinds =>
                   Page!Of(F[i]) < Page!Of(F[j])
  <2>1. i \in DOMAIN E /\ F[i] = E[i]
    BY <1>1, <1>5
  <2>2. CASE j = Len(E) + 1
    <3>1. F[j] = e
      BY <1>1, <2>2
    <3> QED  BY <1>3, <2>1, <3>1
  <2>3. CASE j \in DOMAIN E
    <3>1. F[j] = E[j]
      BY <1>1, <2>3
    <3> QED  BY <1>5, <2>1, <2>3, <3>1 DEF ShownInOrder
  <2> QED  BY <1>2, <2>2, <2>3
<1>6. ShownInOrder(F, top + 1, said, outcomes)
  BY <1>4, <1>5 DEF ShownInOrder
<1> QED  BY <1>1, <1>6 DEF F

(* What is shown at the start is shown still when the end is cut off.      *)
LEMMA PrefixShown ==
    ASSUME NEW E \in Seq(PageEntry), NEW top \in Nat, NEW said, NEW outcomes,
           ShownInOrder(E, top, said, outcomes), NEW n \in 0..Len(E)
    PROVE  /\ SubSeq(E, 1, n) \in Seq(PageEntry) /\ Len(SubSeq(E, 1, n)) = n
           /\ ShownInOrder(SubSeq(E, 1, n), top, said, outcomes)
           /\ \A i \in 1..n : i \in DOMAIN E /\ SubSeq(E, 1, n)[i] = E[i]
           /\ DOMAIN SubSeq(E, 1, n) = 1..n
<1>1. /\ SubSeq(E, 1, n) \in Seq(PageEntry) /\ Len(SubSeq(E, 1, n)) = n
      /\ \A i \in 1..n : i \in DOMAIN E /\ SubSeq(E, 1, n)[i] = E[i]
      /\ DOMAIN SubSeq(E, 1, n) = 1..n
  OBVIOUS
<1> QED  BY <1>1 DEF ShownInOrder

(* A set of positions has a last one, if there is any.                     *)
LEMMA LastPosition ==
    ASSUME NEW n \in Nat, NEW K, K \subseteq 1..n, K # {}
    PROVE  Page!Max(K) \in K /\ \A k \in K : k <= Page!Max(K)
<1> DEFINE Bounds == {m \in Nat : \A k \in K : k <= m}
<1>1. n \in Bounds /\ Bounds \subseteq Nat
  OBVIOUS
<1>2. PICK m \in Bounds : \A l \in Bounds : m <= l
  <2> HIDE DEF Bounds
  <2> QED  BY <1>1, LeastNumber
<1>3. \A k \in K : k \in Nat /\ k > 0 /\ k <= m
  BY <1>2
<1>4. m \in K
  <2> SUFFICES ASSUME m \notin K
               PROVE  FALSE
    OBVIOUS
  <2>1. m \in Nat /\ \A k \in K : k \in Nat /\ k < m
    BY <1>2, <1>3
  <2>2. PICK k \in K : k \in Nat /\ k > 0 /\ k < m
    BY <1>3, <2>1
  <2>3. m - 1 \in Nat
    BY <1>2, <2>2
  <2>4. \A j \in K : j <= m - 1
    BY <2>1
  <2>5. m - 1 \in Bounds
    BY <2>3, <2>4
  <2>6. m <= m - 1
    BY <1>2, <2>5
  <2> QED  BY <2>1, <2>6
<1> QED  BY <1>3, <1>4 DEF Page!Max

(* What an answer that is regenerated drops: the answers and tool rows at  *)
(* the end.                                                                *)
LEMMA DroppedAtTheEnd ==
    ASSUME NEW E \in Seq(PageEntry)
    PROVE  \E n \in 0..Len(E) :
              /\ Page!dropTrailingAssistant(E) = SubSeq(E, 1, n)
              /\ \A i \in (n + 1)..Len(E) : E[i].kind \in {"assistant", "tool"}
<1> DEFINE keep == {i \in DOMAIN E : E[i].kind \notin {"assistant", "tool"}}
           cut == IF keep = {} THEN 0 ELSE Page!Max(keep)
<1>1. Page!dropTrailingAssistant(E) = SubSeq(E, 1, cut)
  BY DEF Page!dropTrailingAssistant
<1>2. keep \subseteq 1..Len(E) /\ Len(E) \in Nat /\ DOMAIN E = 1..Len(E)
  OBVIOUS
<1>3. cut \in 0..Len(E) /\ \A i \in keep : i <= cut
  <2> HIDE DEF keep
  <2>1. CASE keep = {}
    BY <1>2, <2>1
  <2>2. CASE keep # {}
    <3>1. Page!Max(keep) \in keep /\ \A k \in keep : k <= Page!Max(keep)
      BY <1>2, <2>2, LastPosition
    <3>2. cut = Page!Max(keep)
      BY <2>2
    <3>4. PICK m : m = Page!Max(keep)
      OBVIOUS
    <3>5. m \in keep
      BY <3>1, <3>4, Zenon
    <3>6. m \in 1..Len(E)
      BY <1>2, <3>5
    <3>3. Page!Max(keep) \in 0..Len(E)
      BY <1>2, <3>4, <3>6
    <3> HIDE DEF cut
    <3> QED  BY <3>1, <3>2, <3>3
  <2> QED  BY <2>1, <2>2
<1>4. \A i \in (cut + 1)..Len(E) : i \notin keep /\ i \in DOMAIN E
  <2> HIDE DEF keep, cut
  <2> QED  BY <1>2, <1>3
<1>5. \A i \in (cut + 1)..Len(E) : E[i].kind \in {"assistant", "tool"}
  <2> HIDE DEF cut
  <2> QED  BY <1>4
<1> HIDE DEF cut
<1> QED  BY <1>1, <1>3, <1>5

(* What a request says.                                                    *)
PageSaid == [run : PageRun, thinking : Nat, assistant : Nat]

(* A request that says one chunk more of a kind.                           *)
SayMore(S, q, kind) == [S EXCEPT ![q][kind] = @ + 1]

(* In T request q has said one chunk of a kind more than in S.             *)
OneMore(S, T, q, kind) ==
    /\ DOMAIN T = DOMAIN S /\ \A p \in DOMAIN S : T[p].run = S[p].run
    /\ \A p \in DOMAIN S, k \in PageKinds :
          T[p][k] = IF p = q /\ k = kind THEN S[p][k] + 1 ELSE S[p][k]

(* One request that has said something else.                               *)
LEMMA SaidExchanged ==
    ASSUME NEW S \in Seq(PageSaid), NEW q \in DOMAIN S, NEW r \in PageSaid,
           NEW T, T = [S EXCEPT ![q] = r]
    PROVE  /\ T \in Seq(PageSaid) /\ Len(T) = Len(S) /\ DOMAIN T = DOMAIN S
           /\ \A p \in DOMAIN S : T[p] = IF p = q THEN r ELSE S[p]
OBVIOUS

(* One chunk more of a kind has been said by a request.                    *)
LEMMA SaidMore ==
    ASSUME NEW S \in Seq(PageSaid), NEW q \in DOMAIN S, NEW kind \in PageKinds,
           NEW T, T = SayMore(S, q, kind)
    PROVE  T \in Seq(PageSaid) /\ Len(T) = Len(S) /\ OneMore(S, T, q, kind)
<1>6. PICK r : r = [S[q] EXCEPT ![kind] = @ + 1]
  OBVIOUS
<1>1. S[q] \in PageSaid
  OBVIOUS
<1>2. r \in PageSaid /\ r.run = S[q].run
      /\ \A k \in PageKinds : r[k] = IF k = kind THEN S[q][k] + 1 ELSE S[q][k]
  <2>1. \A x \in PageSaid, n \in Nat :
           /\ [x EXCEPT !.thinking = n] \in PageSaid
           /\ [x EXCEPT !.thinking = n].run = x.run
           /\ [x EXCEPT !.thinking = n].thinking = n
           /\ [x EXCEPT !.thinking = n].assistant = x.assistant
    BY DEF PageSaid
  <2>2. \A x \in PageSaid, n \in Nat :
           /\ [x EXCEPT !.assistant = n] \in PageSaid
           /\ [x EXCEPT !.assistant = n].run = x.run
           /\ [x EXCEPT !.assistant = n].assistant = n
           /\ [x EXCEPT !.assistant = n].thinking = x.thinking
    BY DEF PageSaid
  <2>3. S[q].thinking + 1 \in Nat /\ S[q].assistant + 1 \in Nat
    BY <1>1 DEF PageSaid
  <2>4. CASE kind = "thinking"
    <3>1. r = [S[q] EXCEPT !.thinking = S[q].thinking + 1]
      BY <1>6, <2>4
    <3> QED  BY <1>1, <2>1, <2>3, <2>4, <3>1 DEF PageKinds
  <2>5. CASE kind = "assistant"
    <3>1. r = [S[q] EXCEPT !.assistant = S[q].assistant + 1]
      BY <1>6, <2>5
    <3> QED  BY <1>1, <2>2, <2>3, <2>5, <3>1 DEF PageKinds
  <2> QED  BY <2>4, <2>5 DEF PageKinds
<1>3. T = [S EXCEPT ![q] = r]
  BY <1>6 DEF SayMore
<1>4. /\ T \in Seq(PageSaid) /\ Len(T) = Len(S) /\ DOMAIN T = DOMAIN S
      /\ \A p \in DOMAIN S : T[p] = IF p = q THEN r ELSE S[p]
  <2>1. r \in PageSaid
    BY <1>2
  <2> QED  BY <1>3, <2>1, SaidExchanged
<1>5. /\ \A p \in DOMAIN S : T[p].run = S[p].run
      /\ \A p \in DOMAIN S, k \in PageKinds :
            T[p][k] = IF p = q /\ k = kind THEN S[p][k] + 1 ELSE S[p][k]
  BY <1>2, <1>4
<1> QED  BY <1>4, <1>5 DEF OneMore

(* An entry that is exchanged for another one.                            *)
LEMMA EntryExchanged ==
    ASSUME NEW E \in Seq(PageEntry), NEW F, F = [i \in DOMAIN E |-> F[i]],
           \A i \in DOMAIN E : F[i] \in PageEntry
    PROVE  F \in Seq(PageEntry) /\ DOMAIN F = DOMAIN E /\ Len(F) = Len(E)
<1>1. DOMAIN E = 1..Len(E) /\ Len(E) \in Nat /\ DOMAIN F = DOMAIN E
  OBVIOUS
<1>2. F \in [1..Len(E) -> PageEntry]
  BY <1>1
<1> QED  BY <1>1, <1>2

(* The next chunk of a kind that a request says, and an entry it grows.    *)
NextChunk(S, q, kind) == [request |-> q, n |-> S[q][kind] + 1]
Grown(e, chunk) == [e EXCEPT !.text = Append(@, chunk)]

(* A chunk that is added to its request's text.                            *)
LEMMA GrowShown ==
    ASSUME NEW E \in Seq(PageEntry), NEW top \in Nat, NEW S \in Seq(PageSaid), NEW outcomes,
           ShownInOrder(E, top, S, outcomes), NEW q \in DOMAIN S, NEW kind \in PageKinds,
           NEW T, OneMore(S, T, q, kind),
           NEW c \in DOMAIN E, E[c].kind = kind, Page!Of(E[c]) = q,
           NEW F, DOMAIN F = DOMAIN E, \A i \in DOMAIN E : i # c => F[i] = E[i],
           F[c] = Grown(E[c], NextChunk(S, q, kind))
    PROVE  /\ F[c] \in PageEntry
           /\ ShownInOrder(F, top, T, outcomes)
           /\ \A i \in DOMAIN E : /\ F[i].kind = E[i].kind /\ F[i].id = E[i].id
                                  /\ Page!Of(F[i]) = Page!Of(E[i])
<1> DEFINE n == S[q][kind]
           chunk == [request |-> q, n |-> n + 1]
<1>1. /\ E[c] \in PageEntry /\ DOMAIN E = 1..Len(E) /\ Len(E) \in Nat /\ q \in Nat
      /\ S[q] \in PageSaid
  OBVIOUS
<1>2. n \in Nat /\ chunk \in PageChunk
  BY <1>1 DEF PageSaid, PageKinds, PageChunk
<1>3. E[c].text \in Seq(PageChunk) /\ E[c].text # <<>> /\ E[c].text = ChunksOf(q, n)
      /\ S[q].run = E[c].run
  BY <1>1, EntryParts DEF ShownInOrder, ShowsWhatWasSaid
<1> DEFINE text == Append(E[c].text, chunk)
<1>4. /\ text \in Seq(PageChunk) /\ text # <<>> /\ text[1] = E[c].text[1]
      /\ text = ChunksOf(q, n + 1)
  <2>1. /\ Len(E[c].text) = n /\ \A m \in 1..n : E[c].text[m] = [request |-> q, n |-> m]
    BY <1>2, <1>3 DEF ChunksOf
  <2>2. /\ text \in Seq(PageChunk) /\ Len(text) = n + 1 /\ text[n + 1] = chunk
        /\ \A m \in 1..n : text[m] = E[c].text[m]
    <3> HIDE DEF chunk, n
    <3> QED  BY <1>2, <1>3, <2>1
  <2>3. n # 0
    BY <1>3, <2>1
  <2> HIDE DEF text, n
  <2>7. 1 \in 1..n /\ Len(text) # 0
    BY <1>2, <2>2, <2>3
  <2>8. text # <<>>
    <3>1. \A s \in Seq(PageChunk) : Len(s) # 0 => s # <<>>
      OBVIOUS
    <3> QED  BY <2>2, <2>7, <3>1, Zenon
  <2>9. text[1] = E[c].text[1]
    BY <2>2, <2>7, Zenon
  <2>4. text # <<>> /\ text[1] = E[c].text[1]
    BY <2>8, <2>9
  <2>5. \A m \in 1..(n + 1) : text[m] = [request |-> q, n |-> m]
    <3> SUFFICES ASSUME NEW m \in 1..(n + 1)
                 PROVE  text[m] = [request |-> q, n |-> m]
      OBVIOUS
    <3>1. m = n + 1 \/ m \in 1..n
      BY <1>2
    <3>2. CASE m = n + 1
      BY <2>2, <3>2 DEF chunk
    <3>3. CASE m \in 1..n
      BY <2>1, <2>2, <3>3
    <3> QED  BY <3>1, <3>2, <3>3
  <2>6. DOMAIN text = 1..(n + 1) /\ text = [m \in DOMAIN text |-> text[m]]
    BY <2>2, <1>2
  <2> QED  BY <2>2, <2>4, <2>5, <2>6 DEF ChunksOf
<1> HIDE DEF text, chunk, n
<1>5. F[c] = [E[c] EXCEPT !.text = text] /\ \A i \in DOMAIN E : i # c => F[i] = E[i]
  BY DEF text, chunk, n, Grown, NextChunk
<1>6. /\ F[c] \in PageEntry /\ F[c].kind = kind /\ F[c].id = E[c].id /\ F[c].run = E[c].run
      /\ F[c].text = text /\ Page!Of(F[c]) = q
  BY <1>1, <1>4, <1>5 DEF PageEntry, Page!Of
<1>7. DOMAIN F = DOMAIN E
  OBVIOUS
<1>8. \A i \in DOMAIN E : /\ F[i].kind = E[i].kind /\ F[i].id = E[i].id
                          /\ Page!Of(F[i]) = Page!Of(E[i])
  BY <1>5, <1>6
<1>9. \A i \in DOMAIN E : i # c => E[i].kind # kind \/ Page!Of(E[i]) # q
  <2> SUFFICES ASSUME NEW i \in DOMAIN E, i # c, E[i].kind = kind, Page!Of(E[i]) = q
               PROVE  FALSE
    OBVIOUS
  <2>1. i < c \/ c < i
    BY <1>1
  <2> QED  BY <1>1, <2>1 DEF ShownInOrder
<1>10. ASSUME NEW i \in DOMAIN E
       PROVE  F[i].id \in 1..top /\ ShowsWhatWasSaid(F[i], T, outcomes)
  <2>1. E[i].id \in 1..top /\ ShowsWhatWasSaid(E[i], S, outcomes)
    BY DEF ShownInOrder
  <2>2. CASE i = c
    <3>1. T[q].run = S[q].run /\ T[q][kind] = n + 1 /\ q \in DOMAIN T
      BY DEF n, OneMore
    <3>2. F[c].kind # "tool"
      BY <1>6 DEF PageKinds
    <3>3. ShowsWhatWasSaid(F[c], T, outcomes)
      BY <1>3, <1>4, <1>6, <3>1, <3>2 DEF ShowsWhatWasSaid
    <3> QED  BY <1>6, <2>1, <2>2, <3>3
  <2>3. CASE i # c
    <3>1. F[i] = E[i] /\ (E[i].kind # kind \/ Page!Of(E[i]) # q)
      BY <1>5, <1>9, <2>3
    <3>2. ShowsWhatWasSaid(E[i], T, outcomes)
      BY <2>1, <3>1 DEF ShowsWhatWasSaid, OneMore
    <3> QED  BY <2>1, <3>1, <3>2, Zenon
  <2> QED  BY <2>2, <2>3
<1>11. ShownInOrder(F, top, T, outcomes)
  <2>1. \A i \in DOMAIN F : F[i].id \in 1..top /\ ShowsWhatWasSaid(F[i], T, outcomes)
    BY <1>7, <1>10, Zenon
  <2>2. \A i, j \in DOMAIN F : i < j =>
           /\ F[i].id < F[j].id
           /\ F[i].kind = F[j].kind /\ F[i].kind \in PageKinds =>
                 Page!Of(F[i]) < Page!Of(F[j])
    <3>1. \A i, j \in DOMAIN E : i < j =>
             /\ E[i].id < E[j].id
             /\ E[i].kind = E[j].kind /\ E[i].kind \in PageKinds =>
                   Page!Of(E[i]) < Page!Of(E[j])
      BY DEF ShownInOrder
    <3> QED  BY <1>7, <1>8, <3>1, Zenon
  <2> QED  BY <2>1, <2>2 DEF ShownInOrder
<1> QED  BY <1>6, <1>8, <1>11

(* The blocks of a run and the state of an agent.                          *)
PageBlock == [thinking : Nat, assistant : Nat]
PageActor == [stage : {"off", "ready", "streaming", "tool"}, run : PageRun, request : Nat,
              call : Nat]
Agents == {"main", "child"}

(* Nobody streams, and a subagent works inside a call.                     *)
NobodyStreams(agents) ==
    /\ \A a \in Agents : agents[a].stage # "streaming"
    /\ agents["child"].stage # "off" => agents["main"].stage = "tool"
    /\ \A a \in Agents : agents[a].stage = "off" => agents[a] = Page!Off

(* An agent that moves without streaming.                                  *)
LEMMA ActorMoves ==
    ASSUME PageInv, NEW a \in Agents, NEW v \in PageActor, v.stage # "streaming",
           v.stage = "off" => v = Page!Off,
           page_actor' = [page_actor EXCEPT ![a] = v],
           \A o \in Agents \ {a} : page_actor[o].stage # "streaming",
           a = "main" => page_actor["child"].stage = "off" \/ v.stage = "tool",
           a = "child" => page_actor["main"].stage = "tool" \/ v.stage = "off"
    PROVE  page_actor' \in [Agents -> PageActor] /\ NobodyStreams(page_actor')
<1>1. /\ page_actor \in [Agents -> PageActor] /\ "main" # "child"
      /\ page_actor["child"].stage # "off" => page_actor["main"].stage = "tool"
      /\ \A o \in Agents : page_actor[o].stage = "off" => page_actor[o] = Page!Off
  BY DEF PageInv, PageTypes, Agents, PageActor
<1>2. page_actor' \in [Agents -> PageActor] /\ page_actor'[a] = v
      /\ \A o \in Agents \ {a} : page_actor'[o] = page_actor[o]
  BY <1>1
<1>3. CASE a = "main"
  BY <1>1, <1>2, <1>3 DEF NobodyStreams, Agents
<1>4. CASE a = "child"
  BY <1>1, <1>2, <1>4 DEF NobodyStreams, Agents
<1> QED  BY <1>3, <1>4 DEF Agents

(* While an agent is free or streams, the other one is off or waits.       *)
LEMMA TheOtherWaits ==
    ASSUME PageInv, NEW a \in Agents, page_actor[a].stage \in {"ready", "streaming"}
    PROVE  /\ \A o \in Agents \ {a} : page_actor[o].stage # "streaming"
           /\ a = "main" => page_actor["child"].stage = "off"
           /\ a = "child" => page_actor["main"].stage = "tool"
<1>1. page_actor["child"].stage # "off" => page_actor["main"].stage = "tool"
  BY DEF PageInv
<1>2. CASE a = "main"
  BY <1>1, <1>2 DEF Agents
<1>3. CASE a = "child"
  BY <1>1, <1>3 DEF Agents
<1> QED  BY <1>2, <1>3 DEF Agents

(* The fields of an agent, one at a time.                                  *)
LEMMA ActorFields ==
    /\ \A v \in PageActor, x \in {"off", "ready", "streaming", "tool"} :
          [v EXCEPT !.stage = x] \in PageActor /\ [v EXCEPT !.stage = x].stage = x
          /\ [v EXCEPT !.stage = x].run = v.run /\ [v EXCEPT !.stage = x].request = v.request
    /\ \A v \in PageActor, n \in Nat :
          [v EXCEPT !.call = n] \in PageActor /\ [v EXCEPT !.call = n].stage = v.stage
    /\ \A v \in PageActor, n \in Nat :
          [v EXCEPT !.request = n] \in PageActor /\ [v EXCEPT !.request = n].stage = v.stage
          /\ [v EXCEPT !.request = n].run = v.run /\ [v EXCEPT !.request = n].request = n
    /\ Page!Off \in PageActor /\ Page!Off.stage = "off"
    /\ \A r \in PageRun :
          [Page!Off EXCEPT !.stage = "ready", !.run = r] \in PageActor
          /\ [Page!Off EXCEPT !.stage = "ready", !.run = r].stage = "ready"
BY DEF PageActor, PageRun, Page!Off

(* The blocks of a run, as they are and as they are set.                   *)
LEMMA BlocksTyped ==
    ASSUME PageTypes, NEW run
    PROVE  /\ Page!blocksOf(run) \in PageBlock
           /\ Page!EMPTY_BLOCKS \in PageBlock
           /\ \A b \in PageBlock : Page!withBlocks(run, b) =>
                 /\ run \in DOMAIN page_blocks' /\ page_blocks'[run] = b
                 /\ \A r \in DOMAIN page_blocks' : page_blocks'[r] \in PageBlock
<1>1. Page!EMPTY_BLOCKS \in PageBlock
  BY DEF Page!EMPTY_BLOCKS, PageBlock
<1>2. Page!blocksOf(run) \in PageBlock
  BY <1>1 DEF Page!blocksOf, PageTypes, PageBlock
<1>3. ASSUME NEW b \in PageBlock, Page!withBlocks(run, b)
      PROVE  /\ run \in DOMAIN page_blocks' /\ page_blocks'[run] = b
             /\ \A r \in DOMAIN page_blocks' : page_blocks'[r] \in PageBlock
  BY <1>3 DEF Page!withBlocks, Page!Set, PageTypes, PageBlock
<1> QED  BY <1>1, <1>2, <1>3

(* What stays among the entries is not missing.                            *)
LEMMA StillPresent ==
    ASSUME NEW E, NEW F, NEW S, NEW gone, NothingMissing(E, S, gone),
           \A i \in DOMAIN E : /\ i \in DOMAIN F /\ F[i].kind = E[i].kind
                               /\ E[i].kind \in PageKinds => Page!Of(F[i]) = Page!Of(E[i])
    PROVE  NothingMissing(F, S, gone)
BY DEF NothingMissing, Present

(* The kinds of entry.                                                     *)
EntryKinds == {"user", "thinking", "assistant", "tool", "error"}

(* A new entry has the parts it is given.                                  *)
LEMMA EntryTyped ==
    ASSUME PageTypes, NEW kind \in EntryKinds, NEW run \in PageRun,
           NEW text \in Seq(PageChunk), NEW e, e = Page!Entry(kind, run, text)
    PROVE  /\ e \in PageEntry /\ e.kind = kind /\ e.id = page_ids + 1 /\ e.run = run
           /\ e.text = text
BY DEF PageTypes, PageEntry, Page!Entry, EntryKinds

(* The page is sound when its parts are and nobody streams.                *)
LEMMA PageAtRest ==
    ASSUME PageTypes', NobodyStreams(page_actor'),
           ShownInOrder(page_entries, page_ids, page_said, page_calls)',
           NothingMissing(page_entries, page_said, page_discarded)'
    PROVE  PageInv'
BY DEF PageInv, NobodyStreams, Agents

(* Agents that all stop are idle.                                          *)
LEMMA AllStop ==
    ASSUME PageInv, page_actor' = [a \in DOMAIN page_actor |-> Page!Off]
    PROVE  page_actor' \in [Agents -> PageActor] /\ NobodyStreams(page_actor')
<1>1. page_actor' = [a \in Agents |-> Page!Off]
  BY DEF PageInv, PageTypes, Agents
<1>2. Page!Off \in PageActor /\ Page!Off.stage = "off"
  BY ActorFields
<1>3. page_actor' \in [Agents -> PageActor] /\ \A a \in Agents : page_actor'[a] = Page!Off
  BY <1>1, <1>2
<1>4. "main" \in Agents /\ "child" \in Agents
  BY DEF Agents
<1> QED  BY <1>2, <1>3, <1>4 DEF NobodyStreams

(* What is neither said nor shown leaves the page as it is: an answer that *)
(* ends, a run that ends, is cancelled or dies, and a restart.             *)
LEMMA PageUnseen ==
    ASSUME PageInv, page_actor' \in [Agents -> PageActor], NobodyStreams(page_actor'),
           page_counter' \in Nat,
           \A r \in DOMAIN page_blocks' : page_blocks'[r] \in PageBlock,
           UNCHANGED <<page_entries, page_ids, page_said, page_calls, page_discarded>>
    PROVE  PageInv'
<1>1. PageTypes'
  BY DEF PageInv, PageTypes, PageBlock, PageActor, Agents
<1> QED  BY <1>1, PageAtRest DEF PageInv

(* An answer has come to its end.                                          *)
LEMMA PageResponded ==
    ASSUME PageInv, NEW a \in Agents, Page!Responded(a)
    PROVE  PageInv'
<1>1. page_actor[a] \in PageActor /\ page_counter' \in Nat
  BY DEF PageInv, PageTypes, PageActor, Agents, Page!Responded
<1>2. PICK v : v = [page_actor[a] EXCEPT !.stage = "ready"]
  OBVIOUS
<1>3. v \in PageActor /\ v.stage = "ready"
  BY <1>1, <1>2, ActorFields
<1>4. page_actor' = [page_actor EXCEPT ![a] = v]
  BY <1>2 DEF Page!Responded
<1>5. page_actor' \in [Agents -> PageActor] /\ NobodyStreams(page_actor')
  BY <1>3, <1>4, ActorMoves, TheOtherWaits DEF Page!Responded
<1>6. PICK b : b = [Page!blocksOf(page_actor[a].run) EXCEPT !.thinking = 0, !.assistant = 0]
  OBVIOUS
<1>7. Page!withBlocks(page_actor[a].run, b) /\ b \in PageBlock
  <2>1. Page!blocksOf(page_actor[a].run) \in PageBlock
    BY BlocksTyped DEF PageInv
  <2> QED  BY <1>6, <2>1 DEF Page!Responded, Page!OnResponded, Page!OnRequested, PageBlock
<1>8. \A r \in DOMAIN page_blocks' : page_blocks'[r] \in PageBlock
  BY <1>7, BlocksTyped DEF PageInv
<1> QED
  BY <1>1, <1>5, <1>8, PageUnseen DEF Page!Responded, Page!OnResponded, Page!OnRequested

(* A run has finished.                                                     *)
LEMMA PageFinish ==
    ASSUME PageInv, NEW a \in Agents, Page!Finish(a)
    PROVE  PageInv'
<1>1. page_actor' \in [Agents -> PageActor] /\ NobodyStreams(page_actor')
  <2>1. page_actor[a].stage = "ready" /\ page_actor' = [page_actor EXCEPT ![a] = Page!Off]
    BY DEF Page!Finish, Page!Free
  <2>2. /\ \A o \in Agents \ {a} : page_actor[o].stage # "streaming"
        /\ a = "main" => page_actor["child"].stage = "off"
        /\ a = "child" => page_actor["main"].stage = "tool"
    BY <2>1, TheOtherWaits
  <2>3. Page!Off \in PageActor /\ Page!Off.stage # "streaming"
    BY ActorFields
  <2> QED  BY <2>1, <2>2, <2>3, ActorMoves
<1>2. \A r \in DOMAIN page_blocks' : page_blocks'[r] \in PageBlock
  BY BlocksTyped DEF Page!Finish, Page!OnFinished, PageInv
<1>3. page_counter' \in Nat
  BY DEF PageInv, PageTypes, Page!Finish
<1> QED  BY <1>1, <1>2, <1>3, PageUnseen DEF Page!Finish, Page!OnFinished

(* A subagent dies, the run is cancelled, or the server restarts.          *)
LEMMA PageStops ==
    ASSUME PageInv, Page!ChildDies \/ Page!Cancel \/ Page!Restart
    PROVE  PageInv'
<1>1. /\ \A r \in DOMAIN page_blocks' : page_blocks'[r] \in PageBlock
      /\ page_counter' \in Nat
      /\ UNCHANGED <<page_entries, page_ids, page_said, page_calls, page_discarded>>
  BY DEF PageInv, PageTypes, PageBlock, Page!ChildDies, Page!Cancel, Page!Restart, Page!Unseen
<1>2. page_actor' \in [Agents -> PageActor] /\ NobodyStreams(page_actor')
  <2>1. CASE Page!ChildDies
    <3>1. page_actor["main"].stage = "tool"
      BY <2>1 DEF Page!ChildDies, PageInv
    <3>2. /\ \A o \in Agents \ {"child"} : page_actor[o].stage # "streaming"
          /\ "child" \in Agents /\ "child" # "main"
      BY <3>1 DEF Agents
    <3>3. page_actor' = [page_actor EXCEPT !["child"] = Page!Off]
      BY <2>1 DEF Page!ChildDies
    <3> QED  BY <3>1, <3>2, <3>3, ActorMoves, ActorFields
  <2>2. CASE Page!Cancel
    BY <2>2, AllStop DEF Page!Cancel
  <2>3. CASE Page!Restart
    BY <2>3, AllStop DEF Page!Restart
  <2> QED  BY <2>1, <2>2, <2>3
<1> QED  BY <1>1, <1>2, PageUnseen

(* A subagent starts: the page only learns of its run.                     *)
LEMMA PageStartChild ==
    ASSUME PageInv, NEW k \in Kids, Page!StartChild(k)
    PROVE  PageInv'
<1>1. PICK v : v = [Page!Off EXCEPT !.stage = "ready", !.run = k]
  OBVIOUS
<1>2. v \in PageActor /\ v.stage = "ready" /\ page_actor' = [page_actor EXCEPT !["child"] = v]
  BY <1>1, ActorFields DEF Page!StartChild, PageRun
<1>3. page_actor["main"].stage = "tool"
  BY DEF Page!StartChild
<1>4. page_actor' \in [Agents -> PageActor] /\ NobodyStreams(page_actor')
  BY <1>2, <1>3, ActorMoves DEF Agents
<1>5. /\ UNCHANGED <<page_entries, page_ids, page_said, page_calls, page_blocks, page_counter>>
      /\ page_discarded' = page_discarded
  <2>1. page_entries' = page_entries /\ page_ids' = page_ids
    BY DEF Page!StartChild, Page!OnStarted
  <2>2. Len(page_entries) \in Nat
    BY DEF PageInv, PageTypes
  <2>3. {i \in {j \in (Len(page_entries') + 1)..Len(page_entries) :
                   page_entries[j].kind = "assistant"} : TRUE} = {}
    BY <2>1, <2>2
  <2> QED  BY <2>1, <2>2, <2>3 DEF Page!StartChild, Page!OnStarted
<1>6. page_counter' \in Nat /\ \A r \in DOMAIN page_blocks' : page_blocks'[r] \in PageBlock
  BY <1>5 DEF PageInv, PageTypes, PageBlock
<1> QED  BY <1>4, <1>5, <1>6, PageUnseen

(* What a request will say is empty at first.                              *)
LEMMA RequestAdded ==
    ASSUME NEW S \in Seq(PageSaid), NEW r \in PageRun, NEW T,
           T = Append(S, [run |-> r, thinking |-> 0, assistant |-> 0])
    PROVE  /\ T \in Seq(PageSaid) /\ Len(T) = Len(S) + 1 /\ T # <<>>
           /\ T[Len(T)].run = r /\ \A kind \in PageKinds : T[Len(T)][kind] = 0
           /\ DOMAIN S \subseteq DOMAIN T /\ \A q \in DOMAIN S : T[q] = S[q]
           /\ \A q \in DOMAIN T : q \in DOMAIN S \/ q = Len(T)
<1> DEFINE x == [run |-> r, thinking |-> 0, assistant |-> 0]
<1>1. x \in PageSaid /\ x.run = r /\ \A kind \in PageKinds : x[kind] = 0
  BY DEF PageSaid, PageKinds
<1>2. T = Append(S, x)
  BY DEF x
<1> HIDE DEF x
<1>3. /\ T \in Seq(PageSaid) /\ Len(T) = Len(S) + 1 /\ T # <<>> /\ T[Len(T)] = x
      /\ DOMAIN S \subseteq DOMAIN T /\ \A q \in DOMAIN S : T[q] = S[q]
      /\ \A q \in DOMAIN T : q \in DOMAIN S \/ q = Len(T)
  BY <1>1, <1>2
<1> QED  BY <1>1, <1>3

(* The entries show what was said before a new request too.                *)
LEMMA ShownStill ==
    ASSUME NEW E, NEW top, NEW S, NEW outcomes, NEW T,
           ShownInOrder(E, top, S, outcomes),
           DOMAIN S \subseteq DOMAIN T, \A q \in DOMAIN S : T[q] = S[q]
    PROVE  ShownInOrder(E, top, T, outcomes)
<1>1. ASSUME NEW e, ShowsWhatWasSaid(e, S, outcomes)
      PROVE  ShowsWhatWasSaid(e, T, outcomes)
  <2>1. CASE e.kind \in PageKinds
    <3>1. Page!Of(e) \in DOMAIN S /\ Page!Of(e) \in DOMAIN T /\ T[Page!Of(e)] = S[Page!Of(e)]
      BY <1>1, <2>1 DEF ShowsWhatWasSaid
    <3> QED  BY <1>1, <3>1 DEF ShowsWhatWasSaid
  <2>2. CASE e.kind \notin PageKinds
    BY <1>1, <2>2 DEF ShowsWhatWasSaid
  <2> QED  BY <2>1, <2>2
<1> QED  BY <1>1 DEF ShownInOrder

(* A request that has said nothing is not missing.                         *)
LEMMA NotMissingYet ==
    ASSUME NEW E, NEW S, NEW T, NEW gone, NothingMissing(E, S, gone),
           \A q \in DOMAIN S : T[q] = S[q],
           \A q \in DOMAIN T : q \in DOMAIN S \/ \A kind \in PageKinds : T[q][kind] = 0
    PROVE  NothingMissing(E, T, gone)
<1> SUFFICES ASSUME NEW q \in DOMAIN T, NEW kind \in PageKinds, T[q][kind] > 0
             PROVE  q \in gone \/ Present(E, q, kind)
  BY DEF NothingMissing
<1>1. q \in DOMAIN S /\ T[q] = S[q]
  <2>1. T[q][kind] # 0
    OBVIOUS
  <2> QED  BY <2>1
<1> QED  BY <1>1 DEF NothingMissing

(* A request is sent: its agent streams with empty blocks.                 *)
LEMMA PageRequest ==
    ASSUME PageInv, NEW a \in Agents, Page!Request(a)
    PROVE  PageInv'
<1>1. /\ page_actor[a] \in PageActor /\ page_actor \in [Agents -> PageActor]
      /\ page_said \in Seq(PageSaid) /\ page_actor[a].run \in PageRun
      /\ Len(page_said) \in Nat
      /\ page_counter' \in Nat
  BY DEF PageInv, PageTypes, PageActor, PageSaid, Agents, Page!Request
<1>2. /\ page_actor[a].stage = "ready" /\ Len(page_said) + 1 \in Nat
      /\ page_actor' = [page_actor EXCEPT ![a].stage = "streaming",
                                          ![a].request = Len(page_said) + 1]
      /\ page_said' = Append(page_said, [run |-> page_actor[a].run, thinking |-> 0,
                                         assistant |-> 0])
      /\ UNCHANGED <<page_calls, page_entries, page_ids, page_discarded>>
      /\ Page!OnRequested(page_actor[a].run)
  BY <1>1 DEF Page!Request, Page!Free, Page!OnRequested
<1>3. PICK w : w = [page_actor[a] EXCEPT !.stage = "streaming"]
  OBVIOUS
<1>4. PICK v : v = [w EXCEPT !.request = Len(page_said) + 1]
  OBVIOUS
<1>5. /\ w \in PageActor /\ v \in PageActor /\ v.stage = "streaming"
      /\ v.run = page_actor[a].run /\ v.request = Len(page_said) + 1
  <2>1. /\ w \in PageActor /\ w.stage = "streaming" /\ w.run = page_actor[a].run
    BY <1>1, <1>3, ActorFields
  <2>2. PICK n \in Nat : n = Len(page_said) + 1
    BY <1>2
  <2>3. v = [w EXCEPT !.request = n]
    BY <1>4, <2>2
  <2>4. v \in PageActor /\ v.stage = w.stage /\ v.run = w.run /\ v.request = n
    BY <2>1, <2>3, ActorFields, ZenonT(30)
  <2> QED  BY <2>1, <2>2, <2>4
<1>6. /\ page_actor' \in [Agents -> PageActor] /\ page_actor'[a] = v
      /\ \A o \in Agents \ {a} : page_actor'[o] = page_actor[o]
  <2>1. page_actor' = [page_actor EXCEPT ![a] = v]
    BY <1>2, <1>3, <1>4
  <2> QED  BY <1>1, <1>5, <2>1
<1>7. /\ \A o \in Agents \ {a} : page_actor[o].stage # "streaming"
      /\ a = "main" => page_actor["child"].stage = "off"
      /\ a = "child" => page_actor["main"].stage = "tool"
  BY <1>2, TheOtherWaits
<1>8. PICK r : r = page_actor[a].run
  OBVIOUS
<1>9. /\ ShownInOrder(page_entries, page_ids, page_said, page_calls)'
      /\ NothingMissing(page_entries, page_said, page_discarded)'
      /\ page_said' \in Seq(PageSaid) /\ Len(page_said') = Len(page_said) + 1
      /\ page_said' # <<>> /\ page_said'[Len(page_said')].run = r
      /\ \A kind \in PageKinds : page_said'[Len(page_said')][kind] = 0
  <2>1. r \in PageRun /\ page_said' = Append(page_said, [run |-> r, thinking |-> 0, assistant |-> 0])
    BY <1>1, <1>2, <1>8
  <2>2. /\ ShownInOrder(page_entries, page_ids, page_said', page_calls)
        /\ NothingMissing(page_entries, page_said', page_discarded)
        /\ page_said' \in Seq(PageSaid) /\ Len(page_said') = Len(page_said) + 1
        /\ page_said' # <<>> /\ page_said'[Len(page_said')].run = r
        /\ \A kind \in PageKinds : page_said'[Len(page_said')][kind] = 0
    <3>1. /\ ShownInOrder(page_entries, page_ids, page_said, page_calls)
          /\ NothingMissing(page_entries, page_said, page_discarded)
      BY DEF PageInv
    <3>2. PICK T : T = page_said'
      OBVIOUS
    <3>3. r \in PageRun /\ T = Append(page_said, [run |-> r, thinking |-> 0, assistant |-> 0])
      BY <2>1, <3>2
    <3>4. /\ T \in Seq(PageSaid) /\ Len(T) = Len(page_said) + 1 /\ T # <<>>
          /\ T[Len(T)].run = r /\ \A kind \in PageKinds : T[Len(T)][kind] = 0
          /\ DOMAIN page_said \subseteq DOMAIN T /\ \A q \in DOMAIN page_said : T[q] = page_said[q]
          /\ \A q \in DOMAIN T : q \in DOMAIN page_said \/ q = Len(T)
      BY <1>1, <3>3, RequestAdded
    <3>5. ShownInOrder(page_entries, page_ids, T, page_calls)
      BY <3>1, <3>4, ShownStill
    <3>6. NothingMissing(page_entries, T, page_discarded)
      <4>1. \A q \in DOMAIN T : q \in DOMAIN page_said \/ \A kind \in PageKinds : T[q][kind] = 0
        BY <3>4
      <4> QED  BY <3>1, <3>4, <4>1, NotMissingYet
    <3> QED  BY <3>2, <3>4, <3>5, <3>6
  <2> QED  BY <1>2, <2>2
<1>10. PICK b : b = [Page!blocksOf(r) EXCEPT !.thinking = 0, !.assistant = 0]
  OBVIOUS
<1>11. b \in PageBlock /\ b.thinking = 0 /\ b.assistant = 0
  <2>1. Page!blocksOf(r) \in PageBlock
    BY BlocksTyped DEF PageInv
  <2> QED  BY <1>10, <2>1 DEF PageBlock
<1>12. /\ r \in DOMAIN page_blocks' /\ page_blocks'[r] = b
       /\ \A x \in DOMAIN page_blocks' : page_blocks'[x] \in PageBlock
  <2>1. Page!withBlocks(r, b)
    BY <1>2, <1>8, <1>10 DEF Page!OnRequested
  <2> QED  BY <1>11, <2>1, BlocksTyped DEF PageInv
<1>13. PageTypes'
  BY <1>1, <1>2, <1>6, <1>9, <1>12 DEF PageInv, PageTypes, PageBlock, PageActor, PageSaid, Agents
<1>14. ASSUME NEW o \in Agents, page_actor'[o].stage = "streaming"
       PROVE  /\ page_actor'[o].request = Len(page_said') /\ page_said' # <<>>
              /\ page_said'[Len(page_said')].run = page_actor'[o].run
              /\ \A kind \in PageKinds :
                    Fills(page_entries, kind, Page!blocksOf(page_actor[o].run)[kind],
                          Len(page_said), page_said)'
  <2>1. o = a
    BY <1>6, <1>7, <1>14
  <2>2. page_actor'[o].run = r /\ page_actor'[o].request = Len(page_said')
    BY <1>5, <1>6, <1>8, <1>9, <2>1
  <2>3. ASSUME NEW kind \in PageKinds
        PROVE  Page!blocksOf(page_actor[o].run)'[kind] = 0
    BY <1>11, <1>12, <2>2 DEF Page!blocksOf, PageKinds
  <2> QED  BY <1>9, <2>2, <2>3 DEF Fills
<1>15. page_actor'["child"].stage # "off" => page_actor'["main"].stage = "tool"
  <2>1. CASE a = "main"
    BY <1>6, <1>7, <2>1 DEF Agents
  <2>2. CASE a = "child"
    BY <1>6, <1>7, <2>2 DEF Agents
  <2> QED  BY <2>1, <2>2 DEF Agents
<1>16. \A o \in Agents : page_actor'[o].stage = "off" => page_actor'[o] = Page!Off
  BY <1>5, <1>6 DEF PageInv, Agents
<1> QED  BY <1>9, <1>13, <1>14, <1>15, <1>16 DEF PageInv, Agents

(* An entry without a text that is added at the end: the page stays sound. *)
LEMMA RowAdded ==
    ASSUME PageInv, NEW e \in PageEntry, e.id = page_ids + 1, e.kind \notin PageKinds,
           NEW outcomes, ShowsWhatWasSaid(e, page_said, outcomes),
           ShownInOrder(page_entries, page_ids, page_said, outcomes),
           page_calls' = outcomes, outcomes \in Seq({"none", "running", "success", "error"}),
           page_entries' = Append(page_entries, e), page_ids' = page_ids + 1,
           page_actor' \in [Agents -> PageActor], NobodyStreams(page_actor'), page_counter' \in Nat,
           UNCHANGED <<page_said, page_blocks, page_discarded>>
    PROVE  PageInv'
<1>1. page_entries \in Seq(PageEntry) /\ page_ids \in Nat
  BY DEF PageInv, PageTypes
<1>2. /\ page_entries' \in Seq(PageEntry)
      /\ ShownInOrder(page_entries', page_ids', page_said, outcomes)
      /\ \A i \in DOMAIN page_entries :
            i \in DOMAIN page_entries' /\ page_entries'[i] = page_entries[i]
  BY <1>1, AppendShown
<1>3. ShownInOrder(page_entries, page_ids, page_said, page_calls)'
  BY <1>2
<1>4. NothingMissing(page_entries', page_said, page_discarded)
  <2>1. NothingMissing(page_entries, page_said, page_discarded)
    BY DEF PageInv
  <2> QED  BY <1>2, <2>1, StillPresent
<1>5. PageTypes'
  <2>1. page_ids' \in Nat
    BY <1>1
  <2>2. PageTypes /\ page_said' = page_said /\ page_blocks' = page_blocks
    BY DEF PageInv
  <2> QED  BY <1>2, <2>1, <2>2 DEF PageTypes, PageActor, Agents
<1> QED  BY <1>3, <1>4, <1>5, PageAtRest

(* The run fails: the page says so.                                        *)
LEMMA PageFail ==
    ASSUME PageInv, Page!Fail
    PROVE  PageInv'
<1>1. /\ page_actor["main"] \in PageActor /\ page_actor["main"].run \in PageRun
      /\ page_calls \in Seq({"none", "running", "success", "error"})
  BY DEF PageInv, PageTypes, PageActor, PageRun
<1>8. PICK r \in PageRun : r = page_actor["main"].run
  BY <1>1
<1>2. PICK e : e = Page!Entry("error", r, <<>>)
  OBVIOUS
<1>3. e \in PageEntry /\ e.kind = "error" /\ e.id = page_ids + 1 /\ e.text = <<>>
  <2>1. <<>> \in Seq(PageChunk)
    OBVIOUS
  <2>2. PageTypes
    BY DEF PageInv
  <2>3. "error" \in EntryKinds
    BY DEF EntryKinds
  <2>4. PICK t \in Seq(PageChunk), k \in EntryKinds : t = <<>> /\ k = "error"
    BY <2>1, <2>3
  <2>5. e = Page!Entry(k, r, t)
    BY <1>2, <2>4
  <2>6. e \in PageEntry /\ e.kind = k /\ e.id = page_ids + 1 /\ e.text = t
    BY <2>2, <2>5, EntryTyped
  <2> QED  BY <2>4, <2>6
<1>4. ShowsWhatWasSaid(e, page_said, page_calls) /\ e.kind \notin PageKinds
  BY <1>3 DEF ShowsWhatWasSaid, PageKinds
<1>5. /\ page_entries' = Append(page_entries, e) /\ page_ids' = page_ids + 1
      /\ UNCHANGED <<page_said, page_blocks, page_discarded, page_calls, page_counter>>
  BY <1>2, <1>8 DEF Page!Fail, Page!OnFailed
<1>6. page_actor' \in [Agents -> PageActor] /\ NobodyStreams(page_actor') /\ page_counter' \in Nat
  BY <1>5, AllStop DEF Page!Fail, PageInv, PageTypes
<1>7. ShownInOrder(page_entries, page_ids, page_said, page_calls) /\ page_calls' = page_calls
  BY <1>5 DEF PageInv
<1> QED  BY <1>1, <1>3, <1>4, <1>5, <1>6, <1>7, RowAdded

(* The outcomes of a call.                                                 *)
PageOutcomes == {"none", "running", "success", "error"}

(* The rows show the outcomes of the calls before a new one too.           *)
LEMMA RowsStill ==
    ASSUME NEW E, NEW top, NEW S, NEW outcomes, NEW later,
           ShownInOrder(E, top, S, outcomes),
           DOMAIN outcomes \subseteq DOMAIN later,
           \A c \in DOMAIN outcomes : later[c] = outcomes[c]
    PROVE  ShownInOrder(E, top, S, later)
BY DEF ShownInOrder, ShowsWhatWasSaid

(* An agent calls a tool: its row is added to the page.                    *)
LEMMA PageCallTool ==
    ASSUME PageInv, NEW a \in Agents, Page!CallTool(a)
    PROVE  PageInv'
<1>1. /\ page_actor[a] \in PageActor /\ page_actor[a].run \in PageRun
      /\ page_calls \in Seq(PageOutcomes) /\ Len(page_calls) \in Nat
      /\ Len(page_calls) + 1 \in Nat /\ page_counter' \in Nat /\ PageTypes
  BY DEF PageInv, PageTypes, PageActor, PageOutcomes, Agents, Page!CallTool
<1>2. /\ page_actor[a].stage = "ready"
      /\ page_calls' = Append(page_calls, "running")
      /\ page_actor' = [page_actor EXCEPT ![a].stage = "tool", ![a].call = Len(page_calls) + 1]
      /\ page_entries' = Append(page_entries,
            [Page!Entry("tool", page_actor[a].run, <<>>) EXCEPT !.call = Len(page_calls) + 1,
                                                                !.status = "running"])
      /\ page_ids' = page_ids + 1
      /\ UNCHANGED <<page_said, page_blocks, page_discarded>>
  BY DEF Page!CallTool, Page!Free, Page!OnToolStarted
<1>3. PICK w : w = [page_actor[a] EXCEPT !.stage = "tool"]
  OBVIOUS
<1>4. PICK n \in Nat : n = Len(page_calls) + 1
  BY <1>1
<1>5. PICK v : v = [w EXCEPT !.call = n]
  OBVIOUS
<1>6. w \in PageActor /\ w.stage = "tool"
  BY <1>1, <1>3, ActorFields
<1>7. v \in PageActor /\ v.stage = "tool"
  BY <1>5, <1>6, ActorFields
<1>8. page_actor' \in [Agents -> PageActor] /\ NobodyStreams(page_actor')
  <2>1. page_actor' = [page_actor EXCEPT ![a] = v]
    BY <1>2, <1>3, <1>4, <1>5
  <2>2. /\ \A o \in Agents \ {a} : page_actor[o].stage # "streaming"
        /\ a = "child" => page_actor["main"].stage = "tool"
    BY <1>2, TheOtherWaits
  <2> QED  BY <1>7, <2>1, <2>2, ActorMoves
<1>9. PICK o : o = page_calls'
  OBVIOUS
<1>10. /\ o \in Seq(PageOutcomes) /\ n \in DOMAIN o /\ o[n] = "running"
       /\ DOMAIN page_calls \subseteq DOMAIN o
       /\ \A c \in DOMAIN page_calls : o[c] = page_calls[c]
  BY <1>1, <1>2, <1>4, <1>9 DEF PageOutcomes
<1>11. PICK r, t, k : r = page_actor[a].run /\ t = <<>> /\ k = "tool"
  OBVIOUS
<1>20. r \in PageRun /\ t \in Seq(PageChunk) /\ k \in EntryKinds
  BY <1>1, <1>11 DEF EntryKinds
<1>12. PICK d : d = Page!Entry(k, r, t)
  OBVIOUS
<1>13. d \in PageEntry /\ d.kind = k /\ d.id = page_ids + 1 /\ d.text = t
  BY <1>1, <1>12, <1>20, EntryTyped
<1>14. PICK e : e = [d EXCEPT !.call = n, !.status = "running"]
  OBVIOUS
<1>15. /\ e \in PageEntry /\ e.kind = "tool" /\ e.id = page_ids + 1 /\ e.text = <<>>
       /\ e.call = n /\ e.status = "running"
  <2>1. PICK x : x = [d EXCEPT !.call = n]
    OBVIOUS
  <2>2. x \in PageEntry /\ x.kind = k /\ x.id = page_ids + 1 /\ x.text = t /\ x.call = n
    BY <1>13, <2>1 DEF PageEntry
  <2>3. e = [x EXCEPT !.status = "running"]
    BY <1>14, <2>1
  <2> QED  BY <1>11, <2>2, <2>3 DEF PageEntry
<1>16. e.kind \notin PageKinds /\ ShowsWhatWasSaid(e, page_said, o)
  BY <1>10, <1>15 DEF ShowsWhatWasSaid, PageKinds
<1>17. ShownInOrder(page_entries, page_ids, page_said, o)
  <2>1. ShownInOrder(page_entries, page_ids, page_said, page_calls)
    BY DEF PageInv
  <2> QED  BY <1>10, <2>1, RowsStill
<1>18. page_entries' = Append(page_entries, e)
  BY <1>2, <1>4, <1>11, <1>12, <1>14
<1>19. o \in Seq({"none", "running", "success", "error"}) /\ page_calls' = o
  BY <1>9, <1>10 DEF PageOutcomes
<1> QED
  BY <1>1, <1>2, <1>8, <1>15, <1>16, <1>17, <1>18, <1>19, RowAdded

(* A call ends: its rows get its outcome.                                  *)
LEMMA PageToolFinished ==
    ASSUME PageInv, NEW a \in Agents, NEW status \in {"success", "error"},
           Page!ToolFinished(a, status)
    PROVE  PageInv'
<1>1. /\ page_actor[a] \in PageActor /\ page_calls \in Seq(PageOutcomes)
      /\ page_counter' \in Nat /\ PageTypes /\ status \in PageOutcomes
      /\ page_entries \in Seq(PageEntry) /\ page_actor[a].stage = "tool"
  BY DEF PageInv, PageTypes, PageActor, PageOutcomes, Agents, Page!ToolFinished
<1>2. PICK v : v = [page_actor[a] EXCEPT !.stage = "ready"]
  OBVIOUS
<1>3. v \in PageActor /\ v.stage = "ready"
  BY <1>1, <1>2, ActorFields
<1>4. page_actor' \in [Agents -> PageActor] /\ NobodyStreams(page_actor')
  <2>1. page_actor' = [page_actor EXCEPT ![a] = v]
    BY <1>2 DEF Page!ToolFinished
  <2>2. CASE a = "main"
    <3>1. page_actor["child"].stage = "off"
      BY <2>2, ActorFields DEF Page!ToolFinished
    <3> QED  BY <1>3, <2>1, <2>2, <3>1, ActorMoves DEF Agents
  <2>3. CASE a = "child"
    <3>1. page_actor["main"].stage = "tool"
      BY <1>1, <2>3 DEF PageInv
    <3> QED  BY <1>3, <2>1, <2>3, <3>1, ActorMoves DEF Agents
  <2> QED  BY <2>2, <2>3 DEF Agents
<1>5. PICK c, o, F : c = page_actor[a].call /\ o = page_calls' /\ F = page_entries'
  OBVIOUS
<1>6. o \in Seq(PageOutcomes) /\ DOMAIN o = DOMAIN page_calls
      /\ \A x \in DOMAIN page_calls : o[x] = IF x = c THEN status ELSE page_calls[x]
  <2>1. o = [page_calls EXCEPT ![c] = status]
    BY <1>5 DEF Page!ToolFinished
  <2>2. /\ DOMAIN o = DOMAIN page_calls /\ DOMAIN page_calls = 1..Len(page_calls)
        /\ Len(page_calls) \in Nat
        /\ \A x \in DOMAIN page_calls : o[x] = IF x = c THEN status ELSE page_calls[x]
    BY <1>1, <2>1
  <2>3. o = [x \in 1..Len(page_calls) |-> o[x]]
    BY <2>1, <2>2
  <2>4. \A x \in 1..Len(page_calls) : o[x] \in PageOutcomes
    BY <1>1, <2>2
  <2>5. o \in [1..Len(page_calls) -> PageOutcomes]
    BY <2>3, <2>4
  <2> QED  BY <2>2, <2>5
<1>7. F = [i \in DOMAIN page_entries |->
             IF page_entries[i].kind = "tool" /\ page_entries[i].call = c
             THEN [page_entries[i] EXCEPT !.status = status] ELSE page_entries[i]]
  BY <1>5 DEF Page!ToolFinished, Page!OnToolFinished
<1>8. ShownInOrder(page_entries, page_ids, page_said, page_calls)
      /\ NothingMissing(page_entries, page_said, page_discarded)
  BY DEF PageInv
<1>9. ASSUME NEW i \in DOMAIN page_entries
      PROVE  /\ F[i] \in PageEntry /\ F[i].kind = page_entries[i].kind
             /\ F[i].id = page_entries[i].id /\ F[i].text = page_entries[i].text
             /\ F[i].run = page_entries[i].run /\ F[i].call = page_entries[i].call
             /\ F[i].kind = "tool" =>
                   F[i].status = IF F[i].call = c THEN status ELSE page_entries[i].status
  <2>1. page_entries[i] \in PageEntry
    BY <1>1
  <2>2. CASE page_entries[i].kind = "tool" /\ page_entries[i].call = c
    <3>1. F[i] = [page_entries[i] EXCEPT !.status = status]
      BY <1>7, <2>2
    <3> QED  BY <1>1, <2>1, <2>2, <3>1 DEF PageEntry, PageOutcomes
  <2>3. CASE ~(page_entries[i].kind = "tool" /\ page_entries[i].call = c)
    <3>1. F[i] = page_entries[i]
      BY <1>7, <2>3
    <3> QED  BY <2>1, <2>3, <3>1
  <2> QED  BY <2>2, <2>3
<1>10. F \in Seq(PageEntry) /\ DOMAIN F = DOMAIN page_entries
  <2>1. F = [i \in DOMAIN page_entries |-> F[i]]
    BY <1>7
  <2> QED  BY <1>1, <1>9, <2>1, EntryExchanged
<1>11. ASSUME NEW i \in DOMAIN page_entries
       PROVE  /\ F[i].id \in 1..page_ids /\ ShowsWhatWasSaid(F[i], page_said, o)
              /\ Page!Of(F[i]) = Page!Of(page_entries[i])
  <2>1. /\ page_entries[i].id \in 1..page_ids
        /\ ShowsWhatWasSaid(page_entries[i], page_said, page_calls)
    BY <1>8 DEF ShownInOrder
  <2>2. Page!Of(F[i]) = Page!Of(page_entries[i])
    BY <1>9 DEF Page!Of
  <2>3. ShowsWhatWasSaid(F[i], page_said, o)
    <3>1. CASE F[i].kind = "tool"
      BY <1>6, <1>9, <2>1, <3>1 DEF ShowsWhatWasSaid, PageKinds
    <3>2. CASE F[i].kind # "tool"
      BY <1>9, <2>1, <2>2, <3>2 DEF ShowsWhatWasSaid
    <3> QED  BY <3>1, <3>2
  <2> QED  BY <1>9, <2>1, <2>2, <2>3
<1>12. ShownInOrder(F, page_ids, page_said, o)
  <2>1. \A i, j \in DOMAIN page_entries : i < j =>
           /\ F[i].id < F[j].id
           /\ F[i].kind = F[j].kind /\ F[i].kind \in PageKinds =>
                 Page!Of(F[i]) < Page!Of(F[j])
    <3>1. \A i, j \in DOMAIN page_entries : i < j =>
             /\ page_entries[i].id < page_entries[j].id
             /\ page_entries[i].kind = page_entries[j].kind /\ page_entries[i].kind \in PageKinds =>
                   Page!Of(page_entries[i]) < Page!Of(page_entries[j])
      BY <1>8 DEF ShownInOrder
    <3> QED  BY <1>9, <1>11, <3>1, Zenon
  <2> QED  BY <1>10, <1>11, <2>1 DEF ShownInOrder
<1>13. NothingMissing(F, page_said, page_discarded)
  BY <1>8, <1>9, <1>10, <1>11, StillPresent
<1>14. /\ page_ids' = page_ids /\ page_said' = page_said /\ page_discarded' = page_discarded
       /\ page_blocks' = page_blocks
  BY DEF Page!ToolFinished, Page!OnToolFinished
<1>15. PageTypes'
  BY <1>1, <1>4, <1>5, <1>6, <1>10, <1>14 DEF PageTypes, PageActor, PageOutcomes, Agents
<1> QED  BY <1>4, <1>5, <1>12, <1>13, <1>14, <1>15, PageAtRest

(* A run starts: the page shows what was asked, or drops the answer that   *)
(* is regenerated.                                                         *)
LEMMA PageStart ==
    ASSUME PageInv, NEW regenerated \in BOOLEAN, Page!Start(regenerated)
    PROVE  PageInv'
<1>1. /\ PageTypes /\ page_counter + 1 \in Nat /\ page_counter + 1 \in PageRun
      /\ page_entries \in Seq(PageEntry) /\ page_actor \in [Agents -> PageActor]
      /\ page_actor["child"].stage # "off" => page_actor["main"].stage = "tool"
  BY DEF PageInv, PageTypes, PageRun, PageActor, Agents
<1>2. PICK r \in PageRun : r = page_counter + 1
  BY <1>1
<1>3. PICK v : v = [Page!Off EXCEPT !.stage = "ready", !.run = r]
  OBVIOUS
<1>4. v \in PageActor /\ v.stage = "ready" /\ page_actor' = [page_actor EXCEPT !["main"] = v]
  BY <1>2, <1>3, ActorFields DEF Page!Start
<1>5. page_actor["main"].stage = "off" /\ page_actor["child"].stage = "off"
  BY <1>1, ActorFields DEF Page!Start
<1>6. page_actor' \in [Agents -> PageActor] /\ NobodyStreams(page_actor')
  <2>1. /\ "main" \in Agents /\ "main" # "child"
        /\ \A o \in Agents \ {"main"} : page_actor[o].stage # "streaming"
    BY <1>5 DEF Agents
  <2> QED  BY <1>4, <1>5, <2>1, ActorMoves
<1>7. page_counter' \in Nat /\ UNCHANGED <<page_said, page_calls, page_blocks>>
  BY <1>1 DEF Page!Start, Page!OnStarted
<1>8. \A x \in DOMAIN page_blocks' : page_blocks'[x] \in PageBlock
  BY <1>1, <1>7 DEF PageTypes, PageBlock
<1> DEFINE sub == FALSE \/ (r \in DOMAIN page_runs /\ page_runs[r])
           lost == {page_entries[i].text[1].request :
                       i \in {j \in (Len(page_entries') + 1)..Len(page_entries) :
                                 page_entries[j].kind = "assistant"}}
<1>9. /\ page_entries' = IF sub THEN page_entries
                         ELSE IF regenerated THEN Page!dropTrailingAssistant(page_entries)
                         ELSE Append(page_entries, Page!Entry("user", r, <<>>))
      /\ page_ids' = IF sub \/ regenerated THEN page_ids ELSE page_ids + 1
      /\ page_discarded' = page_discarded \cup lost
  BY <1>2 DEF Page!Start, Page!OnStarted
<1>10. Len(page_entries) \in Nat
  BY <1>1
<1>11. CASE sub
  <2>1. page_entries' = page_entries /\ page_ids' = page_ids
    BY <1>9, <1>11
  <2>2. (Len(page_entries') + 1)..Len(page_entries) = {}
    BY <1>10, <2>1
  <2>3. page_discarded' = page_discarded
    BY <1>9, <2>2
  <2> QED  BY <1>6, <1>7, <1>8, <2>1, <2>3, PageUnseen
<1>12. CASE ~sub /\ ~regenerated
  <2>1. PICK k, t : k = "user" /\ t = <<>>
    OBVIOUS
  <2>2. k \in EntryKinds /\ t \in Seq(PageChunk)
    BY <2>1 DEF EntryKinds
  <2>3. PICK e : e = Page!Entry(k, r, t)
    OBVIOUS
  <2>4. e \in PageEntry /\ e.kind = k /\ e.id = page_ids + 1 /\ e.text = t
    BY <1>1, <2>2, <2>3, EntryTyped
  <2>5. page_entries' = Append(page_entries, e) /\ page_ids' = page_ids + 1
    BY <1>9, <1>12, <2>1, <2>3
  <2>6. (Len(page_entries') + 1)..Len(page_entries) = {}
    <3>1. Len(page_entries') = Len(page_entries) + 1
      BY <1>1, <2>4, <2>5
    <3> QED  BY <1>10, <3>1
  <2>7. page_discarded' = page_discarded
    BY <1>9, <2>6
  <2>8. e.kind \notin PageKinds /\ ShowsWhatWasSaid(e, page_said, page_calls)
    BY <2>1, <2>4 DEF ShowsWhatWasSaid, PageKinds
  <2>9. /\ ShownInOrder(page_entries, page_ids, page_said, page_calls)
        /\ page_calls \in Seq({"none", "running", "success", "error"})
    BY DEF PageInv, PageTypes
  <2> QED  BY <1>6, <1>7, <2>4, <2>5, <2>7, <2>8, <2>9, RowAdded
<1>13. CASE ~sub /\ regenerated
  <2>1. PICK n \in 0..Len(page_entries) :
           /\ Page!dropTrailingAssistant(page_entries) = SubSeq(page_entries, 1, n)
           /\ \A i \in (n + 1)..Len(page_entries) : page_entries[i].kind \in {"assistant", "tool"}
    BY <1>1, DroppedAtTheEnd
  <2>2. page_entries' = SubSeq(page_entries, 1, n) /\ page_ids' = page_ids
    BY <1>9, <1>13, <2>1
  <2>3. PICK F : F = SubSeq(page_entries, 1, n)
    OBVIOUS
  <2>4. /\ ShownInOrder(page_entries, page_ids, page_said, page_calls) /\ page_ids \in Nat
        /\ NothingMissing(page_entries, page_said, page_discarded)
    BY <1>1 DEF PageInv, PageTypes
  <2>5. /\ F \in Seq(PageEntry) /\ Len(F) = n /\ DOMAIN F = 1..n
        /\ ShownInOrder(F, page_ids, page_said, page_calls)
        /\ \A i \in 1..n : i \in DOMAIN page_entries /\ F[i] = page_entries[i]
    BY <1>1, <2>3, <2>4, PrefixShown
  <2>6. ASSUME NEW i \in (n + 1)..Len(page_entries), page_entries[i].kind = "assistant"
        PROVE  Page!Of(page_entries[i]) \in page_discarded'
    <3>1. Page!Of(page_entries[i]) \in lost
      BY <2>2, <2>3, <2>5, <2>6 DEF Page!Of
    <3> QED  BY <1>9, <3>1
  <2>7. NothingMissing(F, page_said, page_discarded')
    <3> SUFFICES ASSUME NEW q \in DOMAIN page_said, NEW kind \in PageKinds,
                        page_said[q][kind] > 0
                 PROVE  q \in page_discarded' \/ Present(F, q, kind)
      BY DEF NothingMissing
    <3>1. CASE q \in page_discarded
      BY <1>9, <3>1
    <3>2. CASE Present(page_entries, q, kind)
      <4>1. PICK i \in DOMAIN page_entries :
               page_entries[i].kind = kind /\ Page!Of(page_entries[i]) = q
        BY <3>2 DEF Present
      <4>2. i \in 1..n \/ i \in (n + 1)..Len(page_entries)
        BY <1>1, <2>1
      <4>3. CASE i \in 1..n
        BY <2>5, <4>1, <4>3 DEF Present
      <4>4. CASE i \in (n + 1)..Len(page_entries)
        <5>1. page_entries[i].kind = "assistant"
          BY <2>1, <4>1, <4>4 DEF PageKinds
        <5> QED  BY <2>6, <4>1, <4>4, <5>1
      <4> QED  BY <4>2, <4>3, <4>4
    <3> QED  BY <2>4, <3>1, <3>2 DEF NothingMissing
  <2>8. PageTypes'
    BY <1>1, <1>6, <1>7, <2>2, <2>3, <2>5 DEF PageTypes, PageActor, Agents
  <2> QED  BY <1>6, <1>7, <2>2, <2>3, <2>5, <2>7, <2>8, PageAtRest
<1> HIDE DEF sub
<1> QED  BY <1>11, <1>12, <1>13

(* A request that says its first chunk of a kind has no text of it yet.    *)
LEMMA ShownBefore ==
    ASSUME NEW E \in Seq(PageEntry), NEW top, NEW S \in Seq(PageSaid), NEW outcomes,
           ShownInOrder(E, top, S, outcomes), NEW q \in DOMAIN S, NEW kind \in PageKinds,
           S[q][kind] = 0,
           NEW T, OneMore(S, T, q, kind)
    PROVE  /\ ShownInOrder(E, top, T, outcomes)
           /\ \A i \in DOMAIN E : E[i].kind = kind => Page!Of(E[i]) \in DOMAIN S \ {q}
<1>1. ASSUME NEW i \in DOMAIN E, E[i].kind = kind
      PROVE  Page!Of(E[i]) \in DOMAIN S \ {q}
  <2>1. /\ E[i].text # <<>> /\ Page!Of(E[i]) \in DOMAIN S
        /\ E[i].text = ChunksOf(Page!Of(E[i]), S[Page!Of(E[i])][kind])
    BY <1>1 DEF ShownInOrder, ShowsWhatWasSaid
  <2>2. ChunksOf(q, 0) = <<>>
    BY DEF ChunksOf
  <2> QED  BY <2>1, <2>2
<1>2. ASSUME NEW i \in DOMAIN E
      PROVE  ShowsWhatWasSaid(E[i], T, outcomes)
  <2>1. ShowsWhatWasSaid(E[i], S, outcomes)
    BY DEF ShownInOrder
  <2>2. E[i].kind # kind \/ Page!Of(E[i]) # q
    BY <1>1
  <2> QED  BY <2>1, <2>2 DEF ShowsWhatWasSaid, OneMore
<1> QED  BY <1>1, <1>2 DEF ShownInOrder

(* Positions whose number is b: at most one.                               *)
LEMMA OneOfItsNumber ==
    ASSUME NEW E \in Seq(PageEntry), NEW top, NEW S, NEW outcomes,
           ShownInOrder(E, top, S, outcomes), NEW c \in DOMAIN E
    PROVE  {i \in DOMAIN E : E[i].id = E[c].id} = {c}
<1> SUFFICES ASSUME NEW i \in DOMAIN E, E[i].id = E[c].id, i # c
             PROVE  FALSE
  OBVIOUS
<1>1. i < c \/ c < i
  OBVIOUS
<1>2. E[i].id < E[c].id \/ E[c].id < E[i].id
  BY <1>1 DEF ShownInOrder
<1> QED  BY <1>2, EntryParts

(* A block that is filled stays so when another kind of text grows and the *)
(* entries keep their places.                                              *)
LEMMA StillFilled ==
    ASSUME NEW E, NEW F, NEW S, NEW T, NEW q, NEW k, NEW b, Fills(E, k, b, q, S),
           T[q][k] = S[q][k],
           \A i \in DOMAIN E : /\ i \in DOMAIN F /\ F[i].kind = E[i].kind
                               /\ F[i].id = E[i].id /\ Page!Of(F[i]) = Page!Of(E[i])
    PROVE  Fills(F, k, b, q, T)
BY DEF Fills

(* What one more chunk does not make missing.                              *)
LEMMA NotMissingMore ==
    ASSUME NEW E, NEW F, NEW S, NEW T, NEW gone, NothingMissing(E, S, gone),
           NEW q \in DOMAIN S, NEW kind \in PageKinds, OneMore(S, T, q, kind),
           Present(F, q, kind),
           \A i \in DOMAIN E : /\ i \in DOMAIN F /\ F[i].kind = E[i].kind
                               /\ Page!Of(F[i]) = Page!Of(E[i])
    PROVE  NothingMissing(F, T, gone)
<1>1. NothingMissing(F, S, gone)
  BY StillPresent
<1> QED  BY <1>1 DEF NothingMissing, OneMore

(* A chunk is added to the entry its request is filling, or opens one.     *)
LEMMA PageGrows ==
    ASSUME PageInv, NEW a \in Agents, NEW kind \in PageKinds, Page!Chunk(a, kind)
    PROVE  PageInv'
<1> DEFINE E == page_entries
           S == page_said
           q == Len(S)
<1>1. /\ PageTypes /\ E \in Seq(PageEntry) /\ S \in Seq(PageSaid) /\ page_ids \in Nat
      /\ page_actor[a].stage = "streaming" /\ page_actor[a].request = q /\ S # <<>>
      /\ page_actor[a].run \in PageRun
      /\ S[q].run = page_actor[a].run /\ q \in Nat
      /\ ShownInOrder(E, page_ids, S, page_calls) /\ NothingMissing(E, S, page_discarded)
  BY DEF PageInv, PageTypes, PageSaid, PageActor, Agents, Page!Chunk
<1>2. PICK r \in PageRun : r = page_actor[a].run
  BY <1>1
<1>3. PICK b : b = Page!blocksOf(r)
  OBVIOUS
<1>4. /\ b \in PageBlock /\ b[kind] \in Nat /\ kind \in {"thinking", "assistant"}
      /\ \A k \in PageKinds : Fills(E, k, b[k], q, S)
  <2>1. b \in PageBlock
    BY <1>1, <1>3, BlocksTyped
  <2>2. \A k \in PageKinds : Fills(E, k, b[k], q, S)
    BY <1>1, <1>2, <1>3 DEF PageInv, Agents
  <2> QED  BY <2>1, <2>2 DEF PageBlock, PageKinds
<1>5. q \in DOMAIN S /\ q \in 1..q
  BY <1>1
<1>6. PICK T : T = SayMore(S, q, kind)
  OBVIOUS
<1>13. T \in Seq(PageSaid) /\ OneMore(S, T, q, kind) /\ Len(T) = q
  <2>1. Len(S) = q
    OBVIOUS
  <2> HIDE DEF E, S, q
  <2>2. S \in Seq(PageSaid)
    BY <1>1
  <2>3. q \in DOMAIN S
    BY <1>5
  <2>4. T \in Seq(PageSaid) /\ Len(T) = Len(S) /\ OneMore(S, T, q, kind)
    BY <1>6, <2>2, <2>3, SaidMore
  <2> QED  BY <2>1, <2>4
<1>7. /\ DOMAIN T = DOMAIN S /\ \A p \in DOMAIN S : T[p].run = S[p].run
      /\ \A p \in DOMAIN S, k \in PageKinds :
            T[p][k] = IF p = q /\ k = kind THEN S[p][k] + 1 ELSE S[p][k]
  BY <1>13 DEF OneMore
<1> DEFINE at == {i \in DOMAIN E : b[kind] # 0 /\ E[i].id = b[kind]}
           chunk == [request |-> q, n |-> S[q][kind] + 1]
<1>8. /\ page_said' = T
      /\ UNCHANGED <<page_actor, page_counter, page_calls, page_discarded>>
      /\ IF at # {}
         THEN /\ page_entries' = [i \in DOMAIN E |->
                    IF i \in at THEN [E[i] EXCEPT !.text = Append(@, chunk)] ELSE E[i]]
              /\ Page!withBlocks(r, b) /\ page_ids' = page_ids
         ELSE /\ page_entries' = Append(E, Page!Entry(kind, r, <<chunk>>))
              /\ page_ids' = page_ids + 1
              /\ Page!withBlocks(r, [b EXCEPT ![kind] = page_ids + 1])
  BY <1>1, <1>2, <1>3, <1>6 DEF Page!Chunk, Page!OnChunk, SayMore
<1>9. /\ S[q][kind] \in Nat /\ chunk \in PageChunk
  <2>1. S[q] \in PageSaid
    BY <1>1, <1>5
  <2>2. S[q][kind] \in Nat
    BY <2>1 DEF PageSaid, PageKinds
  <2> QED  BY <1>1, <2>2 DEF PageChunk
<1> HIDE DEF chunk
(* What is left to show of the new state, once its parts are known.        *)
<1>10. ASSUME NEW F \in Seq(PageEntry), NEW y \in PageBlock, NEW top \in Nat,
              page_entries' = F, page_ids' = top, Page!withBlocks(r, y),
              ShownInOrder(F, top, T, page_calls), Present(F, q, kind),
              \A i \in DOMAIN E : /\ i \in DOMAIN F /\ F[i].kind = E[i].kind
                                  /\ F[i].id = E[i].id /\ Page!Of(F[i]) = Page!Of(E[i]),
              Fills(F, kind, y[kind], q, T),
              \A k \in PageKinds : k # kind => y[k] = b[k]
       PROVE  PageInv'
  <2>1. /\ r \in DOMAIN page_blocks' /\ page_blocks'[r] = y
        /\ \A x \in DOMAIN page_blocks' : page_blocks'[x] \in PageBlock
    BY <1>1, <1>10, BlocksTyped
  <2>2. NothingMissing(F, T, page_discarded)
    <3> HIDE DEF E, S, q
    <3>1. \A i \in DOMAIN E : /\ i \in DOMAIN F /\ F[i].kind = E[i].kind
                              /\ Page!Of(F[i]) = Page!Of(E[i])
      BY <1>10
    <3>2. NothingMissing(E, S, page_discarded)
      BY <1>1
    <3> QED  BY <1>5, <1>10, <1>13, <3>1, <3>2, NotMissingMore
  <2>3. \A k \in PageKinds : Fills(F, k, y[k], q, T)
    <3> SUFFICES ASSUME NEW k \in PageKinds, k # kind
                 PROVE  Fills(F, k, b[k], q, T)
      BY <1>10
    <3>1. T[q][k] = S[q][k]
      BY <1>5, <1>7
    <3>2. Fills(E, k, b[k], q, S)
      BY <1>4
    <3>3. \A i \in DOMAIN E : /\ i \in DOMAIN F /\ F[i].kind = E[i].kind
                              /\ F[i].id = E[i].id /\ Page!Of(F[i]) = Page!Of(E[i])
      BY <1>10
    <3> HIDE DEF E, S, q
    <3> QED  BY <3>1, <3>2, <3>3, StillFilled
  <2>4. \A o \in Agents : page_actor[o].stage = "streaming" => o = a
    BY <1>1, TheOtherWaits
  <2>5. /\ page_actor'[a].run = r /\ page_actor'[a].request = Len(page_said')
        /\ page_said' = T /\ T[Len(T)].run = r /\ T # <<>> /\ Len(T) = q
    <3>1. T[q].run = S[q].run /\ Len(T) = q /\ Len(T) # 0
      BY <1>1, <1>5, <1>7, <1>13
    <3> QED  BY <1>1, <1>2, <1>8, <3>1
  <2>6. ASSUME NEW o \in Agents, page_actor'[o].stage = "streaming"
        PROVE  /\ page_actor'[o].request = Len(page_said') /\ page_said' # <<>>
               /\ page_said'[Len(page_said')].run = page_actor'[o].run
               /\ \A k \in PageKinds :
                     Fills(page_entries, k, Page!blocksOf(page_actor[o].run)[k],
                           Len(page_said), page_said)'
    <3>1. o = a
      BY <1>8, <2>4, <2>6
    <3>2. Page!blocksOf(page_actor[o].run)' = y
      BY <2>1, <2>5, <3>1 DEF Page!blocksOf
    <3> HIDE DEF S, q
    <3> QED  BY <1>10, <2>3, <2>5, <3>1, <3>2
  <2>7. PageTypes'
    BY <1>1, <1>13, <1>8, <1>10, <2>1 DEF PageTypes, PageBlock, PageSaid
  <2>8. ShownInOrder(page_entries, page_ids, page_said, page_calls)'
        /\ NothingMissing(page_entries, page_said, page_discarded)'
    BY <1>8, <1>10, <2>2
  <2>9. /\ page_actor'["child"].stage # "off" => page_actor'["main"].stage = "tool"
        /\ \A o \in Agents : page_actor'[o].stage = "off" => page_actor'[o] = Page!Off
    BY <1>8 DEF PageInv, Agents
  <2> QED  BY <2>6, <2>7, <2>8, <2>9 DEF PageInv, Agents
<1>11. CASE b[kind] # 0
  <2>1. PICK c \in DOMAIN E : E[c].kind = kind /\ E[c].id = b[kind] /\ Page!Of(E[c]) = q
    BY <1>4, <1>11 DEF Fills
  <2>2. at = {c}
    BY <1>1, <1>11, <2>1, OneOfItsNumber
  <2>3. PICK F : F = page_entries'
    OBVIOUS
  <2>4. /\ F = [i \in DOMAIN E |->
                  IF i \in at THEN [E[i] EXCEPT !.text = Append(@, chunk)] ELSE E[i]]
        /\ Page!withBlocks(r, b) /\ page_ids' = page_ids
    BY <1>8, <2>2, <2>3
  <2> HIDE DEF at
  <2>5. /\ DOMAIN F = DOMAIN E /\ F = [i \in DOMAIN E |-> F[i]]
        /\ \A i \in DOMAIN E : i # c => F[i] = E[i]
        /\ F[c] = [E[c] EXCEPT !.text = Append(@, chunk)]
    BY <2>1, <2>2, <2>4
  <2>6. F[c] = Grown(E[c], NextChunk(S, q, kind))
    BY <2>5 DEF chunk, Grown, NextChunk
  <2>7. /\ F[c] \in PageEntry /\ ShownInOrder(F, page_ids, T, page_calls)
        /\ \A i \in DOMAIN E : /\ F[i].kind = E[i].kind /\ F[i].id = E[i].id
                               /\ Page!Of(F[i]) = Page!Of(E[i])
    <3> HIDE DEF E, S, q
    <3>1. /\ E \in Seq(PageEntry) /\ page_ids \in Nat /\ S \in Seq(PageSaid)
          /\ ShownInOrder(E, page_ids, S, page_calls)
      BY <1>1
    <3>2. DOMAIN F = DOMAIN E /\ \A i \in DOMAIN E : i # c => F[i] = E[i]
      BY <2>5
    <3> QED  BY <1>5, <1>13, <2>1, <2>6, <3>1, <3>2, GrowShown
  <2>8. F \in Seq(PageEntry)
    <3>1. \A i \in DOMAIN E : F[i] \in PageEntry
      BY <1>1, <2>5, <2>7
    <3> QED  BY <1>1, <2>5, <3>1, EntryExchanged
  <2>9. Present(F, q, kind) /\ Fills(F, kind, b[kind], q, T)
    BY <1>11, <2>1, <2>5, <2>7 DEF Present, Fills
  <2> HIDE DEF E, S, q
  <2> QED  BY <1>1, <1>4, <1>10, <2>3, <2>4, <2>5, <2>7, <2>8, <2>9
<1>12. CASE b[kind] = 0
  <2>1. S[q][kind] = 0 /\ at = {}
    BY <1>4, <1>12 DEF Fills
  <2>2. PICK t, e, y : t = <<chunk>> /\ e = Page!Entry(kind, r, t)
                       /\ y = [b EXCEPT ![kind] = page_ids + 1]
    OBVIOUS
  <2>3. /\ page_entries' = Append(E, e) /\ page_ids' = page_ids + 1 /\ Page!withBlocks(r, y)
    BY <1>8, <2>1, <2>2
  <2>4. /\ t \in Seq(PageChunk) /\ t # <<>> /\ t[1].request = q /\ kind \in EntryKinds
        /\ t = ChunksOf(q, 1)
    BY <1>9, <2>1, <2>2 DEF ChunksOf, chunk, EntryKinds, PageKinds
  <2>5. /\ e \in PageEntry /\ e.kind = kind /\ e.id = page_ids + 1 /\ e.run = r /\ e.text = t
        /\ Page!Of(e) = q
    <3>1. /\ e \in PageEntry /\ e.kind = kind /\ e.id = page_ids + 1 /\ e.run = r /\ e.text = t
      <4> HIDE DEF E, S, q
      <4>1. PageTypes
        BY <1>1
      <4>2. e = Page!Entry(kind, r, t)
        BY <2>2
      <4>3. kind \in EntryKinds /\ t \in Seq(PageChunk)
        BY <2>4
      <4> QED  BY <4>1, <4>2, <4>3, EntryTyped
    <3> QED  BY <2>4, <3>1 DEF Page!Of
  <2>6. ShowsWhatWasSaid(e, T, page_calls)
    <3>1. T[q].run = r /\ T[q][kind] = 1 /\ q \in DOMAIN T
      BY <1>1, <1>2, <1>5, <1>7, <2>1
    <3>2. e.kind # "tool"
      BY <2>5 DEF PageKinds
    <3> QED  BY <2>4, <2>5, <3>1, <3>2 DEF ShowsWhatWasSaid
  <2>7. /\ ShownInOrder(E, page_ids, T, page_calls)
        /\ \A i \in DOMAIN E : E[i].kind = kind => Page!Of(E[i]) \in DOMAIN S \ {q}
    <3> HIDE DEF E, S, q
    <3> QED  BY <1>1, <1>5, <1>13, <2>1, ShownBefore
  <2>8. e.kind \in PageKinds =>
           \A i \in DOMAIN E : E[i].kind = e.kind => Page!Of(E[i]) < Page!Of(e)
    BY <1>1, <2>5, <2>7
  <2>9. PICK F : F = Append(E, e)
    OBVIOUS
  <2>10. /\ F \in Seq(PageEntry) /\ ShownInOrder(F, page_ids + 1, T, page_calls)
         /\ \A i \in DOMAIN E : i \in DOMAIN F /\ F[i] = E[i]
         /\ Len(F) \in DOMAIN F /\ F[Len(F)] = e
    <3> HIDE DEF E, S, q
    <3> QED  BY <1>1, <2>5, <2>6, <2>7, <2>8, <2>9, AppendShown
  <2>11. /\ page_ids + 1 \in Nat /\ page_ids + 1 # 0
    BY <1>1
  <2>12. /\ y \in PageBlock /\ y[kind] = page_ids + 1
         /\ \A k \in PageKinds : k # kind => y[k] = b[k]
    <3>1. CASE kind = "thinking"
      BY <1>4, <2>2, <2>11, <3>1 DEF PageBlock, PageKinds
    <3>2. CASE kind = "assistant"
      BY <1>4, <2>2, <2>11, <3>2 DEF PageBlock, PageKinds
    <3> QED  BY <3>1, <3>2 DEF PageKinds
  <2>13. Present(F, q, kind) /\ Fills(F, kind, y[kind], q, T)
    BY <2>5, <2>10, <2>11, <2>12 DEF Present, Fills
  <2> HIDE DEF E, S, q
  <2> QED  BY <1>10, <2>3, <2>9, <2>10, <2>11, <2>12, <2>13
<1> QED  BY <1>11, <1>12

(* Every step of the page keeps it sound.                                  *)
LEMMA PageStep ==
    ASSUME PageInv, [Page!Next]_(Page!transcriptVars)
    PROVE  PageInv'
<1>1. DOMAIN page_actor = Agents
  BY DEF PageInv, PageTypes, Agents
<1>2. CASE UNCHANGED Page!transcriptVars
  <2>1. UNCHANGED <<page_entries, page_blocks, page_ids, page_actor, page_counter, page_said,
                    page_calls, page_discarded>>
    BY <1>2 DEF Page!transcriptVars, Page!agentVars
  <2> QED  BY <2>1 DEF PageInv, PageTypes, Page!blocksOf
<1>3. CASE \E regenerated \in BOOLEAN : Page!Start(regenerated)
  BY <1>3, PageStart
<1>4. CASE \E k \in Kids : Page!StartChild(k)
  BY <1>4, PageStartChild
<1>5. CASE \E a \in Agents : Page!Request(a)
  BY <1>5, PageRequest
<1>6. CASE \E a \in Agents : Page!Responded(a)
  BY <1>6, PageResponded
<1>7. CASE \E a \in Agents : Page!CallTool(a)
  BY <1>7, PageCallTool
<1>8. CASE \E a \in Agents : Page!Finish(a)
  BY <1>8, PageFinish
<1>9. CASE \E a \in Agents, kind \in PageKinds : Page!Chunk(a, kind)
  BY <1>9, PageGrows
<1>10. CASE \E a \in Agents, status \in {"success", "error"} : Page!ToolFinished(a, status)
  BY <1>10, PageToolFinished
<1>11. CASE Page!Fail
  BY <1>11, PageFail
<1>12. CASE Page!ChildDies \/ Page!Cancel \/ Page!Restart
  BY <1>12, PageStops
<1> QED
  BY <1>1, <1>2, <1>3, <1>4, <1>5, <1>6, <1>7, <1>8, <1>9, <1>10, <1>11, <1>12
  DEF Page!Next, PageKinds

(* However runs, subagents, cancellations and restarts interleave, every   *)
(* text of the transcript holds all the chunks of one request of its own   *)
(* run, in order and once, none is missing unless its answer was           *)
(* discarded, and a tool row shows its own call's outcome (reduce() of the *)
(* page).                                                                  *)
THEOREM TranscriptsStayFaithful == ServicesSpec => []TranscriptIsFaithful
<1>1. ServicesInit => PageInv
  <2> SUFFICES ASSUME ServicesInit
               PROVE  PageInv
    OBVIOUS
  <2>1. /\ page_entries = <<>> /\ page_blocks = <<>> /\ page_ids = 0
        /\ page_actor = [a \in {"main", "child"} |-> Page!Off] /\ page_counter = 0
        /\ page_said = <<>> /\ page_calls = <<>> /\ page_discarded = {}
    BY DEF ServicesInit, Page!Init
  <2>2. PageTypes
    BY <2>1 DEF PageTypes, Page!Off, PageRun
  <2>3. /\ ShownInOrder(page_entries, page_ids, page_said, page_calls)
        /\ NothingMissing(page_entries, page_said, page_discarded)
    BY <2>1 DEF ShownInOrder, NothingMissing
  <2> QED  BY <2>1, <2>2, <2>3 DEF PageInv, Page!Off
<1>2. PageInv => TranscriptIsFaithful
  <2> SUFFICES ASSUME PageInv
               PROVE  Page!TranscriptIsFaithful
    BY DEF TranscriptIsFaithful
  <2>1. /\ ShownInOrder(page_entries, page_ids, page_said, page_calls)
        /\ NothingMissing(page_entries, page_said, page_discarded)
    BY DEF PageInv
  <2>2. ASSUME NEW kind \in PageKinds
        PROVE  /\ \A i \in Page!Texts(kind) :
                     LET q == Page!Of(page_entries[i])
                     IN  /\ page_said[q].run = page_entries[i].run
                         /\ page_entries[i].text =
                               [n \in 1..page_said[q][kind] |-> [request |-> q, n |-> n]]
               /\ \A i, j \in Page!Texts(kind) : i < j =>
                     Page!Of(page_entries[i]) < Page!Of(page_entries[j])
               /\ \A q \in DOMAIN page_said : page_said[q][kind] > 0 =>
                     (q \in page_discarded \/ \E i \in Page!Texts(kind) : Page!Of(page_entries[i]) = q)
    <3>1. \A i \in DOMAIN page_entries : page_entries[i].kind = kind =>
             /\ page_entries[i].text # <<>>
             /\ page_said[Page!Of(page_entries[i])].run = page_entries[i].run
             /\ page_entries[i].text =
                   ChunksOf(Page!Of(page_entries[i]), page_said[Page!Of(page_entries[i])][kind])
      BY <2>1 DEF ShownInOrder, ShowsWhatWasSaid
    <3>2. \A i \in Page!Texts(kind) : i \in DOMAIN page_entries /\ page_entries[i].kind = kind
      BY DEF Page!Texts
    <3>3. \A i, j \in Page!Texts(kind) : i < j =>
             Page!Of(page_entries[i]) < Page!Of(page_entries[j])
      BY <2>1, <3>2 DEF ShownInOrder
    <3>4. \A q \in DOMAIN page_said : page_said[q][kind] > 0 =>
             (q \in page_discarded \/ \E i \in Page!Texts(kind) : Page!Of(page_entries[i]) = q)
      BY <2>1, <3>1 DEF NothingMissing, Present, Page!Texts
    <3> QED  BY <3>1, <3>2, <3>3, <3>4 DEF ChunksOf
  <2>3. \A i \in DOMAIN page_entries : page_entries[i].kind = "tool" =>
           page_entries[i].status = page_calls[page_entries[i].call]
    BY <2>1 DEF ShownInOrder, ShowsWhatWasSaid
  <2> QED  BY <2>2, <2>3 DEF Page!TranscriptIsFaithful, PageKinds
<1>3. PageInv /\ [ServicesNext]_servicesVars => PageInv'
  BY PageSteps, PageStep
<1> QED  BY <1>1, <1>2, <1>3, PTL DEF ServicesSpec
===========================================================================
