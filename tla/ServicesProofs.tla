--------------------------- MODULE ServicesProofs ---------------------------
(***************************************************************************)
(* What is proved of the components around a session and of the session    *)
(* registry, for every number of plugins, skills, calls, models, notes,    *)
(* sessions and requests (ServicesMcpProofs has the MCP components,        *)
(* ServicesResearchProofs research, ServicesDataProofs the statistics and  *)
(* the transcript).  Each component has an inductive invariant over its    *)
(* own variables; a step of Services is a step of the component or leaves  *)
(* these variables alone.                                                  *)
(***************************************************************************)
EXTENDS Services, FiniteSetTheorems, TLAPS

---------------------------------------------------------------------------
(* Plugins.                                                                *)

(* A plugin that is set up owns and tracks exactly what it brings; what a  *)
(* failed set-up left behind is among it, and a withdrawn one owns nothing. *)
PluginsInv ==
    /\ plugins_state \in [PluginNames -> {"absent", "discovered", "loaded", "initialized",
                                          "active", "failed", "deactivated"}]
    /\ plugins_owner \in [PluginTools -> PluginNames \cup {"none"}]
    /\ DOMAIN plugins_tracked = PluginNames
    /\ \A p \in PluginNames :
          /\ \A t \in PluginTools : plugins_owner[t] = p => t \in Brings[p]
          /\ plugins_tracked[p] = Plugins!NoContext \/ plugins_tracked[p] \subseteq Brings[p]
          /\ plugins_state[p] \in {"initialized", "active"} =>
                /\ plugins_tracked[p] = Brings[p]
                /\ \A t \in Brings[p] : plugins_owner[t] = p
          /\ plugins_state[p] = "deactivated" => \A t \in PluginTools : plugins_owner[t] # p

(* A step of a component, or of another one, is a step of the component or *)
(* leaves it alone: so it is for each of them.                             *)
LEMMA PluginsSteps == [ServicesNext]_servicesVars => [Plugins!Next]_(Plugins!pluginVars)
BY DEF ServicesNext, Only, servicesVars, pluginsVars, Plugins!pluginVars

(* A set-up, whether it ends or raises half-way, keeps the invariant: it   *)
(* takes only tools that are free, and only its plugin's.                  *)
LEMMA PluginSetUp ==
    ASSUME PluginsInv, NEW p \in PluginNames, NEW then \in {"initialized", "active"},
           Plugins!Initialize(p, then),
           plugins_state[p] \notin {"initialized", "active"} \/ plugins_state[p] = "active"
    PROVE  PluginsInv'
<1> USE PluginsAssumption
<1> DEFINE ours == IF plugins_tracked[p] = Plugins!NoContext THEN {} ELSE plugins_tracked[p]
<1>1. PICK done \in SUBSET Brings[p] :
         /\ plugins_owner' = [t \in PluginTools |-> IF t \in done THEN p ELSE plugins_owner[t]]
         /\ plugins_tracked' = [plugins_tracked EXCEPT ![p] = ours \cup done]
         /\ \A t \in done : plugins_owner[t] = "none"
         /\ \/ done = Brings[p] /\ plugins_state' = [plugins_state EXCEPT ![p] = then]
            \/ plugins_state' = [plugins_state EXCEPT ![p] = "failed"]
  <2>1. Brings[p] \subseteq PluginTools
    BY DEF PluginsInv
  <2>2. CASE /\ Brings[p] \subseteq Plugins!Free
             /\ Plugins!Setup(p, Brings[p]) /\ Plugins!Goes(p, then)
    <3> WITNESS Brings[p] \in SUBSET Brings[p]
    <3> QED  BY <2>1, <2>2 DEF Plugins!Free, Plugins!Setup, Plugins!Goes, Plugins!WithContext
  <2>3. ASSUME NEW some \in SUBSET (Brings[p] \cap Plugins!Free),
               Plugins!Setup(p, some) /\ Plugins!Goes(p, "failed")
        PROVE  \E done \in SUBSET Brings[p] :
         /\ plugins_owner' = [t \in PluginTools |-> IF t \in done THEN p ELSE plugins_owner[t]]
         /\ plugins_tracked' = [plugins_tracked EXCEPT ![p] = ours \cup done]
         /\ \A t \in done : plugins_owner[t] = "none"
         /\ plugins_state' = [plugins_state EXCEPT ![p] = "failed"]
    <3> WITNESS some \in SUBSET Brings[p]
    <3> QED  BY <2>1, <2>3 DEF Plugins!Free, Plugins!Setup, Plugins!Goes, Plugins!WithContext
  <2> QED  BY <2>2, <2>3 DEF Plugins!Initialize
<1>2. ours \subseteq Brings[p]
  BY DEF PluginsInv
<1>3. /\ \A q \in PluginNames \ {p} : /\ plugins_state'[q] = plugins_state[q]
                                      /\ plugins_tracked'[q] = plugins_tracked[q]
      /\ plugins_tracked'[p] = ours \cup done
      /\ plugins_state'[p] = "failed" \/ (done = Brings[p] /\ plugins_state'[p] = then)
      /\ \A t \in PluginTools : plugins_owner'[t] = IF t \in done THEN p ELSE plugins_owner[t]
      /\ plugins_state' \in [PluginNames -> {"absent", "discovered", "loaded", "initialized",
                                             "active", "failed", "deactivated"}]
      /\ plugins_owner' \in [PluginTools -> PluginNames \cup {"none"}]
      /\ DOMAIN plugins_tracked' = PluginNames
  BY <1>1 DEF PluginsInv
<1> HIDE DEF ours
<1>4. \A q \in PluginNames : Brings[q] \subseteq PluginTools
  OBVIOUS
<1>5. \A t \in done : plugins_owner[t] = "none"
  BY <1>1
<1>6. ASSUME NEW q \in PluginNames \ {p}
      PROVE  /\ \A t \in PluginTools : plugins_owner'[t] = q => t \in Brings[q]
             /\ plugins_tracked'[q] = Plugins!NoContext \/ plugins_tracked'[q] \subseteq Brings[q]
             /\ plugins_state'[q] \in {"initialized", "active"} =>
                   /\ plugins_tracked'[q] = Brings[q]
                   /\ \A t \in Brings[q] : plugins_owner'[t] = q
             /\ plugins_state'[q] = "deactivated" => \A t \in PluginTools : plugins_owner'[t] # q
  BY <1>3, <1>4, <1>5 DEF PluginsInv
<1>7. /\ \A t \in PluginTools : plugins_owner'[t] = p => t \in Brings[p]
      /\ plugins_tracked'[p] \subseteq Brings[p]
      /\ plugins_state'[p] \in {"initialized", "active"} =>
            /\ plugins_tracked'[p] = Brings[p]
            /\ \A t \in Brings[p] : plugins_owner'[t] = p
      /\ plugins_state'[p] # "deactivated"
  <2>1. done \subseteq Brings[p]
    BY <1>1
  <2> QED  BY <2>1, <1>2, <1>3, <1>4 DEF PluginsInv
<1> QED  BY <1>3, <1>6, <1>7 DEF PluginsInv

(* Every action of the plugin manager keeps the invariant.                 *)
LEMMA PluginsStep == PluginsInv /\ [Plugins!Next]_(Plugins!pluginVars) => PluginsInv'
<1> SUFFICES ASSUME PluginsInv, [Plugins!Next]_(Plugins!pluginVars) PROVE PluginsInv'
  OBVIOUS
<1> USE PluginsAssumption
<1>1. CASE Plugins!Discover
  BY <1>1 DEF Plugins!Discover, PluginsInv
<1>2. CASE Plugins!LoadAll
  BY <1>2 DEF Plugins!LoadAll, PluginsInv
<1>3. ASSUME NEW p \in PluginNames, Plugins!Load(p) PROVE PluginsInv'
  BY <1>3 DEF Plugins!Load, Plugins!Goes, Plugins!WithContext, PluginsInv
<1>4. ASSUME NEW p \in PluginNames, Plugins!InitializeOne(p) PROVE PluginsInv'
  BY <1>4, PluginSetUp DEF Plugins!InitializeOne
<1>5. ASSUME NEW p \in PluginNames, Plugins!Activate(p) PROVE PluginsInv'
  <2>1. CASE plugins_state[p] = "initialized" /\ Plugins!Goes(p, "active")
             /\ UNCHANGED <<plugins_owner, plugins_tracked>>
    BY <2>1 DEF Plugins!Goes, PluginsInv
  <2>2. CASE plugins_state[p] \notin {"initialized", "failed"} /\ Plugins!Initialize(p, "active")
    BY <2>2, PluginSetUp
  <2> QED  BY <1>5, <2>1, <2>2 DEF Plugins!Activate
<1>6. ASSUME NEW p \in PluginNames, Plugins!Deactivate(p) PROVE PluginsInv'
  BY <1>6 DEF Plugins!Deactivate, Plugins!Goes, Plugins!Withdraw, PluginsInv
<1>7. ASSUME NEW p \in PluginNames, Plugins!Unload(p) PROVE PluginsInv'
  BY <1>7 DEF Plugins!Unload, Plugins!Goes, Plugins!Withdraw, PluginsInv
<1>8. CASE UNCHANGED Plugins!pluginVars
  BY <1>8 DEF Plugins!pluginVars, PluginsInv
<1> QED  BY <1>1, <1>2, <1>3, <1>4, <1>5, <1>6, <1>7, <1>8 DEF Plugins!Next

(* Deactivating a plugin takes its tools away, and only its own, whatever  *)
(* set-ups failed before (PluginManager.deactivate).                       *)
THEOREM PluginsOwnTheirTools == ServicesSpec => []PluginOwnsItsTools
<1>1. ServicesInit => PluginsInv
  BY PluginsAssumption DEF ServicesInit, Plugins!Init, Plugins!NoContext, PluginsInv
<1>2. PluginsInv => PluginOwnsItsTools
  BY DEF PluginsInv, PluginOwnsItsTools, Plugins!PluginOwnsItsTools
<1>3. PluginsInv /\ [ServicesNext]_servicesVars => PluginsInv'
  BY PluginsSteps, PluginsStep
<1> QED  BY <1>1, <1>2, <1>3, PTL DEF ServicesSpec

---------------------------------------------------------------------------
(* Skills.                                                                 *)

(* See PluginsSteps.                                                       *)
LEMMA SkillsSteps == [ServicesNext]_servicesVars => [Skills!Next]_(Skills!skillVars)
BY DEF ServicesNext, Only, servicesVars, skillsVars, Skills!skillVars

(* SkillsAreReachable is inductive as it stands.                           *)
LEMMA SkillsStep ==
    Skills!SkillsAreReachable /\ [Skills!Next]_(Skills!skillVars) => Skills!SkillsAreReachable'
<1> SUFFICES ASSUME Skills!SkillsAreReachable, [Skills!Next]_(Skills!skillVars)
             PROVE Skills!SkillsAreReachable'
  OBVIOUS
<1> USE DEF Skills!SkillsAreReachable
<1>1. ASSUME NEW n \in SkillNames, Skills!Edit(n) PROVE Skills!SkillsAreReachable'
  BY <1>1 DEF Skills!Edit
<1>2. ASSUME NEW ok \in BOOLEAN, Skills!Discovers(ok) PROVE skills_catalog \subseteq skills_catalog'
  BY <1>2 DEF Skills!Discovers
<1>3. ASSUME NEW n \in SkillNames, Skills!LoadSkill(n) PROVE Skills!SkillsAreReachable'
  <2>1. skills_catalog \subseteq skills_catalog'
    BY <1>2, <1>3 DEF Skills!LoadSkill
  <2> QED  BY <1>3, <2>1 DEF Skills!LoadSkill
<1>4. ASSUME NEW wanted \in SUBSET SkillNames, Skills!Pin(wanted) PROVE Skills!SkillsAreReachable'
  <2>1. skills_catalog \subseteq skills_catalog'
    BY <1>2, <1>4 DEF Skills!Pin
  <2>2. CASE UNCHANGED <<skills_loaded, skills_active, skills_pinned, skills_applied, skills_stored>>
    BY <1>4, <2>1, <2>2 DEF Skills!Pin
  <2>3. CASE /\ wanted \subseteq skills_catalog' /\ Skills!Preload(wanted, wanted)
             /\ skills_applied' = skills_pinned' /\ skills_stored' = skills_applied'
    BY <1>4, <2>1, <2>3 DEF Skills!Pin, Skills!Preload
  <2> QED  BY <1>4, <2>2, <2>3 DEF Skills!Pin
<1>5. CASE Skills!List
  <2>1. skills_catalog \subseteq skills_catalog'
    BY <1>2, <1>5 DEF Skills!List
  <2> QED  BY <1>5, <2>1 DEF Skills!List
<1>6. CASE Skills!Flush
  BY <1>6 DEF Skills!Flush
<1>7. CASE Skills!Restart
  BY <1>7 DEF Skills!Restart
<1>8. CASE UNCHANGED Skills!skillVars
  BY <1>8 DEF Skills!skillVars
<1> QED  BY <1>1, <1>3, <1>4, <1>5, <1>6, <1>7, <1>8 DEF Skills!Next

(* The prompt never names a skill that cannot be rendered, and the pins on *)
(* disk are those the reader chose (SkillManager.preload).                 *)
THEOREM SkillsStayReachable == ServicesSpec => []SkillsAreReachable
<1>1. ServicesInit => Skills!SkillsAreReachable
  BY DEF ServicesInit, Skills!Init, Skills!SkillsAreReachable
<1>2. Skills!SkillsAreReachable => SkillsAreReachable
  BY DEF SkillsAreReachable
<1>3. Skills!SkillsAreReachable /\ [ServicesNext]_servicesVars => Skills!SkillsAreReachable'
  BY SkillsSteps, SkillsStep
<1> QED  BY <1>1, <1>2, <1>3, PTL DEF ServicesSpec

---------------------------------------------------------------------------
(* The agent loop's guards.                                                *)

(* Until the limit is noticed a call failed less often than it takes; from *)
(* then on what is left of the response is all that may still fail.        *)
LoopInv ==
    /\ loop_at \in {"idle", "ask", "batch"}
    /\ loop_batch \in Seq(Signatures) /\ Len(loop_batch) <= MaxLoopBatch
    /\ loop_at = "batch" <=> loop_batch # <<>>
    /\ loop_failures \in [Signatures -> 0..MaxFailures]
    /\ loop_repeatDetected \in BOOLEAN
    /\ loop_streak \in [Signatures -> Nat]
    /\ loop_repeatDetected => \E s \in Signatures : loop_failures[s] = MaxFailures
    /\ \A s \in Signatures :
          /\ loop_at # "idle" /\ ~loop_repeatDetected =>
                loop_streak[s] <= loop_failures[s] /\ loop_streak[s] < MaxFailures
          /\ loop_streak[s] + Len(loop_batch) <= MaxFailures - 1 + MaxLoopBatch

(* See PluginsSteps.                                                       *)
LEMMA LoopSteps == [ServicesNext]_servicesVars => [Loop!Next]_(Loop!loopVars)
BY DEF ServicesNext, Only, servicesVars, loopVars, Loop!loopVars

(* Every action of the loop keeps the invariant.                           *)
LEMMA LoopStep == LoopInv /\ [Loop!Next]_(Loop!loopVars) => LoopInv'
<1> SUFFICES ASSUME LoopInv, [Loop!Next]_(Loop!loopVars) PROVE LoopInv'
  OBVIOUS
<1> USE LoopAssumption
<1>0. /\ loop_batch \in Seq(Signatures) /\ Len(loop_batch) \in Nat /\ Len(loop_batch) <= MaxLoopBatch
      /\ loop_failures \in [Signatures -> 0..MaxFailures]
      /\ loop_streak \in [Signatures -> Nat]
      /\ \A s \in Signatures : loop_failures[s] \in 0..MaxFailures /\ loop_streak[s] \in Nat
  BY DEF LoopInv
<1>1. CASE Loop!StartRun
  <2>1. /\ loop_at = "idle" /\ loop_at' = "ask" /\ loop_repeatDetected' = FALSE
        /\ loop_streak' = [s \in Signatures |-> 0]
        /\ UNCHANGED <<loop_batch, loop_failures>>
    BY <1>1 DEF Loop!StartRun, Loop!counters, Loop!Zero
  <2>2. loop_batch = <<>> /\ Len(loop_batch) = 0
    BY <2>1 DEF LoopInv
  <2>3. \A s \in Signatures : /\ loop_streak'[s] = 0 /\ 0 <= loop_failures'[s]
                              /\ 0 < MaxFailures /\ 0 <= MaxFailures - 1 + MaxLoopBatch
    BY <1>0, <2>1
  <2>4. /\ loop_streak' \in [Signatures -> Nat]
        /\ \A s \in Signatures : loop_streak'[s] + Len(loop_batch') <= MaxFailures - 1 + MaxLoopBatch
    BY <2>1, <2>2, <2>3
  <2> QED  BY <1>0, <2>1, <2>2, <2>3, <2>4 DEF LoopInv
<1>2. CASE Loop!GivesUp
  BY <1>2 DEF Loop!GivesUp, Loop!counters, Loop!flags, LoopInv
<1>3. CASE Loop!Answer
  BY <1>3 DEF Loop!Answer, Loop!Asks, Loop!counters, Loop!flags, LoopInv
<1>4. CASE Loop!Refuse
  <2>1. /\ loop_at = "ask" /\ loop_at' = "idle" /\ loop_repeatDetected' = FALSE
        /\ loop_failures' = [s \in Signatures |-> 0]
        /\ UNCHANGED <<loop_batch, loop_streak>>
    BY <1>4 DEF Loop!Refuse, Loop!Asks, Loop!ResetRepeats, Loop!Zero
  <2>2. loop_failures' \in [Signatures -> 0..MaxFailures]
    BY <2>1
  <2> QED  BY <2>1, <2>2 DEF LoopInv
<1>5. CASE Loop!Respond
  <2>1. loop_at = "ask" /\ ~(loop_repeatDetected /\ loop_failures # Loop!Zero)
        /\ UNCHANGED <<loop_failures, loop_repeatDetected, loop_streak>> /\ loop_at' = "batch"
    BY <1>5 DEF Loop!Respond, Loop!Asks, Loop!flags
  <2>2. PICK n \in 1..MaxLoopBatch : loop_batch' \in [1..n -> Signatures]
    BY <1>5 DEF Loop!Respond
  <2>3. loop_batch' \in Seq(Signatures) /\ Len(loop_batch') = n /\ loop_batch' # <<>>
    BY <2>2
  <2>4. ~loop_repeatDetected
    BY <2>1 DEF Loop!Zero, LoopInv
  <2> QED  BY <2>1, <2>3, <2>4 DEF LoopInv
<1>6. ASSUME Loop!Took
      PROVE  /\ Head(loop_batch) \in Signatures /\ loop_batch # <<>> /\ loop_at = "batch"
             /\ loop_batch' \in Seq(Signatures) /\ Len(loop_batch') = Len(loop_batch) - 1
             /\ loop_at' \in {"ask", "batch"} /\ (loop_at' = "batch" <=> loop_batch' # <<>>)
  <2>1. loop_at = "batch" /\ loop_batch # <<>>
    BY <1>6 DEF Loop!Took, LoopInv
  <2>2. loop_batch' = Tail(loop_batch) /\ loop_at' = IF Len(loop_batch) = 1 THEN "ask" ELSE "batch"
    BY <1>6 DEF Loop!Took
  <2>3. /\ Head(loop_batch) \in Signatures /\ Tail(loop_batch) \in Seq(Signatures)
        /\ Len(Tail(loop_batch)) = Len(loop_batch) - 1
    BY <1>0, <2>1
  <2>4. Tail(loop_batch) = <<>> <=> Len(loop_batch) = 1
    <3>1. \A q \in Seq(Signatures) : q = <<>> <=> Len(q) = 0
      OBVIOUS
    <3>2. Len(loop_batch) - 1 = 0 <=> Len(loop_batch) = 1
      BY <1>0
    <3> QED  BY <2>3, <3>1, <3>2
  <2> QED  BY <2>1, <2>2, <2>3, <2>4
<1>7. CASE Loop!CallFails
  <2> DEFINE h == Head(loop_batch)
  <2>1. /\ h \in Signatures /\ loop_at = "batch"
        /\ loop_batch' \in Seq(Signatures) /\ Len(loop_batch') = Len(loop_batch) - 1
        /\ loop_at' \in {"ask", "batch"} /\ (loop_at' = "batch" <=> loop_batch' # <<>>)
    BY <1>6, <1>7 DEF Loop!CallFails
  <2>2. /\ loop_failures' = [loop_failures EXCEPT ![h] = IF @ < MaxFailures THEN @ + 1 ELSE @]
        /\ loop_repeatDetected' = (loop_repeatDetected \/ loop_failures'[h] >= MaxFailures)
        /\ loop_streak' = [loop_streak EXCEPT ![h] = @ + 1]
    BY <1>7 DEF Loop!CallFails, Loop!NoteFailedCall, Loop!Bump
  <2> HIDE DEF h
  <2>3. /\ loop_failures' \in [Signatures -> 0..MaxFailures]
        /\ loop_failures'[h] = IF loop_failures[h] < MaxFailures THEN loop_failures[h] + 1
                                                                  ELSE loop_failures[h]
        /\ loop_streak' \in [Signatures -> Nat] /\ loop_streak'[h] = loop_streak[h] + 1
        /\ \A s \in Signatures \ {h} : /\ loop_failures'[s] = loop_failures[s]
                                       /\ loop_streak'[s] = loop_streak[s]
    <3>1. loop_failures'[h] = IF loop_failures[h] < MaxFailures THEN loop_failures[h] + 1
                                                                ELSE loop_failures[h]
      BY <1>0, <2>1, <2>2
    <3>2. loop_failures'[h] \in 0..MaxFailures
      <4>1. loop_failures[h] \in 0..MaxFailures /\ MaxFailures \in Nat
        BY <1>0, <2>1
      <4>2. CASE loop_failures[h] < MaxFailures
        BY <3>1, <4>1, <4>2
      <4>3. CASE ~(loop_failures[h] < MaxFailures)
        BY <3>1, <4>1, <4>3
      <4> QED  BY <4>2, <4>3
    <3>3. \A s \in Signatures \ {h} : /\ loop_failures'[s] = loop_failures[s]
                                     /\ loop_streak'[s] = loop_streak[s]
      BY <1>0, <2>1, <2>2
    <3>4. DOMAIN loop_failures' = Signatures /\ \A s \in Signatures : loop_failures'[s] \in 0..MaxFailures
      BY <1>0, <2>1, <2>2, <3>2, <3>3
    <3>5. loop_failures' \in [Signatures -> 0..MaxFailures]
      <4>1. loop_failures' = [s \in Signatures |-> loop_failures'[s]]
        BY <1>0, <2>2
      <4> QED  BY <3>4, <4>1
    <3>6. loop_streak' \in [Signatures -> Nat] /\ loop_streak'[h] = loop_streak[h] + 1
      <4>1. loop_streak \in [Signatures -> Nat] /\ h \in Signatures
        BY <2>1 DEF LoopInv
      <4>2. loop_streak[h] + 1 \in Nat
        BY <4>1
      <4> HIDE <1>0
      <4> QED  BY <2>2, <4>1, <4>2
    <3> QED  BY <3>1, <3>3, <3>5, <3>6
  <2>4. loop_repeatDetected' => \E s \in Signatures : loop_failures'[s] = MaxFailures
    <3>1. CASE loop_repeatDetected
      <4>1. PICK s \in Signatures : loop_failures[s] = MaxFailures
        BY <3>1 DEF LoopInv
      <4> QED  BY <2>3, <4>1
    <3>2. CASE loop_failures'[h] >= MaxFailures
      BY <2>1, <2>3, <3>2
    <3> QED  BY <2>2, <3>1, <3>2
  <2>5. ASSUME NEW s \in Signatures, ~loop_repeatDetected'
        PROVE  loop_streak'[s] <= loop_failures'[s] /\ loop_streak'[s] < MaxFailures
    <3>1. ~loop_repeatDetected /\ ~(loop_failures'[h] >= MaxFailures)
      BY <2>2, <2>5
    <3>2. loop_streak[s] <= loop_failures[s] /\ loop_streak[s] < MaxFailures
      BY <2>1, <3>1 DEF LoopInv
    <3>3. loop_failures[s] \in 0..MaxFailures /\ loop_streak[s] \in Nat /\ MaxFailures \in Nat
      BY <1>0
    <3>4. CASE s = h
      BY <2>1, <2>3, <3>1, <3>2, <3>3, <3>4
    <3>5. CASE s # h
      BY <2>1, <2>3, <3>2, <3>5
    <3> QED  BY <3>4, <3>5
  <2>6. ASSUME NEW s \in Signatures
        PROVE  loop_streak'[s] + Len(loop_batch') <= MaxFailures - 1 + MaxLoopBatch
    <3>1. /\ loop_streak[s] + Len(loop_batch) <= MaxFailures - 1 + MaxLoopBatch
          /\ loop_streak[s] \in Nat /\ Len(loop_batch) \in Nat
          /\ MaxFailures - 1 + MaxLoopBatch \in Int
      BY <1>0 DEF LoopInv
    <3>2. loop_streak'[s] \in {loop_streak[s], loop_streak[s] + 1}
      BY <2>1, <2>3
    <3>3. Len(loop_batch') = Len(loop_batch) - 1
      BY <2>1
    <3> HIDE <1>0
    <3> QED  BY <3>1, <3>2, <3>3
  <2>7. Len(loop_batch') <= MaxLoopBatch
    BY <2>1 DEF LoopInv
  <2>8. loop_repeatDetected' \in BOOLEAN
    BY <2>2
  <2> QED  BY <2>1, <2>3, <2>4, <2>5, <2>6, <2>7, <2>8 DEF LoopInv
<1>8. CASE Loop!CallSucceeds
  <2>1. /\ loop_at = "batch"
        /\ loop_batch' \in Seq(Signatures) /\ Len(loop_batch') = Len(loop_batch) - 1
        /\ loop_at' \in {"ask", "batch"} /\ (loop_at' = "batch" <=> loop_batch' # <<>>)
        /\ loop_failures' = Loop!Zero /\ loop_streak' = Loop!Zero /\ loop_repeatDetected' = FALSE
    BY <1>6, <1>8 DEF Loop!CallSucceeds
  <2>2. /\ loop_failures' \in [Signatures -> 0..MaxFailures] /\ loop_streak' \in [Signatures -> Nat]
        /\ \A s \in Signatures : loop_streak'[s] = 0 /\ loop_failures'[s] = 0
    BY <2>1 DEF Loop!Zero
  <2>3. Len(loop_batch') <= MaxLoopBatch /\ Len(loop_batch') \in Nat
    BY <1>0, <2>1
  <2>4. \A s \in Signatures : loop_streak'[s] + Len(loop_batch') <= MaxFailures - 1 + MaxLoopBatch
    BY <2>2, <2>3
  <2>5. \A s \in Signatures : loop_streak'[s] <= loop_failures'[s] /\ loop_streak'[s] < MaxFailures
    BY <2>2
  <2>6. loop_repeatDetected' \in BOOLEAN /\ ~loop_repeatDetected' /\ loop_at' \in {"idle", "ask", "batch"}
    BY <2>1
  <2> QED  BY <2>1, <2>2, <2>3, <2>4, <2>5, <2>6 DEF LoopInv
<1>9. CASE Loop!OverAllowance
  BY <1>9 DEF Loop!OverAllowance, Loop!counters, Loop!flags, LoopInv
<1>10. CASE UNCHANGED Loop!loopVars
  BY <1>10 DEF Loop!loopVars, LoopInv
<1> QED  BY <1>1, <1>2, <1>3, <1>4, <1>5, <1>7, <1>8, <1>9, <1>10 DEF Loop!Next

(* A call that keeps failing is made at most MaxFailures - 1 + MaxBatch    *)
(* times in a run, and the agent refuses calls only while one of them is   *)
(* at its limit (Agent._note_failed_call).                                 *)
THEOREM HopelessCallsStop == ServicesSpec => []HopelessCallStops
<1>1. ServicesInit => LoopInv
  <2> SUFFICES ASSUME ServicesInit PROVE LoopInv
    OBVIOUS
  <2>1. /\ loop_at = "idle" /\ loop_batch = <<>> /\ loop_repeatDetected = FALSE
        /\ loop_failures = [s \in Signatures |-> 0] /\ loop_streak = [s \in Signatures |-> 0]
    BY DEF ServicesInit, Loop!Init, Loop!Zero
  <2>2. /\ loop_batch \in Seq(Signatures) /\ Len(loop_batch) = 0 /\ 0 <= MaxLoopBatch
        /\ loop_failures \in [Signatures -> 0..MaxFailures] /\ loop_streak \in [Signatures -> Nat]
        /\ \A s \in Signatures : loop_streak[s] + 0 <= MaxFailures - 1 + MaxLoopBatch
    BY <2>1, LoopAssumption
  <2> QED  BY <2>1, <2>2 DEF LoopInv
<1>2. LoopInv => HopelessCallStops
  <2>1. LoopInv => \A s \in Signatures : loop_streak[s] <= MaxFailures - 1 + MaxLoopBatch
    BY LoopAssumption DEF LoopInv
  <2> QED  BY <2>1 DEF LoopInv, HopelessCallStops, Loop!HopelessCallStops
<1>3. LoopInv /\ [ServicesNext]_servicesVars => LoopInv'
  BY LoopSteps, LoopStep
<1> QED  BY <1>1, <1>2, <1>3, PTL DEF ServicesSpec

---------------------------------------------------------------------------
(* Subagents.                                                              *)

Delegation(c) == c = [at |-> c.at, task |-> c.task, model |-> c.model, first |-> c.first,
                      previous |-> c.previous, status |-> c.status]
Given(c) == /\ DOMAIN c.task = TaskFields /\ c.task.model # "none" /\ c.model # "none"
            /\ c.first = "none" =>
                  /\ c.task.model # "auto" => c.model = c.task.model
                  /\ c.task.model = "auto" /\ SingleModel # "none" => c.model = SingleModel
Upward(c) == c.first # "none" =>
                /\ c.model # c.first
                /\ \A m, n \in Catalog : m.name = c.first /\ n.name = c.model => n.usage >= m.usage

(* Whoever is not at rest holds the lock; what the runtime has loaded is   *)
(* what the server keeps, and before a call there was nothing.             *)
SubInv ==
    /\ Sub!ValidCatalog
    /\ Delegation(sub_call) /\ Upward(sub_call)
    /\ sub_call.at \in {"idle", "queued", "unloading", "loading", "running", "restoring", "reloading"}
    /\ sub_locked \in BOOLEAN /\ sub_disturbed \in BOOLEAN
    /\ sub_call.at \in {"idle", "queued"} <=> ~sub_locked
    /\ sub_call.at # "idle" => Given(sub_call)
    /\ sub_call.at = "running" => sub_loaded = sub_call.model
    /\ ~sub_disturbed =>
          /\ sub_call.at \notin {"unloading", "reloading"}
          /\ sub_call.at \in {"idle", "queued", "loading"} => sub_loaded = "none" /\ sub_resident = {}
          /\ sub_call.at \in {"running", "restoring"} => sub_resident \subseteq {sub_loaded}
          /\ sub_locked => sub_call.previous = "none"

(* See PluginsSteps.                                                       *)
LEMMA SubSteps == [ServicesNext]_servicesVars => [Sub!Next]_(Sub!subagentVars)
BY DEF ServicesNext, Only, servicesVars, subVars, Sub!subagentVars

(* At rest there is no call.                                               *)
LEMMA NoCallIsIdle ==
    /\ Delegation(Sub!NoCall) /\ Upward(Sub!NoCall) /\ Sub!NoCall.at = "idle"
BY DEF Delegation, Upward, Sub!NoCall

(* A request that has a model names it, and a catalog names its models.    *)
LEMMA Named ==
    ASSUME NEW t, t.model # "none", NEW here, NEW b \in Sub!Select(t, here)
    PROVE  b # "none"
<1>1. CASE t.model # "auto"
  BY <1>1 DEF Sub!Select
<1>2. CASE t.model = "auto" /\ SingleModel # "none"
  BY <1>2 DEF Sub!Select
<1>3. CASE t.model = "auto" /\ SingleModel = "none"
  <2>1. b \in {m.name : m \in Sub!Best(t, here)}
    BY <1>3 DEF Sub!Select
  <2>2. \A m \in Sub!Best(t, here) : m \in Catalog
    BY DEF Sub!Best, Sub!EligibleModels
  <2> QED  BY <2>1, <2>2, SubAssumption
<1> QED  BY <1>1, <1>2, <1>3

(* The classes of models, by their members.                                *)
LEMMA Bands == 1..2 = {1, 2} /\ 3..5 = {3, 4, 5} /\ 4..5 = {4, 5} /\ 1..5 = {1, 2, 3, 4, 5}
OBVIOUS

(* A second attempt goes up by a class, onto another model.                *)
LEMMA Stepped ==
    ASSUME Sub!ValidCatalog, NEW task, DOMAIN task = TaskFields, NEW name, NEW here,
           task.model # "auto" => name = task.model,
           task.model = "auto" /\ SingleModel # "none" => name = SingleModel,
           NEW t \in Sub!Stronger(task, name), NEW b \in Sub!Select(t, here) \ {name}
    PROVE  /\ b # name
           /\ \A m, n \in Catalog : m.name = name /\ n.name = b => n.usage >= m.usage
<1>1. b # name
  OBVIOUS
<1>2. t = [task EXCEPT !.power = "medium"] \/ t = [task EXCEPT !.power = "high"]
  BY DEF Sub!Stronger
<1>3. t.model = task.model /\ t.power \in {"medium", "high"}
  BY <1>2 DEF TaskFields
<1>4. b \in {m.name : m \in Sub!Best(t, here)}
  BY <1>3 DEF Sub!Select
<1>5. PICK best \in Catalog : best.name = b /\ best.usage \in Sub!Band(t.power)
  BY <1>4 DEF Sub!Best, Sub!EligibleModels
<1>6. ASSUME NEW m \in Catalog, NEW n \in Catalog, m.name = name, n.name = b
      PROVE  n.usage >= m.usage
  <2>1. n = best
    BY <1>5, <1>6 DEF Sub!ValidCatalog
  <2>2. \A k \in Catalog : k.name = name => k = m
    BY <1>6 DEF Sub!ValidCatalog
  <2>3. {k.usage : k \in {l \in Catalog : l.name = name}} = {m.usage}
    BY <1>6, <2>2
  <2>4. m.usage \in {1, 2, 3, 4, 5}
    BY Bands DEF Sub!ValidCatalog
  <2>5. Sub!PowerFor(name) = IF m.usage \in {1, 2} THEN "low" ELSE IF m.usage = 3 THEN "medium"
                              ELSE IF m.usage \in {4, 5} THEN "high" ELSE "unknown"
    <3>1. Sub!PowerFor(name) = CASE {m.usage} \cap {1, 2} # {} -> "low" [] 3 \in {m.usage} -> "medium"
                                [] {m.usage} \cap {4, 5} # {} -> "high" [] OTHER -> "unknown"
      BY <2>3, Bands DEF Sub!PowerFor
    <3>2. CASE m.usage \in {1, 2}
      <4>1. {m.usage} \cap {1, 2} # {}
        BY <3>2, Zenon
      <4> QED  BY <3>1, <3>2, <4>1
    <3>3. CASE m.usage = 3
      <4>1. {m.usage} \cap {1, 2} = {} /\ 3 \in {m.usage} /\ {m.usage} \cap {4, 5} = {}
        BY <3>3
      <4> QED  BY <3>1, <3>3, <4>1
    <3>4. CASE m.usage \in {4, 5}
      <4>1. {m.usage} \cap {1, 2} = {} /\ ~(3 \in {m.usage})
        BY <3>4
      <4>2. {m.usage} \cap {4, 5} # {}
        BY <3>4, Zenon
      <4> QED  BY <3>1, <3>4, <4>1, <4>2
    <3> QED  BY <2>4, <3>2, <3>3, <3>4
  <2>6. CASE m.usage \in {1, 2}
    <3>1. Sub!PowerFor(name) = "low"
      BY <2>5, <2>6
    <3>2. t.power = "medium"
      BY <3>1 DEF Sub!Stronger, TaskFields
    <3>3. n.usage = 3
      BY <1>5, <2>1, <3>2 DEF Sub!Band
    <3> QED  BY <2>6, <3>3
  <2>7. CASE m.usage = 3
    <3>1. Sub!PowerFor(name) = "medium"
      BY <2>5, <2>7
    <3>2. t.power = "high"
      BY <3>1 DEF Sub!Stronger, TaskFields
    <3>3. n.usage \in 3..5
      BY <1>5, <2>1, <3>2 DEF Sub!Band
    <3> QED  BY <2>7, <3>3
  <2>8. CASE m.usage \in {4, 5}
    <3>1. Sub!PowerFor(name) = "high"
      BY <2>5, <2>8
    <3>2. Sub!Stronger(task, name) = {}
      BY <3>1 DEF Sub!Stronger
    <3> QED  BY <3>2
  <2> QED  BY <2>4, <2>6, <2>7, <2>8
<1> QED  BY <1>1, <1>6

(* The end of an attempt leaves the runtime at rest, or queued once more.  *)
LEMMA Finishes ==
    ASSUME SubInv, sub_call.at # "idle", NEW status, Sub!Finish(status),
           sub_disturbed' \in BOOLEAN,
           ~sub_disturbed' => sub_loaded' = "none" /\ sub_resident' = {}
    PROVE  SubInv'
<1>1. sub_locked' = FALSE
  BY DEF Sub!Finish
<1>2. CASE sub_call' = Sub!NoCall
  BY <1>1, <1>2, NoCallIsIdle DEF SubInv, Sub!ValidCatalog
<1>3. CASE sub_call' \in Sub!Escalate(status)
  <2>1. PICK t \in Sub!Stronger(sub_call.task, sub_call.model) :
             \E m \in Sub!Select(t, sub_loaded') \ {sub_call.model} :
                sub_call' = [sub_call EXCEPT !.at = "queued", !.model = m, !.first = sub_call.model]
    <3>1. /\ Escalation /\ status \in {"failed", "timeout"} /\ sub_call.first = "none"
          /\ sub_call' \in {[sub_call EXCEPT !.at = "queued", !.model = m, !.first = sub_call.model] :
                               m \in (UNION {Sub!Select(t, sub_loaded') :
                                                t \in Sub!Stronger(sub_call.task, sub_call.model)})
                                      \ {sub_call.model}}
      BY <1>3 DEF Sub!Escalate
    <3>2. PICK m \in (UNION {Sub!Select(t, sub_loaded') : t \in Sub!Stronger(sub_call.task, sub_call.model)})
                      \ {sub_call.model} :
              sub_call' = [sub_call EXCEPT !.at = "queued", !.model = m, !.first = sub_call.model]
      BY <3>1
    <3>3. PICK t \in Sub!Stronger(sub_call.task, sub_call.model) : m \in Sub!Select(t, sub_loaded')
      BY <3>2
    <3>4. m \in Sub!Select(t, sub_loaded') \ {sub_call.model}
      <4>1. m # sub_call.model
        OBVIOUS
      <4> QED  BY <3>3, <4>1
    <3> WITNESS t \in Sub!Stronger(sub_call.task, sub_call.model)
    <3> WITNESS m \in Sub!Select(t, sub_loaded') \ {sub_call.model}
    <3> QED  BY <3>2
  <2>2. PICK m \in Sub!Select(t, sub_loaded') \ {sub_call.model} :
             sub_call' = [sub_call EXCEPT !.at = "queued", !.model = m, !.first = sub_call.model]
    BY <2>1
  <2>3. sub_call.first = "none" /\ Delegation(sub_call) /\ Given(sub_call)
    BY <1>3 DEF Sub!Escalate, SubInv
  <2>4. /\ m # sub_call.model
        /\ \A k, n \in Catalog : k.name = sub_call.model /\ n.name = m => n.usage >= k.usage
    <3>1. Sub!ValidCatalog
      BY DEF SubInv
    <3> QED  BY <2>3, <3>1, Stepped DEF Given
  <2>5. /\ sub_call'.at = "queued" /\ sub_call'.model = m /\ sub_call'.first = sub_call.model
        /\ sub_call'.task = sub_call.task /\ Delegation(sub_call')
    BY <2>2, <2>3 DEF Delegation
  <2>6. Upward(sub_call')
    BY <2>4, <2>5 DEF Upward
  <2>7. Given(sub_call')
    <3>1. t.model = sub_call.task.model /\ t.model # "none"
      <4>1. t = [sub_call.task EXCEPT !.power = "medium"] \/ t = [sub_call.task EXCEPT !.power = "high"]
        BY DEF Sub!Stronger
      <4> QED  BY <2>3, <4>1 DEF Given, TaskFields
    <3>2. m \in Sub!Select(t, sub_loaded')
      OBVIOUS
    <3>3. m # "none"
      BY <3>1, <3>2, Named
    <3> QED  BY <2>3, <2>5, <3>3 DEF Given
  <2> QED  BY <1>1, <2>5, <2>6, <2>7 DEF SubInv, Sub!ValidCatalog
<1> QED  BY <1>2, <1>3 DEF Sub!Finish

(* A step that only moves the call along keeps what was chosen for it.     *)
Moves(c) == /\ Delegation(c) /\ c.task = sub_call.task /\ c.model = sub_call.model
            /\ c.first = sub_call.first

(* So what is said of the choice still holds.                              *)
LEMMA MovesKeeps ==
    ASSUME SubInv, sub_call.at # "idle", Moves(sub_call')
    PROVE  /\ Delegation(sub_call') /\ Upward(sub_call') /\ Given(sub_call')
           /\ sub_call'.model = sub_call.model
BY DEF SubInv, Moves, Upward, Given

(* Every action of a delegation keeps the invariant.                       *)
LEMMA SubStep == SubInv /\ [Sub!Next]_(Sub!subagentVars) => SubInv'
<1> SUFFICES ASSUME SubInv, [Sub!Next]_(Sub!subagentVars) PROVE SubInv'
  OBVIOUS
<1> USE DEF Sub!ValidCatalog, Sub!Calm, Sub!Disturbs
<1>0. Sub!ValidCatalog /\ Sub!ValidCatalog' /\ Delegation(sub_call)
  BY DEF SubInv
<1>1. CASE Sub!Delegate
  <2>1. PICK request \in SubRequests :
           LET task == Sub!WithPreset(request) IN
           \/ sub_call' = sub_call
           \/ \E m \in Sub!Select(task, sub_loaded) :
                sub_call' = [Sub!NoCall EXCEPT !.at = "queued", !.task = task, !.model = m]
    BY <1>1 DEF Sub!Delegate
  <2>2. sub_call.at = "idle" /\ UNCHANGED <<sub_loaded, sub_resident, sub_locked, sub_disturbed>>
    BY <1>1 DEF Sub!Delegate
  <2>3. CASE sub_call' = sub_call
    BY <2>2, <2>3 DEF SubInv, Upward, Delegation
  <2> DEFINE task == Sub!WithPreset(request)
  <2>4. ASSUME NEW m \in Sub!Select(task, sub_loaded),
               sub_call' = [Sub!NoCall EXCEPT !.at = "queued", !.task = task, !.model = m]
        PROVE  SubInv'
    <3>1. DOMAIN task = TaskFields /\ task.model = request.model /\ task.model # "none"
      BY SubAssumption DEF Sub!WithPreset, TaskFields
    <3> HIDE DEF task
    <3>2. /\ sub_call'.at = "queued" /\ sub_call'.task = task /\ sub_call'.model = m
          /\ sub_call'.first = "none" /\ Delegation(sub_call')
      BY <2>4 DEF Sub!NoCall, Delegation
    <3>3. m # "none"
      BY <3>1, Named
    <3>4. /\ task.model # "auto" => m = task.model
          /\ task.model = "auto" /\ SingleModel # "none" => m = SingleModel
      BY DEF Sub!Select
    <3>5. Given(sub_call') /\ Upward(sub_call')
      BY <3>1, <3>2, <3>3, <3>4 DEF Given, Upward
    <3> QED  BY <1>0, <2>2, <3>2, <3>5 DEF SubInv
  <2> QED  BY <2>1, <2>3, <2>4
<1>2. CASE Sub!Enter
  <2>1. /\ sub_call.at = "queued" /\ sub_locked' = TRUE
        /\ sub_call' = [sub_call EXCEPT !.previous = sub_loaded,
                            !.at = IF sub_loaded = sub_call.model THEN "running"
                                   ELSE IF sub_loaded # "none" THEN "unloading" ELSE "loading"]
        /\ UNCHANGED <<sub_loaded, sub_resident, sub_disturbed>>
    BY <1>2 DEF Sub!Enter
  <2>2. Moves(sub_call')
    BY <1>0, <2>1 DEF Delegation, Moves
  <2>3. /\ sub_call'.previous = sub_loaded
        /\ sub_call'.at = IF sub_loaded = sub_call.model THEN "running"
                          ELSE IF sub_loaded # "none" THEN "unloading" ELSE "loading"
    BY <1>0, <2>1 DEF Delegation
  <2> QED  BY <1>0, <2>1, <2>2, <2>3, MovesKeeps DEF SubInv
<1>3. CASE Sub!SwitchUnload
  <2>1. sub_call.at = "unloading"
    BY <1>3 DEF Sub!SwitchUnload
  <2>2. CASE Sub!Finish("failed") /\ sub_disturbed' = TRUE
    BY <2>1, <2>2, Finishes
  <2>3. CASE /\ sub_loaded' = "none" /\ sub_disturbed' = sub_disturbed
             /\ sub_call' = [sub_call EXCEPT !.at = "loading"]
             /\ UNCHANGED <<sub_locked, sub_nested>>
    <3>1. Moves(sub_call') /\ sub_call'.at = "loading"
      BY <1>0, <2>3 DEF Delegation, Moves
    <3> QED  BY <1>0, <2>1, <2>3, <3>1, MovesKeeps DEF SubInv
  <2> QED  BY <1>3, <2>2, <2>3 DEF Sub!SwitchUnload, Sub!Unload, Sub!Goto
<1>4. CASE Sub!SwitchLoad
  <2>1. sub_call.at = "loading"
    BY <1>4 DEF Sub!SwitchLoad
  <2>2. CASE Sub!Finish("failed") /\ sub_disturbed' = TRUE
    BY <2>1, <2>2, Finishes
  <2>3. CASE /\ sub_loaded' = sub_call.model /\ sub_resident' = sub_resident \cup {sub_call.model}
             /\ sub_disturbed' = sub_disturbed
             /\ sub_call' = [sub_call EXCEPT !.at = "running"]
             /\ UNCHANGED <<sub_locked, sub_nested>>
    <3>1. Moves(sub_call') /\ sub_call'.at = "running" /\ sub_call'.previous = sub_call.previous
      BY <1>0, <2>3 DEF Delegation, Moves
    <3> QED  BY <1>0, <2>1, <2>3, <3>1, MovesKeeps DEF SubInv, Moves
  <2> QED  BY <1>4, <2>2, <2>3 DEF Sub!SwitchLoad, Sub!Goto, Sub!Keeps
<1>5. CASE Sub!NestedCall \/ Sub!NestedTimeout
  BY <1>5 DEF Sub!NestedCall, Sub!NestedTimeout, SubInv, Upward, Given, Delegation
<1>6. ASSUME NEW status, Sub!Ended(status) PROVE SubInv'
  <2>1. /\ sub_call.at = "running"
        /\ sub_call' = [sub_call EXCEPT !.at = "restoring", !.status = status]
        /\ UNCHANGED <<sub_loaded, sub_resident, sub_locked, sub_disturbed>>
    BY <1>6 DEF Sub!Ended
  <2>2. Moves(sub_call') /\ sub_call'.at = "restoring" /\ sub_call'.previous = sub_call.previous
    BY <1>0, <2>1 DEF Delegation, Moves
  <2> QED  BY <1>0, <2>1, <2>2, MovesKeeps DEF SubInv
<1>7. CASE Sub!Restore
  <2>1. sub_call.at = "restoring"
    BY <1>7 DEF Sub!Restore
  <2>2. CASE Sub!Finish("failed") /\ sub_disturbed' = TRUE
    BY <2>1, <2>2, Finishes
  <2>3. CASE /\ sub_loaded' = "none" /\ sub_resident' = sub_resident \ {sub_loaded}
             /\ sub_disturbed' = sub_disturbed
             /\ IF sub_call.previous = "none" THEN Sub!Finish(sub_call.status)
                ELSE Sub!Goto("reloading") /\ UNCHANGED <<sub_locked, sub_nested>>
    <3>1. ~sub_disturbed => sub_resident' = {} /\ sub_call.previous = "none"
      BY <2>1, <2>3 DEF SubInv
    <3>2. CASE Sub!Finish(sub_call.status)
      <4>1. sub_disturbed' \in BOOLEAN
        BY <2>3 DEF SubInv
      <4> QED  BY <2>1, <2>3, <3>1, <3>2, <4>1, Finishes
    <3>3. CASE sub_call.previous # "none" /\ Sub!Goto("reloading") /\ UNCHANGED <<sub_locked, sub_nested>>
      <4>1. Moves(sub_call') /\ sub_call'.at = "reloading"
        BY <1>0, <3>3 DEF Delegation, Moves, Sub!Goto
      <4> QED  BY <1>0, <2>1, <2>3, <3>1, <3>3, <4>1, MovesKeeps DEF SubInv
    <3> QED  BY <2>3, <3>2, <3>3
  <2> QED  BY <1>7, <2>2, <2>3 DEF Sub!Restore, Sub!Unload, Sub!Releases
<1>8. CASE Sub!Reload
  <2>1. sub_call.at = "reloading" /\ sub_disturbed = TRUE
    BY <1>8 DEF Sub!Reload, SubInv
  <2>2. sub_disturbed' = TRUE
    BY <1>8, <2>1 DEF Sub!Reload
  <2>3. \E status : Sub!Finish(status)
    BY <1>8 DEF Sub!Reload
  <2> QED  BY <2>1, <2>2, <2>3, Finishes
<1>9. CASE Sub!Interrupt
  <2>1. /\ sub_call' = Sub!NoCall /\ sub_locked' = FALSE /\ UNCHANGED sub_loaded
        /\ sub_call.at = "queued" => sub_resident' = sub_resident /\ sub_disturbed' = sub_disturbed
        /\ sub_call.at # "queued" => sub_disturbed' = TRUE
    BY <1>9 DEF Sub!Interrupt
  <2>2. sub_disturbed' \in BOOLEAN /\ (~sub_disturbed' => sub_loaded' = "none" /\ sub_resident' = {})
    <3>1. CASE sub_call.at = "queued"
      BY <2>1, <3>1 DEF SubInv
    <3>2. CASE sub_call.at # "queued"
      BY <2>1, <3>2
    <3> QED  BY <3>1, <3>2
  <2>3. Delegation(sub_call') /\ Upward(sub_call') /\ sub_call'.at = "idle"
    BY <2>1, NoCallIsIdle
  <2>4. sub_locked' \in BOOLEAN /\ ~sub_locked'
    BY <2>1
  <2> QED  BY <1>0, <2>2, <2>3, <2>4 DEF SubInv
<1>10. CASE UNCHANGED Sub!subagentVars
  BY <1>10 DEF Sub!subagentVars, SubInv, Upward, Given, Delegation
<1> QED  BY <1>1, <1>2, <1>3, <1>4, <1>5, <1>6, <1>7, <1>8, <1>9, <1>10 DEF Sub!Next

(* A subagent gives back the model it took unless a request to the server  *)
(* failed, runs on the model chosen for it, and a second attempt is on     *)
(* another one, no weaker (ModelRuntimeManager.use, _escalated_task).      *)
THEOREM DelegationIsSound == ServicesSpec => []SubagentsAreSound
<1>1. ServicesInit => SubInv
  BY NoCallIsIdle DEF ServicesInit, Sub!Init, SubInv
<1>2. SubInv => SubagentsAreSound
  BY DEF SubInv, Upward, SubagentsAreSound, Sub!SubagentsAreSound, Sub!RestoredAtRest,
         Sub!EscalatesUpward
<1>3. SubInv /\ [ServicesNext]_servicesVars => SubInv'
  BY SubSteps, SubStep
<1> QED  BY <1>1, <1>2, <1>3, PTL DEF ServicesSpec

---------------------------------------------------------------------------
(* The first of a ranking.                                                 *)

(* A strict total order of S, as the pairs of it, and what comes before y. *)
Ranks(R, S) ==
    /\ \A x, y, z \in S : <<x, y>> \in R /\ <<y, z>> \in R => <<x, z>> \in R
    /\ \A x \in S : <<x, x>> \notin R
    /\ \A x, y \in S : x = y \/ <<x, y>> \in R \/ <<y, x>> \in R
Before(R, S, y) == {z \in S : <<z, y>> \in R}

(* Of a finite set with a strict total order the first n are n, if there   *)
(* is one that is not among them, and it comes after each of them.         *)
LEMMA TopOfRanking ==
    ASSUME NEW S, IsFiniteSet(S), NEW R, Ranks(R, S), NEW n \in Nat, NEW last \in S,
           NEW T, T = {y \in S : Cardinality(Before(R, S, y)) < n}, last \notin T
    PROVE  Cardinality(T) = n /\ \A y \in T : <<y, last>> \in R
<1> DEFINE k == Cardinality(S)
           rank == [y \in S |-> Cardinality(Before(R, S, y))]
<1>1. k \in Nat /\ k # 0
  BY FS_CardinalityType, FS_EmptySet
<1>2. \A y \in S : Before(R, S, y) \subseteq S \ {y}
  BY DEF Ranks, Before
<1>3. \A y \in S : IsFiniteSet(Before(R, S, y)) /\ Cardinality(Before(R, S, y)) \in 0..(k - 1)
  <2> TAKE y \in S
  <2>1. IsFiniteSet(S \ {y}) /\ Cardinality(S \ {y}) = k - 1
    BY FS_RemoveElement
  <2>2. IsFiniteSet(Before(R, S, y)) /\ Cardinality(Before(R, S, y)) <= k - 1
    BY <1>2, <2>1, FS_Subset
  <2>3. Cardinality(Before(R, S, y)) \in Nat
    BY <2>2, FS_CardinalityType
  <2> HIDE DEF k
  <2> QED  BY <1>1, <2>2, <2>3
<1>4. \A y, z \in S : <<y, z>> \in R => rank[y] < rank[z]
  <2> SUFFICES ASSUME NEW y \in S, NEW z \in S, <<y, z>> \in R
               PROVE  Cardinality(Before(R, S, y)) < Cardinality(Before(R, S, z))
    OBVIOUS
  <2>1. /\ Before(R, S, y) \subseteq Before(R, S, z)
        /\ y \in Before(R, S, z) /\ y \notin Before(R, S, y)
    BY DEF Ranks, Before
  <2>2. Cardinality(Before(R, S, y)) \in Nat /\ Cardinality(Before(R, S, z)) \in Nat
    BY <1>3, FS_CardinalityType
  <2>3. Before(R, S, y) # Before(R, S, z) /\ IsFiniteSet(Before(R, S, z))
    BY <1>3, <2>1
  <2>4. /\ Cardinality(Before(R, S, y)) <= Cardinality(Before(R, S, z))
        /\ Cardinality(Before(R, S, z)) = Cardinality(Before(R, S, y)) =>
              Before(R, S, z) = Before(R, S, y)
    BY <2>1, <2>3, FS_Subset
  <2> QED  BY <2>2, <2>3, <2>4
<1>5. rank \in [S -> 0..(k - 1)] /\ \A y \in S : rank[y] = Cardinality(Before(R, S, y))
  BY <1>3
<1> HIDE DEF rank, k
<1>6. \A y, z \in S : rank[y] = rank[z] => y = z
  <2> SUFFICES ASSUME NEW y \in S, NEW z \in S, rank[y] = rank[z], y # z PROVE FALSE
    OBVIOUS
  <2>1. rank[y] < rank[z] \/ rank[z] < rank[y]
    BY <1>4 DEF Ranks
  <2>2. rank[y] \in 0..(k - 1) /\ rank[z] \in 0..(k - 1)
    BY <1>5
  <2> QED  BY <1>1, <2>1, <2>2
<1>7. rank \in Surjection(S, 0..(k - 1))
  <2>1. rank \in Injection(S, 0..(k - 1))
    BY <1>5, <1>6 DEF Injection, IsInjective
  <2>2. IsFiniteSet(0..(k - 1)) /\ Cardinality(0..(k - 1)) = k
    BY <1>1, FS_Interval, 0 \in Int, k - 1 \in Int
  <2> QED  BY <2>1, <2>2, FS_Injection, Zenon DEF k
<1>8. \A i \in 0..(k - 1) : \E y \in S : rank[y] = i
  BY <1>7 DEF Surjection
<1>9. n <= rank[last] /\ rank[last] <= k - 1
  BY <1>1, <1>5
<1>10. T = {y \in S : rank[y] < n}
  BY <1>5
<1>11. \A y \in T : <<y, last>> \in R
  <2> TAKE y \in T
  <2>1. y # last /\ ~(rank[last] < rank[y])
    BY <1>5, <1>9, <1>10
  <2> QED  BY <1>4, <1>10, <2>1 DEF Ranks
<1> DEFINE first == [y \in T |-> rank[y]]
<1>12. first \in [T -> 0..(n - 1)]
  BY <1>5, <1>10
<1>13. \A y, z \in T : first[y] = first[z] => y = z
  BY <1>6, <1>10
<1>14. \A i \in 0..(n - 1) : \E y \in T : first[y] = i
  <2> TAKE i \in 0..(n - 1)
  <2>1. i \in 0..(k - 1)
    BY <1>1, <1>5, <1>9
  <2>2. PICK y \in S : rank[y] = i
    BY <1>8, <2>1
  <2>3. y \in T
    BY <1>10, <2>2
  <2> QED  BY <2>2, <2>3
<1>15. first \in Bijection(T, 0..(n - 1))
  <2> HIDE DEF first
  <2>1. first \in Injection(T, 0..(n - 1))
    BY <1>12, <1>13 DEF Injection, IsInjective
  <2>2. first \in Surjection(T, 0..(n - 1))
    BY <1>12, <1>14 DEF Surjection
  <2> QED  BY <2>1, <2>2 DEF Bijection
<1>16. IsFiniteSet(T)
  BY <1>10, FS_Subset
<1>17. Cardinality(0..(n - 1)) = Cardinality(T)
  <2>1. ExistsBijection(T, 0..(n - 1))
    BY <1>15 DEF ExistsBijection
  <2> QED  BY <1>16, <2>1, FS_Bijection
<1>18. Cardinality(0..(n - 1)) = n
  <2>1. Cardinality(0..(n - 1)) = IF 0 > n - 1 THEN 0 ELSE n - 1 - 0 + 1
    BY FS_Interval, 0 \in Int, n - 1 \in Int
  <2> QED  BY <2>1
<1> QED  BY <1>11, <1>17, <1>18

---------------------------------------------------------------------------
(* Memory.                                                                 *)

LEMMA MemorySteps == [ServicesNext]_servicesVars => [Memory!Next]_(Memory!memoryVars)
BY DEF ServicesNext, Only, servicesVars, notesVars, Memory!memoryVars

(* Where notes are kept, and what is there when none is.                   *)
Cells == Memory!Cells
NoNote == Memory!NoNote

(* What a process is about to write: the tags given, and those of the note *)
(* it read.                                                                *)
Prepared(w) ==
    /\ w.cell \in Cells /\ w.given \in SUBSET Tags /\ w.note.value \in Values
    /\ w.seen \in Memory!Notes \cup {NoNote}
    /\ w.note = [value |-> w.note.value,
                 tags |-> w.given \cup (IF w.seen = NoNote THEN {} ELSE w.seen.tags)]

MemoryTypes ==
    /\ memory_rows \in [Cells -> Memory!Notes \cup {NoNote}]
    /\ memory_told \in [Cells -> Memory!Notes \cup {NoNote}]
    /\ memory_at \in [Processes -> {"closed", "open", "looked", "created", "failed"}]
    /\ memory_schema \in {"absent", "old", "scoped"}
    /\ DOMAIN memory_writing = Processes
    /\ memory_scratch \in BOOLEAN /\ memory_cut \in BOOLEAN /\ memory_met \in BOOLEAN

(* The table has its scopes before anybody writes to it: until then what   *)
(* it holds is global and bears no tag, so that moving it changes nothing. *)
MemoryInv ==
    /\ MemoryTypes
    /\ Memory!NotesAreKept /\ Memory!StartsCleanly
    /\ memory_schema = "absent" => \A p \in Processes : memory_at[p] = "closed"
    /\ memory_schema = "old" => /\ memory_rows \in Memory!OldRows
                                /\ \A p \in Processes : memory_at[p] # "open"
    /\ \A p \in Processes : memory_writing[p] # Memory!Nothing =>
                               memory_at[p] = "open" /\ Prepared(memory_writing[p])

(* A note that is there is a note, and every note is a value and its tags. *)
LEMMA NotesThere ==
    ASSUME NEW n \in Memory!Notes \cup {NoNote}
    PROVE  /\ n # NoNote => /\ n \in Memory!Notes /\ n.value \in Values /\ n.tags \in SUBSET Tags
           /\ n = [value |-> n.value, tags |-> n.tags]
BY DEF NoNote, Memory!Notes, Memory!NoNote

(* Moving the table of an old release changes nothing.                     *)
LEMMA MoveOld ==
    ASSUME MemoryTypes, memory_rows \in Memory!OldRows, NEW r \in Memory!Moved
    PROVE  r = memory_rows
<1>1. PICK from \in [Keys -> Memory!Scopes] :
        /\ \A k \in Keys : \/ memory_rows[<<from[k], k>>] # NoNote
                           \/ \A s \in Memory!Scopes : memory_rows[<<s, k>>] = NoNote
        /\ r = [c \in Cells |->
                  IF c[1] = Memory!Global /\ memory_rows[<<from[c[2]], c[2]>>] # NoNote
                  THEN [memory_rows[<<from[c[2]], c[2]>>] EXCEPT !.tags = {}] ELSE NoNote]
  BY DEF Memory!Moved, NoNote, Cells
<1>2. \A c \in Cells : memory_rows[c] # NoNote => c[1] = Memory!Global /\ memory_rows[c].tags = {}
  BY DEF Memory!OldRows, NoNote, Cells
<1>3. ASSUME NEW c \in Cells PROVE r[c] = memory_rows[c]
  <2>1. PICK s \in Memory!Scopes, k \in Keys : c = <<s, k>>
    BY DEF Cells, Memory!Cells
  <2>2. c[1] = s /\ c[2] = k /\ from[k] \in Memory!Scopes /\ <<from[k], k>> \in Cells
    BY <2>1 DEF Cells, Memory!Cells
  <2>3. memory_rows[c] \in Memory!Notes \cup {NoNote}
    BY DEF MemoryTypes
  <2>4. CASE memory_rows[c] # NoNote
    <3>1. s = Memory!Global /\ memory_rows[c].tags = {}
      BY <1>2, <2>2, <2>4
    <3>2. memory_rows[<<from[k], k>>] # NoNote
      BY <1>1, <2>1, <2>4
    <3>3. from[k] = Memory!Global
      BY <1>2, <2>2, <3>2
    <3>4. r[c] = [memory_rows[c] EXCEPT !.tags = {}]
      BY <1>1, <2>1, <2>2, <3>1, <3>3, <2>4
    <3> QED  BY <2>3, <3>1, <3>4, NotesThere
  <2>5. CASE memory_rows[c] = NoNote
    <3>1. CASE s = Memory!Global /\ memory_rows[<<from[k], k>>] # NoNote
      <4>1. from[k] = Memory!Global
        BY <1>2, <2>2, <3>1
      <4> QED  BY <2>1, <2>5, <3>1, <4>1
    <3>2. CASE ~(s = Memory!Global /\ memory_rows[<<from[k], k>>] # NoNote)
      BY <1>1, <2>2, <2>5, <3>2
    <3> QED  BY <3>1, <3>2
  <2> QED  BY <2>4, <2>5
<1>4. memory_rows = [c \in Cells |-> memory_rows[c]]
  BY DEF MemoryTypes
<1>5. r = [c \in Cells |-> r[c]]
  BY <1>1
<1> QED  BY <1>3, <1>4, <1>5

(* What a move leaves are notes.                                           *)
LEMMA MovedAreNotes ==
    ASSUME MemoryTypes, NEW r \in Memory!Moved
    PROVE  r \in [Cells -> Memory!Notes \cup {NoNote}]
<1>1. PICK from \in [Keys -> Memory!Scopes] :
        r = [c \in Cells |->
                  IF c[1] = Memory!Global /\ memory_rows[<<from[c[2]], c[2]>>] # NoNote
                  THEN [memory_rows[<<from[c[2]], c[2]>>] EXCEPT !.tags = {}] ELSE NoNote]
  BY DEF Memory!Moved, NoNote, Cells
<1>2. ASSUME NEW n \in Memory!Notes PROVE [n EXCEPT !.tags = {}] \in Memory!Notes
  BY DEF Memory!Notes
<1>3. ASSUME NEW c \in Cells PROVE <<from[c[2]], c[2]>> \in Cells
  BY DEF Cells, Memory!Cells
<1>4. \A c \in Cells : memory_rows[c] # NoNote => memory_rows[c] \in Memory!Notes
  BY DEF MemoryTypes
<1> QED  BY <1>1, <1>2, <1>3, <1>4

LEMMA OldReleaseInv == ASSUME MemoryInv, Memory!OldRelease PROVE MemoryInv'
BY DEF MemoryInv, MemoryTypes, Prepared, Memory!OldRelease, Memory!OldRows, Memory!NotesAreKept,
       Memory!StartsCleanly, Cells, NoNote, Memory!Nothing, Memory!NoNote

LEMMA StartInv ==
    ASSUME MemoryInv, NEW p \in Processes, Memory!Start(p) PROVE MemoryInv'
<1>1. /\ memory_at[p] \in {"closed", "failed"}
      /\ memory_schema' = IF memory_schema = "absent" THEN "scoped" ELSE memory_schema
      /\ memory_at' = [memory_at EXCEPT ![p] = IF memory_schema = "old" THEN "looked" ELSE "open"]
      /\ UNCHANGED <<memory_scratch, memory_rows, memory_writing, memory_told, memory_disturbed,
                     memory_cut, memory_met>>
  BY DEF Memory!Start
<1>2. MemoryTypes'
  BY <1>1 DEF MemoryInv, MemoryTypes
<1>3. Memory!NotesAreKept'
  BY <1>1 DEF MemoryInv, Memory!NotesAreKept
<1>4. \A q \in Processes : /\ memory_at'[q] = "created" <=> memory_at[q] = "created"
                           /\ memory_at'[q] = "failed" => memory_at[q] = "failed"
                           /\ memory_schema = "old" /\ memory_at'[q] = "open" => memory_at[q] = "open"
                           /\ memory_at[q] = "open" => memory_at'[q] = "open"
  BY <1>1 DEF MemoryInv, MemoryTypes
<1>5. Memory!StartsCleanly'
  BY <1>1, <1>4 DEF MemoryInv, Memory!StartsCleanly
<1>6. memory_schema' # "absent" /\ (memory_schema' = "old" => memory_schema = "old")
  BY <1>1
<1>7. \A q \in Processes : Prepared(memory_writing[q])' = Prepared(memory_writing[q])
  BY <1>1 DEF Prepared
<1>8. (memory_rows \in Memory!OldRows)' = (memory_rows \in Memory!OldRows)
  BY <1>1 DEF Memory!OldRows
<1> QED  BY <1>1, <1>2, <1>3, <1>4, <1>5, <1>6, <1>7, <1>8 DEF MemoryInv

LEMMA CreateScratchInv ==
    ASSUME MemoryInv, NEW p \in Processes, Memory!CreateScratch(p) PROVE MemoryInv'
<1>1. /\ memory_at[p] = "looked" /\ memory_scratch' = TRUE
      /\ memory_at' = [memory_at EXCEPT ![p] = IF memory_scratch THEN "failed" ELSE "created"]
      /\ memory_met' = (memory_met \/ \E q \in Processes : memory_at[q] = "created")
      /\ UNCHANGED <<memory_schema, memory_rows, memory_writing, memory_told, memory_disturbed,
                     memory_cut>>
  BY DEF Memory!CreateScratch
<1>2. MemoryTypes'
  BY <1>1 DEF MemoryInv, MemoryTypes
<1>3. Memory!NotesAreKept'
  BY <1>1 DEF MemoryInv, Memory!NotesAreKept
<1>4. /\ \A q \in Processes : memory_at[q] = "created" => memory_at'[q] = "created"
      /\ \A q \in Processes : memory_at'[q] = "failed" => memory_at[q] = "failed" \/ memory_scratch
      /\ ~memory_scratch => memory_at'[p] = "created"
      /\ \A q \in Processes : memory_at'[q] = "open" <=> memory_at[q] = "open"
  BY <1>1 DEF MemoryInv, MemoryTypes
<1>5. Memory!StartsCleanly'
  BY <1>1, <1>4 DEF MemoryInv, Memory!StartsCleanly
<1>7. \A q \in Processes : Prepared(memory_writing[q])' = Prepared(memory_writing[q])
  BY <1>1 DEF Prepared
<1>8. (memory_rows \in Memory!OldRows)' = (memory_rows \in Memory!OldRows)
  BY <1>1 DEF Memory!OldRows
<1> QED  BY <1>1, <1>2, <1>3, <1>4, <1>5, <1>7, <1>8 DEF MemoryInv

(* Only a table that has been moved already can lose what it held.         *)
LEMMA MoveInv ==
    ASSUME MemoryInv, NEW p \in Processes, Memory!Move(p) PROVE MemoryInv'
<1>1. /\ memory_at[p] = "created" /\ memory_rows' \in Memory!Moved
      /\ memory_schema' = "scoped" /\ memory_scratch' = FALSE
      /\ memory_disturbed' = IF memory_schema = "old" THEN memory_disturbed ELSE Cells
      /\ memory_at' = [memory_at EXCEPT ![p] = "open"]
      /\ UNCHANGED <<memory_writing, memory_told, memory_cut, memory_met>>
  BY DEF Memory!Move, Cells
<1>2. memory_rows' \in [Cells -> Memory!Notes \cup {NoNote}]
  BY <1>1, MovedAreNotes DEF MemoryInv
<1>3. MemoryTypes'
  <2>1. Cells' = Cells /\ NoNote' = NoNote /\ (Memory!Notes)' = Memory!Notes
    BY DEF Cells, NoNote, Memory!Cells, Memory!Notes
  <2> QED  BY <1>1, <1>2, <2>1 DEF MemoryInv, MemoryTypes
<1>4. Memory!NotesAreKept'
  <2>1. CASE memory_schema = "old"
    <3>1. memory_rows' = memory_rows
      BY <1>1, <2>1, MoveOld DEF MemoryInv
    <3> QED  BY <1>1, <2>1, <3>1 DEF MemoryInv, Memory!NotesAreKept
  <2>2. CASE memory_schema # "old"
    BY <1>1, <2>2 DEF Memory!NotesAreKept, Cells
  <2> QED  BY <2>1, <2>2
<1>5. /\ \A q \in Processes : memory_at'[q] = "failed" => memory_at[q] = "failed"
      /\ \A q \in Processes : memory_at[q] = "open" => memory_at'[q] = "open"
  BY <1>1 DEF MemoryInv, MemoryTypes
<1>6. Memory!StartsCleanly'
  BY <1>1, <1>5 DEF MemoryInv, Memory!StartsCleanly
<1>7. \A q \in Processes : Prepared(memory_writing[q])' = Prepared(memory_writing[q])
  BY <1>1 DEF Prepared
<1> QED  BY <1>1, <1>3, <1>4, <1>5, <1>6, <1>7 DEF MemoryInv

LEMMA KillInv ==
    ASSUME MemoryInv, NEW p \in Processes, Memory!Kill(p) PROVE MemoryInv'
<1>1. /\ memory_at[p] # "closed"
      /\ memory_at' = [memory_at EXCEPT ![p] = "closed"]
      /\ memory_writing' = [memory_writing EXCEPT ![p] = Memory!Nothing]
      /\ memory_cut' = (memory_cut \/ memory_at[p] = "created")
      /\ UNCHANGED <<memory_schema, memory_scratch, memory_rows, memory_told, memory_disturbed,
                     memory_met>>
  BY DEF Memory!Kill
<1>2. MemoryTypes'
  BY <1>1 DEF MemoryInv, MemoryTypes
<1>3. Memory!NotesAreKept'
  BY <1>1 DEF MemoryInv, Memory!NotesAreKept
<1>4. \A q \in Processes : /\ memory_at[q] = "created" => memory_at'[q] = "created" \/ memory_cut'
                           /\ memory_at'[q] = "failed" => memory_at[q] = "failed"
                           /\ memory_at'[q] = "open" => memory_at[q] = "open"
                           /\ memory_at[q] = "closed" => memory_at'[q] = "closed"
                           /\ q # p => memory_at'[q] = memory_at[q]
  BY <1>1 DEF MemoryInv, MemoryTypes
<1>5. Memory!StartsCleanly'
  BY <1>1, <1>4 DEF MemoryInv, Memory!StartsCleanly
<1>6. \A q \in Processes : memory_writing'[q] = IF q = p THEN Memory!Nothing ELSE memory_writing[q]
  BY <1>1 DEF MemoryInv, MemoryTypes
<1>7. ASSUME NEW w PROVE Prepared(w)' = Prepared(w)
  BY DEF Prepared
<1>8. ASSUME NEW q \in Processes, memory_writing'[q] # Memory!Nothing
      PROVE  memory_at'[q] = "open" /\ Prepared(memory_writing'[q])
  <2>1. q # p /\ memory_writing'[q] = memory_writing[q]
    BY <1>6, <1>8
  <2> QED  BY <1>4, <1>8, <2>1 DEF MemoryInv
<1>9. (memory_rows \in Memory!OldRows)' = (memory_rows \in Memory!OldRows)
  BY <1>1 DEF Memory!OldRows
<1>10. \A q \in Processes : Prepared(memory_writing'[q]) => Prepared(memory_writing[q])'
  BY DEF Prepared
<1> QED  BY <1>1, <1>2, <1>3, <1>4, <1>5, <1>8, <1>9, <1>10 DEF MemoryInv

LEMMA PrepareInv ==
    ASSUME MemoryInv, NEW p \in Processes, NEW cell \in Cells, NEW value \in Values,
           NEW given \in SUBSET Tags, Memory!Prepare(p, cell, value, given)
    PROVE  MemoryInv'
<1> DEFINE w == [cell |-> cell, given |-> given, seen |-> memory_rows[cell],
                 note |-> [value |-> value,
                           tags |-> given \cup (IF memory_rows[cell] = NoNote THEN {}
                                                ELSE memory_rows[cell].tags)]]
<1>1. /\ memory_at[p] = "open"
      /\ memory_writing' = [memory_writing EXCEPT ![p] = w]
      /\ UNCHANGED <<memory_at, memory_schema, memory_scratch, memory_rows, memory_told,
                     memory_disturbed, memory_cut, memory_met>>
  BY DEF Memory!Prepare, NoNote
<1>2. MemoryTypes'
  BY <1>1 DEF MemoryInv, MemoryTypes
<1>3. Memory!NotesAreKept' /\ Memory!StartsCleanly'
  BY <1>1 DEF MemoryInv, Memory!NotesAreKept, Memory!StartsCleanly
<1>4. memory_rows[cell] \in Memory!Notes \cup {NoNote}
  BY DEF MemoryInv, MemoryTypes
<1>5. Prepared(w)
  BY <1>4 DEF Prepared
<1>6. \A q \in Processes : memory_writing'[q] = IF q = p THEN w ELSE memory_writing[q]
  BY <1>1 DEF MemoryInv, MemoryTypes
<1> HIDE DEF w
<1>7. ASSUME NEW x PROVE Prepared(x)' = Prepared(x)
  BY DEF Prepared
<1>8. ASSUME NEW q \in Processes, memory_writing'[q] # Memory!Nothing
      PROVE  memory_at'[q] = "open" /\ Prepared(memory_writing'[q])
  BY <1>1, <1>5, <1>6, <1>8 DEF MemoryInv
<1>9. \A q \in Processes : Prepared(memory_writing'[q]) => Prepared(memory_writing[q])'
  BY DEF Prepared
<1>10. (memory_rows \in Memory!OldRows)' = (memory_rows \in Memory!OldRows)
  BY <1>1 DEF Memory!OldRows
<1> QED  BY <1>1, <1>2, <1>3, <1>8, <1>9, <1>10 DEF MemoryInv

LEMMA RememberInv ==
    ASSUME MemoryInv, NEW p \in Processes, Memory!Remember(p) PROVE MemoryInv'
<1>1. PICK current \in Tasks \cup {Memory!Global}, ask \in {"task", "global"} \cup Boards,
           k \in Keys, value \in Values, given \in SUBSET Tags :
           Memory!Prepare(p, <<Memory!ScopeOf(ask, current), k>>, value, given)
  BY DEF Memory!Remember
<1>2. Memory!ScopeOf(ask, current) \in Memory!Scopes
  <2>1. CASE ask = "task"
    BY <2>1 DEF Memory!ScopeOf, Memory!Scopes
  <2>2. CASE ask = "global"
    BY <2>2 DEF Memory!ScopeOf, Memory!Scopes
  <2>3. CASE ask \notin {"task", "global"}
    <3>1. Memory!ScopeOf(ask, current) = ask
      BY <2>3 DEF Memory!ScopeOf
    <3> QED  BY <2>3, <3>1 DEF Memory!Scopes
  <2> QED  BY <2>1, <2>2, <2>3
<1>3. <<Memory!ScopeOf(ask, current), k>> \in Cells
  BY <1>2 DEF Cells, Memory!Cells
<1> QED  BY <1>1, <1>3, PrepareInv

LEMMA PromoteInv ==
    ASSUME MemoryInv, NEW p \in Processes, Memory!Promote(p) PROVE MemoryInv'
<1>1. PICK from \in Memory!Scopes \ {Memory!Global}, k \in Keys, given \in SUBSET Tags :
        /\ memory_rows[<<from, k>>] # NoNote
        /\ Memory!Prepare(p, <<Memory!Global, k>>, memory_rows[<<from, k>>].value,
                          IF given = {} THEN memory_rows[<<from, k>>].tags ELSE given)
  BY DEF Memory!Promote, NoNote
<1>2. <<from, k>> \in Cells /\ <<Memory!Global, k>> \in Cells
  BY DEF Cells, Memory!Cells, Memory!Scopes
<1>3. memory_rows[<<from, k>>] \in Memory!Notes \cup {NoNote}
  BY <1>2 DEF MemoryInv, MemoryTypes
<1>4. memory_rows[<<from, k>>].value \in Values /\ memory_rows[<<from, k>>].tags \in SUBSET Tags
  BY <1>1, <1>3, NotesThere
<1>5. (IF given = {} THEN memory_rows[<<from, k>>].tags ELSE given) \in SUBSET Tags
  BY <1>4
<1> QED  BY <1>1, <1>2, <1>4, <1>5, PrepareInv, Zenon

(* A write that finds what was read leaves what was told.                  *)
LEMMA WriteInv ==
    ASSUME MemoryInv, NEW p \in Processes, Memory!Write(p) PROVE MemoryInv'
<1> DEFINE w == memory_writing[p]
           said == [value |-> w.note.value,
                    tags |-> w.given \cup (IF memory_told[w.cell] = NoNote THEN {}
                                           ELSE memory_told[w.cell].tags)]
<1>1. /\ w # Memory!Nothing
      /\ memory_writing' = [memory_writing EXCEPT ![p] = Memory!Nothing]
      /\ \/ /\ memory_rows' = [memory_rows EXCEPT ![w.cell] = w.note]
            /\ memory_told' = [memory_told EXCEPT ![w.cell] =
                                 [value |-> w.note.value,
                                  tags |-> w.given \cup (IF @ = NoNote THEN {} ELSE @.tags)]]
            /\ memory_disturbed' = IF memory_rows[w.cell] = w.seen THEN memory_disturbed
                                   ELSE memory_disturbed \cup {w.cell}
         \/ UNCHANGED <<memory_rows, memory_told, memory_disturbed>>
      /\ UNCHANGED <<memory_at, memory_schema, memory_scratch, memory_cut, memory_met>>
  BY DEF Memory!Write, NoNote
<1>2. memory_at[p] = "open" /\ Prepared(w)
  BY <1>1 DEF MemoryInv
<1>3. /\ w.cell \in Cells /\ w.given \in SUBSET Tags /\ w.note.value \in Values
      /\ w.seen \in Memory!Notes \cup {NoNote}
      /\ w.note = [value |-> w.note.value,
                   tags |-> w.given \cup (IF w.seen = NoNote THEN {} ELSE w.seen.tags)]
  BY <1>2 DEF Prepared
<1>4. memory_told[w.cell] \in Memory!Notes \cup {NoNote}
  BY <1>3 DEF MemoryInv, MemoryTypes
<1>5. ASSUME NEW v \in Values, NEW T \in SUBSET Tags PROVE [value |-> v, tags |-> T] \in Memory!Notes
  BY DEF Memory!Notes
<1>6. \A n \in Memory!Notes \cup {NoNote} :
         (w.given \cup (IF n = NoNote THEN {} ELSE n.tags)) \in SUBSET Tags
  BY <1>3, NotesThere
<1>7. w.note \in Memory!Notes /\ said \in Memory!Notes
  <2>1. w.note \in Memory!Notes
    BY <1>3, <1>5, <1>6
  <2>2. said \in Memory!Notes
    BY <1>3, <1>4, <1>5, <1>6
  <2> QED  BY <2>1, <2>2
<1>8. \/ /\ memory_rows' = [memory_rows EXCEPT ![w.cell] = w.note]
         /\ memory_told' = [memory_told EXCEPT ![w.cell] = said]
         /\ memory_disturbed' = IF memory_rows[w.cell] = w.seen THEN memory_disturbed
                                ELSE memory_disturbed \cup {w.cell}
      \/ UNCHANGED <<memory_rows, memory_told, memory_disturbed>>
  BY <1>1
<1>9. memory_rows[w.cell] = w.seen /\ memory_rows[w.cell] = memory_told[w.cell] => w.note = said
  BY <1>3
<1> HIDE DEF said
<1>10. MemoryTypes'
  <2>1. Cells' = Cells /\ NoNote' = NoNote /\ (Memory!Notes)' = Memory!Notes
    BY DEF Cells, NoNote, Memory!Cells, Memory!Notes
  <2>2. /\ memory_rows' \in [Cells -> Memory!Notes \cup {NoNote}]
        /\ memory_told' \in [Cells -> Memory!Notes \cup {NoNote}]
    BY <1>3, <1>7, <1>8 DEF MemoryInv, MemoryTypes
  <2>3. DOMAIN memory_writing' = Processes
    BY <1>1 DEF MemoryInv, MemoryTypes
  <2> QED  BY <1>1, <2>1, <2>2, <2>3 DEF MemoryInv, MemoryTypes
<1>11. Memory!NotesAreKept'
  <2>1. SUFFICES ASSUME NEW c \in Cells, c \notin memory_disturbed'
                 PROVE  memory_rows'[c] = memory_told'[c]
    BY DEF Memory!NotesAreKept, Cells, Memory!Cells
  <2>2. c \notin memory_disturbed /\ memory_rows[c] = memory_told[c]
    BY <1>8, <2>1 DEF MemoryInv, Memory!NotesAreKept, Cells
  <2>3. CASE UNCHANGED <<memory_rows, memory_told, memory_disturbed>>
    BY <2>2, <2>3
  <2>4. CASE /\ memory_rows' = [memory_rows EXCEPT ![w.cell] = w.note]
             /\ memory_told' = [memory_told EXCEPT ![w.cell] = said]
             /\ memory_disturbed' = IF memory_rows[w.cell] = w.seen THEN memory_disturbed
                                    ELSE memory_disturbed \cup {w.cell}
    <3>1. CASE c = w.cell
      <4>1. memory_rows[w.cell] = w.seen
        BY <2>1, <2>4, <3>1
      <4>2. w.note = said
        BY <1>9, <2>2, <3>1, <4>1
      <4> QED  BY <2>4, <3>1, <4>2 DEF MemoryInv, MemoryTypes
    <3>2. CASE c # w.cell
      BY <2>2, <2>4, <3>2 DEF MemoryInv, MemoryTypes
    <3> QED  BY <3>1, <3>2
  <2> QED  BY <1>8, <2>3, <2>4
<1>12. Memory!StartsCleanly'
  BY <1>1 DEF MemoryInv, Memory!StartsCleanly
<1>13. \A q \in Processes : memory_writing'[q] = IF q = p THEN Memory!Nothing ELSE memory_writing[q]
  BY <1>1 DEF MemoryInv, MemoryTypes
<1>14. ASSUME NEW q \in Processes, memory_writing'[q] # Memory!Nothing
       PROVE  memory_at'[q] = "open" /\ Prepared(memory_writing'[q])
  <2>1. memory_writing'[q] = memory_writing[q] /\ memory_writing[q] # Memory!Nothing
    BY <1>13, <1>14
  <2> QED  BY <1>1, <2>1 DEF MemoryInv
<1>15. \A q \in Processes : Prepared(memory_writing'[q]) => Prepared(memory_writing[q])'
  BY DEF Prepared
<1>16. memory_schema # "old" /\ memory_schema # "absent"
  BY <1>2 DEF MemoryInv
<1> QED  BY <1>1, <1>10, <1>11, <1>12, <1>14, <1>15, <1>16 DEF MemoryInv

LEMMA ForgetNoteInv ==
    ASSUME MemoryInv, NEW p \in Processes, Memory!Forget(p) PROVE MemoryInv'
<1>1. PICK cell \in Cells :
        /\ memory_at[p] = "open"
        /\ memory_rows' = [memory_rows EXCEPT ![cell] = NoNote]
        /\ memory_told' = [memory_told EXCEPT ![cell] = NoNote]
        /\ UNCHANGED <<memory_at, memory_schema, memory_scratch, memory_writing,
                       memory_disturbed, memory_cut, memory_met>>
  BY DEF Memory!Forget, Cells, NoNote
<1>2. MemoryTypes'
  <2>1. Cells' = Cells /\ NoNote' = NoNote /\ (Memory!Notes)' = Memory!Notes
    BY DEF Cells, NoNote, Memory!Cells, Memory!Notes
  <2>2. /\ memory_rows' \in [Cells -> Memory!Notes \cup {NoNote}]
        /\ memory_told' \in [Cells -> Memory!Notes \cup {NoNote}]
    BY <1>1 DEF MemoryInv, MemoryTypes
  <2> QED  BY <1>1, <2>1, <2>2 DEF MemoryInv, MemoryTypes
<1>3. Memory!NotesAreKept'
  <2>1. \A c \in Cells : /\ memory_rows'[c] = IF c = cell THEN NoNote ELSE memory_rows[c]
                         /\ memory_told'[c] = IF c = cell THEN NoNote ELSE memory_told[c]
    BY <1>1 DEF MemoryInv, MemoryTypes
  <2>2. \A c \in Cells \ memory_disturbed : memory_rows[c] = memory_told[c]
    BY DEF MemoryInv, Memory!NotesAreKept, Cells
  <2>3. \A c \in Cells \ memory_disturbed' : memory_rows'[c] = memory_told'[c]
    BY <1>1, <2>1, <2>2
  <2> QED  BY <2>3 DEF Memory!NotesAreKept, Cells, Memory!Cells
<1>4. Memory!StartsCleanly'
  BY <1>1 DEF MemoryInv, Memory!StartsCleanly
<1>5. \A q \in Processes : Prepared(memory_writing[q])' = Prepared(memory_writing[q])
  BY <1>1 DEF Prepared
<1>6. memory_schema # "old" /\ memory_schema # "absent"
  BY <1>1 DEF MemoryInv
<1> QED  BY <1>1, <1>2, <1>3, <1>4, <1>5, <1>6 DEF MemoryInv

LEMMA MemoryStep == MemoryInv /\ [Memory!Next]_(Memory!memoryVars) => MemoryInv'
<1> SUFFICES ASSUME MemoryInv, [Memory!Next]_(Memory!memoryVars) PROVE MemoryInv'
  OBVIOUS
<1>1. CASE Memory!OldRelease
  BY <1>1, OldReleaseInv
<1>2. ASSUME NEW p \in Processes,
             \/ Memory!Start(p) \/ Memory!CreateScratch(p) \/ Memory!Move(p) \/ Memory!Kill(p)
             \/ Memory!Remember(p) \/ Memory!Promote(p) \/ Memory!Write(p) \/ Memory!Forget(p)
      PROVE  MemoryInv'
  BY <1>2, StartInv, CreateScratchInv, MoveInv, KillInv, RememberInv, PromoteInv, WriteInv,
     ForgetNoteInv
<1>3. CASE UNCHANGED Memory!memoryVars
  BY <1>3 DEF Memory!memoryVars, MemoryInv, MemoryTypes, Prepared, Memory!NotesAreKept,
              Memory!StartsCleanly, Memory!OldRows
<1> QED  BY <1>1, <1>2, <1>3 DEF Memory!Next

(* The instance counts as FiniteSets does.                                 *)
LEMMA SameCardinality == \A S : Memory!Cardinality(S) = Cardinality(S)
BY DEF Memory!Cardinality, Cardinality

(* A note scores at most as many words as it has, and no less for a query  *)
(* that says more.                                                         *)
LEMMA ScoreFacts ==
    ASSUME MemoryTypes, NEW c \in Cells, NEW q, NEW r, q \subseteq r
    PROVE  /\ Memory!Score(c, q) \in Nat /\ Memory!Score(c, r) \in Nat
           /\ Memory!Score(c, q) <= Memory!Score(c, r)
<1>1. c[2] \in Keys /\ IsFiniteSet(KeyWords[c[2]])
  BY MemoryAssumption DEF Cells, Memory!Cells
<1>2. IsFiniteSet(memory_rows[c].value)
  <2>1. memory_rows[c] \in Memory!Notes \cup {NoNote}
    BY DEF MemoryTypes
  <2>2. NoNote.value = {}
    BY DEF NoNote, Memory!NoNote
  <2> QED  BY <2>1, <2>2, NotesThere, FS_EmptySet, MemoryAssumption
<1> DEFINE W == KeyWords[c[2]] \cup memory_rows[c].value
<1>3. IsFiniteSet(W)
  BY <1>1, <1>2, FS_Union
<1>4. IsFiniteSet(W \cap r) /\ W \cap q \subseteq W \cap r
  BY <1>3, FS_Intersection
<1>5. /\ Cardinality(W \cap q) \in Nat /\ Cardinality(W \cap r) \in Nat
      /\ Cardinality(W \cap q) <= Cardinality(W \cap r)
  BY <1>4, FS_Subset, FS_CardinalityType
<1> QED  BY <1>5, SameCardinality DEF Memory!Score

(* What a task can see is finite, and ranked.                              *)
LEMMA VisibleIsFinite ==
    ASSUME NEW t \in Tasks
    PROVE  IsFiniteSet(Memory!Visible(t)) /\ Memory!Visible(t) \subseteq Cells
<1>1. IsFiniteSet({t, Memory!Global})
  <2>1. {t, Memory!Global} = {t} \cup {Memory!Global}
    OBVIOUS
  <2>2. IsFiniteSet({t}) /\ IsFiniteSet({Memory!Global})
    BY FS_Singleton
  <2>3. IsFiniteSet({t} \cup {Memory!Global})
    BY <2>2, FS_Union
  <2> QED  BY <2>1, <2>3
<1>2. IsFiniteSet({t, Memory!Global} \X Keys)
  BY <1>1, FS_Product, MemoryAssumption
<1>3. Memory!Visible(t) \subseteq {t, Memory!Global} \X Keys
  BY DEF Memory!Visible
<1>4. {t, Memory!Global} \X Keys \subseteq Cells
  BY DEF Cells, Memory!Cells, Memory!Scopes
<1> QED  BY <1>2, <1>3, <1>4, FS_Subset

(* What is about the query is selected, unless as many notes as fit are.   *)
LEMMA SelectedOrFull ==
    ASSUME MemoryTypes, NEW t \in Tasks, NEW q, NEW n \in Nat, NEW c \in Memory!Visible(t),
           Memory!Score(c, q) > 0, c \notin Memory!Selected(t, q, n)
    PROVE  Cardinality(Memory!Selected(t, q, n)) = n
<1> DEFINE S == Memory!Visible(t)
           R == {p \in S \X S : Memory!Precedes(p[1], p[2], q)}
           T == {y \in S : Cardinality(Before(R, S, y)) < n}
<1>1. IsFiniteSet(S) /\ S \subseteq Cells
  BY VisibleIsFinite
<1>2. \A x \in S : Memory!Score(x, q) \in Nat /\ Place[x] \in Nat
  BY <1>1, ScoreFacts, MemoryAssumption DEF Cells
<1>3. \A x, y \in S : Place[x] = Place[y] => x = y
  BY <1>1, MemoryAssumption DEF Cells
<1>4. \A x, y \in S : <<x, y>> \in R <=>
         \/ Memory!Score(x, q) > Memory!Score(y, q)
         \/ Memory!Score(x, q) = Memory!Score(y, q) /\ Place[x] < Place[y]
  BY DEF Memory!Precedes
<1>5. \A y \in S : Before(R, S, y) = {z \in S : Memory!Precedes(z, y, q)}
  BY DEF Before
<1>6. Memory!Selected(t, q, n) = {y \in T : Memory!Score(y, q) > 0}
  <2>1. Memory!Selected(t, q, n) =
          {y \in S : /\ Memory!Score(y, q) > 0
                     /\ Cardinality({z \in S : Memory!Precedes(z, y, q)}) < n}
    BY SameCardinality DEF Memory!Selected
  <2> HIDE DEF S, R
  <2> QED  BY <1>5, <2>1
<1> HIDE DEF S, R
<1>7. \A x, y, z \in S : <<x, y>> \in R /\ <<y, z>> \in R => <<x, z>> \in R
  BY <1>2, <1>4
<1>8. \A x \in S : <<x, x>> \notin R
  BY <1>2, <1>4
<1>9. \A x, y \in S : x = y \/ <<x, y>> \in R \/ <<y, x>> \in R
  <2> SUFFICES ASSUME NEW x \in S, NEW y \in S, x # y
               PROVE  <<x, y>> \in R \/ <<y, x>> \in R
    OBVIOUS
  <2>1. /\ Memory!Score(x, q) \in Nat /\ Place[x] \in Nat
        /\ Memory!Score(y, q) \in Nat /\ Place[y] \in Nat /\ Place[x] # Place[y]
    BY <1>2, <1>3
  <2>2. \/ Memory!Score(x, q) > Memory!Score(y, q) \/ Memory!Score(y, q) > Memory!Score(x, q)
        \/ Memory!Score(x, q) = Memory!Score(y, q) /\ (Place[x] < Place[y] \/ Place[y] < Place[x])
    BY <2>1
  <2> QED  BY <1>4, <2>2
<1>10. Ranks(R, S)
  BY <1>7, <1>8, <1>9 DEF Ranks
<1>11. c \in S /\ c \notin T
  BY <1>6 DEF S
<1>12. Cardinality(T) = n /\ \A y \in T : <<y, c>> \in R
  <2>1. T = {y \in S : Cardinality(Before(R, S, y)) < n}
    OBVIOUS
  <2> HIDE DEF T
  <2> QED  BY <1>1, <1>10, <1>11, <2>1, TopOfRanking
<1>13. \A y \in T : Memory!Score(y, q) > 0
  <2> TAKE y \in T
  <2>1. y \in S /\ <<y, c>> \in R
    BY <1>12
  <2>2. Memory!Score(y, q) >= Memory!Score(c, q)
    BY <1>2, <1>4, <1>11, <2>1
  <2> QED  BY <1>2, <1>11, <2>1, <2>2
<1>14. Memory!Selected(t, q, n) = T
  BY <1>6, <1>13
<1> QED  BY <1>12, <1>14

(* A task finds what was told to it, and is offered what it talks about.   *)
LEMMA FindsNotes == MemoryInv => Memory!NotesAreFound
<1> SUFFICES ASSUME MemoryInv, NEW t \in Tasks
             PROVE  /\ \A k \in Keys :
                          {<<t, k>>, <<Memory!Global, k>>} \cap memory_disturbed = {} =>
                             memory_rows[Memory!Recalled(t, k)] =
                                IF memory_told[<<t, k>>] # NoNote THEN memory_told[<<t, k>>]
                                ELSE memory_told[<<Memory!Global, k>>]
                    /\ \A o \in Objectives, d \in Dialogues, c \in Memory!Visible(t) :
                          d # <<>> /\ Memory!Score(c, d[Len(d)]) > 0 =>
                             \/ c \in Memory!Snapshot(t, o, d)
                             \/ Cardinality(Memory!Snapshot(t, o, d)) = SnapshotLimit
  BY SameCardinality DEF Memory!NotesAreFound, NoNote
<1>1. ASSUME NEW k \in Keys, {<<t, k>>, <<Memory!Global, k>>} \cap memory_disturbed = {}
      PROVE  memory_rows[Memory!Recalled(t, k)] =
                IF memory_told[<<t, k>>] # NoNote THEN memory_told[<<t, k>>]
                ELSE memory_told[<<Memory!Global, k>>]
  <2>1. <<t, k>> \in Cells /\ <<Memory!Global, k>> \in Cells
    BY DEF Cells, Memory!Cells, Memory!Scopes
  <2>2. /\ memory_rows[<<t, k>>] = memory_told[<<t, k>>]
        /\ memory_rows[<<Memory!Global, k>>] = memory_told[<<Memory!Global, k>>]
    BY <1>1, <2>1 DEF MemoryInv, Memory!NotesAreKept, Cells
  <2> QED  BY <2>2 DEF Memory!Recalled, NoNote
<1>2. ASSUME NEW o \in Objectives, NEW d \in Dialogues, NEW c \in Memory!Visible(t),
             d # <<>>, Memory!Score(c, d[Len(d)]) > 0, c \notin Memory!Snapshot(t, o, d)
      PROVE  Cardinality(Memory!Snapshot(t, o, d)) = SnapshotLimit
  <2>1. Len(d) \in DOMAIN d /\ Len(d) > Len(d) - TailMessages
    <3>1. d \in Seq({d[i] : i \in DOMAIN d})
      BY MemoryAssumption
    <3>2. Len(d) \in Nat /\ Len(d) # 0 /\ DOMAIN d = 1..Len(d)
      BY <1>2, <3>1
    <3> QED  BY <3>2, MemoryAssumption
  <2>2. d[Len(d)] \subseteq Memory!RetrievalTerms(o, d)
    <3>1. Len(d) \in {j \in DOMAIN d : j > Len(d) - TailMessages}
      BY <2>1
    <3> QED  BY <3>1 DEF Memory!RetrievalTerms
  <2>3. MemoryTypes /\ c \in Cells
    BY VisibleIsFinite DEF MemoryInv
  <2>4. Memory!Score(c, Memory!RetrievalTerms(o, d)) > 0
    BY <1>2, <2>2, <2>3, ScoreFacts
  <2> QED  BY <1>2, <2>3, <2>4, SelectedOrFull, MemoryAssumption DEF Memory!Snapshot
<1> QED  BY <1>1, <1>2

(* Whatever several processes remember, promote and forget, over kills and *)
(* the migration of an old table: the table holds what was told to it, a   *)
(* task finds it, and a start fails only over a half-made migration        *)
(* (MemoryManager, SQLiteStore._migrate, retrieve_snapshot).               *)
THEOREM MemoryStaysFaithful == ServicesSpec => []MemoryIsFaithful
<1>1. ServicesInit => MemoryInv
  BY DEF ServicesInit, Memory!Init, MemoryInv, MemoryTypes, Memory!NotesAreKept,
         Memory!StartsCleanly, Cells, NoNote
<1>2. MemoryInv => MemoryIsFaithful
  BY FindsNotes DEF MemoryInv, MemoryIsFaithful, Memory!MemoryIsFaithful
<1>3. MemoryInv /\ [ServicesNext]_servicesVars => MemoryInv'
  BY MemorySteps, MemoryStep
<1> QED  BY <1>1, <1>2, <1>3, PTL DEF ServicesSpec

---------------------------------------------------------------------------
(* The session registry.  Everything it promises is promised of one id at  *)
(* a time, so its invariant is a conjunction over ids, and a step is       *)
(* examined for the one id it concerns: UntouchedStaysOK carries the rest. *)

Titles == {"", "directory", "auto", "manual"}
Sources == {"none", "auto", "manual"}
Sessions == [title : Titles, source : Sources]
Requests == [op : {"idle", "create", "open", "rename", "delete"}, id : Ids \cup {"none"},
             at : {"idle", "building", "skills", "closing", "releasing"}, record : Sessions]

\* A create only builds, an open or a rename then waits for its skills, a delete closes.
Shape(call) ==
    \/ call = Idle
    \/ call.id \in Ids /\ \/ call.op = "create" /\ call.at = "building"
                          \/ call.op \in {"open", "rename"} /\ call.at \in {"building", "skills"}
                          \/ call.op = "delete" /\ call.at \in {"closing", "releasing"}

RegistryTypes ==
    /\ up \in BOOLEAN
    /\ live \in [Ids -> Sessions]
    /\ pending \in [Ids -> Sessions]
    /\ row \in [Ids -> Sessions]
    /\ runtimes \in [Ids -> 0..1]
    /\ calls \in [Callers -> Requests]
    /\ created \subseteq Ids /\ forgotten \subseteq Ids
    /\ \A c \in Callers : Shape(calls[c])
    /\ \A c \in Callers : calls[c].at = "building" => calls[c].record # NoSession

\* The caller has the session in its hands: it builds, closes or releases it.
Holder(c, id) == calls[c].id = id /\ calls[c].at # "skills"
Closer(c, id) == calls[c].id = id /\ calls[c].at \in {"closing", "releasing"}

\* A session is in one place: in _sessions, in _pending, or in the hands of one call.
OnePlace(id) ==
    /\ live[id] # NoSession => pending[id] = NoSession
    /\ \A c \in Callers : Holder(c, id) => live[id] = NoSession /\ pending[id] = NoSession
    /\ \A c, d \in Callers : Holder(c, id) /\ Holder(d, id) => c = d

\* It has a runtime exactly while it is live or being closed.
Counted(id) ==
    runtimes[id] = IF live[id] # NoSession \/ \E c \in Callers : Closer(c, id) THEN 1 ELSE 0

\* Only a created session is live, recorded, on disk, named or worked on.
Origin(id) ==
    /\ live[id] # NoSession \/ pending[id] # NoSession \/ row[id] # NoSession \/ id \in named
          => id \in created
    /\ \A c \in Callers : calls[c].id = id => (calls[c].op = "create" <=> id \notin created)

Erased(id) ==
    id \in forgotten \ (raced \cup faulty) =>
        /\ live[id] = NoSession /\ pending[id] = NoSession /\ row[id] = NoSession
        /\ id \notin traces
        /\ \A c \in Callers : calls[c].id # id

Manual == [title |-> "manual", source |-> "manual"]

\* The record a rebuild has taken out is the one on disk.
Durable(id) ==
    id \in created \ (forgotten \cup faulty) =>
        /\ row[id] # NoSession
        /\ id \in named =>
              /\ row[id] = Manual
              /\ live[id] \in {NoSession, Manual}
              /\ pending[id] \in {NoSession, Manual}
              /\ \A c \in Callers : calls[c].id = id /\ calls[c].at = "building"
                                      => calls[c].record = Manual

SessionOK(id) == OnePlace(id) /\ Counted(id) /\ Origin(id) /\ Erased(id) /\ Durable(id)

\* Without a process there is nothing but the disk.
DownOK == ~up => /\ \A id \in Ids : live[id] = NoSession /\ pending[id] = NoSession /\ runtimes[id] = 0
                 /\ \A c \in Callers : calls[c] = Idle

RegistryInv == RegistryTypes /\ DownOK /\ \A id \in Ids : SessionOK(id)

---------------------------------------------------------------------------
(* What the writes to the stores leave.                                    *)

(* The records the registry starts from, and what of a record is           *)
(* displayed.                                                              *)
LEMMA SessionFacts ==
    /\ NoSession \in Sessions /\ Fresh \in Sessions /\ Manual \in Sessions
    /\ Fresh # NoSession /\ Manual # NoSession
    /\ \A s \in Sessions : Displayed(s) \in Sessions
    /\ \A s \in Sessions : s # NoSession => Displayed(s) # NoSession
    /\ Displayed(Manual) = Manual
  <1>1. NoSession \in Sessions /\ Fresh \in Sessions /\ Manual \in Sessions
        /\ Fresh # NoSession /\ Manual # NoSession
    BY DEF NoSession, Fresh, Manual, Sessions, Titles, Sources
  <1>2. ASSUME NEW s \in Sessions
        PROVE  /\ Displayed(s) \in Sessions
               /\ s # NoSession => Displayed(s) # NoSession
    BY DEF NoSession, Sessions, Titles, Sources, Displayed
  <1>3. Displayed(Manual) = Manual
    BY DEF Displayed, Manual
  <1> QED BY <1>1, <1>2, <1>3

\* An entry another write dropped, or that is as it was.
Dropped(id) == row'[id] = NoSession /\ (row[id] # NoSession => id \in faulty')

(* An upsert writes the row of one session or fails, and may drop rows of  *)
(* the retention.                                                          *)
LEMMA UpsertFacts ==
    ASSUME row \in [Ids -> Sessions], NEW id \in Ids, NEW s \in Sessions, Upsert(id, s)
    PROVE  /\ row' \in [Ids -> Sessions]
           /\ row'[id] = Displayed(s) \/ (row'[id] = row[id] /\ id \in faulty')
           /\ \A j \in Ids \ {id} : row'[j] = row[j] \/ Dropped(j)
           /\ faulty \subseteq faulty'
  <1>1. Displayed(s) \in Sessions /\ NoSession \in Sessions
    BY SessionFacts
  <1> QED BY <1>1 DEF Upsert, Works, Fails, Dropped

(* Forgetting erases the row and the traces of one session, or fails.      *)
LEMMA ForgetFacts ==
    ASSUME row \in [Ids -> Sessions], NEW id \in Ids, Forget(id)
    PROVE  /\ row' \in [Ids -> Sessions]
           /\ (row'[id] = NoSession /\ id \notin traces') \/ id \in faulty'
           /\ row'[id] \in {row[id], NoSession}
           /\ \A j \in Ids \ {id} : row'[j] = row[j] /\ (j \in traces' => j \in traces)
           /\ faulty \subseteq faulty' /\ forgotten' = forgotten \cup {id}
  <1>1. NoSession \in Sessions
    BY SessionFacts
  <1> QED BY <1>1 DEF Forget, Works, Fails

\* A step changes nothing for a session but what a failing store drops.
Untouched(j) ==
    /\ live'[j] = live[j] /\ pending'[j] = pending[j] /\ runtimes'[j] = runtimes[j]
    /\ row'[j] = row[j] \/ Dropped(j)
    /\ j \in faulty => j \in faulty'
    /\ j \in traces' => j \in traces
    /\ j \in created' <=> j \in created
    /\ j \in forgotten' <=> j \in forgotten
    /\ j \in named' <=> j \in named
    /\ j \in raced' <=> j \in raced
    /\ \A c \in Callers : calls'[c] = calls[c] \/ (calls[c].id # j /\ calls'[c].id # j)

(* A session a step does not touch stays as it is.                         *)
LEMMA UntouchedStaysOK ==
    ASSUME NEW j \in Ids, SessionOK(j), Untouched(j)
    PROVE  SessionOK(j)'
  <1>1. OnePlace(j)'
    BY DEF SessionOK, OnePlace, Untouched, Holder
  <1>2. Counted(j)'
    BY DEF SessionOK, Counted, Untouched, Closer
  <1>3. Origin(j)'
    BY DEF SessionOK, Origin, Untouched, Dropped
  <1>4. Erased(j)'
    BY DEF SessionOK, Erased, Untouched, Dropped
  <1>5. Durable(j)'
    BY DEF SessionOK, Durable, Untouched, Dropped
  <1> QED BY <1>1, <1>2, <1>3, <1>4, <1>5 DEF SessionOK

---------------------------------------------------------------------------
(* The steps of a call. *)

(* A request for a new session preserves the invariant.                    *)
LEMMA CreateStep ==
    ASSUME NEW c \in Callers, NEW id \in Ids, RegistryInv, Create(c, id)
    PROVE  RegistryInv'
  <1> DEFINE asked == [op |-> "create", id |-> id, at |-> "building", record |-> Fresh]
  <1>1. /\ asked \in Requests /\ Shape(asked) /\ asked.record # NoSession
        /\ asked.id = id /\ asked.op = "create" /\ asked.at = "building"
    BY SessionFacts DEF Requests, Shape
  <1>2. /\ calls' \in [Callers -> Requests] /\ calls'[c] = asked
        /\ \A d \in Callers \ {c} : calls'[d] = calls[d]
        /\ calls[c].id = "none" /\ calls[c].at = "idle"
    BY <1>1 DEF RegistryInv, RegistryTypes, Create, Idle
  <1> HIDE DEF asked
  <1>3. RegistryTypes'
    BY <1>1, <1>2 DEF RegistryInv, RegistryTypes, Create, disk, history
  <1>4. DownOK'
    BY DEF RegistryInv, DownOK, Create
  <1>5. ASSUME NEW j \in Ids \ {id}
        PROVE  SessionOK(j)'
    <2>1. Untouched(j)
      BY <1>1, <1>2, IdsAssumption DEF Untouched, Create, disk, history
    <2> QED BY <2>1, UntouchedStaysOK DEF RegistryInv
  <1>6. SessionOK(id)'
    <2>1. /\ live[id] = NoSession /\ pending[id] = NoSession /\ row[id] = NoSession
          /\ \A d \in Callers : calls[d].id # id
          /\ id \notin created /\ id \notin forgotten
      BY DEF Create, Known, BusyWith
    <2>2. UNCHANGED <<live, pending, row, traces, runtimes, created, forgotten, named, raced, faulty>>
      BY DEF Create, disk, history
    <2>3. SessionOK(id)
      BY DEF RegistryInv
    <2>4. OnePlace(id)'
      BY <1>1, <1>2, <2>1, <2>2 DEF OnePlace, Holder
    <2>5. Counted(id)'
      BY <1>1, <1>2, <2>1, <2>2, <2>3 DEF SessionOK, Counted, Closer
    <2>6. Origin(id)'
      BY <1>1, <1>2, <2>1, <2>2, <2>3 DEF SessionOK, Origin
    <2>7. Erased(id)' /\ Durable(id)'
      BY <2>1, <2>2 DEF Erased, Durable
    <2> QED BY <2>4, <2>5, <2>6, <2>7 DEF SessionOK
  <1> QED BY <1>3, <1>4, <1>5, <1>6 DEF RegistryInv

(* So does the end of its construction.                                    *)
LEMMA CreatedStep ==
    ASSUME NEW c \in Callers, RegistryInv, Created(c)
    PROVE  RegistryInv'
  <1>1. PICK id \in Ids : /\ calls[c].id = id /\ calls[c].at = "building"
                          /\ calls[c].op = "create" /\ Holder(c, id)
    BY DEF RegistryInv, RegistryTypes, Created, Shape, Idle, Holder
  <1>2. /\ live' \in [Ids -> Sessions] /\ live'[id] = Fresh
        /\ \A j \in Ids \ {id} : live'[j] = live[j]
    BY <1>1, SessionFacts DEF RegistryInv, RegistryTypes, Created
  <1>3. SessionOK(id)
    BY <1>1 DEF RegistryInv
  <1>4. /\ live[id] = NoSession /\ pending[id] = NoSession /\ id \notin created /\ id \notin named
        /\ \A d \in Callers \ {c} : calls[d].id # id
    <2>1. live[id] = NoSession /\ pending[id] = NoSession /\ id \notin created /\ id \notin named
      BY <1>1, <1>3 DEF SessionOK, OnePlace, Origin
    <2>2. ASSUME NEW d \in Callers \ {c}, calls[d].id = id
          PROVE  FALSE
      <3>1. calls[d].op = "create"
        BY <2>1, <2>2, <1>3 DEF SessionOK, Origin
      <3>2. Holder(d, id)
        BY <2>2, <3>1 DEF RegistryInv, RegistryTypes, Shape, Idle, Holder
      <3> QED BY <1>1, <1>3, <3>2 DEF SessionOK, OnePlace
    <2> QED BY <2>1, <2>2
  <1>5. /\ runtimes' \in [Ids -> 0..1] /\ runtimes'[id] = 1
        /\ \A j \in Ids \ {id} : runtimes'[j] = runtimes[j]
    <2>1. runtimes[id] = 0
      BY <1>1, <1>3, <1>4 DEF SessionOK, Counted, Closer
    <2> QED BY <1>1, <2>1 DEF RegistryInv, RegistryTypes, Created
  <1>6. /\ calls' \in [Callers -> Requests] /\ calls'[c] = Idle
        /\ \A d \in Callers \ {c} : calls'[d] = calls[d]
    BY SessionFacts DEF RegistryInv, RegistryTypes, Created, Return, Idle, Requests
  <1>7. /\ row' \in [Ids -> Sessions] /\ (row'[id] # NoSession \/ id \in faulty')
        /\ \A j \in Ids \ {id} : row'[j] = row[j] \/ Dropped(j)
        /\ faulty \subseteq faulty'
    BY <1>1, UpsertFacts, SessionFacts DEF RegistryInv, RegistryTypes, Created
  <1>8. /\ created' = created \cup {id} /\ traces' = traces \cup {id}
        /\ UNCHANGED <<up, pending, forgotten, named, raced>>
    BY <1>1 DEF Created, Saved
  <1>9. up = TRUE
    BY <1>1 DEF RegistryInv, RegistryTypes, DownOK, Idle
  <1>10. RegistryTypes'
    BY <1>2, <1>5, <1>6, <1>7, <1>8 DEF RegistryInv, RegistryTypes, Shape, Idle
  <1>11. DownOK'
    BY <1>8, <1>9 DEF DownOK
  <1>12. ASSUME NEW j \in Ids \ {id}
         PROVE  SessionOK(j)'
    <2>1. Untouched(j)
      BY <1>1, <1>2, <1>5, <1>6, <1>7, <1>8, IdsAssumption DEF Untouched, Idle
    <2> QED BY <2>1, UntouchedStaysOK DEF RegistryInv
  <1>13. SessionOK(id)'
    <2>1. \A d \in Callers : calls'[d].id # id
      BY <1>1, <1>4, <1>6, IdsAssumption DEF Idle
    <2>2. OnePlace(id)'
      BY <1>4, <1>8, <2>1 DEF OnePlace, Holder
    <2>3. Counted(id)'
      BY <1>2, <1>5, SessionFacts DEF Counted
    <2>4. Origin(id)'
      BY <1>8, <2>1 DEF Origin
    <2>5. Erased(id)' /\ Durable(id)'
      <3>1. id \in forgotten => id \in raced \cup faulty
        BY <1>1, <1>3 DEF SessionOK, Erased
      <3> QED BY <1>4, <1>7, <1>8, <3>1 DEF Erased, Durable
    <2> QED BY <2>2, <2>3, <2>4, <2>5 DEF SessionOK
  <1> QED BY <1>10, <1>11, <1>12, <1>13 DEF RegistryInv

\* A rename, of a session that was live or has just been looked up again.
LEMMA RenameStep ==
    ASSUME NEW id \in Ids, RegistryInv, live[id] # NoSession, Rename(id),
           calls' \in [Callers -> Requests],
           \A c \in Callers : calls'[c] = calls[c] \/ (calls'[c] = Idle /\ calls[c].at = "skills"),
           UNCHANGED <<up, pending, runtimes, traces, created, forgotten, raced>>
    PROVE  RegistryInv'
  <1>1. /\ live' \in [Ids -> Sessions] /\ live'[id] = Manual
        /\ \A j \in Ids \ {id} : live'[j] = live[j]
        /\ named' = named \cup {id}
    BY SessionFacts DEF RegistryInv, RegistryTypes, Rename, Manual
  <1>2. /\ row' \in [Ids -> Sessions] /\ (row'[id] = Manual \/ (row'[id] = row[id] /\ id \in faulty'))
        /\ \A j \in Ids \ {id} : row'[j] = row[j] \/ Dropped(j)
        /\ faulty \subseteq faulty'
    <2>1. Upsert(id, Manual)
      BY <1>1 DEF Rename
    <2> QED BY <2>1, UpsertFacts, SessionFacts DEF RegistryInv, RegistryTypes
  <1>3. SessionOK(id)
    BY DEF RegistryInv
  <1>4. RegistryTypes'
    <2>1. ASSUME NEW c \in Callers
          PROVE  /\ Shape(calls'[c])
                 /\ calls'[c].at = "building" => calls'[c].record # NoSession
      BY DEF RegistryInv, RegistryTypes, Shape, Idle
    <2> QED BY <1>1, <1>2, <2>1 DEF RegistryInv, RegistryTypes
  <1>5. DownOK'
    BY DEF RegistryInv, DownOK
  <1>6. ASSUME NEW j \in Ids \ {id}
        PROVE  SessionOK(j)'
    <2>1. ASSUME NEW c \in Callers
          PROVE  /\ Holder(c, j)' => Holder(c, j)
                 /\ Closer(c, j)' <=> Closer(c, j)
                 /\ calls'[c].id = j => calls'[c] = calls[c]
      BY IdsAssumption DEF Holder, Closer, Idle
    <2>2. SessionOK(j)
      BY DEF RegistryInv
    <2>3. OnePlace(j)'
      BY <1>1, <2>1, <2>2 DEF SessionOK, OnePlace
    <2>4. Counted(j)'
      BY <1>1, <2>1, <2>2 DEF SessionOK, Counted
    <2>5. Origin(j)'
      BY <1>1, <1>2, <2>1, <2>2 DEF SessionOK, Origin, Dropped
    <2>6. Erased(j)'
      BY <1>1, <1>2, <2>1, <2>2 DEF SessionOK, Erased, Dropped
    <2>7. Durable(j)'
      BY <1>1, <1>2, <2>1, <2>2 DEF SessionOK, Durable, Dropped
    <2> QED BY <2>3, <2>4, <2>5, <2>6, <2>7 DEF SessionOK
  <1>7. SessionOK(id)'
    <2>1. ASSUME NEW c \in Callers
          PROVE  ~Holder(c, id) /\ ~Holder(c, id)' /\ ~Closer(c, id) /\ ~Closer(c, id)'
      <3>1. ~Holder(c, id)
        BY <1>3 DEF SessionOK, OnePlace
      <3> QED BY <3>1, IdsAssumption DEF Holder, Closer, Idle
    <2>2. OnePlace(id)'
      BY <1>3, <2>1 DEF SessionOK, OnePlace
    <2>3. Counted(id)'
      BY <1>1, <1>3, <2>1, SessionFacts DEF SessionOK, Counted
    <2>4. Origin(id)'
      BY <1>3, IdsAssumption DEF SessionOK, Origin, Idle
    <2>5. Erased(id)'
      BY <1>2, <1>3 DEF SessionOK, Erased
    <2>6. Durable(id)'
      <3>1. \A c \in Callers : calls'[c].id = id => calls'[c].at # "building"
        BY <2>1 DEF Holder
      <3>2. pending[id] = NoSession
        BY <1>3 DEF SessionOK, OnePlace
      <3> QED BY <1>1, <1>2, <1>3, <3>1, <3>2, SessionFacts DEF SessionOK, Durable
    <2> QED BY <2>2, <2>3, <2>4, <2>5, <2>6 DEF SessionOK
  <1> QED BY <1>4, <1>5, <1>6, <1>7 DEF RegistryInv

(* So does renaming a session in memory.                                   *)
LEMMA RenameLiveStep ==
    ASSUME NEW c \in Callers, NEW id \in Ids, RegistryInv, RenameLive(c, id)
    PROVE  RegistryInv'
  BY RenameStep DEF RenameLive, RegistryInv, RegistryTypes

(* A call that returns leaves the others alone.                            *)
LEMMA ReturnFacts ==
    ASSUME NEW c \in Callers, RegistryTypes, Return(c)
    PROVE  /\ calls' \in [Callers -> Requests] /\ calls'[c] = Idle
           /\ \A d \in Callers \ {c} : calls'[d] = calls[d]
  <1>1. Idle \in Requests
    BY SessionFacts DEF Idle, Requests
  <1> QED BY <1>1 DEF RegistryTypes, Return

(* A request that opens a session in memory preserves the invariant.       *)
LEMMA OpenedStep ==
    ASSUME NEW c \in Callers, RegistryInv, Opened(c)
    PROVE  RegistryInv'
  <1>1. /\ calls' \in [Callers -> Requests] /\ calls'[c] = Idle /\ calls[c].at = "skills"
        /\ \A d \in Callers \ {c} : calls'[d] = calls[d]
        /\ UNCHANGED <<up, pending, runtimes, traces, created, forgotten, raced>>
    BY ReturnFacts DEF RegistryInv, Opened
  <1>2. calls[c].id \in Ids /\ calls[c].op # "create"
    BY <1>1 DEF RegistryInv, RegistryTypes, Shape, Idle
  <1>3. CASE live[calls[c].id] # NoSession /\ Rename(calls[c].id)
    <2>1. PICK id \in Ids : calls[c].id = id
      BY <1>2
    <2>2. Rename(id)
      BY <1>3, <2>1 DEF Rename
    <2> QED BY <1>1, <1>3, <2>1, <2>2, RenameStep
  <1>4. CASE UNCHANGED <<live, row, named, faulty, faults>>
    <2>1. RegistryTypes'
      BY <1>1, <1>4 DEF RegistryInv, RegistryTypes, Shape, Idle
    <2>2. DownOK'
      BY <1>1, <1>4 DEF RegistryInv, DownOK
    <2>3. ASSUME NEW j \in Ids
          PROVE  SessionOK(j)'
      <3>1. ASSUME NEW d \in Callers
            PROVE  /\ Holder(d, j)' => Holder(d, j)
                   /\ Closer(d, j)' <=> Closer(d, j)
                   /\ calls'[d].id = j => calls'[d] = calls[d]
        BY <1>1, IdsAssumption DEF Holder, Closer, Idle
      <3>2. SessionOK(j)
        BY DEF RegistryInv
      <3>3. OnePlace(j)' /\ Counted(j)'
        BY <1>1, <1>4, <3>1, <3>2 DEF SessionOK, OnePlace, Counted
      <3>4. Origin(j)' /\ Erased(j)' /\ Durable(j)'
        BY <1>1, <1>4, <3>1, <3>2 DEF SessionOK, Origin, Erased, Durable
      <3> QED BY <3>3, <3>4 DEF SessionOK
    <2> QED BY <2>1, <2>2, <2>3 DEF RegistryInv
  <1> QED BY <1>3, <1>4 DEF Opened

\* What a call that is going on says of the invariants of its session.
LEMMA HolderFacts ==
    ASSUME NEW c \in Callers, RegistryInv, calls[c].at \in {"building", "closing", "releasing"}
    PROVE  /\ up = TRUE
           /\ \E id \in Ids :
                 /\ calls[c].id = id /\ Holder(c, id)
                 /\ live[id] = NoSession /\ pending[id] = NoSession
                 /\ \A d \in Callers \ {c} : ~Holder(d, id) /\ ~Closer(d, id)
                 /\ calls[c].op # "create" => id \in created
                 /\ id \in forgotten => id \in raced \cup faulty
                 /\ runtimes[id] = IF calls[c].at = "building" THEN 0 ELSE 1
  <1>1. /\ calls[c] # Idle /\ calls[c].id \in Ids
    BY DEF RegistryInv, RegistryTypes, Shape, Idle
  <1>2. up = TRUE
    BY <1>1 DEF RegistryInv, RegistryTypes, DownOK
  <1>3. PICK id \in Ids : calls[c].id = id
    BY <1>1
  <1>4. SessionOK(id) /\ Holder(c, id)
    BY <1>3 DEF RegistryInv, Holder
  <1>5. live[id] = NoSession /\ pending[id] = NoSession
    BY <1>4 DEF SessionOK, OnePlace
  <1>6. ASSUME NEW d \in Callers \ {c}
        PROVE  ~Holder(d, id) /\ ~Closer(d, id)
    <2>1. ~Holder(d, id)
      BY <1>4 DEF SessionOK, OnePlace
    <2> QED BY <2>1 DEF Holder, Closer
  <1>7. calls[c].op # "create" => id \in created
    BY <1>3, <1>4 DEF SessionOK, Origin
  <1>8. id \in forgotten => id \in raced \cup faulty
    BY <1>3, <1>4 DEF SessionOK, Erased
  <1>9. runtimes[id] = IF calls[c].at = "building" THEN 0 ELSE 1
    BY <1>3, <1>4, <1>5, <1>6 DEF SessionOK, Counted, Closer
  <1> QED BY <1>2, <1>3, <1>4, <1>5, <1>6, <1>7, <1>8, <1>9

(* So does taking the record of one to rebuild,                            *)
LEMMA TakeRecordStep ==
    ASSUME NEW c \in Callers, NEW id \in Ids, NEW op \in {"open", "rename"}, RegistryInv,
           TakeRecord(c, op, id)
    PROVE  RegistryInv'
  <1> DEFINE taken == [op |-> op, id |-> id, at |-> "building", record |-> pending[id]]
  <1>1. /\ taken \in Requests /\ Shape(taken) /\ taken.record = pending[id]
        /\ taken.id = id /\ taken.op # "create" /\ taken.at = "building"
    BY DEF RegistryInv, RegistryTypes, TakeRecord, Requests, Shape
  <1>2. /\ calls' \in [Callers -> Requests] /\ calls'[c] = taken
        /\ \A d \in Callers \ {c} : calls'[d] = calls[d]
        /\ calls[c].id = "none" /\ calls[c].at = "idle"
        /\ pending[id] # NoSession /\ live[id] = NoSession /\ up
    BY <1>1 DEF RegistryInv, RegistryTypes, TakeRecord, Idle
  <1> HIDE DEF taken
  <1>3. /\ pending' \in [Ids -> Sessions] /\ pending'[id] = NoSession
        /\ \A j \in Ids \ {id} : pending'[j] = pending[j]
    BY SessionFacts DEF RegistryInv, RegistryTypes, TakeRecord
  <1>4. UNCHANGED <<up, live, row, traces, runtimes, created, forgotten, named, raced, faulty>>
    BY DEF TakeRecord, disk, history
  <1>5. RegistryTypes'
    BY <1>1, <1>2, <1>3, <1>4 DEF RegistryInv, RegistryTypes
  <1>6. DownOK'
    BY <1>2, <1>4 DEF DownOK
  <1>7. ASSUME NEW j \in Ids \ {id}
        PROVE  SessionOK(j)'
    <2>1. Untouched(j)
      BY <1>1, <1>2, <1>3, <1>4, IdsAssumption DEF Untouched
    <2> QED BY <2>1, UntouchedStaysOK DEF RegistryInv
  <1>8. SessionOK(id)'
    <2>1. SessionOK(id)
      BY DEF RegistryInv
    <2>2. \A d \in Callers \ {c} : ~Holder(d, id) /\ ~Holder(d, id)'
      <3>1. \A d \in Callers : ~Holder(d, id)
        BY <1>2, <2>1 DEF SessionOK, OnePlace
      <3> QED BY <1>2, <3>1 DEF Holder
    <2>3. OnePlace(id)'
      BY <1>2, <1>3, <1>4, <2>2 DEF OnePlace
    <2>4. Counted(id)'
      BY <1>1, <1>2, <1>4, <2>1, IdsAssumption DEF SessionOK, Counted, Closer
    <2>5. Origin(id)'
      BY <1>1, <1>2, <1>3, <1>4, <2>1 DEF SessionOK, Origin
    <2>6. Erased(id)'
      BY <1>2, <1>4, <2>1 DEF SessionOK, Erased
    <2>7. Durable(id)'
      <3>1. \A d \in Callers \ {c} : calls'[d].id = id => calls'[d].at # "building"
        BY <2>2 DEF Holder
      <3> QED BY <1>1, <1>2, <1>3, <1>4, <2>1, <3>1 DEF SessionOK, Durable
    <2> QED BY <2>3, <2>4, <2>5, <2>6, <2>7 DEF SessionOK
  <1> QED BY <1>5, <1>6, <1>7, <1>8 DEF RegistryInv

(* the rebuilt session's entry in the table,                               *)
LEMMA RebuiltStep ==
    ASSUME NEW c \in Callers, RegistryInv, Rebuilt(c)
    PROVE  RegistryInv'
  <1>1. PICK id \in Ids :
           /\ calls[c].id = id /\ Holder(c, id) /\ up = TRUE
           /\ live[id] = NoSession /\ pending[id] = NoSession /\ runtimes[id] = 0
           /\ \A d \in Callers \ {c} : ~Holder(d, id)
           /\ id \in created
           /\ id \in forgotten => id \in raced \cup faulty
    BY HolderFacts DEF Rebuilt
  <1> DEFINE waiting == [calls[c] EXCEPT !.at = "skills"]
  <1>2. /\ waiting \in Requests /\ Shape(waiting) /\ waiting.at = "skills"
        /\ waiting.id = id /\ waiting.op = calls[c].op
    BY <1>1 DEF RegistryInv, RegistryTypes, Rebuilt, Requests, Shape, Idle
  <1>3. /\ calls' \in [Callers -> Requests] /\ calls'[c] = waiting
        /\ \A d \in Callers \ {c} : calls'[d] = calls[d]
        /\ calls[c].record \in Sessions \ {NoSession} /\ calls[c].at = "building"
        /\ calls[c].op # "create"
    BY <1>2 DEF RegistryInv, RegistryTypes, Rebuilt, Goto, Requests
  <1> HIDE DEF waiting
  <1>4. /\ live' \in [Ids -> Sessions] /\ live'[id] = calls[c].record
        /\ \A j \in Ids \ {id} : live'[j] = live[j]
    BY <1>1, <1>3 DEF RegistryInv, RegistryTypes, Rebuilt
  <1>5. /\ runtimes' \in [Ids -> 0..1] /\ runtimes'[id] = 1
        /\ \A j \in Ids \ {id} : runtimes'[j] = runtimes[j]
    BY <1>1 DEF RegistryInv, RegistryTypes, Rebuilt
  <1>6. UNCHANGED <<up, pending, row, traces, created, forgotten, named, raced, faulty>>
    BY DEF Rebuilt, disk, history
  <1>7. RegistryTypes'
    BY <1>2, <1>3, <1>4, <1>5, <1>6 DEF RegistryInv, RegistryTypes
  <1>8. DownOK'
    BY <1>1, <1>6 DEF DownOK
  <1>9. ASSUME NEW j \in Ids \ {id}
        PROVE  SessionOK(j)'
    <2>1. Untouched(j)
      BY <1>1, <1>2, <1>3, <1>4, <1>5, <1>6 DEF Untouched
    <2> QED BY <2>1, UntouchedStaysOK DEF RegistryInv
  <1>10. SessionOK(id)'
    <2>1. SessionOK(id)
      BY DEF RegistryInv
    <2>2. \A d \in Callers : ~Holder(d, id)'
      BY <1>1, <1>2, <1>3 DEF Holder
    <2>3. OnePlace(id)'
      BY <1>1, <1>6, <2>2 DEF OnePlace
    <2>4. Counted(id)'
      BY <1>3, <1>4, <1>5 DEF Counted
    <2>5. Origin(id)'
      BY <1>1, <1>2, <1>3, <1>6, <2>1 DEF SessionOK, Origin
    <2>6. Erased(id)'
      BY <1>1, <1>6 DEF Erased
    <2>7. Durable(id)'
      <3>1. \A d \in Callers : calls'[d].id = id => calls'[d].at # "building"
        BY <2>2 DEF Holder
      <3> QED BY <1>1, <1>3, <1>4, <1>6, <2>1, <3>1 DEF SessionOK, Durable
    <2> QED BY <2>3, <2>4, <2>5, <2>6, <2>7 DEF SessionOK
  <1> QED BY <1>7, <1>8, <1>9, <1>10 DEF RegistryInv

(* and a rebuild that fails.                                               *)
LEMMA BuildFailsStep ==
    ASSUME NEW c \in Callers, RegistryInv, BuildFails(c)
    PROVE  RegistryInv'
  <1>1. PICK id \in Ids :
           /\ calls[c].id = id /\ Holder(c, id) /\ up = TRUE
           /\ live[id] = NoSession /\ pending[id] = NoSession /\ runtimes[id] = 0
           /\ \A d \in Callers \ {c} : ~Holder(d, id) /\ ~Closer(d, id)
    BY HolderFacts DEF BuildFails
  <1>2. /\ calls' \in [Callers -> Requests] /\ calls'[c] = Idle
        /\ \A d \in Callers \ {c} : calls'[d] = calls[d]
        /\ UNCHANGED <<up, live, pending, runtimes, row, traces, created, forgotten, named, raced, faulty>>
    BY ReturnFacts DEF RegistryInv, BuildFails, disk, history
  <1>3. RegistryTypes'
    BY <1>2 DEF RegistryInv, RegistryTypes, Shape, Idle
  <1>4. DownOK'
    BY <1>1, <1>2 DEF DownOK
  <1>5. ASSUME NEW j \in Ids \ {id}
        PROVE  SessionOK(j)'
    <2>1. Untouched(j)
      BY <1>1, <1>2, IdsAssumption DEF Untouched, Idle
    <2> QED BY <2>1, UntouchedStaysOK DEF RegistryInv
  <1>6. SessionOK(id)'
    <2>1. SessionOK(id)
      BY DEF RegistryInv
    <2>2. /\ calls'[c].id # id
          /\ \A d \in Callers : calls'[d].id = id => calls'[d] = calls[d]
          /\ \A d \in Callers : ~Holder(d, id)' /\ ~Closer(d, id)'
      BY <1>1, <1>2, IdsAssumption DEF Idle, Holder, Closer
    <2>3. OnePlace(id)' /\ Counted(id)'
      BY <1>1, <1>2, <2>2 DEF OnePlace, Counted
    <2>4. Origin(id)' /\ Erased(id)' /\ Durable(id)'
      BY <1>2, <2>1, <2>2 DEF SessionOK, Origin, Erased, Durable
    <2> QED BY <2>3, <2>4 DEF SessionOK
  <1> QED BY <1>3, <1>4, <1>5, <1>6 DEF RegistryInv

---------------------------------------------------------------------------
(* Deletes *)

(* A close that takes the session off the table preserves the invariant,   *)
LEMMA StartCloseStep ==
    ASSUME NEW c \in Callers, NEW id \in Ids, RegistryInv, StartClose(c, id)
    PROVE  RegistryInv'
  <1> DEFINE closing == [op |-> "delete", id |-> id, at |-> "closing", record |-> live[id]]
  <1>1. /\ closing \in Requests /\ Shape(closing)
        /\ closing.id = id /\ closing.op = "delete" /\ closing.at = "closing"
    BY DEF RegistryInv, RegistryTypes, StartClose, Requests, Shape
  <1>2. /\ calls' \in [Callers -> Requests] /\ calls'[c] = closing
        /\ \A d \in Callers \ {c} : calls'[d] = calls[d]
        /\ calls[c].id = "none" /\ calls[c].at = "idle"
        /\ live[id] # NoSession /\ up
    BY <1>1 DEF RegistryInv, RegistryTypes, StartClose, Idle
  <1> HIDE DEF closing
  <1>3. /\ live' \in [Ids -> Sessions] /\ live'[id] = NoSession
        /\ \A j \in Ids \ {id} : live'[j] = live[j]
    BY SessionFacts DEF RegistryInv, RegistryTypes, StartClose
  <1>4. UNCHANGED <<up, pending, row, traces, runtimes, created, forgotten, named, raced, faulty>>
    BY DEF StartClose, disk, history
  <1>5. RegistryTypes'
    BY <1>1, <1>2, <1>3, <1>4 DEF RegistryInv, RegistryTypes
  <1>6. DownOK'
    BY <1>2, <1>4 DEF DownOK
  <1>7. ASSUME NEW j \in Ids \ {id}
        PROVE  SessionOK(j)'
    <2>1. Untouched(j)
      BY <1>1, <1>2, <1>3, <1>4, IdsAssumption DEF Untouched
    <2> QED BY <2>1, UntouchedStaysOK DEF RegistryInv
  <1>8. SessionOK(id)'
    <2>1. SessionOK(id) /\ pending[id] = NoSession
      BY <1>2 DEF RegistryInv, SessionOK, OnePlace
    <2>2. \A d \in Callers \ {c} : ~Holder(d, id)'
      <3>1. \A d \in Callers : ~Holder(d, id)
        BY <1>2, <2>1 DEF SessionOK, OnePlace
      <3> QED BY <1>2, <3>1 DEF Holder
    <2>3. OnePlace(id)'
      BY <1>3, <1>4, <2>1, <2>2 DEF OnePlace
    <2>4. Counted(id)'
      BY <1>1, <1>2, <1>4, <2>1 DEF SessionOK, Counted, Closer
    <2>5. Origin(id)'
      BY <1>1, <1>2, <1>3, <1>4, <2>1 DEF SessionOK, Origin
    <2>6. Erased(id)'
      BY <1>2, <1>4, <2>1 DEF SessionOK, Erased
    <2>7. Durable(id)'
      <3>1. \A d \in Callers : calls'[d].id = id => calls'[d].at # "building"
        BY <1>1, <1>2, <2>2 DEF Holder
      <3> QED BY <1>3, <1>4, <2>1, <3>1 DEF SessionOK, Durable
    <2> QED BY <2>3, <2>4, <2>5, <2>6, <2>7 DEF SessionOK
  <1> QED BY <1>5, <1>6, <1>7, <1>8 DEF RegistryInv

(* and so do its flush,                                                    *)
LEMMA CloseFlushedStep ==
    ASSUME NEW c \in Callers, RegistryInv, CloseFlushed(c)
    PROVE  RegistryInv'
  <1>1. PICK id \in Ids :
           /\ calls[c].id = id /\ Holder(c, id) /\ up = TRUE
           /\ live[id] = NoSession /\ pending[id] = NoSession
           /\ id \in forgotten => id \in raced \cup faulty
    BY HolderFacts DEF CloseFlushed
  <1> DEFINE releasing == [calls[c] EXCEPT !.at = "releasing"]
  <1>2. /\ releasing \in Requests /\ Shape(releasing) /\ releasing.at = "releasing"
        /\ releasing.id = id /\ releasing.op = calls[c].op
    BY <1>1 DEF RegistryInv, RegistryTypes, CloseFlushed, Requests, Shape, Idle
  <1>3. /\ calls' \in [Callers -> Requests] /\ calls'[c] = releasing
        /\ \A d \in Callers \ {c} : calls'[d] = calls[d]
        /\ calls[c].at = "closing"
    BY <1>2 DEF RegistryInv, RegistryTypes, CloseFlushed, Goto, Requests
  <1> HIDE DEF releasing
  <1>4. /\ UNCHANGED <<up, live, pending, runtimes, row, created, forgotten, named, raced, faulty>>
        /\ traces' = traces \cup {id}
    BY <1>1 DEF CloseFlushed, Saved, history
  <1>5. RegistryTypes'
    BY <1>2, <1>3, <1>4 DEF RegistryInv, RegistryTypes
  <1>6. DownOK'
    BY <1>1, <1>4 DEF DownOK
  <1>7. ASSUME NEW j \in Ids \ {id}
        PROVE  SessionOK(j)'
    <2>1. Untouched(j)
      BY <1>1, <1>2, <1>3, <1>4 DEF Untouched
    <2> QED BY <2>1, UntouchedStaysOK DEF RegistryInv
  <1>8. SessionOK(id)'
    <2>1. SessionOK(id)
      BY DEF RegistryInv
    <2>2. \A d \in Callers : (Holder(d, id)' <=> Holder(d, id)) /\ (Closer(d, id)' <=> Closer(d, id))
      BY <1>1, <1>2, <1>3 DEF Holder, Closer
    <2>3. OnePlace(id)' /\ Counted(id)'
      BY <1>4, <2>1, <2>2 DEF SessionOK, OnePlace, Counted
    <2>4. Origin(id)'
      BY <1>1, <1>2, <1>3, <1>4, <2>1 DEF SessionOK, Origin
    <2>5. Erased(id)'
      BY <1>1, <1>4 DEF Erased
    <2>6. Durable(id)'
      BY <1>2, <1>3, <1>4, <2>1 DEF SessionOK, Durable
    <2> QED BY <2>3, <2>4, <2>5, <2>6 DEF SessionOK
  <1> QED BY <1>5, <1>6, <1>7, <1>8 DEF RegistryInv

(* the end of the close,                                                   *)
LEMMA ClosedStep ==
    ASSUME NEW c \in Callers, RegistryInv, Closed(c)
    PROVE  RegistryInv'
  <1>1. PICK id \in Ids :
           /\ calls[c].id = id /\ Holder(c, id) /\ up = TRUE
           /\ live[id] = NoSession /\ pending[id] = NoSession /\ runtimes[id] = 1
           /\ \A d \in Callers \ {c} : ~Holder(d, id) /\ ~Closer(d, id)
           /\ id \in created
    <2>1. calls[c].op # "create"
      BY DEF RegistryInv, RegistryTypes, Shape, Closed, Idle
    <2> QED BY <2>1, HolderFacts DEF Closed
  <1>2. /\ calls' \in [Callers -> Requests] /\ calls'[c] = Idle
        /\ \A d \in Callers \ {c} : calls'[d] = calls[d]
        /\ UNCHANGED <<up, live, pending, created, named>>
    BY ReturnFacts DEF RegistryInv, Closed
  <1>3. /\ runtimes' \in [Ids -> 0..1] /\ runtimes'[id] = 0
        /\ \A j \in Ids \ {id} : runtimes'[j] = runtimes[j]
    BY <1>1 DEF RegistryInv, RegistryTypes, Closed
  <1>4. /\ row' \in [Ids -> Sessions]
        /\ (row'[id] = NoSession /\ id \notin traces') \/ id \in faulty'
        /\ row'[id] \in {row[id], NoSession}
        /\ \A j \in Ids \ {id} : row'[j] = row[j] /\ (j \in traces' => j \in traces)
        /\ faulty \subseteq faulty' /\ forgotten' = forgotten \cup {id}
    BY <1>1, ForgetFacts DEF RegistryInv, RegistryTypes, Closed
  <1>5. /\ \A j \in Ids \ {id} : j \in raced' <=> j \in raced
        /\ id \in raced' \/ \A d \in Callers \ {c} : calls[d].id # id
    <2>1. raced' = IF BusyWith(id) = {c} THEN raced ELSE raced \cup {id}
      BY <1>1 DEF Closed
    <2> QED BY <2>1 DEF BusyWith
  <1>6. RegistryTypes'
    BY <1>2, <1>3, <1>4 DEF RegistryInv, RegistryTypes, Shape, Idle
  <1>7. DownOK'
    BY <1>1, <1>2 DEF DownOK
  <1>8. ASSUME NEW j \in Ids \ {id}
        PROVE  SessionOK(j)'
    <2>1. Untouched(j)
      BY <1>1, <1>2, <1>3, <1>4, <1>5, IdsAssumption DEF Untouched, Idle
    <2> QED BY <2>1, UntouchedStaysOK DEF RegistryInv
  <1>9. SessionOK(id)'
    <2>1. SessionOK(id)
      BY DEF RegistryInv
    <2>2. /\ calls'[c].id # id
          /\ \A d \in Callers : calls'[d].id = id => calls'[d] = calls[d]
          /\ \A d \in Callers : ~Holder(d, id)' /\ ~Closer(d, id)'
      BY <1>1, <1>2, IdsAssumption DEF Idle, Holder, Closer
    <2>3. OnePlace(id)' /\ Counted(id)'
      BY <1>1, <1>2, <1>3, <2>2 DEF OnePlace, Counted
    <2>4. Origin(id)'
      BY <1>1, <1>2, <2>1, <2>2 DEF SessionOK, Origin
    <2>5. Erased(id)'
      <3>1. id \in raced' \/ \A d \in Callers : calls'[d].id # id
        BY <1>2, <1>5, <2>2
      <3> QED BY <1>1, <1>2, <1>4, <3>1 DEF Erased
    <2>6. Durable(id)'
      BY <1>4 DEF Durable
    <2> QED BY <2>3, <2>4, <2>5, <2>6 DEF SessionOK
  <1> QED BY <1>6, <1>7, <1>8, <1>9 DEF RegistryInv

(* and the erasure of a session that was not in memory.                    *)
LEMMA EraseRecordStep ==
    ASSUME NEW c \in Callers, NEW id \in Ids, RegistryInv, EraseRecord(c, id)
    PROVE  RegistryInv'
  <1>1. /\ pending' \in [Ids -> Sessions] /\ pending'[id] = NoSession /\ live[id] = NoSession
        /\ \A j \in Ids \ {id} : pending'[j] = pending[j]
        /\ UNCHANGED <<up, live, runtimes, calls, created, named>> /\ up
    BY SessionFacts DEF RegistryInv, RegistryTypes, EraseRecord
  <1>2. /\ row' \in [Ids -> Sessions]
        /\ (row'[id] = NoSession /\ id \notin traces') \/ id \in faulty'
        /\ row'[id] \in {row[id], NoSession}
        /\ \A j \in Ids \ {id} : row'[j] = row[j] /\ (j \in traces' => j \in traces)
        /\ faulty \subseteq faulty' /\ forgotten' = forgotten \cup {id}
    BY ForgetFacts DEF RegistryInv, RegistryTypes, EraseRecord
  <1>3. /\ \A j \in Ids \ {id} : j \in raced' <=> j \in raced
        /\ id \in raced' \/ \A d \in Callers : calls[d].id # id
    BY DEF EraseRecord, BusyWith
  <1>4. RegistryTypes'
    BY <1>1, <1>2 DEF RegistryInv, RegistryTypes
  <1>5. DownOK'
    BY <1>1 DEF DownOK
  <1>6. ASSUME NEW j \in Ids \ {id}
        PROVE  SessionOK(j)'
    <2>1. Untouched(j)
      BY <1>1, <1>2, <1>3 DEF Untouched
    <2> QED BY <2>1, UntouchedStaysOK DEF RegistryInv
  <1>7. SessionOK(id)'
    <2>1. SessionOK(id)
      BY DEF RegistryInv
    <2>2. OnePlace(id)' /\ Counted(id)' /\ Origin(id)'
      BY <1>1, <1>2, <2>1 DEF SessionOK, OnePlace, Counted, Origin, Holder, Closer
    <2>3. Erased(id)' /\ Durable(id)'
      BY <1>1, <1>2, <1>3 DEF Erased, Durable
    <2> QED BY <2>2, <2>3 DEF SessionOK
  <1> QED BY <1>4, <1>5, <1>6, <1>7 DEF RegistryInv

---------------------------------------------------------------------------
(* What a live session does by itself *)

\* A title was derived or generated: of the invariants, only Durable looks at it.
LEMMA RetitledStep ==
    ASSUME NEW id \in Ids, RegistryInv, live[id] # NoSession, live' \in [Ids -> Sessions],
           live'[id] # NoSession, live[id] = Manual => live'[id] = Manual,
           \A j \in Ids \ {id} : live'[j] = live[j],
           UNCHANGED <<up, pending, runtimes, calls, disk, history>>
    PROVE  RegistryInv'
  <1>1. UNCHANGED <<up, pending, runtimes, calls, row, traces, created, forgotten, named, raced, faulty>>
    BY DEF disk, history
  <1>2. RegistryTypes'
    BY <1>1 DEF RegistryInv, RegistryTypes
  <1>3. DownOK'
    BY <1>1 DEF RegistryInv, DownOK
  <1>4. ASSUME NEW j \in Ids \ {id}
        PROVE  SessionOK(j)'
    <2>1. Untouched(j)
      BY <1>1 DEF Untouched
    <2> QED BY <2>1, UntouchedStaysOK DEF RegistryInv
  <1>5. SessionOK(id)'
    <2>1. SessionOK(id)
      BY DEF RegistryInv
    <2>2. OnePlace(id)' /\ Counted(id)' /\ Origin(id)'
      BY <1>1, <2>1 DEF SessionOK, OnePlace, Counted, Origin, Holder, Closer
    <2>3. Erased(id)' /\ Durable(id)'
      BY <1>1, <2>1 DEF SessionOK, Erased, Durable
    <2> QED BY <2>2, <2>3 DEF SessionOK
  <1> QED BY <1>2, <1>3, <1>4, <1>5 DEF RegistryInv

(* A title that arrives makes no record of it a manual one.                *)
LEMMA Retitled ==
    ASSUME NEW s \in Sessions, s.title = "" \/ s.source # "manual"
    PROVE  [s EXCEPT !.title = "auto"] \in Sessions \ {NoSession} /\ s # Manual
  <1> DEFINE new == [s EXCEPT !.title = "auto"]
  <1>1. new \in Sessions
    BY DEF Sessions, Titles
  <1>2. new.title = "auto"
    BY DEF Sessions
  <1>3. NoSession.title = ""
    BY DEF NoSession
  <1>4. Manual.title = "manual" /\ Manual.source = "manual"
    BY DEF Manual
  <1> QED BY <1>1, <1>2, <1>3, <1>4

(* Asking for a title and its arrival preserve the invariant.              *)
LEMMA TitleStep ==
    ASSUME NEW id \in Ids, RegistryInv, FirstPrompt(id) \/ TitleArrives(id)
    PROVE  RegistryInv'
  <1>1. /\ live[id] \in Sessions \ {NoSession}
        /\ UNCHANGED <<up, pending, runtimes, calls, disk, history>>
    BY DEF RegistryInv, RegistryTypes, FirstPrompt, TitleArrives
  <1>2. CASE live' = live
    BY <1>1, <1>2, RetitledStep DEF RegistryInv, RegistryTypes
  <1>3. CASE live' = [live EXCEPT ![id].title = "auto"] /\ (live[id].title = "" \/ live[id].source # "manual")
    <2>1. /\ live' \in [Ids -> Sessions] /\ live'[id] = [live[id] EXCEPT !.title = "auto"]
          /\ \A j \in Ids \ {id} : live'[j] = live[j]
      BY <1>1, <1>3, Retitled DEF RegistryInv, RegistryTypes
    <2> QED BY <1>1, <1>3, <2>1, Retitled, RetitledStep
  <1> QED BY <1>2, <1>3 DEF FirstPrompt, TitleArrives

(* So does a flush of a live session.                                      *)
LEMMA FlushStep ==
    ASSUME NEW id \in Ids, RegistryInv, Flush(id)
    PROVE  RegistryInv'
  <1>1. /\ UNCHANGED <<up, live, pending, runtimes, calls, row, created, forgotten, named, raced, faulty>>
        /\ traces' = traces \cup {id} /\ live[id] # NoSession
    BY DEF Flush, Saved, memory, history
  <1>2. RegistryTypes' /\ DownOK'
    BY <1>1 DEF RegistryInv, RegistryTypes, DownOK
  <1>3. ASSUME NEW j \in Ids
        PROVE  SessionOK(j)'
    <2>1. SessionOK(j)
      BY DEF RegistryInv
    <2>2. OnePlace(j)' /\ Counted(j)' /\ Origin(j)'
      BY <1>1, <2>1 DEF SessionOK, OnePlace, Counted, Origin, Holder, Closer
    <2>3. Erased(j)' /\ Durable(j)'
      BY <1>1, <2>1 DEF SessionOK, Erased, Durable
    <2> QED BY <2>2, <2>3 DEF SessionOK
  <1> QED BY <1>2, <1>3 DEF RegistryInv

---------------------------------------------------------------------------
(* The process *)

(* The end of the process preserves the invariant, with whatever was       *)
(* flushed.                                                                *)
LEMMA GoneStep ==
    ASSUME RegistryInv, Gone,
           \A id \in Ids : id \in traces' => id \in traces \/ live[id] # NoSession
    PROVE  RegistryInv'
  <1>1. /\ up' = FALSE /\ \A id \in Ids : live'[id] = NoSession /\ pending'[id] = NoSession /\ runtimes'[id] = 0
        /\ \A c \in Callers : calls'[c] = Idle
        /\ UNCHANGED <<row, created, forgotten, named, raced, faulty>>
    BY DEF Gone
  <1>2. RegistryTypes'
    <2>1. Idle \in Requests /\ NoSession \in Sessions
      BY SessionFacts DEF Idle, Requests
    <2>2. live' \in [Ids -> Sessions] /\ pending' \in [Ids -> Sessions] /\ runtimes' \in [Ids -> 0..1]
      BY <2>1 DEF Gone
    <2>3. calls' \in [Callers -> Requests]
      BY <2>1 DEF Gone
    <2>4. \A c \in Callers : Shape(calls'[c]) /\ calls'[c].at # "building"
      BY <1>1 DEF Shape, Idle
    <2> QED BY <1>1, <2>2, <2>3, <2>4 DEF RegistryInv, RegistryTypes
  <1>3. DownOK'
    BY <1>1 DEF DownOK
  <1>4. ASSUME NEW j \in Ids
        PROVE  SessionOK(j)'
    <2>1. SessionOK(j)
      BY DEF RegistryInv
    <2>2. \A c \in Callers : calls'[c].id # j
      BY <1>1, IdsAssumption DEF Idle
    <2>3. OnePlace(j)' /\ Counted(j)'
      BY <1>1, <2>2 DEF OnePlace, Counted, Holder, Closer
    <2>4. Origin(j)' /\ Erased(j)' /\ Durable(j)'
      BY <1>1, <2>1, <2>2 DEF SessionOK, Origin, Erased, Durable
    <2> QED BY <2>3, <2>4 DEF SessionOK
  <1> QED BY <1>2, <1>3, <1>4 DEF RegistryInv

(* So does the next start.                                                 *)
LEMMA BootStep ==
    ASSUME RegistryInv, Boot
    PROVE  RegistryInv'
  <1>1. /\ \A id \in Ids : live'[id] = NoSession /\ runtimes'[id] = 0 /\ pending'[id] = row[id]
        /\ \A c \in Callers : calls'[c] = Idle
        /\ up' = TRUE
        /\ UNCHANGED <<live, runtimes, calls, row, traces, created, forgotten, named, raced, faulty>>
    BY DEF Boot, RegistryInv, DownOK, disk, history
  <1>2. RegistryTypes' /\ DownOK'
    BY <1>1 DEF RegistryInv, RegistryTypes, DownOK, Boot
  <1>3. ASSUME NEW j \in Ids
        PROVE  SessionOK(j)'
    <2>1. SessionOK(j)
      BY DEF RegistryInv
    <2>2. \A c \in Callers : calls'[c].id # j
      BY <1>1, IdsAssumption DEF Idle
    <2>3. OnePlace(j)' /\ Counted(j)'
      BY <1>1, <2>2 DEF OnePlace, Counted, Holder, Closer
    <2>4. Origin(j)' /\ Erased(j)' /\ Durable(j)'
      BY <1>1, <2>1, <2>2 DEF SessionOK, Origin, Erased, Durable
    <2> QED BY <2>3, <2>4 DEF SessionOK
  <1> QED BY <1>2, <1>3 DEF RegistryInv

---------------------------------------------------------------------------
(* An empty registry satisfies the invariant.                              *)
LEMMA RegistryBegins == Init => RegistryInv
  <1> SUFFICES ASSUME Init PROVE RegistryInv
    OBVIOUS
  <1>1. Idle \in Requests /\ NoSession \in Sessions
    BY SessionFacts DEF Idle, Requests
  <1>2. RegistryTypes
    BY <1>1 DEF Init, RegistryTypes, Shape, Idle
  <1>3. DownOK
    BY DEF Init, DownOK
  <1>4. \A j \in Ids : SessionOK(j)
    BY IdsAssumption DEF Init, SessionOK, OnePlace, Counted, Origin, Erased, Durable, Holder, Closer, Idle
  <1> QED BY <1>2, <1>3, <1>4 DEF RegistryInv

(* A step that changes nothing preserves it.                               *)
LEMMA RegistryStutters ==
    ASSUME RegistryInv, UNCHANGED registryVars
    PROVE  RegistryInv'
  <1>1. UNCHANGED <<up, live, pending, runtimes, calls, row, traces, created, forgotten, named, raced, faulty>>
    BY DEF registryVars, memory, disk, history
  <1> QED BY <1>1 DEF RegistryInv, RegistryTypes, DownOK, SessionOK, OnePlace, Counted, Origin, Erased, Durable,
                      Holder, Closer

(* Every step of the registry preserves it.                                *)
LEMMA RegistryStep == RegistryInv /\ [Next]_registryVars => RegistryInv'
  <1> SUFFICES ASSUME RegistryInv, [Next]_registryVars PROVE RegistryInv'
    OBVIOUS
  <1>1. ASSUME NEW c \in Callers, NEW id \in Ids,
               \/ Create(c, id) \/ RenameLive(c, id) \/ StartClose(c, id) \/ EraseRecord(c, id)
               \/ \E op \in {"open", "rename"} : TakeRecord(c, op, id)
        PROVE  RegistryInv'
    BY <1>1, CreateStep, RenameLiveStep, StartCloseStep, EraseRecordStep, TakeRecordStep
  <1>2. ASSUME NEW c \in Callers,
               \/ Created(c) \/ Rebuilt(c) \/ BuildFails(c) \/ Opened(c) \/ CloseFlushed(c) \/ Closed(c)
        PROVE  RegistryInv'
    BY <1>2, CreatedStep, RebuiltStep, BuildFailsStep, OpenedStep, CloseFlushedStep, ClosedStep
  <1>3. ASSUME NEW id \in Ids, FirstPrompt(id) \/ TitleArrives(id) \/ Flush(id)
        PROVE  RegistryInv'
    BY <1>3, TitleStep, FlushStep
  <1>4. CASE Crash
    BY <1>4, GoneStep DEF Crash
  <1>5. CASE Shutdown
    BY <1>5, GoneStep DEF Shutdown, Saved
  <1>6. CASE Boot
    BY <1>6, BootStep
  <1>7. CASE UNCHANGED registryVars
    BY <1>7, RegistryStutters
  <1> QED BY <1>1, <1>2, <1>3, <1>4, <1>5, <1>6, <1>7 DEF Next

(* It holds in every reachable state.                                      *)
LEMMA RegistryInvariant == Spec => []RegistryInv
  BY RegistryBegins, RegistryStep, PTL DEF Spec

\* For any number of ids, callers, restarts and failing stores: two requests that meet
\* while a session is rebuilt, opened or deleted never give it two runtimes, and never
\* leave one that neither DELETE nor shutdown can find.
THEOREM RuntimesAreReachable == Spec => []RuntimeIsReachable
  <1>1. RegistryInv => RuntimeIsReachable
    <2> SUFFICES ASSUME RegistryInv, NEW id \in Ids
                 PROVE  /\ runtimes[id] <= 1
                        /\ runtimes[id] = 1 <=> \/ live[id] # NoSession
                                                \/ \E c \in BusyWith(id) : calls[c].at \in {"closing", "releasing"}
      BY DEF RuntimeIsReachable
    <2>1. Counted(id)
      BY DEF RegistryInv, SessionOK
    <2>2. (\E c \in BusyWith(id) : calls[c].at \in {"closing", "releasing"})
             <=> \E c \in Callers : Closer(c, id)
      BY DEF Closer, BusyWith
    <2> QED BY <2>1, <2>2 DEF Counted
  <1> QED BY <1>1, RegistryInvariant, PTL

\* What a delete erased is in no table, in no call and in no store, after any number
\* of later calls, restarts and crashes.
THEOREM DeletesStand == Spec => []DeletedStaysDeleted
  <1>1. RegistryInv => DeletedStaysDeleted
    <2> SUFFICES ASSUME RegistryInv, NEW id \in forgotten \ (raced \cup faulty)
                 PROVE  ~Known(id) /\ BusyWith(id) = {} /\ row[id] = NoSession /\ id \notin traces
      BY DEF DeletedStaysDeleted
    <2>1. Erased(id)
      BY DEF RegistryInv, RegistryTypes, SessionOK
    <2> QED BY <2>1 DEF Erased, Known, BusyWith
  <1> QED BY <1>1, RegistryInvariant, PTL

\* A created session is on disk until it is erased, and its manual title is the one on
\* disk, in memory and in the hands of whoever rebuilds it.
THEOREM RecordsAreDurable == Spec => []RecordIsDurable
  <1>1. RegistryInv => RecordIsDurable
    <2> SUFFICES ASSUME RegistryInv, NEW id \in created \ (forgotten \cup faulty)
                 PROVE  /\ row[id] # NoSession
                        /\ id \in named => /\ row[id] = [title |-> "manual", source |-> "manual"]
                                           /\ live[id] \in {NoSession, row[id]} /\ pending[id] \in {NoSession, row[id]}
      BY DEF RecordIsDurable
    <2>1. Durable(id)
      BY DEF RegistryInv, RegistryTypes, SessionOK
    <2> QED BY <2>1 DEF Durable, Manual
  <1> QED BY <1>1, RegistryInvariant, PTL

\* Type correctness of the registry.
THEOREM Typing == Spec => []RegistryTypes
  <1>1. RegistryInv => RegistryTypes
    BY DEF RegistryInv
  <1> QED BY <1>1, RegistryInvariant, PTL
=============================================================================
